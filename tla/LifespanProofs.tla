---------------------------- MODULE LifespanProofs ----------------------------
(***************************************************************************)
(* The life of the process for any number of overlapping probes, any TTL   *)
(* and any sequence of outages: nothing stays open when the startup fails  *)
(* or the process ends, and a ready answer was true within the TTL.        *)
(***************************************************************************)
EXTENDS Lifespan, TLAPS

(* What is open is decided by how far the startup came. *)
OpenedInOrder ==
    /\ phase \in {"created", "closed"} => opened = {}
    /\ phase \in {"connected", "readonly"} => opened = {"readonly"}
    /\ phase \in {"owner", "catalog", "retriever", "model", "answerer"}
         => opened = {"readonly", "owner"}
    /\ phase = "serving" => opened = Things

(* The history variable is honest: what answers now has answered now. *)
LastUpDated ==
    \A d \in Deps : lastUp[d] <= now /\ (d \in up => lastUp[d] = now)

(* The cache is dated by a moment since which all that it lists answered. *)
CacheDated ==
    cached.held => /\ cached.at <= now
                   /\ \A d \in cached.up : lastUp[d] >= cached.at

(* So is a refresh under way; a call that has not answered says nothing. *)
SeenDated ==
    \A p \in Probers :
      /\ probe[p] = "idle" => seen[p] = {}
      /\ probe[p] # "done" => answer[p] = Silent
      /\ began[p] <= now
      /\ \A d \in seen[p] : lastUp[d] >= began[p]

(* The inductive invariant. *)
IInv == TypeOK /\ OpenedInOrder /\ LastUpDated /\ CacheDated /\ SeenDated /\ ReadyWasTrue

(* Least, of the times of two dependencies, is a lower bound that is met. *)
LEMMA LeastOfTwo ==
  ASSUME NEW f \in [Deps -> Nat]
  PROVE  /\ Least({f[d] : d \in Deps}) \in Nat
         /\ \E d \in Deps : Least({f[e] : e \in Deps}) = f[d]
<1> DEFINE S == {f[d] : d \in Deps}
<1>1. \E x \in S : \A y \in S : x <= y
  BY DEF Deps
<1>2. Least(S) \in S
  BY <1>1 DEF Least
<1> QED
  BY <1>2

(* Init establishes the inductive invariant. *)
LEMMA InitIInv == Init => IInv
<1> SUFFICES ASSUME Init PROVE IInv
  OBVIOUS
<1>1. Silent \in [from : {"none", "startup", "cache", "refresh"}, ready : BOOLEAN,
                  at : Nat, since : Nat]
  BY DEF Silent
<1>2. TypeOK
  BY <1>1 DEF Init, TypeOK, Phases, NoCache
<1>3. OpenedInOrder /\ LastUpDated /\ CacheDated
  BY DEF Init, OpenedInOrder, LastUpDated, CacheDated, NoCache
<1>4. SeenDated /\ ReadyWasTrue
  BY DEF Init, SeenDated, ReadyWasTrue, Silent
<1> QED
  BY <1>2, <1>3, <1>4 DEF IInv

(* Outages and the clock only make the dates older than the history. *)
LEMMA EnvironmentStep ==
  ASSUME IInv, Environment PROVE IInv'
<1> USE DEF IInv, TypeOK, OpenedInOrder, LastUpDated, CacheDated, SeenDated, ReadyWasTrue,
            life, calls, world
<1>1. CASE Tick
  <2>1. /\ now' = now + 1
        /\ lastUp' = [d \in Deps |-> IF d \in up THEN now + 1 ELSE lastUp[d]]
        /\ UNCHANGED <<phase, opened, service, up, writes, indexed, probe, began, seen, answer,
                       probes, cached>>
    BY <1>1 DEF Tick
  <2>2. lastUp' \in [Deps -> Nat] /\ \A d \in Deps : lastUp'[d] >= lastUp[d]
    BY <2>1
  <2>3. TypeOK' /\ OpenedInOrder' /\ LastUpDated'
    BY <2>1, <2>2
  <2>4. CacheDated' /\ SeenDated' /\ ReadyWasTrue'
    BY <2>1, <2>2
  <2> QED
    BY <2>3, <2>4
<1>2. ASSUME NEW d \in Deps, Flip(d) PROVE IInv'
  <2>1. /\ up' \subseteq Deps
        /\ lastUp' = [lastUp EXCEPT ![d] = now]
        /\ \A e \in Deps : e # d => (e \in up' <=> e \in up)
        /\ UNCHANGED <<phase, opened, service, now, writes, indexed, probe, began, seen, answer,
                       probes, cached>>
    BY <1>2 DEF Flip
  <2>2. lastUp' \in [Deps -> Nat] /\ \A e \in Deps : lastUp'[e] >= lastUp[e]
    BY <2>1
  <2>3. TypeOK' /\ OpenedInOrder' /\ LastUpDated'
    BY <2>1, <2>2
  <2>4. CacheDated' /\ SeenDated' /\ ReadyWasTrue'
    BY <2>1, <2>2
  <2> QED
    BY <2>3, <2>4
<1>3. CASE Grant
  BY <1>3 DEF Grant
<1> QED
  BY <1>1, <1>2, <1>3 DEF Environment

(* The startup opens in order, and every failure closes everything. *)
LEMMA StartupStep ==
  ASSUME IInv, Startup \/ Stop PROVE IInv'
<1> USE DEF IInv, TypeOK, OpenedInOrder, LastUpDated, CacheDated, SeenDated, ReadyWasTrue,
            life, calls, world, Phases, Things
<1>1. CASE Stop
  BY <1>1 DEF Stop, CloseAll
<1>2. CASE Connect
  BY <1>2 DEF Connect, Reach
<1>3. CASE Prove
  BY <1>3 DEF Prove, CloseAll
<1>4. CASE OpenOwner
  BY <1>4 DEF OpenOwner, Reach
<1>5. CASE LoadCatalog \/ BuildRetriever \/ LoadModel \/ BuildAnswerer
  BY <1>5 DEF LoadCatalog, BuildRetriever, LoadModel, BuildAnswerer, Reach
<1>6. CASE Serve
  <2>1. CASE UNCHANGED <<service, probes, cached>>
    BY <1>6, <2>1 DEF Serve, CloseAll
  <2>2. CASE cached' = NoCache /\ phase' = "serving" /\ opened' = opened \cup {"pool"}
             /\ service' = TRUE /\ probes' = TRUE
    <3>1. cached' \in [at : Nat, up : SUBSET Deps, held : BOOLEAN] /\ ~cached'.held
      BY <2>2 DEF NoCache
    <3> QED
      BY <1>6, <2>2, <3>1 DEF Serve
  <2> QED
    BY <1>6, <2>1, <2>2 DEF Serve
<1> QED
  BY <1>1, <1>2, <1>3, <1>4, <1>5, <1>6 DEF Startup

(* A probe keeps the dates of the cache and of its own answer. *)
LEMMA StatusStep ==
  ASSUME IInv, NEW p \in Probers, Status(p) PROVE IInv'
<1> USE DEF IInv, TypeOK, OpenedInOrder, LastUpDated, CacheDated, SeenDated, ReadyWasTrue,
            life, calls, world
<1> DEFINE since == Least({lastUp[d] : d \in Deps})
<1>0. since \in Nat /\ \E d \in Deps : since = lastUp[d]
  BY LeastOfTwo
<1> HIDE DEF since
<1>1. CASE AskDuringStartup(p)
  <2>1. answer' = [answer EXCEPT ![p] = [from |-> "startup", ready |-> FALSE, at |-> now,
                                         since |-> since]]
    BY <1>1 DEF AskDuringStartup, Reply, Deps, since
  <2> QED
    BY <1>0, <1>1, <2>1 DEF AskDuringStartup, Reply
<1>2. CASE AskCached(p)
  <2>0. PICK yes \in BOOLEAN : yes = (cached.up = Deps)
    OBVIOUS
  <2>1. answer' = [answer EXCEPT ![p] = [from |-> "cache", ready |-> yes, at |-> now, since |-> since]]
    BY <1>2, <2>0 DEF AskCached, Reply, since
  <2>2. yes => now - since < Ttl
    <3>1. yes => cached.up = Deps
      BY <2>0, Zenon
    <3> QED
      BY <1>0, <1>2, <3>1, TtlAssumption DEF AskCached, Fresh
  <2>3. TypeOK' /\ OpenedInOrder' /\ LastUpDated' /\ CacheDated'
    <3>1. [from |-> "cache", ready |-> yes, at |-> now, since |-> since]
            \in [from : {"none", "startup", "cache", "refresh"}, ready : BOOLEAN,
                 at : Nat, since : Nat]
      BY <1>0
    <3> QED
      BY <1>2, <2>1, <3>1 DEF AskCached, Reply
  <2>4. SeenDated'
    BY <1>2, <2>1 DEF AskCached, Reply
  <2>5. ReadyWasTrue'
    BY <1>0, <1>2, <2>1, <2>2 DEF AskCached
  <2> QED
    BY <2>3, <2>4, <2>5
<1>3. CASE AskRefresh(p)
  BY <1>3 DEF AskRefresh, Silent, Deps
<1>4. CASE Run(p)
  BY <1>4 DEF Run, Deps
<1>5. CASE Store(p)
  <2>0. PICK yes \in BOOLEAN : yes = (seen[p] = Deps)
    OBVIOUS
  <2>1. answer' = [answer EXCEPT ![p] = [from |-> "refresh", ready |-> yes, at |-> now, since |-> since]]
    BY <1>5, <2>0 DEF Store, Reply, since
  <2>2. yes => since >= began[p]
    <3>1. yes => seen[p] = Deps
      BY <2>0, Zenon
    <3> QED
      BY <1>0, <3>1
  <2>3. TypeOK' /\ OpenedInOrder' /\ LastUpDated' /\ CacheDated'
    <3>1. [from |-> "refresh", ready |-> yes, at |-> now, since |-> since]
            \in [from : {"none", "startup", "cache", "refresh"}, ready : BOOLEAN,
                 at : Nat, since : Nat]
      BY <1>0
    <3>2. [at |-> began[p], up |-> seen[p], held |-> TRUE]
            \in [at : Nat, up : SUBSET Deps, held : BOOLEAN]
      OBVIOUS
    <3> QED
      BY <1>5, <2>1, <3>1, <3>2 DEF Store, Reply
  <2>4. SeenDated'
    BY <1>5, <2>1 DEF Store, Reply
  <2>5. ReadyWasTrue'
    BY <1>0, <1>5, <2>1, <2>2 DEF Store
  <2> QED
    BY <2>3, <2>4, <2>5
<1> QED
  BY <1>1, <1>2, <1>3, <1>4, <1>5 DEF Status

(* The inductive invariant holds in every reachable state. *)
THEOREM SpecIInv == Spec => []IInv
<1>1. IInv /\ [Next]_vars => IInv'
  <2> SUFFICES ASSUME IInv, [Next]_vars PROVE IInv'
    OBVIOUS
  <2>1. CASE UNCHANGED vars
    BY <2>1 DEF vars, life, world, calls, IInv, TypeOK, OpenedInOrder, LastUpDated, CacheDated,
                SeenDated, ReadyWasTrue
  <2> QED
    BY <2>1, EnvironmentStep, StartupStep, StatusStep DEF Next
<1> QED
  BY <1>1, InitIInv, PTL DEF Spec

(* Wherever the startup fails (composition/resources.py, api/app.py), and   *)
(* at shutdown, nothing stays open; a serving process has all it needs.     *)
THEOREM NeverLeaks == Spec => []NothingLeaks
<1>1. IInv => NothingLeaks
  BY DEF IInv, OpenedInOrder, NothingLeaks
<1> QED
  BY <1>1, SpecIInv, PTL

(* A ready answer of api/health.py was true: within the TTL if it came from *)
(* the cache, since the call began if it did not, for any number of probes  *)
(* that overlap and overtake each other.                                    *)
THEOREM ReadyIsTrue == Spec => []ReadyWasTrue
<1>1. IInv => ReadyWasTrue
  BY DEF IInv
<1> QED
  BY <1>1, SpecIInv, PTL
===============================================================================
