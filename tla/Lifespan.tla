------------------------------- MODULE Lifespan -------------------------------
(***************************************************************************)
(* The life of one API process: the lifespan opens every dependency in a   *)
(* fixed order and closes them all whatever happens; /ready probes two of  *)
(* them on a worker thread and reuses the answer for a moment.             *)
(*                                                                         *)
(* The startup has no await, so no probe interleaves with it; the database *)
(* does what it likes throughout.  A probe is one coroutine with a single  *)
(* await, the refresh on a thread, and any number of them overlap.         *)
(***************************************************************************)
EXTENDS Naturals

CONSTANTS Probers,     \* calls of GET /ready, each made once
          Models,      \* embedding models an operator may have indexed for
          Model,       \* the one this process is configured with
          Ttl,         \* READINESS_TTL_SECONDS
          MaxTime      \* bound on the clock

ASSUME TtlAssumption == Ttl \in Nat \ {0} /\ MaxTime \in Nat /\ Model \in Models

VARIABLES
    phase,      \* the last thing the lifespan completed
    opened,     \* what is open on the database side
    service,    \* app.state.query_service is a QueryService
    probes,     \* Readiness._probes is configured
    cached,     \* Readiness._cached
    now,        \* time.monotonic()
    up,         \* databases that answer (external)
    lastUp,     \* when each last answered (history)
    writes,     \* the role behind DATABASE_RO_URL can write (external)
    indexed,    \* models the dataset has rows for in the catalog (external)
    probe,      \* where each call of status() is
    began,      \* the time each call read on entering
    seen,       \* the probes of its refresh that came back up
    answer      \* what it answered

life == <<phase, opened, service>>
world == <<up, lastUp, writes, indexed, now>>
calls == <<probe, began, seen, answer>>
vars == <<life, world, calls, probes, cached>>

Deps == {"database", "database_readonly"}
Things == {"readonly", "owner", "pool"}
Phases == {"created", "connected", "readonly", "owner", "catalog", "retriever",
           "model", "answerer", "serving", "closed"}
NoCache == [at |-> 0, up |-> {}, held |-> FALSE]
Silent == [from |-> "none", ready |-> FALSE, at |-> 0, since |-> 0]

Least(S) == CHOOSE x \in S : \A y \in S : x <= y

Init ==
    /\ phase = "created" /\ opened = {} /\ service = FALSE
    /\ probes = FALSE /\ cached = NoCache
    /\ now = 0
    /\ up = Deps /\ lastUp = [d \in Deps |-> 0]
    /\ writes \in BOOLEAN
    /\ indexed \in SUBSET Models
    /\ probe = [p \in Probers |-> "idle"]
    /\ began = [p \in Probers |-> 0]
    /\ seen = [p \in Probers |-> {}]
    /\ answer = [p \in Probers |-> Silent]

-------------------------------------------------------------------------------
(* The environment: time, outages and an operator changing grants. *)

Tick ==
    /\ now < MaxTime
    /\ now' = now + 1
    /\ lastUp' = [d \in Deps |-> IF d \in up THEN now + 1 ELSE lastUp[d]]
    /\ UNCHANGED <<life, up, writes, indexed, calls, probes, cached>>

Flip(d) ==
    /\ up' = IF d \in up THEN up \ {d} ELSE up \cup {d}
    /\ lastUp' = [lastUp EXCEPT ![d] = now]
    /\ UNCHANGED <<life, now, writes, indexed, calls, probes, cached>>

Grant ==
    /\ writes' = ~writes
    /\ UNCHANGED <<life, now, up, lastUp, indexed, calls, probes, cached>>

-------------------------------------------------------------------------------
(* _lifespan.  Every step either completes or raises into the `finally`. *)

(* Resources.close(): the pool, then the owner and the read-only connection. *)
CloseAll ==
    /\ phase' = "closed"
    /\ opened' = {}

(* Shutdown, or a failure of what the step needs: the retriever and the     *)
(* owner use one database, the rest the other; the embedding model's file   *)
(* and the provider's configuration may be missing.                         *)
Stop ==
    /\ \/ phase = "serving"
       \/ phase \in {"created", "answerer"} /\ "database_readonly" \notin up
       \/ phase \in {"readonly", "owner", "catalog"} /\ "database" \notin up
       \/ phase = "owner" /\ indexed = {}
       \/ phase \in {"retriever", "model"}
    /\ CloseAll
    /\ UNCHANGED <<service, world, calls, probes, cached>>

Reach(from, to, things) ==
    /\ phase = from
    /\ phase' = to
    /\ opened' = opened \cup things
    /\ UNCHANGED <<service, world, calls, probes, cached>>

(* Resources.readonly connects; it keeps the connection only once proved. *)
Connect == "database_readonly" \in up /\ Reach("created", "connected", {"readonly"})

(* Mutant: a connection that fails its proof is dropped, not closed. *)
ProveWithoutClosing ==
    /\ phase = "connected"
    /\ \/ /\ ~writes /\ "database_readonly" \in up
          /\ phase' = "readonly"
       \/ /\ writes \/ "database_readonly" \notin up
          /\ phase' = "closed"
    /\ UNCHANGED <<opened, service, world, calls, probes, cached>>

(* assert_read_only and the search path; on failure the connection, which   *)
(* close() does not know yet, is closed before the exception travels.       *)
Prove ==
    /\ phase = "connected"
    /\ \/ /\ ~writes /\ "database_readonly" \in up
          /\ phase' = "readonly"
          /\ UNCHANGED opened
       \/ /\ writes \/ "database_readonly" \notin up
          /\ CloseAll
    /\ UNCHANGED <<service, world, calls, probes, cached>>

OpenOwner == "database" \in up /\ Reach("readonly", "owner", {"owner"})

(* Resources.catalog refuses a dataset with no rows, of whatever model. *)
LoadCatalog == "database" \in up /\ indexed # {} /\ Reach("owner", "catalog", {})

(* SchemaRetriever.__init__ asks the owner connection two questions. *)
BuildRetriever == "database" \in up /\ Reach("catalog", "retriever", {})

(* retriever.dimensions opens the model's file. *)
LoadModel == Reach("retriever", "model", {})

BuildAnswerer == Reach("model", "answerer", {})

(* build_executor opens the pool and waits until its connections are        *)
(* proved, then the service is published and the probes are installed.      *)
(* A pool that cannot be filled is closed and the startup fails.            *)
Serve ==
    /\ phase = "answerer"
    /\ \/ /\ "database_readonly" \in up /\ ~writes
          /\ phase' = "serving"
          /\ opened' = opened \cup {"pool"}
          /\ service' = TRUE /\ probes' = TRUE
          /\ cached' = NoCache
       \/ /\ writes
          /\ CloseAll
          /\ UNCHANGED <<service, probes, cached>>
    /\ UNCHANGED <<world, calls>>

-------------------------------------------------------------------------------
(* Readiness.status, called by GET /ready. *)

Reply(p, from, healthy) ==
    /\ probe' = [probe EXCEPT ![p] = "done"]
    /\ answer' = [answer EXCEPT ![p] =
                    [from |-> from, ready |-> healthy = Deps, at |-> now,
                     since |-> Least({lastUp[d] : d \in Deps})]]

AskDuringStartup(p) ==
    /\ probe[p] = "idle" /\ phase = "created"
    /\ ~probes
    /\ Reply(p, "startup", {})
    /\ UNCHANGED <<life, world, probes, cached, began, seen>>

Fresh == cached.held /\ now - cached.at < Ttl

AskCached(p) ==
    /\ probe[p] = "idle" /\ phase = "serving"
    /\ probes /\ Fresh
    /\ Reply(p, "cache", cached.up)
    /\ UNCHANGED <<life, world, probes, cached, began, seen>>

(* The clock is read before the refresh, which then waits for a thread. *)
AskRefresh(p) ==
    /\ probe[p] = "idle" /\ phase = "serving"
    /\ probes /\ ~Fresh
    /\ probe' = [probe EXCEPT ![p] = "database"]
    /\ began' = [began EXCEPT ![p] = now]
    /\ UNCHANGED <<life, world, probes, cached, seen, answer>>

(* One probe: SELECT 1 on a connection the process holds.  Any failure, a   *)
(* closed connection included, is the word "down".                          *)
Run(p) ==
    /\ probe[p] \in Deps
    /\ seen' = [seen EXCEPT ![p] = IF probe[p] \in up /\ phase # "closed"
                                   THEN @ \cup {probe[p]} ELSE @]
    /\ probe' = [probe EXCEPT ![p] = IF @ = "database" THEN "database_readonly"
                                                       ELSE "probed"]
    /\ UNCHANGED <<life, world, probes, cached, began, answer>>

(* Mutant: an overtaken refresh replaces the answer but not its date. *)
StoreUnderLaterDate(p) ==
    /\ probe[p] = "probed"
    /\ cached' = [at |-> IF cached.at > began[p] THEN cached.at ELSE began[p],
                  up |-> seen[p], held |-> TRUE]
    /\ Reply(p, "refresh", seen[p])
    /\ UNCHANGED <<life, world, probes, began, seen>>

(* Back on the loop: the answer is stored, dated by the start, and given. *)
Store(p) ==
    /\ probe[p] = "probed"
    /\ cached' = [at |-> began[p], up |-> seen[p], held |-> TRUE]
    /\ Reply(p, "refresh", seen[p])
    /\ UNCHANGED <<life, world, probes, began, seen>>

-------------------------------------------------------------------------------
Environment == Tick \/ Grant \/ \E d \in Deps : Flip(d)

Startup == Connect \/ Prove \/ OpenOwner \/ LoadCatalog \/ BuildRetriever
           \/ LoadModel \/ BuildAnswerer \/ Serve

Status(p) == AskDuringStartup(p) \/ AskCached(p) \/ AskRefresh(p) \/ Run(p) \/ Store(p)

Next == Environment \/ Startup \/ Stop \/ \E p \in Probers : Status(p)

Spec == Init /\ [][Next]_vars

-------------------------------------------------------------------------------
(* Every variable keeps its type. *)
TypeOK ==
    /\ phase \in Phases /\ opened \subseteq Things /\ service \in BOOLEAN
    /\ probes \in BOOLEAN
    /\ cached \in [at : Nat, up : SUBSET Deps, held : BOOLEAN]
    /\ now \in Nat /\ up \subseteq Deps /\ lastUp \in [Deps -> Nat]
    /\ writes \in BOOLEAN /\ indexed \in SUBSET Models
    /\ probe \in [Probers -> {"idle", "probed", "done"} \cup Deps]
    /\ began \in [Probers -> Nat]
    /\ seen \in [Probers -> SUBSET Deps]
    /\ answer \in [Probers -> [from : {"none", "startup", "cache", "refresh"},
                               ready : BOOLEAN, at : Nat, since : Nat]]

(* Wherever the startup fails, and at shutdown, nothing stays open; while   *)
(* serving, everything the service needs is open.                           *)
NothingLeaks ==
    /\ phase = "closed" => opened = {}
    /\ phase = "serving" => opened = Things

(* A yes was true a moment ago.  Given from the cache, every dependency has *)
(* answered within the TTL; given by a refresh, since that refresh began.   *)
(* However refreshes overlap and overtake each other.                       *)
ReadyWasTrue ==
    \A p \in Probers :
      LET a == answer[p] IN
      a.ready => IF a.from = "cache" THEN a.at - a.since < Ttl
                                     ELSE a.since >= began[p]

(* "`assert_catalog_ready` refuses startup when the configured model has no *)
(* vectors indexed" (docs/operations/CONFIG.md): a process that serves can  *)
(* search the vectors of its own model.                                     *)
ServingMeansIndexed == phase = "serving" => Model \in indexed
===============================================================================
