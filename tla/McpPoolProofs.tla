----------------------------- MODULE McpPoolProofs -----------------------------
(***************************************************************************)
(* What holds of McpPool for every set of datasets, pool size and number   *)
(* of questions: a call is made only where it can be answered, an answer   *)
(* is the answer to its question, the server trees stay bounded, and a     *)
(* server that answered is not started again while its place is kept.      *)
(***************************************************************************)
EXTENDS McpPool, FiniteSetTheorems, SequenceTheorems, TLAPS

InPool(c) == \E i \in 1 .. Len(clients) : clients[i] = c
Dataset(i) == client[clients[i]].dataset

(* A client is started at most once, by the question that made it: so a     *)
(* thread, its queue and its client carry the same name, and what one of    *)
(* them reports cannot be taken for what another one does.                  *)
OwnThread(c) ==
    /\ client[c].thread \in {None, c} /\ client[c].queue \in {None, c}
    /\ thread[c].at # "none" => thread[c].client = c
    /\ c > Now => client[c].thread = None /\ thread[c].at = "none" /\ told[c] = "none"
    /\ client[c].thread = c => /\ thread[c].at # "none"
                               /\ thread[c].at # "new" => client[c].queue = c
    /\ thread[c].opened => thread[c].at \in {"serving", "calling", "leaving", "dead"}
    /\ thread[c].at \in {"serving", "calling"} => thread[c].opened
    /\ thread[c].at \in {"leaving", "dead"} =>
         thread[c].opened \/ thread[c].fatal \/ client[c].failed
    /\ thread[c].at = "dead" /\ thread[c].fatal => client[c].failed
    /\ client[c].ready => client[c].failed \/ thread[c].opened
    /\ thread[c].at = "none" => thread[c].items = <<>>

Named == \A c \in Ids : OwnThread(c)

(* What a thread has been given to do was asked of its dataset. *)
OwnCalls(c) ==
    /\ thread[c].at = "calling" => thread[c].items # <<>> /\ Head(thread[c].items) # StopItem
    /\ \A j \in 1 .. Len(thread[c].items) :
         \/ thread[c].items[j] = StopItem
         \/ thread[c].items[j] \in 1 .. Now /\ asked[thread[c].items[j]] = client[c].dataset

Queues == \A c \in Ids : OwnCalls(c)

OwnAnswer(i) ==
    /\ future[i] # Pending =>
         /\ i <= Now /\ future[i].call = i /\ future[i].by \in Ids
         /\ thread[future[i].by].at # "none" /\ client[future[i].by].dataset = asked[i]
    /\ told[i] = "answered" => future[i] # Pending

Delivered == \A i \in Ids : OwnAnswer(i)

(* Pooled clients run, their threads have opened, one for a dataset. *)
Pool ==
    /\ \A i \in 1 .. Len(clients) :
         /\ client[clients[i]].thread = clients[i]
         /\ thread[clients[i]].opened
    /\ \A i, j \in 1 .. Len(clients) : Dataset(i) = Dataset(j) => i = j

(* Where the caller is, and with which client. *)
Newcomer(c) ==
    c = Now /\ client[c].thread = None /\ thread[c].at = "none"

Asker ==
    /\ At("evict") \/ At("wait") \/ (At("join") /\ caller.back = "evict") =>
         /\ Now > 0 /\ told[Now] = "none"
         /\ caller.client \in Ids
         /\ client[caller.client].dataset = asked[Now]
         /\ \A i \in 1 .. Len(clients) : Dataset(i) # asked[Now]
    /\ At("evict") =>
         \/ Newcomer(caller.client)
         \/ /\ client[caller.client].thread = caller.client
            /\ thread[caller.client].opened /\ Len(clients) < MaxLive
    /\ At("join") =>
         /\ caller.joins \in Ids /\ ~InPool(caller.joins) /\ Len(clients) < MaxLive
         /\ thread[caller.joins].at # "none"
         /\ client[caller.joins].thread = None
         /\ caller.back = "evict" => Newcomer(caller.client)
         /\ caller.back = "idle" => Now > 0 /\ told[Now] = "none"
         /\ caller.back # "none"
    /\ At("wait") =>
         /\ caller.client = Now /\ client[Now].thread = Now /\ Len(clients) < MaxLive
    /\ At("call") \/ At("await") =>
         /\ Now > 0 /\ told[Now] = "none"
         /\ Len(clients) > 0 /\ clients[Len(clients)] = caller.client /\ Dataset(Len(clients)) = asked[Now]
    /\ At("closed") => clients = <<>>

(* A live thread that was not given up is that of a client that runs or is  *)
(* being joined, and a client that runs is pooled or the caller's own.      *)
Accounted ==
    \A t \in Ids :
      /\ Live(t) => t \in abandoned \/ client[t].thread = t \/ (At("join") /\ caller.joins = t)
      /\ client[t].thread = t =>
           InPool(t) \/ ((At("evict") \/ At("wait")) /\ caller.client = t)

(* Least recently used first: of a dataset that answered, the pool has a    *)
(* client with only later askers behind it, or MaxLive others came since.   *)
Others(i) == {asked[j] : j \in i + 1 .. Now} \ {asked[i]}

Placed(i, p) ==
    /\ Dataset(p) = asked[i]
    /\ \A k \in p + 1 .. Len(clients) : \E j \in i + 1 .. Now : Dataset(k) = asked[j]

Kept(i) ==
    \/ \E p \in 1 .. Len(clients) : Placed(i, p)
    \/ At("evict") /\ client[caller.client].thread = caller.client /\ asked[Now] = asked[i]
    \/ Cardinality(Others(i)) >= MaxLive

Closing == At("closing") \/ At("closed") \/ (At("join") /\ caller.back = "closing")

Recent == Closing \/ \A i \in 1 .. Now : told[i] = "answered" => Kept(i)

(* The inductive invariant. *)
IInv == TypeOK /\ Named /\ Queues /\ Delivered /\ Pool /\ Asker /\ Accounted /\ Recent

USE LiveAssumption, CallsAssumption

-------------------------------------------------------------------------------
(* Types. *)
LEMMA InitType == Init => TypeOK
BY DEF Init, TypeOK, Now, Ids, NoClient, NoThread, Pending, None, StopItem, Clients, Threads, Futures, Callers

(* Records that are set one field at a time. *)
LEMMA ClientSet ==
  ASSUME NEW f \in [Ids -> Clients], NEW c \in Ids
  PROVE  /\ \A v \in Ids \cup {None} :
              /\ [f EXCEPT ![c].thread = v] \in [Ids -> Clients]
              /\ [f EXCEPT ![c].queue = v] \in [Ids -> Clients]
              /\ [f EXCEPT ![c].thread = v, ![c].ready = FALSE, ![c].failed = FALSE] \in [Ids -> Clients]
         /\ \A d \in Datasets : [f EXCEPT ![c].dataset = d] \in [Ids -> Clients]
         /\ [f EXCEPT ![c].ready = TRUE] \in [Ids -> Clients]
         /\ [f EXCEPT ![c].failed = TRUE] \in [Ids -> Clients]
<1>1. ASSUME NEW v \in Ids \cup {None}
      PROVE  /\ [f EXCEPT ![c].thread = v] \in [Ids -> Clients]
             /\ [f EXCEPT ![c].queue = v] \in [Ids -> Clients]
             /\ [f EXCEPT ![c].thread = v, ![c].ready = FALSE, ![c].failed = FALSE] \in [Ids -> Clients]
  BY DEF Clients
<1>2. ASSUME NEW d \in Datasets PROVE [f EXCEPT ![c].dataset = d] \in [Ids -> Clients]
  BY DEF Clients
<1>3. [f EXCEPT ![c].ready = TRUE] \in [Ids -> Clients] /\ [f EXCEPT ![c].failed = TRUE] \in [Ids -> Clients]
  BY DEF Clients
<1> QED
  BY <1>1, <1>2, <1>3

LEMMA ThreadSet ==
  ASSUME NEW f \in [Ids -> Threads], NEW t \in Ids
  PROVE  /\ \A a \in {"opening", "serving", "calling", "leaving", "dead"} :
              [f EXCEPT ![t].at = a] \in [Ids -> Threads]
         /\ [f EXCEPT ![t].at = "serving", ![t].opened = TRUE] \in [Ids -> Threads]
         /\ [f EXCEPT ![t].at = "leaving", ![t].fatal = TRUE] \in [Ids -> Threads]
         /\ \A s \in Seq(Ids \cup {StopItem}) :
              /\ [f EXCEPT ![t].items = s] \in [Ids -> Threads]
              /\ [f EXCEPT ![t].at = "serving", ![t].items = s] \in [Ids -> Threads]
<1>1. ASSUME NEW a \in {"opening", "serving", "calling", "leaving", "dead"}
      PROVE  [f EXCEPT ![t].at = a] \in [Ids -> Threads]
  BY DEF Threads
<1>2. [f EXCEPT ![t].at = "serving", ![t].opened = TRUE] \in [Ids -> Threads]
  BY DEF Threads
<1>3. [f EXCEPT ![t].at = "leaving", ![t].fatal = TRUE] \in [Ids -> Threads]
  BY DEF Threads
<1>4. ASSUME NEW s \in Seq(Ids \cup {StopItem})
      PROVE  /\ [f EXCEPT ![t].items = s] \in [Ids -> Threads]
             /\ [f EXCEPT ![t].at = "serving", ![t].items = s] \in [Ids -> Threads]
  BY DEF Threads
<1> QED
  BY <1>1, <1>2, <1>3, <1>4

-------------------------------------------------------------------------------
(* The threads. *)

(* What a step of thread t may do to the records, and what it leaves.       *)
ThreadStep(t) ==
    /\ UNCHANGED <<asked, told, clients, caller, abandoned>>
    /\ thread[t].at # "none" /\ thread'[t].at # "none"
    /\ \A c \in Ids :
         /\ client'[c].thread = client[c].thread /\ client'[c].dataset = client[c].dataset
         /\ thread'[c].client = thread[c].client
         /\ c # t => /\ client'[c] = client[c] /\ thread'[c] = thread[c]
    /\ thread[t].opened => thread'[t].opened
    /\ Live(t)

LEMMA ServingStep ==
  ASSUME IInv, NEW t \in Ids, Serving(t) PROVE ThreadStep(t) /\ TypeOK'
<1>0. /\ client \in [Ids -> Clients] /\ thread \in [Ids -> Threads] /\ future \in [Ids -> Futures]
      /\ (thread[t].at # "none" => thread[t].client = t)
  BY DEF IInv, TypeOK, Named, OwnThread
<1>a. ASSUME client' \in [Ids -> Clients], thread' \in [Ids -> Threads], future' \in [Ids -> Futures],
             UNCHANGED <<asked, told, clients, caller, abandoned>>
      PROVE  TypeOK'
  BY <1>a DEF IInv, TypeOK, Now
<1>1. CASE Publish(t)
  <2>1. /\ client' = [client EXCEPT ![t].queue = t] /\ thread' = [thread EXCEPT ![t].at = "opening"]
        /\ UNCHANGED <<asked, told, clients, future, caller, abandoned>> /\ thread[t].at = "new"
    BY <1>0, <1>1 DEF Publish
  <2>2. client' \in [Ids -> Clients] /\ thread' \in [Ids -> Threads] /\ future' \in [Ids -> Futures]
    BY <1>0, <2>1, ClientSet, ThreadSet
  <2>3. ThreadStep(t)
    BY ONLY <1>0, <2>1, t \in Ids DEF ThreadStep, Live, Clients, Threads
  <2> QED
    BY <1>a, <2>1, <2>2, <2>3
<1>2. CASE Open(t)
  <2>1. /\ client' = [client EXCEPT ![t].ready = TRUE]
        /\ thread' = [thread EXCEPT ![t].at = "serving", ![t].opened = TRUE]
        /\ UNCHANGED <<asked, told, clients, future, caller, abandoned>> /\ thread[t].at = "opening"
    BY <1>0, <1>2 DEF Open
  <2>2. client' \in [Ids -> Clients] /\ thread' \in [Ids -> Threads] /\ future' \in [Ids -> Futures]
    BY <1>0, <2>1, ClientSet, ThreadSet
  <2>3. ThreadStep(t)
    BY ONLY <1>0, <2>1, t \in Ids DEF ThreadStep, Live, Clients, Threads
  <2> QED
    BY <1>a, <2>1, <2>2, <2>3
<1>3. CASE OpenWithoutTool(t)
  <2>1. /\ client' = [client EXCEPT ![t].failed = TRUE]
        /\ thread' = [thread EXCEPT ![t].at = "leaving"]
        /\ UNCHANGED <<asked, told, clients, future, caller, abandoned>> /\ thread[t].at = "opening"
    BY <1>0, <1>3 DEF OpenWithoutTool
  <2>2. client' \in [Ids -> Clients] /\ thread' \in [Ids -> Threads] /\ future' \in [Ids -> Futures]
    BY <1>0, <2>1, ClientSet, ThreadSet
  <2>3. ThreadStep(t)
    BY ONLY <1>0, <2>1, t \in Ids DEF ThreadStep, Live, Clients, Threads
  <2> QED
    BY <1>a, <2>1, <2>2, <2>3
<1>4. CASE Take(t)
  <2>1. /\ \E a \in {"leaving", "calling"} : thread' = [thread EXCEPT ![t].at = a]
        /\ UNCHANGED <<asked, told, clients, client, future, caller, abandoned>> /\ thread[t].at = "serving"
    BY <1>0, <1>4 DEF Take
  <2> PICK a \in {"leaving", "calling"} : thread' = [thread EXCEPT ![t].at = a]
    BY <2>1
  <2>2. client' \in [Ids -> Clients] /\ thread' \in [Ids -> Threads] /\ future' \in [Ids -> Futures]
    <3>1. [thread EXCEPT ![t].at = a] \in [Ids -> Threads]
      BY <1>0, ThreadSet
    <3> QED
      BY <1>0, <2>1, <3>1
  <2>3. ThreadStep(t)
    BY ONLY <1>0, <2>1, t \in Ids DEF ThreadStep, Live, Clients, Threads
  <2> QED
    BY <1>a, <2>1, <2>2, <2>3
<1>5. CASE Answer(t)
  <2>1. /\ thread' = [thread EXCEPT ![t].at = "serving", ![t].items = Tail(thread[t].items)]
        /\ UNCHANGED <<asked, told, clients, client, caller, abandoned>> /\ thread[t].at = "calling"
    BY <1>0, <1>5 DEF Answer
  <2>2. /\ thread[t].items \in Seq(Ids \cup {StopItem}) /\ thread[t].items # <<>>
        /\ Head(thread[t].items) # StopItem
    BY <1>0, <2>1 DEF Threads, IInv, Queues, OwnCalls
  <2>3. Head(thread[t].items) \in Ids /\ Tail(thread[t].items) \in Seq(Ids \cup {StopItem})
    BY <2>2, HeadTailProperties
  <2>4. client' \in [Ids -> Clients] /\ thread' \in [Ids -> Threads]
    BY <1>0, <2>1, <2>3, ThreadSet
  <2>5. future' \in [Ids -> Futures]
    <3>1. PICK ok \in BOOLEAN : future' = [future EXCEPT ![Head(thread[t].items)] =
                                             [call |-> Head(thread[t].items), by |-> t, ok |-> ok]]
      BY <1>5 DEF Answer
    <3>2. [call |-> Head(thread[t].items), by |-> t, ok |-> ok] \in Futures
      BY <2>3 DEF Futures
    <3> QED
      BY <1>0, <3>1, <3>2
  <2>6. ThreadStep(t)
    BY ONLY <1>0, <2>1, t \in Ids DEF ThreadStep, Live, Clients, Threads
  <2> QED
    BY <1>a, <2>1, <2>4, <2>5, <2>6
<1>6. CASE Die(t)
  <2>1. /\ thread' = [thread EXCEPT ![t].at = "leaving", ![t].fatal = TRUE]
        /\ UNCHANGED <<asked, told, clients, client, future, caller, abandoned>>
        /\ thread[t].at \in {"opening", "serving", "calling"}
    BY <1>0, <1>6 DEF Die
  <2>2. client' \in [Ids -> Clients] /\ thread' \in [Ids -> Threads] /\ future' \in [Ids -> Futures]
    BY <1>0, <2>1, ThreadSet
  <2>3. ThreadStep(t)
    BY ONLY <1>0, <2>1, t \in Ids DEF ThreadStep, Live, Clients, Threads
  <2> QED
    BY <1>a, <2>1, <2>2, <2>3
<1>7. CASE Exit(t)
  <2>1. /\ thread' = [thread EXCEPT ![t].at = "dead"]
        /\ client' = [client EXCEPT ![t].ready = TRUE, ![t].failed = IF thread[t].fatal THEN TRUE ELSE @]
        /\ UNCHANGED <<asked, told, clients, future, caller, abandoned>> /\ thread[t].at = "leaving"
    BY <1>0, <1>7 DEF Exit
  <2>2. client' \in [Ids -> Clients]
    <3>1. client[t] \in Clients
      BY <1>0
    <3>2. [client[t] EXCEPT !.ready = TRUE, !.failed = IF thread[t].fatal THEN TRUE ELSE @] \in Clients
      <4>1. CASE thread[t].fatal
        BY ONLY <3>1, <4>1 DEF Clients
      <4>2. CASE ~thread[t].fatal
        BY ONLY <3>1, <4>2 DEF Clients
      <4> QED
        BY <4>1, <4>2
    <3> QED
      BY ONLY <1>0, <2>1, <3>2
  <2>3. thread' \in [Ids -> Threads] /\ future' \in [Ids -> Futures]
    BY <1>0, <2>1, ThreadSet
  <2>4. ThreadStep(t)
    BY ONLY <1>0, <2>1, t \in Ids DEF ThreadStep, Live, Clients, Threads
  <2> QED
    BY <1>a, <2>1, <2>2, <2>3, <2>4
<1> QED
  BY <1>1, <1>2, <1>3, <1>4, <1>5, <1>6, <1>7 DEF Serving

(* The caller and the pool do not notice a thread's step. *)
LEMMA ServingFrame ==
  ASSUME IInv, NEW t \in Ids, ThreadStep(t) PROVE Pool' /\ Asker' /\ Accounted' /\ Recent'
<1>0. /\ UNCHANGED <<asked, told, clients, caller, abandoned, Now>>
      /\ \A c \in Ids :
           /\ client'[c].thread = client[c].thread /\ client'[c].dataset = client[c].dataset
           /\ thread[c].opened => thread'[c].opened
           /\ thread'[c].at = "none" <=> thread[c].at = "none"
           /\ Live(c)' => Live(c)
  BY DEF ThreadStep, Now, Live
<1>1. \A i \in 1 .. Len(clients) : clients[i] \in Ids
  BY DEF IInv, TypeOK
<1>2. Pool'
  BY <1>0, <1>1 DEF IInv, Pool, Dataset
<1>3. Asker'
  <2>1. Now <= MaxCalls /\ Now \in Nat
    BY DEF IInv, TypeOK, Now
  <2>2. Now > 0 => Now \in Ids
    BY <2>1 DEF Ids
  <2> QED
    BY <1>0, <1>1, <2>2 DEF IInv, Asker, At, Newcomer, InPool, Dataset
<1>4. Accounted'
  BY <1>0 DEF IInv, Accounted, At, InPool
<1>5. Recent'
  <2>1. \A i : Others(i)' = Others(i)
    BY <1>0 DEF Others
  <2>2. At("evict") => caller.client \in Ids
    BY DEF IInv, Asker
  <2>3. \A p \in 1 .. Len(clients) : Dataset(p)' = Dataset(p)
    BY <1>0, <1>1 DEF Dataset
  <2>4. ASSUME NEW i \in 1 .. Now, NEW p \in 1 .. Len(clients), Placed(i, p) PROVE Placed(i, p)'
    <3>1. \A k \in p + 1 .. Len(clients) : k \in 1 .. Len(clients)
      BY DEF IInv, TypeOK
    <3> QED
      BY <1>0, <2>3, <2>4, <3>1 DEF Placed
  <2>5. \A i \in 1 .. Now : Kept(i) => Kept(i)'
    BY <1>0, <2>1, <2>2, <2>4 DEF Kept, At
  <2>6. Closing' <=> Closing
    BY <1>0 DEF Closing, At
  <2> QED
    BY <1>0, <2>5, <2>6 DEF IInv, Recent
<1> QED
  BY <1>2, <1>3, <1>4, <1>5

LEMMA ServingOwn ==
  ASSUME IInv, NEW t \in Ids, Serving(t), ThreadStep(t) PROVE Named' /\ Queues' /\ Delivered'
<1>0. /\ UNCHANGED <<asked, told, Now>>
      /\ \A c \in Ids : c # t => client'[c] = client[c] /\ thread'[c] = thread[c]
      /\ \A c \in Ids : client'[c].dataset = client[c].dataset
      /\ \A c \in Ids : thread[c].at # "none" => thread'[c].at # "none"
  BY DEF ThreadStep, Now
<1>a. OwnThread(t) /\ OwnCalls(t) /\ thread[t].client = t
  BY DEF IInv, Named, Queues, OwnThread, ThreadStep
<1>b. client[t] \in Clients /\ thread[t] \in Threads /\ t # None
  BY DEF IInv, TypeOK, Ids, None
<1>c. client \in [Ids -> Clients] /\ thread \in [Ids -> Threads] /\ future \in [Ids -> Futures]
  BY DEF IInv, TypeOK
<1>d. ASSUME OwnThread(t)' PROVE Named'
  BY <1>0, <1>d DEF IInv, Named, OwnThread
<1>e. ASSUME OwnCalls(t)' PROVE Queues'
  BY <1>0, <1>e DEF IInv, Queues, OwnCalls
<1>f. ASSUME future' = future PROVE Delivered'
  BY <1>0, <1>f DEF IInv, Delivered, OwnAnswer
<1>g. ASSUME thread'[t].items = thread[t].items, thread[t].at # "calling", thread'[t].at # "calling"
      PROVE  OwnCalls(t)'
  BY <1>0, <1>a, <1>g DEF OwnCalls
<1>1. CASE Publish(t)
  <2>1. /\ client'[t].queue = t /\ client'[t].thread = client[t].thread
        /\ client'[t].ready = client[t].ready /\ client'[t].failed = client[t].failed
        /\ thread[t].at = "new" /\ thread'[t].at = "opening" /\ thread'[t].client = t
        /\ thread'[t].items = thread[t].items /\ thread'[t].opened = thread[t].opened
        /\ future' = future
    BY <1>a, <1>b, <1>c, <1>1 DEF Publish, Clients, Threads
  <2>2. OwnThread(t)'
    BY <1>0, <1>a, <1>b, <2>1 DEF OwnThread
  <2> QED
    BY <1>d, <1>e, <1>f, <1>g, <2>1, <2>2
<1>2. CASE Open(t)
  <2>1. /\ client'[t].queue = client[t].queue /\ client'[t].thread = client[t].thread
        /\ client'[t].ready = TRUE /\ client'[t].failed = client[t].failed
        /\ thread[t].at = "opening" /\ thread'[t].at = "serving" /\ thread'[t].client = t
        /\ thread'[t].items = thread[t].items /\ thread'[t].opened = TRUE
        /\ future' = future
    BY <1>a, <1>b, <1>c, <1>2 DEF Open, Clients, Threads
  <2>2. OwnThread(t)'
    BY <1>0, <1>a, <1>b, <2>1 DEF OwnThread
  <2> QED
    BY <1>d, <1>e, <1>f, <1>g, <2>1, <2>2
<1>3. CASE OpenWithoutTool(t)
  <2>1. /\ client'[t].queue = client[t].queue /\ client'[t].thread = client[t].thread
        /\ client'[t].ready = client[t].ready /\ client'[t].failed = TRUE
        /\ thread[t].at = "opening" /\ thread'[t].at = "leaving" /\ thread'[t].client = t
        /\ thread'[t].items = thread[t].items /\ thread'[t].opened = thread[t].opened
        /\ future' = future
    BY <1>a, <1>b, <1>c, <1>3 DEF OpenWithoutTool, Clients, Threads
  <2>2. OwnThread(t)'
    BY <1>0, <1>a, <1>b, <2>1 DEF OwnThread
  <2> QED
    BY <1>d, <1>e, <1>f, <1>g, <2>1, <2>2
<1>4. CASE Take(t)
  <2>1. /\ client'[t] = client[t]
        /\ thread[t].at = "serving" /\ thread'[t].client = t /\ thread[t].items # <<>>
        /\ thread'[t].at = (IF Head(thread[t].items) = StopItem THEN "leaving" ELSE "calling")
        /\ thread'[t].items = thread[t].items /\ thread'[t].opened = thread[t].opened
        /\ thread'[t].fatal = thread[t].fatal /\ future' = future
    BY <1>a, <1>b, <1>c, <1>4 DEF Take, Clients, Threads
  <2>2. OwnThread(t)'
    BY <1>0, <1>a, <1>b, <2>1 DEF OwnThread
  <2>3. OwnCalls(t)'
    BY <1>0, <1>a, <2>1 DEF OwnCalls
  <2> QED
    BY <1>d, <1>e, <1>f, <2>1, <2>2, <2>3
<1>5. CASE Answer(t)
  <2>1. /\ client'[t] = client[t]
        /\ thread[t].at = "calling" /\ thread'[t].client = t /\ thread'[t].at = "serving"
        /\ thread'[t].items = Tail(thread[t].items) /\ thread'[t].opened = thread[t].opened
        /\ thread'[t].fatal = thread[t].fatal
    BY <1>a, <1>b, <1>c, <1>5 DEF Answer, Clients, Threads
  <2>2. OwnThread(t)'
    BY <1>0, <1>a, <1>b, <2>1 DEF OwnThread
  <2> PICK s : s = thread[t].items
    OBVIOUS
  <2>3. s \in Seq(Ids \cup {StopItem}) /\ s # <<>> /\ Head(s) # StopItem
    BY <1>a, <1>b, <2>1 DEF Threads, OwnCalls
  <2>4. /\ Head(s) = s[1] /\ 1 \in 1 .. Len(s) /\ Len(Tail(s)) = Len(s) - 1 /\ Len(s) \in Nat
        /\ \A j \in 1 .. Len(Tail(s)) : Tail(s)[j] = s[j + 1] /\ j + 1 \in 1 .. Len(s)
    BY ONLY <2>3
  <2>5. OwnCalls(t)'
    BY <1>0, <1>a, <2>1, <2>4 DEF OwnCalls
  <2>6. s[1] \in 1 .. Now /\ asked[s[1]] = client[t].dataset /\ s[1] \in Ids
    <3>1. Now \in Nat /\ Now <= MaxCalls
      BY DEF IInv, TypeOK, Now
    <3> QED
      BY <1>a, <2>3, <2>4, <3>1 DEF OwnCalls, Ids
  <2>7. PICK ok \in BOOLEAN : future' = [future EXCEPT ![s[1]] = [call |-> s[1], by |-> t, ok |-> ok]]
    BY <1>5, <2>4 DEF Answer
  <2>8. /\ future'[s[1]].call = s[1] /\ future'[s[1]].by = t /\ future'[s[1]] # Pending
        /\ \A i \in Ids : i # s[1] => future'[i] = future[i]
    BY ONLY <1>b, <1>c, <2>6, <2>7 DEF Pending, None, Ids
  <2>9. Delivered'
    <3> SUFFICES ASSUME NEW i \in Ids PROVE OwnAnswer(i)'
      BY DEF Delivered
    <3>1. CASE i = s[1]
      BY <1>0, <2>1, <2>6, <2>8, <3>1 DEF OwnAnswer
    <3>2. CASE i # s[1]
      BY <1>0, <2>8, <3>2 DEF OwnAnswer, IInv, Delivered
    <3> QED
      BY <3>1, <3>2
  <2> QED
    BY <1>d, <1>e, <2>2, <2>5, <2>9
<1>6. CASE Die(t)
  <2>1. /\ client'[t] = client[t]
        /\ thread[t].at # "none" /\ thread'[t].client = t /\ thread'[t].at = "leaving"
        /\ thread[t].at \in {"opening", "serving", "calling"}
        /\ thread'[t].items = thread[t].items /\ thread'[t].opened = thread[t].opened
        /\ thread'[t].fatal = TRUE /\ future' = future
    BY <1>a, <1>b, <1>c, <1>6 DEF Die, Clients, Threads
  <2>2. OwnThread(t)'
    BY <1>0, <1>a, <1>b, <2>1 DEF OwnThread
  <2>3. OwnCalls(t)'
    BY <1>0, <1>a, <2>1 DEF OwnCalls
  <2> QED
    BY <1>d, <1>e, <1>f, <2>1, <2>2, <2>3
<1>7. CASE Exit(t)
  <2>1. /\ client'[t].queue = client[t].queue /\ client'[t].thread = client[t].thread
        /\ client'[t].failed = (IF thread[t].fatal THEN TRUE ELSE client[t].failed)
        /\ thread[t].at = "leaving" /\ thread'[t].at = "dead" /\ thread'[t].client = t
        /\ thread'[t].items = thread[t].items /\ thread'[t].opened = thread[t].opened
        /\ thread'[t].fatal = thread[t].fatal /\ future' = future
    BY <1>a, <1>b, <1>c, <1>7 DEF Exit, Clients, Threads
  <2>2. OwnThread(t)'
    BY <1>0, <1>a, <1>b, <2>1 DEF OwnThread
  <2> QED
    BY <1>d, <1>e, <1>f, <1>g, <2>1, <2>2
<1> QED
  BY <1>1, <1>2, <1>3, <1>4, <1>5, <1>6, <1>7 DEF Serving

-------------------------------------------------------------------------------
(* The caller. *)

LEMMA Typed ==
  ASSUME TypeOK
  PROVE  /\ Now \in Nat /\ Now <= MaxCalls /\ (Now > 0 => Now \in Ids)
         /\ asked \in Seq(Datasets) /\ \A i \in 1 .. Now : asked[i] \in Datasets
         /\ Len(clients) \in Nat /\ Len(clients) <= MaxLive
         /\ \A i \in 1 .. Len(clients) : clients[i] \in Ids
         /\ \A c \in Ids : c # None /\ c \in Nat /\ client[c] \in Clients /\ thread[c] \in Threads
         /\ client \in [Ids -> Clients] /\ thread \in [Ids -> Threads] /\ future \in [Ids -> Futures]
         /\ caller \in Callers
<1>1. Now \in Nat /\ Now <= MaxCalls /\ (Now > 0 => Now \in Ids)
  BY DEF TypeOK, Now, Ids
<1>2. asked \in Seq(Datasets) /\ \A i \in 1 .. Now : asked[i] \in Datasets
  BY DEF TypeOK, Now
<1>3. /\ Len(clients) \in Nat /\ Len(clients) <= MaxLive
      /\ \A i \in 1 .. Len(clients) : clients[i] \in Ids
  BY DEF TypeOK
<1>4. \A c \in Ids : c # None /\ c \in Nat
  BY DEF Ids, None
<1> QED
  BY <1>1, <1>2, <1>3, <1>4 DEF TypeOK

(* A step that leaves clients and threads alone may only settle the question. *)
LEMMA QuietOwn ==
  ASSUME IInv, UNCHANGED <<asked, client, thread, future>>,
         told' = told \/ (Now > 0 /\ told' = [told EXCEPT ![Now] = "raised"])
  PROVE  Named' /\ Queues' /\ Delivered'
<1>0. Now' = Now /\ told \in [Ids -> {"none", "answered", "raised"}] /\ (Now > 0 => Now \in Ids)
      /\ Now \in Nat
  BY Typed DEF Now, IInv, TypeOK
<1>1. \A i \in Ids : told'[i] = told[i] \/ (i <= Now /\ told'[i] = "raised")
  BY <1>0
<1>2. Named'
  <2> SUFFICES ASSUME NEW c \in Ids PROVE OwnThread(c)'
    BY DEF Named
  <2>1. OwnThread(c) /\ c \in Nat
    BY DEF IInv, Named, Ids
  <2> QED
    BY <1>0, <1>1, <2>1 DEF OwnThread
<1>3. Queues'
  BY <1>0 DEF IInv, Queues, OwnCalls
<1>4. Delivered'
  BY <1>0, <1>1 DEF IInv, Delivered, OwnAnswer
<1> QED
  BY <1>2, <1>3, <1>4

(* close() of a client that runs. *)
LEMMA CloseStep ==
  ASSUME IInv, NEW c \in Ids, client[c].thread = c, NEW resume, NEW back, Close(c, resume, back),
         UNCHANGED <<asked, told, future>>
  PROVE  /\ client' \in [Ids -> Clients] /\ thread' \in [Ids -> Threads]
         /\ client'[c].thread = None /\ client'[c].dataset = client[c].dataset
         /\ \A x \in Ids : x # c => client'[x] = client[x] /\ thread'[x] = thread[x]
         /\ \A x \in Ids : thread'[x].at = thread[x].at /\ thread'[x].opened = thread[x].opened
         /\ caller' = [at |-> "join", client |-> resume, joins |-> c, back |-> back]
         /\ Named' /\ Queues' /\ Delivered'
<1>0. /\ Now' = Now /\ c # None /\ client \in [Ids -> Clients] /\ thread \in [Ids -> Threads]
      /\ OwnThread(c) /\ OwnCalls(c) /\ client[c] \in Clients /\ thread[c] \in Threads /\ StopItem = 0
  BY Typed DEF IInv, Now, Named, Queues, StopItem
<1>1. /\ client' = [client EXCEPT ![c].thread = None]
      /\ caller' = [at |-> "join", client |-> resume, joins |-> c, back |-> back]
      /\ thread' = thread \/ (/\ client[c].queue = c
                             /\ thread' = [thread EXCEPT ![c].items = Append(thread[c].items, StopItem)])
  BY <1>0 DEF Close, OwnThread
<1>2. /\ client' \in [Ids -> Clients] /\ client'[c].thread = None /\ client'[c].dataset = client[c].dataset
      /\ client'[c].queue = client[c].queue /\ client'[c].ready = client[c].ready
      /\ client'[c].failed = client[c].failed
      /\ \A x \in Ids : x # c => client'[x] = client[x]
  <2>1. client' \in [Ids -> Clients]
    BY <1>0, <1>1, ClientSet
  <2> QED
    BY ONLY <1>0, <1>1, <2>1, c \in Ids DEF Clients
<1> PICK s : s = thread[c].items
  OBVIOUS
<1>3. s \in Seq(Ids \cup {StopItem}) /\ Append(s, StopItem) \in Seq(Ids \cup {StopItem})
  BY <1>0 DEF Threads
<1>4. /\ thread' \in [Ids -> Threads]
      /\ \A x \in Ids : x # c => thread'[x] = thread[x]
      /\ thread'[c].at = thread[c].at /\ thread'[c].opened = thread[c].opened
      /\ thread'[c].fatal = thread[c].fatal /\ thread'[c].client = thread[c].client
      /\ thread'[c].items = s \/ thread'[c].items = Append(s, StopItem)
  <2>1. CASE thread' = thread
    BY <1>0, <2>1
  <2>2. CASE thread' = [thread EXCEPT ![c].items = Append(s, StopItem)]
    <3>1. thread' \in [Ids -> Threads]
      BY <1>0, <1>3, <2>2, ThreadSet
    <3>2. /\ \A x \in Ids : x # c => thread'[x] = thread[x]
          /\ thread'[c].at = thread[c].at /\ thread'[c].opened = thread[c].opened
          /\ thread'[c].fatal = thread[c].fatal /\ thread'[c].client = thread[c].client
          /\ thread'[c].items = Append(s, StopItem)
      BY ONLY <1>0, <2>2, c \in Ids DEF Threads
    <3> QED
      BY <3>1, <3>2
  <2> QED
    BY <1>1, <2>1, <2>2
<1>5. OwnThread(c)'
  BY <1>0, <1>2, <1>4 DEF OwnThread
<1>6. Named'
  BY <1>0, <1>2, <1>4, <1>5 DEF IInv, Named, OwnThread
<1>7. OwnCalls(c)'
  <2>1. /\ Len(Append(s, StopItem)) = Len(s) + 1 /\ Len(s) \in Nat
        /\ \A j \in 1 .. Len(s) + 1 :
             (j \in 1 .. Len(s) /\ Append(s, StopItem)[j] = s[j]) \/ Append(s, StopItem)[j] = StopItem
        /\ s # <<>> => Append(s, StopItem) # <<>> /\ Head(Append(s, StopItem)) = Head(s)
    BY ONLY <1>3
  <2> PICK u : u = Append(s, StopItem)
    OBVIOUS
  <2>2. CASE thread'[c].items = s
    <3>1. \A j \in 1 .. Len(s) : s[j] = StopItem \/ (s[j] \in 1 .. Now /\ asked[s[j]] = client[c].dataset)
      BY <1>0 DEF OwnCalls
    <3>2. thread[c].at = "calling" => s # <<>> /\ Head(s) # StopItem
      BY <1>0 DEF OwnCalls
    <3> QED
      BY <1>0, <1>2, <1>4, <2>2, <3>1, <3>2 DEF OwnCalls
  <2>3. CASE thread'[c].items = u
    <3>1. \A j \in 1 .. Len(u) : u[j] = StopItem \/ (j \in 1 .. Len(s) /\ u[j] = s[j])
      BY <2>1
    <3>2. \A j \in 1 .. Len(u) : u[j] = StopItem \/ (u[j] \in 1 .. Now /\ asked[u[j]] = client[c].dataset)
      BY <1>0, <3>1 DEF OwnCalls
    <3>3. thread[c].at = "calling" => u # <<>> /\ Head(u) # StopItem
      BY <1>0, <2>1 DEF OwnCalls
    <3> QED
      BY <1>0, <1>2, <1>4, <2>3, <3>2, <3>3 DEF OwnCalls
  <2> QED
    BY <1>4, <2>2, <2>3
<1>8. Queues'
  BY <1>0, <1>2, <1>4, <1>7 DEF IInv, Queues, OwnCalls
<1>9. Delivered'
  <2>1. \A x \in Ids : thread'[x].at = thread[x].at /\ client'[x].dataset = client[x].dataset
    BY <1>2, <1>4
  <2> QED
    BY <1>0, <2>1 DEF IInv, Delivered, OwnAnswer
<1> QED
  BY <1>1, <1>2, <1>4, <1>6, <1>8, <1>9

(* The datasets asked since question i are finitely many. *)
LEMMA FiniteOthers ==
  ASSUME TypeOK, NEW i \in Nat PROVE IsFiniteSet(Others(i)) /\ Cardinality(Others(i)) \in Nat
<1> DEFINE T == {asked[j] : j \in i + 1 .. Now}
           f == [j \in i + 1 .. Now |-> asked[j]]
<1>1. IsFiniteSet(i + 1 .. Now)
  BY Typed, FS_Interval
<1>2. f \in Surjection(i + 1 .. Now, T)
  BY DEF Surjection
<1>3. IsFiniteSet(T)
  BY <1>1, <1>2, FS_Surjection
<1>4. IsFiniteSet(Others(i))
  BY <1>3, FS_Subset DEF Others
<1> QED
  BY <1>4, FS_CardinalityType

(* The head of a full pool goes when MaxLive other datasets were asked.     *)
LEMMA ManyOthers ==
  ASSUME IInv, NEW i \in 1 .. Now, i # Now, Len(clients) >= MaxLive, Placed(i, 1),
         \A k \in 1 .. Len(clients) : Dataset(k) # asked[Now]
  PROVE  Cardinality(Others(i)) >= MaxLive
<1> DEFINE n == Len(clients)
           f == [k \in 1 .. n |-> IF k = 1 THEN asked[Now] ELSE Dataset(k)]
<1>0. n \in Nat /\ n >= 1 /\ Now \in i + 1 .. Now /\ i \in Nat /\ TypeOK
  BY Typed DEF IInv
<1>1. \A k \in 1 .. n : f[k] \in Others(i)
  <2> SUFFICES ASSUME NEW k \in 1 .. n PROVE f[k] \in Others(i)
    OBVIOUS
  <2>1. Dataset(1) = asked[i] /\ 1 \in 1 .. n
    BY <1>0 DEF Placed
  <2>2. CASE k = 1
    BY <1>0, <2>1, <2>2 DEF Others
  <2>3. CASE k # 1
    <3>1. k \in 1 + 1 .. n
      BY <1>0, <2>3
    <3>2. \E j \in i + 1 .. Now : Dataset(k) = asked[j]
      BY <3>1 DEF Placed
    <3>3. Dataset(k) # asked[i]
      BY <2>1, <2>3 DEF IInv, Pool
    <3> QED
      BY <2>3, <3>2, <3>3 DEF Others
  <2> QED
    BY <2>2, <2>3
<1>2. ASSUME NEW k \in 1 .. n, NEW l \in 1 .. n, f[k] = f[l] PROVE k = l
  <2>1. Dataset(k) # asked[Now] /\ Dataset(l) # asked[Now] /\ (Dataset(k) = Dataset(l) => k = l)
    BY DEF IInv, Pool
  <2>2. /\ f[k] = IF k = 1 THEN asked[Now] ELSE Dataset(k)
        /\ f[l] = IF l = 1 THEN asked[Now] ELSE Dataset(l)
    OBVIOUS
  <2> QED
    BY ONLY <1>2, <2>1, <2>2
<1>3. f \in Injection(1 .. n, Others(i))
  <2>1. f \in [1 .. n -> Others(i)] /\ DOMAIN f = 1 .. n
    BY <1>1
  <2>2. \A k, l \in DOMAIN f : f[k] = f[l] => k = l
    BY <1>2, <2>1
  <2> QED
    BY <2>1, <2>2 DEF Injection, IsInjective
<1> HIDE DEF f, n
<1>4. IsFiniteSet(Others(i)) /\ Cardinality(Others(i)) \in Nat
  BY <1>0, FiniteOthers
<1>5. Cardinality(1 .. n) <= Cardinality(Others(i))
  BY <1>3, <1>4, FS_Injection
<1>6. Cardinality(1 .. n) = n
  BY <1>0, FS_Interval
<1> QED
  BY <1>0, <1>4, <1>5, <1>6 DEF n

(* Steps that leave the pool as it is. *)
LEMMA PoolKept ==
  ASSUME IInv, clients' = clients,
         \A i \in 1 .. Len(clients) :
           /\ client'[clients[i]].thread = clients[i] /\ client'[clients[i]].dataset = Dataset(i)
           /\ thread[clients[i]].opened => thread'[clients[i]].opened
  PROVE  Pool'
BY DEF IInv, Pool, Dataset

LEMMA RecentKept ==
  ASSUME IInv, UNCHANGED <<asked, clients>>,
         \A i \in 1 .. Len(clients) : client'[clients[i]].dataset = Dataset(i),
         \A i \in 1 .. Now : told'[i] = "answered" => told[i] = "answered",
         Closing => Closing', ~(At("evict") /\ client[caller.client].thread = caller.client)
  PROVE  Recent'
<1>0. Now' = Now /\ \A i : Others(i)' = Others(i)
  BY DEF Now, Others
<1>1. \A p \in 1 .. Len(clients) : Dataset(p)' = Dataset(p)
  BY DEF Dataset
<1>2. ASSUME NEW i \in 1 .. Now, NEW p \in 1 .. Len(clients), Placed(i, p) PROVE Placed(i, p)'
  <2>1. \A k \in p + 1 .. Len(clients) : k \in 1 .. Len(clients)
    BY Typed DEF IInv
  <2> QED
    BY <1>0, <1>1, <1>2, <2>1 DEF Placed
<1>3. \A i \in 1 .. Now : Kept(i) => Kept(i)'
  BY <1>0, <1>2 DEF Kept
<1> QED
  BY <1>0, <1>3 DEF IInv, Recent

(* A client that is not pooled. *)
LEMMA NotPooled ==
  ASSUME IInv, NEW c \in Ids,
         client[c].thread # c \/ \A i \in 1 .. Len(clients) : Dataset(i) # client[c].dataset
  PROVE  \A i \in 1 .. Len(clients) : clients[i] # c
BY DEF IInv, Pool, Dataset

LEMMA JoinedInv == ASSUME IInv, Joined PROVE IInv'
<1> DEFINE j == caller.joins
<1>0. /\ At("join") /\ UNCHANGED <<asked, clients, thread, future>> /\ Now' = Now /\ TypeOK
      /\ abandoned' = IF thread[j].at = "dead" THEN abandoned ELSE abandoned \cup {j}
      /\ caller' = [at |-> caller.back, client |-> caller.client, joins |-> None, back |-> "none"]
      /\ told' = told \/ (caller.back = "idle" /\ told' = [told EXCEPT ![Now] = "raised"])
  BY DEF Joined, Goto, Raise, Now, IInv
<1>1. /\ j \in Ids /\ ~InPool(j) /\ Len(clients) < MaxLive /\ thread[j].at # "none"
      /\ client[j].thread = None /\ (caller.back = "evict" => Newcomer(caller.client))
      /\ caller.back # "none" /\ (caller.back = "idle" => Now > 0 /\ told[Now] = "none")
  BY <1>0 DEF IInv, Asker
<1>2. thread[j].client = j /\ client' = [client EXCEPT ![j].queue = None]
  BY <1>1 DEF IInv, Named, OwnThread, Joined
<1>3. /\ client' \in [Ids -> Clients]
      /\ \A c \in Ids : c # j => client'[c] = client[c]
      /\ \A c \in Ids : client'[c].thread = client[c].thread /\ client'[c].dataset = client[c].dataset
      /\ client'[j].queue = None /\ client'[j].ready = client[j].ready /\ client'[j].failed = client[j].failed
  <2>1. client' \in [Ids -> Clients] /\ client \in [Ids -> Clients]
    BY <1>0, <1>1, <1>2, ClientSet, Typed
  <2> HIDE DEF j
  <2> QED
    BY ONLY <1>1, <1>2, <2>1 DEF Clients
<1>4. \A i \in Ids : told'[i] = told[i] \/ (i = Now /\ told'[i] = "raised")
  BY <1>0 DEF TypeOK
<1> HIDE DEF j
<1>5. TypeOK'
  <2>1. told' \in [Ids -> {"none", "answered", "raised"}]
    BY <1>0 DEF TypeOK
  <2>2. caller' \in Callers
    <3>1. /\ caller.back \in {"idle", "evict", "closing"} /\ caller.client \in Ids \cup {None}
      BY <1>0, <1>1, Typed DEF Callers
    <3> QED
      BY <1>0, <3>1 DEF Callers
  <2>3. abandoned' \subseteq Ids
    BY <1>0, <1>1 DEF TypeOK
  <2> QED
    BY <1>0, <1>3, <2>1, <2>2, <2>3 DEF TypeOK
<1>6. Named'
  <2> SUFFICES ASSUME NEW c \in Ids PROVE OwnThread(c)'
    BY DEF Named
  <2>1. OwnThread(c) /\ c \in Nat /\ Now \in Nat /\ c # None
    BY <1>0, Typed DEF IInv, Named
  <2>2. told'[c] = told[c] \/ c <= Now
    BY <1>4, <2>1
  <2>3. client'[c].queue \in {None, c}
    BY <1>3, <2>1 DEF OwnThread
  <2>4. client[c].thread = c => client'[c].queue = client[c].queue
    BY <1>1, <1>3, <2>1
  <2>5. client'[c].ready = client[c].ready /\ client'[c].failed = client[c].failed
    BY <1>3
  <2> QED
    BY <1>0, <1>3, <2>1, <2>2, <2>3, <2>4, <2>5 DEF OwnThread
<1>7. Queues'
  BY <1>0, <1>3 DEF IInv, Queues, OwnCalls
<1>8. Delivered'
  BY <1>0, <1>3, <1>4 DEF IInv, Delivered, OwnAnswer
<1>9. \A i \in 1 .. Len(clients) : clients[i] \in Ids
  BY <1>0, Typed
<1>10. Pool'
  BY <1>0, <1>3, <1>9, PoolKept DEF IInv, Pool, Dataset
<1>11. Asker'
  <2>1. CASE caller.back = "evict"
    <3>1. /\ Now > 0 /\ told[Now] = "none" /\ caller.client \in Ids
          /\ client[caller.client].dataset = asked[Now]
          /\ \A i \in 1 .. Len(clients) : Dataset(i) # asked[Now]
      BY <1>0, <2>1 DEF IInv, Asker
    <3>2. /\ caller'.at = "evict" /\ caller'.client = caller.client /\ told' = told
      BY <1>0, <2>1
    <3>3. \A i \in 1 .. Len(clients) : Dataset(i)' = Dataset(i)
      BY <1>0, <1>3, <1>9 DEF Dataset
    <3>4. Newcomer(caller.client)'
      BY <1>0, <1>1, <1>3, <2>1, <3>1, <3>2 DEF Newcomer
    <3> QED
      BY <1>0, <1>3, <3>1, <3>2, <3>3, <3>4 DEF Asker, At
  <2>2. CASE caller.back # "evict"
    <3>1. caller'.at \in {"idle", "closing"}
      BY <1>0, <1>1, <2>2, Typed DEF Callers
    <3> QED
      BY <3>1 DEF Asker, At
  <2> QED
    BY <2>1, <2>2
<1>12. Accounted'
  <2> SUFFICES ASSUME NEW t \in Ids
               PROVE  /\ Live(t)' => t \in abandoned' \/ client'[t].thread = t
                      /\ client'[t].thread = t => InPool(t)'
    BY DEF Accounted
  <2>1. client[t].thread = t => InPool(t)
    BY <1>0 DEF IInv, Accounted, At
  <2>2. Live(t)' => Live(t)
    BY <1>0 DEF Live
  <2>3. Live(t) => t \in abandoned \/ client[t].thread = t \/ t = j
    BY DEF IInv, Accounted, j
  <2>4. Live(t) /\ t = j => t \in abandoned'
    BY <1>0 DEF Live
  <2> QED
    BY <1>0, <1>3, <2>1, <2>2, <2>3, <2>4 DEF InPool
<1>13. Recent'
  <2>1. Closing => Closing'
    BY <1>0 DEF Closing, At
  <2>2. \A i \in 1 .. Now : i \in Ids
    BY <1>0, Typed DEF Ids
  <2>3. \A i \in 1 .. Now : told'[i] = "answered" => told[i] = "answered"
    BY <1>4, <2>2
  <2> QED
    BY <1>0, <1>3, <1>9, <2>1, <2>3, RecentKept DEF At, Dataset
<1> QED
  BY <1>5, <1>6, <1>7, <1>8, <1>10, <1>11, <1>12, <1>13 DEF IInv

(* A client that runs and has opened goes to the end of the pool. *)
LEMMA EnterPool ==
  ASSUME IInv, At("evict") \/ At("wait"), client[caller.client].thread = caller.client,
         thread[caller.client].opened, Len(clients) < MaxLive,
         clients' = Append(clients, caller.client), Goto("call", caller.client),
         UNCHANGED <<asked, told, client, thread, future, abandoned>>
  PROVE  IInv'
<1>c. PICK c, n : c = caller.client /\ n = Len(clients)
  OBVIOUS
<1>0. /\ TypeOK /\ Now' = Now /\ Now > 0 /\ told[Now] = "none" /\ c \in Ids /\ client[c].dataset = asked[Now]
      /\ \A i \in 1 .. n : Dataset(i) # asked[Now]
  BY <1>c DEF IInv, Asker, Now
<1>1. /\ caller' = [at |-> "call", client |-> c, joins |-> None, back |-> "none"]
  BY <1>c DEF Goto
<1>2. n \in Nat /\ n < MaxLive /\ clients \in Seq(Ids) /\ \A i \in 1 .. n : clients[i] \in Ids
  BY <1>0, <1>c, Typed DEF TypeOK
<1>3. /\ Len(clients') = n + 1 /\ clients' \in Seq(Ids) /\ clients'[n + 1] = c
      /\ \A i \in 1 .. n : clients'[i] = clients[i]
      /\ \A i \in 1 .. n + 1 : i \in 1 .. n \/ i = n + 1
  <2>1. clients' = Append(clients, c) /\ n = Len(clients)
    BY <1>c
  <2> QED
    BY ONLY <1>0, <1>2, <2>1
<1>4. /\ \A i \in 1 .. n : Dataset(i)' = Dataset(i)
      /\ Dataset(n + 1)' = asked[Now]
  BY <1>0, <1>3 DEF Dataset
<1>5. TypeOK'
  <2>1. caller' \in Callers
    BY <1>0, <1>1 DEF Callers
  <2>2. Len(clients') <= MaxLive
    BY <1>2, <1>3
  <2> QED
    BY <1>0, <1>3, <2>1, <2>2 DEF TypeOK
<1>6. Named' /\ Queues' /\ Delivered'
  BY QuietOwn
<1>7. Pool'
  <2>1. \A i \in 1 .. n + 1 : client[clients'[i]].thread = clients'[i] /\ thread[clients'[i]].opened
    <3>1. \A i \in 1 .. n : client[clients[i]].thread = clients[i] /\ thread[clients[i]].opened
      BY <1>c DEF IInv, Pool
    <3>2. client[c].thread = c /\ thread[c].opened
      BY <1>c
    <3> QED
      BY <1>3, <3>1, <3>2
  <2>2. ASSUME NEW i \in 1 .. n + 1, NEW k \in 1 .. n + 1, Dataset(i)' = Dataset(k)' PROVE i = k
    <3>1. i \in 1 .. n /\ k \in 1 .. n /\ Dataset(i) = Dataset(k) => i = k
      BY <1>c DEF IInv, Pool
    <3> QED
      BY <1>0, <1>3, <1>4, <2>2, <3>1
  <2> QED
    BY <1>3, <2>1, <2>2 DEF Pool
<1>8. Asker'
  BY <1>0, <1>1, <1>2, <1>3, <1>4 DEF Asker, At
<1>9. Accounted'
  <2> SUFFICES ASSUME NEW t \in Ids
               PROVE  /\ Live(t)' => t \in abandoned' \/ client'[t].thread = t
                      /\ client'[t].thread = t => InPool(t)'
    BY DEF Accounted
  <2>1. Live(t) => t \in abandoned \/ client[t].thread = t
    BY DEF IInv, Accounted, At
  <2>2. client[t].thread = t => InPool(t) \/ t = c
    BY <1>c DEF IInv, Accounted
  <2>3. InPool(t) => InPool(t)'
    <3> SUFFICES ASSUME NEW i \in 1 .. n, clients[i] = t PROVE InPool(t)'
      BY <1>c DEF InPool
    <3>1. i \in 1 .. n + 1 /\ clients'[i] = t
      BY <1>2, <1>3
    <3> QED
      BY <1>3, <3>1 DEF InPool
  <2>4. InPool(c)'
    <3>1. n + 1 \in 1 .. n + 1
      BY <1>2
    <3> QED
      BY <1>3, <3>1 DEF InPool
  <2> QED
    BY <2>1, <2>2, <2>3, <2>4 DEF Live
<1>10. Recent'
  <2> SUFFICES ASSUME NEW i \in 1 .. Now, told[i] = "answered" PROVE Kept(i)'
    BY <1>0 DEF Recent
  <2>0. Now \in Nat /\ i < Now /\ Now \in i + 1 .. Now
    BY <1>0, Typed
  <2>1. Kept(i)
    BY DEF IInv, Recent, Closing, At
  <2>2. CASE \E p \in 1 .. n : Placed(i, p)
    <3>1. PICK p \in 1 .. n : Placed(i, p)
      BY <2>2
    <3>2. p \in 1 .. n + 1 /\ \A k \in p + 1 .. n + 1 : k = n + 1 \/ (k \in p + 1 .. n /\ k \in 1 .. n)
      <4>1. n \in Nat /\ p \in Nat /\ 1 <= p /\ p <= n
        BY <1>2
      <4> QED
        BY ONLY <4>1
    <3>3. \A k \in p + 1 .. n + 1 : \E l \in i + 1 .. Now : Dataset(k)' = asked[l]
      <4> SUFFICES ASSUME NEW k \in p + 1 .. n + 1 PROVE \E l \in i + 1 .. Now : Dataset(k)' = asked[l]
        OBVIOUS
      <4>1. CASE k = n + 1
        BY <1>4, <2>0, <4>1
      <4>2. CASE k \in p + 1 .. n /\ k \in 1 .. n
        BY <1>4, <1>c, <3>1, <4>2 DEF Placed
      <4> QED
        BY <3>2, <4>1, <4>2
    <3>4. Placed(i, p)'
      BY <1>0, <1>3, <1>4, <3>1, <3>3 DEF Placed
    <3> QED
      BY <1>3, <3>2, <3>4 DEF Kept
  <2>3. CASE asked[Now] = asked[i]
    <3>1. n + 1 \in 1 .. n + 1 /\ \A k \in n + 1 + 1 .. n + 1 : FALSE
      BY <1>2
    <3>2. Placed(i, n + 1)'
      BY <1>0, <1>3, <1>4, <2>3, <3>1 DEF Placed
    <3> QED
      BY <1>3, <3>1, <3>2 DEF Kept
  <2>4. CASE Cardinality(Others(i)) >= MaxLive
    <3>1. Others(i)' = Others(i)
      BY <1>0 DEF Others
    <3> QED
      BY <2>4, <3>1 DEF Kept
  <2> QED
    BY <1>c, <2>1, <2>2, <2>3, <2>4 DEF Kept
<1> QED
  BY <1>5, <1>6, <1>7, <1>8, <1>9, <1>10 DEF IInv

LEMMA EntersInv == ASSUME IInv, Reuse \/ Started PROVE IInv'
<1>1. CASE Reuse
  <2>1. At("evict") /\ client[caller.client].thread # None /\ Len(clients) < MaxLive
    BY <1>1 DEF Reuse, Room, Running
  <2>2. client[caller.client].thread = caller.client /\ thread[caller.client].opened
    BY <2>1 DEF IInv, Asker, Newcomer
  <2> QED
    BY <1>1, <2>1, <2>2, EnterPool DEF Reuse
<1>2. CASE Started
  <2>1. At("wait") /\ client[caller.client].ready /\ ~client[caller.client].failed
    BY <1>2 DEF Started
  <2>2. caller.client \in Ids /\ client[caller.client].thread = caller.client /\ Len(clients) < MaxLive
    BY <2>1 DEF IInv, Asker
  <2>3. thread[caller.client].opened
    BY <2>1, <2>2 DEF IInv, Named, OwnThread
  <2> QED
    BY <1>2, <2>1, <2>2, <2>3, EnterPool DEF Started
<1> QED
  BY <1>1, <1>2

(* start(): only of a client that never was started. *)
LEMMA StartInv == ASSUME IInv, Start PROVE IInv'
<1>c. PICK c : c = Now
  OBVIOUS
<1>0. /\ TypeOK /\ UNCHANGED <<asked, told, clients, future, abandoned>> /\ Now' = Now /\ c > 0
      /\ At("evict") /\ Len(clients) < MaxLive /\ told[c] = "none" /\ client[c].dataset = asked[Now]
      /\ caller.client = c /\ c \in Ids /\ client[c].thread = None /\ thread[c].at = "none"
      /\ \A i \in 1 .. Len(clients) : Dataset(i) # asked[Now]
  <2>1. At("evict") /\ client[caller.client].thread = None /\ Len(clients) < MaxLive
        /\ UNCHANGED <<asked, told, clients, future, abandoned>>
    BY DEF Start, Room, Running
  <2>2. caller.client \in Ids /\ caller.client # None
    BY <2>1, Typed DEF IInv, Asker
  <2>3. Newcomer(caller.client)
    BY <2>1, <2>2 DEF IInv, Asker
  <2> QED
    BY <1>c, <2>1, <2>2, <2>3 DEF IInv, Asker, Newcomer, Now
<1>1. /\ client' = [client EXCEPT ![c].thread = c, ![c].ready = FALSE, ![c].failed = FALSE]
      /\ thread' = [thread EXCEPT ![c] = [client |-> c, at |-> "new", items |-> <<>>,
                                          opened |-> FALSE, fatal |-> FALSE]]
      /\ caller' = [at |-> "wait", client |-> c, joins |-> None, back |-> "none"]
  BY <1>0, <1>c DEF Start, Goto
<1>2. /\ client \in [Ids -> Clients] /\ thread \in [Ids -> Threads] /\ c # None /\ Now \in Nat
      /\ \A i \in 1 .. Len(clients) : clients[i] \in Ids
  BY <1>0, Typed
<1>3. /\ client' \in [Ids -> Clients]
      /\ \A x \in Ids : x # c => client'[x] = client[x]
      /\ client'[c].thread = c /\ client'[c].ready = FALSE /\ client'[c].failed = FALSE
      /\ client'[c].dataset = client[c].dataset /\ client'[c].queue = client[c].queue
  <2>1. client' \in [Ids -> Clients]
    <3>1. c \in Ids /\ client \in [Ids -> Clients]
      BY <1>0, <1>2
    <3>2. [client EXCEPT ![c].thread = c, ![c].ready = FALSE, ![c].failed = FALSE] \in [Ids -> Clients]
      BY ONLY <3>1, ClientSet
    <3> QED
      BY ONLY <1>1, <3>2
  <2>2. /\ \A x \in Ids : x # c => client'[x] = client[x]
        /\ client'[c].thread = c /\ client'[c].dataset = client[c].dataset /\ client'[c].queue = client[c].queue
    BY ONLY <1>0, <1>1, <1>2 DEF Clients
  <2>3. client'[c].ready = FALSE /\ client'[c].failed = FALSE
    BY ONLY <1>0, <1>1, <1>2 DEF Clients
  <2> QED
    BY <2>1, <2>2, <2>3
<1>4. /\ thread' \in [Ids -> Threads]
      /\ \A x \in Ids : x # c => thread'[x] = thread[x]
      /\ thread'[c].client = c /\ thread'[c].at = "new" /\ thread'[c].items = <<>>
      /\ thread'[c].opened = FALSE
  <2>1. [client |-> c, at |-> "new", items |-> <<>>, opened |-> FALSE, fatal |-> FALSE] \in Threads
    BY <1>0 DEF Threads
  <2> QED
    BY <1>0, <1>1, <1>2, <2>1
<1>5. TypeOK'
  <2>1. caller' \in Callers
    BY <1>0, <1>1 DEF Callers
  <2> QED
    BY <1>0, <1>3, <1>4, <2>1 DEF TypeOK
<1>6. Named'
  <2>1. OwnThread(c)
    BY <1>0 DEF IInv, Named
  <2>2. OwnThread(c)'
    BY <1>0, <1>2, <1>3, <1>4, <1>c, <2>1 DEF OwnThread
  <2> QED
    BY <1>0, <1>3, <1>4, <2>2 DEF IInv, Named, OwnThread
<1>7. Queues'
  <2>1. OwnCalls(c)'
    BY <1>4 DEF OwnCalls
  <2> QED
    BY <1>0, <1>3, <1>4, <2>1 DEF IInv, Queues, OwnCalls
<1>8. Delivered'
  <2>1. \A x \in Ids : client'[x].dataset = client[x].dataset /\ (thread[x].at # "none" => thread'[x].at # "none")
    BY <1>3, <1>4
  <2> QED
    BY <1>0, <2>1 DEF IInv, Delivered, OwnAnswer
<1>9. \A i \in 1 .. Len(clients) : clients[i] # c
  BY <1>0, <1>2, NotPooled
<1>10. Pool'
  BY <1>0, <1>2, <1>3, <1>4, <1>9, PoolKept DEF IInv, Pool, Dataset
<1>11. Asker'
  <2>1. \A i \in 1 .. Len(clients) : Dataset(i)' = Dataset(i)
    BY <1>0, <1>2, <1>3, <1>9 DEF Dataset
  <2> QED
    BY <1>0, <1>1, <1>3, <1>c, <2>1 DEF Asker, At
<1>12. Accounted'
  <2> SUFFICES ASSUME NEW t \in Ids
               PROVE  /\ Live(t)' => t \in abandoned' \/ client'[t].thread = t
                      /\ client'[t].thread = t => InPool(t)' \/ (At("wait")' /\ caller'.client = t)
    BY DEF Accounted
  <2>1. CASE t = c
    BY <1>1, <1>3, <2>1 DEF At
  <2>2. CASE t # c
    <3>1. /\ Live(t) => t \in abandoned \/ client[t].thread = t
          /\ client[t].thread = t => InPool(t)
      BY <1>0, <2>2 DEF IInv, Accounted, At
    <3> QED
      BY <1>0, <1>3, <1>4, <2>2, <3>1 DEF Live, InPool
  <2> QED
    BY <2>1, <2>2
<1>13. Recent'
  <2>1. ~Closing
    BY <1>0 DEF Closing, At
  <2> QED
    BY <1>0, <1>2, <1>3, <1>9, <2>1, RecentKept DEF Dataset
<1> QED
  BY <1>5, <1>6, <1>7, <1>8, <1>10, <1>11, <1>12, <1>13 DEF IInv

LEMMA StartFailedInv == ASSUME IInv, StartFailed PROVE IInv'
<1>c. PICK c : c = Now
  OBVIOUS
<1>0. /\ TypeOK /\ UNCHANGED <<asked, told, clients, future, abandoned>> /\ Now' = Now /\ Now > 0
      /\ At("wait") /\ Len(clients) < MaxLive /\ told[Now] = "none"
      /\ caller.client = c /\ c \in Ids /\ client[c].thread = c /\ c # None
      /\ \A i \in 1 .. Len(clients) : Dataset(i) # client[c].dataset
      /\ Close(c, None, "idle")
  BY <1>c, Typed DEF StartFailed, IInv, Asker, Now
<1>1. /\ client' \in [Ids -> Clients] /\ thread' \in [Ids -> Threads]
      /\ client'[c].thread = None /\ client'[c].dataset = client[c].dataset
      /\ \A x \in Ids : x # c => client'[x] = client[x] /\ thread'[x] = thread[x]
      /\ \A x \in Ids : thread'[x].at = thread[x].at /\ thread'[x].opened = thread[x].opened
      /\ caller' = [at |-> "join", client |-> None, joins |-> c, back |-> "idle"]
      /\ Named' /\ Queues' /\ Delivered'
  BY <1>0, CloseStep
<1>2. \A i \in 1 .. Len(clients) : clients[i] # c /\ clients[i] \in Ids
  BY <1>0, NotPooled, Typed
<1>3. TypeOK'
  <2>1. caller' \in Callers
    BY <1>0, <1>1 DEF Callers
  <2> QED
    BY <1>0, <1>1, <2>1 DEF TypeOK
<1>4. Pool'
  BY <1>0, <1>1, <1>2, PoolKept DEF IInv, Pool, Dataset
<1>5. Asker'
  <2>1. thread[c].at # "none"
    BY <1>0 DEF IInv, Named, OwnThread
  <2>2. ~InPool(c)'
    BY <1>0, <1>2 DEF InPool
  <2> QED
    BY <1>0, <1>1, <2>1, <2>2 DEF Asker, At, InPool
<1>6. Accounted'
  <2> SUFFICES ASSUME NEW t \in Ids
               PROVE  /\ Live(t)' => t \in abandoned' \/ client'[t].thread = t \/ t = c
                      /\ client'[t].thread = t => InPool(t)'
    BY <1>1 DEF Accounted, At
  <2>1. CASE t = c
    BY <1>0, <1>1, <2>1
  <2>2. CASE t # c
    <3>1. /\ Live(t) => t \in abandoned \/ client[t].thread = t
          /\ client[t].thread = t => InPool(t)
      BY <1>0, <2>2 DEF IInv, Accounted, At
    <3> QED
      BY <1>0, <1>1, <2>2, <3>1 DEF Live, InPool
  <2> QED
    BY <2>1, <2>2
<1>7. Recent'
  <2>1. ~Closing /\ ~At("evict")
    BY <1>0 DEF Closing, At
  <2> QED
    BY <1>0, <1>1, <1>2, <2>1, RecentKept DEF Dataset
<1> QED
  BY <1>1, <1>3, <1>4, <1>5, <1>6, <1>7 DEF IInv

LEMMA StartTimedOutInv == ASSUME IInv, StartTimedOut PROVE IInv'
<1>c. PICK c : c = Now
  OBVIOUS
<1>0. /\ TypeOK /\ UNCHANGED <<asked, clients, thread, future>> /\ Now' = Now /\ Now > 0
      /\ At("wait") /\ Len(clients) < MaxLive /\ told[Now] = "none"
      /\ caller.client = c /\ c \in Ids /\ client[c].thread = c /\ c # None
      /\ \A i \in 1 .. Len(clients) : Dataset(i) # client[c].dataset
      /\ client' = [client EXCEPT ![c].thread = None] /\ abandoned' = abandoned \cup {c}
      /\ told' = [told EXCEPT ![c] = "raised"]
      /\ caller' = [at |-> "idle", client |-> None, joins |-> None, back |-> "none"]
  BY <1>c, Typed DEF StartTimedOut, IInv, Asker, Now, Raise, Goto
<1>1. /\ client' \in [Ids -> Clients]
      /\ \A x \in Ids : x # c => client'[x] = client[x]
      /\ client'[c].thread = None /\ client'[c].dataset = client[c].dataset
      /\ client'[c].queue = client[c].queue /\ client'[c].ready = client[c].ready
      /\ client'[c].failed = client[c].failed
  <2>1. client' \in [Ids -> Clients] /\ client \in [Ids -> Clients]
    BY <1>0, ClientSet, Typed
  <2> QED
    BY ONLY <1>0, <2>1 DEF Clients
<1>2. \A i \in 1 .. Len(clients) : clients[i] # c /\ clients[i] \in Ids
  BY <1>0, NotPooled, Typed
<1>3. \A i \in Ids : (i # c => told'[i] = told[i]) /\ told'[c] = "raised"
  BY <1>0 DEF TypeOK
<1>4. TypeOK'
  <2>1. caller' \in Callers
    BY <1>0 DEF Callers
  <2>2. told' \in [Ids -> {"none", "answered", "raised"}] /\ abandoned' \subseteq Ids
    BY <1>0 DEF TypeOK
  <2> QED
    BY <1>0, <1>1, <2>1, <2>2 DEF TypeOK
<1>5. Named'
  <2>1. OwnThread(c) /\ Now \in Nat
    BY <1>0, Typed DEF IInv, Named
  <2>2. OwnThread(c)'
    BY <1>0, <1>1, <1>c, <2>1 DEF OwnThread
  <2> QED
    BY <1>0, <1>1, <1>3, <2>2 DEF IInv, Named, OwnThread
<1>6. Queues'
  <2>1. \A x \in Ids : client'[x].dataset = client[x].dataset
    BY <1>1
  <2> QED
    BY <1>0, <2>1 DEF IInv, Queues, OwnCalls
<1>7. Delivered'
  <2>1. \A x \in Ids : client'[x].dataset = client[x].dataset
    BY <1>1
  <2> QED
    BY <1>0, <1>3, <2>1 DEF IInv, Delivered, OwnAnswer
<1>8. Pool'
  BY <1>0, <1>1, <1>2, PoolKept DEF IInv, Pool, Dataset
<1>9. Asker'
  BY <1>0 DEF Asker, At
<1>10. Accounted'
  <2> SUFFICES ASSUME NEW t \in Ids
               PROVE  /\ Live(t)' => t \in abandoned' \/ client'[t].thread = t
                      /\ client'[t].thread = t => InPool(t)'
    BY DEF Accounted
  <2>1. CASE t = c
    BY <1>0, <1>1, <2>1
  <2>2. CASE t # c
    <3>1. /\ Live(t) => t \in abandoned \/ client[t].thread = t
          /\ client[t].thread = t => InPool(t)
      BY <1>0, <2>2 DEF IInv, Accounted, At
    <3> QED
      BY <1>0, <1>1, <2>2, <3>1 DEF Live, InPool
  <2> QED
    BY <2>1, <2>2
<1>11. Recent'
  <2>1. ~Closing /\ ~At("evict")
    BY <1>0 DEF Closing, At
  <2>2. \A i \in 1 .. Now : i \in Ids
    BY <1>0, Typed DEF Ids
  <2>3. \A i \in 1 .. Now : told'[i] = "answered" => told[i] = "answered"
    BY <1>3, <2>2
  <2> QED
    BY <1>0, <1>1, <1>2, <2>1, <2>3, RecentKept DEF Dataset
<1> QED
  BY <1>4, <1>5, <1>6, <1>7, <1>8, <1>9, <1>10, <1>11 DEF IInv

(* Where the caller is in search(): its client is the last of the pool.     *)
LEMMA AtTheEnd ==
  ASSUME IInv, At("call") \/ At("await")
  PROVE  /\ Now > 0 /\ Now \in Ids /\ told[Now] = "none" /\ ~Closing
         /\ Len(clients) \in 1 .. Len(clients) /\ clients[Len(clients)] = caller.client
         /\ caller.client \in Ids /\ client[caller.client].dataset = asked[Now]
         /\ client[caller.client].thread = caller.client /\ thread[caller.client].opened
         /\ client[caller.client].queue = caller.client
<1>0. TypeOK /\ ~Closing
  BY DEF IInv, Closing, At
<1>1. /\ Now > 0 /\ told[Now] = "none" /\ Len(clients) > 0 /\ clients[Len(clients)] = caller.client
      /\ client[caller.client].dataset = asked[Now]
  BY DEF IInv, Asker, Dataset
<1>2. Now \in Ids /\ Len(clients) \in 1 .. Len(clients) /\ caller.client \in Ids /\ caller.client # None
  BY <1>0, <1>1, Typed
<1>3. client[caller.client].thread = caller.client /\ thread[caller.client].opened
  BY <1>1, <1>2 DEF IInv, Pool
<1>4. client[caller.client].queue = caller.client
  BY <1>2, <1>3 DEF IInv, Named, OwnThread
<1> QED
  BY <1>0, <1>1, <1>2, <1>3, <1>4

(* search() ends: it returned, or it raised. *)
LEMMA SettlesInv ==
  ASSUME IInv, At("call") \/ At("await"), NEW v \in {"answered", "raised"},
         told' = [told EXCEPT ![Now] = v], v = "answered" => future[Now] # Pending,
         Goto("idle", None), UNCHANGED <<asked, clients, client, thread, future, abandoned>>
  PROVE  IInv'
<1>c. PICK n, l : n = Now /\ l = Len(clients)
  OBVIOUS
<1>0. /\ TypeOK /\ Now' = n /\ n \in Nat /\ n \in Ids /\ ~Closing /\ l \in 1 .. l /\ l \in Nat
      /\ Dataset(l) = asked[n] /\ told \in [Ids -> {"none", "answered", "raised"}]
      /\ \A i \in 1 .. l : clients[i] \in Ids
  <2>1. TypeOK
    BY DEF IInv
  <2> QED
    BY <1>c, <2>1, AtTheEnd, Typed DEF Now, Dataset, TypeOK
<1>1. caller' = [at |-> "idle", client |-> None, joins |-> None, back |-> "none"]
  BY DEF Goto
<1>2. told'[n] = v /\ \A i \in Ids : i # n => told'[i] = told[i]
  BY <1>0, <1>c
<1>3. TypeOK'
  <2>1. caller' \in Callers
    BY <1>1 DEF Callers
  <2>2. told' \in [Ids -> {"none", "answered", "raised"}]
    BY <1>0, <1>c
  <2> QED
    BY <1>0, <2>1, <2>2 DEF TypeOK, Now
<1>4. Named'
  <2> SUFFICES ASSUME NEW c \in Ids PROVE OwnThread(c)'
    BY DEF Named
  <2>1. OwnThread(c) /\ c \in Nat
    BY DEF IInv, Named, Ids
  <2> QED
    BY <1>0, <1>2, <1>c, <2>1 DEF OwnThread
<1>5. Queues'
  BY <1>0, <1>c DEF IInv, Queues, OwnCalls
<1>6. Delivered'
  <2> SUFFICES ASSUME NEW i \in Ids PROVE OwnAnswer(i)'
    BY DEF Delivered
  <2>1. OwnAnswer(i)
    BY DEF IInv, Delivered
  <2> QED
    BY <1>0, <1>2, <1>c, <2>1 DEF OwnAnswer
<1>7. Pool'
  BY PoolKept DEF IInv, Pool, Dataset
<1>8. Asker'
  BY <1>1 DEF Asker, At
<1>9. Accounted'
  <2> SUFFICES ASSUME NEW t \in Ids
               PROVE  /\ Live(t)' => t \in abandoned' \/ client'[t].thread = t
                      /\ client'[t].thread = t => InPool(t)'
    BY DEF Accounted
  <2>1. /\ Live(t) => t \in abandoned \/ client[t].thread = t
        /\ client[t].thread = t => InPool(t)
    BY DEF IInv, Accounted, At
  <2> QED
    BY <2>1 DEF Live, InPool
<1>10. Recent'
  <2> SUFFICES ASSUME NEW i \in 1 .. n, told'[i] = "answered" PROVE Kept(i)'
    BY <1>0 DEF Recent
  <2>0. \A p \in 1 .. l : Dataset(p)' = Dataset(p)
    BY DEF Dataset
  <2>1. CASE i = n
    <3>1. \A k \in l + 1 .. l : FALSE
      BY <1>0
    <3>2. Placed(n, l)'
      BY <1>0, <1>c, <2>0, <3>1 DEF Placed
    <3> QED
      BY <1>0, <1>c, <2>1, <3>2 DEF Kept
  <2>2. CASE i # n
    <3>1. i \in Ids
      BY <1>0, Typed, <1>c DEF Ids
    <3>2. told[i] = "answered"
      BY <1>2, <2>2, <3>1
    <3>3. Kept(i)
      BY <1>0, <1>c, <3>2 DEF IInv, Recent
    <3>4. ~At("evict")
      BY DEF At
    <3>5. Others(i)' = Others(i)
      BY <1>0, <1>c DEF Others
    <3>6. ASSUME NEW p \in 1 .. l, Placed(i, p) PROVE Placed(i, p)'
      <4>1. \A k \in p + 1 .. l : k \in 1 .. l
        BY <1>0
      <4> QED
        BY <1>0, <1>c, <2>0, <3>6, <4>1 DEF Placed
    <3> QED
      BY <1>c, <3>3, <3>4, <3>5, <3>6 DEF Kept
  <2> QED
    BY <2>1, <2>2
<1> QED
  BY <1>3, <1>4, <1>5, <1>6, <1>7, <1>8, <1>9, <1>10 DEF IInv

(* The call goes to the queue of the client's own thread. *)
LEMMA PutInv == ASSUME IInv, Put PROVE IInv'
<1>c. PICK c, n : c = caller.client /\ n = Now
  OBVIOUS
<1>0. /\ TypeOK /\ At("call") /\ UNCHANGED <<asked, clients, client, future, abandoned>> /\ Now' = n
      /\ c \in Ids /\ n \in Ids /\ n \in 1 .. n /\ ~Closing /\ client[c].dataset = asked[n]
      /\ client[c].queue = c /\ clients[Len(clients)] = c /\ Len(clients) \in 1 .. Len(clients)
      /\ n > 0 /\ told[n] = "none" /\ Len(clients) \in Nat
  <2>1. At("call") /\ TypeOK /\ UNCHANGED <<asked, clients, client, future, abandoned>>
    BY DEF Put, IInv
  <2> QED
    BY <1>c, <2>1, AtTheEnd, Typed DEF Now
<1>1. CASE thread[c].at = "dead"
  <2>1. told' = [told EXCEPT ![Now] = "raised"] /\ Goto("idle", None) /\ UNCHANGED thread
    BY <1>0, <1>1, <1>c DEF Put, Raise
  <2> QED
    BY <1>0, <2>1, SettlesInv
<1>2. CASE thread[c].at # "dead"
  <2> PICK s : s = thread[c].items
    OBVIOUS
  <2>1. /\ thread' = [thread EXCEPT ![c].items = Append(s, n)] /\ told' = told
        /\ caller' = [at |-> "await", client |-> c, joins |-> None, back |-> "none"]
    BY <1>0, <1>2, <1>c DEF Put, Goto
  <2>2. /\ thread \in [Ids -> Threads] /\ s \in Seq(Ids \cup {StopItem}) /\ n \in Nat
        /\ Append(s, n) \in Seq(Ids \cup {StopItem}) /\ thread[c] \in Threads
    <3>1. thread \in [Ids -> Threads] /\ thread[c] \in Threads
      BY <1>0, Typed
    <3> QED
      BY <1>0, <3>1 DEF Threads, Ids
  <2>3. /\ thread' \in [Ids -> Threads]
        /\ \A x \in Ids : x # c => thread'[x] = thread[x]
        /\ thread'[c].at = thread[c].at /\ thread'[c].opened = thread[c].opened
        /\ thread'[c].fatal = thread[c].fatal /\ thread'[c].client = thread[c].client
        /\ thread'[c].items = Append(s, n)
    <3>1. thread' \in [Ids -> Threads]
      BY <1>0, <2>1, <2>2, ThreadSet
    <3> QED
      BY ONLY <1>0, <2>1, <2>2, <3>1 DEF Threads
  <2>4. TypeOK'
    <3>1. caller' \in Callers
      BY <1>0, <2>1 DEF Callers
    <3> QED
      BY <1>0, <1>c, <2>1, <2>3, <3>1 DEF TypeOK
  <2>5. OwnThread(c) /\ OwnCalls(c)
    BY <1>0 DEF IInv, Named, Queues
  <2>6. thread[c].at # "none"
    <3>1. thread[c].opened
      BY <1>0, <1>c, AtTheEnd
    <3> QED
      BY <2>5, <3>1 DEF OwnThread
  <2>7. OwnThread(c)'
    BY <1>0, <1>c, <2>1, <2>3, <2>5, <2>6 DEF OwnThread
  <2>8. Named'
    BY <1>0, <1>c, <2>1, <2>3, <2>7 DEF IInv, Named, OwnThread
  <2>9. Queues'
    <3>1. /\ Len(Append(s, n)) = Len(s) + 1 /\ Len(s) \in Nat
          /\ \A j \in 1 .. Len(s) + 1 :
               (j \in 1 .. Len(s) /\ Append(s, n)[j] = s[j]) \/ Append(s, n)[j] = n
          /\ s # <<>> => Append(s, n) # <<>> /\ Head(Append(s, n)) = Head(s)
      BY ONLY <2>2
    <3> PICK u : u = Append(s, n)
      OBVIOUS
    <3>2. \A j \in 1 .. Len(u) : u[j] = n \/ (j \in 1 .. Len(s) /\ u[j] = s[j])
      BY <3>1
    <3>3. \A j \in 1 .. Len(u) : u[j] = StopItem \/ (u[j] \in 1 .. n /\ asked[u[j]] = client[c].dataset)
      BY <1>0, <1>c, <2>5, <3>2 DEF OwnCalls
    <3>4. thread[c].at = "calling" => u # <<>> /\ Head(u) # StopItem
      BY <2>5, <3>1 DEF OwnCalls
    <3>5. OwnCalls(c)'
      BY <1>0, <2>3, <3>3, <3>4 DEF OwnCalls
    <3>6. ASSUME NEW x \in Ids, x # c PROVE OwnCalls(x)'
      <4>1. OwnCalls(x) /\ thread'[x] = thread[x] /\ Now' = Now /\ client' = client /\ asked' = asked
        BY <1>0, <1>c, <2>3, <3>6 DEF IInv, Queues
      <4> QED
        BY ONLY <4>1 DEF OwnCalls
    <3> QED
      BY <3>5, <3>6 DEF Queues
  <2>10. \A x \in Ids : thread'[x].at = thread[x].at /\ thread'[x].opened = thread[x].opened
    BY <2>3
  <2>11. Delivered'
    BY <1>0, <1>c, <2>1, <2>10 DEF IInv, Delivered, OwnAnswer
  <2>12. \A i \in 1 .. Len(clients) : clients[i] \in Ids
    BY <1>0, Typed
  <2>13. Pool'
    BY <1>0, <2>10, <2>12, PoolKept DEF IInv, Pool, Dataset
  <2>14. Asker'
    BY <1>0, <2>1 DEF Asker, At, Dataset
  <2>15. Accounted'
    <3> SUFFICES ASSUME NEW t \in Ids
                 PROVE  /\ Live(t)' => t \in abandoned' \/ client'[t].thread = t
                        /\ client'[t].thread = t => InPool(t)'
      BY DEF Accounted
    <3>1. /\ Live(t) => t \in abandoned \/ client[t].thread = t
          /\ client[t].thread = t => InPool(t)
      BY <1>0 DEF IInv, Accounted, At
    <3> QED
      BY <1>0, <2>10, <3>1 DEF Live, InPool
  <2>16. Recent'
    <3>1. ~At("evict")
      BY <1>0 DEF At
    <3> QED
      BY <1>0, <2>1, <3>1, RecentKept DEF Dataset
  <2> QED
    BY <2>4, <2>8, <2>9, <2>11, <2>13, <2>14, <2>15, <2>16 DEF IInv
<1> QED
  BY <1>1, <1>2

LEMMA EndsInv == ASSUME IInv, Answered \/ CallTimedOut PROVE IInv'
<1>1. CASE Answered
  <2>1. PICK v \in {"answered", "raised"} :
          told' = [told EXCEPT ![Now] = v] /\ (v = "answered" => future[Now] # Pending)
    BY <1>1 DEF Answered
  <2> QED
    BY <1>1, <2>1, SettlesInv DEF Answered
<1>2. CASE CallTimedOut
  BY <1>2, SettlesInv DEF CallTimedOut, Raise
<1> QED
  BY <1>1, <1>2

(* The least recently used client leaves the pool, is told to stop, and     *)
(* joined.                                                                  *)
LEMMA HeadLeaves ==
  ASSUME IInv, Len(clients) > 0, clients' = Tail(clients), ~At("join"),
         NEW resume \in Ids \cup {None}, NEW back \in {"evict", "closing"},
         Close(Head(clients), resume, back), UNCHANGED <<asked, told, future, abandoned>>,
         \A t \in Ids : client[t].thread = t => InPool(t)
  PROVE  /\ TypeOK' /\ Named' /\ Queues' /\ Delivered' /\ Pool' /\ Accounted'
         /\ clients[1] \in Ids /\ client[clients[1]].thread = clients[1]
         /\ caller' = [at |-> "join", client |-> resume, joins |-> clients[1], back |-> back]
         /\ (\A i \in 1 .. Len(clients') : clients'[i] # clients[1]) /\ Len(clients') < MaxLive
         /\ thread'[clients[1]].at # "none" /\ client'[clients[1]].thread = None
         /\ \A x \in Ids : x # clients[1] => client'[x] = client[x] /\ thread'[x] = thread[x]
         /\ Len(clients') = Len(clients) - 1
         /\ \A i \in 1 .. Len(clients) - 1 : Dataset(i)' = Dataset(i + 1) /\ i + 1 \in 1 .. Len(clients)
<1>c. PICK c, n : c = clients[1] /\ n = Len(clients)
  OBVIOUS
<1>0. /\ TypeOK /\ n \in Nat /\ n > 0 /\ n <= MaxLive /\ clients \in Seq(Ids) /\ 1 \in 1 .. n
      /\ Head(clients) = c /\ c \in Ids /\ c # None /\ Now' = Now
      /\ \A i \in 1 .. n : clients[i] \in Ids
  <2>1. TypeOK /\ n \in Nat /\ n > 0 /\ n <= MaxLive /\ clients \in Seq(Ids) /\ n = Len(clients)
        /\ \A i \in 1 .. n : clients[i] \in Ids
    BY <1>c, Typed DEF IInv, TypeOK
  <2>2. 1 \in 1 .. n /\ Head(clients) = clients[1]
    BY ONLY <2>1
  <2>3. c \in Ids /\ c # None
    BY <1>c, <2>1, <2>2, Typed
  <2> QED
    BY <1>c, <2>1, <2>2, <2>3 DEF Now
<1>1. client[c].thread = c /\ thread[c].opened
  BY <1>0, <1>c DEF IInv, Pool
<1>2. /\ client' \in [Ids -> Clients] /\ thread' \in [Ids -> Threads]
      /\ client'[c].thread = None /\ client'[c].dataset = client[c].dataset
      /\ \A x \in Ids : x # c => client'[x] = client[x] /\ thread'[x] = thread[x]
      /\ \A x \in Ids : thread'[x].at = thread[x].at /\ thread'[x].opened = thread[x].opened
      /\ caller' = [at |-> "join", client |-> resume, joins |-> c, back |-> back]
      /\ Named' /\ Queues' /\ Delivered'
  BY <1>0, <1>1, CloseStep
<1>3. /\ Len(clients') = n - 1 /\ clients' \in Seq(Ids) /\ n - 1 < MaxLive
      /\ \A i \in 1 .. n - 1 : i + 1 \in 1 .. n /\ i + 1 # 1 /\ clients'[i] = clients[i + 1]
      /\ \A i \in 1 .. n : i = 1 \/ (i - 1 \in 1 .. n - 1 /\ clients'[i - 1] = clients[i])
  <2>1. clients' = Tail(clients) /\ clients \in Seq(Ids) /\ n = Len(clients) /\ n > 0 /\ n \in Nat /\ n <= MaxLive
    BY <1>0, <1>c
  <2> QED
    BY ONLY <2>1, LiveAssumption
<1>4. \A i \in 1 .. n - 1 : clients[i + 1] \in Ids /\ clients[i + 1] # c
  <2>1. \A i \in 1 .. n - 1 : Dataset(i + 1) # Dataset(1)
    BY <1>0, <1>3, <1>c DEF IInv, Pool
  <2> QED
    BY <1>0, <1>3, <1>c, <2>1 DEF Dataset
<1>5. \A i \in 1 .. n - 1 : Dataset(i)' = Dataset(i + 1)
  BY <1>2, <1>3, <1>4 DEF Dataset
<1>6. TypeOK'
  <2>1. caller' \in Callers
    BY <1>0, <1>2 DEF Callers
  <2> QED
    BY <1>0, <1>2, <1>3, <2>1 DEF TypeOK
<1>7. Pool'
  <2>1. \A i \in 1 .. n - 1 : client'[clients'[i]].thread = clients'[i] /\ thread'[clients'[i]].opened
    <3>1. \A i \in 1 .. n : client[clients[i]].thread = clients[i] /\ thread[clients[i]].opened
      BY <1>c DEF IInv, Pool
    <3> QED
      BY <1>2, <1>3, <1>4, <3>1
  <2>2. ASSUME NEW i \in 1 .. n - 1, NEW k \in 1 .. n - 1, Dataset(i)' = Dataset(k)' PROVE i = k
    <3>1. Dataset(i + 1) = Dataset(k + 1) /\ i + 1 \in 1 .. n /\ k + 1 \in 1 .. n
      BY <1>3, <1>5, <2>2
    <3>2. i + 1 = k + 1
      BY <1>c, <3>1 DEF IInv, Pool
    <3> QED
      BY <1>0, <3>2
  <2> QED
    BY <1>3, <2>1, <2>2 DEF Pool
<1>8. \A i \in 1 .. n - 1 : clients'[i] # c
  BY <1>3, <1>4
<1>9. Accounted'
  <2> SUFFICES ASSUME NEW t \in Ids
               PROVE  /\ Live(t)' => t \in abandoned' \/ client'[t].thread = t \/ t = c
                      /\ client'[t].thread = t => InPool(t)'
    BY <1>2 DEF Accounted, At
  <2>1. CASE t = c
    BY <1>0, <1>2, <2>1
  <2>2. CASE t # c
    <3>1. /\ Live(t) => t \in abandoned \/ client[t].thread = t
          /\ client[t].thread = t => InPool(t)
      BY DEF IInv, Accounted
    <3>2. InPool(t) => InPool(t)'
      <4> SUFFICES ASSUME NEW i \in 1 .. n, clients[i] = t PROVE InPool(t)'
        BY <1>c DEF InPool
      <4>1. i # 1
        BY <1>c, <2>2
      <4> QED
        BY <1>3, <4>1 DEF InPool
    <3> QED
      BY <1>2, <2>2, <3>1, <3>2 DEF Live
  <2> QED
    BY <2>1, <2>2
<1>10. thread[c].at # "none"
  BY <1>0, <1>1 DEF IInv, Named, OwnThread
<1>11. thread'[c].at # "none"
  BY <1>0, <1>2, <1>10
<1> QED
  BY <1>0, <1>1, <1>2, <1>3, <1>5, <1>6, <1>7, <1>8, <1>9, <1>11, <1>c

LEMMA EvictInv == ASSUME IInv, Evict PROVE IInv'
<1>c. PICK c, n, l : c = clients[1] /\ n = Now /\ l = Len(clients)
  OBVIOUS
<1>0. /\ TypeOK /\ At("evict") /\ l >= MaxLive /\ l \in Nat /\ l > 0 /\ l <= MaxLive /\ n \in Nat
      /\ UNCHANGED <<asked, told, future, abandoned>> /\ Now' = n
      /\ Close(Head(clients), caller.client, "evict") /\ clients' = Tail(clients)
  <2>1. TypeOK /\ At("evict") /\ l >= MaxLive
        /\ UNCHANGED <<asked, told, future, abandoned>>
        /\ Close(Head(clients), caller.client, "evict") /\ clients' = Tail(clients)
    BY <1>c DEF IInv, Evict
  <2> QED
    BY <1>c, <2>1, Typed DEF Now
<1>1. /\ n > 0 /\ n \in Ids /\ told[n] = "none" /\ caller.client = n
      /\ client[n].dataset = asked[n] /\ client[n].thread = None /\ thread[n].at = "none"
      /\ \A i \in 1 .. l : Dataset(i) # asked[n]
  <2>1. Newcomer(caller.client)
    BY <1>0, <1>c DEF IInv, Asker
  <2> QED
    BY <1>0, <1>c, <2>1, Typed DEF IInv, Asker, Newcomer
<1>2. \A t \in Ids : client[t].thread = t => InPool(t)
  <2>1. \A t \in Ids : client[t].thread = t => t # n
    BY <1>0, <1>1, Typed
  <2> QED
    BY <1>0, <1>1, <2>1 DEF IInv, Accounted, At
<1>3. ~At("join") /\ Len(clients) > 0
  BY <1>0, <1>c DEF At
<1>4. /\ TypeOK' /\ Named' /\ Queues' /\ Delivered' /\ Pool' /\ Accounted'
      /\ c \in Ids /\ client[c].thread = c
      /\ caller' = [at |-> "join", client |-> n, joins |-> c, back |-> "evict"]
      /\ (\A i \in 1 .. Len(clients') : clients'[i] # c) /\ Len(clients') < MaxLive
      /\ thread'[c].at # "none" /\ client'[c].thread = None
      /\ \A x \in Ids : x # c => client'[x] = client[x] /\ thread'[x] = thread[x]
      /\ Len(clients') = l - 1
      /\ \A i \in 1 .. l - 1 : Dataset(i)' = Dataset(i + 1) /\ i + 1 \in 1 .. l
  <2>1. caller.client \in Ids \cup {None} /\ "evict" \in {"evict", "closing"}
    BY <1>1
  <2> QED
    BY <1>0, <1>1, <1>2, <1>3, <1>c, <2>1, HeadLeaves
<1>5. c # n /\ client'[n] = client[n] /\ thread'[n] = thread[n]
  BY <1>0, <1>1, <1>4, Typed
<1>6. Asker'
  <2>1. \A i \in 1 .. l - 1 : Dataset(i)' # asked[n]
    BY <1>1, <1>4
  <2>2. Newcomer(n)'
    BY <1>0, <1>1, <1>5 DEF Newcomer
  <2>3. caller'.at = "join" /\ caller'.client = n /\ caller'.joins = c /\ caller'.back = "evict"
    BY <1>4
  <2> QED
    BY <1>0, <1>1, <1>4, <1>5, <2>1, <2>2, <2>3 DEF Asker, At, InPool
<1>7. Recent'
  <2> SUFFICES ASSUME NEW i \in 1 .. n, told[i] = "answered" PROVE Kept(i)'
    BY <1>0 DEF Recent
  <2>1. i # n /\ Kept(i)
    BY <1>0, <1>1, <1>c DEF IInv, Recent, Closing, At
  <2>2. Others(i)' = Others(i)
    BY <1>0, <1>c DEF Others
  <2>3. ~(client[caller.client].thread = caller.client)
    BY <1>0, <1>1, Typed
  <2>4. CASE \E p \in 1 .. l : Placed(i, p)
    <3>1. PICK p \in 1 .. l : Placed(i, p)
      BY <2>4
    <3>2. CASE p = 1
      BY <1>0, <1>1, <1>c, <2>1, <2>2, <3>1, <3>2, ManyOthers DEF Kept
    <3>3. CASE p # 1
      <4>1. PICK q : q = p - 1
        OBVIOUS
      <4>2. /\ q \in 1 .. l - 1 /\ q + 1 = p
            /\ \A k \in q + 1 .. l - 1 : k \in 1 .. l - 1 /\ k + 1 \in p + 1 .. l
        <5>1. l \in Nat /\ p \in Nat /\ 1 <= p /\ p <= l /\ p # 1
          BY <1>0, <3>3
        <5> QED
          BY ONLY <4>1, <5>1
      <4>3. Dataset(q)' = asked[i]
        BY <1>4, <3>1, <4>2 DEF Placed
      <4>4. \A k \in q + 1 .. l - 1 : \E j \in i + 1 .. n : Dataset(k)' = asked[j]
        BY <1>4, <1>c, <3>1, <4>2 DEF Placed
      <4>5. Placed(i, q)'
        BY <1>0, <1>4, <4>3, <4>4 DEF Placed
      <4> QED
        BY <1>4, <4>2, <4>5 DEF Kept
    <3> QED
      BY <3>2, <3>3
  <2>5. CASE Cardinality(Others(i)) >= MaxLive
    BY <2>2, <2>5 DEF Kept
  <2> QED
    BY <1>c, <2>1, <2>3, <2>4, <2>5 DEF Kept
<1> QED
  BY <1>4, <1>6, <1>7 DEF IInv

LEMMA ClosePoolInv == ASSUME IInv, ClosePool PROVE IInv'
<1>0. /\ TypeOK /\ (At("idle") \/ At("closing")) /\ UNCHANGED <<asked, told, future, abandoned>>
      /\ Now' = Now /\ Len(clients) \in Nat
  BY Typed DEF IInv, ClosePool, Now
<1>1. \A t \in Ids : client[t].thread = t => InPool(t)
  BY <1>0 DEF IInv, Accounted, At
<1>2. CASE clients = <<>>
  <2>1. /\ UNCHANGED <<clients, client, thread>>
        /\ caller' = [at |-> "closed", client |-> None, joins |-> None, back |-> "none"]
    BY <1>2 DEF ClosePool, Goto
  <2>2. TypeOK'
    <3>1. caller' \in Callers
      BY <2>1 DEF Callers
    <3> QED
      BY <1>0, <2>1, <3>1 DEF TypeOK
  <2>3. Named' /\ Queues' /\ Delivered'
    BY <1>0, <2>1, QuietOwn
  <2>4. Pool'
    BY <2>1, PoolKept DEF IInv, Pool, Dataset
  <2>5. Asker'
    BY <1>2, <2>1 DEF Asker, At
  <2>6. Accounted'
    BY <1>0, <1>1, <2>1 DEF IInv, Accounted, At, InPool, Live
  <2>7. Recent'
    BY <2>1 DEF Recent, Closing, At
  <2> QED
    BY <2>2, <2>3, <2>4, <2>5, <2>6, <2>7 DEF IInv
<1>3. CASE clients # <<>>
  <2>1. Close(Head(clients), None, "closing") /\ clients' = Tail(clients)
    BY <1>3 DEF ClosePool
  <2>2. Len(clients) > 0 /\ ~At("join")
    BY <1>0, <1>3 DEF TypeOK, At
  <2>3. /\ TypeOK' /\ Named' /\ Queues' /\ Delivered' /\ Pool' /\ Accounted'
        /\ clients[1] \in Ids
        /\ caller' = [at |-> "join", client |-> None, joins |-> clients[1], back |-> "closing"]
        /\ (\A i \in 1 .. Len(clients') : clients'[i] # clients[1]) /\ Len(clients') < MaxLive
        /\ thread'[clients[1]].at # "none" /\ client'[clients[1]].thread = None
    BY <1>0, <1>1, <2>1, <2>2, HeadLeaves
  <2>c. PICK c : c = clients[1]
    OBVIOUS
  <2>4. /\ caller'.at = "join" /\ caller'.joins = c /\ caller'.back = "closing" /\ c \in Ids
        /\ \A i \in 1 .. Len(clients') : clients'[i] # c
        /\ thread'[c].at # "none" /\ client'[c].thread = None
    BY <2>3, <2>c
  <2>5. Asker'
    BY <2>3, <2>4 DEF Asker, At, InPool
  <2>6. Recent'
    BY <2>4 DEF Recent, Closing, At
  <2> QED
    BY <2>3, <2>5, <2>6 DEF IInv
<1> QED
  BY <1>2, <1>3

(* A sequence without its i-th element. *)
LEMMA Removal ==
  ASSUME NEW S, NEW s \in Seq(S), NEW i \in 1 .. Len(s), NEW u,
         u = SubSeq(s, 1, i - 1) \o SubSeq(s, i + 1, Len(s))
  PROVE  /\ u \in Seq(S) /\ Len(u) = Len(s) - 1
         /\ \A k \in 1 .. Len(s) - 1 : u[k] = IF k < i THEN s[k] ELSE s[k + 1]
<1>l. PICK l : l = Len(s)
  OBVIOUS
<1>0. l \in Nat /\ i \in Nat /\ 1 <= i /\ i <= l
  BY <1>l
<1> DEFINE a == SubSeq(s, 1, i - 1)
           b == SubSeq(s, i + 1, l)
<1>1. \A k \in i + 1 .. l : s[k] \in S
  BY <1>0, <1>l
<1>2. \A k \in 1 .. i - 1 : s[k] \in S
  BY <1>0, <1>l
<1>3. a \in Seq(S) /\ Len(a) = i - 1 /\ \A k \in 1 .. i - 1 : a[k] = s[k]
  <2>1. /\ a \in Seq(S) /\ Len(a) = IF 1 <= i - 1 THEN (i - 1) - 1 + 1 ELSE 0
        /\ \A k \in 1 .. (i - 1) - 1 + 1 : a[k] = s[1 + k - 1]
    BY <1>0, <1>2, SubSeqProperties
  <2> HIDE DEF a
  <2> QED
    BY <1>0, <2>1
<1>4. b \in Seq(S) /\ Len(b) = l - i /\ \A k \in 1 .. l - i : b[k] = s[k + i]
  <2>1. /\ b \in Seq(S) /\ Len(b) = IF i + 1 <= l THEN l - (i + 1) + 1 ELSE 0
        /\ \A k \in 1 .. l - (i + 1) + 1 : b[k] = s[(i + 1) + k - 1]
    BY <1>0, <1>1, SubSeqProperties
  <2> HIDE DEF b
  <2> QED
    BY <1>0, <2>1
<1>5. u = a \o b
  BY <1>l
<1> HIDE DEF a, b
<1>6. /\ u \in Seq(S) /\ Len(u) = l - 1
      /\ \A k \in 1 .. l - 1 : u[k] = IF k <= i - 1 THEN a[k] ELSE b[k - (i - 1)]
  <2>1. /\ a \o b \in Seq(S) /\ Len(a \o b) = Len(a) + Len(b)
        /\ \A k \in 1 .. Len(a) + Len(b) : (a \o b)[k] = IF k <= Len(a) THEN a[k] ELSE b[k - Len(a)]
    BY <1>3, <1>4, ConcatProperties
  <2>2. Len(a) + Len(b) = l - 1
    BY <1>0, <1>3, <1>4
  <2> QED
    BY <1>3, <1>5, <2>1, <2>2
<1>7. ASSUME NEW k \in 1 .. l - 1 PROVE u[k] = IF k < i THEN s[k] ELSE s[k + 1]
  <2>1. k \in Nat /\ 1 <= k /\ k <= l - 1
    BY <1>0
  <2>2. CASE k < i
    <3>1. k <= i - 1 /\ k \in 1 .. i - 1
      BY ONLY <1>0, <2>1, <2>2
    <3> QED
      BY <1>3, <1>6, <2>2, <3>1
  <2>3. CASE ~(k < i)
    <3>1. ~(k <= i - 1) /\ k - (i - 1) \in 1 .. l - i /\ (k - (i - 1)) + i = k + 1
      BY ONLY <1>0, <2>1, <2>3
    <3> QED
      BY <1>4, <1>6, <2>3, <3>1
  <2> QED
    BY <2>2, <2>3
<1> QED
  BY <1>6, <1>7, <1>l

(* One more question can only add to the datasets asked since another.      *)
LEMMA MoreOthers ==
  ASSUME TypeOK, NEW d \in Datasets, asked' = Append(asked, d), NEW j \in 1 .. Now
  PROVE  /\ Cardinality(Others(j)) \in Nat /\ Cardinality(Others(j)') \in Nat
         /\ Cardinality(Others(j)) <= Cardinality(Others(j)')
<1>n. PICK n : n = Now
  OBVIOUS
<1>0. /\ n \in Nat /\ Now' = n + 1 /\ asked'[n + 1] = d /\ \A k \in 1 .. n : asked'[k] = asked[k]
      /\ j \in Nat /\ 1 <= j /\ j <= n
  <2>1. asked \in Seq(Datasets) /\ n = Len(asked)
    BY <1>n DEF TypeOK, Now
  <2>2. n \in Nat /\ Len(asked') = n + 1 /\ asked'[n + 1] = d /\ \A k \in 1 .. n : asked'[k] = asked[k]
    BY <2>1
  <2> QED
    BY <1>n, <2>2 DEF Now
<1>1. /\ \A k \in j + 1 .. n : k \in 1 .. n /\ k \in j + 1 .. n + 1
      /\ \A k \in j + 1 .. n + 1 : k \in j + 1 .. n \/ k = n + 1
      /\ j \in 1 .. n
  BY ONLY <1>0
<1>2. Others(j) \subseteq Others(j)'
  BY <1>0, <1>1, <1>n DEF Others
<1>3. Others(j)' \subseteq Others(j) \cup {d}
  BY <1>0, <1>1, <1>n DEF Others
<1>4. IsFiniteSet(Others(j)) /\ Cardinality(Others(j)) \in Nat
  BY <1>0, FiniteOthers
<1>5. IsFiniteSet(Others(j) \cup {d})
  BY <1>4, FS_AddElement
<1>6. IsFiniteSet(Others(j)')
  BY <1>3, <1>5, FS_Subset
<1> QED
  BY <1>2, <1>4, <1>6, FS_Subset, FS_CardinalityType

(* A new question: its client, made or not yet, has done nothing so far.    *)
LEMMA Asks ==
  ASSUME IInv, NEW d \in Datasets, At("idle"), Now < MaxCalls, asked' = Append(asked, d),
         UNCHANGED <<told, thread, future>>,
         \A c \in Ids : /\ c # Now + 1 => client'[c] = client[c]
                        /\ client'[c].thread = client[c].thread /\ client'[c].queue = client[c].queue
                        /\ client'[c].ready = client[c].ready /\ client'[c].failed = client[c].failed
  PROVE  /\ Now' = Now + 1 /\ Now \in Nat /\ Now + 1 \in Ids /\ asked' \in Seq(Datasets)
         /\ asked'[Now + 1] = d /\ \A k \in 1 .. Now : asked'[k] = asked[k]
         /\ client[Now + 1].thread = None /\ thread[Now + 1].at = "none" /\ told[Now + 1] = "none"
         /\ Named' /\ Queues' /\ Delivered'
<1>n. PICK n, m : n = Now /\ m = n + 1
  OBVIOUS
<1>0. /\ TypeOK /\ n \in Nat /\ m \in Nat /\ m > n /\ m \in Ids /\ Now' = m /\ asked' \in Seq(Datasets)
      /\ asked'[m] = d /\ \A k \in 1 .. n : asked'[k] = asked[k] /\ k \in 1 .. m
  <2>1. TypeOK /\ asked \in Seq(Datasets) /\ n = Len(asked)
    BY <1>n DEF IInv, TypeOK, Now
  <2>2. /\ n \in Nat /\ Len(asked') = n + 1 /\ asked' \in Seq(Datasets)
        /\ asked'[n + 1] = d /\ \A k \in 1 .. n : asked'[k] = asked[k]
    BY <2>1
  <2>3. m \in Ids
    BY <1>n, <2>2 DEF Ids
  <2> QED
    BY <1>n, <2>1, <2>2, <2>3 DEF Now
<1>1. OwnThread(m) /\ client[m].thread = None /\ thread[m].at = "none" /\ told[m] = "none" /\ thread[m].items = <<>>
  BY <1>0, <1>n DEF IInv, Named, OwnThread
<1>2. Named'
  <2> SUFFICES ASSUME NEW c \in Ids PROVE OwnThread(c)'
    BY DEF Named
  <2>1. OwnThread(c) /\ c \in Nat /\ (c > m => c > n)
    BY <1>0 DEF IInv, Named, Ids
  <2> QED
    BY <1>0, <1>n, <2>1 DEF OwnThread
<1>3. Queues'
  <2> SUFFICES ASSUME NEW c \in Ids PROVE OwnCalls(c)'
    BY DEF Queues
  <2>1. OwnCalls(c)
    BY DEF IInv, Queues
  <2>2. CASE c = m
    BY <1>1, <2>2 DEF OwnCalls
  <2>3. CASE c # m
    BY <1>0, <1>n, <2>1, <2>3 DEF OwnCalls
  <2> QED
    BY <2>2, <2>3
<1>4. Delivered'
  <2> SUFFICES ASSUME NEW i \in Ids PROVE OwnAnswer(i)'
    BY DEF Delivered
  <2>1. OwnAnswer(i) /\ i \in Nat /\ 1 <= i
    BY DEF IInv, Delivered, Ids
  <2>2. i <= n => i \in 1 .. n /\ i <= m
    BY <1>0, <2>1
  <2>3. future[i] # Pending => future[i].by # m
    BY <1>1, <2>1 DEF OwnAnswer
  <2> QED
    BY <1>0, <1>n, <2>1, <2>2, <2>3 DEF OwnAnswer
<1> QED
  BY <1>0, <1>1, <1>2, <1>3, <1>4, <1>n

(* A dataset with no client in the pool: one is made. *)
LEMMA AcquireNewInv ==
  ASSUME IInv, NEW d \in Datasets, At("idle"), Now < MaxCalls, asked' = Append(asked, d), Pooled(d) = {},
         client' = [client EXCEPT ![Now + 1].dataset = d], Goto("evict", Now + 1),
         UNCHANGED <<told, clients, thread, future, abandoned>>
  PROVE  IInv'
<1>n. PICK n, m, l : n = Now /\ m = n + 1 /\ l = Len(clients)
  OBVIOUS
<1>0. /\ TypeOK /\ n \in Nat /\ m \in Ids /\ m > n /\ l \in Nat /\ client \in [Ids -> Clients]
      /\ \A i \in 1 .. l : clients[i] \in Ids
  <2>1. TypeOK
    BY DEF IInv
  <2>2. n \in Nat /\ n < MaxCalls
    BY <1>n, <2>1, Typed
  <2> QED
    BY <1>n, <2>1, <2>2, Typed DEF Ids
<1>1. /\ client' \in [Ids -> Clients] /\ client'[m].dataset = d
      /\ \A c \in Ids : /\ c # m => client'[c] = client[c]
                        /\ client'[c].thread = client[c].thread /\ client'[c].queue = client[c].queue
                        /\ client'[c].ready = client[c].ready /\ client'[c].failed = client[c].failed
  <2>1. client' = [client EXCEPT ![m].dataset = d]
    BY <1>n
  <2>2. client' \in [Ids -> Clients]
    <3>1. m \in Ids /\ client \in [Ids -> Clients] /\ d \in Datasets
      BY <1>0
    <3>2. [client EXCEPT ![m].dataset = d] \in [Ids -> Clients]
      BY ONLY <3>1, ClientSet
    <3> QED
      BY ONLY <2>1, <3>2
  <2> QED
    BY ONLY <1>0, <2>1, <2>2 DEF Clients
<1>2. /\ Now' = m /\ asked' \in Seq(Datasets) /\ asked'[m] = d /\ (\A k \in 1 .. n : asked'[k] = asked[k])
      /\ client[m].thread = None /\ thread[m].at = "none" /\ told[m] = "none"
      /\ Named' /\ Queues' /\ Delivered'
  BY <1>1, <1>n, Asks
<1>3. \A i \in 1 .. l : clients[i] # m
  BY <1>0, <1>2, <1>n, NotPooled, Typed
<1>4. /\ caller' = [at |-> "evict", client |-> m, joins |-> None, back |-> "none"]
  BY <1>n DEF Goto
<1>5. TypeOK'
  <2>1. caller' \in Callers
    BY <1>0, <1>4 DEF Callers
  <2>2. m <= MaxCalls
    BY <1>0 DEF Ids
  <2> QED
    BY <1>0, <1>1, <1>2, <2>1, <2>2 DEF TypeOK
<1>6. \A i \in 1 .. l : Dataset(i)' = Dataset(i) /\ Dataset(i) # d
  <2>1. clients \in Seq(Ids) /\ DOMAIN clients = 1 .. l
    BY <1>0, <1>n DEF TypeOK
  <2> QED
    BY <1>0, <1>1, <1>3, <2>1 DEF Dataset, Pooled
<1>7. Pool'
  BY <1>0, <1>1, <1>3, <1>n, PoolKept DEF IInv, Pool, Dataset
<1>8. Asker'
  <2>1. Newcomer(m)'
    BY <1>0, <1>1, <1>2 DEF Newcomer
  <2>2. m > 0 /\ told'[m] = "none" /\ client'[m].dataset = asked'[m]
    <3>1. m > 0
      BY <1>0 DEF Ids
    <3> QED
      BY <1>1, <1>2, <3>1
  <2>3. caller'.at = "evict" /\ caller'.client = m
    BY <1>4
  <2>4. Len(clients') = l /\ \A i \in 1 .. l : Dataset(i)' # asked'[m]
    BY <1>2, <1>6, <1>n
  <2> QED
    BY <1>0, <1>2, <2>1, <2>2, <2>3, <2>4 DEF Asker, At
<1>9. Accounted'
  <2> SUFFICES ASSUME NEW t \in Ids
               PROVE  /\ Live(t)' => t \in abandoned' \/ client'[t].thread = t
                      /\ client'[t].thread = t => InPool(t)'
    BY DEF Accounted
  <2>1. /\ Live(t) => t \in abandoned \/ client[t].thread = t
        /\ client[t].thread = t => InPool(t)
    BY DEF IInv, Accounted, At
  <2> QED
    BY <1>1, <2>1 DEF Live, InPool
<1>10. Recent'
  <2> SUFFICES ASSUME NEW j \in 1 .. m, told[j] = "answered" PROVE Kept(j)'
    BY <1>2 DEF Recent
  <2>1. j \in 1 .. n
    BY <1>0, <1>2, <1>n
  <2>2. Kept(j) /\ ~At("evict")
    BY <1>n, <2>1 DEF IInv, Recent, Closing, At
  <2>3. CASE \E p \in 1 .. l : Placed(j, p)
    <3>1. PICK p \in 1 .. l : Placed(j, p)
      BY <2>3
    <3>2. /\ \A k \in p + 1 .. l : k \in 1 .. l
          /\ \A k \in j + 1 .. n : k \in 1 .. n /\ k \in j + 1 .. m
      BY <1>0, <1>n
    <3>3. \A k \in p + 1 .. l : \E i \in j + 1 .. m : Dataset(k)' = asked'[i]
      BY <1>2, <1>6, <1>n, <3>1, <3>2 DEF Placed
    <3>4. Dataset(p)' = asked'[j]
      BY <1>2, <1>6, <2>1, <3>1 DEF Placed
    <3>5. Placed(j, p)'
      BY <1>2, <1>n, <3>3, <3>4 DEF Placed
    <3> QED
      BY <1>n, <3>5 DEF Kept
  <2>4. CASE Cardinality(Others(j)) >= MaxLive
    <3>1. /\ Cardinality(Others(j)) \in Nat /\ Cardinality(Others(j)') \in Nat
          /\ Cardinality(Others(j)) <= Cardinality(Others(j)')
      BY <1>0, <1>n, <2>1, MoreOthers
    <3>2. Cardinality(Others(j)') >= MaxLive
      BY <2>4, <3>1
    <3> QED
      BY <3>2 DEF Kept
  <2> QED
    BY <1>n, <2>2, <2>3, <2>4 DEF Kept
<1> QED
  BY <1>2, <1>5, <1>7, <1>8, <1>9, <1>10 DEF IInv

(* A dataset with a client in the pool: the client is taken out.  Of those  *)
(* behind it, each moves up one place.                                      *)
LEMMA AcquirePooledInv ==
  ASSUME IInv, NEW d \in Datasets, At("idle"), Now < MaxCalls, asked' = Append(asked, d),
         NEW i \in Pooled(d),
         clients' = SubSeq(clients, 1, i - 1) \o SubSeq(clients, i + 1, Len(clients)),
         Goto("evict", clients[i]), UNCHANGED <<told, client, thread, future, abandoned>>
  PROVE  IInv'
<1>n. PICK n, m, l, c : n = Now /\ m = n + 1 /\ l = Len(clients) /\ c = clients[i]
  OBVIOUS
<1>0. /\ TypeOK /\ n \in Nat /\ m \in Nat /\ m > n /\ l \in Nat /\ l <= MaxLive /\ clients \in Seq(Ids)
      /\ \A k \in 1 .. l : clients[k] \in Ids
  <2>1. TypeOK
    BY DEF IInv
  <2>2. n \in Nat
    BY <1>n, <2>1, Typed
  <2> QED
    BY <1>n, <2>1, <2>2, Typed DEF TypeOK
<1>1. i \in 1 .. l /\ Dataset(i) = d /\ c \in Ids /\ client[c].dataset = d
      /\ client[c].thread = c /\ thread[c].opened
  <2>1. i \in 1 .. l /\ client[clients[i]].dataset = d
    BY <1>0, <1>n DEF Pooled
  <2> QED
    BY <1>0, <1>n, <2>1 DEF IInv, Pool, Dataset
<1>2. /\ Now' = m /\ asked' \in Seq(Datasets) /\ asked'[m] = d /\ (\A k \in 1 .. n : asked'[k] = asked[k])
      /\ m \in Ids /\ told[m] = "none" /\ Named' /\ Queues' /\ Delivered'
  BY <1>n, Asks
<1>3. caller' = [at |-> "evict", client |-> c, joins |-> None, back |-> "none"]
  BY <1>n DEF Goto
<1> DEFINE was(k) == IF k < i THEN k ELSE k + 1
           is(p) == IF p < i THEN p ELSE p - 1
<1>4. /\ clients' \in Seq(Ids) /\ Len(clients') = l - 1
      /\ \A k \in 1 .. l - 1 : clients'[k] = clients[was(k)]
  <2>1. /\ clients' \in Seq(Ids) /\ Len(clients') = l - 1
        /\ \A k \in 1 .. l - 1 : clients'[k] = IF k < i THEN clients[k] ELSE clients[k + 1]
    <3>1. /\ clients \in Seq(Ids) /\ i \in 1 .. Len(clients) /\ l = Len(clients)
          /\ clients' = SubSeq(clients, 1, i - 1) \o SubSeq(clients, i + 1, Len(clients))
      BY <1>0, <1>1, <1>n
    <3> QED
      BY ONLY <3>1, Removal
  <2> QED
    BY <2>1
<1>5. /\ \A k \in 1 .. l - 1 : was(k) \in 1 .. l /\ was(k) # i
      /\ \A k, p \in 1 .. l - 1 : was(k) = was(p) => k = p
      /\ \A p \in 1 .. l : p # i => is(p) \in 1 .. l - 1 /\ was(is(p)) = p
      /\ \A p \in 1 .. l : p # i => \A k \in is(p) + 1 .. l - 1 : k \in 1 .. l - 1 /\ was(k) \in p + 1 .. l
  <2>1. l \in Nat /\ i \in 1 .. l
    BY <1>0, <1>1
  <2> QED
    BY ONLY <2>1
<1> HIDE DEF was, is
<1>6. \A k \in 1 .. l - 1 : Dataset(k)' = Dataset(was(k)) /\ Dataset(k)' # d
  <2>1. \A k \in 1 .. l - 1 : Dataset(k)' = Dataset(was(k))
    BY <1>4 DEF Dataset
  <2>2. \A k \in 1 .. l - 1 : Dataset(was(k)) # Dataset(i)
    BY <1>1, <1>5, <1>n DEF IInv, Pool
  <2> QED
    BY <1>1, <2>1, <2>2
<1>7. TypeOK'
  <2>1. caller' \in Callers
    BY <1>1, <1>3 DEF Callers
  <2>2. m <= MaxCalls /\ Len(clients') <= MaxLive
    <3>1. m <= MaxCalls
      BY ONLY <1>2, CallsAssumption DEF Ids
    <3>2. l - 1 <= MaxLive
      BY <1>0
    <3> QED
      BY <1>4, <3>1, <3>2
  <2> QED
    BY <1>0, <1>2, <1>4, <2>1, <2>2 DEF TypeOK
<1>8. Pool'
  <2>1. \A k \in 1 .. l - 1 : client'[clients'[k]].thread = clients'[k] /\ thread'[clients'[k]].opened
    <3>1. \A k \in 1 .. l : client[clients[k]].thread = clients[k] /\ thread[clients[k]].opened
      BY <1>n DEF IInv, Pool
    <3> QED
      BY <1>4, <1>5, <3>1
  <2>2. ASSUME NEW k \in 1 .. l - 1, NEW p \in 1 .. l - 1, Dataset(k)' = Dataset(p)' PROVE k = p
    <3>1. Dataset(was(k)) = Dataset(was(p)) /\ was(k) \in 1 .. l /\ was(p) \in 1 .. l
      BY <1>5, <1>6, <2>2
    <3>2. was(k) = was(p)
      BY <1>n, <3>1 DEF IInv, Pool
    <3> QED
      BY <1>5, <3>2
  <2> QED
    BY <1>4, <2>1, <2>2 DEF Pool
<1>9. Asker'
  <2>1. m > 0 /\ told'[m] = "none" /\ client'[c].dataset = asked'[m]
    BY <1>0, <1>1, <1>2
  <2>2. caller'.at = "evict" /\ caller'.client = c
    BY <1>3
  <2>3. l - 1 < MaxLive
    BY <1>0
  <2>4. \A k \in 1 .. l - 1 : Dataset(k)' # asked'[m]
    BY <1>2, <1>6
  <2> QED
    BY <1>1, <1>2, <1>4, <2>1, <2>2, <2>3, <2>4 DEF Asker, At
<1>10. Accounted'
  <2> SUFFICES ASSUME NEW t \in Ids
               PROVE  /\ Live(t)' => t \in abandoned' \/ client'[t].thread = t
                      /\ client'[t].thread = t => InPool(t)' \/ t = c
    BY <1>3 DEF Accounted, At
  <2>1. /\ Live(t) => t \in abandoned \/ client[t].thread = t
        /\ client[t].thread = t => InPool(t)
    BY DEF IInv, Accounted, At
  <2>2. InPool(t) => InPool(t)' \/ t = c
    <3> SUFFICES ASSUME NEW p \in 1 .. l, clients[p] = t, t # c PROVE InPool(t)'
      BY <1>n DEF InPool
    <3>1. p # i
      BY <1>n
    <3> QED
      BY <1>4, <1>5, <3>1 DEF InPool
  <2> QED
    BY <2>1, <2>2 DEF Live
<1>11. Recent'
  <2> SUFFICES ASSUME NEW j \in 1 .. m, told[j] = "answered" PROVE Kept(j)'
    BY <1>2 DEF Recent
  <2>1. j \in 1 .. n
    BY <1>0, <1>2, <1>n
  <2>2. Kept(j) /\ ~At("evict")
    BY <1>n, <2>1 DEF IInv, Recent, Closing, At
  <2>3. CASE \E p \in 1 .. l : Placed(j, p)
    <3>1. PICK p \in 1 .. l : Placed(j, p)
      BY <2>3
    <3>2. CASE p = i
      <4>1. asked'[m] = asked'[j]
        BY <1>1, <1>2, <2>1, <3>1, <3>2 DEF Placed
      <4>2. caller'.at = "evict" /\ caller'.client = c
        BY <1>3
      <4> QED
        BY <1>1, <1>2, <4>1, <4>2 DEF Kept, At
    <3>3. CASE p # i
      <4>q. PICK q : q = is(p)
        OBVIOUS
      <4>1. q \in 1 .. l - 1 /\ Dataset(q)' = asked'[j]
        BY <1>2, <1>5, <1>6, <2>1, <3>1, <3>3, <4>q DEF Placed
      <4>2. \A k \in j + 1 .. n : k \in 1 .. n /\ k \in j + 1 .. m
        BY <1>0, <1>n
      <4>3. ASSUME NEW k \in q + 1 .. l - 1 PROVE \E x \in j + 1 .. m : Dataset(k)' = asked'[x]
        <5>1. k \in 1 .. l - 1 /\ was(k) \in p + 1 .. l
          BY <1>5, <3>3, <4>q
        <5>2. PICK x \in j + 1 .. n : Dataset(was(k)) = asked[x]
          BY <1>n, <3>1, <5>1 DEF Placed
        <5> QED
          BY <1>2, <1>6, <4>2, <5>1, <5>2
      <4>4. Placed(j, q)'
        BY <1>2, <1>4, <4>1, <4>3 DEF Placed
      <4> QED
        BY <1>4, <4>1, <4>4 DEF Kept
    <3> QED
      BY <3>2, <3>3
  <2>4. CASE Cardinality(Others(j)) >= MaxLive
    <3>1. /\ Cardinality(Others(j)) \in Nat /\ Cardinality(Others(j)') \in Nat
          /\ Cardinality(Others(j)) <= Cardinality(Others(j)')
      BY <1>0, <1>n, <2>1, MoreOthers
    <3>2. Cardinality(Others(j)') >= MaxLive
      BY <2>4, <3>1
    <3> QED
      BY <3>2 DEF Kept
  <2> QED
    BY <1>n, <2>2, <2>3, <2>4 DEF Kept
<1> QED
  BY <1>2, <1>7, <1>8, <1>9, <1>10, <1>11 DEF IInv

LEMMA AcquireInv == ASSUME IInv, NEW d \in Datasets, Acquire(d) PROVE IInv'
BY AcquireNewInv, AcquirePooledInv DEF Acquire

-------------------------------------------------------------------------------
LEMMA InitIInv == Init => IInv
<1> SUFFICES ASSUME Init PROVE IInv
  OBVIOUS
<1>0. TypeOK /\ Now = 0 /\ Len(clients) = 0
  BY InitType DEF Init, Now
<1>1. \A c \in Ids : client[c] = NoClient /\ thread[c] = NoThread /\ told[c] = "none" /\ future[c] = Pending
  BY DEF Init
<1>2. \A k \in 1 .. Len(clients) : FALSE
  BY <1>0
<1>3. \A k \in 1 .. Now : FALSE
  BY <1>0
<1>4. Named
  BY <1>1 DEF Named, OwnThread, NoClient, NoThread, Ids, None
<1>5. Queues
  BY <1>1 DEF Queues, OwnCalls, NoThread
<1>6. Delivered
  BY <1>1 DEF Delivered, OwnAnswer
<1>7. Pool
  BY <1>2 DEF Pool
<1>8. Asker
  BY DEF Init, Asker, At
<1>9. Accounted
  BY <1>1 DEF Accounted, Live, NoThread, NoClient, Ids, None
<1>10. Recent
  BY <1>3 DEF Recent
<1> QED
  BY <1>0, <1>4, <1>5, <1>6, <1>7, <1>8, <1>9, <1>10 DEF IInv

LEMMA StutterIInv == ASSUME IInv, UNCHANGED vars PROVE IInv'
<1>1. Now' = Now /\ \A i : Others(i)' = Others(i)
  BY DEF vars, Now, Others
<1> QED
  BY <1>1 DEF vars, IInv, TypeOK, Named, OwnThread, Queues, OwnCalls, Delivered, OwnAnswer, Pool, Dataset,
     Asker, At, Newcomer, InPool, Accounted, Live, Recent, Closing, Kept, Placed

(* Every step keeps the invariant. *)
LEMMA StepIInv == ASSUME IInv, [Next]_vars PROVE IInv'
<1>1. ASSUME NEW d \in Datasets, Acquire(d) PROVE IInv'
  BY <1>1, AcquireInv
<1>2. CASE Asking
  BY <1>2, EvictInv, JoinedInv, EntersInv, StartInv, StartFailedInv, StartTimedOutInv, PutInv, EndsInv
     DEF Asking
<1>3. CASE ClosePool
  BY <1>3, ClosePoolInv
<1>4. ASSUME NEW t \in Ids, Serving(t) PROVE IInv'
  BY <1>4, ServingStep, ServingFrame, ServingOwn DEF IInv
<1>5. CASE UNCHANGED vars
  BY <1>5, StutterIInv
<1> QED
  BY <1>1, <1>2, <1>3, <1>4, <1>5 DEF Next

(* The inductive invariant holds in every reachable state of the pool.      *)
THEOREM SpecIInv == Spec => []IInv
BY InitIInv, StepIInv, PTL DEF Spec

(* start() blocks until a tool call would be answered: when the caller goes *)
(* on to its call, the queue it writes to is that of its client's running   *)
(* thread, which has opened a registry with the tool.                       *)
THEOREM AnswerableOnceStarted == Spec => []StartMeansAnswerable
<1>1. IInv => StartMeansAnswerable
  <2> SUFFICES ASSUME IInv, At("call") PROVE StartMeansAnswerable
    BY DEF StartMeansAnswerable
  <2>1. TypeOK
    BY DEF IInv
  <2> QED
    BY <2>1, AtTheEnd, Typed DEF StartMeansAnswerable, Running
<1> QED
  BY <1>1, SpecIInv, PTL

(* What search() returns is the answer to its own question, from a server   *)
(* of the dataset it asked, whichever answers of abandoned calls come late. *)
THEOREM AnswersAreOwn == Spec => []AnswerIsOwn
<1>1. IInv => AnswerIsOwn
  <2> SUFFICES ASSUME IInv, NEW i \in Ids, told[i] = "answered"
               PROVE  future[i].call = i /\ client[thread[future[i].by].client].dataset = asked[i]
    BY DEF AnswerIsOwn
  <2>1. /\ future[i].call = i /\ future[i].by \in Ids
        /\ thread[future[i].by].at # "none" /\ client[future[i].by].dataset = asked[i]
    BY DEF IInv, Delivered, OwnAnswer
  <2>2. thread[future[i].by].client = future[i].by
    BY <2>1 DEF IInv, Named, OwnThread
  <2> QED
    BY <2>1, <2>2
<1> QED
  BY <1>1, SpecIInv, PTL

(* The pool never has more than MaxLive server trees, but for those it      *)
(* stopped waiting for, and none once it is closed.                         *)
THEOREM TreesStayBounded == Spec => []TreesBounded
<1>1. IInv => TreesBounded
  <2> SUFFICES ASSUME IInv PROVE TreesBounded
    OBVIOUS
  <2> DEFINE l == Len(clients)
             R == {clients[k] : k \in 1 .. l}
             f == [k \in 1 .. l |-> clients[k]]
             S == Trees \ abandoned
  <2>0. TypeOK /\ l \in Nat /\ l <= MaxLive /\ \A c \in Ids : c # None
    BY Typed DEF IInv
  <2>1. IsFiniteSet(R) /\ Cardinality(R) \in Nat /\ Cardinality(R) <= l
    <3>1. IsFiniteSet(1 .. l) /\ Cardinality(1 .. l) = l
      <4> HIDE DEF l
      <4>1. IsFiniteSet(1 .. l) /\ Cardinality(1 .. l) = IF 1 > l THEN 0 ELSE l - 1 + 1
        BY <2>0, FS_Interval
      <4> QED
        BY <2>0, <4>1
    <3>2. f \in Surjection(1 .. l, R)
      BY DEF Surjection
    <3> HIDE DEF f, R, l
    <3>3. IsFiniteSet(R) /\ Cardinality(R) <= l
      BY <3>1, <3>2, FS_Surjection
    <3> QED
      BY <3>3, FS_CardinalityType
  <2>2. \A t \in S : \/ t \in R
                     \/ At("join") /\ t = caller.joins
                     \/ (At("evict") \/ At("wait")) /\ t = caller.client /\ client[t].thread = t /\ t # None
    BY <2>0 DEF IInv, Accounted, InPool, Trees
  <2>3. S \subseteq R \/ (l < MaxLive /\ \E e : S \subseteq R \cup {e})
    <3>1. CASE At("join")
      <4>1. S \subseteq R \cup {caller.joins} /\ l < MaxLive
        BY <2>2, <3>1 DEF IInv, Asker, At
      <4> QED
        BY <4>1
    <3>2. CASE At("evict") \/ At("wait")
      <4>1. S \subseteq R \cup {caller.client}
        BY <2>2, <3>2 DEF At
      <4>2. l < MaxLive \/ client[caller.client].thread = None
        BY <3>2 DEF IInv, Asker, Newcomer
      <4>3. CASE l < MaxLive
        BY <4>1, <4>3
      <4>4. CASE client[caller.client].thread = None
        BY <2>2, <3>2, <4>4 DEF At
      <4> QED
        BY <4>2, <4>3, <4>4
    <3>3. CASE ~At("join") /\ ~(At("evict") \/ At("wait"))
      BY <2>2, <3>3
    <3> QED
      BY <3>1, <3>2, <3>3
  <2>4. At("closed") => S = {}
    <3>1. At("closed") => l = 0 /\ ~At("join") /\ ~At("evict") /\ ~At("wait")
      BY DEF IInv, Asker, At
    <3>2. l = 0 => R = {}
      BY <2>0
    <3> QED
      BY <2>2, <3>1, <3>2
  <2>5. Cardinality(S) <= MaxLive
    <3> HIDE DEF S, R, l
    <3>1. CASE S \subseteq R
      <4>1. IsFiniteSet(S) /\ Cardinality(S) <= Cardinality(R)
        BY <2>1, <3>1, FS_Subset
      <4>2. Cardinality(S) \in Nat
        BY <4>1, FS_CardinalityType
      <4> QED
        BY <2>0, <2>1, <4>1, <4>2
    <3>2. ASSUME l < MaxLive, NEW e, S \subseteq R \cup {e} PROVE Cardinality(S) <= MaxLive
      <4>1. IsFiniteSet(R \cup {e}) /\ Cardinality(R \cup {e}) <= Cardinality(R) + 1
        BY <2>1, FS_AddElement
      <4>2. IsFiniteSet(S) /\ Cardinality(S) <= Cardinality(R \cup {e})
        BY <3>2, <4>1, FS_Subset
      <4>3. Cardinality(S) \in Nat /\ Cardinality(R \cup {e}) \in Nat
        BY <4>1, <4>2, FS_CardinalityType
      <4> QED
        BY <2>0, <2>1, <3>2, <4>1, <4>2, <4>3
    <3> QED
      BY <2>3, <3>1, <3>2
  <2>6. At("closed") => Cardinality(S) <= 0
    BY <2>4, FS_EmptySet
  <2> QED
    BY <2>5, <2>6 DEF TreesBounded
<1> QED
  BY <1>1, SpecIInv, PTL

(* A server that answered is reused: another is started for its dataset     *)
(* only when MaxLive other datasets were asked in between.                  *)
THEOREM StartsOnlyWhenNeeded == Spec => []StartedOnlyWhenNeeded
<1>1. IInv => StartedOnlyWhenNeeded
  <2> SUFFICES ASSUME IInv, At("wait"), NEW i \in 1 .. Now - 1, told[i] = "answered", asked[i] = asked[Now]
               PROVE  Cardinality({asked[j] : j \in i + 1 .. Now - 1}) >= MaxLive
    BY DEF StartedOnlyWhenNeeded
  <2> DEFINE W == {asked[j] : j \in i + 1 .. Now - 1}
             f == [j \in i + 1 .. Now - 1 |-> asked[j]]
  <2>0. TypeOK /\ Now \in Nat /\ i \in Nat /\ i \in 1 .. Now
    BY Typed DEF IInv
  <2>1. Kept(i)
    BY <2>0 DEF IInv, Recent, Closing, At
  <2>2. \A p \in 1 .. Len(clients) : Dataset(p) # asked[i]
    BY DEF IInv, Asker
  <2>3. Cardinality(Others(i)) >= MaxLive
    BY <2>1, <2>2 DEF Kept, Placed, At
  <2>4. Others(i) \subseteq W
    <3>1. \A j \in i + 1 .. Now : j = Now \/ j \in i + 1 .. Now - 1
      BY <2>0
    <3> QED
      BY <3>1 DEF Others
  <2>5. IsFiniteSet(i + 1 .. Now - 1)
    BY <2>0, FS_Interval
  <2>6. f \in Surjection(i + 1 .. Now - 1, W)
    BY DEF Surjection
  <2> HIDE DEF f, W
  <2>7. IsFiniteSet(W)
    BY <2>5, <2>6, FS_Surjection
  <2>8. Cardinality(Others(i)) <= Cardinality(W) /\ Cardinality(W) \in Nat /\ Cardinality(Others(i)) \in Nat
    BY <2>0, <2>4, <2>7, FS_Subset, FS_CardinalityType, FiniteOthers
  <2>9. Cardinality(W) >= MaxLive
    BY <2>3, <2>8
  <2> QED
    BY <2>9 DEF W
<1> QED
  BY <1>1, SpecIInv, PTL
===============================================================================
