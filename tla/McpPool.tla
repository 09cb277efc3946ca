-------------------------------- MODULE McpPool --------------------------------
(***************************************************************************)
(* Retrieval over MCP in the evaluation harness (evals/mcp_client.py).     *)
(*                                                                         *)
(* A synchronous caller asks one question after another.  A pool keeps at  *)
(* most MaxLive clients, each the owner of a thread whose event loop runs  *)
(* one server process and takes calls off a queue.  The caller waits for   *)
(* a start, an answer and a stop, each time for so long and no longer; the *)
(* thread it stopped waiting for goes on, and so may its server.           *)
(*                                                                         *)
(* A client is named by the question that made it, a thread by the         *)
(* question that started it.                                               *)
(***************************************************************************)
EXTENDS Naturals, Sequences, FiniteSets

CONSTANTS Datasets,    \* databases of the benchmark
          MaxLive,     \* McpClientPool(max_live=...)
          MaxCalls     \* bound on questions asked

ASSUME LiveAssumption == MaxLive \in Nat \ {0}
ASSUME CallsAssumption == MaxCalls \in Nat

Ids == 1 .. MaxCalls

VARIABLES
    asked,      \* the dataset of every question so far
    told,       \* what search() did for each: nothing yet, an answer, an exception
    clients,    \* McpClientPool._clients, the least recently used first
    client,     \* McpSchemaSearch objects
    thread,     \* their threads
    future,     \* the future of each call
    caller,     \* where the harness is: [at, client, joins, back]
    abandoned   \* threads the caller stopped waiting for (history)

vars == <<asked, told, clients, client, thread, future, caller, abandoned>>

None == 0
Pending == [call |-> None, by |-> None, ok |-> FALSE]
NoClient == [dataset |-> None, thread |-> None, ready |-> FALSE, failed |-> FALSE, queue |-> None]
NoThread == [client |-> None, at |-> "none", items |-> <<>>, opened |-> FALSE, fatal |-> FALSE]
StopItem == 0

Now == Len(asked)
Running(c) == client[c].thread # None
Live(t) == thread[t].at \in {"new", "opening", "serving", "calling", "leaving"}
Trees == {t \in Ids : Live(t)}

At(where) == caller.at = where
Goto(where, c) == caller' = [at |-> where, client |-> c, joins |-> None, back |-> "none"]

Init ==
    /\ asked = <<>> /\ told = [i \in Ids |-> "none"]
    /\ clients = <<>>
    /\ client = [i \in Ids |-> NoClient]
    /\ thread = [i \in Ids |-> NoThread]
    /\ future = [i \in Ids |-> Pending]
    /\ caller = [at |-> "idle", client |-> None, joins |-> None, back |-> "none"]
    /\ abandoned = {}

Raise == told' = [told EXCEPT ![Now] = "raised"]

-------------------------------------------------------------------------------
(* McpClientPool.acquire. *)

Pooled(d) == {i \in DOMAIN clients : client[clients[i]].dataset = d}

(* Mutant: the client stays listed, so that it is evicted for itself. *)
AcquireInPlace(d) ==
    /\ At("idle") /\ Now < MaxCalls
    /\ asked' = Append(asked, d)
    /\ \/ \E i \in Pooled(d) : Goto("evict", clients[i]) /\ UNCHANGED client
       \/ /\ Pooled(d) = {}
          /\ client' = [client EXCEPT ![Now + 1].dataset = d]
          /\ Goto("evict", Now + 1)
    /\ UNCHANGED <<told, clients, thread, future, abandoned>>

(* The client of the dataset is taken out of the pool, or made. *)
Acquire(d) ==
    /\ At("idle") /\ Now < MaxCalls
    /\ asked' = Append(asked, d)
    /\ \/ \E i \in Pooled(d) :
            /\ clients' = SubSeq(clients, 1, i - 1) \o SubSeq(clients, i + 1, Len(clients))
            /\ Goto("evict", clients[i])
            /\ UNCHANGED client
       \/ /\ Pooled(d) = {}
          /\ client' = [client EXCEPT ![Now + 1].dataset = d]
          /\ Goto("evict", Now + 1)
          /\ UNCHANGED clients
    /\ UNCHANGED <<told, thread, future, abandoned>>

(* McpSchemaSearch.close of client c: if it runs, the stop goes to the      *)
(* queue it knows, unless its loop is closed, and the caller joins it.      *)
Close(c, resume, back) ==
    LET t == client[c].thread
        q == client[c].queue
    IN  /\ client' = [client EXCEPT ![c].thread = None]
        /\ thread' = IF t = None \/ q = None \/ thread[q].at = "dead" THEN thread
                     ELSE [thread EXCEPT ![q].items = Append(@, StopItem)]
        /\ caller' = IF t = None THEN [caller EXCEPT !.at = back]
                     ELSE [at |-> "join", client |-> resume, joins |-> t, back |-> back]

(* Mutant: an evicted client is asked to stop and not waited for. *)
EvictWithoutJoining ==
    /\ At("evict") /\ Len(clients) >= MaxLive
    /\ LET c == Head(clients) IN
       /\ client' = [client EXCEPT ![c].thread = None]
       /\ thread' = [thread EXCEPT ![client[c].queue].items = Append(@, StopItem)]
    /\ clients' = Tail(clients)
    /\ UNCHANGED <<asked, told, future, caller, abandoned>>

(* Room is made before the newcomer starts. *)
Evict ==
    /\ At("evict") /\ Len(clients) >= MaxLive
    /\ Close(Head(clients), caller.client, "evict")
    /\ clients' = Tail(clients)
    /\ UNCHANGED <<asked, told, future, abandoned>>

(* thread.join returned, because the thread is gone or time is up. *)
Joined ==
    /\ At("join")
    /\ abandoned' = IF thread[caller.joins].at = "dead" THEN abandoned
                    ELSE abandoned \cup {caller.joins}
    /\ LET c == thread[caller.joins].client IN client' = [client EXCEPT ![c].queue = None]
    /\ Goto(caller.back, caller.client)
    /\ IF caller.back = "idle" THEN Raise ELSE UNCHANGED told
    /\ UNCHANGED <<asked, clients, thread, future>>

Room == At("evict") /\ Len(clients) < MaxLive

(* A running client goes back to the end of the pool. *)
Reuse ==
    /\ Room /\ Running(caller.client)
    /\ clients' = Append(clients, caller.client)
    /\ Goto("call", caller.client)
    /\ UNCHANGED <<asked, told, client, thread, future, abandoned>>

(* McpSchemaSearch.start: arm, and launch the thread. *)
Start ==
    /\ Room /\ ~Running(caller.client)
    /\ client' = [client EXCEPT ![caller.client].thread = Now,
                                ![caller.client].ready = FALSE,
                                ![caller.client].failed = FALSE]
    /\ thread' = [thread EXCEPT ![Now] = [client |-> caller.client, at |-> "new", items |-> <<>>,
                                          opened |-> FALSE, fatal |-> FALSE]]
    /\ Goto("wait", caller.client)
    /\ UNCHANGED <<asked, told, clients, future, abandoned>>

Started ==
    /\ At("wait") /\ client[caller.client].ready /\ ~client[caller.client].failed
    /\ clients' = Append(clients, caller.client)
    /\ Goto("call", caller.client)
    /\ UNCHANGED <<asked, told, client, thread, future, abandoned>>

(* The thread reported a failure: close() and raise; the pool forgets the   *)
(* client.                                                                  *)
StartFailed ==
    /\ At("wait") /\ client[caller.client].ready /\ client[caller.client].failed
    /\ Close(caller.client, None, "idle")
    /\ UNCHANGED <<asked, told, clients, future, abandoned>>

(* Mutant: the pool keeps the client whose start timed out. *)
StartTimedOutKept ==
    /\ At("wait") /\ ~client[caller.client].ready
    /\ abandoned' = abandoned \cup {client[caller.client].thread}
    /\ client' = [client EXCEPT ![caller.client].thread = None]
    /\ clients' = Append(clients, caller.client)
    /\ Raise
    /\ Goto("idle", None)
    /\ UNCHANGED <<asked, thread, future>>

(* Not ready in time: the thread is let go, unstopped, and the client       *)
(* forgotten.                                                               *)
StartTimedOut ==
    /\ At("wait") /\ ~client[caller.client].ready
    /\ abandoned' = abandoned \cup {client[caller.client].thread}
    /\ client' = [client EXCEPT ![caller.client].thread = None]
    /\ Raise
    /\ Goto("idle", None)
    /\ UNCHANGED <<asked, clients, thread, future>>

-------------------------------------------------------------------------------
(* McpSchemaSearch.search, of a client just acquired. *)

Put ==
    /\ At("call")
    /\ LET q == client[caller.client].queue IN
       IF thread[q].at = "dead"
       THEN /\ Raise /\ Goto("idle", None)
            /\ UNCHANGED thread
       ELSE /\ thread' = [thread EXCEPT ![q].items = Append(@, Now)]
            /\ Goto("await", caller.client)
            /\ UNCHANGED told
    /\ UNCHANGED <<asked, clients, client, future, abandoned>>

(* The future is done: the payload becomes a RetrievalResult, or the tool   *)
(* error, the exception or the malformed payload is raised.                 *)
Answered ==
    /\ At("await") /\ future[Now] # Pending
    /\ told' = [told EXCEPT ![Now] = IF future[Now].ok THEN "answered" ELSE "raised"]
    /\ Goto("idle", None)
    /\ UNCHANGED <<asked, clients, client, thread, future, abandoned>>

(* Mutant: no timeout. *)
WaitForEver == FALSE

(* The call is left to the thread and its future to nobody. *)
CallTimedOut ==
    /\ At("await") /\ future[Now] = Pending
    /\ Raise
    /\ Goto("idle", None)
    /\ UNCHANGED <<asked, clients, client, thread, future, abandoned>>

(* McpClientPool.close: every client in turn, then none. *)
ClosePool ==
    /\ At("idle") \/ At("closing")
    /\ IF clients = <<>>
       THEN Goto("closed", None) /\ UNCHANGED <<clients, client, thread>>
       ELSE Close(Head(clients), None, "closing") /\ clients' = Tail(clients)
    /\ UNCHANGED <<asked, told, future, abandoned>>

-------------------------------------------------------------------------------
(* The thread: _run, _serve and _answer. *)

(* _serve publishes its loop and queue before it opens the registry. *)
Publish(t) ==
    /\ thread[t].at = "new"
    /\ thread' = [thread EXCEPT ![t].at = "opening"]
    /\ client' = [client EXCEPT ![thread[t].client].queue = t]
    /\ UNCHANGED <<asked, told, clients, future, caller, abandoned>>

(* The registry is open and advertises the tool. *)
Open(t) ==
    /\ thread[t].at = "opening"
    /\ thread' = [thread EXCEPT ![t].at = "serving", ![t].opened = TRUE]
    /\ client' = [client EXCEPT ![thread[t].client].ready = TRUE]
    /\ UNCHANGED <<asked, told, clients, future, caller, abandoned>>

(* ToolRegistry records a server that does not start and carries on: the    *)
(* tool is missing, which is a failure, and the registry is closed.         *)
OpenWithoutTool(t) ==
    /\ thread[t].at = "opening"
    /\ thread' = [thread EXCEPT ![t].at = "leaving"]
    /\ client' = [client EXCEPT ![thread[t].client].failed = TRUE]
    /\ UNCHANGED <<asked, told, clients, future, caller, abandoned>>

(* A call is taken off the queue, or the stop. *)
Take(t) ==
    /\ thread[t].at = "serving" /\ thread[t].items # <<>>
    /\ thread' = IF Head(thread[t].items) = StopItem
                 THEN [thread EXCEPT ![t].at = "leaving"]
                 ELSE [thread EXCEPT ![t].at = "calling"]
    /\ UNCHANGED <<asked, told, clients, client, future, caller, abandoned>>

(* Mutant: the answer goes to whichever call is the latest. *)
AnswerLatest(t) ==
    /\ thread[t].at = "calling"
    /\ \E ok \in BOOLEAN :
         future' = [future EXCEPT ![Now] = [call |-> Head(thread[t].items), by |-> t, ok |-> ok]]
    /\ thread' = [thread EXCEPT ![t].at = "serving", ![t].items = Tail(@)]
    /\ UNCHANGED <<asked, told, clients, client, caller, abandoned>>

(* The answer, or the exception, goes to the future of the call. *)
Answer(t) ==
    /\ thread[t].at = "calling"
    /\ LET c == Head(thread[t].items) IN
       \E ok \in BOOLEAN : future' = [future EXCEPT ![c] = [call |-> c, by |-> t, ok |-> ok]]
    /\ thread' = [thread EXCEPT ![t].at = "serving", ![t].items = Tail(@)]
    /\ UNCHANGED <<asked, told, clients, client, caller, abandoned>>

(* What no `except Exception` catches: the transport's cancel scope ends    *)
(* the task, in the middle of a call or not.                                *)
Die(t) ==
    /\ thread[t].at \in {"opening", "serving", "calling"}
    /\ thread' = [thread EXCEPT ![t].at = "leaving", ![t].fatal = TRUE]
    /\ UNCHANGED <<asked, told, clients, client, future, caller, abandoned>>

(* The registry and the loop are closed; whoever waits for a start learns.  *)
Exit(t) ==
    /\ thread[t].at = "leaving"
    /\ thread' = [thread EXCEPT ![t].at = "dead"]
    /\ client' = [client EXCEPT ![thread[t].client].ready = TRUE,
                                ![thread[t].client].failed = IF thread[t].fatal THEN TRUE ELSE @]
    /\ UNCHANGED <<asked, told, clients, future, caller, abandoned>>

-------------------------------------------------------------------------------
Asking == Evict \/ Joined \/ Reuse \/ Start \/ Started \/ StartFailed \/ StartTimedOut
          \/ Put \/ Answered \/ CallTimedOut

Serving(t) == Publish(t) \/ Open(t) \/ OpenWithoutTool(t) \/ Take(t) \/ Answer(t)
              \/ Die(t) \/ Exit(t)

Next == \/ \E d \in Datasets : Acquire(d)
        \/ Asking \/ ClosePool
        \/ \E t \in Ids : Serving(t)

Spec == Init /\ [][Next]_vars

(* The caller's thread runs, and its waits time out.  Nothing is assumed of *)
(* the servers and the threads that run them.                               *)
FairSpec == Spec /\ WF_vars(Asking)

-------------------------------------------------------------------------------
Clients == [dataset : Datasets \cup {None}, thread : Ids \cup {None}, ready : BOOLEAN,
            failed : BOOLEAN, queue : Ids \cup {None}]
Threads == [client : Ids \cup {None}, items : Seq(Ids \cup {StopItem}), opened : BOOLEAN,
            fatal : BOOLEAN,
            at : {"none", "new", "opening", "serving", "calling", "leaving", "dead"}]
Futures == [call : Ids \cup {None}, by : Ids \cup {None}, ok : BOOLEAN]
Callers == [at : {"idle", "evict", "join", "wait", "call", "await", "closing", "closed"},
            client : Ids \cup {None}, joins : Ids \cup {None},
            back : {"none", "idle", "evict", "closing"}]

(* Every variable keeps its type. *)
TypeOK ==
    /\ asked \in Seq(Datasets) /\ Now <= MaxCalls
    /\ told \in [Ids -> {"none", "answered", "raised"}]
    /\ clients \in Seq(Ids) /\ Len(clients) <= MaxLive
    /\ client \in [Ids -> Clients] /\ thread \in [Ids -> Threads]
    /\ future \in [Ids -> Futures] /\ caller \in Callers
    /\ abandoned \subseteq Ids

(* "the pool never holds max_live + 1 server trees even momentarily"        *)
(* (McpClientPool.acquire), but for the ones it stopped waiting for, and    *)
(* after close() it holds none.                                             *)
TreesBounded ==
    Cardinality(Trees \ abandoned) <= IF At("closed") THEN 0 ELSE MaxLive

(* start() blocks "until a tool call would be answered": when the caller    *)
(* goes on to its call, the thread that will take it has opened a registry  *)
(* with the tool.  True because a client whose start failed or timed out,   *)
(* whose thread may still report, is never started again.                   *)
StartMeansAnswerable ==
    At("call") =>
      LET c == caller.client IN
      Running(c) /\ client[c].queue = client[c].thread /\ thread[client[c].thread].opened

(* An answer is the answer to the question asked, from a server of the      *)
(* dataset it was asked of, however many earlier answers come late.         *)
AnswerIsOwn ==
    \A i \in Ids : told[i] = "answered" =>
      /\ future[i].call = i
      /\ client[thread[future[i].by].client].dataset = asked[i]

(* A server that answered is reused: one is started only for a dataset with *)
(* no running client among the MaxLive datasets asked last.                 *)
StartedOnlyWhenNeeded ==
    At("wait") => \A i \in 1 .. Now - 1 :
      told[i] = "answered" /\ asked[i] = asked[Now]
        => Cardinality({asked[j] : j \in i + 1 .. Now - 1}) >= MaxLive

(* "a recorded retrieval failure for that question rather than a hung run": *)
(* every search returns or raises, whatever its thread does.                *)
SearchEnds == \A i \in Ids : i <= Now ~> told[i] # "none"
===============================================================================
