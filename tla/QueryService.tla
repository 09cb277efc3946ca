----------------------------- MODULE QueryService -----------------------------
(***************************************************************************)
(* POST /v1/query: admission, the retrieve -> generate -> validate/execute *)
(* composition, its two response shapes and the worker threads it runs on. *)
(*                                                                         *)
(* Three kinds of actor interleave here.  Coroutines of the event loop     *)
(* (the route, the SSE generator `_stream`, the task `_produce`) run       *)
(* atomically from one await to the next.  A blocking call made with       *)
(* asyncio.to_thread runs on a worker thread: cancelling the coroutine     *)
(* that awaits it removes the call while it is queued and does nothing to  *)
(* it once it runs.  The client may hang up at any moment.                 *)
(***************************************************************************)
EXTENDS Naturals, Sequences, FiniteSets

CONSTANTS Requests,    \* request identities; each is one HTTP request
          Asks,        \* the <<body.stream, options.explain_only>> they send
          Limit,       \* API_MAX_CONCURRENT_REQUESTS
          PoolMax,     \* API_POOL_MAX_SIZE
          Workers,     \* threads of the loop's default executor
          Trails,      \* where record() may end up: the table, or the log
          NoId         \* the request_id column of a row written without one

ASSUME RequestsAssumption == IsFiniteSet(Requests) /\ NoId \notin Requests
ASSUME AsksAssumption == Asks \subseteq {"plain", "stream"} \X {"execute", "explain"}
ASSUME LimitAssumption == Limit \in Nat \ {0}
\* APISettings refuses a pool that does not exceed the in-flight cap.
ASSUME PoolAssumption == PoolMax \in Nat /\ PoolMax > Limit
ASSUME WorkersAssumption == Workers \in Nat \ {0}
ASSUME TrailsAssumption == Trails \subseteq {"table", "log"} /\ Trails # {}

VARIABLES
    held,      \* _Admission._held
    shape,     \* body.stream, per request
    goal,      \* options.explain_only, per request
    handler,   \* the route or the SSE generator of a request
    task,      \* the coroutine running `_answer` for it
    thread,    \* the to_thread call it made last
    outcome,   \* what the executor is about to record
    queue,     \* the asyncio.Queue between `_produce` and `_stream`
    sent,      \* events (or the one response) handed to the transport
    client,    \* is the caller still connected
    audit      \* audit entries of the request, and where each was kept

vars == <<held, shape, goal, handler, task, thread, outcome, queue, sent,
          client, audit>>

End == "end"                                  \* the None that ends the queue
Events == {"retrieve", "generate", "sql", "validate", "execute", "rows",
           "done", "error"}
Replies == {"body", "failure", "rate_limited"}
Outcomes == {"success", "error", "rejected", "explained"}
Row == [outcome : Outcomes, id : Requests \cup {NoId}, kept : {"table", "log"}]

Shapes == {"none", "plain", "stream"}
Goals == {"none", "execute", "explain"}
HandlerStates == {"idle", "refused", "awaiting", "fresh", "waiting",
                  "yielding", "closing", "closed", "dropped"}
TaskStates == {"none", "created", "retrieve", "generate", "executor",
               "cancelling", "cancelled", "done"}
Queued == {"queued_retrieve", "queued_executor"}
Running == {"retrieve", "validate", "borrow", "query", "record"}
ThreadStates == {"none", "ok", "failed"} \cup Queued \cup Running

Init ==
    /\ held = 0
    /\ shape = [r \in Requests |-> "none"]
    /\ goal = [r \in Requests |-> "none"]
    /\ handler = [r \in Requests |-> "idle"]
    /\ task = [r \in Requests |-> "none"]
    /\ thread = [r \in Requests |-> "none"]
    /\ outcome = [r \in Requests |-> "none"]
    /\ queue = [r \in Requests |-> <<>>]
    /\ sent = [r \in Requests |-> <<>>]
    /\ client = [r \in Requests |-> "here"]
    /\ audit = [r \in Requests |-> <<>>]

-------------------------------------------------------------------------------
(* Derived state. *)

(* Requests between their acquire() and their release(). *)
Owners == {r \in Requests :
             handler[r] \notin {"idle", "refused", "closed"}}

Busy == {r \in Requests : thread[r] \in Running}
Borrowed == {r \in Requests : thread[r] = "query"}

(* A thread call is over: its result wakes the coroutine that awaits it, or *)
(* is discarded when that coroutine has been cancelled.                     *)
Return(r, result) ==
    thread' = [thread EXCEPT ![r] =
                 IF task[r] \in {"retrieve", "executor"} THEN result ELSE "none"]

(* `emit`: only the streaming shape has an observer. *)
Emit(r, events) ==
    queue' = [queue EXCEPT ![r] = IF shape[r] = "stream" THEN @ \o events ELSE @]

-------------------------------------------------------------------------------
(* Admission: acquire() runs inside the route, with no await before it. *)

(* Mutant: the cap compared with one slot too few. *)
RefuseEarly(r) ==
    /\ handler[r] = "idle"
    /\ held + 1 >= Limit
    /\ handler' = [handler EXCEPT ![r] = "refused"]
    /\ sent' = [sent EXCEPT ![r] = <<"rate_limited">>]
    /\ UNCHANGED <<held, shape, goal, task, thread, outcome, queue, client, audit>>

Refuse(r) ==
    /\ handler[r] = "idle"
    /\ held >= Limit
    /\ handler' = [handler EXCEPT ![r] = "refused"]
    /\ sent' = [sent EXCEPT ![r] = <<"rate_limited">>]
    /\ UNCHANGED <<held, shape, goal, task, thread, outcome, queue, client, audit>>

(* QueryService.answer runs up to its first await: the retrieval is queued. *)
AdmitPlain(r, g) ==
    /\ <<"plain", g>> \in Asks
    /\ handler[r] = "idle"
    /\ held < Limit
    /\ held' = held + 1
    /\ shape' = [shape EXCEPT ![r] = "plain"]
    /\ goal' = [goal EXCEPT ![r] = g]
    /\ handler' = [handler EXCEPT ![r] = "awaiting"]
    /\ task' = [task EXCEPT ![r] = "retrieve"]
    /\ thread' = [thread EXCEPT ![r] = "queued_retrieve"]
    /\ UNCHANGED <<outcome, queue, sent, client, audit>>

(* QueryService.stream takes the slot and constructs the generator; not one *)
(* line of the generator has run yet.                                       *)
AdmitStream(r, g) ==
    /\ <<"stream", g>> \in Asks
    /\ handler[r] = "idle"
    /\ held < Limit
    /\ held' = held + 1
    /\ shape' = [shape EXCEPT ![r] = "stream"]
    /\ goal' = [goal EXCEPT ![r] = g]
    /\ handler' = [handler EXCEPT ![r] = "fresh"]
    /\ UNCHANGED <<task, thread, outcome, queue, sent, client, audit>>

-------------------------------------------------------------------------------
(* The transport (external): the client, and Starlette driving the generator. *)

Hangup(r) ==
    /\ handler[r] \in {"fresh", "waiting", "yielding"}
    /\ client[r] = "here"
    /\ client' = [client EXCEPT ![r] = "gone"]
    /\ UNCHANGED <<held, shape, goal, handler, task, thread, outcome, queue,
                   sent, audit>>

(* The response is cancelled before its first __anext__: a generator whose  *)
(* body never started has no `finally` to run.                              *)
DropUnstarted(r) ==
    /\ handler[r] = "fresh"
    /\ client[r] = "gone"
    /\ handler' = [handler EXCEPT ![r] = "dropped"]
    /\ UNCHANGED <<held, shape, goal, task, thread, outcome, queue, sent,
                   client, audit>>

(* The chunk was sent; the generator is resumed after its `yield`. *)
Resume(r) ==
    /\ handler[r] = "yielding"
    /\ client[r] = "here"
    /\ handler' = [handler EXCEPT ![r] = "waiting"]
    /\ UNCHANGED <<held, shape, goal, task, thread, outcome, queue, sent,
                   client, audit>>

-------------------------------------------------------------------------------
(* The SSE generator `_stream`. *)

(* First __anext__: the queue, the task, then the wait. *)
Begin(r) ==
    /\ handler[r] = "fresh"
    /\ handler' = [handler EXCEPT ![r] = "waiting"]
    /\ task' = [task EXCEPT ![r] = "created"]
    /\ UNCHANGED <<held, shape, goal, thread, outcome, queue, sent, client, audit>>

Deliver(r) ==
    /\ handler[r] = "waiting"
    /\ queue[r] # <<>>
    /\ Head(queue[r]) # End
    /\ sent' = [sent EXCEPT ![r] = Append(@, Head(queue[r]))]
    /\ queue' = [queue EXCEPT ![r] = Tail(@)]
    /\ handler' = [handler EXCEPT ![r] = "yielding"]
    /\ UNCHANGED <<held, shape, goal, task, thread, outcome, client, audit>>

(* Nothing for keepalive_seconds and the client still there: a comment frame. *)
Heartbeat(r) ==
    /\ handler[r] = "waiting"
    /\ queue[r] = <<>>
    /\ client[r] = "here"
    /\ handler' = [handler EXCEPT ![r] = "yielding"]
    /\ UNCHANGED <<held, shape, goal, task, thread, outcome, queue, sent,
                   client, audit>>

(* The `finally` up to its await: worker.cancel() on a task that has not    *)
(* ended, which withdraws a call no thread has picked up.                   *)
Unwind(r) ==
    /\ handler' = [handler EXCEPT ![r] = "closing"]
    /\ task' = [task EXCEPT ![r] =
                  CASE @ = "created" -> "cancelled"
                    [] @ \in {"retrieve", "generate", "executor"} -> "cancelling"
                    [] OTHER -> @]
    /\ thread' = [thread EXCEPT ![r] = IF @ \in Queued THEN "none" ELSE @]
    /\ UNCHANGED <<held, shape, goal, outcome, sent, client, audit>>

(* The None was read: the ordinary end of the stream. *)
Finish(r) ==
    /\ handler[r] = "waiting"
    /\ queue[r] # <<>>
    /\ Head(queue[r]) = End
    /\ Unwind(r)
    /\ queue' = [queue EXCEPT ![r] = Tail(@)]

(* The client is gone: CancelledError or the is_disconnected() poll at the  *)
(* wait, GeneratorExit at the yield.                                        *)
Abort(r) ==
    /\ handler[r] \in {"waiting", "yielding"}
    /\ client[r] = "gone"
    /\ Unwind(r)
    /\ UNCHANGED queue

(* Mutant: a `finally` entered again releases again. *)
ReleaseAgain(r) ==
    /\ handler[r] = "closing"
    /\ held' = held - 1
    /\ UNCHANGED <<shape, goal, handler, task, thread, outcome, queue, sent,
                   client, audit>>

(* Mutant: the `finally` waits for the thread, not for the cancelled task. *)
ReleaseAfterThread(r) ==
    /\ handler[r] = "closing"
    /\ thread[r] = "none"
    /\ handler' = [handler EXCEPT ![r] = "closed"]
    /\ held' = held - 1
    /\ queue' = [queue EXCEPT ![r] = <<>>]
    /\ UNCHANGED <<shape, goal, task, thread, outcome, sent, client, audit>>

(* Mutant: stream() and the generator both release. *)
ReleaseTwice(r) ==
    /\ handler[r] = "closing"
    /\ task[r] \in {"done", "cancelled"} \/ client[r] = "gone"
    /\ handler' = [handler EXCEPT ![r] = "closed"]
    /\ held' = held - 2
    /\ queue' = [queue EXCEPT ![r] = <<>>]
    /\ UNCHANGED <<shape, goal, task, thread, outcome, sent, client, audit>>

(* `await worker` has returned, or was itself cancelled and suppressed; the *)
(* slot is given back either way, and the queue goes with the generator.    *)
Release(r) ==
    /\ handler[r] = "closing"
    /\ task[r] \in {"done", "cancelled"} \/ client[r] = "gone"
    /\ handler' = [handler EXCEPT ![r] = "closed"]
    /\ held' = held - 1
    /\ queue' = [queue EXCEPT ![r] = <<>>]
    /\ UNCHANGED <<shape, goal, task, thread, outcome, sent, client, audit>>

-------------------------------------------------------------------------------
(* The coroutine `_answer`, under `_produce` when streaming. *)

StartTask(r) ==
    /\ task[r] = "created"
    /\ task' = [task EXCEPT ![r] = "retrieve"]
    /\ thread' = [thread EXCEPT ![r] = "queued_retrieve"]
    /\ UNCHANGED <<held, shape, goal, handler, outcome, queue, sent, client, audit>>

(* The end of `_answer`: a terminal event and the None for a stream; the    *)
(* response and the release in `finally` for a plain request.               *)
Conclude(r, events, reply) ==
    /\ task' = [task EXCEPT ![r] = "done"]
    /\ thread' = [thread EXCEPT ![r] = "none"]
    /\ Emit(r, events \o <<End>>)
    /\ IF shape[r] = "stream"
       THEN UNCHANGED <<held, handler, sent>>
       ELSE /\ held' = held - 1
            /\ handler' = [handler EXCEPT ![r] = "closed"]
            /\ sent' = [sent EXCEPT ![r] = <<reply>>]
    /\ UNCHANGED <<shape, goal, outcome, client, audit>>

Retrieved(r) ==
    /\ task[r] = "retrieve"
    /\ thread[r] = "ok"
    /\ task' = [task EXCEPT ![r] = "generate"]
    /\ thread' = [thread EXCEPT ![r] = "none"]
    /\ Emit(r, <<"retrieve">>)
    /\ UNCHANGED <<held, shape, goal, handler, outcome, sent, client, audit>>

(* The model answered: the SQL is announced, then the executor is called. *)
Generated(r) ==
    /\ task[r] = "generate"
    /\ task' = [task EXCEPT ![r] = "executor"]
    /\ thread' = [thread EXCEPT ![r] = "queued_executor"]
    /\ Emit(r, <<"generate", "sql">>)
    /\ UNCHANGED <<held, shape, goal, handler, outcome, sent, client, audit>>

Answered(r) ==
    /\ task[r] = "executor"
    /\ thread[r] = "ok"
    /\ Conclude(r, IF goal[r] = "explain" THEN <<"validate", "done">>
                                          ELSE <<"execute", "rows", "done">>, "body")

(* Mutant: an except clause that forgets the error event. *)
FailedSilently(r) ==
    /\ \/ task[r] \in {"retrieve", "executor"} /\ thread[r] = "failed"
       \/ task[r] = "generate"
    /\ Conclude(r, <<>>, "failure")

(* Any component error: retrieval, provider, validation or execution. *)
Failed(r) ==
    /\ \/ task[r] \in {"retrieve", "executor"} /\ thread[r] = "failed"
       \/ task[r] = "generate"
    /\ Conclude(r, <<"error">>, "failure")

(* CancelledError reaches `_produce`: re-raised, and the None still queued. *)
Cancelled(r) ==
    /\ task[r] = "cancelling"
    /\ task' = [task EXCEPT ![r] = "cancelled"]
    /\ queue' = [queue EXCEPT ![r] = IF handler[r] = "closing"
                                      THEN Append(@, End) ELSE @]
    /\ thread' = [thread EXCEPT ![r] = IF @ \in Running THEN @ ELSE "none"]
    /\ UNCHANGED <<held, shape, goal, handler, outcome, sent, client, audit>>

-------------------------------------------------------------------------------
(* Worker threads. *)

PickUp(r) ==
    /\ thread[r] \in Queued
    /\ Cardinality(Busy) < Workers
    /\ thread' = [thread EXCEPT ![r] =
                    IF @ = "queued_retrieve" THEN "retrieve" ELSE "validate"]
    /\ UNCHANGED <<held, shape, goal, handler, task, outcome, queue, sent,
                   client, audit>>

Retrieve(r) ==
    /\ thread[r] = "retrieve"
    /\ \E result \in {"ok", "failed"} : Return(r, result)
    /\ UNCHANGED <<held, shape, goal, handler, task, outcome, queue, sent,
                   client, audit>>

(* SQLExecutor re-validates; only execute() goes on, and only when valid. *)
Validate(r) ==
    /\ thread[r] = "validate"
    /\ \E valid \in BOOLEAN :
         LET runs == valid /\ goal[r] = "execute" IN
         /\ thread' = [thread EXCEPT ![r] = IF runs THEN "borrow" ELSE "record"]
         /\ outcome' = [outcome EXCEPT ![r] =
                          IF runs THEN @ ELSE IF valid THEN "explained"
                                                       ELSE "rejected"]
    /\ UNCHANGED <<held, shape, goal, handler, task, queue, sent, client, audit>>

Borrow(r) ==
    /\ thread[r] = "borrow"
    /\ Cardinality(Borrowed) < PoolMax
    /\ thread' = [thread EXCEPT ![r] = "query"]
    /\ UNCHANGED <<held, shape, goal, handler, task, outcome, queue, sent,
                   client, audit>>

(* No connection in time: the pool is dry, or the database it would open    *)
(* one to is away.  PoolTimeout is a psycopg.Error, so it is recorded like  *)
(* any other.                                                               *)
BorrowTimeout(r) ==
    /\ thread[r] = "borrow"
    /\ thread' = [thread EXCEPT ![r] = "record"]
    /\ outcome' = [outcome EXCEPT ![r] = "error"]
    /\ UNCHANGED <<held, shape, goal, handler, task, queue, sent, client, audit>>

(* The statement ends, one way or the other, and the connection goes back. *)
Query(r) ==
    /\ thread[r] = "query"
    /\ thread' = [thread EXCEPT ![r] = "record"]
    /\ \E o \in {"success", "error"} : outcome' = [outcome EXCEPT ![r] = o]
    /\ UNCHANGED <<held, shape, goal, handler, task, queue, sent, client, audit>>

(* Mutant: a rejected query recorded but not raised. *)
RecordWithoutRaise(r) ==
    /\ thread[r] = "record"
    /\ \E t \in Trails :
         audit' = [audit EXCEPT ![r] =
                     Append(@, [outcome |-> outcome[r], kept |-> t,
                                id |-> IF goal[r] = "execute" THEN r ELSE NoId])]
    /\ Return(r, IF outcome[r] = "error" THEN "failed" ELSE "ok")
    /\ outcome' = [outcome EXCEPT ![r] = "none"]
    /\ UNCHANGED <<held, shape, goal, handler, task, queue, sent, client>>

(* Mutant: the row is written by the caller, so a cancelled one writes none. *)
RecordUnlessAbandoned(r) ==
    /\ thread[r] = "record"
    /\ \E t \in Trails :
         audit' = [audit EXCEPT ![r] =
                     IF task[r] = "executor"
                     THEN Append(@, [outcome |-> outcome[r], kept |-> t, id |-> r])
                     ELSE @]
    /\ Return(r, IF outcome[r] \in {"success", "explained"} THEN "ok" ELSE "failed")
    /\ outcome' = [outcome EXCEPT ![r] = "none"]
    /\ UNCHANGED <<held, shape, goal, handler, task, queue, sent, client>>

(* The audit row, then the result or the raise.  An INSERT that fails is    *)
(* logged with the same fields and changes nothing for the caller.  The     *)
(* route gives execute() the request id and explain() none.                 *)
Record(r) ==
    /\ thread[r] = "record"
    /\ \E t \in Trails :
         audit' = [audit EXCEPT ![r] =
                     Append(@, [outcome |-> outcome[r], kept |-> t,
                                id |-> IF goal[r] = "execute" THEN r ELSE NoId])]
    /\ Return(r, IF outcome[r] \in {"success", "explained"} THEN "ok" ELSE "failed")
    /\ outcome' = [outcome EXCEPT ![r] = "none"]
    /\ UNCHANGED <<held, shape, goal, handler, task, queue, sent, client>>

-------------------------------------------------------------------------------
Arrive(r) == Refuse(r) \/ \E g \in {"execute", "explain"} :
                            AdmitPlain(r, g) \/ AdmitStream(r, g)

Stream(r) == Begin(r) \/ Deliver(r) \/ Finish(r) \/ Abort(r) \/ Release(r)

Coroutine(r) == StartTask(r) \/ Retrieved(r) \/ Generated(r) \/ Answered(r)
                \/ Failed(r) \/ Cancelled(r)

Thread(r) == PickUp(r) \/ Retrieve(r) \/ Validate(r) \/ Borrow(r)
             \/ BorrowTimeout(r) \/ Query(r) \/ Record(r)

Next == \E r \in Requests :
          \/ Arrive(r) \/ Hangup(r) \/ DropUnstarted(r) \/ Resume(r)
          \/ Heartbeat(r) \/ Stream(r) \/ Coroutine(r) \/ Thread(r)

(* The event loop runs every ready callback, model calls are bounded by     *)
(* timeouts, a free worker takes a queued call, a borrow ends by the pool's *)
(* timeout, and the transport keeps reading for a client that is there.     *)
(* Clients owe nothing: neither to arrive nor to hang up.  Nor do the       *)
(* driver's calls: a search or an audit row on the owner connection has no  *)
(* statement_timeout, and any call may wait on a peer that has gone away.   *)
Fairness == \A r \in Requests :
              /\ WF_vars(Begin(r) \/ DropUnstarted(r))
              /\ WF_vars(Resume(r))
              /\ WF_vars(Deliver(r) \/ Finish(r) \/ Abort(r))
              /\ WF_vars(Release(r))
              /\ WF_vars(Coroutine(r))
              /\ WF_vars(PickUp(r))
              /\ WF_vars(Borrow(r) \/ BorrowTimeout(r))

Spec == Init /\ [][Next]_vars

FairSpec == Spec /\ Fairness

-------------------------------------------------------------------------------
(* Properties. *)

(* Every variable keeps its type; in particular _held never goes below zero *)
(* and every audit row carries one of the four outcomes.                    *)
TypeOK ==
    /\ held \in Nat
    /\ shape \in [Requests -> Shapes]
    /\ goal \in [Requests -> Goals]
    /\ handler \in [Requests -> HandlerStates]
    /\ task \in [Requests -> TaskStates]
    /\ thread \in [Requests -> ThreadStates]
    /\ outcome \in [Requests -> Outcomes \cup {"none"}]
    /\ queue \in [Requests -> Seq(Events \cup {End})]
    /\ sent \in [Requests -> Seq(Events \cup Replies)]
    /\ client \in [Requests -> {"here", "gone"}]
    /\ audit \in [Requests -> Seq(Row)]

(* The counter of _Admission is exact on every path: it counts the requests *)
(* between acquire() and release(), each once, and stays within the cap.    *)
SlotAccounting == held = Cardinality(Owners) /\ held <= Limit

(* The events of a complete answer, in the order docs/architecture/API.md   *)
(* gives them.                                                              *)
Script(r) ==
    IF goal[r] = "explain"
    THEN <<"retrieve", "generate", "sql", "validate", "done">>
    ELSE <<"retrieve", "generate", "sql", "execute", "rows", "done">>

Transcript(r) == sent[r] \o queue[r]

(* A stream tells its story in order whatever the interleaving of worker,   *)
(* generator and client: what was sent plus what is queued is a prefix of   *)
(* the script, ended by one terminal event and then the None; the None      *)
(* without a terminal event appears only on a stream being torn down.       *)
TranscriptLegal ==
    \A r \in {q \in Requests : shape[q] = "stream"} :
      \E k \in 0 .. Len(Script(r)) :
        LET told == SubSeq(Script(r), 1, k)
            whole == k = Len(Script(r))
        IN  \/ ~whole /\ Transcript(r) = told
            \/ ~whole /\ Transcript(r) \in {told \o <<"error">>,
                                            told \o <<"error", End>>}
            \/ whole /\ Transcript(r) \in {told, told \o <<End>>}
            \/ /\ Transcript(r) = told \o <<End>>
               /\ handler[r] \in {"closing", "closed"}

(* What a caller is told agrees with the audit trail: rows come from a      *)
(* query recorded once as a success, an explain_only answer from one        *)
(* recorded as explained, and no request is ever recorded twice.            *)
TrailMatchesAnswer ==
    \A r \in Requests :
      LET told == {Transcript(r)[i] : i \in DOMAIN Transcript(r)}
          recorded == {audit[r][i].outcome : i \in DOMAIN audit[r]}
      IN  /\ Len(audit[r]) <= 1
          /\ "rows" \in told => recorded = {"success"}
          /\ "validate" \in told => recorded = {"explained"}
          /\ "body" \in told =>
               recorded = {IF goal[r] = "execute" THEN "success" ELSE "explained"}

(* The counter implements the set of slots of module Admission: in          *)
(* particular a request is refused only in a state where the cap is full.   *)
Slots == INSTANCE Admission
           WITH inflight <- Owners,
                refused <- {r \in Requests : handler[r] = "refused"}

ImplementsAdmission == Slots!ASpec

(* The work of r waits for the driver: its own call is inside one, or it is *)
(* queued behind as many such calls as there are workers.                   *)
InDriver == {r \in Requests : thread[r] \in {"retrieve", "validate", "query", "record"}}

Stuck(r) == \/ r \in InDriver
            \/ thread[r] \in Queued /\ Cardinality(InDriver) >= Workers

(* A started stream whose client has left gives its slot back even if no    *)
(* call of the driver ever returns: the cancelled await does not wait for   *)
(* the thread.  Every other slot comes back too, whether the work succeeds  *)
(* or fails, unless the work itself is stuck for ever.                      *)
StartedSlotReturned ==
    \A r \in Requests :
      /\ handler[r] = "waiting" /\ client[r] = "gone" ~> handler[r] = "closed"
      /\ handler[r] \in {"awaiting", "waiting"} ~> handler[r] = "closed" \/ []Stuck(r)

(* A streaming caller who stays connected is told how the answer ended,     *)
(* unless the work is stuck for ever: nothing but heartbeats tells of that. *)
ConnectedCallerTold ==
    \A r \in Requests :
      handler[r] = "fresh" ~> \/ client[r] = "gone"
                              \/ \E i \in DOMAIN sent[r] :
                                    sent[r][i] \in {"done", "error"}
                              \/ []Stuck(r)

(* A query that reached the database leaves an audit row even when its      *)
(* caller hung up and its coroutine was cancelled meanwhile; only its own   *)
(* call, never returning, can withhold the row.                             *)
RunQueryAudited ==
    \A r \in Requests : thread[r] = "query" ~> audit[r] # <<>> \/ [](r \in InDriver)

===============================================================================
