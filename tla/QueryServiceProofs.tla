-------------------------- MODULE QueryServiceProofs --------------------------
(***************************************************************************)
(* What holds of QueryService for every set of requests, cap, pool size    *)
(* and number of worker threads: its types, the exactness of the admission *)
(* counter, that the counter implements the set of slots of Admission,     *)
(* that a stream tells its story in order, and that what a caller is told  *)
(* agrees with the audit trail.                                            *)
(***************************************************************************)
EXTENDS QueryService, FiniteSetTheorems, SequenceTheorems, TLAPS

(* Who may be running `_answer`: a request answered in one piece is awaited *)
(* by its route for as long as its work can still end, and only a streaming *)
(* request has a generator.                                                 *)
Shaped ==
    \A r \in Requests :
      /\ shape[r] # "stream" /\ task[r] \in {"created", "retrieve", "generate", "executor"}
           => handler[r] = "awaiting"
      /\ handler[r] \in {"fresh", "waiting", "yielding", "closing"}
           => shape[r] = "stream"

(* A thread that is about to write an audit row knows the outcome to write. *)
Decided == \A r \in Requests : thread[r] = "record" => outcome[r] \in Outcomes

(* The inductive invariant. *)
IInv == TypeOK /\ Shaped /\ Decided /\ SlotAccounting

(* The requests answered 429. *)
Refused == {r \in Requests : handler[r] = "refused"}

-------------------------------------------------------------------------------
(* Init establishes the inductive invariant. *)
LEMMA InitIInv == Init => IInv
<1> SUFFICES ASSUME Init PROVE IInv
  OBVIOUS
<1>1. TypeOK
  BY DEF Init, TypeOK, Shapes, Goals, HandlerStates, TaskStates, ThreadStates
<1>2. Shaped /\ Decided
  BY DEF Init, Shaped, Decided
<1>3. SlotAccounting
  <2>1. Owners = {}
    BY DEF Init, Owners
  <2> QED
    BY <2>1, FS_EmptySet, LimitAssumption DEF Init, SlotAccounting
<1> QED
  BY <1>1, <1>2, <1>3 DEF IInv

-------------------------------------------------------------------------------
(* Types, action by action. *)
LEMMA ArriveType ==
  ASSUME TypeOK, NEW r \in Requests, Arrive(r) PROVE TypeOK'
<1>1. CASE Refuse(r)
  BY <1>1 DEF Refuse, TypeOK, HandlerStates, Replies
<1>2. ASSUME NEW g \in {"execute", "explain"}, AdmitPlain(r, g) PROVE TypeOK'
  BY <1>2 DEF AdmitPlain, TypeOK, HandlerStates, Shapes, Goals, TaskStates,
              ThreadStates, Queued
<1>3. ASSUME NEW g \in {"execute", "explain"}, AdmitStream(r, g) PROVE TypeOK'
  BY <1>3 DEF AdmitStream, TypeOK, HandlerStates, Shapes, Goals
<1> QED
  BY <1>1, <1>2, <1>3 DEF Arrive

(* The transport and the generator. *)
LEMMA StreamType ==
  ASSUME IInv, NEW r \in Requests,
         Hangup(r) \/ DropUnstarted(r) \/ Resume(r) \/ Heartbeat(r) \/ Stream(r)
  PROVE  TypeOK'
<1> USE DEF IInv, TypeOK, HandlerStates
<1>1. CASE Hangup(r)
  BY <1>1 DEF Hangup
<1>2. CASE DropUnstarted(r)
  BY <1>2 DEF DropUnstarted
<1>3. CASE Resume(r)
  BY <1>3 DEF Resume
<1>4. CASE Heartbeat(r)
  BY <1>4 DEF Heartbeat
<1>5. CASE Begin(r)
  BY <1>5 DEF Begin, TaskStates
<1>6. CASE Deliver(r)
  <2>1. Head(queue[r]) \in Events /\ Tail(queue[r]) \in Seq(Events \cup {End})
    BY <1>6 DEF Deliver
  <2>2. Append(sent[r], Head(queue[r])) \in Seq(Events \cup Replies)
    BY <2>1
  <2> QED
    BY <1>6, <2>1, <2>2 DEF Deliver
<1>7. ASSUME Unwind(r), queue' \in [Requests -> Seq(Events \cup {End})]
      PROVE  TypeOK'
  BY <1>7 DEF Unwind, TaskStates, ThreadStates
<1>8. CASE Finish(r)
  <2>1. Tail(queue[r]) \in Seq(Events \cup {End})
    BY <1>8 DEF Finish
  <2> QED
    BY <1>7, <1>8, <2>1 DEF Finish
<1>9. CASE Abort(r)
  BY <1>7, <1>9 DEF Abort
<1>10. CASE Release(r)
  <2>1. r \in Owners /\ IsFiniteSet(Owners)
    BY <1>10, FS_Subset, RequestsAssumption DEF Release, Owners
  <2>2. Cardinality(Owners) \in Nat \ {0}
    BY <2>1, FS_EmptySet, FS_CardinalityType
  <2> QED
    BY <1>10, <2>2 DEF Release, SlotAccounting
<1> QED
  BY <1>1, <1>2, <1>3, <1>4, <1>5, <1>6, <1>8, <1>9, <1>10 DEF Stream

(* What `_answer` ends with keeps the types, whichever shape it answers. *)
LEMMA ConcludeType ==
  ASSUME IInv, NEW r \in Requests, task[r] \in {"retrieve", "generate", "executor"},
         NEW events \in Seq(Events), NEW reply \in Replies,
         Conclude(r, events, reply)
  PROVE  TypeOK'
<1> USE DEF IInv, TypeOK
<1>1. queue' \in [Requests -> Seq(Events \cup {End})]
  <2>1. events \o <<End>> \in Seq(Events \cup {End})
    OBVIOUS
  <2>2. queue[r] \o (events \o <<End>>) \in Seq(Events \cup {End})
    BY <2>1
  <2> QED
    BY <2>2 DEF Conclude, Emit
<1>2. CASE shape[r] = "stream"
  BY <1>1, <1>2 DEF Conclude, TaskStates, ThreadStates
<1>3. CASE shape[r] # "stream"
  <2>1. r \in Owners /\ IsFiniteSet(Owners)
    BY <1>3, FS_Subset, RequestsAssumption DEF Shaped, Owners
  <2>2. Cardinality(Owners) \in Nat \ {0}
    BY <2>1, FS_EmptySet, FS_CardinalityType
  <2>3. held' \in Nat
    BY <1>3, <2>2 DEF Conclude, SlotAccounting
  <2>4. <<reply>> \in Seq(Events \cup Replies)
    OBVIOUS
  <2>5. sent' \in [Requests -> Seq(Events \cup Replies)]
    BY <1>3, <2>4 DEF Conclude
  <2> QED
    BY <1>1, <1>3, <2>3, <2>5 DEF Conclude, TaskStates, ThreadStates, HandlerStates
<1> QED
  BY <1>2, <1>3

(* The coroutine. *)
LEMMA CoroutineType ==
  ASSUME IInv, NEW r \in Requests, Coroutine(r) PROVE TypeOK'
<1> USE DEF IInv, TypeOK
<1>0. ASSUME NEW events \in Seq(Events), Emit(r, events)
      PROVE  queue' \in [Requests -> Seq(Events \cup {End})]
  <2>1. queue[r] \o events \in Seq(Events \cup {End})
    OBVIOUS
  <2> QED
    BY <1>0, <2>1 DEF Emit
<1>1. CASE StartTask(r)
  BY <1>1 DEF StartTask, TaskStates, ThreadStates, Queued
<1>2. CASE Retrieved(r)
  <2>1. <<"retrieve">> \in Seq(Events)
    BY DEF Events
  <2>2. queue' \in [Requests -> Seq(Events \cup {End})]
    BY <1>0, <1>2, <2>1 DEF Retrieved
  <2> QED
    BY <1>2, <2>2 DEF Retrieved, TaskStates, ThreadStates
<1>3. CASE Generated(r)
  <2>1. <<"generate", "sql">> \in Seq(Events)
    BY DEF Events
  <2>2. queue' \in [Requests -> Seq(Events \cup {End})]
    BY <1>0, <1>3, <2>1 DEF Generated
  <2> QED
    BY <1>3, <2>2 DEF Generated, TaskStates, ThreadStates, Queued
<1>4. CASE Answered(r)
  <2>1. /\ <<"validate", "done">> \in Seq(Events)
        /\ <<"execute", "rows", "done">> \in Seq(Events)
    BY DEF Events
  <2> QED
    BY <1>4, <2>1, ConcludeType DEF Answered, Replies
<1>5. CASE Failed(r)
  <2>1. <<"error">> \in Seq(Events)
    BY DEF Events
  <2> QED
    BY <1>5, <2>1, ConcludeType DEF Failed, Replies
<1>6. CASE Cancelled(r)
  BY <1>6 DEF Cancelled, TaskStates, ThreadStates
<1> QED
  BY <1>1, <1>2, <1>3, <1>4, <1>5, <1>6 DEF Coroutine

(* The worker thread. *)
LEMMA ThreadType ==
  ASSUME IInv, NEW r \in Requests, Thread(r) PROVE TypeOK'
<1> USE DEF IInv, TypeOK, ThreadStates, Running
<1>1. CASE PickUp(r)
  BY <1>1 DEF PickUp
<1>2. CASE Retrieve(r)
  BY <1>2 DEF Retrieve, Return
<1>3. CASE Validate(r)
  BY <1>3 DEF Validate, Outcomes
<1>4. CASE Borrow(r)
  BY <1>4 DEF Borrow
<1>5. CASE BorrowTimeout(r)
  BY <1>5 DEF BorrowTimeout, Outcomes
<1>6. CASE Query(r)
  BY <1>6 DEF Query, Outcomes
<1>7. CASE Record(r)
  <2>1. PICK t \in Trails :
          audit' = [audit EXCEPT ![r] =
                      Append(@, [outcome |-> outcome[r], kept |-> t,
                                 id |-> IF goal[r] = "execute" THEN r ELSE NoId])]
    BY <1>7 DEF Record
  <2> DEFINE row == [outcome |-> outcome[r], kept |-> t,
                     id |-> IF goal[r] = "execute" THEN r ELSE NoId]
  <2>2. row \in Row
    BY <1>7, TrailsAssumption DEF Record, Decided, Row
  <2>3. Append(audit[r], row) \in Seq(Row)
    BY <2>2
  <2>4. audit' \in [Requests -> Seq(Row)]
    BY <2>1, <2>3
  <2> QED
    BY <1>7, <2>4 DEF Record, Return
<1> QED
  BY <1>1, <1>2, <1>3, <1>4, <1>5, <1>6, <1>7 DEF Thread

-------------------------------------------------------------------------------
(* No step breaks the link between the shape of a request, its handler and *)
(* its task, or lets a thread reach the audit trail without an outcome.     *)
LEMMA ControlStep ==
  ASSUME IInv, NEW r \in Requests,
         \/ Arrive(r) \/ Hangup(r) \/ DropUnstarted(r) \/ Resume(r)
         \/ Heartbeat(r) \/ Stream(r) \/ Coroutine(r) \/ Thread(r)
  PROVE  Shaped' /\ Decided'
<1> USE DEF IInv, TypeOK, Shaped, Decided
<1>1. CASE Arrive(r)
  <2>1. CASE Refuse(r)
    BY <2>1 DEF Refuse
  <2>2. ASSUME NEW g \in {"execute", "explain"}, AdmitPlain(r, g)
        PROVE  Shaped' /\ Decided'
    BY <2>2 DEF AdmitPlain
  <2>3. ASSUME NEW g \in {"execute", "explain"}, AdmitStream(r, g)
        PROVE  Shaped' /\ Decided'
    BY <2>3 DEF AdmitStream
  <2> QED
    BY <1>1, <2>1, <2>2, <2>3 DEF Arrive
<1>2. CASE Hangup(r) \/ DropUnstarted(r) \/ Resume(r) \/ Heartbeat(r)
  BY <1>2 DEF Hangup, DropUnstarted, Resume, Heartbeat
<1>3. CASE Stream(r)
  <2>1. CASE Begin(r) \/ Deliver(r) \/ Release(r)
    BY <2>1 DEF Begin, Deliver, Release
  <2>2. CASE Finish(r) \/ Abort(r)
    BY <2>2 DEF Finish, Abort, Unwind
  <2> QED
    BY <1>3, <2>1, <2>2 DEF Stream
<1>4. CASE Coroutine(r)
  <2>1. CASE StartTask(r) \/ Retrieved(r) \/ Generated(r) \/ Cancelled(r)
    BY <2>1 DEF StartTask, Retrieved, Generated, Cancelled
  <2>2. CASE Answered(r) \/ Failed(r)
    <3>1. /\ task' = [task EXCEPT ![r] = "done"]
          /\ thread' = [thread EXCEPT ![r] = "none"]
          /\ handler' \in {handler, [handler EXCEPT ![r] = "closed"]}
          /\ UNCHANGED <<shape, outcome>>
      BY <2>2 DEF Answered, Failed, Conclude
    <3> QED
      BY <3>1
  <2> QED
    BY <1>4, <2>1, <2>2 DEF Coroutine
<1>5. CASE Thread(r)
  <2>1. UNCHANGED <<shape, handler, task>>
    BY <1>5 DEF Thread, PickUp, Retrieve, Validate, Borrow, BorrowTimeout, Query,
                Record
  <2>2. Decided'
    BY <1>5 DEF Thread, PickUp, Retrieve, Validate, Borrow, BorrowTimeout, Query,
                Record, Return, Outcomes
  <2> QED
    BY <2>1, <2>2
<1> QED
  BY <1>1, <1>2, <1>3, <1>4, <1>5

-------------------------------------------------------------------------------
(* What a step may do to the slots: take one below the cap, turn a request  *)
(* away at the cap, give one back, or leave counter and owners alone.       *)
Takes(r) == /\ r \notin Owners \cup Refused /\ held < Limit
            /\ Owners' = Owners \cup {r} /\ held' = held + 1
            /\ Refused' = Refused

TurnsAway(r) == /\ r \notin Owners \cup Refused /\ held >= Limit
                /\ Owners' = Owners /\ held' = held
                /\ Refused' = Refused \cup {r}

GivesBack(r) == /\ r \in Owners
                /\ Owners' = Owners \ {r} /\ held' = held - 1
                /\ Refused' = Refused

Keeps == Owners' = Owners /\ held' = held /\ Refused' = Refused

(* Every action is one of the four. *)
LEMMA SlotStep ==
  ASSUME IInv, [Next]_vars
  PROVE  Keeps \/ \E r \in Requests : Takes(r) \/ TurnsAway(r) \/ GivesBack(r)
<1> USE DEF IInv, TypeOK, Owners, Refused
<1>1. CASE UNCHANGED vars
  BY <1>1 DEF vars, Keeps
<1>2. CASE Next
  <2>1. PICK r \in Requests :
          \/ Arrive(r) \/ Hangup(r) \/ DropUnstarted(r) \/ Resume(r)
          \/ Heartbeat(r) \/ Stream(r) \/ Coroutine(r) \/ Thread(r)
    BY <1>2 DEF Next
  <2>2. CASE Arrive(r)
    <3>1. CASE Refuse(r)
      BY <3>1 DEF Refuse, TurnsAway
    <3>2. ASSUME NEW g \in {"execute", "explain"},
                 AdmitPlain(r, g) \/ AdmitStream(r, g)
          PROVE  Takes(r)
      BY <3>2 DEF AdmitPlain, AdmitStream, Takes
    <3> QED
      BY <2>2, <3>1, <3>2 DEF Arrive
  <2>3. CASE Hangup(r) \/ DropUnstarted(r) \/ Resume(r) \/ Heartbeat(r)
    BY <2>3 DEF Hangup, DropUnstarted, Resume, Heartbeat, Keeps
  <2>4. CASE Stream(r)
    <3>1. CASE Release(r)
      BY <3>1 DEF Release, GivesBack
    <3>2. CASE Begin(r) \/ Deliver(r) \/ Finish(r) \/ Abort(r)
      BY <3>2 DEF Begin, Deliver, Finish, Abort, Unwind, Keeps
    <3> QED
      BY <2>4, <3>1, <3>2 DEF Stream
  <2>5. CASE Coroutine(r)
    <3>1. CASE StartTask(r) \/ Retrieved(r) \/ Generated(r) \/ Cancelled(r)
      BY <3>1 DEF StartTask, Retrieved, Generated, Cancelled, Keeps
    <3>2. CASE Answered(r) \/ Failed(r)
      <4>1. /\ task[r] \in {"retrieve", "generate", "executor"}
            /\ IF shape[r] = "stream"
               THEN UNCHANGED <<held, handler>>
               ELSE held' = held - 1 /\ handler' = [handler EXCEPT ![r] = "closed"]
        BY <3>2 DEF Answered, Failed, Conclude
      <4>2. CASE shape[r] = "stream"
        BY <4>1, <4>2 DEF Keeps
      <4>3. CASE shape[r] # "stream"
        <5>1. handler[r] = "awaiting"
          BY <4>1, <4>3 DEF Shaped
        <5>2. held' = held - 1 /\ handler' = [handler EXCEPT ![r] = "closed"]
          BY <4>1, <4>3
        <5>3. Owners' = Owners \ {r} /\ r \in Owners
          BY <5>1, <5>2
        <5>4. Refused' = Refused
          BY <5>1, <5>2
        <5> QED
          BY <5>2, <5>3, <5>4 DEF GivesBack
      <4> QED
        BY <4>2, <4>3
    <3> QED
      BY <2>5, <3>1, <3>2 DEF Coroutine
  <2>6. CASE Thread(r)
    BY <2>6 DEF Thread, PickUp, Retrieve, Validate, Borrow, BorrowTimeout, Query,
                Record, Keeps
  <2> QED
    BY <2>1, <2>2, <2>3, <2>4, <2>5, <2>6
<1> QED
  BY <1>1, <1>2

(* So the counter stays exact. *)
LEMMA SlotsCounted ==
  ASSUME IInv, [Next]_vars PROVE SlotAccounting'
<1> USE DEF SlotAccounting
<1>1. IsFiniteSet(Owners) /\ Cardinality(Owners) \in Nat
  BY FS_Subset, FS_CardinalityType, RequestsAssumption DEF Owners
<1>2. held = Cardinality(Owners) /\ held <= Limit /\ Limit \in Nat
  BY LimitAssumption DEF IInv
<1>3. CASE Keeps
  BY <1>2, <1>3 DEF Keeps
<1>4. ASSUME NEW r \in Requests, Takes(r) PROVE SlotAccounting'
  BY <1>1, <1>2, <1>4, FS_AddElement DEF Takes
<1>5. ASSUME NEW r \in Requests, TurnsAway(r) PROVE SlotAccounting'
  BY <1>2, <1>5 DEF TurnsAway
<1>6. ASSUME NEW r \in Requests, GivesBack(r) PROVE SlotAccounting'
  BY <1>1, <1>2, <1>6, FS_RemoveElement DEF GivesBack
<1> QED
  BY <1>3, <1>4, <1>5, <1>6, SlotStep

-------------------------------------------------------------------------------
(* The inductive invariant is inductive. *)
LEMMA NextIInv ==
  ASSUME IInv, [Next]_vars PROVE IInv'
<1>1. CASE UNCHANGED vars
  BY <1>1 DEF IInv, TypeOK, Shaped, Decided, SlotAccounting, Owners, vars
<1>2. CASE Next
  <2>1. PICK r \in Requests :
          \/ Arrive(r) \/ Hangup(r) \/ DropUnstarted(r) \/ Resume(r)
          \/ Heartbeat(r) \/ Stream(r) \/ Coroutine(r) \/ Thread(r)
    BY <1>2 DEF Next
  <2>2. TypeOK'
    BY <2>1, ArriveType, StreamType, CoroutineType, ThreadType DEF IInv
  <2>3. Shaped' /\ Decided'
    BY <2>1, ControlStep
  <2>4. SlotAccounting'
    BY SlotsCounted
  <2> QED
    BY <2>2, <2>3, <2>4 DEF IInv
<1> QED
  BY <1>1, <1>2

(* It therefore holds in every reachable state. *)
THEOREM SpecIInv == Spec => []IInv
BY InitIInv, NextIInv, PTL DEF Spec

(* Every reachable state is well typed, for any set of requests, cap, pool  *)
(* and number of threads.                                                   *)
THEOREM TypeCorrect == Spec => []TypeOK
<1>1. IInv => TypeOK
  BY DEF IInv
<1> QED
  BY <1>1, SpecIInv, PTL

(* _Admission._held is exact and never exceeds the cap: no interleaving of  *)
(* requests, threads, failures and hang-ups loses or double-counts a slot.  *)
THEOREM SlotsExact == Spec => []SlotAccounting
<1>1. IInv => SlotAccounting
  BY DEF IInv
<1> QED
  BY <1>1, SpecIInv, PTL

(* The counter implements the set of slots: below the cap a request is      *)
(* never refused, at the cap it is never admitted, and a slot is given back *)
(* only by the request that holds it, once.                                 *)
THEOREM AdmissionRefined == Spec => ImplementsAdmission
<1>1. Init => Slots!AInit
  BY DEF Init, Slots!AInit, Owners
<1>2. ASSUME IInv, [Next]_vars PROVE [Slots!ANext]_(Slots!avars)
  <2>1. held = Slots!Cardinality(Owners)
    BY <1>2 DEF IInv, SlotAccounting, Slots!Cardinality, Cardinality
  <2>2. CASE Keeps
    BY <2>2 DEF Keeps, Refused, Slots!avars
  <2>3. ASSUME NEW r \in Requests, Takes(r) PROVE Slots!Take(r)
    BY <2>1, <2>3 DEF Takes, Refused, Slots!Take
  <2>4. ASSUME NEW r \in Requests, TurnsAway(r) PROVE Slots!TurnAway(r)
    BY <2>1, <2>4 DEF TurnsAway, Refused, Slots!TurnAway
  <2>5. ASSUME NEW r \in Requests, GivesBack(r) PROVE Slots!GiveBack(r)
    BY <2>5 DEF GivesBack, Refused, Slots!GiveBack
  <2> QED
    BY <1>2, <2>2, <2>3, <2>4, <2>5, SlotStep DEF Slots!ANext
<1> QED
  BY <1>1, <1>2, SpecIInv, PTL DEF Spec, ImplementsAdmission, Slots!ASpec

-------------------------------------------------------------------------------
(* The audit trail and the story a stream tells.                            *)

(* The one row of a request says what its answer says. *)
Good(r) ==
    Len(audit[r]) = 1 /\ audit[r][1].outcome = IF goal[r] = "execute" THEN "success" ELSE "explained"

OnExecutor == {"queued_executor", "validate", "borrow", "query", "record"}

(* A request is recorded by the one executor call it makes, at its end.     *)
RecordedLast(r) ==
    /\ task[r] \in {"none", "created", "retrieve", "generate"} \/ thread[r] \in Queued \cup Running
         => audit[r] = <<>>
    /\ Len(audit[r]) <= 1
    /\ task[r] \in {"none", "created", "generate"} => thread[r] = "none"
    /\ thread[r] \in OnExecutor => task[r] \in {"executor", "cancelling", "cancelled"}
    /\ thread[r] \in {"queued_retrieve", "retrieve"} => task[r] \in {"retrieve", "cancelling", "cancelled"}
    /\ thread[r] \in {"borrow", "query"} => goal[r] = "execute"
    /\ thread[r] = "record" => outcome[r] \in IF goal[r] = "execute" THEN {"success", "error", "rejected"}
                                                                     ELSE {"explained", "rejected"}
    /\ task[r] = "executor" /\ thread[r] = "ok" => Good(r)
    /\ handler[r] = "idle" => task[r] = "none"

(* The first k events of the script. *)
Told(r, k) == SubSeq(Script(r), 1, k)

(* How much of the script each part of `_answer` begins with. *)
Point(t) == IF t = "generate" THEN 1 ELSE IF t = "executor" THEN 3 ELSE 0
Points == {0, 1, 3}

(* What a stream has told so far, by where its task is.  What it has queued *)
(* when it is closed is lost.                                               *)
TellsSo(r, told) ==
    CASE task[r] \in {"none", "created", "retrieve", "generate", "executor"} ->
           told = Told(r, Point(task[r]))
      [] task[r] = "cancelling" -> \E k \in Points : told = Told(r, k)
      [] task[r] = "cancelled" ->
           \E k \in Points : told = Told(r, k) \/ told = Told(r, k) \o <<End>>
      [] task[r] = "done" ->
           \/ Good(r) /\ (told = Script(r) \/ told = Script(r) \o <<End>>)
           \/ \E k \in Points : \/ told = Told(r, k) \o <<"error">>
                                \/ told = (Told(r, k) \o <<"error">>) \o <<End>>

ToldInPart(r) ==
    \/ \E k \in 0 .. 3 : sent[r] = Told(r, k)
    \/ \E k \in Points : sent[r] = Told(r, k) \o <<"error">>
    \/ Good(r) /\ \E k \in 0 .. Len(Script(r)) : sent[r] = Told(r, k)

StreamStory(r) ==
    /\ goal[r] # "none"
    /\ handler[r] \in {"fresh", "dropped"} <=> task[r] = "none"
    /\ task[r] \in {"created", "retrieve", "generate", "executor"} => handler[r] \in {"waiting", "yielding"}
    /\ task[r] \in {"cancelling", "cancelled"} => handler[r] \in {"closing", "closed"}
    /\ handler[r] # "closed" => TellsSo(r, Transcript(r))
    /\ handler[r] = "closed" => queue[r] = <<>> /\ ToldInPart(r)

PlainStory(r) ==
    /\ queue[r] = <<>>
    /\ \/ sent[r] = <<>>
       \/ sent[r] = <<"rate_limited">> /\ handler[r] = "refused"
       \/ sent[r] = <<"failure">>
       \/ sent[r] = <<"body">> /\ Good(r)
    /\ handler[r] = "idle" => sent[r] = <<>>

Story(r) == IF shape[r] = "stream" THEN StreamStory(r) ELSE PlainStory(r)

(* The inductive invariant of the trail and the story. *)
StoryInv == \A r \in Requests : RecordedLast(r) /\ Story(r)

-------------------------------------------------------------------------------
(* Sequences of events. *)

(* When a sequence is the concatenation of two. *)
LEMMA Joined ==
  ASSUME NEW S, NEW s \in Seq(S), NEW t \in Seq(S), NEW u \in Seq(S),
         Len(u) = Len(s) + Len(t),
         \A i \in 1 .. Len(s) : u[i] = s[i],
         \A i \in 1 .. Len(t) : u[Len(s) + i] = t[i]
  PROVE  s \o t = u
<1>1. \A i \in 1 .. Len(s) + Len(t) : (s \o t)[i] = IF i <= Len(s) THEN s[i] ELSE t[i - Len(s)]
  BY ConcatProperties
<1>2. \A i \in 1 .. Len(u) : (s \o t)[i] = u[i]
  <2> SUFFICES ASSUME NEW i \in 1 .. Len(u) PROVE (s \o t)[i] = u[i]
    OBVIOUS
  <2>1. CASE i <= Len(s)
    BY <1>1, <2>1
  <2>2. CASE i > Len(s)
    <3>1. i - Len(s) \in 1 .. Len(t) /\ i = Len(s) + (i - Len(s))
      BY <2>2
    <3> QED
      BY <1>1, <2>2, <3>1
  <2> QED
    BY <2>1, <2>2
<1> QED
  BY <1>2, ConcatProperties, SeqEqual

(* Adding to the end of a queue, and moving its head to what was sent. *)
LEMMA Associates ==
  ASSUME NEW S, NEW s \in Seq(S), NEW q \in Seq(S), NEW x \in Seq(S)
  PROVE  s \o (q \o x) = (s \o q) \o x
OBVIOUS

LEMMA HeadMoves ==
  ASSUME NEW S, NEW s \in Seq(S), NEW q \in Seq(S), q # <<>>
  PROVE  Append(s, Head(q)) \o Tail(q) = s \o q
OBVIOUS

LEMMA TwoMore ==
  ASSUME NEW S, NEW s \in Seq(S), NEW a \in S, NEW b \in S
  PROVE  (s \o <<a>>) \o <<b>> = s \o <<a, b>>
<1>1. s \o (<<a>> \o <<b>>) = (s \o <<a>>) \o <<b>>
  BY Associates
<1>2. <<a>> \o <<b>> = <<a, b>>
  <2>1. PICK u, v, w : u = <<a>> /\ v = <<b>> /\ w = <<a, b>>
    OBVIOUS
  <2>2. /\ u \in Seq(S) /\ v \in Seq(S) /\ w \in Seq(S) /\ Len(u) = 1 /\ Len(v) = 1 /\ Len(w) = 2
        /\ u[1] = a /\ v[1] = b /\ w[1] = a /\ w[2] = b
    BY <2>1
  <2>3. /\ Len(w) = Len(u) + Len(v)
        /\ \A i \in 1 .. Len(u) : w[i] = u[i]
        /\ \A i \in 1 .. Len(v) : w[Len(u) + i] = v[i]
    BY ONLY <2>2
  <2>4. u \o v = w
    BY ONLY <2>2, <2>3, Joined
  <2> QED
    BY <2>1, <2>4, Zenon
<1> QED
  BY <1>1, <1>2

(* The parts of the script. *)
LEMMA ScriptParts ==
  ASSUME NEW r
  PROVE  /\ Script(r) \in Seq(Events) /\ Len(Script(r)) \in {5, 6}
         /\ \A k \in 0 .. Len(Script(r)) :
              Told(r, k) \in Seq(Events) /\ Len(Told(r, k)) = k
              /\ \A i \in 1 .. k : Told(r, k)[i] = Script(r)[i]
         /\ Script(r)[1] = "retrieve" /\ Script(r)[2] = "generate" /\ Script(r)[3] = "sql"
<1>1. /\ Script(r) \in Seq(Events) /\ Len(Script(r)) \in {5, 6}
      /\ Script(r)[1] = "retrieve" /\ Script(r)[2] = "generate" /\ Script(r)[3] = "sql"
  <2>1. CASE goal[r] = "explain"
    BY <2>1 DEF Script, Events
  <2>2. CASE goal[r] # "explain"
    BY <2>2 DEF Script, Events
  <2> QED
    BY <2>1, <2>2
<1> QED
  BY <1>1 DEF Told

(* What each part of `_answer` adds to what is told. *)
LEMMA ScriptGrows ==
  ASSUME NEW r
  PROVE  /\ Told(r, 0) = <<>>
         /\ Told(r, 0) \o <<"retrieve">> = Told(r, 1)
         /\ Told(r, 1) \o <<"generate", "sql">> = Told(r, 3)
         /\ Told(r, 3) \o (IF goal[r] = "explain" THEN <<"validate", "done">>
                                                  ELSE <<"execute", "rows", "done">>) = Script(r)
<1> DEFINE rest == IF goal[r] = "explain" THEN <<"validate", "done">> ELSE <<"execute", "rows", "done">>
           one == <<"retrieve">>
           two == <<"generate", "sql">>
<1>1. /\ one \in Seq(Events) /\ Len(one) = 1 /\ one[1] = "retrieve"
      /\ two \in Seq(Events) /\ Len(two) = 2 /\ two[1] = "generate" /\ two[2] = "sql"
  BY DEF Events
<1>2. /\ rest \in Seq(Events) /\ Len(Script(r)) = 3 + Len(rest)
      /\ \A i \in 1 .. Len(rest) : Script(r)[3 + i] = rest[i]
  <2>1. CASE goal[r] = "explain"
    BY <2>1 DEF Script, Events
  <2>2. CASE goal[r] # "explain"
    BY <2>2 DEF Script, Events
  <2> QED
    BY <2>1, <2>2
<1> HIDE DEF rest, one, two
<1>3. /\ \A k \in {0, 1, 3} : Told(r, k) \in Seq(Events) /\ Len(Told(r, k)) = k
              /\ \A i \in 1 .. k : Told(r, k)[i] = Script(r)[i]
      /\ Script(r)[1] = "retrieve" /\ Script(r)[2] = "generate" /\ Script(r)[3] = "sql"
      /\ Script(r) \in Seq(Events)
  <2>1. {0, 1, 3} \subseteq 0 .. Len(Script(r))
    BY ScriptParts
  <2> QED
    BY <2>1, ScriptParts
<1>4. Told(r, 0) = <<>>
  BY <1>3
<1>5. Told(r, 0) \o one = Told(r, 1)
  <2>1. /\ \A i \in 1 .. 0 : Told(r, 1)[i] = Told(r, 0)[i]
        /\ \A i \in 1 .. 1 : Told(r, 1)[0 + i] = one[i]
    BY <1>1, <1>3
  <2> QED
    BY <1>1, <1>3, <2>1, Joined
<1>6. Told(r, 1) \o two = Told(r, 3)
  <2>1. /\ Len(Told(r, 3)) = Len(Told(r, 1)) + Len(two)
        /\ \A i \in 1 .. Len(Told(r, 1)) : Told(r, 3)[i] = Told(r, 1)[i]
        /\ \A i \in 1 .. Len(two) : Told(r, 3)[Len(Told(r, 1)) + i] = two[i]
    <3>1. /\ Told(r, 3)[1] = "retrieve" /\ Told(r, 3)[2] = "generate" /\ Told(r, 3)[3] = "sql"
          /\ Told(r, 1)[1] = "retrieve" /\ Len(Told(r, 1)) = 1 /\ Len(Told(r, 3)) = 3
      BY <1>3
    <3>2. \A i \in 1 .. 2 : Told(r, 3)[1 + i] = two[i]
      <4>1. Told(r, 3)[1 + 1] = two[1] /\ Told(r, 3)[1 + 2] = two[2]
        BY <1>1, <3>1
      <4>2. \A i \in 1 .. 2 : i = 1 \/ i = 2
        OBVIOUS
      <4> QED
        BY <4>1, <4>2
    <3>3. \A i \in 1 .. 1 : Told(r, 3)[i] = Told(r, 1)[i]
      BY <3>1
    <3>4. Len(two) = 2 /\ Len(Told(r, 1)) = 1 /\ Len(Told(r, 3)) = 3
      BY <1>1, <3>1
    <3>5. Len(Told(r, 3)) = Len(Told(r, 1)) + Len(two)
      <4>1. 3 = 1 + 2
        OBVIOUS
      <4> QED
        BY <3>4, <4>1, Zenon
    <3> QED
      BY <3>2, <3>3, <3>4, <3>5, Zenon
  <2> QED
    BY <1>1, <1>3, <2>1, Joined
<1>7. Told(r, 3) \o rest = Script(r)
  <2>1. /\ Len(Script(r)) = Len(Told(r, 3)) + Len(rest)
        /\ \A i \in 1 .. Len(Told(r, 3)) : Script(r)[i] = Told(r, 3)[i]
        /\ \A i \in 1 .. Len(rest) : Script(r)[Len(Told(r, 3)) + i] = rest[i]
    BY <1>2, <1>3
  <2> QED
    BY <1>2, <1>3, <2>1, Joined
<1> QED
  BY <1>4, <1>5, <1>6, <1>7 DEF rest, one, two

(* The None ends a queue and is never sent. *)
LEMMA EndIsLast ==
  ASSUME NEW s \in Seq(Events \cup Replies), NEW q \in Seq(Events \cup {End}), q # <<>>, Head(q) = End,
         NEW X \in Seq(Events)
  PROVE  /\ s \o q # X
         /\ s \o q = X \o <<End>> => s \o Tail(q) = X
<1> DEFINE S == Events \cup Replies \cup {End}
<1>0. s \in Seq(S) /\ q \in Seq(S) /\ X \in Seq(S) /\ <<End>> \in Seq(S)
  OBVIOUS
<1>1. /\ Len(s \o q) = Len(s) + Len(q) /\ Len(q) \in Nat \ {0} /\ Len(s) \in Nat
      /\ (s \o q)[Len(s) + 1] = End
  BY <1>0, ConcatProperties
<1>2. \A i \in 1 .. Len(X) : X[i] # End
  BY DEF Events, End
<1>3. s \o q # X
  BY <1>1, <1>2
<1>4. ASSUME s \o q = X \o <<End>> PROVE s \o Tail(q) = X
  <2>1. /\ Len(X \o <<End>>) = Len(X) + 1
        /\ \A i \in 1 .. Len(X) : (X \o <<End>>)[i] = X[i]
    BY <1>0, ConcatProperties
  <2>2. Len(s) = Len(X) /\ Len(q) = 1
    BY <1>1, <1>2, <1>4, <2>1
  <2>3. \A i \in 1 .. Len(s) : s[i] = X[i]
    BY <1>0, <1>4, <2>1, <2>2, ConcatProperties
  <2>4. s = X
    BY <1>0, <2>2, <2>3, SeqEqual
  <2>5. Tail(q) = <<>>
    <3>1. Tail(q) \in Seq(S) /\ Len(Tail(q)) = Len(q) - 1
      BY <1>0, HeadTailProperties
    <3>2. Len(Tail(q)) = 0
      BY <2>2, <3>1
    <3> HIDE DEF S
    <3> QED
      BY <3>1, <3>2, EmptySeq
  <2> QED
    BY <1>0, <2>4, <2>5, ConcatEmptySeq
<1> QED
  BY <1>3, <1>4

(* What was sent is a part of what was told. *)
LEMMA SentIsPart ==
  ASSUME NEW s \in Seq(Events \cup Replies), NEW q \in Seq(Events \cup {End}), NEW X \in Seq(Events),
         s \o q = X \/ s \o q = X \o <<End>>
  PROVE  Len(s) \in 0 .. Len(X) /\ \A i \in 1 .. Len(s) : s[i] = X[i]
<1> DEFINE S == Events \cup Replies \cup {End}
<1>0. s \in Seq(S) /\ q \in Seq(S) /\ X \in Seq(S) /\ <<End>> \in Seq(S)
  OBVIOUS
<1>1. /\ Len(s \o q) = Len(s) + Len(q) /\ Len(q) \in Nat /\ Len(s) \in Nat /\ Len(X) \in Nat
      /\ \A i \in 1 .. Len(s) : (s \o q)[i] = s[i]
      /\ Len(X \o <<End>>) = Len(X) + 1
      /\ \A i \in 1 .. Len(X) : (X \o <<End>>)[i] = X[i]
      /\ (X \o <<End>>)[Len(X) + 1] = End
  BY <1>0, ConcatProperties
<1>2. \A i \in 1 .. Len(s) : s[i] # End
  <2>1. \A i \in 1 .. Len(s) : s[i] \in Events \cup Replies
    OBVIOUS
  <2>2. End \notin Events \cup Replies
    BY DEF Events, Replies, End
  <2> QED
    BY <2>1, <2>2
<1>3. CASE s \o q = X
  BY <1>1, <1>3
<1>4. CASE s \o q = X \o <<End>>
  <2>1. Len(s) # Len(X) + 1
    BY <1>1, <1>2, <1>4
  <2>2. Len(s) \in 0 .. Len(X)
    BY <1>1, <1>4, <2>1
  <2> QED
    BY <1>1, <1>4, <2>2
<1> QED
  BY <1>3, <1>4

-------------------------------------------------------------------------------
(* A step of one request. *)
Step(r) == \/ Arrive(r) \/ Hangup(r) \/ DropUnstarted(r) \/ Resume(r)
           \/ Heartbeat(r) \/ Stream(r) \/ Coroutine(r) \/ Thread(r)

(* It leaves the others alone. *)
LEMMA OthersUntouched ==
  ASSUME IInv, NEW r \in Requests, Step(r), NEW q \in Requests, q # r
  PROVE  UNCHANGED <<shape[q], goal[q], handler[q], task[q], thread[q], outcome[q], queue[q],
                     sent[q], audit[q]>>
<1> USE DEF IInv, TypeOK
<1>1. CASE Arrive(r)
  BY <1>1 DEF Arrive, Refuse, AdmitPlain, AdmitStream
<1>2. CASE Hangup(r) \/ DropUnstarted(r) \/ Resume(r) \/ Heartbeat(r)
  BY <1>2 DEF Hangup, DropUnstarted, Resume, Heartbeat
<1>3. CASE Stream(r)
  BY <1>3 DEF Stream, Begin, Deliver, Finish, Abort, Unwind, Release
<1>4. CASE Coroutine(r)
  BY <1>4 DEF Coroutine, StartTask, Retrieved, Generated, Answered, Failed, Cancelled, Conclude, Emit
<1>5. CASE Thread(r)
  BY <1>5 DEF Thread, PickUp, Retrieve, Validate, Borrow, BorrowTimeout, Query, Record, Return
<1> QED
  BY <1>1, <1>2, <1>3, <1>4, <1>5 DEF Step

(* A request that is left alone keeps its trail and its story. *)
LEMMA Untouched ==
  ASSUME NEW q \in Requests, RecordedLast(q), Story(q),
         UNCHANGED <<shape[q], goal[q], handler[q], task[q], thread[q], outcome[q], queue[q],
                     sent[q], audit[q]>>
  PROVE  RecordedLast(q)' /\ Story(q)'
<1>1. Good(q)' <=> Good(q)
  BY DEF Good
<1>2. Script(q)' = Script(q) /\ Transcript(q)' = Transcript(q)
  BY DEF Script, Transcript
<1>3. RecordedLast(q)'
  BY <1>1 DEF RecordedLast
<1>4. Story(q)'
  BY <1>1, <1>2 DEF Story, StreamStory, PlainStory, TellsSo, ToldInPart, Told
<1> QED
  BY <1>3, <1>4

(* The executor call of a request is its last, and writes one row. *)
LEMMA RecordedLastStep ==
  ASSUME IInv, NEW r \in Requests, RecordedLast(r), Story(r), Step(r)
  PROVE  RecordedLast(r)'
<1> USE DEF IInv, TypeOK, RecordedLast, OnExecutor, Queued, Running
<1>1. CASE Arrive(r)
  BY <1>1 DEF Arrive, Refuse, AdmitPlain, AdmitStream
<1>2. CASE Hangup(r) \/ DropUnstarted(r) \/ Resume(r) \/ Heartbeat(r)
  BY <1>2 DEF Hangup, DropUnstarted, Resume, Heartbeat, Good
<1>3. CASE Stream(r)
  <2>1. CASE Begin(r)
    <3>1. task[r] = "none"
      BY <2>1 DEF Begin, Shaped, Story, StreamStory
    <3> QED
      BY <2>1, <3>1 DEF Begin, Good
  <2>2. CASE Deliver(r) \/ Release(r)
    BY <2>2 DEF Deliver, Release, Good
  <2>3. CASE Finish(r) \/ Abort(r)
    BY <2>3 DEF Finish, Abort, Unwind, Good
  <2> QED
    BY <1>3, <2>1, <2>2, <2>3 DEF Stream
<1>4. CASE Coroutine(r)
  BY <1>4 DEF Coroutine, StartTask, Retrieved, Generated, Answered, Failed, Cancelled, Conclude, Good
<1>5. CASE PickUp(r) \/ Retrieve(r) \/ Borrow(r) \/ BorrowTimeout(r) \/ Query(r)
  BY <1>5 DEF PickUp, Retrieve, Borrow, BorrowTimeout, Query, Return, Good
<1>6. CASE Validate(r)
  BY <1>6 DEF Validate, Good
<1>7. CASE Record(r)
  BY <1>7 DEF Record, Return, Good
<1> QED
  BY <1>1, <1>2, <1>3, <1>4, <1>5, <1>6, <1>7 DEF Step, Thread

(* What was told, with more of it queued. *)
LEMMA TellsMore ==
  ASSUME IInv, NEW r \in Requests, NEW x \in Seq(Events \cup {End}),
         sent'[r] = sent[r], queue'[r] = queue[r] \o x
  PROVE  Transcript(r)' = Transcript(r) \o x
<1> DEFINE S == Events \cup Replies \cup {End}
<1> PICK s, q : s = sent[r] /\ q = queue[r]
  OBVIOUS
<1>0. s \in Seq(Events \cup Replies) /\ q \in Seq(Events \cup {End})
  BY DEF IInv, TypeOK
<1>1. s \in Seq(S) /\ q \in Seq(S) /\ x \in Seq(S)
  BY <1>0, SeqMonotonic
<1> HIDE DEF S
<1>2. s \o (q \o x) = (s \o q) \o x
  BY ONLY <1>1, Associates
<1> QED
  BY <1>2 DEF Transcript

(* The story of a request, as it arrives and as its client comes and goes. *)
LEMMA ArriveStory ==
  ASSUME IInv, NEW r \in Requests, RecordedLast(r), Story(r),
         Arrive(r) \/ Hangup(r) \/ DropUnstarted(r) \/ Resume(r) \/ Heartbeat(r)
  PROVE  Story(r)'
<1> USE DEF IInv, TypeOK
<1>1. CASE Arrive(r)
  <2>0. handler[r] = "idle"
    BY <1>1 DEF Arrive, Refuse, AdmitPlain, AdmitStream
  <2>1. task[r] = "none" /\ shape[r] # "stream" /\ sent[r] = <<>> /\ queue[r] = <<>>
    BY <2>0 DEF RecordedLast, Story, StreamStory, PlainStory
  <2>2. CASE Refuse(r)
    BY <2>1, <2>2 DEF Refuse, Story, PlainStory
  <2>3. ASSUME NEW g \in {"execute", "explain"}, AdmitPlain(r, g) PROVE Story(r)'
    BY <2>1, <2>3 DEF AdmitPlain, Story, PlainStory
  <2>4. ASSUME NEW g \in {"execute", "explain"}, AdmitStream(r, g) PROVE Story(r)'
    <3>1. /\ handler'[r] = "fresh" /\ task'[r] = "none" /\ shape'[r] = "stream"
          /\ sent'[r] = <<>> /\ queue'[r] = <<>> /\ goal'[r] # "none"
      BY <2>1, <2>4 DEF AdmitStream
    <3>2. Transcript(r)' = Told(r, 0)'
      <4>1. Transcript(r)' = <<>>
        BY <3>1 DEF Transcript
      <4>2. (Told(r, 0) = <<>>)'
        BY ScriptParts, EmptySeq DEF Told
      <4> QED
        BY <4>1, <4>2
    <3>3. TellsSo(r, Transcript(r))'
      BY <3>1, <3>2 DEF TellsSo, Point
    <3> QED
      BY <3>1, <3>3 DEF Story, StreamStory
  <2> QED
    BY <1>1, <2>2, <2>3, <2>4 DEF Arrive
<1>2. CASE Hangup(r) \/ DropUnstarted(r) \/ Resume(r) \/ Heartbeat(r)
  <2>0. UNCHANGED <<shape, goal, task, queue, sent, audit>>
    BY <1>2 DEF Hangup, DropUnstarted, Resume, Heartbeat
  <2>1. /\ shape[r] = "stream" /\ handler[r] \in {"fresh", "waiting", "yielding"}
        /\ handler'[r] \in {"fresh", "dropped", "waiting", "yielding"}
        /\ handler'[r] \in {"fresh", "dropped"} <=> handler[r] \in {"fresh", "dropped"}
    BY <1>2 DEF Hangup, DropUnstarted, Resume, Heartbeat, Shaped
  <2>2. TellsSo(r, Transcript(r))' <=> TellsSo(r, Transcript(r))
    BY <2>0 DEF TellsSo, Transcript, Told, Script, Good
  <2> QED
    BY <2>0, <2>1, <2>2 DEF Story, StreamStory
<1> QED
  BY <1>1, <1>2

(* What a request has been told is of events. *)
LEMMA ToldOfEvents ==
  ASSUME NEW r, NEW k \in Points
  PROVE  /\ Told(r, k) \in Seq(Events) /\ Told(r, k) \o <<"error">> \in Seq(Events)
         /\ Len(Told(r, k)) = k /\ Len(Told(r, k) \o <<"error">>) = k + 1
         /\ \A i \in 1 .. k : (Told(r, k) \o <<"error">>)[i] = Script(r)[i]
<1>1. k \in 0 .. Len(Script(r))
  BY ScriptParts DEF Points
<1>2. /\ Told(r, k) \in Seq(Events) /\ Len(Told(r, k)) = k
      /\ \A i \in 1 .. k : Told(r, k)[i] = Script(r)[i]
  BY <1>1, ScriptParts
<1>3. <<"error">> \in Seq(Events) /\ Len(<<"error">>) = 1
  BY DEF Events
<1>4. k \in Nat
  BY DEF Points
<1> QED
  BY <1>2, <1>3, <1>4, ConcatProperties

(* What was sent of a script, up to a point of `_answer`, and with an error. *)
LEMMA PartOfScript ==
  ASSUME NEW r, NEW s \in Seq(Events \cup Replies), Len(s) \in 0 .. Len(Script(r)),
         \A i \in 1 .. Len(s) : s[i] = Script(r)[i]
  PROVE  s = Told(r, Len(s))
<1>1. /\ Told(r, Len(s)) \in Seq(Events) /\ Len(Told(r, Len(s))) = Len(s)
      /\ \A i \in 1 .. Len(s) : Told(r, Len(s))[i] = Script(r)[i]
  BY ScriptParts
<1>2. Told(r, Len(s)) \in Seq(Events \cup Replies)
  BY <1>1, SeqMonotonic
<1> QED
  BY <1>1, <1>2, SeqEqual

LEMMA PointsAreEarly ==
  ASSUME NEW r, NEW k \in Points, NEW n \in 0 .. k
  PROVE  n \in 0 .. 3 /\ n \in 0 .. Len(Script(r)) /\ k \in 0 .. Len(Script(r)) /\ k \in Nat
<1> PICK l : l = Len(Script(r))
  OBVIOUS
<1>1. l \in {5, 6}
  BY ScriptParts
<1>2. n \in 0 .. 3 /\ n \in 0 .. l /\ k \in 0 .. l /\ k \in Nat
  BY ONLY <1>1, k \in Points, n \in 0 .. k DEF Points
<1> QED
  BY <1>2

LEMMA PartBeforePoint ==
  ASSUME NEW r, NEW k \in Points, NEW s \in Seq(Events \cup Replies), Len(s) \in 0 .. k,
         \A i \in 1 .. Len(s) : s[i] = Told(r, k)[i]
  PROVE  \E n \in 0 .. 3 : s = Told(r, n)
<1>1. Len(s) \in 0 .. 3 /\ Len(s) \in 0 .. Len(Script(r)) /\ k \in 0 .. Len(Script(r)) /\ k \in Nat
  BY PointsAreEarly
<1>2. \A i \in 1 .. k : Told(r, k)[i] = Script(r)[i]
  BY <1>1, ScriptParts
<1>3. \A i \in 1 .. Len(s) : i \in 1 .. k
  BY <1>1
<1>4. \A i \in 1 .. Len(s) : s[i] = Script(r)[i]
  BY <1>2, <1>3
<1> QED
  BY <1>1, <1>4, PartOfScript

LEMMA PartBeforeError ==
  ASSUME NEW r, NEW k \in Points, NEW s \in Seq(Events \cup Replies),
         Len(s) \in 0 .. Len(Told(r, k) \o <<"error">>),
         \A i \in 1 .. Len(s) : s[i] = (Told(r, k) \o <<"error">>)[i]
  PROVE  (\E n \in 0 .. 3 : s = Told(r, n)) \/ s = Told(r, k) \o <<"error">>
<1> PICK X : X = Told(r, k) \o <<"error">>
  OBVIOUS
<1>1. X \in Seq(Events) /\ Len(X) = k + 1 /\ \A i \in 1 .. k : X[i] = Script(r)[i]
  BY ToldOfEvents
<1>2. Len(s) \in 0 .. Len(X) /\ \A i \in 1 .. Len(s) : s[i] = X[i]
  OBVIOUS
<1>3. k \in 0 .. Len(Script(r)) /\ k \in Nat
  <2>1. 0 \in 0 .. k
    BY DEF Points
  <2> QED
    BY <2>1, PointsAreEarly
<1>4. CASE Len(s) = k + 1
  <2>1. X \in Seq(Events \cup Replies)
    BY <1>1, SeqMonotonic
  <2>2. s = X
    BY <1>1, <1>2, <1>4, <2>1, SeqEqual
  <2> QED
    BY <2>2
<1>5. CASE Len(s) # k + 1
  <2>1. Len(s) \in 0 .. k
    BY <1>1, <1>2, <1>3, <1>5
  <2>2. \A i \in 1 .. Len(s) : i \in 1 .. k
    BY <1>3, <2>1
  <2>3. \A i \in 1 .. Len(s) : s[i] = Script(r)[i]
    BY <1>1, <1>2, <2>2
  <2>4. Len(s) \in 0 .. 3 /\ Len(s) \in 0 .. Len(Script(r))
    BY <2>1, PointsAreEarly
  <2> QED
    BY <2>3, <2>4, PartOfScript
<1> QED
  BY <1>4, <1>5

(* The generator: delivering, ending, being torn down and closing. *)
LEMMA StreamSteps ==
  ASSUME IInv, NEW r \in Requests, RecordedLast(r), Story(r), Stream(r)
  PROVE  Story(r)'
<1> USE DEF IInv, TypeOK
<1>0. shape[r] = "stream" /\ shape' = shape /\ goal' = goal /\ audit' = audit
  BY DEF Stream, Begin, Deliver, Finish, Abort, Unwind, Release, Shaped
<1>a. StreamStory(r)
  BY <1>0 DEF Story
<1>b. (Good(r)' <=> Good(r)) /\ Script(r)' = Script(r) /\ \A k : Told(r, k)' = Told(r, k)
  BY <1>0 DEF Good, Script, Told
<1>c. sent[r] \in Seq(Events \cup Replies) /\ queue[r] \in Seq(Events \cup {End})
  OBVIOUS
<1>1. CASE Begin(r)
  <2>1. /\ task[r] = "none" /\ task'[r] = "created" /\ handler'[r] = "waiting"
        /\ Transcript(r)' = Transcript(r) /\ Transcript(r) = Told(r, 0)
    BY <1>1, <1>a DEF Begin, StreamStory, TellsSo, Point, Transcript
  <2>2. TellsSo(r, Transcript(r))'
    BY <1>b, <2>1 DEF TellsSo, Point
  <2> QED
    BY <1>0, <2>1, <2>2 DEF Story, StreamStory
<1>2. CASE Deliver(r)
  <2>1. Transcript(r)' = Transcript(r)
    <3>1. sent'[r] = Append(sent[r], Head(queue[r])) /\ queue'[r] = Tail(queue[r]) /\ queue[r] # <<>>
      BY <1>2 DEF Deliver
    <3> DEFINE S == Events \cup Replies \cup {End}
    <3>2. sent[r] \in Seq(S) /\ queue[r] \in Seq(S)
      BY <1>c, SeqMonotonic
    <3> HIDE DEF S
    <3>3. Append(sent[r], Head(queue[r])) \o Tail(queue[r]) = sent[r] \o queue[r]
      BY <3>1, <3>2, HeadMoves
    <3> QED
      BY <3>1, <3>3 DEF Transcript
  <2>2. task' = task /\ handler[r] = "waiting" /\ handler'[r] = "yielding"
    BY <1>2 DEF Deliver
  <2>3. TellsSo(r, Transcript(r))' <=> TellsSo(r, Transcript(r))
    BY <1>b, <2>1, <2>2 DEF TellsSo
  <2> QED
    BY <1>0, <1>a, <2>2, <2>3 DEF Story, StreamStory
<1>3. CASE Abort(r)
  <2>1. /\ handler[r] \in {"waiting", "yielding"} /\ handler'[r] = "closing"
        /\ sent' = sent /\ queue' = queue
        /\ \/ task[r] = "created" /\ task'[r] = "cancelled"
           \/ task[r] \in {"retrieve", "generate", "executor"} /\ task'[r] = "cancelling"
           \/ task[r] \notin {"created", "retrieve", "generate", "executor"} /\ task'[r] = task[r]
    BY <1>3 DEF Abort, Unwind
  <2>2. Transcript(r)' = Transcript(r) /\ TellsSo(r, Transcript(r))
    BY <1>a, <2>1 DEF Transcript, StreamStory
  <2>3. TellsSo(r, Transcript(r))'
    BY <1>b, <2>1, <2>2 DEF TellsSo, Point, Points
  <2> QED
    BY <1>0, <1>a, <2>1, <2>3 DEF Story, StreamStory
<1>4. CASE Finish(r)
  <2>1. /\ handler[r] = "waiting" /\ handler'[r] = "closing" /\ sent' = sent
        /\ queue[r] # <<>> /\ Head(queue[r]) = End /\ queue'[r] = Tail(queue[r])
        /\ \/ task[r] \in {"created", "retrieve", "generate", "executor"}
           \/ task'[r] = task[r]
    BY <1>4 DEF Finish, Unwind
  <2>2. TellsSo(r, Transcript(r)) /\ task[r] \notin {"none", "cancelling", "cancelled"}
    BY <1>a, <2>1 DEF StreamStory
  <2>3. ASSUME NEW X \in Seq(Events)
        PROVE  Transcript(r) # X /\ (Transcript(r) = X \o <<End>> => Transcript(r)' = X)
    <3>1. /\ sent[r] \o queue[r] # X
          /\ sent[r] \o queue[r] = X \o <<End>> => sent[r] \o Tail(queue[r]) = X
      <4> PICK s, q : s = sent[r] /\ q = queue[r]
        OBVIOUS
      <4>1. s \in Seq(Events \cup Replies) /\ q \in Seq(Events \cup {End}) /\ q # <<>> /\ Head(q) = End
        BY <1>c, <2>1
      <4>2. s \o q # X /\ (s \o q = X \o <<End>> => s \o Tail(q) = X)
        BY ONLY <4>1, X \in Seq(Events), EndIsLast
      <4> QED
        BY <4>2
    <3>2. Transcript(r)' = sent[r] \o Tail(queue[r])
      BY <2>1 DEF Transcript
    <3> QED
      BY <3>1, <3>2 DEF Transcript
  <2>4. task[r] = "done" /\ task'[r] = "done"
    <3>1. Point(task[r]) \in Points
      BY DEF Point, Points
    <3>2. Transcript(r) # Told(r, Point(task[r]))
      BY <2>3, <3>1, ToldOfEvents
    <3> QED
      BY <2>1, <2>2, <3>2 DEF TellsSo, TaskStates
  <2>5. \/ Good(r) /\ Transcript(r)' = Script(r)
        \/ \E k \in Points : Transcript(r)' = Told(r, k) \o <<"error">>
    <3>1. \/ Good(r) /\ Transcript(r) = Script(r) \o <<End>>
          \/ \E k \in Points : Transcript(r) = (Told(r, k) \o <<"error">>) \o <<End>>
      BY <2>2, <2>3, <2>4, ToldOfEvents, ScriptParts DEF TellsSo
    <3> QED
      BY <2>3, <3>1, ToldOfEvents, ScriptParts
  <2>6. TellsSo(r, Transcript(r))'
    BY <1>b, <2>4, <2>5 DEF TellsSo
  <2> QED
    BY <1>0, <1>a, <2>1, <2>4, <2>6 DEF Story, StreamStory
<1>5. CASE Release(r)
  <2>1. /\ handler[r] = "closing" /\ handler'[r] = "closed" /\ sent' = sent /\ queue'[r] = <<>>
        /\ task' = task
    BY <1>5 DEF Release
  <2>2. TellsSo(r, Transcript(r)) /\ task[r] \in {"cancelling", "cancelled", "done"}
    BY <1>a, <2>1 DEF StreamStory, TaskStates
  <2>3. ToldInPart(r)
    <3>1. ASSUME NEW X \in Seq(Events), Transcript(r) = X \/ Transcript(r) = X \o <<End>>
          PROVE  Len(sent[r]) \in 0 .. Len(X) /\ \A i \in 1 .. Len(sent[r]) : sent[r][i] = X[i]
      BY <1>c, <3>1, SentIsPart DEF Transcript
    <3>3. CASE Good(r) /\ (Transcript(r) = Script(r) \/ Transcript(r) = Script(r) \o <<End>>)
      <4>1. Script(r) \in Seq(Events)
        BY ScriptParts
      <4>2. /\ Len(sent[r]) \in 0 .. Len(Script(r))
            /\ \A i \in 1 .. Len(sent[r]) : sent[r][i] = Script(r)[i]
        BY <3>1, <3>3, <4>1
      <4>3. sent[r] = Told(r, Len(sent[r]))
        BY <1>c, <4>2, PartOfScript
      <4> QED
        BY <3>3, <4>2, <4>3 DEF ToldInPart
    <3>4. ASSUME NEW k \in Points,
                 Transcript(r) = Told(r, k) \/ Transcript(r) = Told(r, k) \o <<End>>
          PROVE  ToldInPart(r)
      <4>1. Len(sent[r]) \in 0 .. k /\ \A i \in 1 .. Len(sent[r]) : sent[r][i] = Told(r, k)[i]
        BY <3>1, <3>4, ToldOfEvents
      <4> QED
        BY <1>c, <4>1, PartBeforePoint DEF ToldInPart
    <3>5. ASSUME NEW k \in Points,
                 Transcript(r) = Told(r, k) \o <<"error">>
                 \/ Transcript(r) = (Told(r, k) \o <<"error">>) \o <<End>>
          PROVE  ToldInPart(r)
      <4> DEFINE X == Told(r, k) \o <<"error">>
      <4>1. Len(sent[r]) \in 0 .. Len(X) /\ \A i \in 1 .. Len(sent[r]) : sent[r][i] = X[i]
        BY <3>1, <3>5, ToldOfEvents
      <4> QED
        BY <1>c, <4>1, PartBeforeError DEF ToldInPart
    <3> QED
      BY <2>2, <3>3, <3>4, <3>5 DEF TellsSo
  <2>4. ToldInPart(r)'
    BY <1>b, <2>1, <2>3 DEF ToldInPart
  <2> QED
    BY <1>0, <1>a, <2>1, <2>2, <2>4 DEF Story, StreamStory
<1> QED
  BY <1>1, <1>2, <1>3, <1>4, <1>5 DEF Stream

(* Nothing a request is told depends on where its row is, once it has one. *)
LEMMA StoryKept ==
  ASSUME NEW r \in Requests, task[r] \in TaskStates, Story(r), Good(r) => Good(r)',
         UNCHANGED <<shape[r], goal[r], handler[r], task[r], queue[r], sent[r]>>
  PROVE  Story(r)'
<1>1. Script(r)' = Script(r) /\ Transcript(r)' = Transcript(r) /\ \A k : Told(r, k)' = Told(r, k)
  BY DEF Script, Transcript, Told
<1>2. ToldInPart(r) => ToldInPart(r)'
  BY <1>1 DEF ToldInPart
<1>3. ASSUME TellsSo(r, Transcript(r)) PROVE TellsSo(r, Transcript(r))'
  <2>1. CASE task[r] # "done"
    BY <1>1, <1>3, <2>1 DEF TellsSo, TaskStates
  <2>2. CASE task[r] = "done"
    <3>1. CASE Good(r) /\ (Transcript(r) = Script(r) \/ Transcript(r) = Script(r) \o <<End>>)
      BY <1>1, <2>2, <3>1 DEF TellsSo
    <3>2. ASSUME NEW k \in Points,
                 \/ Transcript(r) = Told(r, k) \o <<"error">>
                 \/ Transcript(r) = (Told(r, k) \o <<"error">>) \o <<End>>
          PROVE  TellsSo(r, Transcript(r))'
      BY <1>1, <2>2, <3>2 DEF TellsSo
    <3> QED
      BY <1>3, <2>2, <3>1, <3>2 DEF TellsSo
  <2> QED
    BY <2>1, <2>2
<1>4. PlainStory(r) => PlainStory(r)'
  BY DEF PlainStory
<1>5. StreamStory(r) => StreamStory(r)'
  BY <1>2, <1>3 DEF StreamStory
<1> QED
  BY <1>4, <1>5 DEF Story

(* The worker threads tell nobody anything, and write a row where none was. *)
LEMMA ThreadStory ==
  ASSUME IInv, NEW r \in Requests, RecordedLast(r), Story(r), Thread(r)
  PROVE  Story(r)'
<1>1. UNCHANGED <<shape, goal, handler, task, queue, sent>>
  BY DEF Thread, PickUp, Retrieve, Validate, Borrow, BorrowTimeout, Query, Record
<1>2. audit' = audit \/ audit[r] = <<>>
  BY DEF Thread, PickUp, Retrieve, Validate, Borrow, BorrowTimeout, Query, Record,
         RecordedLast, Running, IInv, TypeOK
<1>3. Good(r) => Good(r)'
  BY <1>1, <1>2 DEF Good
<1> QED
  BY <1>1, <1>3, StoryKept DEF IInv, TypeOK

(* The end of `_answer` on a stream: a terminal part and the None. *)
LEMMA ConcludeTells ==
  ASSUME IInv, NEW r \in Requests, shape[r] = "stream", NEW k \in Points, Transcript(r) = Told(r, k),
         NEW events \in Seq(Events), NEW reply, Conclude(r, events, reply)
  PROVE  /\ Transcript(r)' = (Told(r, k) \o events) \o <<End>>
         /\ UNCHANGED <<shape, goal, handler, sent, audit>> /\ task'[r] = "done"
<1>1. UNCHANGED <<shape, goal, handler, sent, audit>> /\ task'[r] = "done"
  BY DEF Conclude, IInv, TypeOK
<1> PICK x : x = events \o <<End>>
  OBVIOUS
<1> DEFINE S == Events \cup {End}
<1>2. events \in Seq(S) /\ <<End>> \in Seq(S) /\ Told(r, k) \in Seq(S)
  BY SeqMonotonic, ToldOfEvents
<1>3. x \in Seq(S)
  BY <1>2
<1>4. queue'[r] = queue[r] \o x
  BY DEF Conclude, Emit, IInv, TypeOK
<1>5. Transcript(r)' = Told(r, k) \o x
  BY <1>1, <1>3, <1>4, TellsMore
<1>6. Told(r, k) \o x = (Told(r, k) \o events) \o <<End>>
  <2> PICK p : p = Told(r, k)
    OBVIOUS
  <2> HIDE DEF S
  <2>1. p \o (events \o <<End>>) = (p \o events) \o <<End>>
    BY <1>2, Associates
  <2> QED
    BY <2>1
<1> QED
  BY <1>1, <1>5, <1>6

(* `_answer` on a stream, one part at a time. *)
LEMMA CoroutineStream ==
  ASSUME IInv, NEW r \in Requests, RecordedLast(r), Story(r), Coroutine(r), shape[r] = "stream"
  PROVE  Story(r)'
<1>0. /\ shape' = shape /\ goal' = goal /\ audit' = audit /\ handler' = handler /\ sent' = sent
  BY DEF Coroutine, StartTask, Retrieved, Generated, Answered, Failed, Cancelled, Conclude
<1>a. StreamStory(r)
  BY DEF Story
<1>b. (Good(r)' <=> Good(r)) /\ Script(r)' = Script(r) /\ \A k : Told(r, k)' = Told(r, k)
  BY <1>0 DEF Good, Script, Told
<1>c. task[r] \in {"created", "retrieve", "generate", "executor"} =>
        handler[r] \in {"waiting", "yielding"} /\ Transcript(r) = Told(r, Point(task[r]))
  BY <1>a DEF StreamStory, TellsSo
<1>d. ASSUME task[r] \in {"created", "retrieve", "generate", "executor"},
             task'[r] \in {"created", "retrieve", "generate", "executor", "done"},
             TellsSo(r, Transcript(r))'
      PROVE  Story(r)'
  BY <1>0, <1>c, <1>d DEF Story, StreamStory
<1>1. CASE StartTask(r)
  <2>1. task[r] = "created" /\ task'[r] = "retrieve" /\ Transcript(r)' = Transcript(r)
    BY <1>1 DEF StartTask, Transcript, IInv, TypeOK
  <2>2. TellsSo(r, Transcript(r))'
    BY <1>b, <1>c, <2>1 DEF TellsSo, Point
  <2> QED
    BY <1>d, <2>1, <2>2
<1>2. CASE Retrieved(r)
  <2> PICK x : x = <<"retrieve">>
    OBVIOUS
  <2>1. task[r] = "retrieve" /\ task'[r] = "generate" /\ queue'[r] = queue[r] \o x
    BY <1>2 DEF Retrieved, Emit, IInv, TypeOK
  <2>2. x \in Seq(Events \cup {End})
    BY DEF Events
  <2>3. Transcript(r)' = Told(r, 0) \o x
    BY <1>0, <1>c, <2>1, <2>2, TellsMore DEF Point
  <2>4. Transcript(r)' = Told(r, 1)'
    BY <1>b, <2>3, ScriptGrows
  <2>5. TellsSo(r, Transcript(r))'
    BY <2>1, <2>4 DEF TellsSo, Point
  <2> QED
    BY <1>d, <2>1, <2>5
<1>3. CASE Generated(r)
  <2> PICK x : x = <<"generate", "sql">>
    OBVIOUS
  <2>1. task[r] = "generate" /\ task'[r] = "executor" /\ queue'[r] = queue[r] \o x
    BY <1>3 DEF Generated, Emit, IInv, TypeOK
  <2>2. x \in Seq(Events \cup {End})
    BY DEF Events
  <2>3. Transcript(r)' = Told(r, 1) \o x
    BY <1>0, <1>c, <2>1, <2>2, TellsMore DEF Point
  <2>4. Transcript(r)' = Told(r, 3)'
    BY <1>b, <2>3, ScriptGrows
  <2>5. TellsSo(r, Transcript(r))'
    BY <2>1, <2>4 DEF TellsSo, Point
  <2> QED
    BY <1>d, <2>1, <2>5
<1>4. CASE Answered(r)
  <2> PICK x : x = IF goal[r] = "explain" THEN <<"validate", "done">> ELSE <<"execute", "rows", "done">>
    OBVIOUS
  <2>1. task[r] = "executor" /\ thread[r] = "ok" /\ Conclude(r, x, "body")
    BY <1>4 DEF Answered
  <2>2. x \in Seq(Events) /\ 3 \in Points
    <3>1. <<"validate", "done">> \in Seq(Events) /\ <<"execute", "rows", "done">> \in Seq(Events)
      BY DEF Events
    <3> QED
      BY <3>1 DEF Points
  <2>3. Transcript(r) = Told(r, 3)
    BY <1>c, <2>1 DEF Point
  <2>4. Transcript(r)' = (Told(r, 3) \o x) \o <<End>> /\ task'[r] = "done"
    BY <2>1, <2>2, <2>3, ConcludeTells
  <2>5. Told(r, 3) \o x = Script(r)
    BY ScriptGrows
  <2>6. Good(r)
    BY <2>1 DEF RecordedLast
  <2>7. TellsSo(r, Transcript(r))'
    BY <1>b, <2>4, <2>5, <2>6 DEF TellsSo
  <2> QED
    BY <1>d, <2>1, <2>4, <2>7
<1>5. CASE Failed(r)
  <2> PICK x : x = <<"error">>
    OBVIOUS
  <2>1. task[r] \in {"retrieve", "generate", "executor"} /\ Conclude(r, x, "failure")
    BY <1>5 DEF Failed
  <2>2. x \in Seq(Events) /\ Point(task[r]) \in Points
    BY DEF Events, Point, Points
  <2> PICK k \in Points : k = Point(task[r])
    BY <2>2
  <2>3. Transcript(r)' = (Told(r, k) \o x) \o <<End>> /\ task'[r] = "done"
    BY <1>c, <2>1, <2>2, ConcludeTells
  <2>4. \E p \in Points : Transcript(r)' = (Told(r, p)' \o <<"error">>) \o <<End>>
    BY <1>b, <2>3
  <2>5. TellsSo(r, Transcript(r))'
    BY <2>3, <2>4 DEF TellsSo
  <2> QED
    BY <1>d, <2>1, <2>3, <2>5
<1>6. CASE Cancelled(r)
  <2>1. /\ task[r] = "cancelling" /\ task'[r] = "cancelled"
        /\ queue'[r] = IF handler[r] = "closing" THEN Append(queue[r], End) ELSE queue[r]
    BY <1>6 DEF Cancelled, IInv, TypeOK
  <2>2. handler[r] \in {"closing", "closed"}
    BY <1>a, <2>1 DEF StreamStory
  <2>3. CASE handler[r] = "closing"
    <3>1. PICK k \in Points : Transcript(r) = Told(r, k)
      BY <1>a, <2>1, <2>3 DEF StreamStory, TellsSo
    <3> PICK x : x = <<End>>
      OBVIOUS
    <3>2. x \in Seq(Events \cup {End})
      OBVIOUS
    <3>3. queue'[r] = queue[r] \o x
      BY <2>1, <2>3 DEF IInv, TypeOK
    <3>4. Transcript(r)' = Told(r, k) \o x
      BY <1>0, <3>1, <3>2, <3>3, TellsMore
    <3>5. TellsSo(r, Transcript(r))'
      BY <1>b, <2>1, <3>4 DEF TellsSo
    <3> QED
      BY <1>0, <2>1, <2>3, <3>5 DEF Story, StreamStory
  <2>4. CASE handler[r] = "closed"
    <3>1. queue'[r] = <<>> /\ ToldInPart(r)
      BY <1>a, <2>1, <2>4 DEF StreamStory
    <3>2. ToldInPart(r)'
      BY <1>0, <1>b, <3>1 DEF ToldInPart
    <3> QED
      BY <1>0, <2>1, <2>4, <3>1, <3>2 DEF Story, StreamStory
  <2> QED
    BY <2>2, <2>3, <2>4
<1> QED
  BY <1>1, <1>2, <1>3, <1>4, <1>5, <1>6 DEF Coroutine

(* `_answer` under a route that sends one response. *)
LEMMA CoroutinePlain ==
  ASSUME IInv, NEW r \in Requests, RecordedLast(r), Story(r), Coroutine(r), shape[r] # "stream"
  PROVE  Story(r)'
<1> USE DEF IInv, TypeOK
<1>0. shape' = shape /\ goal' = goal /\ audit' = audit /\ (Good(r)' <=> Good(r)) /\ PlainStory(r)
  BY DEF Coroutine, StartTask, Retrieved, Generated, Answered, Failed, Cancelled, Conclude, Good, Story
<1>1. CASE StartTask(r) \/ Retrieved(r) \/ Generated(r) \/ Cancelled(r)
  <2>1. handler' = handler /\ sent' = sent /\ queue'[r] = queue[r]
    BY <1>1 DEF StartTask, Retrieved, Generated, Cancelled, Emit, Shaped
  <2> QED
    BY <1>0, <2>1 DEF Story, PlainStory
<1>2. CASE Answered(r)
  <2>1. /\ Good(r) /\ queue'[r] = queue[r] /\ sent'[r] = <<"body">> /\ handler'[r] = "closed"
    BY <1>2 DEF Answered, Conclude, Emit, RecordedLast
  <2> QED
    BY <1>0, <2>1 DEF Story, PlainStory
<1>3. CASE Failed(r)
  <2>1. /\ queue'[r] = queue[r] /\ sent'[r] = <<"failure">> /\ handler'[r] = "closed"
    BY <1>3 DEF Failed, Conclude, Emit
  <2> QED
    BY <1>0, <2>1 DEF Story, PlainStory
<1> QED
  BY <1>1, <1>2, <1>3 DEF Coroutine

(* The trail and the story of every request, at every step. *)
THEOREM SpecStoryInv == Spec => [](IInv /\ StoryInv)
<1>1. Init => StoryInv
  <2> SUFFICES ASSUME Init, NEW r \in Requests PROVE RecordedLast(r) /\ Story(r)
    BY DEF StoryInv
  <2>1. RecordedLast(r)
    BY DEF Init, RecordedLast, OnExecutor, Queued, Running
  <2>2. Story(r)
    BY DEF Init, Story, PlainStory
  <2> QED
    BY <2>1, <2>2
<1>2. ASSUME IInv, StoryInv, [Next]_vars PROVE StoryInv'
  <2>1. CASE UNCHANGED vars
    <3> SUFFICES ASSUME NEW q \in Requests PROVE RecordedLast(q)' /\ Story(q)'
      BY DEF StoryInv
    <3>1. RecordedLast(q) /\ Story(q)
      BY <1>2 DEF StoryInv
    <3> QED
      BY <2>1, <3>1, Untouched DEF vars
  <2>2. ASSUME NEW r \in Requests, Step(r) PROVE StoryInv'
    <3> SUFFICES ASSUME NEW q \in Requests PROVE RecordedLast(q)' /\ Story(q)'
      BY DEF StoryInv
    <3>1. RecordedLast(q) /\ Story(q) /\ RecordedLast(r) /\ Story(r)
      BY <1>2 DEF StoryInv
    <3>2. CASE q # r
      BY <1>2, <2>2, <3>1, <3>2, OthersUntouched, Untouched
    <3>3. RecordedLast(r)'
      BY <1>2, <2>2, <3>1, RecordedLastStep
    <3>4. Story(r)'
      <4>1. CASE Arrive(r) \/ Hangup(r) \/ DropUnstarted(r) \/ Resume(r) \/ Heartbeat(r)
        BY <1>2, <3>1, <4>1, ArriveStory
      <4>2. CASE Stream(r)
        BY <1>2, <3>1, <4>2, StreamSteps
      <4>3. CASE Coroutine(r)
        BY <1>2, <3>1, <4>3, CoroutineStream, CoroutinePlain
      <4>4. CASE Thread(r)
        BY <1>2, <3>1, <4>4, ThreadStory
      <4> QED
        BY <2>2, <4>1, <4>2, <4>3, <4>4 DEF Step
    <3> QED
      BY <3>2, <3>3, <3>4
  <2> QED
    BY <1>2, <2>1, <2>2 DEF Next, Step
<1> QED
  BY <1>1, <1>2, SpecIInv, PTL DEF Spec

(* A stream tells its story in order, for any number of streams: the parts  *)
(* of `_answer` queue their events one after the other, an error or the     *)
(* whole script ends them, and the None comes last.                         *)
THEOREM StoryInOrder == Spec => []TranscriptLegal
<1>1. IInv /\ StoryInv => TranscriptLegal
  <2> SUFFICES ASSUME IInv, StoryInv, NEW r \in Requests, shape[r] = "stream"
               PROVE  \E k \in 0 .. Len(Script(r)) :
                        LET whole == k = Len(Script(r))
                        IN  \/ ~whole /\ Transcript(r) = Told(r, k)
                            \/ ~whole /\ Transcript(r) \in {Told(r, k) \o <<"error">>,
                                                            Told(r, k) \o <<"error", End>>}
                            \/ whole /\ Transcript(r) \in {Told(r, k), Told(r, k) \o <<End>>}
                            \/ /\ Transcript(r) = Told(r, k) \o <<End>>
                               /\ handler[r] \in {"closing", "closed"}
    BY DEF TranscriptLegal, Told
  <2>0. StreamStory(r) /\ task[r] \in TaskStates
    BY DEF StoryInv, Story, IInv, TypeOK
  <2>1. Len(Script(r)) \in 0 .. Len(Script(r)) /\ Told(r, Len(Script(r))) = Script(r)
    BY ScriptParts, PartOfScript DEF Told
  <2>2. \A k \in 0 .. 3 : k \in 0 .. Len(Script(r)) /\ k # Len(Script(r))
    <3> PICK l : l = Len(Script(r))
      OBVIOUS
    <3>1. l \in {5, 6}
      BY ScriptParts
    <3>2. \A k \in 0 .. 3 : k \in 0 .. l /\ k # l
      BY ONLY <3>1
    <3> QED
      BY <3>2
  <2>3. \A k \in Points : k \in 0 .. 3
    BY DEF Points
  <2>4. ASSUME NEW k \in Points
        PROVE  (Told(r, k) \o <<"error">>) \o <<End>> = Told(r, k) \o <<"error", End>>
    <3> DEFINE S == Events \cup {End}
    <3> PICK p : p = Told(r, k)
      OBVIOUS
    <3>1. p \in Seq(S)
      BY ToldOfEvents, SeqMonotonic
    <3>2. "error" \in S /\ End \in S
      BY DEF Events
    <3> HIDE DEF S
    <3>3. (p \o <<"error">>) \o <<End>> = p \o <<"error", End>>
      BY ONLY <3>1, <3>2, TwoMore
    <3> QED
      BY <3>3
  <2>5. CASE handler[r] # "closed"
    <3>1. TellsSo(r, Transcript(r))
      BY <2>0, <2>5 DEF StreamStory
    <3>2. CASE task[r] \in {"none", "created", "retrieve", "generate", "executor"}
      <4>1. Point(task[r]) \in Points /\ Transcript(r) = Told(r, Point(task[r]))
        BY <3>1, <3>2 DEF TellsSo, Point, Points
      <4> QED
        BY <2>2, <2>3, <4>1
    <3>3. CASE task[r] \in {"cancelling", "cancelled"}
      <4>1. PICK k \in Points : Transcript(r) = Told(r, k) \/ Transcript(r) = Told(r, k) \o <<End>>
        BY <3>1, <3>3 DEF TellsSo
      <4>2. handler[r] \in {"closing", "closed"}
        BY <2>0, <3>3 DEF StreamStory
      <4> QED
        BY <2>2, <2>3, <4>1, <4>2
    <3>4. CASE task[r] = "done"
      <4>1. CASE Transcript(r) = Script(r) \/ Transcript(r) = Script(r) \o <<End>>
        BY <2>1, <4>1
      <4>2. ASSUME NEW k \in Points,
                   \/ Transcript(r) = Told(r, k) \o <<"error">>
                   \/ Transcript(r) = (Told(r, k) \o <<"error">>) \o <<End>>
            PROVE  Transcript(r) \in {Told(r, k) \o <<"error">>, Told(r, k) \o <<"error", End>>}
        BY <2>4, <4>2
      <4> QED
        BY <2>2, <2>3, <3>1, <3>4, <4>1, <4>2 DEF TellsSo
    <3> QED
      BY <2>0, <3>2, <3>3, <3>4 DEF TaskStates
  <2>6. CASE handler[r] = "closed"
    <3>1. ToldInPart(r) /\ Transcript(r) = sent[r]
      BY <2>0, <2>6, ConcatEmptySeq DEF StreamStory, Transcript, IInv, TypeOK
    <3>2. CASE \E k \in 0 .. 3 : sent[r] = Told(r, k)
      BY <2>2, <3>1, <3>2
    <3>3. CASE \E k \in Points : sent[r] = Told(r, k) \o <<"error">>
      BY <2>2, <2>3, <3>1, <3>3
    <3>4. CASE \E k \in 0 .. Len(Script(r)) : sent[r] = Told(r, k)
      BY <3>1, <3>4
    <3> QED
      BY <3>1, <3>2, <3>3, <3>4 DEF ToldInPart
  <2> QED
    BY <2>5, <2>6
<1> QED
  BY <1>1, SpecStoryInv, PTL

(* A story that promises nothing of what the database said. *)
Quiet(s) == \A i \in 1 .. Len(s) : s[i] \notin {"rows", "validate", "body"}

LEMMA QuietGrows ==
  ASSUME NEW S, NEW s \in Seq(S), NEW a \in S, Quiet(s), a \notin {"rows", "validate", "body"}
  PROVE  Quiet(s \o <<a>>)
<1>1. /\ Len(s \o <<a>>) = Len(s) + 1 /\ Len(s) \in Nat
      /\ \A i \in 1 .. Len(s) + 1 : (s \o <<a>>)[i] = IF i <= Len(s) THEN s[i] ELSE a
  OBVIOUS
<1> QED
  BY <1>1 DEF Quiet

(* Only the last part of the script speaks of rows or of validation. *)
LEMMA ScriptSays ==
  ASSUME NEW r
  PROVE  /\ \A k \in 0 .. 3 : Quiet(Told(r, k))
         /\ \A i \in 1 .. Len(Script(r)) :
              /\ Script(r)[i] # "body"
              /\ Script(r)[i] = "rows" => goal[r] # "explain"
              /\ Script(r)[i] = "validate" => goal[r] = "explain"
<1>1. \A i \in 1 .. Len(Script(r)) :
              /\ Script(r)[i] # "body"
              /\ Script(r)[i] = "rows" => goal[r] # "explain"
              /\ Script(r)[i] = "validate" => goal[r] = "explain"
  <2>1. CASE goal[r] = "explain"
    BY <2>1 DEF Script
  <2>2. CASE goal[r] # "explain"
    BY <2>2 DEF Script
  <2> QED
    BY <2>1, <2>2
<1>2. ASSUME NEW k \in 0 .. 3 PROVE Quiet(Told(r, k))
  <2>1. k \in 0 .. Len(Script(r))
    <3> PICK l : l = Len(Script(r))
      OBVIOUS
    <3>1. l \in {5, 6}
      BY ScriptParts
    <3>2. k \in 0 .. l
      BY ONLY <3>1, k \in 0 .. 3
    <3> QED
      BY <3>2
  <2>2. Len(Told(r, k)) = k /\ \A i \in 1 .. k : Told(r, k)[i] = Script(r)[i]
    BY <2>1, ScriptParts
  <2>3. \A i \in 1 .. k : i = 1 \/ i = 2 \/ i = 3
    OBVIOUS
  <2>4. \A i \in 1 .. k : Script(r)[i] \in {"retrieve", "generate", "sql"}
    BY <2>3, ScriptParts
  <2> QED
    BY <2>2, <2>4 DEF Quiet
<1> QED
  BY <1>1, <1>2

(* What a stream has said is quiet, or part of the script of a good row. *)
LEMMA SaidOnlyIfGood ==
  ASSUME IInv, NEW r \in Requests, shape[r] = "stream", StreamStory(r)
  PROVE  \/ Quiet(Transcript(r))
         \/ /\ Good(r)
            /\ \A i \in 1 .. Len(Transcript(r)) :
                 \/ Transcript(r)[i] = End
                 \/ \E j \in 1 .. Len(Script(r)) : Transcript(r)[i] = Script(r)[j]
<1> DEFINE S == Events \cup {End}
           Said == \/ Quiet(Transcript(r))
                   \/ /\ Good(r)
                      /\ \A i \in 1 .. Len(Transcript(r)) :
                           \/ Transcript(r)[i] = End
                           \/ \E j \in 1 .. Len(Script(r)) : Transcript(r)[i] = Script(r)[j]
<1>0. task[r] \in TaskStates
  BY DEF IInv, TypeOK
<1>1. \A k \in Points : k \in 0 .. 3
  BY DEF Points
<1>2. ASSUME NEW k \in Points
      PROVE  /\ Quiet(Told(r, k)) /\ Quiet(Told(r, k) \o <<End>>)
             /\ Quiet(Told(r, k) \o <<"error">>) /\ Quiet((Told(r, k) \o <<"error">>) \o <<End>>)
  <2> PICK p : p = Told(r, k)
    OBVIOUS
  <2>1. p \in Seq(S) /\ Quiet(p)
    BY <1>1, ScriptSays, ToldOfEvents, SeqMonotonic
  <2>2. "error" \in S /\ End \in S /\ {"error", End} \cap {"rows", "validate", "body"} = {}
    BY DEF Events, End
  <2>3. p \o <<"error">> \in Seq(S)
    BY <2>1, <2>2
  <2> HIDE DEF S
  <2>4. Quiet(p \o <<End>>) /\ Quiet(p \o <<"error">>)
    BY <2>1, <2>2, QuietGrows
  <2>5. Quiet((p \o <<"error">>) \o <<End>>)
    BY <2>2, <2>3, <2>4, QuietGrows
  <2> QED
    BY <2>1, <2>4, <2>5
<1>3. ASSUME Good(r), NEW k \in 0 .. Len(Script(r)), Transcript(r) = Told(r, k) PROVE Said
  <2>1. /\ Len(Told(r, k)) = k /\ \A i \in 1 .. k : Told(r, k)[i] = Script(r)[i]
    BY ScriptParts
  <2>2. \A i \in 1 .. k : i \in 1 .. Len(Script(r))
    BY ScriptParts
  <2> QED
    BY <1>3, <2>1, <2>2
<1>4. ASSUME Good(r), Transcript(r) = Script(r) \/ Transcript(r) = Script(r) \o <<End>> PROVE Said
  <2> PICK X : X = Script(r)
    OBVIOUS
  <2>1. X \in Seq(S)
    BY ScriptParts, SeqMonotonic
  <2>2. /\ Len(X \o <<End>>) = Len(X) + 1 /\ Len(X) \in Nat
        /\ \A i \in 1 .. Len(X) + 1 : (X \o <<End>>)[i] = IF i <= Len(X) THEN X[i] ELSE End
    BY <2>1
  <2>3. \A i \in 1 .. Len(X) + 1 : i \in 1 .. Len(X) \/ i = Len(X) + 1
    BY <2>2
  <2>4. \A i \in 1 .. Len(X \o <<End>>) :
           (X \o <<End>>)[i] = End \/ \E j \in 1 .. Len(X) : (X \o <<End>>)[i] = X[j]
    BY <2>2, <2>3
  <2> QED
    BY <1>4, <2>4
<1> SUFFICES Said
  OBVIOUS
<1> HIDE DEF Said
<1>5. Quiet(Transcript(r)) => Said
  BY DEF Said
<1>6. CASE handler[r] # "closed"
  <2>1. TellsSo(r, Transcript(r))
    BY <1>6 DEF StreamStory
  <2>2. CASE task[r] \in {"none", "created", "retrieve", "generate", "executor"}
    <3>1. Point(task[r]) \in Points /\ Transcript(r) = Told(r, Point(task[r]))
      BY <2>1, <2>2 DEF TellsSo, Point, Points
    <3> QED
      BY <1>2, <1>5, <3>1
  <2>3. CASE task[r] \in {"cancelling", "cancelled"}
    <3>1. \E k \in Points : Transcript(r) = Told(r, k) \/ Transcript(r) = Told(r, k) \o <<End>>
      BY <2>1, <2>3 DEF TellsSo
    <3> QED
      BY <1>2, <1>5, <3>1
  <2>4. CASE task[r] = "done"
    <3>1. \/ Good(r) /\ (Transcript(r) = Script(r) \/ Transcript(r) = Script(r) \o <<End>>)
          \/ \E k \in Points : \/ Transcript(r) = Told(r, k) \o <<"error">>
                               \/ Transcript(r) = (Told(r, k) \o <<"error">>) \o <<End>>
      BY <2>1, <2>4 DEF TellsSo
    <3>2. CASE Good(r) /\ (Transcript(r) = Script(r) \/ Transcript(r) = Script(r) \o <<End>>)
      BY <1>4, <3>2
    <3>3. CASE \E k \in Points : \/ Transcript(r) = Told(r, k) \o <<"error">>
                                \/ Transcript(r) = (Told(r, k) \o <<"error">>) \o <<End>>
      BY <1>2, <1>5, <3>3
    <3> QED
      BY <3>1, <3>2, <3>3
  <2> QED
    BY <1>0, <2>2, <2>3, <2>4 DEF TaskStates
<1>7. CASE handler[r] = "closed"
  <2>1. ToldInPart(r) /\ Transcript(r) = sent[r]
    BY <1>7, ConcatEmptySeq DEF StreamStory, Transcript, IInv, TypeOK
  <2>2. CASE \E k \in 0 .. 3 : sent[r] = Told(r, k)
    BY <1>5, <2>1, <2>2, ScriptSays
  <2>3. CASE \E k \in Points : sent[r] = Told(r, k) \o <<"error">>
    BY <1>2, <1>5, <2>1, <2>3
  <2>4. CASE Good(r) /\ \E k \in 0 .. Len(Script(r)) : sent[r] = Told(r, k)
    <3>1. PICK k \in 0 .. Len(Script(r)) : sent[r] = Told(r, k)
      BY <2>4
    <3>2. Transcript(r) = Told(r, k)
      BY <2>1, <3>1
    <3> QED
      BY <1>3, <2>4, <3>2
  <2> QED
    BY <2>1, <2>2, <2>3, <2>4 DEF ToldInPart
<1> QED
  BY <1>6, <1>7

(* What a caller is told is what the audit trail says: a request writes at  *)
(* most one row, on the one executor call it makes, and its rows, its       *)
(* verdict or its body are told only once that row says so.                 *)
THEOREM ToldAsRecorded == Spec => []TrailMatchesAnswer
<1>1. IInv /\ StoryInv => TrailMatchesAnswer
  <2> SUFFICES ASSUME IInv, StoryInv, NEW r \in Requests
               PROVE  LET told == {Transcript(r)[i] : i \in DOMAIN Transcript(r)}
                          recorded == {audit[r][i].outcome : i \in DOMAIN audit[r]}
                      IN  /\ Len(audit[r]) <= 1
                          /\ "rows" \in told => recorded = {"success"}
                          /\ "validate" \in told => recorded = {"explained"}
                          /\ "body" \in told =>
                               recorded = {IF goal[r] = "execute" THEN "success" ELSE "explained"}
    BY DEF TrailMatchesAnswer
  <2> DEFINE told == {Transcript(r)[i] : i \in DOMAIN Transcript(r)}
             recorded == {audit[r][i].outcome : i \in DOMAIN audit[r]}
  <2>1. Len(audit[r]) <= 1 /\ Story(r)
    BY DEF StoryInv, RecordedLast
  <2>2. Good(r) => recorded = {IF goal[r] = "execute" THEN "success" ELSE "explained"}
    <3> SUFFICES ASSUME Good(r) PROVE recorded = {IF goal[r] = "execute" THEN "success" ELSE "explained"}
      OBVIOUS
    <3>1. DOMAIN audit[r] = {1}
      BY DEF Good, IInv, TypeOK
    <3> QED
      BY <3>1 DEF Good
  <2>3. DOMAIN Transcript(r) = 1 .. Len(Transcript(r))
    <3> PICK s, q : s = sent[r] /\ q = queue[r]
      OBVIOUS
    <3>1. s \in Seq(Events \cup Replies \cup {End}) /\ q \in Seq(Events \cup Replies \cup {End})
      BY SeqMonotonic DEF IInv, TypeOK
    <3>2. s \o q \in Seq(Events \cup Replies \cup {End})
      BY <3>1
    <3> QED
      BY <3>2 DEF Transcript
  <2>4. Quiet(Transcript(r)) => "rows" \notin told /\ "validate" \notin told /\ "body" \notin told
    BY <2>3 DEF Quiet
  <2> HIDE DEF recorded
  <2>5. CASE shape[r] = "stream"
    <3>1. goal[r] \in {"execute", "explain"}
      BY <2>1, <2>5 DEF Story, StreamStory, IInv, TypeOK, Goals
    <3>2. CASE Quiet(Transcript(r))
      BY <2>1, <2>4, <3>2 DEF recorded
    <3>3. CASE /\ Good(r)
               /\ \A i \in 1 .. Len(Transcript(r)) :
                    \/ Transcript(r)[i] = End
                    \/ \E j \in 1 .. Len(Script(r)) : Transcript(r)[i] = Script(r)[j]
      <4>1. /\ "rows" \in told => goal[r] # "explain"
            /\ "validate" \in told => goal[r] = "explain"
            /\ "body" \notin told
        BY <2>3, <3>3, ScriptSays DEF End
      <4> QED
        BY <2>1, <2>2, <3>1, <3>3, <4>1 DEF recorded
    <3> QED
      BY <2>1, <2>5, <3>2, <3>3, SaidOnlyIfGood DEF Story
  <2>6. CASE shape[r] # "stream"
    <3>1. PlainStory(r) /\ Transcript(r) = sent[r]
      BY <2>1, <2>6, ConcatEmptySeq DEF Story, PlainStory, Transcript, IInv, TypeOK
    <3>2. CASE sent[r] = <<>> \/ sent[r] = <<"rate_limited">> \/ sent[r] = <<"failure">>
      <4>1. Quiet(Transcript(r))
        BY <3>1, <3>2 DEF Quiet
      <4> QED
        BY <2>1, <2>4, <4>1 DEF recorded
    <3>3. CASE sent[r] = <<"body">> /\ Good(r)
      <4>1. told = {"body"}
        BY <3>1, <3>3
      <4> QED
        BY <2>1, <2>2, <3>3, <4>1 DEF recorded
    <3> QED
      BY <3>1, <3>2, <3>3 DEF PlainStory
  <2> QED
    BY <2>5, <2>6
<1> QED
  BY <1>1, SpecStoryInv, PTL
===============================================================================
