----------------------------- MODULE ConsoleProofs -----------------------------
(***************************************************************************)
(* The console for any number of questions and any streams: whatever is in *)
(* hand when a question is stopped or overtaken, the page shows the        *)
(* results of one question; what has settled stays; and however the        *)
(* network cuts a stream, an answer shows what was sent.                   *)
(***************************************************************************)
EXTENDS Console, FiniteSetTheorems, SequenceTheorems, WellFoundedInduction, TLAPS

(* The fields of the reducer's state, and the one field of a call of ask()  *)
(* that says whether it can still reach the page.                           *)
IsView(v) ==
    v = [phase |-> v.phase, question |-> v.question, stages |-> v.stages,
         sql |-> v.sql, rows |-> v.rows, failure |-> v.failure]
IsCall(s) == "at" \in DOMAIN s

Shaped ==
    /\ IsView(view)
    /\ stream = [i \in Asks |-> stream[i]]
    /\ \A i \in Asks : IsCall(stream[i])

(* A stream that can still reach the page is the one of the question shown: *)
(* every other one is over, or its signal is aborted.                       *)
OneReachesThePage ==
    \A i \in Asks : i \in Open /\ i \notin aborted => i = inFlight /\ i = view.question

(* The inductive invariant. *)
IInv == Shaped /\ OneReachesThePage /\ OneQuestionShown

(* Init establishes the inductive invariant. *)
LEMMA InitIInv == Init => IInv
<1> SUFFICES ASSUME Init PROVE IInv
  OBVIOUS
<1>1. IsView(view) /\ OneQuestionShown
  BY DEF Init, IsView, OneQuestionShown, Blank
<1>2. IsCall(NoStream) /\ NoStream.at = "none"
  BY DEF IsCall, NoStream
<1>3. /\ stream = [i \in Asks |-> stream[i]]
      /\ \A i \in Asks : IsCall(stream[i]) /\ stream[i].at = "none"
  BY <1>2 DEF Init
<1> QED
  BY <1>1, <1>3 DEF IInv, Shaped, OneReachesThePage, Open

(* The updates of a call of ask() keep its place a field of it. *)
LEMMA CallUpdates ==
  ASSUME NEW s, IsCall(s), NEW at, NEW events, NEW sent, NEW read, NEW parser, NEW cut
  PROVE  /\ IsCall([s EXCEPT !.at = at]) /\ [s EXCEPT !.at = at].at = at
         /\ IsCall([s EXCEPT !.at = at, !.events = events])
         /\ [s EXCEPT !.at = at, !.events = events].at = at
         /\ IsCall([s EXCEPT !.at = at, !.sent = sent])
         /\ IsCall([s EXCEPT !.events = events, !.at = at])
         /\ IsCall([s EXCEPT !.read = read, !.parser = parser, !.events = events, !.at = at])
         /\ IsCall(Over(s)) /\ Over(s).at = "over"
         /\ IsCall([Over(s) EXCEPT !.cut = cut]) /\ [Over(s) EXCEPT !.cut = cut].at = "over"
<1>1. IsCall([s EXCEPT !.at = at]) /\ [s EXCEPT !.at = at].at = at
  BY DEF IsCall
<1>2. /\ IsCall([s EXCEPT !.at = at, !.events = events])
      /\ [s EXCEPT !.at = at, !.events = events].at = at
  BY DEF IsCall
<1>3. IsCall([s EXCEPT !.at = at, !.sent = sent])
  BY DEF IsCall
<1>4. IsCall([s EXCEPT !.events = events, !.at = at])
  BY DEF IsCall
<1>5. IsCall([s EXCEPT !.read = read, !.parser = parser, !.events = events, !.at = at])
  BY DEF IsCall
<1>6. IsCall(Over(s)) /\ Over(s).at = "over"
  BY DEF IsCall, Over, NoStream
<1>7. IsCall([Over(s) EXCEPT !.cut = cut]) /\ [Over(s) EXCEPT !.cut = cut].at = "over"
  BY DEF IsCall, Over, NoStream
<1> QED
  BY <1>1, <1>2, <1>3, <1>4, <1>5, <1>6, <1>7

(* The reducer shows an event under the number of its stream, in a view of  *)
(* the same question.                                                       *)
LEMMA ReducerKeeps ==
  ASSUME IsView(view), OneQuestionShown, NEW i \in Asks, NEW event, i = view.question
  PROVE  /\ IsView(Applied(view, i, event))
         /\ Applied(view, i, event).question = view.question
         /\ {Applied(view, i, event).sql, Applied(view, i, event).rows} \subseteq {0, view.question}
BY DEF Applied, IsView, OneQuestionShown

(* The person: a new question aborts the stream it overtakes. *)
LEMMA PersonStep ==
  ASSUME IInv, Person PROVE IInv'
<1> USE DEF IInv, Shaped, OneReachesThePage, OneQuestionShown, Open
<1>1. CASE Ask
  <2> DEFINE i == Cardinality(Asked) + 1
  <2>1. /\ aborted' = aborted \cup ({inFlight} \ {0})
        /\ inFlight' = i
        /\ stream' = [stream EXCEPT ![i] = [stream[i] EXCEPT !.at = "fetching"]]
        /\ view' = [Blank EXCEPT !.phase = "asking", !.question = i]
    BY <1>1 DEF Ask
  <2> HIDE DEF i
  <2>2. IsView(view') /\ OneQuestionShown' /\ view'.question = i
    BY <2>1 DEF Blank, IsView
  <2>3. \A j \in Asks : stream'[j] = IF j = i THEN [stream[j] EXCEPT !.at = "fetching"] ELSE stream[j]
    BY <2>1
  <2>4. Shaped'
    <3>1. \A j \in Asks : IsCall(stream'[j])
      BY <2>3 DEF IsCall
    <3> QED
      BY <2>1, <2>2, <3>1
  <2>5. OneReachesThePage'
    BY <2>1, <2>2, <2>3 DEF Asks
  <2> QED
    BY <2>2, <2>4, <2>5
<1>2. CASE Stop
  BY <1>2 DEF Stop, IsView, Asks
<1>3. CASE Leave
  BY <1>3 DEF Leave, IsView, Asks
<1> QED
  BY <1>1, <1>2, <1>3 DEF Person

(* A step of a stream that leaves the page and the signals alone. *)
LEMMA QuietStep ==
  ASSUME IInv, NEW i \in Asks, NEW s, IsCall(s),
         Advance(i, s), i \in Open \/ s.at = "over",
         UNCHANGED <<view, aborted>>,
         inFlight' = inFlight \/ (s.at = "over" /\ inFlight = i)
  PROVE  IInv'
<1> USE DEF IInv, Shaped, OneReachesThePage, OneQuestionShown, Open
<1>1. stream' = [stream EXCEPT ![i] = s]
  BY DEF Advance
<1>2. Shaped' /\ OneQuestionShown'
  BY <1>1
<1>3. OneReachesThePage'
  BY <1>1
<1> QED
  BY <1>2, <1>3

(* A step that shows an event of a stream whose signal is not aborted. *)
LEMMA ShowStep ==
  ASSUME IInv, NEW i \in Open, i \notin aborted, NEW s, IsCall(s), NEW event,
         Advance(i, s), view' = Applied(view, i, event), UNCHANGED aborted,
         inFlight' = inFlight \/ s.at = "over"
  PROVE  IInv'
<1> USE DEF IInv, Shaped, Open
<1>1. i \in Asks /\ i = inFlight /\ i = view.question
  BY DEF OneReachesThePage
<1>2. IsView(view') /\ view'.question = view.question /\ OneQuestionShown'
  BY <1>1, ReducerKeeps DEF OneQuestionShown
<1>3. stream' = [stream EXCEPT ![i] = s]
  BY DEF Advance
<1>4. Shaped'
  BY <1>2, <1>3
<1>5. OneReachesThePage'
  BY <1>1, <1>2, <1>3 DEF OneReachesThePage
<1> QED
  BY <1>2, <1>4, <1>5

(* The streams: one that is aborted is never shown. *)
LEMMA TurnStep ==
  ASSUME IInv, NEW i \in Asks, Turn(i) PROVE IInv'
<1>0. IsCall(stream[i])
  BY DEF IInv, Shaped
<1>1. CASE Unreachable(i)
  <2> DEFINE s == [stream[i] EXCEPT !.at = "last", !.events = <<"client_error">>]
  <2>1. Advance(i, s) /\ i \in Open /\ UNCHANGED <<view, inFlight, aborted>>
    BY <1>1 DEF Unreachable, Open
  <2>2. IsCall(s)
    BY <1>0, CallUpdates
  <2> QED
    BY <2>1, <2>2, QuietStep
<1>2. CASE Refused(i)
  <2>1. PICK event \in EnvelopeOf :
          Advance(i, [stream[i] EXCEPT !.at = "last", !.events = <<event>>])
    BY <1>2 DEF Refused
  <2>2. i \in Open /\ UNCHANGED <<view, inFlight, aborted>>
    BY <1>2 DEF Refused, Open
  <2>3. IsCall([stream[i] EXCEPT !.at = "last", !.events = <<event>>])
    BY <1>0, CallUpdates
  <2> QED
    BY <2>1, <2>2, <2>3, QuietStep
<1>3. CASE Accepted(i)
  <2>1. PICK t \in Transcripts :
          Advance(i, [stream[i] EXCEPT !.at = "reading", !.sent = t])
    BY <1>3 DEF Accepted
  <2>2. i \in Open /\ UNCHANGED <<view, inFlight, aborted>>
    BY <1>3 DEF Accepted, Open
  <2>3. IsCall([stream[i] EXCEPT !.at = "reading", !.sent = t])
    BY <1>0, CallUpdates
  <2> QED
    BY <2>1, <2>2, <2>3, QuietStep
<1>4. CASE Read(i)
  <2>1. PICK read, parser, events, at :
          Advance(i, [stream[i] EXCEPT !.read = read, !.parser = parser, !.events = events,
                                       !.at = at])
    BY <1>4 DEF Read
  <2>2. i \in Open /\ UNCHANGED <<view, inFlight, aborted>>
    BY <1>4 DEF Read, Open
  <2>3. IsCall([stream[i] EXCEPT !.read = read, !.parser = parser, !.events = events, !.at = at])
    BY <1>0, CallUpdates
  <2> QED
    BY <2>1, <2>2, <2>3, QuietStep
<1>5. CASE Yield(i)
  <2>0. i \in Open /\ UNCHANGED <<inFlight, aborted>>
    BY <1>5 DEF Yield, Open
  <2>1. CASE i \in aborted
    <3>1. Advance(i, Over(stream[i])) /\ UNCHANGED view
      BY <1>5, <2>1 DEF Yield
    <3> QED
      BY <1>0, <2>0, <3>1, CallUpdates, QuietStep
  <2>2. CASE i \notin aborted
    <3>1. PICK events, at : Advance(i, [stream[i] EXCEPT !.events = events, !.at = at])
      BY <1>5, <2>2 DEF Yield
    <3>2. view' = Applied(view, i, Head(stream[i].events))
      BY <1>5, <2>2 DEF Yield
    <3>3. IsCall([stream[i] EXCEPT !.events = events, !.at = at])
      BY <1>0, CallUpdates
    <3> QED
      BY <2>0, <2>2, <3>1, <3>2, <3>3, ShowStep
  <2> QED
    BY <2>1, <2>2
<1>6. CASE YieldLast(i)
  <2>0. i \in Open /\ Advance(i, Over(stream[i])) /\ UNCHANGED aborted
    BY <1>6 DEF YieldLast, Open
  <2>1. IsCall(Over(stream[i])) /\ Over(stream[i]).at = "over"
    BY <1>0, CallUpdates
  <2>2. CASE i \in aborted
    BY <1>6, <2>0, <2>1, <2>2, QuietStep DEF YieldLast
  <2>3. CASE i \notin aborted
    BY <1>6, <2>0, <2>1, <2>3, ShowStep DEF YieldLast
  <2> QED
    BY <2>2, <2>3
<1>7. CASE CloseStream(i)
  <2>0. i \in Open /\ UNCHANGED <<view, aborted>>
    BY <1>7 DEF CloseStream, Open
  <2>1. CASE PendingTail(stream[i].parser)
    <3>1. Advance(i, [stream[i] EXCEPT !.at = "last", !.events = <<"client_error">>])
          /\ UNCHANGED inFlight
      BY <1>7, <2>1 DEF CloseStream
    <3>2. IsCall([stream[i] EXCEPT !.at = "last", !.events = <<"client_error">>])
      BY <1>0, CallUpdates
    <3> QED
      BY <2>0, <3>1, <3>2, QuietStep
  <2>2. CASE ~PendingTail(stream[i].parser)
    <3>1. PICK cut : Advance(i, [Over(stream[i]) EXCEPT !.cut = cut])
      BY <1>7, <2>2 DEF CloseStream
    <3>2. inFlight' = inFlight \/ inFlight = i
      BY <1>7, <2>2 DEF CloseStream
    <3>3. /\ IsCall([Over(stream[i]) EXCEPT !.cut = cut])
          /\ [Over(stream[i]) EXCEPT !.cut = cut].at = "over"
      BY <1>0, CallUpdates
    <3> QED
      BY <2>0, <3>1, <3>2, <3>3, QuietStep
  <2> QED
    BY <2>1, <2>2
<1>8. CASE Drop(i)
  <2>1. Advance(i, [stream[i] EXCEPT !.at = "last", !.events = <<"client_error">>])
        /\ i \in Open /\ UNCHANGED <<view, inFlight, aborted>>
    BY <1>8 DEF Drop, Open
  <2>2. IsCall([stream[i] EXCEPT !.at = "last", !.events = <<"client_error">>])
    BY <1>0, CallUpdates
  <2> QED
    BY <2>1, <2>2, QuietStep
<1>9. CASE AbortSeen(i)
  <2>1. /\ i \in Open /\ Advance(i, Over(stream[i])) /\ UNCHANGED <<view, aborted>>
        /\ inFlight' = inFlight \/ inFlight = i
    BY <1>9 DEF AbortSeen, Open
  <2>2. IsCall(Over(stream[i])) /\ Over(stream[i]).at = "over"
    BY <1>0, CallUpdates
  <2> QED
    BY <2>1, <2>2, QuietStep
<1> QED
  BY <1>1, <1>2, <1>3, <1>4, <1>5, <1>6, <1>7, <1>8, <1>9 DEF Turn

(* The inductive invariant holds in every reachable state. *)
THEOREM SpecIInv == Spec => []IInv
<1>1. IInv /\ [Next]_vars => IInv'
  <2> SUFFICES ASSUME IInv, [Next]_vars PROVE IInv'
    OBVIOUS
  <2>1. CASE UNCHANGED vars
    BY <2>1 DEF vars, IInv, Shaped, OneReachesThePage, OneQuestionShown, Open
  <2> QED
    BY <2>1, PersonStep, TurnStep DEF Next
<1> QED
  BY <1>1, InitIInv, PTL DEF Spec

(* The page never shows "one question's SQL above another question's rows"  *)
(* (web/src/App.tsx), for any number of questions stopped and overtaken.    *)
THEOREM OneQuestionAtATime == Spec => []OneQuestionShown
<1>1. IInv => OneQuestionShown
  BY DEF IInv
<1> QED
  BY <1>1, SpecIInv, PTL

(* The reducer of web/src/state/reducer.ts: late events leave a settled     *)
(* view alone.                                                              *)
THEOREM SettledIsFinal == Spec => SettledStays
<1>1. IInv /\ [Next]_vars =>
        [view.phase \in {"answered", "failed", "stopped"}
           => view' = view \/ view'.phase \in {"asking", "left"}]_vars
  <2> SUFFICES ASSUME IInv, Next, view.phase \in {"answered", "failed", "stopped"}
               PROVE  view' = view \/ view'.phase \in {"asking", "left"}
    OBVIOUS
  <2>1. CASE Person
    BY <2>1 DEF Person, Ask, Stop, Leave, Blank, IInv, Shaped, IsView
  <2>2. ASSUME NEW i \in Asks, Turn(i) PROVE view' = view
    BY <2>2 DEF Turn, Unreachable, Refused, Accepted, Read, Yield, YieldLast, CloseStream, Drop,
                AbortSeen, Applied
  <2> QED
    BY <2>1, <2>2 DEF Next
<1> QED
  BY <1>1, SpecIInv, PTL DEF Spec, SettledStays

-------------------------------------------------------------------------------
(* What SseParser frames, for any script and any cut of its wire.  The wire  *)
(* is the join of its entries, line by line (Joined, WireShape); a turn of   *)
(* push's loop consumes one line (Cutting, PlaceConsumed), so that however   *)
(* much was read, the parser stands at some line of some entry and holds     *)
(* what was read behind it (Parsing, TurnParses).                            *)

(* Induction: a set of numbers that has zero, and the next of each it has,   *)
(* has all of them.                                                          *)
LEMMA Counting ==
  ASSUME NEW S, 0 \in S, \A n \in Nat : n \in S => n + 1 \in S
  PROVE  Nat \subseteq S
<1> DEFINE T == Nat \ S
<1>1. SUFFICES ASSUME T # {} PROVE FALSE
  OBVIOUS
<1>2. T \subseteq Nat
  OBVIOUS
<1>3. PICK x \in T : \A y \in T : ~(<<y, x>> \in OpToRel(<, Nat))
  <2> HIDE DEF T
  <2> QED
    BY <1>1, <1>2, WFMin, NatLessThanWellFounded
<1>4. x \in Nat /\ x \notin S
  BY <1>3
<1>n. x # 0
  BY <1>4
<1>m. PICK y \in Nat : x = y + 1
  BY ONLY <1>4, <1>n
<1>5. y \in T
  BY <1>4, <1>m
<1>6. y < x
  BY <1>m
<1> QED
  BY <1>3, <1>4, <1>5, <1>6, <1>m DEF OpToRel

(* Every prefix of a script is encoded as the one before it and its last entry. *)
LEMMA EncodingsAre ==
  ASSUME NEW t, Len(t.script) \in Nat
  PROVE  Encodings(t) = [n \in 0 .. Len(t.script) |->
           IF n = 0 THEN <<>> ELSE Encodings(t)[n - 1] \o EncodeEvent(t.script[n], t.style)]
<1> DEFINE Up(g, m) == g = [n \in 0 .. m |->
             IF n = 0 THEN <<>> ELSE g[n - 1] \o EncodeEvent(t.script[n], t.style)]
           S == {m \in Nat : \E g : Up(g, m)}
<1>1. 0 \in S
  <2> DEFINE g == [n \in 0 .. 0 |-> <<>>]
  <2>1. Up(g, 0)
    OBVIOUS
  <2> QED
    BY <2>1
<1>2. ASSUME NEW m \in Nat, m \in S PROVE m + 1 \in S
  <2>1. PICK g : Up(g, m)
    BY <1>2
  <2> DEFINE h == [n \in 0 .. (m + 1) |->
               IF n = m + 1 THEN g[m] \o EncodeEvent(t.script[m + 1], t.style) ELSE g[n]]
  <2>2. \A n \in 0 .. m : h[n] = g[n]
    OBVIOUS
  <2>3. \A n \in 0 .. m : g[n] = IF n = 0 THEN <<>> ELSE g[n - 1] \o EncodeEvent(t.script[n], t.style)
    BY <2>1
  <2>4. \A n \in 0 .. (m + 1) :
          h[n] = IF n = 0 THEN <<>> ELSE h[n - 1] \o EncodeEvent(t.script[n], t.style)
    <3> TAKE n \in 0 .. (m + 1)
    <3>1. CASE n = m + 1
      <4>1. h[n] = g[m] \o EncodeEvent(t.script[m + 1], t.style)
        BY <3>1
      <4>2. h[n - 1] = g[m]
        BY <2>2, <3>1
      <4>3. EncodeEvent(t.script[n], t.style) = EncodeEvent(t.script[m + 1], t.style)
        BY <3>1
      <4>4. n # 0
        BY <3>1
      <4> HIDE DEF h
      <4> QED
        BY ONLY <4>1, <4>2, <4>3, <4>4
    <3>2. CASE n \in 0 .. m /\ n # 0
      <4>1. n - 1 \in 0 .. m
        BY <3>2
      <4>2. h[n] = g[n] /\ h[n - 1] = g[n - 1]
        BY <2>2, <3>2, <4>1
      <4>3. g[n] = g[n - 1] \o EncodeEvent(t.script[n], t.style) /\ n # 0
        BY <2>3, <3>2
      <4> HIDE DEF h
      <4> QED
        BY ONLY <4>2, <4>3
    <3>3. CASE n = 0
      BY <2>2, <2>3, <3>3
    <3> QED
      BY <3>1, <3>2, <3>3
  <2>5. Up(h, m + 1)
    <3>1. h = [n \in 0 .. (m + 1) |-> h[n]]
      OBVIOUS
    <3> HIDE DEF h
    <3> QED
      BY <2>4, <3>1
  <2> HIDE DEF h, Up
  <2> QED
    BY <2>5
<1>3. Len(t.script) \in S
  <2> HIDE DEF S
  <2> QED
    BY <1>1, <1>2, Counting
<1>4. \E g : Up(g, Len(t.script))
  BY <1>3
<1> QED
  BY <1>4 DEF Encodings

(* Every turn of push's loop is NextLine of the turn before it. *)
LEMMA TurnsAre ==
  ASSUME NEW p, Len(p.buffer) \in Nat
  PROVE  Turns(p) = [n \in 0 .. Len(p.buffer) |-> IF n = 0 THEN p ELSE NextLine(Turns(p)[n - 1])]
<1> DEFINE Up(g, m) == g = [n \in 0 .. m |-> IF n = 0 THEN p ELSE NextLine(g[n - 1])]
           S == {m \in Nat : \E g : Up(g, m)}
<1>1. 0 \in S
  <2> DEFINE g == [n \in 0 .. 0 |-> p]
  <2>1. Up(g, 0)
    OBVIOUS
  <2> QED
    BY <2>1
<1>2. ASSUME NEW m \in Nat, m \in S PROVE m + 1 \in S
  <2>1. PICK g : Up(g, m)
    BY <1>2
  <2> DEFINE h == [n \in 0 .. (m + 1) |-> IF n = m + 1 THEN NextLine(g[m]) ELSE g[n]]
  <2>2. \A n \in 0 .. m : h[n] = g[n]
    OBVIOUS
  <2>3. \A n \in 0 .. m : g[n] = IF n = 0 THEN p ELSE NextLine(g[n - 1])
    BY <2>1
  <2>4. \A n \in 0 .. (m + 1) : h[n] = IF n = 0 THEN p ELSE NextLine(h[n - 1])
    <3> TAKE n \in 0 .. (m + 1)
    <3>1. CASE n = m + 1
      <4>1. h[n] = NextLine(g[m])
        BY <3>1
      <4>2. h[n - 1] = g[m]
        BY <2>2, <3>1
      <4> HIDE DEF h
      <4> QED
        BY <3>1, <4>1, <4>2
    <3>2. CASE n \in 0 .. m /\ n # 0
      <4>1. n - 1 \in 0 .. m
        BY <3>2
      <4> QED
        BY <2>2, <2>3, <3>2, <4>1
    <3>3. CASE n = 0
      BY <2>2, <2>3, <3>3
    <3> QED
      BY <3>1, <3>2, <3>3
  <2>5. Up(h, m + 1)
    <3>1. h = [n \in 0 .. (m + 1) |-> h[n]]
      OBVIOUS
    <3> HIDE DEF h
    <3> QED
      BY <2>4, <3>1
  <2> HIDE DEF h, Up
  <2> QED
    BY <2>5
<1>3. Len(p.buffer) \in S
  <2> HIDE DEF S
  <2> QED
    BY <1>1, <1>2, Counting
<1>4. \E g : Up(g, Len(p.buffer))
  BY <1>3
<1>5. \A x : (CHOOSE r \in {NextLine(q) : q \in {x}} : TRUE) = NextLine(x)
  OBVIOUS
<1>6. Turns(p) = CHOOSE g : Up(g, Len(p.buffer))
  BY <1>5 DEF Turns
<1> QED
  BY <1>4, <1>6

(* Two sequences joined: each element keeps its place. *)
LEMMA JoinPlaces ==
  ASSUME NEW T, NEW a \in Seq(T), NEW b \in Seq(T)
  PROVE  /\ a \o b \in Seq(T) /\ Len(a) \in Nat /\ Len(b) \in Nat
         /\ Len(a \o b) = Len(a) + Len(b)
         /\ \A j \in 1 .. Len(a) : (a \o b)[j] = a[j]
         /\ \A j \in 1 .. Len(b) : (a \o b)[Len(a) + j] = b[j]
<1>1. Len(a) \in Nat /\ Len(b) \in Nat
  OBVIOUS
<1>2. Len(a \o b) = Len(a) + Len(b) /\ a \o b \in Seq(T)
  BY ConcatProperties
<1>3. \A j \in 1 .. Len(a) + Len(b) : (a \o b)[j] = IF j <= Len(a) THEN a[j] ELSE b[j - Len(a)]
  BY ConcatProperties
<1>4. ASSUME NEW j \in 1 .. Len(b) PROVE (a \o b)[Len(a) + j] = b[j]
  <2>1. Len(a) + j \in 1 .. Len(a) + Len(b) /\ ~(Len(a) + j <= Len(a)) /\ (Len(a) + j) - Len(a) = j
    BY <1>1
  <2> QED
    BY ONLY <2>1, <1>3
<1>5. ASSUME NEW j \in 1 .. Len(a) PROVE (a \o b)[j] = a[j]
  <2>1. j \in 1 .. Len(a) + Len(b) /\ j <= Len(a)
    BY <1>1
  <2> QED
    BY ONLY <2>1, <1>3
<1> QED
  BY <1>1, <1>2, <1>4, <1>5

(* A sequence of sequences joined one after another. *)
Joining(enc, e, N, T) ==
    /\ enc[0] = <<>>
    /\ \A n \in 1 .. N : e[n] \in Seq(T) /\ enc[n] = enc[n - 1] \o e[n]

(* Every prefix of the join is a sequence. *)
LEMMA JoinedAre ==
  ASSUME NEW N \in Nat, NEW T, NEW e, NEW enc, Joining(enc, e, N, T)
  PROVE  \A n \in 0 .. N : enc[n] \in Seq(T)
<1> DEFINE S == {n \in Nat : n <= N => enc[n] \in Seq(T)}
<1>1. 0 \in S
  <2>1. enc[0] = <<>>
    BY DEF Joining
  <2>2. <<>> \in Seq(T)
    OBVIOUS
  <2> QED
    BY <2>1, <2>2
<1>2. ASSUME NEW n \in Nat, n \in S PROVE n + 1 \in S
  <2>1. CASE n + 1 <= N
    <3>1. n + 1 \in 1 .. N /\ (n + 1) - 1 = n /\ n <= N
      BY <2>1
    <3>2. enc[n] \in Seq(T)
      BY <1>2, <3>1
    <3>3. \A k \in 1 .. N : e[k] \in Seq(T) /\ enc[k] = enc[k - 1] \o e[k]
      BY DEF Joining
    <3>4. e[n + 1] \in Seq(T) /\ enc[n + 1] = enc[n] \o e[n + 1]
      <4> PICK k : k = n + 1
        OBVIOUS
      <4>1. e[k] \in Seq(T) /\ enc[k] = enc[k - 1] \o e[k] /\ k - 1 = n
        BY <3>1, <3>3
      <4> QED
        BY <4>1
    <3>5. enc[n + 1] \in Seq(T)
      BY <3>2, <3>4, JoinPlaces
    <3> QED
      BY <3>5
  <2>2. CASE ~(n + 1 <= N)
    BY <2>2
  <2> QED
    BY <2>1, <2>2
<1>3. Nat \subseteq S
  <2> HIDE DEF S
  <2> QED
    BY <1>1, <1>2, Counting
<1> QED
  BY <1>3

Longer(enc, e, n) ==
    /\ Len(enc[n - 1]) \in Nat /\ Len(e[n]) \in Nat /\ Len(enc[n]) \in Nat
    /\ Len(enc[n]) = Len(enc[n - 1]) + Len(e[n])
    /\ \A j \in 1 .. Len(enc[n - 1]) : enc[n][j] = enc[n - 1][j]
    /\ \A j \in 1 .. Len(e[n]) : enc[n][Len(enc[n - 1]) + j] = e[n][j]

(* The next part stands behind the prefix it is joined to. *)
LEMMA JoinedNext ==
  ASSUME NEW N \in Nat, NEW T, NEW e, NEW enc, Joining(enc, e, N, T), NEW n \in 1 .. N
  PROVE  Longer(enc, e, n)
<1>1. n - 1 \in 0 .. N
  OBVIOUS
<1>2. enc[n - 1] \in Seq(T)
  BY <1>1, JoinedAre
<1>3. e[n] \in Seq(T) /\ enc[n] = enc[n - 1] \o e[n]
  BY DEF Joining
<1> PICK a, b, c : a = enc[n - 1] /\ b = e[n] /\ c = enc[n]
  OBVIOUS
<1>4. a \in Seq(T) /\ b \in Seq(T) /\ c = a \o b
  BY <1>2, <1>3
<1>5. /\ c \in Seq(T) /\ Len(a) \in Nat /\ Len(b) \in Nat /\ Len(c) = Len(a) + Len(b)
      /\ \A j \in 1 .. Len(a) : c[j] = a[j]
      /\ \A j \in 1 .. Len(b) : c[Len(a) + j] = b[j]
  BY ONLY <1>4, JoinPlaces
<1>6. Len(c) \in Nat
  BY ONLY <1>5
<1> QED
  BY <1>4, <1>5, <1>6 DEF Longer

(* What has been joined stays where it is. *)
LEMMA JoinedLater ==
  ASSUME NEW N \in Nat, NEW T, NEW e, NEW enc, Joining(enc, e, N, T), NEW n \in 1 .. N
  PROVE  \A m \in n .. N :
           /\ Len(enc[n]) <= Len(enc[m])
           /\ \A j \in 1 .. Len(enc[n]) : enc[m][j] = enc[n][j]
<1> DEFINE P(m) == /\ Len(enc[n]) <= Len(enc[m])
                   /\ \A j \in 1 .. Len(enc[n]) : enc[m][j] = enc[n][j]
           S == {d \in Nat : n + d <= N => P(n + d)}
<1>0. Len(enc[n]) \in Nat
  BY JoinedNext DEF Longer
<1>1. 0 \in S
  <2>1. P(n)
    BY <1>0
  <2>2. n + 0 = n
    OBVIOUS
  <2> HIDE DEF P
  <2> QED
    BY <2>1, <2>2
<1>2. ASSUME NEW d \in Nat, d \in S PROVE d + 1 \in S
  <2>1. CASE n + d + 1 <= N
    <3> PICK k : k = n + d + 1
      OBVIOUS
    <3>1. k \in 1 .. N /\ k - 1 = n + d /\ n + (d + 1) = k /\ n + d <= N
      BY <2>1
    <3>2. P(k - 1)
      <4> HIDE DEF P
      <4> QED
        BY <1>2, <3>1
    <3>3. /\ Len(enc[k - 1]) \in Nat /\ Len(e[k]) \in Nat
          /\ Len(enc[k]) = Len(enc[k - 1]) + Len(e[k])
          /\ \A j \in 1 .. Len(enc[k - 1]) : enc[k][j] = enc[k - 1][j]
      <4>1. Longer(enc, e, k)
        BY <3>1, JoinedNext
      <4> QED
        BY <4>1 DEF Longer
    <3>4. P(k)
      <4>1. Len(enc[n]) <= Len(enc[k])
        <5> PICK x, y, z, u : x = Len(enc[n]) /\ y = Len(enc[k - 1]) /\ z = Len(enc[k]) /\ u = Len(e[k])
          OBVIOUS
        <5>1. x \in Nat /\ y \in Nat /\ u \in Nat /\ z = y + u /\ x <= y
          BY <1>0, <3>2, <3>3
        <5>2. x <= z
          BY ONLY <5>1
        <5> QED
          BY <5>2
      <4>2. \A j \in 1 .. Len(enc[n]) : enc[k][j] = enc[n][j]
        <5> TAKE j \in 1 .. Len(enc[n])
        <5>1. j \in 1 .. Len(enc[k - 1]) /\ enc[k - 1][j] = enc[n][j]
          BY <1>0, <3>2, <3>3
        <5> QED
          BY <3>3, <5>1
      <4> QED
        BY <4>1, <4>2
    <3> HIDE DEF P
    <3> QED
      BY <3>1, <3>4
  <2>2. CASE ~(n + d + 1 <= N)
    BY <2>2
  <2> QED
    BY <2>1, <2>2
<1>3. Nat \subseteq S
  <2> HIDE DEF S
  <2> QED
    BY <1>1, <1>2, Counting
<1>4. ASSUME NEW m \in n .. N PROVE P(m)
  <2>1. m - n \in Nat /\ n + (m - n) = m /\ m <= N
    OBVIOUS
  <2> HIDE DEF P
  <2> QED
    BY <2>1, <1>3
<1> QED
  BY <1>4

Kept(enc, e, n, N) ==
    /\ Len(enc[n - 1]) \in Nat /\ Len(e[n]) \in Nat /\ Len(enc[n]) \in Nat
    /\ Len(enc[n]) = Len(enc[n - 1]) + Len(e[n])
    /\ Len(enc[n]) <= Len(enc[N])
    /\ \A j \in 1 .. Len(e[n]) : enc[N][Len(enc[n - 1]) + j] = e[n][j]

(* So every part stands where the whole began to be joined with it. *)
LEMMA Joined ==
  ASSUME NEW N \in Nat, NEW T, NEW e, NEW enc, Joining(enc, e, N, T), NEW n \in 1 .. N
  PROVE  Kept(enc, e, n, N)
<1>1. N \in n .. N
  OBVIOUS
<1>2. /\ Len(enc[n]) <= Len(enc[N])
      /\ \A j \in 1 .. Len(enc[n]) : enc[N][j] = enc[n][j]
  BY <1>1, JoinedLater
<1>3. /\ Len(enc[n - 1]) \in Nat /\ Len(e[n]) \in Nat /\ Len(enc[n]) \in Nat
      /\ Len(enc[n]) = Len(enc[n - 1]) + Len(e[n])
      /\ \A j \in 1 .. Len(e[n]) : enc[n][Len(enc[n - 1]) + j] = e[n][j]
  <2>1. Longer(enc, e, n)
    BY JoinedNext
  <2> QED
    BY <2>1 DEF Longer
<1>6. \A j \in 1 .. Len(e[n]) : enc[N][Len(enc[n - 1]) + j] = e[n][j]
  <2> TAKE j \in 1 .. Len(e[n])
  <2>1. Len(enc[n - 1]) + j \in 1 .. Len(enc[n])
    <3> PICK y, z, u : y = Len(enc[n - 1]) /\ z = Len(enc[n]) /\ u = Len(e[n])
      OBVIOUS
    <3>1. y \in Nat /\ u \in Nat /\ z = y + u /\ j \in 1 .. u
      BY <1>3
    <3>2. y + j \in 1 .. z
      BY ONLY <3>1
    <3> QED
      BY <3>2
  <2> QED
    BY <1>2, <1>3, <2>1
<1> QED
  BY <1>2, <1>3, <1>6 DEF Kept

(* What is on the wire of a transcript. *)
Tokens(t) == ToSet(t.style) \cup {Comment} \cup ({"event", "data"} \X ToSet(t.script))

(* A line at a place of a sequence: its text, if any, and the terminator. *)
LineAt(w, c, line, style) ==
    /\ \A j \in 1 .. Len(line) : w[c + j] = line[j]
    /\ \A j \in 1 .. Len(style) : w[c + Len(line) + j] = style[j]

(* The lines of one entry, and how long it is. *)
EntryAt(w, c, ev, style) ==
    IF ev = "keepalive"
    THEN LineAt(w, c, <<Comment>>, style) /\ LineAt(w, c + 1 + Len(style), <<>>, style)
    ELSE /\ LineAt(w, c, <<<<"event", ev>>>>, style)
         /\ LineAt(w, c + 1 + Len(style), <<<<"data", ev>>>>, style)
         /\ LineAt(w, c + 2 + 2 * Len(style), <<>>, style)

EntryLength(ev, style) == IF ev = "keepalive" THEN 1 + 2 * Len(style) ELSE 2 + 3 * Len(style)

(* A line appended to a sequence stands behind it, and what stood there stays. *)
LineBehind(d, a, line, style) ==
    /\ LineAt(d, Len(a), line, style)
    /\ Len(d) = Len(a) + Len(line) + Len(style)
    /\ \A j \in 1 .. Len(a) : d[j] = a[j]

(* Appended that way: text and terminator, one behind the other. *)
LEMMA LineAppended ==
  ASSUME NEW T, NEW a \in Seq(T), NEW line \in Seq(T), NEW style \in Seq(T)
  PROVE  /\ LineBehind((a \o line) \o style, a, line, style)
         /\ (a \o line) \o style \in Seq(T)
<1> PICK b : b = a \o line
  OBVIOUS
<1>1. /\ b \in Seq(T) /\ Len(b) = Len(a) + Len(line) /\ Len(a) \in Nat /\ Len(line) \in Nat
      /\ \A j \in 1 .. Len(a) : b[j] = a[j]
      /\ \A j \in 1 .. Len(line) : b[Len(a) + j] = line[j]
  BY JoinPlaces
<1> PICK c : c = b \o style
  OBVIOUS
<1>2. /\ c \in Seq(T) /\ Len(c) = Len(b) + Len(style) /\ Len(style) \in Nat
      /\ \A j \in 1 .. Len(b) : c[j] = b[j]
      /\ \A j \in 1 .. Len(style) : c[Len(b) + j] = style[j]
  BY <1>1, JoinPlaces
<1>3. LineAt(c, Len(a), line, style)
  <2>1. \A j \in 1 .. Len(line) : c[Len(a) + j] = line[j]
    <3> TAKE j \in 1 .. Len(line)
    <3>1. Len(a) + j \in 1 .. Len(b)
      BY <1>1
    <3> QED
      BY <1>1, <1>2, <3>1
  <2>2. \A j \in 1 .. Len(style) : c[Len(a) + Len(line) + j] = style[j]
    BY <1>1, <1>2
  <2> QED
    BY <2>1, <2>2 DEF LineAt
<1>4. \A j \in 1 .. Len(a) : c[j] = a[j]
  <2> TAKE j \in 1 .. Len(a)
  <2>1. j \in 1 .. Len(b)
    BY <1>1
  <2> QED
    BY <1>1, <1>2, <2>1
<1>5. Len(c) = Len(a) + Len(line) + Len(style)
  BY <1>1, <1>2
<1> QED
  BY <1>2, <1>3, <1>4, <1>5 DEF LineBehind

(* A line of a part is a line of the whole. *)
LEMMA LineShifted ==
  ASSUME NEW b, NEW w, NEW n \in Nat, NEW base \in Nat, NEW c \in Nat, NEW line, NEW style,
         Len(line) \in Nat, Len(style) \in Nat,
         \A j \in 1 .. n : w[base + j] = b[j],
         c + Len(line) + Len(style) <= n,
         LineAt(b, c, line, style)
  PROVE  LineAt(w, base + c, line, style)
<1> PICK x, y : x = Len(line) /\ y = Len(style)
  OBVIOUS
<1>1. \A j \in 1 .. x : w[base + c + j] = line[j]
  <2> TAKE j \in 1 .. x
  <2>1. c + j \in 1 .. n /\ base + c + j = base + (c + j)
    BY ONLY x \in Nat, y \in Nat, c \in Nat, n \in Nat, base \in Nat, c + x + y <= n, j \in 1 .. x
  <2>2. b[c + j] = line[j]
    BY DEF LineAt
  <2> QED
    BY <2>1, <2>2
<1>2. \A j \in 1 .. y : w[base + c + x + j] = style[j]
  <2> TAKE j \in 1 .. y
  <2>1. c + x + j \in 1 .. n /\ base + c + x + j = base + (c + x + j)
    BY ONLY x \in Nat, y \in Nat, c \in Nat, n \in Nat, base \in Nat, c + x + y <= n, j \in 1 .. y
  <2>2. b[c + x + j] = style[j]
    BY DEF LineAt
  <2> QED
    BY <2>1, <2>2
<1> QED
  BY <1>1, <1>2 DEF LineAt

(* Two lines, or three, in a row. *)
LEMMA TwoLines ==
  ASSUME NEW T, NEW x \in T, NEW style \in Seq(T), NEW b, b = (<<x>> \o style) \o style
  PROVE  /\ b \in Seq(T) /\ Len(b) = 1 + 2 * Len(style) /\ Len(style) \in Nat
         /\ LineAt(b, 0, <<x>>, style) /\ LineAt(b, 1 + Len(style), <<>>, style)
<1>0. <<>> \in Seq(T) /\ <<x>> \in Seq(T) /\ Len(style) \in Nat /\ Len(<<>>) = 0 /\ Len(<<x>>) = 1
  OBVIOUS
<1> PICK a : a = <<x>> \o style
  OBVIOUS
<1>1. (<<>> \o <<x>>) \o style = a /\ a \in Seq(T)
  BY <1>0, ConcatEmptySeq, ConcatProperties
<1>2. LineAt(a, 0, <<x>>, style) /\ Len(a) = 1 + Len(style)
  <2>1. LineBehind((<<>> \o <<x>>) \o style, <<>>, <<x>>, style)
    BY <1>0, LineAppended
  <2>2. LineBehind(a, <<>>, <<x>>, style)
    BY <1>1, <2>1
  <2> QED
    BY <1>0, <2>2 DEF LineBehind
<1>3. (a \o <<>>) \o style = b
  BY <1>1, ConcatEmptySeq
<1>4. LineBehind(b, a, <<>>, style) /\ b \in Seq(T)
  BY <1>0, <1>1, <1>3, LineAppended
<1>5. /\ LineAt(b, 1 + Len(style), <<>>, style) /\ b \in Seq(T) /\ Len(b) = 1 + 2 * Len(style)
      /\ \A j \in 1 .. 1 + Len(style) : b[j] = a[j]
  BY <1>0, <1>2, <1>4 DEF LineBehind
<1>6. LineAt(b, 0, <<x>>, style)
  BY <1>0, <1>2, <1>5 DEF LineAt
<1> QED
  BY <1>0, <1>5, <1>6

(* An event, its data and the blank line. *)
LEMMA ThreeLines ==
  ASSUME NEW T, NEW x \in T, NEW y \in T, NEW style \in Seq(T),
         NEW b, b = (((<<x>> \o style) \o <<y>>) \o style) \o style
  PROVE  /\ b \in Seq(T) /\ Len(b) = 2 + 3 * Len(style) /\ Len(style) \in Nat
         /\ LineAt(b, 0, <<x>>, style) /\ LineAt(b, 1 + Len(style), <<y>>, style)
         /\ LineAt(b, 2 + 2 * Len(style), <<>>, style)
<1>0. /\ <<>> \in Seq(T) /\ <<x>> \in Seq(T) /\ <<y>> \in Seq(T) /\ Len(style) \in Nat
      /\ Len(<<>>) = 0 /\ Len(<<x>>) = 1 /\ Len(<<y>>) = 1
  OBVIOUS
<1> PICK L : L = Len(style)
  OBVIOUS
<1>L. L = Len(style) /\ L \in Nat
  BY <1>0
<1> PICK a : a = <<x>> \o style
  OBVIOUS
<1>1. (<<>> \o <<x>>) \o style = a /\ a \in Seq(T)
  BY <1>0, ConcatEmptySeq, ConcatProperties
<1>2. LineAt(a, 0, <<x>>, style) /\ Len(a) = 1 + L
  <2>1. LineBehind((<<>> \o <<x>>) \o style, <<>>, <<x>>, style)
    BY <1>0, LineAppended
  <2>2. LineBehind(a, <<>>, <<x>>, style)
    BY <1>1, <2>1
  <2> QED
    <3>1. LineAt(a, Len(<<>>), <<x>>, style) /\ Len(a) = Len(<<>>) + Len(<<x>>) + Len(style)
      BY <2>2 DEF LineBehind
    <3>2. Len(<<>>) = 0 /\ Len(<<x>>) = 1
      BY <1>0
    <3>3. LineAt(a, 0, <<x>>, style)
      BY ONLY <3>1, <3>2
    <3>4. Len(a) = 1 + L
      BY ONLY <3>1, <3>2, <1>L
    <3> QED
      BY ONLY <3>3, <3>4
<1> PICK m : m = (a \o <<y>>) \o style
  OBVIOUS
<1>3. /\ LineAt(m, 1 + L, <<y>>, style) /\ m \in Seq(T) /\ Len(m) = 2 + 2 * L
      /\ \A j \in 1 .. 1 + L : m[j] = a[j]
  <2>1. LineBehind(m, a, <<y>>, style) /\ m \in Seq(T)
    BY <1>0, <1>1, LineAppended
  <2> QED
    <3>1. LineAt(m, Len(a), <<y>>, style) /\ Len(m) = Len(a) + Len(<<y>>) + Len(style)
          /\ \A j \in 1 .. Len(a) : m[j] = a[j]
      BY <2>1 DEF LineBehind
    <3>2. Len(m) = 2 + 2 * L
      BY <1>0, <1>2, <1>L, <3>1
    <3>3. LineAt(m, 1 + L, <<y>>, style) /\ \A j \in 1 .. 1 + L : m[j] = a[j]
      BY <1>2, <3>1
    <3> QED
      BY <2>1, <3>2, <3>3
<1>4. (m \o <<>>) \o style = b
  BY <1>3, ConcatEmptySeq
<1>5. /\ LineAt(b, 2 + 2 * L, <<>>, style) /\ b \in Seq(T) /\ Len(b) = 2 + 3 * L
      /\ \A j \in 1 .. 2 + 2 * L : b[j] = m[j]
  <2>1. LineBehind(b, m, <<>>, style) /\ b \in Seq(T)
    <3>1. <<>> \in Seq(T) /\ m \in Seq(T) /\ style \in Seq(T)
      BY <1>0, <1>3
    <3>2. LineBehind((m \o <<>>) \o style, m, <<>>, style) /\ (m \o <<>>) \o style \in Seq(T)
      BY <3>1, LineAppended
    <3> QED
      BY <1>4, <3>2
  <2> QED
    BY <1>0, <1>3, <2>1 DEF LineBehind
<1>6. LineAt(b, 0, <<x>>, style)
  <2>1. \A j \in 1 .. 1 + L : b[j] = a[j]
    BY <1>0, <1>3, <1>5
  <2> QED
    BY <1>0, <1>2, <2>1 DEF LineAt
<1>7. LineAt(b, 1 + L, <<y>>, style)
  <2>1. \A j \in 1 .. 1 : b[1 + L + j] = m[1 + L + j]
    BY <1>0, <1>5
  <2>2. \A j \in 1 .. L : b[1 + L + 1 + j] = m[1 + L + 1 + j]
    BY <1>0, <1>5
  <2> QED
    BY <1>0, <1>3, <2>1, <2>2 DEF LineAt
<1> QED
  BY <1>0, <1>5, <1>6, <1>7

(* The shape of one entry. *)
LEMMA EntryShape ==
  ASSUME NEW T, NEW ev, NEW style \in Seq(T),
         Comment \in T, <<"event", ev>> \in T, <<"data", ev>> \in T
  PROVE  /\ EncodeEvent(ev, style) \in Seq(T)
         /\ Len(EncodeEvent(ev, style)) = EntryLength(ev, style) /\ Len(style) \in Nat
         /\ EntryAt(EncodeEvent(ev, style), 0, ev, style)
<1> PICK b : b = EncodeEvent(ev, style)
  OBVIOUS
<1>1. CASE ev = "keepalive"
  <2>1. b = (<<Comment>> \o style) \o style
    BY <1>1 DEF EncodeEvent
  <2> QED
    BY <1>1, <2>1, TwoLines DEF EntryAt, EntryLength
<1>2. CASE ev # "keepalive"
  <2>1. b = (((<<<<"event", ev>>>> \o style) \o <<<<"data", ev>>>>) \o style) \o style
    BY <1>2 DEF EncodeEvent
  <2>2. /\ b \in Seq(T) /\ Len(b) = 2 + 3 * Len(style) /\ Len(style) \in Nat
        /\ LineAt(b, 0, <<<<"event", ev>>>>, style) /\ LineAt(b, 1 + Len(style), <<<<"data", ev>>>>, style)
        /\ LineAt(b, 2 + 2 * Len(style), <<>>, style)
    <3> PICK x, y : x = <<"event", ev>> /\ y = <<"data", ev>>
      OBVIOUS
    <3>1. b = (((<<x>> \o style) \o <<y>>) \o style) \o style /\ x \in T /\ y \in T
      BY <2>1
    <3> QED
      BY <3>1, ThreeLines
  <2>3. LineAt(b, 1 + Len(style), <<<<"data", ev>>>>, style) /\ 0 + 1 + Len(style) = 1 + Len(style)
        /\ 0 + 2 + 2 * Len(style) = 2 + 2 * Len(style)
    BY <2>2
  <2> QED
    BY <1>2, <2>2, <2>3 DEF EntryAt, EntryLength
<1> QED
  BY <1>1, <1>2

(* An entry of a part is an entry of the whole. *)
LEMMA EntryShifted ==
  ASSUME NEW b, NEW w, NEW base \in Nat, NEW ev, NEW style, Len(style) \in Nat,
         Len(b) = EntryLength(ev, style), \A j \in 1 .. Len(b) : w[base + j] = b[j],
         EntryAt(b, 0, ev, style)
  PROVE  EntryAt(w, base, ev, style)
<1> PICK L, n : L = Len(style) /\ n = EntryLength(ev, style)
  OBVIOUS
<1>L. L = Len(style) /\ L \in Nat
  OBVIOUS
<1>w. \A j \in 1 .. n : w[base + j] = b[j]
  OBVIOUS
<1>0. \A x : Len(<<x>>) = 1
  OBVIOUS
<1>e. Len(<<>>) = 0
  OBVIOUS
<1>1. CASE ev = "keepalive"
  <2>0. n = 1 + 2 * L /\ n \in Nat
    BY <1>1, <1>L DEF EntryLength
  <2>1. LineAt(b, 0, <<Comment>>, style) /\ LineAt(b, 0 + 1 + L, <<>>, style)
    BY <1>1 DEF EntryAt
  <2>2. 0 + 1 + L = 1 + L /\ 1 + L \in Nat /\ base + 0 = base /\ base + (1 + L) = base + 1 + L
    BY <1>L
  <2>3. LineAt(w, base + 0, <<Comment>>, style)
    <3>1. 0 + Len(<<Comment>>) + L <= n
      BY <1>0, <2>0, <1>L
    <3> QED
      BY <1>0, <1>L, <2>0, <2>1, <3>1, LineShifted
  <2>4. LineAt(w, base + (1 + L), <<>>, style)
    <3> PICK d, z : d = 1 + L /\ z = <<>>
      OBVIOUS
    <3>1. d + Len(z) + L <= n /\ d \in Nat /\ Len(z) \in Nat
      BY <1>e, <2>0, <1>L
    <3>2. LineAt(b, d, z, style)
      BY <2>1, <2>2
    <3>3. LineAt(w, base + d, z, style)
      <4>1. n \in Nat /\ Len(style) = L
        BY <1>L, <2>0
      <4> QED
        BY ONLY <1>L, <1>w, <3>1, <3>2, <4>1, LineShifted, base \in Nat
    <3> QED
      BY <3>3
  <2> QED
    BY <1>1, <2>2, <2>3, <2>4 DEF EntryAt
<1>2. CASE ev # "keepalive"
  <2> PICK x, y : x = <<"event", ev>> /\ y = <<"data", ev>>
    OBVIOUS
  <2>0. n = 2 + 3 * L /\ n \in Nat
    BY <1>2, <1>L DEF EntryLength
  <2>1. /\ LineAt(b, 0, <<x>>, style) /\ LineAt(b, 0 + 1 + L, <<y>>, style)
        /\ LineAt(b, 0 + 2 + 2 * L, <<>>, style)
    BY <1>2 DEF EntryAt
  <2>2. /\ 0 + 1 + L = 1 + L /\ 1 + L \in Nat /\ base + 0 = base /\ base + (1 + L) = base + 1 + L
        /\ 0 + 2 + 2 * L = 2 + 2 * L /\ 2 + 2 * L \in Nat /\ base + (2 + 2 * L) = base + 2 + 2 * L
    BY <1>L
  <2>3. LineAt(w, base + 0, <<x>>, style)
    <3>1. 0 + Len(<<x>>) + L <= n
      BY <1>0, <2>0, <1>L
    <3> QED
      BY <1>0, <1>L, <2>0, <2>1, <3>1, LineShifted
  <2>4. LineAt(w, base + (1 + L), <<y>>, style)
    <3> PICK d, z : d = 1 + L /\ z = <<y>>
      OBVIOUS
    <3>1. d + Len(z) + L <= n /\ d \in Nat /\ Len(z) \in Nat
      BY <1>0, <2>0, <1>L
    <3>2. LineAt(b, d, z, style)
      BY <2>1, <2>2
    <3>3. LineAt(w, base + d, z, style)
      <4>1. n \in Nat /\ Len(style) = L
        BY <1>L, <2>0
      <4> QED
        BY ONLY <1>L, <1>w, <3>1, <3>2, <4>1, LineShifted, base \in Nat
    <3> QED
      BY <3>3
  <2>5. LineAt(w, base + (2 + 2 * L), <<>>, style)
    <3> PICK d, z : d = 2 + 2 * L /\ z = <<>>
      OBVIOUS
    <3>1. d + Len(z) + L <= n /\ d \in Nat /\ Len(z) \in Nat
      BY <1>e, <2>0, <1>L
    <3>2. LineAt(b, d, z, style)
      BY <2>1, <2>2
    <3>3. LineAt(w, base + d, z, style)
      <4>1. n \in Nat /\ Len(style) = L
        BY <1>L, <2>0
      <4> QED
        BY ONLY <1>L, <1>w, <3>1, <3>2, <4>1, LineShifted, base \in Nat
    <3> QED
      BY <3>3
  <2> QED
    BY <1>2, <2>2, <2>3, <2>4, <2>5 DEF EntryAt
<1> QED
  BY <1>1, <1>2

(* Where the entry after the k-th begins. *)
From(t, k) == Len(Encodings(t)[k])

EntryOnWire(t, n) ==
    /\ From(t, n - 1) \in Nat /\ From(t, n) \in Nat
    /\ From(t, n) = From(t, n - 1) + EntryLength(t.script[n], t.style)
    /\ From(t, n) <= Len(Wire[t])
    /\ EntryAt(Wire[t], From(t, n - 1), t.script[n], t.style)

(* What TranscriptAssumption says of one transcript. *)
LEMMA StyleIs ==
  ASSUME NEW t \in Transcripts
  PROVE  /\ t.style \in {<<CR>>, <<LF>>, <<CR, LF>>} /\ Len(t.style) \in {1, 2}
         /\ t.style \in Seq(Tokens(t)) /\ t.script \in Seq(ToSet(t.script)) /\ Len(t.script) \in Nat
<1>1. t.style \in {<<CR>>, <<LF>>, <<CR, LF>>} /\ t.script \in Seq(ToSet(t.script))
  BY TranscriptAssumption
<1>2. Len(t.script) \in Nat
  BY <1>1, LenProperties
<1>3. Len(t.style) \in {1, 2}
  BY <1>1
<1>4. t.style \in Seq(ToSet(t.style))
  <2>1. CASE t.style = <<CR>>
    BY <2>1 DEF ToSet
  <2>2. CASE t.style = <<LF>>
    BY <2>2 DEF ToSet
  <2>3. CASE t.style = <<CR, LF>>
    BY <2>3 DEF ToSet
  <2> QED
    BY <1>1, <2>1, <2>2, <2>3
<1>5. ToSet(t.style) \subseteq Tokens(t)
  BY DEF Tokens
<1>6. t.style \in Seq(Tokens(t))
  BY <1>4, <1>5
<1> QED
  BY <1>1, <1>2, <1>3, <1>6

(* Every entry of a script stands on the wire behind those before it. *)
LEMMA WireShape ==
  ASSUME NEW t \in Transcripts
  PROVE  /\ Wire[t] \in Seq(Tokens(t)) /\ Len(Wire[t]) \in Nat
         /\ From(t, 0) = 0 /\ From(t, Len(t.script)) = Len(Wire[t])
         /\ \A n \in 1 .. Len(t.script) : EntryOnWire(t, n)
<1> PICK N, T, enc, e : /\ N = Len(t.script) /\ T = Tokens(t) /\ enc = Encodings(t)
                        /\ e = [n \in 1 .. N |-> EncodeEvent(t.script[n], t.style)]
  OBVIOUS
<1>0. N \in Nat /\ t.style \in Seq(T) /\ Len(t.style) \in Nat
  BY StyleIs
<1>1. \A n \in 1 .. N :
        /\ e[n] = EncodeEvent(t.script[n], t.style) /\ e[n] \in Seq(T)
        /\ Len(e[n]) = EntryLength(t.script[n], t.style)
        /\ EntryAt(e[n], 0, t.script[n], t.style)
  <2> TAKE n \in 1 .. N
  <2>1. t.script[n] \in ToSet(t.script)
    BY StyleIs, ElementOfSeq
  <2>2. Comment \in T /\ <<"event", t.script[n]>> \in T /\ <<"data", t.script[n]>> \in T
    BY <2>1 DEF Tokens
  <2>3. e[n] = EncodeEvent(t.script[n], t.style)
    OBVIOUS
  <2> QED
    BY <1>0, <2>2, <2>3, EntryShape
<1>2. enc = [n \in 0 .. N |-> IF n = 0 THEN <<>> ELSE enc[n - 1] \o EncodeEvent(t.script[n], t.style)]
  BY <1>0, EncodingsAre
<1>3. Joining(enc, e, N, T)
  <2>1. enc[0] = <<>>
    BY <1>0, <1>2
  <2>2. ASSUME NEW n \in 1 .. N PROVE enc[n] = enc[n - 1] \o e[n]
    <3>1. n \in 0 .. N /\ n # 0
      BY <1>0
    <3> QED
      BY <1>1, <1>2, <3>1
  <2> QED
    BY <1>1, <2>1, <2>2 DEF Joining
<1>4. Wire[t] = enc[N]
  BY DEF Wire, Encode
<1>5. enc[N] \in Seq(T) /\ Len(enc[N]) \in Nat
  <2>1. N \in 0 .. N
    BY <1>0
  <2>2. enc[N] \in Seq(T)
    BY <1>0, <1>3, <2>1, JoinedAre
  <2> QED
    BY <2>2, LenProperties
<1>6. From(t, 0) = 0 /\ From(t, N) = Len(Wire[t])
  <2>1. Len(enc[0]) = 0
    BY <1>3 DEF Joining
  <2> QED
    BY <1>4, <2>1 DEF From
<1>7. ASSUME NEW n \in 1 .. N PROVE EntryOnWire(t, n)
  <2>1. /\ Len(enc[n - 1]) \in Nat /\ Len(e[n]) \in Nat
        /\ Len(enc[n]) = Len(enc[n - 1]) + Len(e[n])
        /\ Len(enc[n]) <= Len(enc[N])
        /\ \A j \in 1 .. Len(e[n]) : enc[N][Len(enc[n - 1]) + j] = e[n][j]
    <3>1. Kept(enc, e, n, N)
      BY <1>0, <1>3, Joined
    <3> QED
      BY <3>1 DEF Kept
  <2>2. EntryAt(enc[N], Len(enc[n - 1]), t.script[n], t.style)
    <3> PICK base, ev, b, w, style :
          base = Len(enc[n - 1]) /\ ev = t.script[n] /\ b = e[n] /\ w = enc[N] /\ style = t.style
      OBVIOUS
    <3>1. Len(b) = EntryLength(ev, style) /\ EntryAt(b, 0, ev, style) /\ base \in Nat /\ Len(style) \in Nat
      BY <1>0, <1>1, <2>1
    <3>2. \A j \in 1 .. Len(b) : w[base + j] = b[j]
      BY <2>1
    <3>3. EntryAt(w, base, ev, style)
      BY ONLY <3>1, <3>2, EntryShifted
    <3> QED
      BY <3>3
  <2>3. Len(e[n]) = EntryLength(t.script[n], t.style)
    BY <1>1
  <2>4. From(t, n - 1) = Len(enc[n - 1]) /\ From(t, n) = Len(enc[n])
    BY DEF From
  <2>5. Len(enc[n]) \in Nat
    <3> PICK x, y, z : x = Len(enc[n - 1]) /\ y = Len(e[n]) /\ z = Len(enc[n])
      OBVIOUS
    <3>1. x \in Nat /\ y \in Nat /\ z = x + y
      BY <2>1
    <3>2. z \in Nat
      BY ONLY <3>1
    <3> QED
      BY <3>2
  <2> QED
    BY <1>4, <2>1, <2>2, <2>3, <2>4, <2>5 DEF EntryOnWire
<1> QED
  BY <1>4, <1>5, <1>6, <1>7

(* What has been read of a wire and not yet consumed. *)
LEMMA BufferIs ==
  ASSUME NEW T, NEW w \in Seq(T), NEW c \in Nat, NEW r \in Nat, c <= r, r <= Len(w),
         NEW b, b = SubSeq(w, c + 1, r)
  PROVE  b \in Seq(T) /\ Len(b) = r - c /\ \A i \in 1 .. r - c : b[i] = w[c + i]
<1>1. \A i \in c + 1 .. r : w[i] \in T
  <2> TAKE i \in c + 1 .. r
  <2>1. i \in 1 .. Len(w)
    OBVIOUS
  <2> QED
    BY <2>1, ElementOfSeq
<1>2. c + 1 \in Int /\ r \in Int
  OBVIOUS
<1>3. /\ b \in Seq(T) /\ Len(b) = IF c + 1 <= r THEN r - (c + 1) + 1 ELSE 0
      /\ \A i \in 1 .. r - (c + 1) + 1 : b[i] = w[(c + 1) + i - 1]
  BY <1>1, <1>2, SubSeqProperties
<1>4. Len(b) = r - c
  BY <1>3
<1>5. \A i \in 1 .. r - c : b[i] = w[c + i]
  <2> TAKE i \in 1 .. r - c
  <2>1. i \in 1 .. r - (c + 1) + 1 /\ (c + 1) + i - 1 = c + i
    OBVIOUS
  <2> QED
    BY <1>3, <2>1
<1> QED
  BY <1>3, <1>4, <1>5

(* The tokens that end a line are neither each other nor any other token. *)
LEMMA TokensDiffer ==
  /\ CR # LF /\ Comment # CR /\ Comment # LF
  /\ \A k, x : <<k, x>> # CR /\ <<k, x>> # LF /\ <<k, x>> # Comment
<1>1. CR # LF /\ Comment # CR /\ Comment # LF
  BY DEF CR, LF, Comment
<1>2. ASSUME NEW k, NEW x PROVE <<k, x>> # CR /\ <<k, x>> # LF /\ <<k, x>> # Comment
  <2>1. Len(<<k, x>>) = 2 /\ Len(CR) = 1 /\ Len(LF) = 1 /\ Len(Comment) = 1
    BY DEF CR, LF, Comment
  <2> QED
    BY <2>1
<1> QED
  BY <1>1, <1>2

(* The end of a line in a buffer that begins with the line. *)
BeginsWithLine(b, o, style, L) ==
    /\ o = 1 => b[1] \notin {CR, LF} \/ Len(b) = 0
    /\ L = Len(style) /\ \A j \in 1 .. L : o + j <= Len(b) => b[o + j] = style[j]
    /\ style = <<CR>> /\ o + 2 <= Len(b) => b[o + 2] # LF

EndsAfter(b, o, L) ==
    /\ o + L <= Len(b) /\ Min(Breaks(b)) = o + 1
    /\ L = IF b[o + 1] = CR /\ o + 1 < Len(b) /\ b[o + 2] = LF THEN 2 ELSE 1

(* Where a line ends, held back or not: its first break is its terminator's. *)
LEMMA LineEnds ==
  ASSUME NEW T, NEW b \in Seq(T), NEW o \in {0, 1},
         NEW style \in {<<CR>>, <<LF>>, <<CR, LF>>}, NEW L, BeginsWithLine(b, o, style, L),
         Breaks(b) # {}
  PROVE  EndsAfter(b, o, L)
<1> PICK n : n = Len(b)
  OBVIOUS
<1>0. n = Len(b) /\ n \in Nat /\ DOMAIN b = 1 .. n
  OBVIOUS
<1>b. /\ o = 1 => b[1] \notin {CR, LF} \/ Len(b) = 0
      /\ L = Len(style) /\ \A j \in 1 .. L : o + j <= Len(b) => b[o + j] = style[j]
      /\ style = <<CR>> /\ o + 2 <= Len(b) => b[o + 2] # LF
  BY DEF BeginsWithLine
<1>1. ASSUME NEW x \in Breaks(b) PROVE x \in o + 1 .. n /\ (b[x] = LF \/ (b[x] = CR /\ x < n))
  BY <1>0, <1>b DEF Breaks
<1>2. o + 1 <= n
  BY <1>0, <1>1
<1>3. L \in {1, 2} /\ b[o + 1] = style[1]
  <2>1. L \in {1, 2}
    BY <1>b
  <2>2. 1 \in 1 .. L /\ o + 1 <= Len(b)
    BY <1>0, <1>2, <2>1
  <2> QED
    BY <1>b, <2>1, <2>2
<1>4. o + 1 \in Breaks(b) /\ o + L <= n
      /\ L = IF b[o + 1] = CR /\ o + 1 < n /\ b[o + 2] = LF THEN 2 ELSE 1
  <2>0. o + 1 = n => LF = b[o + 1]
    BY <1>0, <1>1
  <2>1. CASE style = <<LF>>
    <3>1. L = 1 /\ b[o + 1] = LF
      BY <1>b, <1>3, <2>1
    <3> QED
      BY <1>0, <1>2, <3>1, TokensDiffer DEF Breaks
  <2>2. CASE style = <<CR>>
    <3>1. L = 1 /\ b[o + 1] = CR
      BY <1>b, <1>3, <2>2
    <3>2. o + 1 < n
      BY <1>0, <1>2, <2>0, <3>1, TokensDiffer
    <3>3. b[o + 2] # LF
      BY <1>0, <1>b, <2>2, <3>2
    <3> QED
      BY <1>0, <3>1, <3>2, <3>3 DEF Breaks
  <2>3. CASE style = <<CR, LF>>
    <3>1. L = 2 /\ b[o + 1] = CR /\ style[2] = LF
      BY <1>b, <1>3, <2>3
    <3>2. o + 1 < n
      BY <1>0, <1>2, <2>0, <3>1, TokensDiffer
    <3>3. b[o + 2] = LF
      BY <1>0, <1>b, <3>1, <3>2
    <3> QED
      BY <1>0, <3>1, <3>2, <3>3 DEF Breaks
  <2> QED
    BY <2>1, <2>2, <2>3
<1>5. Min(Breaks(b)) = o + 1
  <2>1. \A x \in Breaks(b) : o + 1 <= x /\ x \in Nat
    BY <1>0, <1>1
  <2>2. \A y \in Breaks(b) : (\A x \in Breaks(b) : y <= x) => y = o + 1
    BY <1>4, <2>1
  <2> QED
    BY <1>4, <2>1, <2>2 DEF Min
<1> QED
  BY <1>0, <1>4, <1>5 DEF EndsAfter

(* A turn of the loop: nothing, if the line and its end are not there yet,  *)
(* or the line.                                                             *)
Cuttable(T, w, c, r, line, style, p, d) ==
    /\ w \in Seq(T) /\ c \in Nat /\ r \in Nat /\ c <= r /\ r <= Len(w)
    /\ line = <<>> \/ \E x : line = <<x>> /\ x \notin {CR, LF}
    /\ style \in {<<CR>>, <<LF>>, <<CR, LF>>}
    /\ LineAt(w, c, line, style)
    /\ style = <<CR>> => \A i \in 1 .. Len(w) : w[i] # LF
    /\ p.buffer = SubSeq(w, c + 1, r)
    /\ d = c + Len(line) + Len(style)

(* NextLine cuts exactly one line off such a buffer, or waits. *)
LEMMA Cutting ==
  ASSUME NEW T, NEW w, NEW c, NEW r, NEW line, NEW style, NEW p, NEW d,
         Cuttable(T, w, c, r, line, style, p, d)
  PROVE  \/ NextLine(p) = p
         \/ d <= r /\ NextLine(p) = Consumed([p EXCEPT !.buffer = SubSeq(w, d + 1, r)], line)
<1> SUFFICES ASSUME w \in Seq(T), c \in Nat, r \in Nat, c <= r, r <= Len(w),
                    line = <<>> \/ \E x : line = <<x>> /\ x \notin {CR, LF},
                    style \in {<<CR>>, <<LF>>, <<CR, LF>>},
                    LineAt(w, c, line, style),
                    style = <<CR>> => \A i \in 1 .. Len(w) : w[i] # LF,
                    p.buffer = SubSeq(w, c + 1, r),
                    d = c + Len(line) + Len(style)
             PROVE  \/ NextLine(p) = p
                    \/ d <= r /\ NextLine(p) = Consumed([p EXCEPT !.buffer = SubSeq(w, d + 1, r)], line)
  BY DEF Cuttable
<1> PICK b, o, L : b = p.buffer /\ o = Len(line) /\ L = Len(style)
  OBVIOUS
<1>0. o \in {0, 1} /\ L \in {1, 2} /\ d = c + o + L
  OBVIOUS
<1>1. b \in Seq(T) /\ Len(b) = r - c /\ \A i \in 1 .. r - c : b[i] = w[c + i]
  BY BufferIs
<1>2. CASE Breaks(b) = {}
  BY <1>2 DEF NextLine
<1>3. CASE Breaks(b) # {}
  <2>1. o = 1 => b[1] \notin {CR, LF} \/ Len(b) = 0
    <3> SUFFICES ASSUME o = 1, Len(b) # 0 PROVE b[1] \notin {CR, LF}
      OBVIOUS
    <3>0. PICK x : line = <<x>> /\ x \notin {CR, LF}
      <4>1. line # <<>>
        <5>1. Len(<<>>) = 0
          OBVIOUS
        <5>2. Len(line) = 1
          OBVIOUS
        <5>3. 0 # 1
          OBVIOUS
        <5> QED
          BY ONLY <5>1, <5>2, <5>3, Zenon
      <4> QED
        BY <4>1
    <3>1. w[c + 1] = line[1] /\ line[1] \notin {CR, LF}
      BY <3>0 DEF LineAt
    <3>2. b[1] = w[c + 1]
      BY <1>1
    <3> QED
      BY <3>1, <3>2
  <2>2. \A j \in 1 .. L : o + j <= Len(b) => b[o + j] = style[j]
    <3> TAKE j \in 1 .. L
    <3> HAVE o + j <= Len(b)
    <3>1. w[c + o + j] = style[j]
      BY DEF LineAt
    <3>2. o + j \in 1 .. r - c /\ c + (o + j) = c + o + j
      BY <1>0, <1>1
    <3> QED
      BY <1>1, <3>1, <3>2
  <2>3. style = <<CR>> /\ o + 2 <= Len(b) => b[o + 2] # LF
    <3> HAVE style = <<CR>> /\ o + 2 <= Len(b)
    <3>1. o + 2 \in 1 .. r - c /\ c + (o + 2) \in 1 .. Len(w)
      BY <1>0, <1>1
    <3> QED
      BY <1>1, <3>1
  <2>4. /\ o + L <= Len(b) /\ Min(Breaks(b)) = o + 1
        /\ L = IF b[o + 1] = CR /\ o + 1 < Len(b) /\ b[o + 2] = LF THEN 2 ELSE 1
    <3>1. BeginsWithLine(b, o, style, L)
      BY <2>1, <2>2, <2>3 DEF BeginsWithLine
    <3>2. EndsAfter(b, o, L)
      BY <1>0, <1>1, <1>3, <3>1, LineEnds
    <3> QED
      BY <3>2 DEF EndsAfter
  <2>5. NextLine(p) = Consumed([p EXCEPT !.buffer = SubSeq(b, o + 1 + L, Len(b))], SubSeq(b, 1, o))
    <3>1. (o + 1) + 1 = o + 2 /\ (o + 1) - 1 = o /\ (o + 1) + 2 = o + 1 + 2
      BY <1>0
    <3> PICK cut : cut = Min(Breaks(b))
      OBVIOUS
    <3>2. cut = o + 1
      BY <2>4
    <3>3. (IF b[cut] = CR /\ cut < Len(b) /\ b[cut + 1] = LF THEN cut + 2 ELSE cut + 1) = o + 1 + L
      BY <1>0, <2>4, <3>1, <3>2
    <3>4. NextLine(p) = Consumed([p EXCEPT !.buffer = SubSeq(b,
             IF b[cut] = CR /\ cut < Len(b) /\ b[cut + 1] = LF THEN cut + 2 ELSE cut + 1, Len(b))],
             SubSeq(b, 1, cut - 1))
      BY <1>3 DEF NextLine
    <3> QED
      BY <3>1, <3>2, <3>3, <3>4
  <2>6. d <= r
    BY <1>0, <1>1, <2>4
  <2>7. SubSeq(b, o + 1 + L, Len(b)) = SubSeq(w, d + 1, r)
    <3> PICK n, k, x, y : /\ n = Len(b) /\ k = o + L
                          /\ x = SubSeq(b, k + 1, n) /\ y = SubSeq(w, d + 1, r)
      OBVIOUS
    <3>0. n = r - c
      BY <1>1
    <3>k. k <= n
      BY <2>4
    <3>1. k \in Nat /\ n \in Nat /\ n <= Len(b) /\ d \in Nat /\ d = c + k
      <4>1. k = o + L /\ c \in Nat /\ r \in Nat /\ c <= r /\ n = Len(b)
        OBVIOUS
      <4> QED
        BY ONLY <1>0, <3>0, <4>1
    <3>2. x \in Seq(T) /\ Len(x) = n - k /\ \A i \in 1 .. n - k : x[i] = b[k + i]
      <4>1. b \in Seq(T) /\ x = SubSeq(b, k + 1, n)
        BY <1>1
      <4> QED
        BY ONLY <3>k, <3>1, <4>1, BufferIs
    <3>3. y \in Seq(T) /\ Len(y) = r - d /\ \A i \in 1 .. r - d : y[i] = w[d + i]
      <4>1. w \in Seq(T) /\ y = SubSeq(w, d + 1, r) /\ r \in Nat /\ r <= Len(w)
        OBVIOUS
      <4> QED
        BY ONLY <2>6, <3>1, <4>1, BufferIs
    <3>4. Len(x) = Len(y)
      <4>1. c \in Nat /\ r \in Nat
        OBVIOUS
      <4>2. n - k = r - d
        BY ONLY <3>0, <3>1, <4>1
      <4> QED
        BY ONLY <3>2, <3>3, <4>2
    <3>5. \A i \in 1 .. Len(x) : x[i] = y[i]
      <4> TAKE i \in 1 .. Len(x)
      <4>1. k + i \in 1 .. r - c /\ c + (k + i) = d + i /\ i \in 1 .. r - d /\ i \in 1 .. n - k
        <5>1. c \in Nat /\ r \in Nat
          OBVIOUS
        <5> PICK v : v = Len(x)
          OBVIOUS
        <5>2. i \in 1 .. v /\ v = n - k
          BY <3>2
        <5>3. k + i \in 1 .. r - c /\ c + (k + i) = d + i /\ i \in 1 .. r - d /\ i \in 1 .. n - k
          BY ONLY <2>6, <3>0, <3>1, <3>k, <5>1, <5>2
        <5> QED
          BY <5>3
      <4> QED
        BY <1>1, <3>2, <3>3, <4>1
    <3>6. x = y
      BY ONLY <3>2, <3>3, <3>4, <3>5, SeqEqual
    <3>7. o + 1 + L = k + 1
      BY <1>0
    <3> QED
      BY <3>6, <3>7
  <2>8. SubSeq(b, 1, o) = line
    <3>1. CASE line = <<>>
      <4>1. o = 0 /\ 1 \in Int /\ 0 \in Int /\ 0 < 1
        BY <3>1
      <4> QED
        BY <3>1, <4>1, SubSeqEmpty
    <3>2. CASE line # <<>>
      <4>1. PICK x : line = <<x>>
        BY <3>2
      <4>2. o = 1
        BY <4>1
      <4> PICK z : z = SubSeq(b, 0 + 1, 1)
        OBVIOUS
      <4>3. z \in Seq(T) /\ Len(z) = 1 - 0 /\ \A i \in 1 .. 1 - 0 : z[i] = b[0 + i]
        <5>1. 0 \in Nat /\ 1 \in Nat /\ 0 <= 1 /\ 1 <= Len(b)
          BY <1>0, <1>1, <2>4, <4>2
        <5> QED
          BY <1>1, <5>1, BufferIs
      <4>4. z[1] = b[1] /\ Len(z) = 1
        <5>1. 1 \in 1 .. 1 - 0 /\ 0 + 1 = 1 /\ 1 - 0 = 1
          OBVIOUS
        <5> QED
          BY ONLY <4>3, <5>1
      <4>5. b[1] = w[c + 1]
        BY <1>0, <1>1, <2>4, <4>2
      <4>6. w[c + 1] = x
        BY <4>1, <4>2 DEF LineAt
      <4>7. z = <<x>>
        <5>1. z[1] = x
          BY <4>4, <4>5, <4>6
        <5>2. z \in Seq(T) /\ Len(z) = 1
          BY <4>3, <4>4
        <5> QED
          BY ONLY <5>1, <5>2
      <4>8. 0 + 1 = 1
        OBVIOUS
      <4> QED
        BY <4>1, <4>2, <4>7, <4>8
    <3> QED
      BY <3>1, <3>2
  <2> QED
    BY <2>5, <2>6, <2>7, <2>8
<1> QED
  BY <1>2, <1>3

(* The q-th line of an entry: its text, where it begins, and what the parser *)
(* holds when it stands there.                                               *)
LineOf(ev, q) ==
    IF q = 1 THEN IF ev = "keepalive" THEN <<Comment>> ELSE <<<<"event", ev>>>>
    ELSE IF q = 2 /\ ev # "keepalive" THEN <<<<"data", ev>>>>
    ELSE <<>>

Offset(L, q) == IF q = 1 THEN 0 ELSE IF q = 2 THEN 1 + L ELSE 2 + 2 * L
Place(t, k, q) == From(t, k) + Offset(Len(t.style), q)

Holding(buffer, name, data, sawField, frames) ==
    [buffer |-> buffer, name |-> name, data |-> data, sawField |-> sawField, frames |-> frames]

Unread(t, d, r) == SubSeq(Wire[t], d + 1, r)

Yes == TRUE
No == FALSE
Nameless == ""

ParserAt(t, r, k, q, frames) ==
    IF q = 1 \/ t.script[k + 1] = "keepalive"
    THEN Holding(Unread(t, Place(t, k, q), r), Nameless, <<>>, No, frames)
    ELSE Holding(Unread(t, Place(t, k, q), r), t.script[k + 1],
                 IF q = 3 THEN <<t.script[k + 1]>> ELSE <<>>, Yes, frames)

(* The parser has consumed k entries and q - 1 lines of the next one, out of *)
(* the first r tokens of the wire.                                           *)
Parsing(t, p, r, k, q, frames) ==
    /\ k \in 0 .. Len(t.script) /\ q \in {1, 2, 3}
    /\ k = Len(t.script) => q = 1
    /\ k < Len(t.script) /\ t.script[k + 1] = "keepalive" => q # 3
    /\ r \in Nat /\ r <= Len(Wire[t]) /\ Place(t, k, q) <= r
    /\ p = ParserAt(t, r, k, q, frames)

Consumes(t, k, frames, k2, frames2) ==
    \/ k2 = k /\ frames2 = frames
    \/ /\ k < Len(t.script) /\ k2 = k + 1
       /\ frames2 = IF t.script[k + 1] = "keepalive" THEN frames
                    ELSE Append(frames, <<t.script[k + 1], <<t.script[k + 1]>>>>)

(* A wire whose lines end in CR alone has no LF. *)
LEMMA NoStrayLF ==
  ASSUME NEW t \in Transcripts, t.style = <<CR>>
  PROVE  \A i \in 1 .. Len(Wire[t]) : Wire[t][i] # LF
<1> TAKE i \in 1 .. Len(Wire[t])
<1>1. Wire[t][i] \in Tokens(t)
  BY WireShape, ElementOfSeq
<1>2. ToSet(t.style) = {CR}
  BY DEF ToSet
<1>3. LF \notin Tokens(t)
  BY <1>2, TokensDiffer DEF Tokens
<1> QED
  BY <1>1, <1>3

(* Every line of an entry stands on the wire where it should. *)
LEMMA LineOnWire ==
  ASSUME NEW t \in Transcripts, NEW k \in Nat, k < Len(t.script), NEW q \in {1, 2, 3},
         t.script[k + 1] = "keepalive" => q # 3
  PROVE  /\ LineAt(Wire[t], Place(t, k, q), LineOf(t.script[k + 1], q), t.style)
         /\ From(t, k) \in Nat /\ Place(t, k, q) \in Nat
         /\ Place(t, k, q) + Len(LineOf(t.script[k + 1], q)) + Len(t.style)
              = IF (t.script[k + 1] = "keepalive" /\ q = 2) \/ q = 3 THEN Place(t, k + 1, 1)
                ELSE Place(t, k, q + 1)
<1> PICK L, ev, w, c, d : /\ L = Len(t.style) /\ ev = t.script[k + 1] /\ w = Wire[t]
                          /\ c = From(t, k) /\ d = From(t, k + 1)
  OBVIOUS
<1>0. L \in Nat
  BY StyleIs
<1>1. EntryOnWire(t, k + 1)
  <2>1. k + 1 \in 1 .. Len(t.script)
    BY StyleIs
  <2> QED
    BY <2>1, WireShape
<1>2. (k + 1) - 1 = k
  OBVIOUS
<1>3. c \in Nat /\ d \in Nat /\ d = c + EntryLength(ev, t.style) /\ EntryAt(w, c, ev, t.style)
  BY <1>1, <1>2 DEF EntryOnWire
<1>4. Place(t, k, q) = c + Offset(L, q) /\ Place(t, k + 1, 1) = d /\ Place(t, k, q + 1) = c + Offset(L, q + 1)
  BY <1>0, <1>3 DEF Place, Offset
<1>n. c \in Nat /\ d \in Nat
  BY <1>3
<1>5. Len(<<>>) = 0 /\ \A x : Len(<<x>>) = 1
  OBVIOUS
<1>6. CASE ev = "keepalive"
  <2>1. /\ LineAt(w, c, <<Comment>>, t.style) /\ LineAt(w, c + 1 + L, <<>>, t.style)
        /\ d = c + (1 + 2 * L)
    BY <1>3, <1>6 DEF EntryAt, EntryLength
  <2>d. d = c + (1 + 2 * L)
    BY <2>1
  <2>2. CASE q = 1
    <3>1. LineOf(ev, q) = <<Comment>> /\ Offset(L, q) = 0 /\ Offset(L, q + 1) = 1 + L
      BY <1>6, <2>2 DEF LineOf, Offset
    <3>2. Len(LineOf(ev, q)) = 1 /\ c + 0 = c
      BY <1>3, <1>5, <3>1
    <3>3. LineAt(w, Place(t, k, q), LineOf(ev, q), t.style)
      BY <1>4, <2>1, <3>1, <3>2
    <3>4. Place(t, k, q) + Len(LineOf(ev, q)) + L = Place(t, k, q + 1) /\ Place(t, k, q) \in Nat
      BY ONLY <1>0, <1>n, <1>4, <3>1, <3>2
    <3> QED
      BY <1>3, <1>6, <2>2, <3>3, <3>4
  <2>3. CASE q = 2
    <3>1. LineOf(ev, q) = <<>> /\ Offset(L, q) = 1 + L
      BY <1>6, <2>3 DEF LineOf, Offset
    <3>2. Len(LineOf(ev, q)) = 0 /\ c + (1 + L) = c + 1 + L
      BY ONLY <1>0, <1>n, <1>5, <3>1
    <3>3. LineAt(w, Place(t, k, q), LineOf(ev, q), t.style)
      BY <1>4, <2>1, <3>1, <3>2
    <3>4. Place(t, k, q) + Len(LineOf(ev, q)) + L = Place(t, k + 1, 1) /\ Place(t, k, q) \in Nat
      BY ONLY <1>0, <1>n, <1>4, <2>d, <3>1, <3>2
    <3> QED
      BY <1>3, <1>6, <2>3, <3>3, <3>4
  <2> QED
    BY <1>6, <2>2, <2>3
<1>7. CASE ev # "keepalive"
  <2> PICK x, y : x = <<"event", ev>> /\ y = <<"data", ev>>
    OBVIOUS
  <2>1. /\ LineAt(w, c, <<x>>, t.style) /\ LineAt(w, c + 1 + L, <<y>>, t.style)
        /\ LineAt(w, c + 2 + 2 * L, <<>>, t.style)
        /\ d = c + (2 + 3 * L)
    BY <1>3, <1>7 DEF EntryAt, EntryLength
  <2>d. d = c + (2 + 3 * L)
    BY <2>1
  <2>2. CASE q = 1
    <3>1. LineOf(ev, q) = <<x>> /\ Offset(L, q) = 0 /\ Offset(L, q + 1) = 1 + L
      BY <1>7, <2>2 DEF LineOf, Offset
    <3>2. Len(LineOf(ev, q)) = 1 /\ c + 0 = c
      BY <1>3, <1>5, <3>1
    <3>3. LineAt(w, Place(t, k, q), LineOf(ev, q), t.style)
      BY <1>4, <2>1, <3>1, <3>2
    <3>4. Place(t, k, q) + Len(LineOf(ev, q)) + L = Place(t, k, q + 1) /\ Place(t, k, q) \in Nat
      BY ONLY <1>0, <1>n, <1>4, <3>1, <3>2
    <3> QED
      BY <1>3, <1>7, <2>2, <3>3, <3>4
  <2>3. CASE q = 2
    <3>1. LineOf(ev, q) = <<y>> /\ Offset(L, q) = 1 + L /\ Offset(L, q + 1) = 2 + 2 * L
      BY <1>7, <2>3 DEF LineOf, Offset
    <3>2. Len(LineOf(ev, q)) = 1 /\ c + (1 + L) = c + 1 + L
      BY ONLY <1>0, <1>n, <1>5, <3>1
    <3>3. LineAt(w, Place(t, k, q), LineOf(ev, q), t.style)
      BY <1>4, <2>1, <3>1, <3>2
    <3>4. Place(t, k, q) + Len(LineOf(ev, q)) + L = Place(t, k, q + 1) /\ Place(t, k, q) \in Nat
      BY ONLY <1>0, <1>n, <1>4, <3>1, <3>2
    <3> QED
      BY <1>3, <1>7, <2>3, <3>3, <3>4
  <2>4. CASE q = 3
    <3>1. LineOf(ev, q) = <<>> /\ Offset(L, q) = 2 + 2 * L
      BY <1>7, <2>4 DEF LineOf, Offset
    <3>2. Len(LineOf(ev, q)) = 0 /\ c + (2 + 2 * L) = c + 2 + 2 * L
      BY ONLY <1>0, <1>n, <1>5, <3>1
    <3>3. LineAt(w, Place(t, k, q), LineOf(ev, q), t.style)
      BY <1>4, <2>1, <3>1, <3>2
    <3>4. Place(t, k, q) + Len(LineOf(ev, q)) + L = Place(t, k + 1, 1) /\ Place(t, k, q) \in Nat
      BY ONLY <1>0, <1>n, <1>4, <2>d, <3>1, <3>2
    <3> QED
      BY <1>3, <1>7, <2>4, <3>3, <3>4
  <2> QED
    BY <2>2, <2>3, <2>4
<1> QED
  BY <1>6, <1>7

(* The parser's fields, one at a time. *)
LEMMA BufferSet ==
  ASSUME NEW b, NEW n, NEW d, NEW s, NEW f, NEW v
  PROVE  [Holding(b, n, d, s, f) EXCEPT !.buffer = v] = Holding(v, n, d, s, f)
BY DEF Holding

(* The name. *)
LEMMA NameSet ==
  ASSUME NEW b, NEW n, NEW d, NEW s, NEW f, NEW v
  PROVE  [Holding(b, n, d, s, f) EXCEPT !.name = v] = Holding(b, v, d, s, f)
BY DEF Holding

(* The data. *)
LEMMA DataSet ==
  ASSUME NEW b, NEW n, NEW d, NEW s, NEW f, NEW v
  PROVE  [Holding(b, n, d, s, f) EXCEPT !.data = v] = Holding(b, n, v, s, f)
BY DEF Holding

(* Whether a field was seen. *)
LEMMA SawSet ==
  ASSUME NEW b, NEW n, NEW d, NEW s, NEW f, NEW v
  PROVE  [Holding(b, n, d, s, f) EXCEPT !.sawField = v] = Holding(b, n, d, v, f)
BY DEF Holding

(* The frames. *)
LEMMA FramesSet ==
  ASSUME NEW b, NEW n, NEW d, NEW s, NEW f, NEW v
  PROVE  [Holding(b, n, d, s, f) EXCEPT !.frames = v] = Holding(b, n, d, s, v)
BY DEF Holding

(* And read back. *)
LEMMA FieldGet ==
  ASSUME NEW b, NEW n, NEW d, NEW s, NEW f, NEW p, p = Holding(b, n, d, s, f)
  PROVE  p.buffer = b /\ p.name = n /\ p.data = d /\ p.sawField = s /\ p.frames = f
BY DEF Holding

(* What a line does to the parser. *)
LEMMA CommentConsumed ==
  ASSUME NEW p PROVE Consumed(p, <<Comment>>) = p
<1>1. <<Comment>> # <<>> /\ Head(<<Comment>>) = Comment
  OBVIOUS
<1>2. Comment[1] # "event" /\ Comment[1] # "data"
  BY DEF Comment
<1> QED
  BY ONLY <1>1, <1>2 DEF Consumed

(* An event line is a name and a field. *)
LEMMA EventConsumed ==
  ASSUME NEW b, NEW n, NEW d, NEW s, NEW f, NEW ev
  PROVE  Consumed(Holding(b, n, d, s, f), <<<<"event", ev>>>>) = Holding(b, ev, d, Yes, f)
<1> PICK p, x : p = Holding(b, n, d, s, f) /\ x = <<"event", ev>>
  OBVIOUS
<1>1. <<x>> # <<>> /\ Head(<<x>>) = x
  OBVIOUS
<1>2. x # Comment /\ x[1] = "event" /\ x[2] = ev
  BY TokensDiffer
<1>3. Consumed(p, <<x>>) = [p EXCEPT !.name = ev, !.sawField = Yes]
  BY ONLY <1>1, <1>2 DEF Consumed, Yes
<1>4. [p EXCEPT !.name = ev] = Holding(b, ev, d, s, f)
  BY NameSet
<1>6. [Holding(b, ev, d, s, f) EXCEPT !.sawField = Yes] = Holding(b, ev, d, Yes, f)
  BY SawSet
<1> QED
  BY <1>3, <1>4, <1>6

(* A data line is the first datum and a field. *)
LEMMA DataConsumed ==
  ASSUME NEW b, NEW n, NEW s, NEW f, NEW ev
  PROVE  Consumed(Holding(b, n, <<>>, s, f), <<<<"data", ev>>>>) = Holding(b, n, <<ev>>, Yes, f)
<1> PICK p, x : p = Holding(b, n, <<>>, s, f) /\ x = <<"data", ev>>
  OBVIOUS
<1>1. <<x>> # <<>> /\ Head(<<x>>) = x
  OBVIOUS
<1>2. x # Comment /\ x[1] = "data" /\ x[1] # "event" /\ x[2] = ev
  BY TokensDiffer
<1>3. Consumed(p, <<x>>) = [p EXCEPT !.data = Append(@, ev), !.sawField = Yes]
  BY ONLY <1>1, <1>2 DEF Consumed, Yes
<1> PICK e : e = Append(p.data, ev)
  OBVIOUS
<1>4. e = <<ev>>
  <2>1. p.data = <<>>
    BY FieldGet
  <2>2. Append(<<>>, ev) = <<ev>>
    OBVIOUS
  <2> QED
    BY <2>1, <2>2
<1>p. p = Holding(b, n, <<>>, s, f)
  OBVIOUS
<1>5. [p EXCEPT !.data = e] = Holding(b, n, e, s, f)
  BY ONLY <1>p, DataSet
<1>7. [Holding(b, n, e, s, f) EXCEPT !.sawField = Yes] = Holding(b, n, e, Yes, f)
  BY SawSet
<1>8. Consumed(p, <<x>>) = Holding(b, n, e, Yes, f)
  BY <1>3, <1>5, <1>7
<1> QED
  BY <1>4, <1>8

(* A blank line that closes no field dispatches nothing. *)
LEMMA EndConsumed ==
  ASSUME NEW b, NEW n, NEW d, NEW f
  PROVE  Consumed(Holding(b, n, d, No, f), <<>>) = Holding(b, n, d, No, f)
<1> PICK z : z = Holding(b, n, d, No, f)
  OBVIOUS
<1>1. ~z.sawField
  BY DEF Holding, No
<1> QED
  BY <1>1 DEF Consumed, Dispatched

(* A blank line that closes a field dispatches a frame and clears the rest. *)
LEMMA BlankConsumed ==
  ASSUME NEW b, NEW n, NEW d, NEW f
  PROVE  Consumed(Holding(b, n, d, Yes, f), <<>>) = Holding(b, Nameless, <<>>, No, Append(f, <<n, d>>))
<1>2. Consumed(Holding(b, n, d, Yes, f), <<>>) = Holding(b, Nameless, <<>>, No, Append(f, <<n, d>>))
  <2> PICK z : z = Holding(b, n, d, Yes, f)
    OBVIOUS
  <2>1. z.sawField
    BY DEF Holding, Yes
  <2>2. z.buffer = b /\ z.name = n /\ z.data = d /\ z.frames = f
    BY FieldGet
  <2> PICK f2 : f2 = Append(f, <<n, d>>)
    OBVIOUS
  <2>3. Consumed(z, <<>>) = [FreshParser EXCEPT !.buffer = b, !.frames = f2]
    BY <2>1, <2>2 DEF Consumed, Dispatched
  <2>4. FreshParser = Holding(<<>>, Nameless, <<>>, No, <<>>)
    BY DEF FreshParser, Holding, No, Nameless
  <2>5. [FreshParser EXCEPT !.buffer = b] = Holding(b, Nameless, <<>>, No, <<>>)
    BY ONLY <2>4, BufferSet
  <2>6. [Holding(b, Nameless, <<>>, No, <<>>) EXCEPT !.frames = f2] = Holding(b, Nameless, <<>>, No, f2)
    BY ONLY FramesSet
  <2> QED
    BY <2>3, <2>5, <2>6
<1> QED
  BY <1>2

(* The parser at the beginning of each line. *)
LEMMA FirstPlace ==
  ASSUME NEW t, NEW r, NEW k, NEW frames
  PROVE  ParserAt(t, r, k, 1, frames) = Holding(Unread(t, Place(t, k, 1), r), Nameless, <<>>, No, frames)
BY DEF ParserAt

(* In a keepalive. *)
LEMMA CommentPlace ==
  ASSUME NEW t, NEW r, NEW k, NEW q, NEW frames, t.script[k + 1] = "keepalive"
  PROVE  ParserAt(t, r, k, q, frames) = Holding(Unread(t, Place(t, k, q), r), Nameless, <<>>, No, frames)
BY DEF ParserAt

(* Behind an event line. *)
LEMMA DataPlace ==
  ASSUME NEW t, NEW r, NEW k, NEW frames, NEW ev, ev = t.script[k + 1], ev # "keepalive"
  PROVE  ParserAt(t, r, k, 2, frames) = Holding(Unread(t, Place(t, k, 2), r), ev, <<>>, Yes, frames)
BY DEF ParserAt

(* Behind a data line. *)
LEMMA BlankPlace ==
  ASSUME NEW t, NEW r, NEW k, NEW frames, NEW ev, ev = t.script[k + 1], ev # "keepalive"
  PROVE  ParserAt(t, r, k, 3, frames) = Holding(Unread(t, Place(t, k, 3), r), ev, <<ev>>, Yes, frames)
BY DEF ParserAt

(* A line does to the parser what its place says: four kinds of lines. *)
At(t, r, k, q, frames, d) == [ParserAt(t, r, k, q, frames) EXCEPT !.buffer = Unread(t, d, r)]

(* A comment. *)
LEMMA CommentTurn ==
  ASSUME NEW t, NEW r, NEW k, NEW frames, NEW d, t.script[k + 1] = "keepalive", d = Place(t, k, 2)
  PROVE  Consumed(At(t, r, k, 1, frames, d), <<Comment>>) = ParserAt(t, r, k, 2, frames)
<1> PICK a, b : a = Unread(t, Place(t, k, 1), r) /\ b = Unread(t, d, r)
  OBVIOUS
<1>1. ParserAt(t, r, k, 1, frames) = Holding(a, Nameless, <<>>, No, frames)
  BY FirstPlace
<1>2. [Holding(a, Nameless, <<>>, No, frames) EXCEPT !.buffer = b] = Holding(b, Nameless, <<>>, No, frames)
  BY ONLY BufferSet
<1>3. ParserAt(t, r, k, 2, frames) = Holding(b, Nameless, <<>>, No, frames)
  BY CommentPlace
<1> QED
  BY <1>1, <1>2, <1>3, CommentConsumed DEF At

(* The blank line behind it. *)
LEMMA CommentEndTurn ==
  ASSUME NEW t, NEW r, NEW k, NEW frames, NEW d, t.script[k + 1] = "keepalive", d = Place(t, k + 1, 1)
  PROVE  Consumed(At(t, r, k, 2, frames, d), <<>>) = ParserAt(t, r, k + 1, 1, frames)
<1> PICK a, b : a = Unread(t, Place(t, k, 2), r) /\ b = Unread(t, d, r)
  OBVIOUS
<1>1. ParserAt(t, r, k, 2, frames) = Holding(a, Nameless, <<>>, No, frames)
  BY CommentPlace
<1>2. [Holding(a, Nameless, <<>>, No, frames) EXCEPT !.buffer = b] = Holding(b, Nameless, <<>>, No, frames)
  BY ONLY BufferSet
<1>3. ParserAt(t, r, k + 1, 1, frames) = Holding(b, Nameless, <<>>, No, frames)
  BY FirstPlace
<1>4. Consumed(Holding(b, Nameless, <<>>, No, frames), <<>>) = Holding(b, Nameless, <<>>, No, frames)
  BY ONLY EndConsumed
<1> QED
  BY <1>1, <1>2, <1>3, <1>4 DEF At

(* An event. *)
LEMMA EventTurn ==
  ASSUME NEW t, NEW r, NEW k, NEW frames, NEW d, NEW ev, ev = t.script[k + 1], ev # "keepalive",
         d = Place(t, k, 2)
  PROVE  Consumed(At(t, r, k, 1, frames, d), <<<<"event", ev>>>>) = ParserAt(t, r, k, 2, frames)
<1> PICK a, b : a = Unread(t, Place(t, k, 1), r) /\ b = Unread(t, d, r)
  OBVIOUS
<1>1. ParserAt(t, r, k, 1, frames) = Holding(a, Nameless, <<>>, No, frames)
  BY FirstPlace
<1>2. [Holding(a, Nameless, <<>>, No, frames) EXCEPT !.buffer = b] = Holding(b, Nameless, <<>>, No, frames)
  BY ONLY BufferSet
<1>3. ParserAt(t, r, k, 2, frames) = Holding(b, ev, <<>>, Yes, frames)
  BY DataPlace
<1>4. Consumed(Holding(b, Nameless, <<>>, No, frames), <<<<"event", ev>>>>)
        = Holding(b, ev, <<>>, Yes, frames)
  BY ONLY EventConsumed
<1> QED
  BY <1>1, <1>2, <1>3, <1>4 DEF At

(* Its data. *)
LEMMA DataTurn ==
  ASSUME NEW t, NEW r, NEW k, NEW frames, NEW d, NEW ev, ev = t.script[k + 1], ev # "keepalive",
         d = Place(t, k, 3)
  PROVE  Consumed(At(t, r, k, 2, frames, d), <<<<"data", ev>>>>) = ParserAt(t, r, k, 3, frames)
<1> PICK a, b : a = Unread(t, Place(t, k, 2), r) /\ b = Unread(t, d, r)
  OBVIOUS
<1>1. ParserAt(t, r, k, 2, frames) = Holding(a, ev, <<>>, Yes, frames)
  BY DataPlace
<1>2. [Holding(a, ev, <<>>, Yes, frames) EXCEPT !.buffer = b] = Holding(b, ev, <<>>, Yes, frames)
  BY ONLY BufferSet
<1>3. ParserAt(t, r, k, 3, frames) = Holding(b, ev, <<ev>>, Yes, frames)
  BY BlankPlace
<1>4. Consumed(Holding(b, ev, <<>>, Yes, frames), <<<<"data", ev>>>>) = Holding(b, ev, <<ev>>, Yes, frames)
  BY ONLY DataConsumed
<1> QED
  BY <1>1, <1>2, <1>3, <1>4 DEF At

(* The blank line that ends it. *)
LEMMA BlankTurn ==
  ASSUME NEW t, NEW r, NEW k, NEW frames, NEW d, NEW ev, ev = t.script[k + 1], ev # "keepalive",
         d = Place(t, k + 1, 1)
  PROVE  Consumed(At(t, r, k, 3, frames, d), <<>>) = ParserAt(t, r, k + 1, 1, Append(frames, <<ev, <<ev>>>>))
<1> PICK a, b, e, f2 : /\ a = Unread(t, Place(t, k, 3), r) /\ b = Unread(t, d, r) /\ e = <<ev>>
                       /\ f2 = Append(frames, <<ev, e>>)
  OBVIOUS
<1>1. ParserAt(t, r, k, 3, frames) = Holding(a, ev, e, Yes, frames)
  BY BlankPlace
<1>2. [Holding(a, ev, e, Yes, frames) EXCEPT !.buffer = b] = Holding(b, ev, e, Yes, frames)
  BY ONLY BufferSet
<1>3. ParserAt(t, r, k + 1, 1, f2) = Holding(b, Nameless, <<>>, No, f2)
  BY FirstPlace
<1>4. Consumed(Holding(b, ev, e, Yes, frames), <<>>)
        = Holding(b, Nameless, <<>>, No, Append(frames, <<ev, e>>))
  BY ONLY BlankConsumed
<1> QED
  BY <1>1, <1>2, <1>3, <1>4 DEF At

(* Where a line leads. *)
Closes(ev, q) == (ev = "keepalive" /\ q = 2) \/ q = 3

Framed(ev, frames) == IF ev = "keepalive" THEN frames ELSE Append(frames, <<ev, <<ev>>>>)

NextPlace(t, k, q) == IF Closes(t.script[k + 1], q) THEN Place(t, k + 1, 1) ELSE Place(t, k, q + 1)

NextParser(t, r, k, q, frames) ==
    IF Closes(t.script[k + 1], q) THEN ParserAt(t, r, k + 1, 1, Framed(t.script[k + 1], frames))
    ELSE ParserAt(t, r, k, q + 1, frames)

(* The four kinds together: a line consumed leads to the place behind it. *)
LEMMA PlaceConsumed ==
  ASSUME NEW t, NEW r, NEW k, NEW q \in {1, 2, 3}, NEW frames, NEW ev, ev = t.script[k + 1],
         ev = "keepalive" => q # 3, NEW d, d = NextPlace(t, k, q)
  PROVE  Consumed(At(t, r, k, q, frames, d), LineOf(ev, q)) = NextParser(t, r, k, q, frames)
<1>0. 1 + 1 = 2 /\ 2 + 1 = 3
  OBVIOUS
<1>1. CASE ev = "keepalive" /\ q = 1
  <2>1. d = Place(t, k, 2) /\ NextParser(t, r, k, q, frames) = ParserAt(t, r, k, 2, frames)
    BY <1>0, <1>1 DEF NextPlace, NextParser, Closes
  <2>2. LineOf(ev, q) = <<Comment>>
    BY <1>1 DEF LineOf
  <2> QED
    BY <1>1, <2>1, <2>2, CommentTurn
<1>2. CASE ev = "keepalive" /\ q = 2
  <2>1. d = Place(t, k + 1, 1) /\ NextParser(t, r, k, q, frames) = ParserAt(t, r, k + 1, 1, frames)
    BY <1>2 DEF NextPlace, NextParser, Closes, Framed
  <2>2. LineOf(ev, q) = <<>>
    BY <1>2 DEF LineOf
  <2> QED
    BY <1>2, <2>1, <2>2, CommentEndTurn
<1>3. CASE ev # "keepalive" /\ q = 1
  <2>1. d = Place(t, k, 2) /\ NextParser(t, r, k, q, frames) = ParserAt(t, r, k, 2, frames)
    BY <1>0, <1>3 DEF NextPlace, NextParser, Closes
  <2>2. LineOf(ev, q) = <<<<"event", ev>>>>
    BY <1>3 DEF LineOf
  <2> QED
    BY <1>3, <2>1, <2>2, EventTurn
<1>4. CASE ev # "keepalive" /\ q = 2
  <2>1. d = Place(t, k, 3) /\ NextParser(t, r, k, q, frames) = ParserAt(t, r, k, 3, frames)
    BY <1>0, <1>4 DEF NextPlace, NextParser, Closes
  <2>2. LineOf(ev, q) = <<<<"data", ev>>>>
    BY <1>4 DEF LineOf
  <2> QED
    BY <1>4, <2>1, <2>2, DataTurn
<1>5. CASE ev # "keepalive" /\ q = 3
  <2> PICK f2 : f2 = Append(frames, <<ev, <<ev>>>>)
    OBVIOUS
  <2>1. d = Place(t, k + 1, 1) /\ NextParser(t, r, k, q, frames) = ParserAt(t, r, k + 1, 1, f2)
    BY <1>5 DEF NextPlace, NextParser, Closes, Framed
  <2>2. LineOf(ev, q) = <<>>
    BY <1>5 DEF LineOf
  <2>3. Consumed(At(t, r, k, 3, frames, d), <<>>) = ParserAt(t, r, k + 1, 1, f2)
    BY <1>5, <2>1, BlankTurn
  <2> QED
    BY <1>5, <2>1, <2>2, <2>3
<1> QED
  BY <1>1, <1>2, <1>3, <1>4, <1>5

(* A turn of the loop keeps the parser in step with the wire. *)
LEMMA TurnParses ==
  ASSUME NEW t \in Transcripts, NEW p, NEW r, NEW k, NEW q, NEW frames, Parsing(t, p, r, k, q, frames)
  PROVE  \E k2, q2, frames2 :
           Parsing(t, NextLine(p), r, k2, q2, frames2) /\ Consumes(t, k, frames, k2, frames2)
<1>0. /\ k \in 0 .. Len(t.script) /\ q \in {1, 2, 3} /\ (k = Len(t.script) => q = 1)
      /\ (k < Len(t.script) /\ t.script[k + 1] = "keepalive" => q # 3)
      /\ r \in Nat /\ r <= Len(Wire[t]) /\ Place(t, k, q) <= r
      /\ p = ParserAt(t, r, k, q, frames)
  BY DEF Parsing
<1>s. Len(t.script) \in Nat
  BY StyleIs
<1>1. p.buffer = SubSeq(Wire[t], Place(t, k, q) + 1, r)
  BY <1>0 DEF ParserAt, Holding, Unread
<1>2. NextLine(p) = p => Parsing(t, NextLine(p), r, k, q, frames) /\ Consumes(t, k, frames, k, frames)
  BY DEF Consumes
<1>3. CASE k = Len(t.script)
  <2>1. Place(t, k, q) = Len(Wire[t]) /\ Len(Wire[t]) \in Nat
    <3>1. From(t, k) = Len(Wire[t]) /\ Len(Wire[t]) \in Nat
      BY <1>3, WireShape
    <3>2. Offset(Len(t.style), q) = 0
      BY <1>0, <1>3 DEF Offset
    <3> QED
      BY <3>1, <3>2 DEF Place
  <2>2. p.buffer = <<>>
    <3>1. r = Len(Wire[t])
      BY <1>0, <2>1
    <3>2. p.buffer = SubSeq(Wire[t], r + 1, r) /\ r + 1 \in Int /\ r \in Int /\ r < r + 1
      BY <1>0, <1>1, <2>1, <3>1
    <3> QED
      BY <3>2, SubSeqEmpty
  <2>3. Breaks(p.buffer) = {}
    BY <2>2 DEF Breaks
  <2>4. NextLine(p) = p
    BY <2>3 DEF NextLine
  <2> QED
    BY <1>2, <2>4
<1>4. CASE k < Len(t.script)
  <2> PICK ev, w, T, line, c, style :
        /\ ev = t.script[k + 1] /\ w = Wire[t] /\ T = Tokens(t) /\ line = LineOf(ev, q)
        /\ c = Place(t, k, q) /\ style = t.style
    OBVIOUS
  <2>k. k \in Nat /\ (ev = "keepalive" => q # 3)
    BY <1>0, <1>4
  <2>1. /\ LineAt(w, c, line, style) /\ c \in Nat
        /\ c + Len(line) + Len(style)
             = IF (ev = "keepalive" /\ q = 2) \/ q = 3 THEN Place(t, k + 1, 1) ELSE Place(t, k, q + 1)
    BY <1>0, <1>4, <2>k, LineOnWire
  <2> PICK d : d = c + Len(line) + Len(style)
    OBVIOUS
  <2>2. line = <<>> \/ \E x : line = <<x>> /\ x \notin {CR, LF}
    <3>1. Comment \notin {CR, LF} /\ <<"event", ev>> \notin {CR, LF} /\ <<"data", ev>> \notin {CR, LF}
      BY TokensDiffer
    <3> QED
      BY <3>1 DEF LineOf
  <2>3. /\ w \in Seq(T) /\ style \in {<<CR>>, <<LF>>, <<CR, LF>>}
        /\ (style = <<CR>> => \A i \in 1 .. Len(w) : w[i] # LF)
    BY StyleIs, WireShape, NoStrayLF
  <2>4. \/ NextLine(p) = p
        \/ d <= r /\ NextLine(p) = Consumed([p EXCEPT !.buffer = SubSeq(w, d + 1, r)], line)
    <3>1. /\ c \in Nat /\ r \in Nat /\ c <= r /\ r <= Len(w) /\ p.buffer = SubSeq(w, c + 1, r)
          /\ d = c + Len(line) + Len(style)
      BY <1>0, <1>1, <2>1
    <3>2. LineAt(w, c, line, style)
      BY <2>1
    <3> QED
      <4>1. Cuttable(T, w, c, r, line, style, p, d)
        BY <2>2, <2>3, <3>1, <3>2 DEF Cuttable
      <4> QED
        BY <4>1, Cutting
  <2>5. CASE d <= r /\ NextLine(p) = Consumed([p EXCEPT !.buffer = SubSeq(w, d + 1, r)], line)
    <3> PICK p2 : p2 = At(t, r, k, q, frames, d)
      OBVIOUS
    <3>1. NextLine(p) = Consumed(p2, line)
      BY <1>0, <2>5 DEF Unread, At
    <3>2. d = IF (ev = "keepalive" /\ q = 2) \/ q = 3 THEN Place(t, k + 1, 1) ELSE Place(t, k, q + 1)
      BY <2>1
    <3> PICK f2 : f2 = IF ev = "keepalive" THEN frames ELSE Append(frames, <<ev, <<ev>>>>)
      OBVIOUS
    <3>d. d = NextPlace(t, k, q)
      BY <3>2 DEF NextPlace, Closes
    <3>e. Consumed(p2, line) = NextParser(t, r, k, q, frames)
      <4>1. q \in {1, 2, 3}
        BY <1>0
      <4> QED
        BY ONLY <2>k, <3>d, <4>1, PlaceConsumed, ev = t.script[k + 1], line = LineOf(ev, q),
                p2 = At(t, r, k, q, frames, d)
    <3>c. Consumed(p2, line) = IF (ev = "keepalive" /\ q = 2) \/ q = 3 THEN ParserAt(t, r, k + 1, 1, f2)
                               ELSE ParserAt(t, r, k, q + 1, frames)
      BY <3>e DEF NextParser, Closes, Framed
    <3>3. CASE ~((ev = "keepalive" /\ q = 2) \/ q = 3)
      <4>1. d = Place(t, k, q + 1)
        BY <3>2, <3>3
      <4>2. Consumed(p2, line) = ParserAt(t, r, k, q + 1, frames)
        BY <3>3, <3>c
      <4>3. Parsing(t, NextLine(p), r, k, q + 1, frames)
        <5>1. q + 1 \in {1, 2, 3} /\ (ev = "keepalive" => q + 1 # 3)
          BY <1>0, <3>3
        <5>2. Place(t, k, q + 1) <= r
          BY <2>5, <4>1
        <5> QED
          BY <1>0, <1>4, <1>s, <3>1, <4>2, <5>1, <5>2 DEF Parsing
      <4> QED
        BY <4>3 DEF Consumes
    <3>4. CASE (ev = "keepalive" /\ q = 2) \/ q = 3
      <4>1. d = Place(t, k + 1, 1)
        BY <3>2, <3>4
      <4>2. Consumed(p2, line) = ParserAt(t, r, k + 1, 1, f2)
        BY <3>4, <3>c
      <4>3. Parsing(t, NextLine(p), r, k + 1, 1, f2)
        <5>1. k + 1 \in 0 .. Len(t.script)
          BY <1>s, <1>4, <2>k
        <5>2. Place(t, k + 1, 1) <= r
          BY <2>5, <4>1
        <5> QED
          BY <1>0, <3>1, <4>2, <5>1, <5>2 DEF Parsing
      <4>4. Consumes(t, k, frames, k + 1, f2)
        BY <1>4 DEF Consumes
      <4> QED
        BY <4>3, <4>4
    <3> QED
      BY <3>3, <3>4
  <2> QED
    BY <1>2, <2>4, <2>5
<1> QED
  BY <1>0, <1>s, <1>3, <1>4

-------------------------------------------------------------------------------
(* What ask() yields: the script, without what the page does not hear of, in *)
(* its order.                                                                *)

(* A comment, and an event whose payload is no JSON. *)
Silent == {"keepalive"} \cup NotJson

(* s is what a script says from behind k0 to k, without the silent entries:  *)
(* its j-th is the at[j]-th of the script.                                   *)
CarriesBy(script, s, k0, k, at) ==
    /\ at[0] = k0
    /\ \A j \in 0 .. Len(s) : at[j] \in k0 .. k
    /\ \A j \in 1 .. Len(s) : at[j - 1] < at[j] /\ script[at[j]] = s[j] /\ s[j] \notin Silent
    /\ \A j \in 1 .. Len(s) : \A x \in at[j - 1] + 1 .. at[j] - 1 : script[x] \in Silent
    /\ \A x \in at[Len(s)] + 1 .. k : script[x] \in Silent

Carries(script, s, k0, k) == k0 \in Nat /\ k \in Nat /\ \E at : CarriesBy(script, s, k0, k, at)

(* Nothing is carried from a place to itself. *)
LEMMA CarriesNothing ==
  ASSUME NEW script, NEW k \in Nat PROVE Carries(script, <<>>, k, k)
<1> DEFINE at == [j \in 0 .. 0 |-> k]
<1>0. Len(<<>>) = 0
  OBVIOUS
<1>1. at[0] = k
  OBVIOUS
<1>2. \A j \in 0 .. 0 : at[j] \in k .. k
  OBVIOUS
<1> HIDE DEF at
<1>3. CarriesBy(script, <<>>, k, k, at)
  BY <1>0, <1>1, <1>2 DEF CarriesBy
<1> QED
  BY <1>3 DEF Carries

(* A silent entry adds nothing to what is carried. *)
LEMMA CarriesSilent ==
  ASSUME NEW script, NEW s, Len(s) \in Nat, NEW k0, NEW k, Carries(script, s, k0, k),
         script[k + 1] \in Silent
  PROVE  Carries(script, s, k0, k + 1)
<1> PICK n : n = Len(s)
  OBVIOUS
<1>0. n \in Nat /\ k0 \in Nat /\ k \in Nat
  BY DEF Carries
<1>1. PICK at : CarriesBy(script, s, k0, k, at)
  BY DEF Carries
<1>2. \A j \in 0 .. n : at[j] \in k0 .. k + 1
  <2> TAKE j \in 0 .. n
  <2>1. at[j] \in k0 .. k
    BY <1>1 DEF CarriesBy
  <2> QED
    BY ONLY <1>0, <2>1
<1>3. \A x \in at[n] + 1 .. k + 1 : script[x] \in Silent
  <2> TAKE x \in at[n] + 1 .. k + 1
  <2>1. at[n] \in k0 .. k
    BY <1>0, <1>1 DEF CarriesBy
  <2>2. x = k + 1 \/ x \in at[n] + 1 .. k
    BY <1>0, <2>1
  <2> QED
    BY <1>1, <2>2 DEF CarriesBy
<1>4. CarriesBy(script, s, k0, k + 1, at)
  BY <1>1, <1>2, <1>3 DEF CarriesBy
<1> QED
  BY <1>0, <1>4 DEF Carries

(* Any other entry is carried. *)
LEMMA CarriesEvent ==
  ASSUME NEW script, NEW T, NEW s \in Seq(T), NEW k0, NEW k, Carries(script, s, k0, k),
         NEW ev \in T, ev = script[k + 1], ev \notin Silent
  PROVE  Carries(script, Append(s, ev), k0, k + 1)
<1> PICK n, s2 : n = Len(s) /\ s2 = Append(s, ev)
  OBVIOUS
<1>0. n \in Nat /\ k0 \in Nat /\ k \in Nat
  BY DEF Carries
<1>1. PICK at : CarriesBy(script, s, k0, k, at)
  BY DEF Carries
<1>a. /\ at[0] = k0
      /\ \A j \in 0 .. n : at[j] \in k0 .. k
      /\ \A j \in 1 .. n : at[j - 1] < at[j] /\ script[at[j]] = s[j] /\ s[j] \notin Silent
      /\ \A j \in 1 .. n : \A x \in at[j - 1] + 1 .. at[j] - 1 : script[x] \in Silent
      /\ \A x \in at[n] + 1 .. k : script[x] \in Silent
  BY <1>1 DEF CarriesBy
<1>s. Len(s2) = n + 1 /\ s2[n + 1] = ev /\ \A j \in 1 .. n : s2[j] = s[j]
  BY AppendProperties
<1> DEFINE at2 == [j \in 0 .. n + 1 |-> IF j = n + 1 THEN k + 1 ELSE at[j]]
<1>2. at2[n + 1] = k + 1 /\ \A j \in 0 .. n : at2[j] = at[j]
  BY <1>0
<1> HIDE DEF at2
<1>3. at2[0] = k0
  BY <1>0, <1>2, <1>a
<1>4. \A j \in 0 .. n + 1 : at2[j] \in k0 .. k + 1
  <2> TAKE j \in 0 .. n + 1
  <2>1. CASE j = n + 1
    <3>1. at[0] \in k0 .. k
      BY <1>0, <1>a
    <3> QED
      BY <1>0, <1>2, <2>1, <3>1
  <2>2. CASE j # n + 1
    <3>1. j \in 0 .. n
      BY <1>0, <2>2
    <3>2. at2[j] = at[j] /\ at[j] \in k0 .. k
      BY <1>2, <1>a, <3>1
    <3> QED
      BY ONLY <1>0, <3>2
  <2> QED
    BY <2>1, <2>2
<1>5. ASSUME NEW j \in 1 .. n + 1
      PROVE  /\ at2[j - 1] < at2[j] /\ script[at2[j]] = s2[j] /\ s2[j] \notin Silent
             /\ \A x \in at2[j - 1] + 1 .. at2[j] - 1 : script[x] \in Silent
  <2>1. CASE j = n + 1
    <3>1. j - 1 = n /\ n \in 0 .. n
      BY <1>0, <2>1
    <3>2. at2[j - 1] = at[n] /\ at2[j] = k + 1 /\ at[n] \in k0 .. k /\ s2[j] = ev
      BY <1>2, <1>a, <1>s, <2>1, <3>1
    <3>3. at[n] < k + 1 /\ (k + 1) - 1 = k
      BY <1>0, <3>2
    <3> QED
      BY <1>a, <3>2, <3>3
  <2>2. CASE j # n + 1
    <3>1. j \in 1 .. n /\ j \in 0 .. n /\ j - 1 \in 0 .. n
      BY <1>0, <2>2
    <3>2. at2[j] = at[j] /\ at2[j - 1] = at[j - 1] /\ s2[j] = s[j]
      BY <1>2, <1>s, <3>1
    <3> QED
      BY <1>a, <3>1, <3>2
  <2> QED
    BY <2>1, <2>2
<1>6. \A x \in at2[n + 1] + 1 .. k + 1 : script[x] \in Silent
  BY <1>0, <1>2
<1>7. CarriesBy(script, s2, k0, k + 1, at2)
  BY <1>3, <1>4, <1>5, <1>6, <1>s DEF CarriesBy
<1> QED
  BY <1>0, <1>7 DEF Carries

(* The first of what is carried, and the rest. *)
LEMMA CarriesFirst ==
  ASSUME NEW script, NEW T, NEW s \in Seq(T), s # <<>>, NEW k0, NEW k, Carries(script, s, k0, k)
  PROVE  \E k1 \in k0 + 1 .. k :
           /\ script[k1] = Head(s) /\ Head(s) \notin Silent
           /\ \A x \in k0 + 1 .. k1 - 1 : script[x] \in Silent
           /\ Carries(script, Tail(s), k1, k)
<1> PICK n, s2 : n = Len(s) /\ s2 = Tail(s)
  OBVIOUS
<1>0. n \in Nat /\ k0 \in Nat /\ k \in Nat
  BY DEF Carries
<1>1. PICK at : CarriesBy(script, s, k0, k, at)
  BY DEF Carries
<1>a. /\ at[0] = k0
      /\ \A j \in 0 .. n : at[j] \in k0 .. k
      /\ \A j \in 1 .. n : at[j - 1] < at[j] /\ script[at[j]] = s[j] /\ s[j] \notin Silent
      /\ \A j \in 1 .. n : \A x \in at[j - 1] + 1 .. at[j] - 1 : script[x] \in Silent
      /\ \A x \in at[n] + 1 .. k : script[x] \in Silent
  BY <1>1 DEF CarriesBy
<1>s. Len(s2) = n - 1 /\ (\A j \in 1 .. Len(s2) : s2[j] = s[j + 1])
  BY HeadTailProperties
<1>n. n >= 1
  <2>1. n \in Nat \ {0}
    BY EmptySeq
  <2> QED
    BY <2>1
<1>h. Head(s) = s[1]
  OBVIOUS
<1> DEFINE at2 == [j \in 0 .. n - 1 |-> at[j + 1]]
<1>2. \A j \in 0 .. n - 1 : at2[j] = at[j + 1]
  OBVIOUS
<1> HIDE DEF at2
<1> PICK k1 : k1 = at[1]
  OBVIOUS
<1>3. k1 \in k0 + 1 .. k /\ script[k1] = Head(s) /\ Head(s) \notin Silent
  <2>1. 1 \in 1 .. n /\ 1 \in 0 .. n /\ 1 - 1 = 0
    BY <1>0, <1>n
  <2>2. k1 \in k0 .. k /\ k0 < k1 /\ script[k1] = s[1] /\ s[1] \notin Silent
    BY <1>a, <2>1
  <2> QED
    BY <1>0, <1>h, <2>2
<1>4. \A x \in k0 + 1 .. k1 - 1 : script[x] \in Silent
  <2>1. 1 \in 1 .. n /\ 1 - 1 = 0
    BY <1>0, <1>n
  <2> QED
    BY <1>a, <2>1
<1>5. at2[0] = k1
  <2>1. 0 \in 0 .. n - 1 /\ 0 + 1 = 1
    BY <1>0, <1>n
  <2> QED
    BY <1>2, <2>1
<1>6. ASSUME NEW j \in 1 .. n - 1
      PROVE  /\ at2[j - 1] < at2[j] /\ script[at2[j]] = s2[j] /\ s2[j] \notin Silent
             /\ \A x \in at2[j - 1] + 1 .. at2[j] - 1 : script[x] \in Silent
  <2>1. j + 1 \in 1 .. n /\ (j + 1) - 1 = j /\ j - 1 \in 0 .. n - 1 /\ j \in 0 .. n - 1 /\ (j - 1) + 1 = j
    BY <1>0
  <2>2. at2[j - 1] = at[j] /\ at2[j] = at[j + 1] /\ s2[j] = s[j + 1]
    BY <1>2, <1>s, <2>1
  <2>3. /\ at[j] < at[j + 1] /\ script[at[j + 1]] = s[j + 1] /\ s[j + 1] \notin Silent
        /\ \A x \in at[j] + 1 .. at[j + 1] - 1 : script[x] \in Silent
    <3> PICK i : i = j + 1
      OBVIOUS
    <3>1. i \in 1 .. n /\ i - 1 = j
      BY <2>1
    <3>2. /\ at[i - 1] < at[i] /\ script[at[i]] = s[i] /\ s[i] \notin Silent
          /\ \A x \in at[i - 1] + 1 .. at[i] - 1 : script[x] \in Silent
      BY <1>a, <3>1
    <3> QED
      BY <3>1, <3>2
  <2> QED
    BY <2>2, <2>3
<1>7. \A j \in 0 .. n - 1 : at2[j] \in k1 .. k
  <2> DEFINE S == {j \in Nat : j <= n - 1 => at2[j] \in k1 .. k}
  <2>1. 0 \in S
    BY <1>0, <1>3, <1>5
  <2>2. ASSUME NEW j \in Nat, j \in S PROVE j + 1 \in S
    <3>1. CASE j + 1 <= n - 1
      <4>1. at2[j] \in k1 .. k /\ j \in 0 .. n - 1
        BY <1>0, <2>2, <3>1
      <4> PICK i : i = j + 1
        OBVIOUS
      <4>2. i \in 1 .. n - 1 /\ i - 1 = j /\ i + 1 \in 0 .. n /\ i \in 0 .. n - 1
        BY <1>0, <3>1
      <4>3. at2[i - 1] < at2[i] /\ at2[i] = at[i + 1]
        BY <1>2, <1>6, <4>2
      <4>4. at[i + 1] \in k0 .. k
        BY <1>a, <4>2
      <4>5. at2[i] \in k1 .. k
        BY <1>0, <1>3, <4>1, <4>2, <4>3, <4>4
      <4> QED
        BY <4>5
    <3>2. CASE ~(j + 1 <= n - 1)
      BY <3>2
    <3> QED
      BY <3>1, <3>2
  <2>3. Nat \subseteq S
    <3> HIDE DEF S
    <3> QED
      BY <2>1, <2>2, Counting
  <2> QED
    BY <2>3
<1>8. \A x \in at2[n - 1] + 1 .. k : script[x] \in Silent
  <2>1. n - 1 \in 0 .. n - 1 /\ (n - 1) + 1 = n
    BY <1>0, <1>n
  <2>2. at2[n - 1] = at[n]
    BY <1>2, <2>1
  <2> QED
    BY <1>a, <2>2
<1>9. CarriesBy(script, s2, k1, k, at2)
  BY <1>5, <1>6, <1>7, <1>8, <1>s DEF CarriesBy
<1>10. k1 \in Nat
  BY <1>0, <1>3
<1>11. Carries(script, s2, k1, k)
  BY <1>0, <1>9, <1>10 DEF Carries
<1> QED
  BY <1>3, <1>4, <1>11

(* Where the events are among the frames. *)
Sound(f) == {k \in DOMAIN f : IsEvent(f[k])}

(* The m-th of S, of which there are n, is pos[m]. *)
Ranks(S, n, pos) ==
    /\ IsFiniteSet(S) /\ n \in Nat /\ Cardinality(S) = n
    /\ \A m \in 1 .. n : /\ pos[m] \in S
                         /\ \A k \in S : Cardinality({j \in S : j <= k}) = m <=> k = pos[m]

(* s is the events among the frames of f, in their order. *)
FramesSayAt(f, s, pos) ==
    /\ Ranks(Sound(f), Len(s), pos)
    /\ \A m \in 1 .. Len(s) : s[m] = f[pos[m]][1]

FramesSay(f, s) == \E pos : FramesSayAt(f, s, pos)

(* parseEvent gives back the events that were framed, in their order. *)
LEMMA EventsAre ==
  ASSUME NEW T, NEW s \in Seq(T), NEW f, FramesSay(f, s)
  PROVE  Events(f) = s
<1> PICK n, S : n = Len(s) /\ S = Sound(f)
  OBVIOUS
<1>0. n \in Nat /\ s = [m \in 1 .. n |-> s[m]]
  OBVIOUS
<1>1. PICK pos : FramesSayAt(f, s, pos)
  BY DEF FramesSay
<1>2. /\ Cardinality(S) = n
      /\ \A m \in 1 .. n : /\ pos[m] \in S
                           /\ \A k \in S : Cardinality({j \in S : j <= k}) = m <=> k = pos[m]
      /\ \A m \in 1 .. n : s[m] = f[pos[m]][1]
  BY <1>1 DEF FramesSayAt, Ranks
<1>3. \A m \in 1 .. n : (CHOOSE k \in S : Cardinality({j \in S : j <= k}) = m) = pos[m]
  BY <1>2
<1>4. Events(f) = [m \in 1 .. Cardinality(S) |->
                     f[CHOOSE k \in S : Cardinality({j \in S : j <= k}) = m][1]]
  BY DEF Events, Sound
<1>5. Events(f) = [m \in 1 .. n |-> s[m]]
  <2>1. \A m \in 1 .. n : f[CHOOSE k \in S : Cardinality({j \in S : j <= k}) = m][1] = s[m]
    BY <1>2, <1>3
  <2> QED
    BY <1>2, <1>4, <2>1
<1> QED
  BY <1>0, <1>5

(* No frames, no events. *)
LEMMA NoFrames == FramesSay(<<>>, <<>>)
<1> PICK pos : pos = [m \in {} |-> m]
  OBVIOUS
<1>1. Sound(<<>>) = {}
  BY DEF Sound
<1>2. IsFiniteSet({}) /\ Cardinality({}) = 0
  BY FS_EmptySet
<1>3. Len(<<>>) = 0 /\ 1 .. 0 = {}
  OBVIOUS
<1>4. Ranks({}, 0, pos)
  BY <1>2, <1>3 DEF Ranks
<1>5. FramesSayAt(<<>>, <<>>, pos)
  BY <1>1, <1>3, <1>4 DEF FramesSayAt
<1> QED
  BY <1>5 DEF FramesSay

(* A number above all of S is the last of S with it. *)
LEMMA RanksAbove ==
  ASSUME NEW S, NEW n, NEW pos, Ranks(S, n, pos), NEW x \in Nat, \A k \in S : k \in Nat /\ k < x
  PROVE  Ranks(S \cup {x}, n + 1, [m \in 1 .. n + 1 |-> IF m = n + 1 THEN x ELSE pos[m]])
<1> PICK S2, pos2 : /\ S2 = S \cup {x}
                    /\ pos2 = [m \in 1 .. n + 1 |-> IF m = n + 1 THEN x ELSE pos[m]]
  OBVIOUS
<1>0. /\ IsFiniteSet(S) /\ n \in Nat /\ Cardinality(S) = n
      /\ \A m \in 1 .. n : /\ pos[m] \in S
                           /\ \A k \in S : Cardinality({j \in S : j <= k}) = m <=> k = pos[m]
  BY DEF Ranks
<1>1. x \notin S
  OBVIOUS
<1>2. IsFiniteSet(S2) /\ Cardinality(S2) = n + 1
  <2>1. IsFiniteSet(S \cup {x}) /\ Cardinality(S \cup {x}) = Cardinality(S) + 1
    BY ONLY <1>0, <1>1, FS_AddElement
  <2> QED
    BY <1>0, <2>1
<1>3. \A k \in S : {j \in S2 : j <= k} = {j \in S : j <= k}
  OBVIOUS
<1>4. {j \in S2 : j <= x} = S2
  OBVIOUS
<1>5. \A k \in S : Cardinality({j \in S : j <= k}) # n + 1
  <2> TAKE k \in S
  <2> PICK R : R = {j \in S : j <= k}
    OBVIOUS
  <2>1. R \subseteq S
    OBVIOUS
  <2>2. Cardinality(R) \in Nat /\ Cardinality(R) <= n
    BY ONLY <1>0, <2>1, FS_Subset, FS_CardinalityType
  <2> QED
    BY <1>0, <2>2
<1>6. ASSUME NEW m \in 1 .. n + 1
      PROVE  /\ pos2[m] \in S2
             /\ \A k \in S2 : Cardinality({j \in S2 : j <= k}) = m <=> k = pos2[m]
  <2>1. CASE m = n + 1
    <3>1. pos2[m] = x
      BY <2>1
    <3>2. \A k \in S : Cardinality({j \in S2 : j <= k}) # m /\ k # x
      BY <1>1, <1>3, <1>5, <2>1
    <3>3. Cardinality({j \in S2 : j <= x}) = m
      BY <1>2, <1>4, <2>1
    <3> QED
      BY <3>1, <3>2, <3>3
  <2>2. CASE m # n + 1
    <3>1. m \in 1 .. n /\ pos2[m] = pos[m]
      BY <1>0, <2>2
    <3>2. Cardinality({j \in S2 : j <= x}) # m
      BY <1>2, <1>4, <2>2
    <3>3. pos[m] \in S /\ pos[m] # x
      BY <1>0, <1>1, <3>1
    <3>4. \A k \in S : Cardinality({j \in S2 : j <= k}) = m <=> k = pos[m]
      BY <1>0, <1>3, <3>1
    <3> QED
      BY <3>1, <3>2, <3>3, <3>4
  <2> QED
    BY <2>1, <2>2
<1>7. Ranks(S2, n + 1, pos2)
  <2>1. \A m \in 1 .. n + 1 :
          /\ pos2[m] \in S2
          /\ \A k \in S2 : Cardinality({j \in S2 : j <= k}) = m <=> k = pos2[m]
    BY <1>6
  <2>2. n + 1 \in Nat
    BY <1>0
  <2> QED
    BY ONLY <1>2, <2>1, <2>2 DEF Ranks
<1> QED
  BY <1>7

(* One more frame is one more event, if its payload is JSON and its own. *)
LEMMA FramesSayNext ==
  ASSUME NEW T, NEW f \in Seq(T), NEW g \in T, NEW U, NEW s \in Seq(U), g[1] \in U, FramesSay(f, s)
  PROVE  FramesSay(Append(f, g), IF IsEvent(g) THEN Append(s, g[1]) ELSE s)
<1> PICK n, m0, h, S : n = Len(f) /\ m0 = Len(s) /\ h = Append(f, g) /\ S = Sound(f)
  OBVIOUS
<1>0. n \in Nat /\ DOMAIN f = 1 .. n /\ m0 \in Nat
  OBVIOUS
<1>1. /\ h \in Seq(T) /\ Len(h) = n + 1 /\ h[n + 1] = g /\ \A j \in 1 .. n : h[j] = f[j]
  BY AppendProperties
<1>2. DOMAIN h = 1 .. n + 1
  BY <1>1
<1>3. \A k \in S : k \in 1 .. n
  BY <1>0 DEF Sound
<1>4. PICK pos : FramesSayAt(f, s, pos)
  BY DEF FramesSay
<1>5. Ranks(S, m0, pos) /\ \A m \in 1 .. m0 : s[m] = f[pos[m]][1] /\ pos[m] \in S
  BY <1>4 DEF FramesSayAt, Ranks
<1>6. \A k \in 1 .. n + 1 : k \in Sound(h) <=> k \in S \/ (k = n + 1 /\ IsEvent(g))
  <2> TAKE k \in 1 .. n + 1
  <2>0. k \in Sound(h) <=> IsEvent(h[k])
    BY <1>2 DEF Sound
  <2>1. CASE k = n + 1
    <3>1. k \notin S
      BY <1>0, <1>3, <2>1
    <3> QED
      BY <1>1, <2>0, <2>1, <3>1
  <2>2. CASE k # n + 1
    <3>1. k \in 1 .. n
      BY <1>0, <2>2
    <3>2. h[k] = f[k]
      BY <1>1, <3>1
    <3>3. k \in S <=> IsEvent(f[k])
      BY <1>0, <3>1 DEF Sound
    <3> QED
      BY ONLY <2>0, <2>2, <3>2, <3>3
  <2> QED
    BY <2>1, <2>2
<1>7. \A k \in Sound(h) : k \in 1 .. n + 1
  BY <1>2 DEF Sound
<1>8. CASE ~IsEvent(g)
  <2>1. Sound(h) = S
    <3>1. \A k : k \in 1 .. n => k \in 1 .. n + 1
      BY <1>0
    <3> PICK S2 : S2 = Sound(h)
      OBVIOUS
    <3>2. \A k \in S2 : k \in S
      BY <1>6, <1>7, <1>8
    <3>3. \A k \in S : k \in S2
      BY <1>3, <1>6, <3>1
    <3>4. S2 = S
      BY ONLY <3>2, <3>3
    <3> QED
      BY <3>4
  <2>2. \A m \in 1 .. m0 : s[m] = h[pos[m]][1]
    BY <1>1, <1>3, <1>5
  <2>3. FramesSayAt(h, s, pos)
    BY <1>5, <2>1, <2>2 DEF FramesSayAt
  <2> QED
    BY <1>8, <2>3 DEF FramesSay
<1>9. CASE IsEvent(g)
  <2> PICK s2, pos2 : /\ s2 = Append(s, g[1])
                      /\ pos2 = [m \in 1 .. m0 + 1 |-> IF m = m0 + 1 THEN n + 1 ELSE pos[m]]
    OBVIOUS
  <2>1. Sound(h) = S \cup {n + 1}
    BY <1>0, <1>3, <1>6, <1>7, <1>9
  <2>2. Ranks(S \cup {n + 1}, m0 + 1, pos2)
    <3>1. n + 1 \in Nat /\ \A k \in S : k \in Nat /\ k < n + 1
      BY <1>0, <1>3
    <3> QED
      BY ONLY <1>5, <3>1, RanksAbove, pos2 = [m \in 1 .. m0 + 1 |-> IF m = m0 + 1 THEN n + 1 ELSE pos[m]]
  <2>3. Len(s2) = m0 + 1 /\ s2[m0 + 1] = g[1] /\ \A m \in 1 .. m0 : s2[m] = s[m]
    BY AppendProperties
  <2>4. ASSUME NEW m \in 1 .. m0 + 1 PROVE s2[m] = h[pos2[m]][1]
    <3>1. CASE m = m0 + 1
      BY <1>1, <2>3, <3>1
    <3>2. CASE m # m0 + 1
      <4>1. m \in 1 .. m0 /\ pos2[m] = pos[m]
        BY <1>0, <3>2
      <4> QED
        BY <1>1, <1>3, <1>5, <2>3, <4>1
    <3> QED
      BY <3>1, <3>2
  <2>5. FramesSayAt(h, s2, pos2)
    BY <2>1, <2>2, <2>3, <2>4 DEF FramesSayAt
  <2> QED
    BY <1>9, <2>5 DEF FramesSay
<1> QED
  BY <1>8, <1>9

(* The frame of an entry, and the frames of a transcript. *)
FrameOf(ev) == <<ev, <<ev>>>>

FramesOf(t) == {FrameOf(ev) : ev \in ToSet(t.script)}

(* The frame of an event is one unless its payload is no JSON. *)
LEMMA FrameIsEvent ==
  ASSUME NEW ev PROVE FrameOf(ev)[1] = ev /\ (IsEvent(FrameOf(ev)) <=> ev \notin NotJson)
BY DEF FrameOf, IsEvent

(* The parser is in step with the wire, and the events it framed are what the *)
(* script says from behind k0.                                                *)
StepsBy(t, p, r, k0, k, q, f, s) ==
    /\ s \in Seq(ToSet(t.script)) /\ f \in Seq(FramesOf(t)) /\ FramesSay(f, s)
    /\ Parsing(t, p, r, k, q, f) /\ Carries(t.script, s, k0, k)

InStep(t, p, r, k0) == \E k, q, f, s : StepsBy(t, p, r, k0, k, q, f, s)

(* A turn of push's loop keeps the parser in step, whatever line it consumes. *)
LEMMA TurnInStep ==
  ASSUME NEW t \in Transcripts, NEW p, NEW r, NEW k0, InStep(t, p, r, k0)
  PROVE  InStep(t, NextLine(p), r, k0)
<1>1. PICK k, q, f, s : StepsBy(t, p, r, k0, k, q, f, s)
  BY DEF InStep
<1>2. /\ s \in Seq(ToSet(t.script)) /\ f \in Seq(FramesOf(t)) /\ FramesSay(f, s)
      /\ Parsing(t, p, r, k, q, f) /\ Carries(t.script, s, k0, k)
  BY <1>1 DEF StepsBy
<1>3. PICK k2, q2, f2 : Parsing(t, NextLine(p), r, k2, q2, f2) /\ Consumes(t, k, f, k2, f2)
  BY <1>2, TurnParses
<1>4. CASE k2 = k /\ f2 = f
  <2>1. StepsBy(t, NextLine(p), r, k0, k2, q2, f2, s)
    BY <1>2, <1>3, <1>4 DEF StepsBy
  <2> QED
    BY <2>1 DEF InStep
<1>5. CASE /\ k < Len(t.script) /\ k2 = k + 1
           /\ f2 = IF t.script[k + 1] = "keepalive" THEN f
                   ELSE Append(f, <<t.script[k + 1], <<t.script[k + 1]>>>>)
  <2> PICK ev, g : ev = t.script[k + 1] /\ g = FrameOf(ev)
    OBVIOUS
  <2>s. Len(s) \in Nat
    BY <1>2
  <2>e. Carries(t.script, s, k0, k) /\ ev = t.script[k + 1]
    BY <1>2
  <2>1. CASE ev = "keepalive"
    <3>1. f2 = f /\ k2 = k + 1
      BY <1>5, <2>1
    <3>2. t.script[k + 1] \in Silent
      BY <2>1 DEF Silent
    <3>3. Carries(t.script, s, k0, k + 1)
      BY ONLY <2>s, <2>e, <3>2, CarriesSilent
    <3>4. StepsBy(t, NextLine(p), r, k0, k2, q2, f2, s)
      BY <1>2, <1>3, <3>1, <3>3 DEF StepsBy
    <3> QED
      BY <3>4 DEF InStep
  <2>2. CASE ev # "keepalive"
    <3>1. k \in 0 .. Len(t.script) /\ Len(t.script) \in Nat
      BY <1>2, StyleIs DEF Parsing
    <3>2. k + 1 \in 1 .. Len(t.script)
      BY <1>5, <3>1
    <3>3. ev \in ToSet(t.script)
      BY <3>2, StyleIs, ElementOfSeq
    <3>4. g \in FramesOf(t) /\ g[1] = ev /\ (IsEvent(g) <=> ev \notin NotJson)
      BY <3>3, FrameIsEvent DEF FramesOf
    <3>5. f2 = Append(f, g) /\ k2 = k + 1
      BY <1>5, <2>2 DEF FrameOf
    <3>6. f2 \in Seq(FramesOf(t))
      BY <1>2, <3>4, <3>5, AppendProperties
    <3>7. FramesSay(f2, IF IsEvent(g) THEN Append(s, ev) ELSE s)
      <4>1. g[1] \in ToSet(t.script)
        BY <3>3, <3>4
      <4>2. FramesSay(Append(f, g), IF IsEvent(g) THEN Append(s, g[1]) ELSE s)
        BY ONLY <1>2, <3>4, <4>1, FramesSayNext
      <4> QED
        BY <3>4, <3>5, <4>2
    <3>8. CASE ev \in NotJson
      <4>1. ev \in Silent
        BY <3>8 DEF Silent
      <4>2. Carries(t.script, s, k0, k + 1)
        BY ONLY <2>s, <2>e, <4>1, CarriesSilent
      <4>3. FramesSay(f2, s)
        BY <3>4, <3>7, <3>8
      <4>4. StepsBy(t, NextLine(p), r, k0, k2, q2, f2, s)
        BY <1>2, <1>3, <3>5, <3>6, <4>2, <4>3 DEF StepsBy
      <4> QED
        BY <4>4 DEF InStep
    <3>9. CASE ev \notin NotJson
      <4>1. ev \notin Silent
        BY <2>2, <3>9 DEF Silent
      <4>2. s \in Seq(ToSet(t.script))
        BY <1>2
      <4>3. Carries(t.script, Append(s, ev), k0, k + 1)
        BY ONLY <2>e, <3>3, <4>1, <4>2, CarriesEvent
      <4>4. FramesSay(f2, Append(s, ev))
        BY <3>4, <3>7, <3>9
      <4>5. Append(s, ev) \in Seq(ToSet(t.script))
        BY <3>3, <4>2, AppendProperties
      <4>6. StepsBy(t, NextLine(p), r, k0, k2, q2, f2, Append(s, ev))
        BY <1>3, <3>5, <3>6, <4>3, <4>4, <4>5 DEF StepsBy
      <4> QED
        BY <4>6 DEF InStep
    <3> QED
      BY <3>8, <3>9
  <2> QED
    BY <2>1, <2>2
<1> QED
  BY <1>3, <1>4, <1>5 DEF Consumes

(* Where the parser stands is a place. *)
LEMMA PlaceIs ==
  ASSUME NEW t \in Transcripts, NEW p, NEW r, NEW k, NEW q, NEW f, Parsing(t, p, r, k, q, f)
  PROVE  Place(t, k, q) \in Nat
<1>0. /\ k \in 0 .. Len(t.script) /\ q \in {1, 2, 3} /\ (k = Len(t.script) => q = 1)
      /\ (k < Len(t.script) /\ t.script[k + 1] = "keepalive" => q # 3)
  BY DEF Parsing
<1>s. Len(t.script) \in Nat /\ From(t, Len(t.script)) \in Nat
  BY StyleIs, WireShape
<1>2. CASE k < Len(t.script)
  <2>1. k \in Nat
    BY <1>0, <1>s
  <2> QED
    BY <1>0, <1>2, <2>1, LineOnWire
<1>3. CASE k = Len(t.script)
  BY <1>0, <1>s, <1>3 DEF Place, Offset
<1> QED
  BY <1>0, <1>s, <1>2, <1>3

(* What is in the buffer, wherever the parser stands. *)
LEMMA BufferAt ==
  ASSUME NEW t, NEW r, NEW k, NEW q, NEW f
  PROVE  /\ ParserAt(t, r, k, q, f).buffer = Unread(t, Place(t, k, q), r)
         /\ ParserAt(t, r, k, q, f).frames = f
<1> PICK b, ev, data : /\ b = Unread(t, Place(t, k, q), r) /\ ev = t.script[k + 1]
                       /\ data = IF q = 3 THEN <<t.script[k + 1]>> ELSE <<>>
  OBVIOUS
<1>1. \/ ParserAt(t, r, k, q, f) = Holding(b, Nameless, <<>>, No, f)
      \/ ParserAt(t, r, k, q, f) = Holding(b, ev, data, Yes, f)
  BY DEF ParserAt
<1> QED
  BY <1>1, FieldGet

(* The buffer is as long as what was read and not consumed. *)
LEMMA BufferLength ==
  ASSUME NEW t \in Transcripts, NEW p, NEW r, NEW k, NEW q, NEW f, Parsing(t, p, r, k, q, f)
  PROVE  Len(p.buffer) \in Nat /\ Len(p.buffer) = r - Place(t, k, q)
<1> PICK c, b, w : c = Place(t, k, q) /\ b = p.buffer /\ w = Wire[t]
  OBVIOUS
<1>1. c \in Nat
  BY PlaceIs
<1>2. r \in Nat /\ c <= r /\ r <= Len(w) /\ p = ParserAt(t, r, k, q, f)
  BY DEF Parsing
<1>3. b = SubSeq(w, c + 1, r)
  BY <1>2, BufferAt DEF Unread
<1>4. w \in Seq(Tokens(t))
  BY WireShape
<1>5. Len(b) = r - c
  BY ONLY <1>1, <1>2, <1>3, <1>4, BufferIs
<1> QED
  BY <1>1, <1>2, <1>5

(* Another part of the wire read changes the buffer and nothing else. *)
LEMMA MoreRead ==
  ASSUME NEW t \in Transcripts, NEW p, NEW r, NEW k, NEW q, Parsing(t, p, r, k, q, <<>>),
         NEW u \in Nat, r < u, u <= Len(Wire[t])
  PROVE  Parsing(t, [p EXCEPT !.buffer = p.buffer \o SubSeq(Wire[t], r + 1, u), !.frames = <<>>],
                 u, k, q, <<>>)
<1> PICK w, c : w = Wire[t] /\ c = Place(t, k, q)
  OBVIOUS
<1>0. /\ k \in 0 .. Len(t.script) /\ q \in {1, 2, 3} /\ (k = Len(t.script) => q = 1)
      /\ (k < Len(t.script) /\ t.script[k + 1] = "keepalive" => q # 3)
      /\ r \in Nat /\ r <= Len(w) /\ c <= r /\ p = ParserAt(t, r, k, q, <<>>)
  BY DEF Parsing
<1>s. Len(t.script) \in Nat /\ w \in Seq(Tokens(t)) /\ Len(w) \in Nat
  BY StyleIs, WireShape
<1>1. c \in Nat
  BY PlaceIs
<1>2. SubSeq(w, c + 1, r) \o SubSeq(w, r + 1, u) = SubSeq(w, c + 1, u)
  <2>1. c + 1 \in 1 .. Len(w) + 1 /\ r \in (c + 1) - 1 .. Len(w) /\ u \in r .. Len(w)
    BY <1>0, <1>s, <1>1
  <2> QED
    BY ONLY <1>s, <2>1, ConcatAdjacentSubSeq
<1>3. PICK n, d, s : \A v : ParserAt(t, v, k, q, <<>>) = Holding(Unread(t, c, v), n, d, s, <<>>)
  <2>1. CASE q = 1 \/ t.script[k + 1] = "keepalive"
    BY <2>1 DEF ParserAt
  <2>2. CASE ~(q = 1 \/ t.script[k + 1] = "keepalive")
    BY <2>2 DEF ParserAt
  <2> QED
    BY <2>1, <2>2
<1> PICK b, chunk, b2 : b = Unread(t, c, r) /\ chunk = SubSeq(Wire[t], r + 1, u) /\ b2 = b \o chunk
  OBVIOUS
<1>4. p = Holding(b, n, d, s, <<>>) /\ p.buffer = b
  <2>1. p = Holding(b, n, d, s, <<>>)
    BY <1>0, <1>3
  <2> QED
    BY <2>1, FieldGet
<1>5. [p EXCEPT !.buffer = b2, !.frames = <<>>] = Holding(b2, n, d, s, <<>>)
  <2>1. [p EXCEPT !.buffer = b2] = Holding(b2, n, d, s, <<>>)
    BY ONLY <1>4, BufferSet
  <2>2. [Holding(b2, n, d, s, <<>>) EXCEPT !.frames = <<>>] = Holding(b2, n, d, s, <<>>)
    BY ONLY FramesSet
  <2>3. [p EXCEPT !.buffer = b2, !.frames = <<>>] = [[p EXCEPT !.buffer = b2] EXCEPT !.frames = <<>>]
    OBVIOUS
  <2> QED
    BY ONLY <2>1, <2>2, <2>3
<1>6. b2 = Unread(t, c, u)
  BY <1>2 DEF Unread
<1>p. p.buffer \o chunk = b2
  BY <1>4
<1>a. ParserAt(t, u, k, q, <<>>) = Holding(b2, n, d, s, <<>>)
  BY <1>3, <1>6
<1>7. [p EXCEPT !.buffer = p.buffer \o chunk, !.frames = <<>>] = ParserAt(t, u, k, q, <<>>)
  BY ONLY <1>5, <1>p, <1>a
<1>8. c <= u
  BY <1>0, <1>1
<1> QED
  BY <1>0, <1>7, <1>8 DEF Parsing

(* The loop, by induction over its turns. *)
LEMMA LoopInStep ==
  ASSUME NEW t \in Transcripts, NEW z, NEW u, NEW k0, InStep(t, z, u, k0), Len(z.buffer) \in Nat
  PROVE  InStep(t, Turns(z)[Len(z.buffer)], u, k0)
<1> PICK n, g : n = Len(z.buffer) /\ g = Turns(z)
  OBVIOUS
<1>0. n \in Nat
  OBVIOUS
<1>4. g = [m \in 0 .. n |-> IF m = 0 THEN z ELSE NextLine(g[m - 1])]
  BY TurnsAre
<1> DEFINE S == {m \in Nat : m <= n => InStep(t, g[m], u, k0)}
<1>5. 0 \in S
  <2>1. g[0] = z
    <3>1. 0 \in 0 .. n
      BY <1>0
    <3> QED
      BY ONLY <1>4, <3>1
  <2> QED
    BY <2>1
<1>6. ASSUME NEW m \in Nat, m \in S PROVE m + 1 \in S
  <2>1. CASE m + 1 <= n
    <3>1. g[m + 1] = NextLine(g[m])
      <4> PICK i : i = m + 1
        OBVIOUS
      <4>1. i \in 0 .. n /\ i # 0 /\ i - 1 = m
        BY <1>0, <2>1
      <4>2. g[i] = NextLine(g[i - 1])
        BY ONLY <1>4, <4>1
      <4> QED
        BY <4>1, <4>2
    <3>2. InStep(t, g[m], u, k0)
      BY <1>0, <1>6, <2>1
    <3>3. InStep(t, g[m + 1], u, k0)
      BY <3>1, <3>2, TurnInStep
    <3> QED
      BY <3>3
  <2>2. CASE ~(m + 1 <= n)
    BY <2>2
  <2> QED
    BY <2>1, <2>2
<1>7. Nat \subseteq S
  <2> HIDE DEF S
  <2> QED
    BY <1>5, <1>6, Counting
<1>8. InStep(t, g[n], u, k0)
  BY <1>0, <1>7
<1> QED
  BY <1>8

(* A chunk pushed. *)
LEMMA Pushed ==
  ASSUME NEW t \in Transcripts, NEW p, NEW r, NEW k, NEW q, Parsing(t, p, r, k, q, <<>>),
         NEW u \in Nat, r < u, u <= Len(Wire[t]), NEW k0, Carries(t.script, <<>>, k0, k)
  PROVE  InStep(t, Push(p, SubSeq(Wire[t], r + 1, u)), u, k0)
<1> PICK chunk, z : chunk = SubSeq(Wire[t], r + 1, u)
                    /\ z = [p EXCEPT !.buffer = p.buffer \o chunk, !.frames = <<>>]
  OBVIOUS
<1>1. Parsing(t, z, u, k, q, <<>>)
  BY MoreRead
<1>2. InStep(t, z, u, k0)
  <2>1. <<>> \in Seq(ToSet(t.script)) /\ <<>> \in Seq(FramesOf(t))
    OBVIOUS
  <2>2. Parsing(t, z, u, k, q, <<>>)
    BY <1>1
  <2>3. Carries(t.script, <<>>, k0, k)
    OBVIOUS
  <2>4. StepsBy(t, z, u, k0, k, q, <<>>, <<>>)
    BY ONLY <2>1, <2>2, <2>3, NoFrames DEF StepsBy
  <2> QED
    BY <2>4 DEF InStep
<1>3. Len(z.buffer) \in Nat
  BY ONLY <1>1, BufferLength, t \in Transcripts
<1>4. InStep(t, Turns(z)[Len(z.buffer)], u, k0)
  BY ONLY <1>2, <1>3, LoopInStep, t \in Transcripts
<1>9. Push(p, chunk) = Turns(z)[Len(z.buffer)]
  BY DEF Push
<1> QED
  BY <1>4, <1>9

-------------------------------------------------------------------------------
(* What the page shows: the invariant of the calls and the view.             *)

(* A call of ask(), field by field. *)
Call(at, sent, read, parser, events, cut) ==
    [at |-> at, sent |-> sent, read |-> read, parser |-> parser, events |-> events, cut |-> cut]

IsStream(s) == \E at, sent, read, parser, events, cut : s = Call(at, sent, read, parser, events, cut)

Keeps(s, s2, at, events) ==
    /\ IsStream(s2) /\ s2.at = at /\ s2.events = events
    /\ s2.sent = s.sent /\ s2.read = s.read /\ s2.parser = s.parser

(* The fields of a call, read back. *)
LEMMA CallGet ==
  ASSUME NEW a, NEW b, NEW c, NEW d, NEW e, NEW f, NEW s, s = Call(a, b, c, d, e, f)
  PROVE  /\ IsStream(s) /\ s.at = a /\ s.sent = b /\ s.read = c /\ s.parser = d
         /\ s.events = e /\ s.cut = f
<1>1. IsStream(s)
  BY DEF IsStream
<1> QED
  BY <1>1 DEF Call

(* Where it is. *)
LEMMA AtSet ==
  ASSUME NEW a, NEW b, NEW c, NEW d, NEW e, NEW f, NEW v
  PROVE  [Call(a, b, c, d, e, f) EXCEPT !.at = v] = Call(v, b, c, d, e, f)
BY DEF Call

(* What it is sent. *)
LEMMA SentSet ==
  ASSUME NEW a, NEW b, NEW c, NEW d, NEW e, NEW f, NEW v
  PROVE  [Call(a, b, c, d, e, f) EXCEPT !.sent = v] = Call(a, v, c, d, e, f)
BY DEF Call

(* The events in hand. *)
LEMMA EventsSet ==
  ASSUME NEW a, NEW b, NEW c, NEW d, NEW e, NEW f, NEW v
  PROVE  [Call(a, b, c, d, e, f) EXCEPT !.events = v] = Call(a, b, c, d, v, f)
BY DEF Call

(* A call that moves on with other events keeps what it is sent and its parser. *)
LEMMA StreamUpdates ==
  ASSUME NEW s, IsStream(s), NEW at, NEW events
  PROVE  /\ Keeps(s, [s EXCEPT !.at = at, !.events = events], at, events)
         /\ Keeps(s, [s EXCEPT !.events = events, !.at = at], at, events)
<1>1. PICK a, b, c, d, e, f : s = Call(a, b, c, d, e, f)
  BY DEF IsStream
<1>2. [s EXCEPT !.at = at, !.events = events] = Call(at, b, c, d, events, f)
  <2>1. [s EXCEPT !.at = at] = Call(at, b, c, d, e, f)
    BY ONLY <1>1, AtSet
  <2>2. [Call(at, b, c, d, e, f) EXCEPT !.events = events] = Call(at, b, c, d, events, f)
    BY ONLY EventsSet
  <2>3. [s EXCEPT !.at = at, !.events = events] = [[s EXCEPT !.at = at] EXCEPT !.events = events]
    OBVIOUS
  <2> QED
    BY ONLY <2>1, <2>2, <2>3
<1>3. [s EXCEPT !.events = events, !.at = at] = Call(at, b, c, d, events, f)
  <2>1. [s EXCEPT !.events = events] = Call(a, b, c, d, events, f)
    BY ONLY <1>1, EventsSet
  <2>2. [Call(a, b, c, d, events, f) EXCEPT !.at = at] = Call(at, b, c, d, events, f)
    BY ONLY AtSet
  <2>3. [s EXCEPT !.events = events, !.at = at] = [[s EXCEPT !.events = events] EXCEPT !.at = at]
    OBVIOUS
  <2> QED
    BY ONLY <2>1, <2>2, <2>3
<1>4. Keeps(s, Call(at, b, c, d, events, f), at, events)
  <2>1. IsStream(Call(at, b, c, d, events, f))
    BY DEF IsStream
  <2> QED
    BY <1>1, <2>1 DEF Keeps, Call
<1> QED
  BY <1>2, <1>3, <1>4

(* A call that is over keeps what it was sent. *)
LEMMA StreamEnds ==
  ASSUME NEW s, NEW cut
  PROVE  /\ IsStream(Over(s)) /\ Over(s).at = "over" /\ Over(s).sent = s.sent
         /\ IsStream([Over(s) EXCEPT !.cut = cut]) /\ [Over(s) EXCEPT !.cut = cut].at = "over"
         /\ [Over(s) EXCEPT !.cut = cut].sent = s.sent
<1> PICK x, y : x = s.sent /\ y = FreshParser
  OBVIOUS
<1>0. NoStream = Call("none", NoTranscript, 0, y, <<>>, No)
  BY DEF NoStream, Call, No
<1>1. Over(s) = Call("over", x, 0, y, <<>>, No)
  <2>1. [NoStream EXCEPT !.at = "over"] = Call("over", NoTranscript, 0, y, <<>>, No)
    BY ONLY <1>0, AtSet
  <2>2. [Call("over", NoTranscript, 0, y, <<>>, No) EXCEPT !.sent = x] = Call("over", x, 0, y, <<>>, No)
    BY ONLY SentSet
  <2>3. Over(s) = [[NoStream EXCEPT !.at = "over"] EXCEPT !.sent = x]
    BY DEF Over
  <2> QED
    BY ONLY <2>1, <2>2, <2>3
<1>2. [Over(s) EXCEPT !.cut = cut] = Call("over", x, 0, y, <<>>, cut)
  BY <1>1 DEF Call
<1>3. IsStream(Over(s)) /\ IsStream([Over(s) EXCEPT !.cut = cut])
  BY <1>1, <1>2 DEF IsStream
<1> QED
  BY <1>1, <1>2, <1>3 DEF Call

Fetching == Call("fetching", NoTranscript, 0, FreshParser, <<>>, No)

(* A call not made yet, and one just made. *)
LEMMA StreamBegins ==
  /\ IsStream(NoStream) /\ NoStream.at = "none" /\ NoStream.sent = NoTranscript
  /\ [NoStream EXCEPT !.at = "fetching"] = Fetching /\ IsStream(Fetching)
<1> PICK y : y = FreshParser
  OBVIOUS
<1>0. NoStream = Call("none", NoTranscript, 0, y, <<>>, No)
  BY DEF NoStream, Call, No
<1>1. [NoStream EXCEPT !.at = "fetching"] = Call("fetching", NoTranscript, 0, y, <<>>, No)
  BY <1>0 DEF Call
<1>2. IsStream(NoStream) /\ IsStream(Fetching)
  BY <1>0, <1>1 DEF IsStream, Fetching
<1> QED
  BY <1>0, <1>1, <1>2 DEF Call, Fetching

(* A call just made has nothing in hand. *)
LEMMA FetchingIs ==
  /\ Fetching.at = "fetching" /\ Fetching.sent = NoTranscript /\ Fetching.events = <<>>
BY DEF Fetching, Call

(* And once it is answered, it reads from the beginning. *)
LEMMA FetchingAccepted ==
  ASSUME NEW t, NEW s, s = [Fetching EXCEPT !.at = "reading", !.sent = t]
  PROVE  /\ IsStream(s) /\ s.at = "reading" /\ s.sent = t /\ s.read = 0
         /\ s.parser = FreshParser /\ s.events = <<>>
<1> PICK y : y = FreshParser
  OBVIOUS
<1>1. s = Call("reading", t, 0, y, <<>>, No)
  <2>1. [Fetching EXCEPT !.at = "reading"] = Call("reading", NoTranscript, 0, y, <<>>, No)
    BY AtSet DEF Fetching
  <2>2. [Call("reading", NoTranscript, 0, y, <<>>, No) EXCEPT !.sent = t] = Call("reading", t, 0, y, <<>>, No)
    BY ONLY SentSet
  <2>3. s = [[Fetching EXCEPT !.at = "reading"] EXCEPT !.sent = t]
    OBVIOUS
  <2> QED
    BY ONLY <2>1, <2>2, <2>3
<1> PICK z, e, n : z = 0 /\ e = <<>> /\ n = No
  OBVIOUS
<1>2. s = Call("reading", t, z, y, e, n)
  BY <1>1
<1>3. /\ IsStream(s) /\ s.at = "reading" /\ s.sent = t /\ s.read = z
      /\ s.parser = y /\ s.events = e
  BY ONLY <1>2, CallGet
<1> QED
  BY <1>3

(* What of the first k of a script is in front of the person. *)
Said(script, k, S) == \E x \in 1 .. k : script[x] \in S

Shows(v, script, k) ==
    /\ v.sql # 0 <=> Said(script, k, {"sql"})
    /\ v.rows # 0 <=> Said(script, k, {"rows", "big_rows"})
    /\ v.stages = Cardinality({x \in 1 .. k : script[x] = "stage"})

Unshown(v) ==
    v.phase # "answered" /\ v.failure = "none" /\ v.stages = 0 /\ v.sql = 0 /\ v.rows = 0

(* There are k numbers from 1 to k. *)
LEMMA FirstOnes ==
  ASSUME NEW k \in Nat
  PROVE  IsFiniteSet(1 .. k) /\ Cardinality(1 .. k) = k
<1>0. 1 \in Int /\ k \in Int
  OBVIOUS
<1>1. /\ IsFiniteSet(1 .. k)
      /\ Cardinality(1 .. k) = IF 1 > k THEN 0 ELSE k - 1 + 1
  BY ONLY <1>0, FS_Interval
<1> QED
  BY <1>1

(* A view of a question just asked shows nothing of any script. *)
LEMMA ShowsNothing ==
  ASSUME NEW v, Unshown(v), NEW script
  PROVE  Shows(v, script, 0)
<1>1. 1 .. 0 = {}
  OBVIOUS
<1>2. {x \in 1 .. 0 : script[x] = "stage"} = {}
  BY <1>1
<1>3. Cardinality({}) = 0
  BY FS_EmptySet
<1>4. v.stages = Cardinality({x \in 1 .. 0 : script[x] = "stage"})
  BY <1>2, <1>3 DEF Unshown
<1>5. \A S : ~Said(script, 0, S)
  BY <1>1 DEF Said
<1> QED
  BY <1>4, <1>5 DEF Shows, Unshown

(* Up to the next event and with it. *)
LEMMA SaidNext ==
  ASSUME NEW script, NEW k0 \in Nat, NEW k1 \in Nat, k0 < k1,
         \A x \in k0 + 1 .. k1 - 1 : script[x] \in Silent,
         NEW ev, ev = script[k1], NEW S, S \cap Silent = {}
  PROVE  /\ {x \in 1 .. k1 : script[x] \in S}
              = {x \in 1 .. k0 : script[x] \in S} \cup {x \in {k1} : ev \in S}
         /\ Said(script, k1, S) <=> Said(script, k0, S) \/ ev \in S
<1>1. \A x : x \in 1 .. k1 <=> x \in 1 .. k0 \/ x \in k0 + 1 .. k1 - 1 \/ x = k1
  OBVIOUS
<1>2. \A x \in k0 + 1 .. k1 - 1 : script[x] \notin S
  OBVIOUS
<1>3. \A x : x \in 1 .. k1 /\ script[x] \in S <=> (x \in 1 .. k0 /\ script[x] \in S) \/ (x = k1 /\ ev \in S)
  BY <1>1, <1>2
<1>4. Said(script, k1, S) <=> Said(script, k0, S) \/ ev \in S
  BY <1>3 DEF Said
<1> QED
  BY <1>3, <1>4

(* The stages up to the next event are one more if it is a stage. *)
LEMMA StagesNext ==
  ASSUME NEW script, NEW k0 \in Nat, NEW k1 \in Nat, k0 < k1,
         \A x \in k0 + 1 .. k1 - 1 : script[x] \in Silent,
         NEW ev, ev = script[k1]
  PROVE  Cardinality({x \in 1 .. k1 : script[x] = "stage"})
           = Cardinality({x \in 1 .. k0 : script[x] = "stage"}) + (IF ev = "stage" THEN 1 ELSE 0)
<1> PICK A, B : /\ A = {x \in 1 .. k0 : script[x] = "stage"}
                /\ B = {x \in 1 .. k1 : script[x] = "stage"}
  OBVIOUS
<1>1. B = A \cup {x \in {k1} : ev = "stage"}
  <2>1. {"stage"} \cap Silent = {}
    BY DEF Silent, NotJson
  <2>2. {x \in 1 .. k1 : script[x] \in {"stage"}}
          = {x \in 1 .. k0 : script[x] \in {"stage"}} \cup {x \in {k1} : ev \in {"stage"}}
    BY <2>1, SaidNext
  <2> QED
    BY <2>2
<1>2. IsFiniteSet(1 .. k0)
  BY FirstOnes
<1>3. A \subseteq 1 .. k0
  OBVIOUS
<1>4. IsFiniteSet(A)
  BY ONLY <1>2, <1>3, FS_Subset
<1>5. Cardinality(A) \in Nat
  BY ONLY <1>4, FS_CardinalityType
<1>6. k1 \notin A
  BY <1>3
<1>7. CASE ev = "stage"
  <2>1. B = A \cup {k1}
    BY <1>1, <1>7
  <2>2. Cardinality(A \cup {k1}) = Cardinality(A) + 1
    BY ONLY <1>4, <1>6, FS_AddElement
  <2>3. Cardinality(B) = Cardinality(A) + 1
    BY ONLY <2>1, <2>2
  <2> QED
    BY <1>7, <2>3
<1>8. CASE ev # "stage"
  <2>1. B = A
    BY <1>1, <1>8
  <2>2. Cardinality(B) = Cardinality(A) + 0
    BY ONLY <1>5, <2>1
  <2> QED
    BY <1>8, <2>2
<1>9. Cardinality(B) = Cardinality(A) + (IF ev = "stage" THEN 1 ELSE 0)
  BY <1>7, <1>8
<1> QED
  BY <1>9

(* The reducer shows the next event of a script, and nothing of a silent entry. *)
LEMMA AppliedShows ==
  ASSUME NEW v, IsView(v), v.phase = "asking", NEW i \in Asks, NEW script,
         NEW k0 \in Nat, NEW k1 \in Nat, k0 < k1,
         \A x \in k0 + 1 .. k1 - 1 : script[x] \in Silent,
         NEW ev, ev = script[k1], Shows(v, script, k0)
  PROVE  LET v2 == Applied(v, i, ev) IN
         /\ v2.phase \in {"asking", "answered"} => Shows(v2, script, k1)
         /\ v2.phase = "answered" => ev = "done"
         /\ v2.failure = v.failure \/ v2.failure = ev
<1> PICK v2 : v2 = Applied(v, i, ev)
  OBVIOUS
<1>0. i # 0
  BY DEF Asks
<1>1. Said(script, k1, {"sql"}) <=> Said(script, k0, {"sql"}) \/ ev = "sql"
  <2>1. {"sql"} \cap Silent = {}
    BY DEF Silent, NotJson
  <2>2. Said(script, k1, {"sql"}) <=> Said(script, k0, {"sql"}) \/ ev \in {"sql"}
    BY <2>1, SaidNext
  <2> QED
    BY <2>2
<1>2. Said(script, k1, {"rows", "big_rows"})
        <=> Said(script, k0, {"rows", "big_rows"}) \/ ev \in {"rows", "big_rows"}
  <2>1. {"rows", "big_rows"} \cap Silent = {}
    BY DEF Silent, NotJson
  <2> QED
    BY <2>1, SaidNext
<1> PICK C0, C1 : /\ C0 = Cardinality({x \in 1 .. k0 : script[x] = "stage"})
                  /\ C1 = Cardinality({x \in 1 .. k1 : script[x] = "stage"})
  OBVIOUS
<1>3. C1 = C0 + (IF ev = "stage" THEN 1 ELSE 0)
  BY StagesNext
<1>c. C0 \in Nat
  <2>1. IsFiniteSet(1 .. k0)
    BY FirstOnes
  <2>2. {x \in 1 .. k0 : script[x] = "stage"} \subseteq 1 .. k0
    OBVIOUS
  <2>3. IsFiniteSet({x \in 1 .. k0 : script[x] = "stage"})
    BY ONLY <2>1, <2>2, FS_Subset
  <2> QED
    BY <2>3, FS_CardinalityType
<1> PICK q0, q1, r0, r1 : /\ q0 = Said(script, k0, {"sql"}) /\ q1 = Said(script, k1, {"sql"})
                          /\ r0 = Said(script, k0, {"rows", "big_rows"})
                          /\ r1 = Said(script, k1, {"rows", "big_rows"})
  OBVIOUS
<1>4. (v.sql # 0 <=> Said(script, k0, {"sql"})) /\ (v.rows # 0 <=> Said(script, k0, {"rows", "big_rows"}))
      /\ v.stages = C0
  BY DEF Shows
<1>5. CASE ev = "stage"
  <2>1. v2 = [v EXCEPT !.stages = @ + 1]
    BY <1>5 DEF Applied
  <2>2. v2.stages = v.stages + 1 /\ v2.sql = v.sql /\ v2.rows = v.rows /\ v2.phase = v.phase
        /\ v2.failure = v.failure
    BY <2>1 DEF IsView
  <2>3. v2.stages = C1
    BY <1>3, <1>4, <1>5, <2>2
  <2>4. Shows(v2, script, k1)
    BY <1>1, <1>2, <1>4, <1>5, <2>2, <2>3 DEF Shows
  <2> QED
    BY <2>2, <2>4
<1>s. ev # "stage" => C1 = C0
  BY <1>3, <1>c
<1>6. CASE ev = "sql"
  <2>1. v2 = [v EXCEPT !.sql = i]
    BY <1>6 DEF Applied
  <2>2. v2.stages = v.stages /\ v2.sql = i /\ v2.rows = v.rows /\ v2.phase = v.phase
        /\ v2.failure = v.failure
    BY <2>1 DEF IsView
  <2>4. Shows(v2, script, k1)
    BY <1>0, <1>1, <1>2, <1>4, <1>6, <1>s, <2>2 DEF Shows
  <2> QED
    BY <2>2, <2>4
<1>7. CASE ev \in {"rows", "big_rows"}
  <2>1. v2 = [v EXCEPT !.rows = i]
    BY <1>7 DEF Applied
  <2>2. v2.stages = v.stages /\ v2.sql = v.sql /\ v2.rows = i /\ v2.phase = v.phase
        /\ v2.failure = v.failure
    BY <2>1 DEF IsView
  <2>4. Shows(v2, script, k1)
    BY <1>0, <1>1, <1>2, <1>4, <1>7, <1>s, <2>2 DEF Shows
  <2> QED
    BY <2>2, <2>4
<1>8. CASE ev = "done"
  <2>1. v2 = [v EXCEPT !.phase = "answered"]
    BY <1>8 DEF Applied
  <2>2. v2.stages = v.stages /\ v2.sql = v.sql /\ v2.rows = v.rows /\ v2.phase = "answered"
        /\ v2.failure = v.failure
    BY <2>1 DEF IsView
  <2>4. Shows(v2, script, k1)
    BY <1>0, <1>1, <1>2, <1>4, <1>8, <1>s, <2>2 DEF Shows
  <2> QED
    BY <1>8, <2>2, <2>4
<1>9. CASE ev \in {"error", "client_error"}
  <2>1. v2 = [v EXCEPT !.phase = "failed", !.failure = ev]
    BY <1>9 DEF Applied
  <2>2. v2.phase = "failed" /\ v2.failure = ev
    BY <2>1 DEF IsView
  <2> QED
    BY <2>2
<1>10. CASE ev \notin {"stage", "sql", "rows", "big_rows", "done", "error", "client_error"}
  <2>1. v2 = v
    BY <1>10 DEF Applied
  <2>4. Shows(v2, script, k1)
    BY <1>0, <1>1, <1>2, <1>4, <1>10, <1>s, <2>1 DEF Shows
  <2> QED
    BY <2>1, <2>4
<1> QED
  BY <1>5, <1>6, <1>7, <1>8, <1>9, <1>10

(* A call of ask() that reads or yields: the parser is in step with the wire, *)
(* what is in hand is what the script says behind k0, and as long as the      *)
(* question is asked the page shows what it says up to k0.                    *)
InStride(s, i, v) ==
    /\ s.sent \in Transcripts
    /\ s.events \in Seq(ToSet(s.sent.script))
    /\ \E k0, k, q :
         /\ Parsing(s.sent, s.parser, s.read, k, q, <<>>)
         /\ Carries(s.sent.script, s.events, k0, k)
         /\ v.question = i /\ v.phase = "asking" => Shows(v, s.sent.script, k0)

CallOK(s, i, v) ==
    /\ IsStream(s)
    /\ s.at \in {"none", "fetching", "reading", "yielding", "last", "over"}
    /\ s.at = "none" => s = NoStream /\ v.question # i
    /\ s.at = "fetching" => s = Fetching /\ (v.question = i => Unshown(v))
    /\ s.at \in {"reading", "yielding"} => InStride(s, i, v)
    /\ s.at = "reading" => s.events = <<>>
    /\ s.at = "yielding" => s.events # <<>>
    /\ s.at = "last" => \/ s.events = <<"client_error">>
                        \/ s.events = <<"error">> /\ s.sent = NoTranscript

TrueOf(v, script) ==
    /\ v.phase = "answered" =>
         /\ \E k \in DOMAIN script : script[k] \in {"done"}
         /\ v.sql # 0 <=> \E k \in DOMAIN script : script[k] \in {"sql"}
         /\ v.rows # 0 <=> \E k \in DOMAIN script : script[k] \in {"rows", "big_rows"}
         /\ v.stages = Cardinality({k \in DOMAIN script : script[k] = "stage"})
    /\ v.failure = "error" => script = <<>> \/ \E k \in DOMAIN script : script[k] \in {"error"}

(* ShownIsSent says that of the view and the script of the question shown. *)
LEMMA ShownIs == ShownIsSent <=> TrueOf(view, SentScript)
BY DEF ShownIsSent, TrueOf

(* The questions asked are the first ones. *)
InOrder == \E n \in 0 .. MaxAsks : \A j \in Asks : stream[j].at # "none" <=> j <= n

SInv ==
    /\ \A j \in Asks : CallOK(stream[j], j, view)
    /\ view.question \in Asks \cup {0}
    /\ InOrder
    /\ TrueOf(view, SentScript)

(* A view of another question, or no longer of a question asked. *)
LEMMA CallStaysOK ==
  ASSUME NEW s, NEW i, NEW v, CallOK(s, i, v), NEW v2,
         \/ v2.question # i
         \/ v2.question = v.question /\ v2.phase \notin {"asking", "answered"}
            /\ v2.stages = v.stages /\ v2.sql = v.sql /\ v2.rows = v.rows /\ v2.failure = v.failure
  PROVE  CallOK(s, i, v2)
<1>1. s.at = "none" => v2.question # i
  BY DEF CallOK
<1>2. s.at = "fetching" => (v2.question = i => Unshown(v2))
  BY DEF CallOK, Unshown
<1>3. s.at \in {"reading", "yielding"} => InStride(s, i, v2)
  <2> SUFFICES ASSUME s.at \in {"reading", "yielding"} PROVE InStride(s, i, v2)
    OBVIOUS
  <2>1. InStride(s, i, v)
    BY DEF CallOK
  <2>2. ~(v2.question = i /\ v2.phase = "asking")
    OBVIOUS
  <2> QED
    BY <2>1, <2>2 DEF InStride
<1> QED
  BY <1>1, <1>2, <1>3 DEF CallOK

(* A step of a stream that leaves the page alone. *)
LEMMA QuietSInv ==
  ASSUME IInv, SInv, NEW i \in Asks, stream[i].at # "none", NEW s, Advance(i, s), s.at # "none",
         CallOK(s, i, view), view' = view,
         s.sent = stream[i].sent \/ (view.phase # "answered" /\ view.failure = "none")
           \/ view.question # i
  PROVE  SInv'
<1>1. \A j \in Asks : stream'[j] = IF j = i THEN s ELSE stream[j]
  BY DEF Advance, IInv, Shaped
<1>2. \A j \in Asks : CallOK(stream'[j], j, view')
  BY <1>1 DEF SInv
<1>3. InOrder'
  <2>1. PICK n \in 0 .. MaxAsks : \A j \in Asks : stream[j].at # "none" <=> j <= n
    BY DEF SInv, InOrder
  <2>2. \A j \in Asks : stream'[j].at # "none" <=> j <= n
    BY <1>1, <2>1
  <2> QED
    BY <2>2 DEF InOrder
<1>4. TrueOf(view', SentScript')
  <2>1. CASE s.sent = stream[i].sent \/ view.question # i
    <3>1. SentScript' = SentScript
      BY <1>1, <2>1 DEF SentScript, SInv
    <3> QED
      BY <3>1 DEF SInv
  <2>2. CASE view.phase # "answered" /\ view.failure = "none"
    BY <2>2 DEF TrueOf
  <2> QED
    BY <2>1, <2>2
<1> QED
  BY <1>2, <1>3, <1>4 DEF SInv

(* A step that shows an event. *)
LEMMA ShowSInv ==
  ASSUME IInv, SInv, NEW i \in Asks, i = view.question, stream[i].at # "none",
         NEW s, Advance(i, s), s.at # "none",
         s.sent = stream[i].sent, CallOK(s, i, view'), view'.question = view.question,
         TrueOf(view', s.sent.script)
  PROVE  SInv'
<1>1. \A j \in Asks : stream'[j] = IF j = i THEN s ELSE stream[j]
  BY DEF Advance, IInv, Shaped
<1>2. \A j \in Asks : CallOK(stream'[j], j, view')
  <2> TAKE j \in Asks
  <2>1. CASE j = i
    BY <1>1, <2>1
  <2>2. CASE j # i
    <3>1. CallOK(stream[j], j, view) /\ view'.question # j
      BY <2>2 DEF SInv
    <3>2. CallOK(stream[j], j, view')
      BY <3>1, CallStaysOK
    <3> QED
      BY <1>1, <2>2, <3>2
  <2> QED
    BY <2>1, <2>2
<1>3. InOrder'
  <2>1. PICK n \in 0 .. MaxAsks : \A j \in Asks : stream[j].at # "none" <=> j <= n
    BY DEF SInv, InOrder
  <2>2. \A j \in Asks : stream'[j].at # "none" <=> j <= n
    BY <1>1, <2>1
  <2> QED
    BY <2>2 DEF InOrder
<1>4. TrueOf(view', SentScript')
  <2>1. SentScript' = s.sent.script
    <3>1. view.question # 0
      BY DEF Asks
    <3> QED
      BY <1>1, <3>1 DEF SentScript
  <2> QED
    BY <2>1
<1>5. view'.question \in Asks \cup {0}
  OBVIOUS
<1> QED
  BY <1>2, <1>3, <1>4, <1>5 DEF SInv

(* Init establishes SInv. *)
LEMMA InitSInv == Init => SInv
<1> SUFFICES ASSUME Init PROVE SInv
  OBVIOUS
<1>1. view = Blank /\ \A j \in Asks : stream[j] = NoStream
  BY DEF Init
<1>2. view.question = 0 /\ view.phase = "idle" /\ view.failure = "none"
  BY <1>1 DEF Blank
<1>3. \A j \in Asks : CallOK(stream[j], j, view)
  <2> TAKE j \in Asks
  <2>1. j # 0
    BY DEF Asks
  <2> QED
    BY <1>1, <1>2, <2>1, StreamBegins DEF CallOK
<1>4. InOrder
  <2>1. 0 \in 0 .. MaxAsks
    BY BoundsAssumption
  <2>2. \A j \in Asks : stream[j].at # "none" <=> j <= 0
    BY <1>1, StreamBegins DEF Asks
  <2> QED
    BY <2>1, <2>2 DEF InOrder
<1>5. TrueOf(view, SentScript)
  BY <1>2 DEF TrueOf
<1> QED
  BY <1>2, <1>3, <1>4, <1>5 DEF SInv

(* The person. *)
LEMMA PersonSInv ==
  ASSUME IInv, SInv, Person PROVE SInv'
<1>v. IsView(view) /\ stream = [j \in Asks |-> stream[j]]
  BY DEF IInv, Shaped
<1>1. CASE Ask
  <2>1. PICK n \in 0 .. MaxAsks : \A j \in Asks : stream[j].at # "none" <=> j <= n
    BY DEF SInv, InOrder
  <2>m. MaxAsks \in Nat
    BY BoundsAssumption
  <2>2. Asked = 1 .. n
    BY <2>1, <2>m DEF Asked, Asks
  <2>3. Cardinality(Asked) = n /\ n < MaxAsks
    <3>1. n \in Nat
      BY <2>m
    <3>2. Cardinality(1 .. n) = n
      BY <3>1, FirstOnes
    <3>3. n # MaxAsks
      BY <1>1, <2>2 DEF Ask, Asks
    <3> QED
      BY <2>2, <2>m, <3>2, <3>3
  <2> PICK i : i = n + 1
    OBVIOUS
  <2>4. i \in Asks /\ ~(i <= n)
    BY <2>m, <2>3 DEF Asks
  <2>5. /\ stream' = [stream EXCEPT ![i] = [stream[i] EXCEPT !.at = "fetching"]]
        /\ view' = [Blank EXCEPT !.phase = "asking", !.question = i]
    BY <1>1, <2>3 DEF Ask
  <2>6. stream[i] = NoStream
    BY <2>1, <2>4 DEF SInv, CallOK
  <2>7. \A j \in Asks : stream'[j] = IF j = i THEN Fetching ELSE stream[j]
    BY <1>v, <2>5, <2>6, StreamBegins
  <2>8. /\ view'.question = i /\ view'.phase = "asking" /\ view'.failure = "none"
        /\ view'.stages = 0 /\ view'.sql = 0 /\ view'.rows = 0
    BY <2>5 DEF Blank
  <2>9. \A j \in Asks : CallOK(stream'[j], j, view')
    <3> TAKE j \in Asks
    <3>1. CASE j = i
      <4>1. stream'[j] = Fetching /\ Unshown(view')
        BY <2>7, <2>8, <3>1 DEF Unshown
      <4>2. IsStream(Fetching) /\ Fetching.at = "fetching"
        BY StreamBegins, FetchingIs
      <4> QED
        BY <4>1, <4>2 DEF CallOK
    <3>2. CASE j # i
      <4>1. CallOK(stream[j], j, view) /\ view'.question # j
        BY <2>8, <3>2 DEF SInv
      <4>2. CallOK(stream[j], j, view')
        BY <4>1, CallStaysOK
      <4> QED
        BY <2>7, <3>2, <4>2
    <3> QED
      BY <3>1, <3>2
  <2>10. InOrder'
    <3>1. i \in 0 .. MaxAsks
      BY <2>m, <2>3
    <3>2. \A j \in Asks : stream'[j].at # "none" <=> j <= i
      <4> TAKE j \in Asks
      <4>0. j \in Nat /\ (j <= i <=> j <= n \/ j = i)
        BY <2>m DEF Asks
      <4>1. CASE j = i
        BY <2>7, <4>0, <4>1, FetchingIs
      <4>2. CASE j # i
        BY <2>1, <2>7, <4>0, <4>2
      <4> QED
        BY <4>1, <4>2
    <3> QED
      BY <3>1, <3>2 DEF InOrder
  <2>11. TrueOf(view', SentScript')
    BY <2>8 DEF TrueOf
  <2> QED
    BY <2>4, <2>8, <2>9, <2>10, <2>11 DEF SInv
<1>2. ASSUME NEW phase \in {"stopped", "left"}, view' = [view EXCEPT !.phase = phase], stream' = stream
      PROVE  SInv'
  <2>1. /\ view'.question = view.question /\ view'.phase = phase /\ view'.failure = view.failure
        /\ view'.stages = view.stages /\ view'.sql = view.sql /\ view'.rows = view.rows
    BY <1>2, <1>v DEF IsView
  <2>2. \A j \in Asks : CallOK(stream'[j], j, view')
    <3> TAKE j \in Asks
    <3>1. CallOK(stream[j], j, view)
      BY DEF SInv
    <3>2. view'.phase \notin {"asking", "answered"}
      BY <2>1
    <3>3. CallOK(stream[j], j, view')
      BY <2>1, <3>1, <3>2, CallStaysOK
    <3> QED
      BY <1>2, <3>3
  <2>3. InOrder'
    BY <1>2 DEF SInv, InOrder
  <2>4. SentScript' = SentScript
    BY <1>2, <2>1 DEF SentScript
  <2>5. TrueOf(view', SentScript')
    BY <2>1, <2>4 DEF SInv, TrueOf
  <2> QED
    BY <2>1, <2>2, <2>3, <2>5 DEF SInv
<1>3. CASE Stop
  BY <1>2, <1>3 DEF Stop
<1>4. CASE Leave
  BY <1>2, <1>4 DEF Leave
<1> QED
  BY <1>1, <1>3, <1>4 DEF Person

(* The framed taken out, the parser is where it was. *)
LEMMA FramesTaken ==
  ASSUME NEW t, NEW p, NEW r, NEW k, NEW q, NEW f, Parsing(t, p, r, k, q, f)
  PROVE  Parsing(t, [p EXCEPT !.frames = <<>>], r, k, q, <<>>) /\ p.frames = f
<1> PICK b, ev, data : /\ b = Unread(t, Place(t, k, q), r) /\ ev = t.script[k + 1]
                       /\ data = IF q = 3 THEN <<t.script[k + 1]>> ELSE <<>>
  OBVIOUS
<1>1. p = ParserAt(t, r, k, q, f)
  BY DEF Parsing
<1>2. \/ ParserAt(t, r, k, q, f) = Holding(b, Nameless, <<>>, No, f)
         /\ ParserAt(t, r, k, q, <<>>) = Holding(b, Nameless, <<>>, No, <<>>)
      \/ ParserAt(t, r, k, q, f) = Holding(b, ev, data, Yes, f)
         /\ ParserAt(t, r, k, q, <<>>) = Holding(b, ev, data, Yes, <<>>)
  BY DEF ParserAt
<1>3. /\ [Holding(b, Nameless, <<>>, No, f) EXCEPT !.frames = <<>>] = Holding(b, Nameless, <<>>, No, <<>>)
      /\ [Holding(b, ev, data, Yes, f) EXCEPT !.frames = <<>>] = Holding(b, ev, data, Yes, <<>>)
  BY ONLY FramesSet
<1>4. [p EXCEPT !.frames = <<>>] = ParserAt(t, r, k, q, <<>>)
  BY ONLY <1>1, <1>2, <1>3
<1>5. p.frames = f
  BY <1>1, BufferAt
<1> QED
  BY <1>4, <1>5 DEF Parsing

(* A stream just accepted. *)
LEMMA AcceptedStride ==
  ASSUME NEW t \in Transcripts
  PROVE  Parsing(t, FreshParser, 0, 0, 1, <<>>) /\ Carries(t.script, <<>>, 0, 0)
<1>1. Carries(t.script, <<>>, 0, 0)
  BY CarriesNothing
<1>2. From(t, 0) = 0 /\ Len(Wire[t]) \in Nat /\ Wire[t] \in Seq(Tokens(t)) /\ Len(t.script) \in Nat
  BY StyleIs, WireShape
<1>3. Place(t, 0, 1) = 0
  BY <1>2 DEF Place, Offset
<1>4. Unread(t, 0, 0) = <<>>
  <2>1. 0 + 1 \in Int /\ 0 \in Int /\ 0 < 0 + 1
    OBVIOUS
  <2>2. SubSeq(Wire[t], 0 + 1, 0) = <<>>
    BY ONLY <2>1, SubSeqEmpty
  <2> QED
    BY <2>2 DEF Unread
<1>5. ParserAt(t, 0, 0, 1, <<>>) = Holding(<<>>, Nameless, <<>>, No, <<>>)
  BY <1>3, <1>4, FirstPlace
<1>6. FreshParser = Holding(<<>>, Nameless, <<>>, No, <<>>)
  BY DEF FreshParser, Holding, No, Nameless
<1>7. FreshParser = ParserAt(t, 0, 0, 1, <<>>)
  BY <1>5, <1>6
<1>8. 0 \in 0 .. Len(t.script) /\ 0 \in Nat /\ 0 <= Len(Wire[t]) /\ Place(t, 0, 1) <= 0
  BY <1>2, <1>3
<1>9. Parsing(t, FreshParser, 0, 0, 1, <<>>)
  BY <1>7, <1>8 DEF Parsing
<1> QED
  BY <1>1, <1>9

(* A call that ends in an error of the client's own. *)
LEMMA ClientErrorSInv ==
  ASSUME IInv, SInv, NEW i \in Open, view' = view,
         Advance(i, [stream[i] EXCEPT !.at = "last", !.events = <<"client_error">>])
  PROVE  SInv'
<1> PICK s : s = [stream[i] EXCEPT !.at = "last", !.events = <<"client_error">>]
  OBVIOUS
<1>1. i \in Asks /\ stream[i].at # "none" /\ IsStream(stream[i])
  BY DEF Open, SInv, CallOK
<1>2. Keeps(stream[i], s, "last", <<"client_error">>)
  BY <1>1, StreamUpdates
<1>3. CallOK(s, i, view) /\ s.sent = stream[i].sent /\ s.at # "none"
  BY <1>2 DEF Keeps, CallOK
<1> QED
  BY <1>1, <1>3, QuietSInv

(* A call that is over. *)
LEMMA OverSInv ==
  ASSUME IInv, SInv, NEW i \in Open, view' = view, NEW s, Advance(i, s),
         s = Over(stream[i]) \/ \E cut : s = [Over(stream[i]) EXCEPT !.cut = cut]
  PROVE  SInv'
<1>1. i \in Asks /\ stream[i].at # "none"
  BY DEF Open
<1>2. IsStream(s) /\ s.at = "over" /\ s.sent = stream[i].sent
  <2>1. CASE s = Over(stream[i])
    BY ONLY <2>1, StreamEnds
  <2>2. CASE \E cut : s = [Over(stream[i]) EXCEPT !.cut = cut]
    <3>1. PICK cut : s = [Over(stream[i]) EXCEPT !.cut = cut]
      BY <2>2
    <3> QED
      BY ONLY <3>1, StreamEnds
  <2> QED
    BY <2>1, <2>2
<1>3. CallOK(s, i, view)
  BY <1>2 DEF CallOK
<1> QED
  BY <1>1, <1>2, <1>3, QuietSInv

(* A refusal. *)
LEMMA RefusedSInv ==
  ASSUME IInv, SInv, NEW i \in Asks, Refused(i) PROVE SInv'
<1>1. PICK event \in EnvelopeOf :
        Advance(i, [stream[i] EXCEPT !.at = "last", !.events = <<event>>])
  BY DEF Refused
<1>2. stream[i].at = "fetching" /\ view' = view
  BY DEF Refused
<1>3. stream[i] = Fetching /\ IsStream(stream[i])
  BY <1>2 DEF SInv, CallOK
<1> PICK s : s = [stream[i] EXCEPT !.at = "last", !.events = <<event>>]
  OBVIOUS
<1>4. Keeps(stream[i], s, "last", <<event>>)
  BY <1>3, StreamUpdates
<1>5. IsStream(s) /\ s.at = "last" /\ s.events = <<event>> /\ s.sent = NoTranscript /\ s.sent = stream[i].sent
  BY <1>3, <1>4, FetchingIs DEF Keeps
<1>6. CallOK(s, i, view)
  BY <1>5 DEF CallOK, EnvelopeOf
<1> QED
  BY <1>1, <1>2, <1>5, <1>6, QuietSInv

(* A response that begins to stream. *)
LEMMA AcceptedSInv ==
  ASSUME IInv, SInv, NEW i \in Asks, Accepted(i) PROVE SInv'
<1>1. PICK t \in Transcripts : Advance(i, [stream[i] EXCEPT !.at = "reading", !.sent = t])
  BY DEF Accepted
<1>2. stream[i].at = "fetching" /\ view' = view
  BY DEF Accepted
<1>3. stream[i] = Fetching /\ (view.question = i => Unshown(view))
  BY <1>2 DEF SInv, CallOK
<1> PICK s : s = [stream[i] EXCEPT !.at = "reading", !.sent = t]
  OBVIOUS
<1>4. /\ IsStream(s) /\ s.at = "reading" /\ s.sent = t /\ s.read = 0
      /\ s.parser = FreshParser /\ s.events = <<>>
  BY <1>3, FetchingAccepted
<1>5. InStride(s, i, view)
  <2>1. Parsing(t, FreshParser, 0, 0, 1, <<>>) /\ Carries(t.script, <<>>, 0, 0)
    BY AcceptedStride
  <2>2. view.question = i => Shows(view, t.script, 0)
    BY <1>3, ShowsNothing
  <2>3. <<>> \in Seq(ToSet(t.script))
    OBVIOUS
  <2>4. /\ Parsing(s.sent, s.parser, s.read, 0, 1, <<>>) /\ Carries(s.sent.script, s.events, 0, 0)
        /\ s.events \in Seq(ToSet(s.sent.script)) /\ s.sent \in Transcripts
        /\ (view.question = i => Shows(view, s.sent.script, 0))
    BY <1>4, <2>1, <2>2, <2>3
  <2> QED
    BY <2>4 DEF InStride
<1>6. CallOK(s, i, view)
  BY <1>4, <1>5 DEF CallOK
<1>7. (view.phase # "answered" /\ view.failure = "none") \/ view.question # i
  BY <1>3 DEF Unshown
<1> QED
  BY <1>1, <1>2, <1>4, <1>6, <1>7, QuietSInv

(* What Read does with a parser that has been given the chunk. *)
ReadUpTo(i, s, upTo, p) ==
    LET events == IF Oversize(p) THEN <<"client_error">> ELSE Events(p.frames) IN
    Advance(i, [s EXCEPT
        !.read = upTo,
        !.parser = [p EXCEPT !.frames = <<>>],
        !.events = events,
        !.at = CASE Oversize(p) -> "last"
                 [] ~Oversize(p) /\ events # <<>> -> "yielding"
                 [] OTHER -> "reading"])

(* A chunk: what is framed out of it is what the script says next. *)
LEMMA ReadSInv ==
  ASSUME IInv, SInv, NEW i \in Asks, Read(i) PROVE SInv'
<1> PICK s : s = stream[i]
  OBVIOUS
<1>1. s.at = "reading" /\ view' = view
  BY DEF Read
<1>a. \E upTo \in s.read + 1 .. Min({s.read + MaxChunk, Len(Wire[s.sent])}) :
        ReadUpTo(i, s, upTo, Push(s.parser, SubSeq(Wire[s.sent], s.read + 1, upTo)))
  <2>1. PICK upTo \in stream[i].read + 1 .. Min({stream[i].read + MaxChunk, Len(Wire[stream[i].sent])}) :
          \E p \in {Push(stream[i].parser, SubSeq(Wire[stream[i].sent], stream[i].read + 1, upTo))} :
            ReadUpTo(i, stream[i], upTo, p)
    BY DEF Read, ReadUpTo
  <2>2. ReadUpTo(i, stream[i], upTo,
                 Push(stream[i].parser, SubSeq(Wire[stream[i].sent], stream[i].read + 1, upTo)))
    BY <2>1
  <2> QED
    BY <2>1, <2>2
<1>b. PICK upTo \in s.read + 1 .. Min({s.read + MaxChunk, Len(Wire[s.sent])}) :
        ReadUpTo(i, s, upTo, Push(s.parser, SubSeq(Wire[s.sent], s.read + 1, upTo)))
  BY <1>a
<1> PICK p : p = Push(s.parser, SubSeq(Wire[s.sent], s.read + 1, upTo))
  OBVIOUS
<1>2. ReadUpTo(i, s, upTo, p)
  BY <1>b
<1> PICK events, at, parser, s2 :
       /\ events = IF Oversize(p) THEN <<"client_error">> ELSE Events(p.frames)
       /\ at = CASE Oversize(p) -> "last"
                 [] ~Oversize(p) /\ events # <<>> -> "yielding"
                 [] OTHER -> "reading"
       /\ parser = [p EXCEPT !.frames = <<>>]
       /\ s2 = [s EXCEPT !.read = upTo, !.parser = parser, !.events = events, !.at = at]
  OBVIOUS
<1>3. Advance(i, s2)
  BY <1>2 DEF ReadUpTo
<1>d. s2 = [s EXCEPT !.read = upTo, !.parser = parser, !.events = events, !.at = at]
  OBVIOUS
<1>4. IsStream(s) /\ InStride(s, i, view) /\ s.events = <<>>
  BY <1>1 DEF SInv, CallOK
<1>5. /\ IsStream(s2) /\ s2.at = at /\ s2.events = events
      /\ s2.sent = s.sent /\ s2.read = upTo /\ s2.parser = parser
  <2>1. IsStream(s)
    BY <1>4
  <2>2. PICK a, b, c, d, e, f : s = Call(a, b, c, d, e, f)
    BY <2>1 DEF IsStream
  <2>3. s2 = Call(at, b, upTo, parser, events, f)
    BY ONLY <1>d, <2>2 DEF Call
  <2>4. s.sent = b
    BY ONLY <2>2, CallGet
  <2>5. /\ IsStream(s2) /\ s2.at = at /\ s2.sent = b /\ s2.read = upTo /\ s2.parser = parser
        /\ s2.events = events
    BY ONLY <2>3, CallGet
  <2> QED
    BY ONLY <2>4, <2>5
<1> PICK t, r : t = s.sent /\ r = s.read
  OBVIOUS
<1>6. PICK k0, k, q :
         /\ Parsing(t, s.parser, r, k, q, <<>>) /\ Carries(t.script, <<>>, k0, k)
         /\ view.question = i /\ view.phase = "asking" => Shows(view, t.script, k0)
  BY <1>4 DEF InStride
<1>7. t \in Transcripts
  BY <1>4 DEF InStride
<1>8. upTo \in Nat /\ r < upTo /\ upTo <= Len(Wire[t])
  <2>1. r \in Nat
    BY <1>6 DEF Parsing
  <2>2. Len(Wire[t]) \in Nat
    BY <1>7, WireShape
  <2> PICK a, b : a = r + MaxChunk /\ b = Len(Wire[t])
    OBVIOUS
  <2>3. a \in Nat /\ b \in Nat
    BY <2>1, <2>2, BoundsAssumption
  <2>4. Min({a, b}) \in Nat /\ Min({a, b}) <= b
    BY <2>3 DEF Min
  <2>5. upTo \in r + 1 .. Min({a, b})
    OBVIOUS
  <2> QED
    BY <2>1, <2>3, <2>4, <2>5
<1>9. InStep(t, p, upTo, k0)
  <2>1. p = Push(s.parser, SubSeq(Wire[t], r + 1, upTo))
    OBVIOUS
  <2>2. Parsing(t, s.parser, r, k, q, <<>>) /\ Carries(t.script, <<>>, k0, k)
    BY <1>6
  <2> QED
    BY ONLY <1>7, <1>8, <2>1, <2>2, Pushed
<1>p. PICK k2, q2, f3, s3 : StepsBy(t, p, upTo, k0, k2, q2, f3, s3)
  BY <1>9 DEF InStep
<1>10. /\ s3 \in Seq(ToSet(t.script)) /\ Parsing(t, p, upTo, k2, q2, f3)
       /\ Carries(t.script, s3, k0, k2) /\ FramesSay(f3, s3)
  BY <1>p DEF StepsBy
<1>11. Parsing(t, parser, upTo, k2, q2, <<>>) /\ p.frames = f3
  BY <1>10, FramesTaken
<1>12. Events(p.frames) = s3
  BY <1>10, <1>11, EventsAre
<1>13. CASE Oversize(p)
  <2>1. s2.at = "last" /\ s2.events = <<"client_error">>
    BY <1>5, <1>13
  <2>2. CallOK(s2, i, view)
    BY <1>5, <2>1 DEF CallOK
  <2> QED
    BY <1>1, <1>3, <1>5, <2>1, <2>2, QuietSInv
<1>14. CASE ~Oversize(p)
  <2>1. events = s3
    BY <1>12, <1>14
  <2>2. InStride(s2, i, view)
    <3>1. /\ s2.sent \in Transcripts /\ s2.events \in Seq(ToSet(s2.sent.script))
          /\ Parsing(s2.sent, s2.parser, s2.read, k2, q2, <<>>)
          /\ Carries(s2.sent.script, s2.events, k0, k2)
          /\ view.question = i /\ view.phase = "asking" => Shows(view, s2.sent.script, k0)
      BY <1>5, <1>6, <1>7, <1>10, <1>11, <2>1
    <3> QED
      BY ONLY <3>1 DEF InStride
  <2>3. at = IF events # <<>> THEN "yielding" ELSE "reading"
    BY <1>14
  <2>4. CallOK(s2, i, view)
    BY <1>5, <2>2, <2>3 DEF CallOK
  <2> QED
    BY <1>1, <1>3, <1>5, <2>3, <2>4, QuietSInv
<1> QED
  BY <1>13, <1>14

(* What an event does to the view of its own question. *)
LEMMA ViewKept ==
  ASSUME NEW v, IsView(v), NEW i, NEW event
  PROVE  LET v2 == Applied(v, i, event) IN
         /\ v2.question = v.question
         /\ v.phase # "asking" => v2 = v
BY DEF Applied, IsView

(* An event in hand reaches the page, or finds its signal aborted. *)
LEMMA YieldSInv ==
  ASSUME IInv, SInv, NEW i \in Asks, Yield(i) PROVE SInv'
<1> PICK s, ev, rest : s = stream[i] /\ ev = Head(s.events) /\ rest = Tail(s.events)
  OBVIOUS
<1>0. s.at = "yielding" /\ i \in Open
  BY DEF Yield, Open
<1>1. CASE i \in aborted
  <2>1. Advance(i, Over(stream[i])) /\ view' = view
    BY <1>1 DEF Yield
  <2> QED
    BY <1>0, <2>1, OverSInv
<1>2. CASE i \notin aborted
  <2> PICK s2, at, v2 : /\ at = IF Len(s.events) = 1 THEN "reading" ELSE "yielding"
                        /\ s2 = [s EXCEPT !.events = rest, !.at = at]
                        /\ v2 = Applied(view, i, ev)
    OBVIOUS
  <2>s. s2 = [s EXCEPT !.events = rest, !.at = at]
    OBVIOUS
  <2>1. view' = v2 /\ Advance(i, s2)
    BY <1>0, <1>2 DEF Yield
  <2>2. i = view.question /\ IsView(view)
    BY <1>0, <1>2 DEF IInv, OneReachesThePage, Shaped
  <2>3. IsStream(s) /\ InStride(s, i, view) /\ s.events # <<>> /\ s.at # "none"
    BY <1>0 DEF SInv, CallOK
  <2>4. Keeps(s, s2, at, rest)
    BY ONLY <2>3, <2>s, StreamUpdates
  <2> PICK t, script, T : t = s.sent /\ script = t.script /\ T = ToSet(t.script)
    OBVIOUS
  <2>5. t \in Transcripts /\ s.events \in Seq(T) /\ script \in Seq(T) /\ Len(script) \in Nat
    BY <2>3, StyleIs DEF InStride
  <2>6. PICK k0, k, q :
          /\ Parsing(t, s.parser, s.read, k, q, <<>>) /\ Carries(script, s.events, k0, k)
          /\ view.phase = "asking" => Shows(view, script, k0)
    BY <2>2, <2>3 DEF InStride
  <2>7. k0 \in Nat /\ k \in Nat /\ k <= Len(script)
    BY <2>5, <2>6 DEF Carries, Parsing
  <2>8. PICK k1 \in k0 + 1 .. k :
          /\ script[k1] = ev /\ ev \notin Silent
          /\ \A x \in k0 + 1 .. k1 - 1 : script[x] \in Silent
          /\ Carries(script, rest, k1, k)
    BY <2>3, <2>5, <2>6, CarriesFirst
  <2>9. k1 \in Nat /\ k0 < k1 /\ k1 \in DOMAIN script
    BY <2>5, <2>7, <2>8
  <2>10. rest \in Seq(T) /\ Len(rest) = Len(s.events) - 1 /\ Len(s.events) \in Nat
      <3> PICK e : e = s.events
      OBVIOUS
    <3>1. e \in Seq(T) /\ e # <<>>
      BY <2>3, <2>5
    <3>2. Tail(e) \in Seq(T) /\ Len(Tail(e)) = Len(e) - 1
      BY ONLY <3>1, HeadTailProperties
    <3> QED
      BY <3>1, <3>2
  <2>11. v2.question = i /\ (view.phase # "asking" => v2 = view)
    BY <2>2, ViewKept
  <2>12. view.phase = "asking" =>
           /\ v2.phase \in {"asking", "answered"} => Shows(v2, script, k1)
           /\ v2.phase = "answered" => ev = "done"
           /\ v2.failure = view.failure \/ v2.failure = ev
    <3> HAVE view.phase = "asking"
    <3>1. Shows(view, script, k0)
      BY <2>6
    <3>2. ev = script[k1] /\ \A x \in k0 + 1 .. k1 - 1 : script[x] \in Silent
      BY <2>8
    <3>3. IsView(view) /\ k0 \in Nat /\ k1 \in Nat /\ k0 < k1
      BY <2>2, <2>7, <2>9
    <3> QED
      BY <3>1, <3>2, <3>3, AppliedShows
  <2>13. InStride(s2, i, v2)
    <3>1. /\ s2.sent = t /\ s2.events = rest /\ s2.parser = s.parser /\ s2.read = s.read
      BY <2>4 DEF Keeps
    <3>2. v2.question = i /\ v2.phase = "asking" => Shows(v2, script, k1)
      BY <2>11, <2>12
    <3>3. /\ s2.sent \in Transcripts /\ s2.events \in Seq(ToSet(s2.sent.script))
          /\ Parsing(s2.sent, s2.parser, s2.read, k, q, <<>>)
          /\ Carries(s2.sent.script, s2.events, k1, k)
          /\ v2.question = i /\ v2.phase = "asking" => Shows(v2, s2.sent.script, k1)
      BY <2>5, <2>6, <2>8, <2>10, <3>1, <3>2
    <3> QED
      BY ONLY <3>3 DEF InStride
  <2>14. s2.at = "reading" => s2.events = <<>>
    <3>1. s2.at = at /\ s2.events = rest
      BY <2>4 DEF Keeps
    <3>2. at = "reading" => Len(rest) = 0
      BY <2>10
    <3> QED
      BY <2>10, <3>1, <3>2, EmptySeq
  <2>15. s2.at = "yielding" => s2.events # <<>>
    <3>1. s2.at = at /\ s2.events = rest
      BY <2>4 DEF Keeps
    <3>2. at = "yielding" => Len(rest) # 0
      BY <2>10
    <3> QED
      BY <2>10, <3>1, <3>2, EmptySeq
  <2>16. IsStream(s2) /\ s2.at \in {"reading", "yielding"} /\ s2.sent = t
    BY <2>4 DEF Keeps
  <2>17. CallOK(s2, i, v2)
    BY <2>13, <2>14, <2>15, <2>16 DEF CallOK
  <2>18. TrueOf(view, script)
    <3>1. view.question # 0
      BY <2>2 DEF Asks
    <3> QED
      BY <2>2, <3>1 DEF SInv, SentScript
  <2>19. TrueOf(v2, script)
    <3>1. CASE view.phase # "asking"
      BY <2>11, <2>18, <3>1
    <3>2. CASE view.phase = "asking"
      <4>1. v2.failure = "error" => script = <<>> \/ \E x \in DOMAIN script : script[x] \in {"error"}
        BY <2>8, <2>9, <2>12, <2>18, <3>2 DEF TrueOf
      <4>2. CASE v2.phase = "answered"
        <5>1. ev = "done" /\ Shows(v2, script, k1)
          BY <2>12, <3>2, <4>2
        <5>2. k1 = Len(script)
          BY <2>5, <2>8, <2>9, <5>1, TranscriptAssumption
        <5>3. DOMAIN script = 1 .. k1
          BY <2>5, <5>2
        <5>4. \E x \in DOMAIN script : script[x] \in {"done"}
          BY <2>8, <2>9, <5>1
        <5>5. /\ v2.sql # 0 <=> \E x \in DOMAIN script : script[x] \in {"sql"}
              /\ v2.rows # 0 <=> \E x \in DOMAIN script : script[x] \in {"rows", "big_rows"}
              /\ v2.stages = Cardinality({x \in DOMAIN script : script[x] = "stage"})
          BY <5>1, <5>3 DEF Shows, Said
        <5> QED
          BY <4>1, <5>4, <5>5 DEF TrueOf
      <4>3. CASE v2.phase # "answered"
        BY <4>1, <4>3 DEF TrueOf
      <4> QED
        BY <4>2, <4>3
    <3> QED
      BY <3>1, <3>2
  <2>20. /\ i = view.question /\ stream[i].at # "none" /\ Advance(i, s2) /\ s2.at # "none"
         /\ s2.sent = stream[i].sent /\ CallOK(s2, i, view') /\ view'.question = view.question
         /\ TrueOf(view', s2.sent.script)
    BY <2>1, <2>2, <2>3, <2>11, <2>16, <2>17, <2>19
  <2> QED
    BY <2>20, ShowSInv
<1> QED
  BY <1>1, <1>2

(* The one event of a stream that ended in an error. *)
LEMMA YieldLastSInv ==
  ASSUME IInv, SInv, NEW i \in Asks, YieldLast(i) PROVE SInv'
<1> PICK s, ev, s2 : s = stream[i] /\ ev = Head(s.events) /\ s2 = Over(s)
  OBVIOUS
<1>0. s.at = "last" /\ i \in Open /\ Advance(i, s2)
  BY DEF YieldLast, Open
<1>1. CASE i \in aborted
  <2>1. view' = view
    BY <1>1 DEF YieldLast
  <2> QED
    BY <1>0, <2>1, OverSInv
<1>2. CASE i \notin aborted
  <2>1. view' = Applied(view, i, ev)
    BY <1>2 DEF YieldLast
  <2>2. i = view.question /\ IsView(view)
    BY <1>0, <1>2 DEF IInv, OneReachesThePage, Shaped
  <2>3. ev = "client_error" \/ (ev = "error" /\ s.sent = NoTranscript)
    <3>1. s.events = <<"client_error">> \/ (s.events = <<"error">> /\ s.sent = NoTranscript)
      BY <1>0 DEF SInv, CallOK
    <3> QED
      BY <3>1
  <2>4. view'.question = view.question /\ (view.phase # "asking" => view' = view)
    BY <2>1, <2>2, ViewKept
  <2>5. view.phase = "asking" => view'.phase = "failed" /\ view'.failure = ev
    BY <2>1, <2>2, <2>3 DEF Applied, IsView
  <2>6. IsStream(s2) /\ s2.at = "over" /\ s2.sent = s.sent
    BY StreamEnds
  <2>7. CallOK(s2, i, view')
    BY <2>6 DEF CallOK
  <2>8. TrueOf(view, s.sent.script)
    <3>1. view.question # 0
      BY <2>2 DEF Asks
    <3> QED
      BY <2>2, <3>1 DEF SInv, SentScript
  <2>9. TrueOf(view', s.sent.script)
    <3>1. NoTranscript.script = <<>>
      BY DEF NoTranscript
    <3>2. CASE view.phase = "asking"
      BY <2>3, <2>5, <3>1, <3>2 DEF TrueOf
    <3>3. CASE view.phase # "asking"
      BY <2>4, <2>8, <3>3
    <3> QED
      BY <3>2, <3>3
  <2>10. /\ i = view.question /\ stream[i].at # "none" /\ Advance(i, s2) /\ s2.at # "none"
         /\ s2.sent = stream[i].sent /\ CallOK(s2, i, view') /\ view'.question = view.question
         /\ TrueOf(view', s2.sent.script)
    BY <1>0, <2>2, <2>4, <2>6, <2>7, <2>9
  <2> QED
    BY <2>10, ShowSInv
<1> QED
  BY <1>1, <1>2

(* Every turn of a stream keeps SInv. *)
LEMMA TurnSInv ==
  ASSUME IInv, SInv, NEW i \in Asks, Turn(i) PROVE SInv'
<1>1. CASE Unreachable(i)
  <2>1. /\ Advance(i, [stream[i] EXCEPT !.at = "last", !.events = <<"client_error">>])
        /\ i \in Open /\ view' = view
    BY <1>1 DEF Unreachable, Open
  <2> QED
    BY <2>1, ClientErrorSInv
<1>2. CASE Refused(i)
  BY <1>2, RefusedSInv
<1>3. CASE Accepted(i)
  BY <1>3, AcceptedSInv
<1>4. CASE Read(i)
  BY <1>4, ReadSInv
<1>5. CASE Yield(i)
  BY <1>5, YieldSInv
<1>6. CASE YieldLast(i)
  BY <1>6, YieldLastSInv
<1>7. CASE CloseStream(i)
  <2>0. i \in Open /\ view' = view
    BY <1>7 DEF CloseStream, Open
  <2>1. CASE PendingTail(stream[i].parser)
    <3>1. Advance(i, [stream[i] EXCEPT !.at = "last", !.events = <<"client_error">>])
      BY <1>7, <2>1 DEF CloseStream
    <3> QED
      BY <2>0, <3>1, ClientErrorSInv
  <2>2. CASE ~PendingTail(stream[i].parser)
    <3>1. PICK cut : Advance(i, [Over(stream[i]) EXCEPT !.cut = cut])
      BY <1>7, <2>2 DEF CloseStream
    <3> QED
      BY <2>0, <3>1, OverSInv
  <2> QED
    BY <2>1, <2>2
<1>8. CASE Drop(i)
  <2>1. /\ Advance(i, [stream[i] EXCEPT !.at = "last", !.events = <<"client_error">>])
        /\ i \in Open /\ view' = view
    BY <1>8 DEF Drop, Open
  <2> QED
    BY <2>1, ClientErrorSInv
<1>9. CASE AbortSeen(i)
  <2>1. i \in Open /\ Advance(i, Over(stream[i])) /\ view' = view
    BY <1>9 DEF AbortSeen, Open
  <2> QED
    BY <2>1, OverSInv
<1> QED
  BY <1>1, <1>2, <1>3, <1>4, <1>5, <1>6, <1>7, <1>8, <1>9 DEF Turn

(* However the network cuts a stream and whatever is stopped, overtaken or   *)
(* dropped, an answer on the page shows every stage, the SQL and the rows    *)
(* that were sent, except rows that are no JSON (web/src/api/sse.ts,         *)
(* client.ts, events.ts, state/reducer.ts), and a failure is the server's    *)
(* only if the server sent one.                                              *)
THEOREM AnswersShowWhatWasSent == Spec => []ShownIsSent
<1>1. IInv /\ SInv /\ [Next]_vars => SInv'
  <2> SUFFICES ASSUME IInv, SInv, [Next]_vars PROVE SInv'
    OBVIOUS
  <2>1. CASE UNCHANGED vars
    BY <2>1 DEF vars, SInv, InOrder, SentScript
  <2> QED
    BY <2>1, PersonSInv, TurnSInv DEF Next
<1>2. SInv => ShownIsSent
  BY ShownIs DEF SInv
<1> QED
  BY <1>1, <1>2, InitSInv, SpecIInv, PTL DEF Spec
===============================================================================
