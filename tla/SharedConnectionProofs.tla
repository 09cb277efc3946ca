------------------------- MODULE SharedConnectionProofs -------------------------
(***************************************************************************)
(* For any number of threads sharing a connection: nobody's transaction is *)
(* ended by somebody else, and while they take turns nothing is lost.      *)
(***************************************************************************)
EXTENDS SharedConnection, FiniteSetTheorems, WellFoundedInduction, TLAPS

(* The nesting level counts at least the blocks that are open (and the ones *)
(* whose SAVEPOINT was refused).                                            *)
Counted == Cardinality(Inside) <= num

(* An idle session has nesting level zero and is not broken. *)
IdleIsClean == open /\ stack = <<>> => num = 0 /\ ~broken

(* The block that issued BEGIN was entered at level zero. *)
OuterAtZero == \A b \in Inside : outer[b] => idx[b] = 0

(* The inductive invariant. *)
IInv == TypeOK /\ Counted /\ IdleIsClean /\ OuterAtZero

(* Open blocks are finitely many, and there is none only at count zero. *)
LEMMA InsideFinite ==
  /\ IsFiniteSet(Inside)
  /\ Cardinality(Inside) \in Nat
  /\ Cardinality(Inside) = 0 <=> Inside = {}
BY UsersAssumption, FS_Subset, FS_CardinalityType, FS_EmptySet DEF Inside

(* Init establishes the inductive invariant. *)
LEMMA InitIInv == Init => IInv
<1> SUFFICES ASSUME Init PROVE IInv
  OBVIOUS
<1>1. Inside = {}
  BY DEF Init, Inside
<1>2. Counted /\ IdleIsClean /\ OuterAtZero
  BY <1>1, FS_EmptySet DEF Init, Counted, IdleIsClean, OuterAtZero
<1>3. /\ outer \in [Blocks -> BOOLEAN] /\ guilty \in [Blocks -> BOOLEAN]
      /\ broken \in BOOLEAN /\ overlap \in BOOLEAN /\ open \in BOOLEAN
  BY Zenon DEF Init
<1>4. /\ num \in Nat /\ stack \in Seq(Frame) /\ idx \in [Blocks -> Nat]
      /\ block \in [Blocks -> BlockStates] /\ row \in [Writers -> RowStates]
      /\ durable \subseteq Writers
  BY DEF Init, BlockStates, RowStates
<1> QED
  BY <1>2, <1>3, <1>4, Zenon DEF IInv, TypeOK

(* A bounded, non-empty set of numbers has a greatest element. *)
LEMMA Greatest ==
  ASSUME NEW m \in Nat, NEW S \in SUBSET (1 .. m), S # {}
  PROVE  \E x \in S : \A y \in S : y <= x
<1> DEFINE T == {m - x : x \in S}
<1> DEFINE lt == OpToRel(<, Nat)
<1>1. T \subseteq Nat /\ T # {}
  <2>1. \A x \in S : m - x \in Nat
    OBVIOUS
  <2>2. T \subseteq Nat
    BY <2>1
  <2> QED
    BY <2>2
<1>2. IsWellFoundedOn(lt, Nat)
  BY NatLessThanWellFounded
<1>3. \E t \in T : \A u \in T : ~(<<u, t>> \in lt)
  <2> HIDE DEF T, lt
  <2> QED
    BY <1>1, <1>2, WFMin
<1>4. PICK x \in S : \A y \in S : ~(m - y < m - x)
  BY <1>1, <1>3 DEF OpToRel
<1>5. \A y \in S : y <= x
  BY <1>4
<1> QED
  BY <1>5

(* The savepoint commands keep the first frame: they never end the session. *)
LEMMA SavepointFrames ==
  ASSUME TypeOK, NEW n \in Nat, Positions(n) # {}
  PROVE  /\ Released(n) \in Seq(Frame) /\ Released(n) # <<>>
         /\ RolledBackTo(n) \in Seq(Frame) /\ RolledBackTo(n) # <<>>
<1> DEFINE k == Latest(n)
           kept == SubSeq(stack, 1, k - 1)
           joined == UNION {stack[i].rows : i \in k - 1 .. Len(stack)}
<1>0. stack \in Seq(Frame) /\ Len(stack) \in Nat
  BY DEF TypeOK
<1>1. Positions(n) \subseteq 2 .. Len(stack)
  BY <1>0 DEF Positions
<1>2. k \in 2 .. Len(stack)
  <2>1. Positions(n) \in SUBSET (1 .. Len(stack))
    BY <1>0, <1>1
  <2>2. \E i \in Positions(n) : \A j \in Positions(n) : j <= i
    BY <1>0, <2>1, Greatest
  <2> QED
    BY <1>1, <2>2 DEF Latest
<1>3. /\ kept \in Seq(Frame)
      /\ Len(kept) = k - 1
      /\ k - 1 \in 1 .. Len(kept)
      /\ \A i \in 1 .. k - 1 : kept[i] \in Frame
  <2>1. \A i \in 1 .. Len(stack) : stack[i] \in Frame
    BY <1>0
  <2> HIDE DEF k
  <2> QED
    BY <1>0, <1>2, <2>1
<1>4. joined \in SUBSET Writers
  <2>1. \A i \in k - 1 .. Len(stack) : stack[i].rows \in SUBSET Writers
    <3>1. \A i \in 1 .. Len(stack) : stack[i] \in Frame
      BY <1>0
    <3> HIDE DEF k
    <3>2. \A i \in k - 1 .. Len(stack) : i \in 1 .. Len(stack)
      BY <1>0, <1>2
    <3> QED
      BY <3>1, <3>2 DEF Frame
  <2> QED
    BY <2>1
<1>5. Released(n) = [kept EXCEPT ![k - 1].rows = joined] /\ RolledBackTo(n) = kept
  BY DEF Released, RolledBackTo
<1>6. [kept EXCEPT ![k - 1].rows = joined] \in Seq(Frame)
  <2> HIDE DEF kept, joined, k
  <2>1. [kept[k - 1] EXCEPT !.rows = joined] \in Frame
    BY <1>3, <1>4 DEF Frame
  <2> QED
    BY <1>3, <2>1
<1>7. Len([kept EXCEPT ![k - 1].rows = joined]) = k - 1
  <2> HIDE DEF kept, joined, k
  <2> QED
    BY <1>3, <1>6
<1> HIDE DEF kept, joined, k
<1> QED
  BY <1>2, <1>3, <1>5, <1>6, <1>7

-------------------------------------------------------------------------------
(* What the number of open blocks does when one is entered or left. *)
LEMMA InsideMoves ==
  ASSUME TypeOK, NEW b \in Blocks, NEW state \in BlockStates,
         block' = [block EXCEPT ![b] = state]
  PROVE  /\ state \in {"entered", "worked", "raised"} => Inside' = Inside \cup {b}
         /\ state \notin {"entered", "worked", "raised"} => Inside' = Inside \ {b}
BY DEF TypeOK, Inside

(* Enter preserves the invariant. *)
LEMMA EnterStep ==
  ASSUME IInv, NEW b \in Blocks, Enter(b) PROVE IInv'
<1> USE DEF IInv
<1>1. /\ idx' = [idx EXCEPT ![b] = num] /\ num' = num + 1
      /\ outer' = [outer EXCEPT ![b] = (stack = <<>>)]
      /\ broken' = broken /\ open' = open /\ open
      /\ b \notin Inside
  BY DEF Enter, Inside
<1>2. /\ idx' \in [Blocks -> Nat] /\ num' \in Nat
  BY <1>1 DEF TypeOK
<1>3. outer' \in [Blocks -> BOOLEAN] /\ overlap' \in BOOLEAN
  BY Zenon DEF Enter, TypeOK
<1>4. CASE broken /\ block' = [block EXCEPT ![b] = "failed"] /\ stack' = stack
  <2>1. Inside' = Inside
    BY <1>1, <1>4 DEF Inside, TypeOK
  <2>2. TypeOK'
    BY <1>1, <1>2, <1>3, <1>4 DEF TypeOK, Enter, BlockStates
  <2>3. Counted'
    BY <1>1, <2>1, InsideFinite DEF Counted, TypeOK
  <2>4. IdleIsClean'
    BY <1>1, <1>4 DEF IdleIsClean
  <2>5. OuterAtZero'
    BY <1>1, <2>1 DEF OuterAtZero, TypeOK, Inside
  <2> QED
    BY <2>2, <2>3, <2>4, <2>5
<1>5. CASE /\ ~broken /\ block' = [block EXCEPT ![b] = "entered"]
           /\ stack' = Append(stack, [name |-> num + 1, rows |-> {}])
  <2>1. Inside' = Inside \cup {b}
    BY <1>5, InsideMoves DEF BlockStates
  <2>2. stack' \in Seq(Frame) /\ stack' # <<>>
    <3>1. [name |-> num + 1, rows |-> {}] \in Frame
      BY DEF Frame, TypeOK
    <3> QED
      BY <1>5, <3>1 DEF TypeOK
  <2>3. TypeOK'
    BY <1>1, <1>2, <1>3, <1>5, <2>2 DEF TypeOK, Enter, BlockStates
  <2>4. Counted'
    <3>1. Cardinality(Inside') = Cardinality(Inside) + 1
      BY <1>1, <2>1, InsideFinite, FS_AddElement
    <3>2. Cardinality(Inside) <= num /\ Cardinality(Inside) \in Nat /\ num \in Nat
      BY InsideFinite DEF Counted, TypeOK
    <3> QED
      BY <1>1, <3>1, <3>2 DEF Counted
  <2>5. IdleIsClean'
    BY <2>2 DEF IdleIsClean
  <2>6. OuterAtZero'
    <3>1. outer'[b] => idx'[b] = 0
      BY <1>1 DEF TypeOK, IdleIsClean
    <3>2. \A c \in Inside : outer'[c] = outer[c] /\ idx'[c] = idx[c]
      BY <1>1 DEF TypeOK, Inside
    <3> QED
      BY <2>1, <3>1, <3>2 DEF OuterAtZero
  <2> QED
    BY <2>3, <2>4, <2>5, <2>6
<1> QED
  BY <1>4, <1>5 DEF Enter

(* Inside a block the level is positive, so the session is not idle. *)
LEMMA InsideNotIdle ==
  ASSUME IInv, Inside # {}
  PROVE  num >= 1 /\ (open => stack # <<>>)
<1>1. Cardinality(Inside) \in Nat \ {0} /\ Cardinality(Inside) <= num /\ num \in Nat
  BY InsideFinite DEF IInv, Counted, TypeOK
<1>2. num # 0
  BY <1>1
<1> QED
  BY <1>1, <1>2 DEF IInv, IdleIsClean

(* Work preserves the invariant. *)
LEMMA WorkStep ==
  ASSUME IInv, NEW b \in Blocks, Work(b) PROVE IInv'
<1> USE DEF IInv
<1>1. b \in Inside
  BY DEF Work, Inside
<1>2. PICK state \in {"worked", "raised"} : block' = [block EXCEPT ![b] = state]
  BY DEF Work
<1>3. Inside' = Inside
  BY <1>1, <1>2 DEF Inside, TypeOK
<1>4. UNCHANGED <<num, stack, idx, outer, row, durable, overlap, open>>
  BY DEF Work
<1>5. broken' \in BOOLEAN /\ guilty' \in [Blocks -> BOOLEAN]
  BY Zenon DEF Work, TypeOK
<1>6. TypeOK'
  BY <1>2, <1>4, <1>5 DEF TypeOK, BlockStates
<1>7. Counted' /\ OuterAtZero'
  BY <1>3, <1>4 DEF Counted, OuterAtZero
<1>8. IdleIsClean'
  BY <1>1, <1>4, InsideNotIdle DEF IdleIsClean
<1> QED
  BY <1>6, <1>7, <1>8

(* Leave preserves the invariant. *)
LEMMA LeaveStep ==
  ASSUME IInv, NEW b \in Blocks, Leave(b) PROVE IInv'
<1> USE DEF IInv
<1>1. b \in Inside /\ num >= 1 /\ (open => stack # <<>>)
  BY InsideNotIdle DEF Leave, Inside
<1>2. PICK state \in {"ok", "failed"} : block' = [block EXCEPT ![b] = state]
  BY DEF Leave, Commit, Rollback
<1>3. Inside' = Inside \ {b}
  BY <1>2 DEF Inside, TypeOK
<1>4. num' = num - 1 /\ UNCHANGED <<idx, outer, guilty, row, overlap, open>>
  BY DEF Leave
<1>5. Counted' /\ num' \in Nat
  <2>1. Cardinality(Inside') = Cardinality(Inside) - 1
    BY <1>1, <1>3, InsideFinite, FS_RemoveElement
  <2>2. Cardinality(Inside) <= num /\ Cardinality(Inside) \in Nat /\ num \in Nat
    BY InsideFinite DEF Counted, TypeOK
  <2> QED
    BY <1>1, <1>4, <2>1, <2>2 DEF Counted
<1>6. OuterAtZero'
  BY <1>3, <1>4 DEF OuterAtZero
<1>7. Pending \subseteq Writers
  <2>1. \A i \in DOMAIN stack : stack[i] \in Frame
    BY DEF TypeOK
  <2>2. \A i \in DOMAIN stack : stack[i].rows \subseteq Writers
    BY <2>1 DEF Frame
  <2> QED
    BY <2>2 DEF Pending
<1>8. /\ stack' \in Seq(Frame) /\ durable' \subseteq Writers /\ broken' \in BOOLEAN
      /\ IdleIsClean'
  <2> DEFINE n == idx[b] + 1
  <2>1. n \in Nat /\ (outer[b] => idx[b] = 0)
    BY <1>1 DEF TypeOK, OuterAtZero
  <2>2. Positions(n) # {} =>
          /\ Released(n) \in Seq(Frame) /\ Released(n) # <<>>
          /\ RolledBackTo(n) \in Seq(Frame) /\ RolledBackTo(n) # <<>>
    BY <2>1, SavepointFrames
  <2>3. <<>> \in Seq(Frame)
    OBVIOUS
  <2>4. CASE UNCHANGED <<stack, broken, durable>>
    BY <1>1, <1>4, <2>4 DEF TypeOK, IdleIsClean
  <2>5. CASE open /\ num' = idx[b] /\ Commit(b)
    <3>1. CASE outer[b]
      BY <1>4, <1>7, <2>1, <2>3, <2>5, <3>1 DEF Commit, TypeOK, IdleIsClean
    <3>2. CASE ~outer[b]
      BY <1>1, <1>4, <2>2, <2>5, <3>2 DEF Commit, TypeOK, IdleIsClean
    <3> QED
      BY <3>1, <3>2
  <2>6. CASE open /\ num' = idx[b] /\ Rollback(b)
    <3>1. CASE outer[b]
      BY <1>4, <2>1, <2>3, <2>6, <3>1 DEF Rollback, TypeOK, IdleIsClean
    <3>2. CASE ~outer[b]
      BY <1>1, <1>4, <2>2, <2>6, <3>2 DEF Rollback, TypeOK, IdleIsClean
    <3> QED
      BY <3>1, <3>2
  <2> QED
    BY <2>4, <2>5, <2>6 DEF Leave
<1>9. TypeOK'
  BY <1>2, <1>4, <1>5, <1>8 DEF TypeOK, BlockStates
<1> QED
  BY <1>5, <1>6, <1>8, <1>9

(* LeaveClosed preserves the invariant. *)
LEMMA LeaveClosedStep ==
  ASSUME IInv, NEW b \in Blocks, LeaveClosed(b) PROVE IInv'
<1> USE DEF IInv
<1>1. PICK state \in {"ok", "failed"} : block' = [block EXCEPT ![b] = state]
  BY DEF LeaveClosed
<1>2. UNCHANGED <<num, stack, broken, idx, outer, guilty, row, durable, overlap, open>>
      /\ ~open
  BY DEF LeaveClosed
<1>3. Inside' \subseteq Inside
  BY <1>1 DEF Inside, TypeOK
<1>4. Counted'
  <2>1. Cardinality(Inside') <= Cardinality(Inside) /\ Cardinality(Inside') \in Nat
    BY <1>3, InsideFinite, FS_Subset, FS_CardinalityType
  <2>2. Cardinality(Inside) <= num /\ Cardinality(Inside) \in Nat /\ num \in Nat
    BY InsideFinite DEF Counted, TypeOK
  <2> QED
    BY <1>2, <2>1, <2>2 DEF Counted
<1>5. TypeOK'
  BY <1>1, <1>2 DEF TypeOK, BlockStates
<1>6. OuterAtZero' /\ IdleIsClean'
  BY <1>2, <1>3 DEF OuterAtZero, IdleIsClean
<1> QED
  BY <1>4, <1>5, <1>6

(* Insert and Close preserve the invariant. *)
LEMMA OtherStep ==
  ASSUME IInv, (\E w \in Writers : Insert(w)) \/ Close PROVE IInv'
<1> USE DEF IInv
<1>1. ASSUME NEW w \in Writers, Insert(w) PROVE IInv'
  <2>1. UNCHANGED <<num, block, idx, outer, guilty, open>>
    BY <1>1 DEF Insert
  <2>2. Inside' = Inside
    BY <2>1 DEF Inside
  <2>3. overlap' \in BOOLEAN
    BY <1>1, Zenon DEF Insert, TypeOK
  <2>4. row' \in [Writers -> RowStates] /\ durable' \subseteq Writers
    BY <1>1 DEF Insert, TypeOK, RowStates
  <2>0. broken' \in BOOLEAN /\ (broken' => broken \/ stack # <<>>)
    <3>1. broken' = broken \/ (stack # <<>> /\ broken' = TRUE)
      BY <1>1, Zenon DEF Insert
    <3>2. CASE broken' = broken
      <4>1. broken \in BOOLEAN
        BY DEF TypeOK
      <4> QED
        BY <3>2, <4>1, Zenon
    <3>3. CASE stack # <<>> /\ broken' = TRUE
      BY <3>3, Zenon
    <3> QED
      BY <3>1, <3>2, <3>3, Zenon
  <2>5. stack' \in Seq(Frame) /\ (stack' = <<>> => stack = <<>>)
    <3>1. CASE stack' = stack
      BY <3>1 DEF TypeOK
    <3>2. CASE stack # <<>> /\ stack' = [stack EXCEPT ![Len(stack)].rows = @ \cup {w}]
      <4>1. Len(stack) \in 1 .. Len(stack) /\ stack[Len(stack)] \in Frame
        BY <3>2 DEF TypeOK
      <4>2. [stack[Len(stack)] EXCEPT !.rows = @ \cup {w}] \in Frame
        BY <4>1 DEF Frame
      <4> QED
        BY <3>2, <4>1, <4>2 DEF TypeOK
    <3> QED
      BY <1>1, <3>1, <3>2 DEF Insert
  <2>6. TypeOK'
    BY <2>0, <2>1, <2>3, <2>4, <2>5 DEF TypeOK
  <2>7. IdleIsClean'
    BY <2>0, <2>1, <2>5 DEF IdleIsClean
  <2> QED
    BY <2>1, <2>2, <2>6, <2>7 DEF Counted, OuterAtZero
<1>2. CASE Close
  <2>1. Inside' = Inside
    BY <1>2 DEF Close, Inside
  <2>2. stack' \in Seq(Frame) /\ broken' \in BOOLEAN /\ open' = FALSE
    <3>1. <<>> \in Seq(Frame)
      OBVIOUS
    <3>2. stack' = <<>> /\ broken' = FALSE /\ open' = FALSE
      BY <1>2 DEF Close
    <3>3. stack' \in Seq(Frame)
      BY <3>1, <3>2, Zenon
    <3> QED
      BY <3>2, <3>3, Zenon
  <2>3. UNCHANGED <<num, block, idx, outer, guilty, row, durable, overlap>>
    BY <1>2 DEF Close
  <2>4. TypeOK'
    BY <2>2, <2>3 DEF TypeOK
  <2> QED
    BY <2>1, <2>2, <2>3, <2>4 DEF Counted, IdleIsClean, OuterAtZero
<1> QED
  BY <1>1, <1>2

-------------------------------------------------------------------------------
(* The inductive invariant holds in every reachable state. *)
THEOREM SpecIInv == Spec => []IInv
<1>1. IInv /\ [Next]_vars => IInv'
  <2> SUFFICES ASSUME IInv, [Next]_vars PROVE IInv'
    OBVIOUS
  <2>1. CASE UNCHANGED vars
    BY <2>1 DEF IInv, TypeOK, Counted, IdleIsClean, OuterAtZero, Inside, vars
  <2>2. CASE Next
    BY <2>2, EnterStep, WorkStep, LeaveStep, LeaveClosedStep, OtherStep DEF Next
  <2> QED
    BY <2>1, <2>2
<1> QED
  BY <1>1, InitIInv, PTL DEF Spec

(* Whatever the threads do, an idle session is one nobody is using: no      *)
(* thread's transaction is committed or rolled back by another thread.      *)
THEOREM NeverEndedUnderfoot == Spec => []IdleOnlyWhenUnused
<1>1. IInv => IdleOnlyWhenUnused
  <2> SUFFICES ASSUME IInv, open, stack = <<>> PROVE Inside = {} /\ num = 0
    BY DEF IdleOnlyWhenUnused
  <2>1. num = 0
    BY DEF IInv, IdleIsClean
  <2> QED
    BY <2>1, InsideNotIdle
<1> QED
  BY <1>1, SpecIInv, PTL

-------------------------------------------------------------------------------
(* A connection used by one thread at a time: whoever is inside issued      *)
(* BEGIN at level zero, and a broken transaction is its own doing.          *)
AloneInside ==
    \A b \in Inside :
      /\ Inside = {b} /\ num = 1 /\ idx[b] = 0 /\ outer[b] = TRUE /\ stack # <<>>
      /\ broken => block[b] = "raised"
      /\ block[b] = "raised" => guilty[b] = TRUE

IdleOutside == Inside = {} => num = 0 /\ stack = <<>> /\ broken = FALSE

OwnFailures == \A b \in Blocks : block[b] = "failed" => guilty[b] = TRUE

RowsCommitted == \A w \in Writers : row[w] \in {"none", "refused"} \/ w \in durable

(* The inductive invariant of serial use. *)
SerialInv == ~overlap /\ open => AloneInside /\ IdleOutside /\ OwnFailures /\ RowsCommitted

(* A block of a connection used serially enters an idle session. *)
LEMMA SerialEnter ==
  ASSUME IInv, SerialInv, NEW b \in Blocks, Enter(b), ~overlap', open'
  PROVE  (AloneInside /\ IdleOutside /\ OwnFailures /\ RowsCommitted)'
<1>1. ~overlap /\ open /\ Inside = {} /\ open'
  BY DEF Enter
<1>2. AloneInside /\ IdleOutside /\ OwnFailures /\ RowsCommitted
  BY <1>1 DEF SerialInv
<1>3. num = 0 /\ stack = <<>> /\ broken = FALSE
  BY <1>1, <1>2 DEF IdleOutside
<1>4. /\ idx' = [idx EXCEPT ![b] = 0] /\ num' = 1
      /\ block' = [block EXCEPT ![b] = "entered"]
      /\ stack' = Append(stack, [name |-> 1, rows |-> {}])
      /\ UNCHANGED <<broken, guilty, row, durable>>
  BY <1>3 DEF Enter
<1>5. outer'[b] = TRUE
  BY <1>3 DEF Enter, IInv, TypeOK
<1>6. Inside' = {b} /\ stack' # <<>>
  BY <1>1, <1>3, <1>4 DEF Inside, IInv, TypeOK
<1>7. AloneInside' /\ IdleOutside'
  BY <1>3, <1>4, <1>5, <1>6 DEF AloneInside, IdleOutside, IInv, TypeOK
<1>8. OwnFailures' /\ RowsCommitted'
  BY <1>2, <1>4 DEF OwnFailures, RowsCommitted, IInv, TypeOK
<1> QED
  BY <1>7, <1>8

(* Its statements fail only by themselves. *)
LEMMA SerialWork ==
  ASSUME IInv, SerialInv, NEW b \in Blocks, Work(b), ~overlap', open'
  PROVE  (AloneInside /\ IdleOutside /\ OwnFailures /\ RowsCommitted)'
<1>1. ~overlap /\ open /\ block[b] = "entered" /\ b \in Inside
  BY DEF Work, Inside
<1>2. AloneInside /\ IdleOutside /\ OwnFailures /\ RowsCommitted
  BY <1>1 DEF SerialInv
<1>3. /\ Inside = {b} /\ num = 1 /\ idx[b] = 0 /\ outer[b] = TRUE /\ stack # <<>> /\ ~broken
      /\ UNCHANGED <<num, stack, idx, outer, row, durable>>
  BY <1>1, <1>2 DEF AloneInside, Work
<1>4. \/ block' = [block EXCEPT ![b] = "worked"] /\ UNCHANGED <<broken, guilty>>
      \/ block' = [block EXCEPT ![b] = "raised"] /\ guilty' = [guilty EXCEPT ![b] = TRUE]
  BY <1>1, <1>3 DEF Work
<1>5. Inside' = {b}
  BY <1>3, <1>4 DEF Inside, IInv, TypeOK
<1>6. AloneInside' /\ IdleOutside'
  BY <1>3, <1>4, <1>5 DEF AloneInside, IdleOutside, IInv, TypeOK
<1>7. OwnFailures' /\ RowsCommitted'
  BY <1>2, <1>3, <1>4 DEF OwnFailures, RowsCommitted, IInv, TypeOK
<1> QED
  BY <1>6, <1>7

(* It leaves in order, by COMMIT or ROLLBACK, and the session is idle. *)
LEMMA SerialLeave ==
  ASSUME IInv, SerialInv, NEW b \in Blocks, Leave(b), ~overlap', open'
  PROVE  (AloneInside /\ IdleOutside /\ OwnFailures /\ RowsCommitted)'
<1>1. ~overlap /\ open /\ block[b] \in {"worked", "raised"} /\ b \in Inside
  BY DEF Leave, Inside
<1>2. AloneInside /\ IdleOutside /\ OwnFailures /\ RowsCommitted
  BY <1>1 DEF SerialInv
<1>3. /\ Inside = {b} /\ num = 1 /\ idx[b] = 0 /\ outer[b] = TRUE
      /\ broken => block[b] = "raised"
      /\ block[b] = "raised" => guilty[b] = TRUE
  BY <1>1, <1>2 DEF AloneInside
<1>4. num' = 0 /\ UNCHANGED <<guilty, row>> /\ outer[b]
  BY <1>3 DEF Leave
<1>5. /\ stack' = <<>> /\ broken' = FALSE /\ durable \subseteq durable'
      /\ \/ block' = [block EXCEPT ![b] = "ok"]
         \/ block' = [block EXCEPT ![b] = "failed"] /\ guilty[b] = TRUE
  BY <1>1, <1>3, <1>4 DEF Leave, Commit, Rollback
<1>6. Inside' = {}
  BY <1>3, <1>5 DEF Inside, IInv, TypeOK
<1>7. AloneInside' /\ IdleOutside'
  BY <1>4, <1>5, <1>6 DEF AloneInside, IdleOutside
<1>8. OwnFailures' /\ RowsCommitted'
  BY <1>2, <1>4, <1>5 DEF OwnFailures, RowsCommitted, IInv, TypeOK
<1> QED
  BY <1>7, <1>8

(* An audit row finds the session idle; it is committed by itself, or       *)
(* refused by itself.                                                       *)
LEMMA SerialInsert ==
  ASSUME IInv, SerialInv, NEW w \in Writers, Insert(w), ~overlap', open'
  PROVE  (AloneInside /\ IdleOutside /\ OwnFailures /\ RowsCommitted)'
<1>1. ~overlap /\ open /\ Inside = {}
  BY DEF Insert
<1>2. AloneInside /\ IdleOutside /\ OwnFailures /\ RowsCommitted
  BY <1>1 DEF SerialInv
<1>3. num = 0 /\ stack = <<>> /\ broken = FALSE
  BY <1>1, <1>2 DEF IdleOutside
<1>4. /\ \/ row' = [row EXCEPT ![w] = "written"] /\ durable' = durable \cup {w}
         \/ row' = [row EXCEPT ![w] = "refused"] /\ durable' = durable
      /\ broken' = FALSE
      /\ UNCHANGED <<num, stack, block, idx, outer, guilty>>
  BY <1>1, <1>3 DEF Insert
<1>5. Inside' = {}
  BY <1>1, <1>4 DEF Inside
<1>6. AloneInside' /\ IdleOutside' /\ OwnFailures'
  BY <1>2, <1>3, <1>4, <1>5 DEF AloneInside, IdleOutside, OwnFailures
<1>7. RowsCommitted'
  BY <1>2, <1>4 DEF RowsCommitted, IInv, TypeOK
<1> QED
  BY <1>6, <1>7

(* The invariant of serial use holds in every reachable state. *)
THEOREM SpecSerialInv == Spec => []SerialInv
<1>1. Init => SerialInv
  <2> SUFFICES ASSUME Init PROVE SerialInv
    OBVIOUS
  <2>1. Inside = {}
    BY DEF Init, Inside
  <2> QED
    BY <2>1 DEF Init, SerialInv, AloneInside, IdleOutside, OwnFailures, RowsCommitted
<1>2. IInv /\ SerialInv /\ [Next]_vars => SerialInv'
  <2> SUFFICES ASSUME IInv, SerialInv, [Next]_vars, ~overlap', open'
               PROVE  (AloneInside /\ IdleOutside /\ OwnFailures /\ RowsCommitted)'
    BY DEF SerialInv
  <2>1. CASE UNCHANGED vars
    BY <2>1 DEF vars, SerialInv, AloneInside, IdleOutside, OwnFailures, RowsCommitted, Inside
  <2>2. ASSUME NEW b \in Blocks, LeaveClosed(b) PROVE FALSE
    BY <2>2 DEF LeaveClosed
  <2>3. ASSUME Close PROVE FALSE
    BY <2>3 DEF Close
  <2> QED
    BY <2>1, <2>2, <2>3, SerialEnter, SerialWork, SerialLeave, SerialInsert DEF Next
<1> QED
  BY <1>1, <1>2, SpecIInv, PTL DEF Spec

(* A connection used by one thread at a time, as an MCP server's is, for    *)
(* any number of blocks and audit rows: it is idle between blocks, a block  *)
(* fails only for its own reasons, and AuditLog.record commits its row or   *)
(* finds its own INSERT refused.                                            *)
THEOREM SerialIsSound == Spec => []SerialUseIsSound
<1>1. SerialInv => SerialUseIsSound
  BY DEF SerialInv, SerialUseIsSound, IdleOutside, OwnFailures, RowsCommitted
<1> QED
  BY <1>1, SpecSerialInv, PTL
===============================================================================
