-------------------------- MODULE FallbackChainProofs --------------------------
(***************************************************************************)
(* The fallback chain of any length, under any number of overlapping       *)
(* calls: no model is passed over unless it refused, and a call that       *)
(* reports the chain unavailable was refused by all it asked, to the end.  *)
(***************************************************************************)
EXTENDS FallbackChain, TLAPS

(* A call has been refused by every model from its start to the one it is   *)
(* at: the model it is at included once it has given up, at the chain's end.*)
RefusedSoFar ==
    \A c \in Calls :
      /\ call[c] = "idle" => refused[c] = {}
      /\ call[c] = "asking" => refused[c] = first[c] .. at[c] - 1
      /\ call[c] = "unavailable" => refused[c] = first[c] .. N - 1

(* The models before the starting point of a call refused some other call.  *)
SkippedForOthers ==
    \A c \in Calls : \A m \in Models :
      m < first[c] => \E d \in Calls \ {c} : m \in refused[d]

(* A call never tries a model before its starting point.                    *)
Onward == \A c \in Calls : first[c] <= at[c]

(* The inductive invariant. *)
IInv == TypeOK /\ PreferenceKept /\ RefusedSoFar /\ SkippedForOthers /\ Onward

(* Init establishes the inductive invariant. *)
LEMMA InitIInv == Init => IInv
BY NAssumption
   DEF Init, IInv, TypeOK, PreferenceKept, RefusedSoFar, SkippedForOthers, Onward,
       Models, CallStates, Answers

(* The providers change nothing the invariant constrains. *)
LEMMA ProviderStep ==
  ASSUME IInv, Provider \/ \E c \in Calls : Decide(c) PROVE IInv'
<1> USE DEF IInv, TypeOK, PreferenceKept, RefusedSoFar, SkippedForOthers, Onward, Refusers
<1>1. ASSUME NEW m \in Models, Spend(m) \/ Throttle(m) \/ Recover(m) PROVE IInv'
  BY <1>1 DEF Spend, Throttle, Recover
<1>2. ASSUME NEW c \in Calls, Decide(c) PROVE IInv'
  <2>1. reply' \in [Calls -> Answers]
    BY <1>2 DEF Decide, Answers
  <2> QED
    BY <1>2, <2>1 DEF Decide
<1> QED
  BY <1>1, <1>2 DEF Provider

(* A call starts where the last answer was: what was skipped to get there   *)
(* refused others, since this call has not asked anybody yet.               *)
LEMMA BeginStep ==
  ASSUME IInv, NEW c \in Calls, Begin(c) PROVE IInv'
<1> USE DEF IInv, Begin
<1>1. TypeOK'
  BY DEF TypeOK, CallStates
<1>2. PreferenceKept'
  BY DEF TypeOK, PreferenceKept, Refusers
<1>3. RefusedSoFar'
  <2>1. active .. active - 1 = {} /\ refused[c] = {}
    BY DEF TypeOK, RefusedSoFar, Models
  <2>2. /\ call' = [call EXCEPT ![c] = "asking"] /\ first' = [first EXCEPT ![c] = active]
        /\ at' = [at EXCEPT ![c] = active] /\ refused' = refused
    OBVIOUS
  <2>3. ASSUME NEW e \in Calls
        PROVE  /\ call'[e] = "idle" => refused'[e] = {}
               /\ call'[e] = "asking" => refused'[e] = first'[e] .. at'[e] - 1
               /\ call'[e] = "unavailable" => refused'[e] = first'[e] .. N - 1
    <3>1. CASE e = c
      BY <2>1, <2>2, <3>1 DEF TypeOK
    <3>2. CASE e # c
      BY <2>2, <3>2 DEF TypeOK, RefusedSoFar
    <3> QED
      BY <3>1, <3>2
  <2> QED
    BY <2>3 DEF RefusedSoFar
<1>4. SkippedForOthers'
  <2> SUFFICES ASSUME NEW e \in Calls, NEW m \in Models, m < first'[e]
               PROVE  \E d \in Calls \ {e} : m \in refused'[d]
    BY DEF SkippedForOthers
  <2>1. CASE e = c
    <3>1. \E d \in Calls : m \in refused[d]
      BY <2>1 DEF TypeOK, PreferenceKept, Refusers
    <3>2. refused[c] = {}
      BY DEF RefusedSoFar
    <3> QED
      BY <2>1, <3>1, <3>2
  <2>2. CASE e # c
    BY <2>2 DEF TypeOK, SkippedForOthers
  <2> QED
    BY <2>1, <2>2
<1>5. Onward'
  BY DEF TypeOK, Onward, Models
<1> QED
  BY <1>1, <1>2, <1>3, <1>4, <1>5

(* A refusal is the call's own, and leads to the next model or to the end.  *)
LEMMA AdvanceStep ==
  ASSUME IInv, NEW c \in Calls, Advance(c) PROVE IInv'
<1> USE DEF IInv
<1>1. /\ call[c] = "asking"
      /\ refused' = [refused EXCEPT ![c] = @ \cup {at[c]}]
      /\ reply' = [reply EXCEPT ![c] = "none"]
      /\ UNCHANGED <<active, first, spent, throttled>>
      /\ \/ /\ at[c] + 1 \in Models
            /\ at' = [at EXCEPT ![c] = @ + 1]
            /\ call' = call
         \/ /\ at[c] + 1 \notin Models
            /\ at' = at
            /\ call' = [call EXCEPT ![c] = "unavailable"]
  BY DEF Advance
<1>2. /\ at[c] \in Models /\ first[c] \in Models /\ first[c] <= at[c]
      /\ refused[c] = first[c] .. at[c] - 1
  BY <1>1 DEF TypeOK, Onward, RefusedSoFar
<1>3. refused'[c] = first[c] .. at[c]
  BY <1>1, <1>2 DEF TypeOK, Models
<1>4. \A e \in Calls : refused[e] \subseteq refused'[e]
  BY <1>1 DEF TypeOK
<1>5. TypeOK'
  BY <1>1, <1>2 DEF TypeOK, CallStates, Answers
<1>6. PreferenceKept'
  <2>1. Refusers \cup {at[c]} \subseteq Refusers'
    BY <1>1, <1>4 DEF Refusers, TypeOK
  <2>2. ASSUME NEW m \in Models, m < at[c] + 1 PROVE m \in Refusers'
    <3>1. m < at[c] \/ m = at[c]
      BY <1>2, <2>2 DEF Models
    <3> QED
      BY <2>1, <3>1 DEF PreferenceKept
  <2> QED
    BY <1>1, <2>1, <2>2 DEF PreferenceKept, TypeOK
<1>7. RefusedSoFar'
  <2> SUFFICES ASSUME NEW e \in Calls
               PROVE  /\ call'[e] = "idle" => refused'[e] = {}
                      /\ call'[e] = "asking" => refused'[e] = first'[e] .. at'[e] - 1
                      /\ call'[e] = "unavailable" => refused'[e] = first'[e] .. N - 1
    BY DEF RefusedSoFar
  <2>1. CASE e = c
    BY <1>1, <1>2, <1>3, <2>1, NAssumption DEF TypeOK, Models
  <2>2. CASE e # c
    BY <1>1, <2>2 DEF RefusedSoFar, TypeOK
  <2> QED
    BY <2>1, <2>2
<1>8. SkippedForOthers'
  BY <1>1, <1>4 DEF SkippedForOthers
<1>9. Onward'
  BY <1>1, <1>2 DEF Onward, TypeOK, Models
<1> QED
  BY <1>5, <1>6, <1>7, <1>8, <1>9

(* Each other step of complete() preserves it. *)
LEMMA CallStep ==
  ASSUME IInv, NEW c \in Calls, Serve(c) \/ Raise(c) \/ Cancel(c)
  PROVE  IInv'
<1> USE DEF IInv, TypeOK, PreferenceKept, RefusedSoFar, SkippedForOthers, Onward,
            Refusers, CallStates, Answers
<1>3. CASE Serve(c)
  BY <1>3 DEF Serve
<1>4. CASE Raise(c)
  BY <1>4 DEF Raise
<1>5. CASE Cancel(c)
  BY <1>5 DEF Cancel
<1> QED
  BY <1>3, <1>4, <1>5

(* The inductive invariant holds in every reachable state. *)
THEOREM SpecIInv == Spec => []IInv
<1>1. IInv /\ [Next]_vars => IInv'
  <2> SUFFICES ASSUME IInv, [Next]_vars PROVE IInv'
    OBVIOUS
  <2>1. CASE UNCHANGED vars
    BY <2>1 DEF IInv, TypeOK, PreferenceKept, RefusedSoFar, SkippedForOthers, Onward,
                Refusers, vars
  <2>2. CASE Next
    BY <2>2, ProviderStep, BeginStep, AdvanceStep, CallStep DEF Next, Step
  <2> QED
    BY <2>1, <2>2
<1> QED
  BY <1>1, InitIInv, PTL DEF Spec

(* No model is passed over, by the starting point or by a call, unless it   *)
(* refused a call for quota: for chains of any length and any overlap.      *)
THEOREM PreferenceIsKept == Spec => []PreferenceKept
<1>1. IInv => PreferenceKept
  BY DEF IInv
<1> QED
  BY <1>1, SpecIInv, PTL

(* A call that raises LLMUnavailableError was refused by every model from   *)
(* its starting point on, and those before it refused other calls.          *)
THEOREM UnavailableIsHonest == Spec => []UnavailableMeansAllRefused
<1>1. IInv => UnavailableMeansAllRefused
  <2> SUFFICES ASSUME IInv, NEW c \in Calls, call[c] = "unavailable"
               PROVE  /\ refused[c] = first[c] .. N - 1
                      /\ \A m \in 0 .. first[c] - 1 :
                           \E d \in Calls \ {c} : m \in refused[d]
    BY DEF UnavailableMeansAllRefused
  <2>1. first[c] \in Models
    BY DEF IInv, TypeOK
  <2>2. ASSUME NEW m \in 0 .. first[c] - 1 PROVE m \in Models /\ m < first[c]
    BY <2>1, NAssumption DEF Models
  <2> QED
    BY <2>2 DEF IInv, RefusedSoFar, SkippedForOthers
<1> QED
  BY <1>1, SpecIInv, PTL
===============================================================================
