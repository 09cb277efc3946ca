---------------------------- MODULE FallbackChain -----------------------------
(***************************************************************************)
(* The chain of language models (adapters/llm/fallback.py) shared by every *)
(* question in flight.  A call starts at the model that last answered,     *)
(* moves on when a model is out of quota, and makes the model that answers *)
(* the new starting point.  Each await of a provider lets other calls move *)
(* the starting point meanwhile.                                           *)
(***************************************************************************)
EXTENDS Naturals

CONSTANTS Calls,      \* calls of complete(), each made once
          N           \* len(self._clients)

ASSUME NAssumption == N \in Nat \ {0}

Models == 0 .. N - 1

VARIABLES
    active,     \* self._active
    call,       \* where each call is
    first,      \* the index its loop started from
    at,         \* the index it is trying
    reply,      \* what the provider answered it, once decided
    spent,      \* models whose daily cap is spent: for good
    throttled,  \* models over a momentary rate limit
    refused     \* the models that have refused each call: its `exhausted`

vars == <<active, call, first, at, reply, spent, throttled, refused>>

(* Models that have refused some call. *)
Refusers == UNION {refused[c] : c \in Calls}

CallStates == {"idle", "asking", "served", "failed", "unavailable", "cancelled"}
Answers == {"none", "ok", "quota", "error"}

Init ==
    /\ active = 0
    /\ call = [c \in Calls |-> "idle"]
    /\ first = [c \in Calls |-> 0]
    /\ at = [c \in Calls |-> 0]
    /\ reply = [c \in Calls |-> "none"]
    /\ spent = {} /\ throttled = {}
    /\ refused = [c \in Calls |-> {}]

-------------------------------------------------------------------------------
(* The providers (external): a 429 says nothing about which limit was hit. *)

Spend(m) ==
    /\ m \notin spent
    /\ spent' = spent \cup {m}
    /\ UNCHANGED <<active, call, first, at, reply, throttled, refused>>

Throttle(m) ==
    /\ m \notin throttled
    /\ throttled' = throttled \cup {m}
    /\ UNCHANGED <<active, call, first, at, reply, spent, refused>>

Recover(m) ==
    /\ m \in throttled
    /\ throttled' = throttled \ {m}
    /\ UNCHANGED <<active, call, first, at, reply, spent, refused>>

(* OpenAICompatibleClient.complete: a 429 is LLMQuotaExceededError, any     *)
(* other failure (a timeout, a malformed response) another LLMError.        *)
Decide(c) ==
    /\ call[c] = "asking"
    /\ reply[c] = "none"
    /\ \E answer \in {"ok", "quota", "error"} :
         /\ answer = "quota" => at[c] \in spent \cup throttled
         /\ answer = "ok" => at[c] \notin spent \cup throttled
         /\ reply' = [reply EXCEPT ![c] = answer]
    /\ UNCHANGED <<active, call, first, at, spent, throttled, refused>>

-------------------------------------------------------------------------------
(* FallbackLLMClient.complete. *)

(* The range of the loop is fixed here, by the value _active has now. *)
Begin(c) ==
    /\ call[c] = "idle"
    /\ call' = [call EXCEPT ![c] = "asking"]
    /\ first' = [first EXCEPT ![c] = active]
    /\ at' = [at EXCEPT ![c] = active]
    /\ UNCHANGED <<active, reply, spent, throttled, refused>>

(* Mutant: the last model of the chain is asked again and again. *)
AdvanceForEver(c) ==
    /\ call[c] = "asking"
    /\ reply[c] = "quota"
    /\ refused' = [refused EXCEPT ![c] = @ \cup {at[c]}]
    /\ reply' = [reply EXCEPT ![c] = "none"]
    /\ at' = [at EXCEPT ![c] = IF @ + 1 \in Models THEN @ + 1 ELSE @]
    /\ UNCHANGED <<active, call, first, spent, throttled>>

(* Mutant: the last model of the chain is never asked. *)
AdvanceShort(c) ==
    /\ call[c] = "asking"
    /\ reply[c] = "quota"
    /\ refused' = [refused EXCEPT ![c] = @ \cup {at[c]}]
    /\ reply' = [reply EXCEPT ![c] = "none"]
    /\ \/ /\ at[c] + 2 \in Models
          /\ at' = [at EXCEPT ![c] = @ + 1]
          /\ UNCHANGED call
       \/ /\ at[c] + 2 \notin Models
          /\ call' = [call EXCEPT ![c] = "unavailable"]
          /\ UNCHANGED at
    /\ UNCHANGED <<active, first, spent, throttled>>

(* `continue`: the next model, or LLMUnavailableError after the last. *)
Advance(c) ==
    /\ call[c] = "asking"
    /\ reply[c] = "quota"
    /\ refused' = [refused EXCEPT ![c] = @ \cup {at[c]}]
    /\ reply' = [reply EXCEPT ![c] = "none"]
    /\ \/ /\ at[c] + 1 \in Models
          /\ at' = [at EXCEPT ![c] = @ + 1]
          /\ UNCHANGED call
       \/ /\ at[c] + 1 \notin Models
          /\ call' = [call EXCEPT ![c] = "unavailable"]
          /\ UNCHANGED at
    /\ UNCHANGED <<active, first, spent, throttled>>

Serve(c) ==
    /\ call[c] = "asking"
    /\ reply[c] = "ok"
    /\ call' = [call EXCEPT ![c] = "served"]
    /\ reply' = [reply EXCEPT ![c] = "none"]
    /\ active' = at[c]
    /\ UNCHANGED <<first, at, spent, throttled, refused>>

(* Mutant: any failure advances the chain, as only a quota should. *)
RaiseAfterMovingOn(c) ==
    /\ call[c] = "asking"
    /\ reply[c] = "error"
    /\ call' = [call EXCEPT ![c] = "failed"]
    /\ reply' = [reply EXCEPT ![c] = "none"]
    /\ active' = IF at[c] + 1 \in Models THEN at[c] + 1 ELSE active
    /\ UNCHANGED <<first, at, spent, throttled, refused>>

(* Only LLMQuotaExceededError is caught; the chain stays where it is. *)
Raise(c) ==
    /\ call[c] = "asking"
    /\ reply[c] = "error"
    /\ call' = [call EXCEPT ![c] = "failed"]
    /\ reply' = [reply EXCEPT ![c] = "none"]
    /\ UNCHANGED <<active, first, at, spent, throttled, refused>>

(* The caller hung up: CancelledError at the await, which nothing catches. *)
Cancel(c) ==
    /\ call[c] = "asking"
    /\ call' = [call EXCEPT ![c] = "cancelled"]
    /\ reply' = [reply EXCEPT ![c] = "none"]
    /\ UNCHANGED <<active, first, at, spent, throttled, refused>>

-------------------------------------------------------------------------------
Provider == \E m \in Models : Spend(m) \/ Throttle(m) \/ Recover(m)

Step(c) == Decide(c) \/ Advance(c) \/ Serve(c) \/ Raise(c)

Next == Provider \/ \E c \in Calls : Begin(c) \/ Step(c) \/ Cancel(c)

Spec == Init /\ [][Next]_vars

(* A provider answers or times out, and the event loop resumes the call. *)
FairSpec == Spec /\ \A c \in Calls : WF_vars(Step(c))

-------------------------------------------------------------------------------
(* Every variable keeps its type: the index never leaves the chain. *)
TypeOK ==
    /\ active \in Models
    /\ call \in [Calls -> CallStates]
    /\ first \in [Calls -> Models]
    /\ at \in [Calls -> Models]
    /\ reply \in [Calls -> Answers]
    /\ spent \subseteq Models /\ throttled \subseteq Models
    /\ refused \in [Calls -> SUBSET Models]

(* "The first is the one you actually want" (fallback.py): however calls    *)
(* overlap, a model is never passed over by the starting point or by a call *)
(* in progress unless it has refused somebody for quota.                    *)
PreferenceKept ==
    /\ \A m \in Models : m < active => m \in Refusers
    /\ \A c \in Calls : \A m \in Models : m < at[c] => m \in Refusers

(* A call that raises LLMUnavailableError was itself refused by every model *)
(* from its starting point on, and each model before that point, which it   *)
(* never asked, has refused some other call.                                *)
UnavailableMeansAllRefused ==
    \A c \in Calls :
      call[c] = "unavailable" =>
        /\ refused[c] = first[c] .. N - 1
        /\ \A m \in 0 .. first[c] - 1 : \E d \in Calls \ {c} : m \in refused[d]

(* The loop ends: every call is answered, refused by all, fails or is       *)
(* cancelled.                                                               *)
EveryCallEnds == \A c \in Calls : call[c] = "asking" ~> call[c] # "asking"
===============================================================================
