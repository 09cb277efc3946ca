------------------------------ MODULE Admission ------------------------------
(***************************************************************************)
(* What the in-flight cap of POST /v1/query promises, stated without a     *)
(* counter: a set of questions in flight that never outgrows the cap, and  *)
(* a question refused only while that set is full.  The counter of         *)
(* api/query.py (_Admission) is shown to implement this set in             *)
(* QueryService and QueryServiceProofs.                                    *)
(***************************************************************************)
EXTENDS Naturals, FiniteSets

CONSTANTS Requests,       \* the questions that may arrive
          Limit           \* API_MAX_CONCURRENT_REQUESTS

VARIABLES inflight,       \* questions holding a slot
          refused         \* questions answered 429

avars == <<inflight, refused>>

AInit == inflight = {} /\ refused = {}

(* acquire(), with room: the question joins the set. *)
Take(r) ==
    /\ r \notin inflight \cup refused
    /\ Cardinality(inflight) < Limit
    /\ inflight' = inflight \cup {r}
    /\ UNCHANGED refused

(* acquire(), without: refused at once, never queued. *)
TurnAway(r) ==
    /\ r \notin inflight \cup refused
    /\ Cardinality(inflight) >= Limit
    /\ refused' = refused \cup {r}
    /\ UNCHANGED inflight

(* release(): exactly once per slot taken. *)
GiveBack(r) ==
    /\ r \in inflight
    /\ inflight' = inflight \ {r}
    /\ UNCHANGED refused

ANext == \E r \in Requests : Take(r) \/ TurnAway(r) \/ GiveBack(r)

ASpec == AInit /\ [][ANext]_avars
==============================================================================
