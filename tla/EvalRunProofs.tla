---------------------------- MODULE EvalRunProofs ----------------------------
(***************************************************************************)
(* The run directory for any split, any configurations and any number of   *)
(* invocations and crashes: answers are kept, fingerprints do not mix, a   *)
(* run halts exactly on a wall and a summary adds up.                      *)
(***************************************************************************)
EXTENDS EvalRun, FiniteSetTheorems, WellFoundedInduction, TLAPS

(* The invocation has read the directory and not ended. *)
Working == proc \in {"asking", "recording", "halted"}

(* What is recorded is not pending, and the count is the length of the run  *)
(* of failures at the end of what is recorded: no more, no less.            *)
CountIsTheWall ==
    /\ \A i, j \in DOMAIN asked : i # j => asked[i] # asked[j]
    /\ \A i \in DOMAIN asked : asked[i] \notin pending
    /\ consecutive <= Len(asked)
    /\ Len(asked) + Cardinality(pending) <= N
    /\ Working =>
         /\ \A i \in DOMAIN asked : i > Len(asked) - consecutive => Unasked(asked[i])
         /\ consecutive < Len(asked) => ~Unasked(asked[Len(asked) - consecutive])
    /\ proc \in {"starting", "manifest", "resuming"} => asked = <<>> /\ consecutive = 0
    /\ proc \in {"asking", "recording"} => ~Wall(consecutive)
    /\ proc = "halted" => Wall(consecutive)

(* What will be recorded next has no answer yet. *)
PendingUnanswered ==
    /\ proc \in {"asking", "recording"} => \A q \in pending : ~Answered(q)
    /\ proc = "recording" => pending # {} /\ disk[Asking] = Torn

(* The manifest comes first, and an invocation works under its fingerprint. *)
ManifestFirst ==
    /\ manifest \in {"absent", "torn"} => \A q \in Questions : ~Whole(q)
    /\ proc = "manifest" => manifest = "torn"
    /\ Working => manifest = conf
    /\ OneFingerprint

(* The inductive invariant. *)
IInv == /\ TypeOK /\ CountIsTheWall /\ PendingUnanswered /\ ManifestFirst
        /\ RetriedNotScored /\ SummaryAddsUp

-------------------------------------------------------------------------------
(* A set of naturals that is not empty has a least element. *)
LEMMA LeastExists ==
  ASSUME NEW S, S \subseteq Nat, S # {}
  PROVE  \E x \in S : \A y \in S : x <= y
<1>1. PICK x \in S : \A y \in S : ~(<<y, x>> \in OpToRel(<, Nat))
  BY WFMin, NatLessThanWellFounded
<1>2. \A y \in S : ~(y < x)
  BY <1>1 DEF OpToRel
<1> QED
  BY <1>2

(* The question asked next is one of those that are pending. *)
LEMMA AskingPending ==
  ASSUME pending \subseteq Questions, pending # {}
  PROVE  Asking \in pending
<1>1. pending \subseteq Nat
  BY SizeAssumption DEF Questions
<1>2. \E q \in pending : \A r \in pending : q <= r
  BY <1>1, LeastExists
<1> QED
  BY <1>2 DEF Asking

(* Sets of questions are finite, and none has more than N. *)
LEMMA QuestionsFinite ==
  ASSUME NEW S \in SUBSET Questions
  PROVE  IsFiniteSet(S) /\ Cardinality(S) \in Nat /\ Cardinality(S) <= N
<1>1. IsFiniteSet(Questions) /\ Cardinality(Questions) = N
  BY FS_Interval, SizeAssumption DEF Questions
<1> QED
  BY <1>1, FS_Subset, FS_CardinalityType

(* Sets with no common element add up. *)
LEMMA DisjointUnion ==
  ASSUME NEW S, NEW T, IsFiniteSet(S), IsFiniteSet(T), S \cap T = {}
  PROVE  Cardinality(S \cup T) = Cardinality(S) + Cardinality(T)
<1>1. Cardinality(S \cup T) = Cardinality(S) + Cardinality(T) - Cardinality(S \cap T)
  BY FS_Union
<1>2. Cardinality(S \cap T) = 0
  BY FS_EmptySet
<1>3. Cardinality(S) \in Nat /\ Cardinality(T) \in Nat
  BY FS_CardinalityType
<1> QED
  BY <1>1, <1>2, <1>3

(* What a question may record: whole, under the configuration, and with the *)
(* category of an infrastructure error only for one (evals/taxonomy.py).    *)
LEMMA ArtifactSound ==
  ASSUME NEW c, NEW a \in Evaluated(c)
  PROVE  /\ a.state = "whole" /\ a.conf = c /\ a.error \in Errors
         /\ a.category \in Categories \ {"uncategorised"}
         /\ IsInfrastructure(a.error) => a.category \in {"gold_error", "infrastructure"}
         /\ a.category = "infrastructure" => IsInfrastructure(a.error)
<1>1. PICK o \in Outcomes : a = Artifact(c, o)
  BY DEF Evaluated
<1>2. a.state = "whole" /\ a.conf = c
  BY <1>1 DEF Artifact
<1>3. a.error = ErrorOf(o)
  BY <1>1 DEF Artifact
<1>4. a.category = Classify(o.goldFailed, ErrorOf(o), o.missed, Compared(o), o.matched)
  BY <1>1 DEF Artifact
<1>5. o.attempt \in Attempts
  BY DEF Outcomes
<1>6. ErrorOf(o) \in Errors
  BY <1>5 DEF ErrorOf, Errors, Attempts
<1>7. a.category \in Categories \ {"uncategorised"}
  BY <1>4, <1>5 DEF Classify, Categories, Compared, ErrorOf, IsInfrastructure
<1>8. IsInfrastructure(a.error) => a.category \in {"gold_error", "infrastructure"}
  BY <1>3, <1>4 DEF Classify
<1>9. a.category = "infrastructure" => IsInfrastructure(a.error)
  BY <1>3, <1>4 DEF Classify
<1> QED
  BY <1>2, <1>3, <1>6, <1>7, <1>8, <1>9

(* Steps that write no summary and touch no answer leave what the summary   *)
(* says of the directory as true as it was.                                 *)
LEMMA SummaryStays ==
  ASSUME SummaryAddsUp, UNCHANGED summary, proc' # "summarised",
         \A q \in Questions : Answered(q) => disk'[q] = disk[q]
  PROVE  SummaryAddsUp'
<1>1. \A q \in ToScore : q \in ToScore' /\ disk'[q] = disk[q]
  BY DEF ToScore, Answered, Whole
<1> HIDE DEF ToScore
<1>2. SUFFICES ASSUME summary.state = "whole"
      PROVE  /\ summary.scored \subseteq ToScore'
             /\ \A q \in summary.matched : q \in summary.scored /\ disk'[q].matched
  BY DEF SummaryAddsUp
<1>3. summary.scored \subseteq ToScore'
  BY <1>1, <1>2 DEF SummaryAddsUp
<1>4. \A q \in summary.matched : q \in summary.scored /\ disk'[q].matched
  BY <1>1, <1>2 DEF SummaryAddsUp
<1> QED
  BY <1>3, <1>4

-------------------------------------------------------------------------------
(* Init establishes the inductive invariant. *)
LEMMA InitIInv == Init => IInv
<1> SUFFICES ASSUME Init PROVE IInv
  OBVIOUS
<1>1. \A q \in Questions : disk[q] = Absent /\ disk[q].state = "absent"
  BY DEF Init, Absent
<1>2. TypeOK
  BY <1>1, SizeAssumption, BoundAssumption DEF Init, TypeOK
<1>3. CountIsTheWall
  BY FS_EmptySet, SizeAssumption DEF Init, CountIsTheWall, Working
<1>4. PendingUnanswered /\ ManifestFirst /\ RetriedNotScored
  BY <1>1 DEF Init, PendingUnanswered, ManifestFirst, OneFingerprint, RetriedNotScored, Working,
              Whole, Unasked
<1>5. SummaryAddsUp
  BY DEF Init, SummaryAddsUp, NoSummary
<1> QED
  BY <1>2, <1>3, <1>4, <1>5 DEF IInv

(* The steps that leave the files of the questions alone. *)
LEMMA QuietStep ==
  ASSUME IInv, UNCHANGED <<disk, asked, consecutive, summary, runs>>,
         WriteManifest \/ ManifestWritten \/ ManifestExists \/ Resume \/ RefuseResume
           \/ ResumeAborts \/ SummariseAborts \/ Exit \/ Crash
  PROVE  IInv'
<1> USE DEF IInv
<1>0. UNCHANGED conf /\ pending' \subseteq pending /\ (pending' # pending => Resume)
  BY DEF WriteManifest, ManifestWritten, ManifestExists, Resume, RefuseResume, ResumeAborts,
         SummariseAborts, Exit, Crash
<1>1. \A q \in Questions : /\ (Whole(q)' <=> Whole(q)) /\ (Unasked(q)' <=> Unasked(q))
                           /\ (Answered(q)' <=> Answered(q))
  BY DEF Whole, Unasked, Answered
<1>2. TypeOK'
  BY <1>0, <1>1, BoundAssumption DEF TypeOK, WriteManifest, ManifestWritten, ManifestExists, Resume,
         RefuseResume, ResumeAborts, SummariseAborts, Exit, Crash
<1>3. CountIsTheWall'
  <2>1. Cardinality(pending') <= Cardinality(pending) /\ Cardinality(pending) \in Nat
        /\ Cardinality(pending') \in Nat
    BY <1>0, QuestionsFinite, FS_Subset DEF TypeOK
  <2>2. Len(asked) \in Nat /\ \A i \in DOMAIN asked : asked[i] \in Questions
    BY DEF TypeOK
  <2>3. Len(asked) + Cardinality(pending') <= N
    BY <2>1, <2>2, SizeAssumption DEF CountIsTheWall
  <2>4. CASE Resume
    BY <1>0, <2>3, <2>4, SizeAssumption DEF Resume, CountIsTheWall, Working, Wall
  <2>5. CASE ~Resume
    <3>1. /\ proc' \notin {"asking", "recording", "halted", "starting"}
          /\ proc' \in {"manifest", "resuming"} => proc \in {"starting", "manifest"}
      BY <2>5 DEF WriteManifest, ManifestWritten, ManifestExists, Resume, RefuseResume,
         ResumeAborts, SummariseAborts, Exit, Crash
    <3> QED
      BY <1>0, <2>3, <3>1 DEF CountIsTheWall, Working
  <2> QED
    BY <2>4, <2>5
<1>4. PendingUnanswered'
  BY <1>0, <1>1 DEF PendingUnanswered, TypeOK, WriteManifest, ManifestWritten, ManifestExists, Resume, RefuseResume,
         ResumeAborts, SummariseAborts, Exit, Crash
<1>5. ManifestFirst'
  BY <1>1, ConfigAssumption DEF ManifestFirst, OneFingerprint, TypeOK, Working, WriteManifest, ManifestWritten, ManifestExists, Resume, RefuseResume,
         ResumeAborts, SummariseAborts, Exit, Crash
<1>6. RetriedNotScored'
  BY <1>1 DEF RetriedNotScored
<1>7. SummaryAddsUp'
  <2>1. proc' # "summarised"
    BY DEF WriteManifest, ManifestWritten, ManifestExists, Resume, RefuseResume, ResumeAborts,
           SummariseAborts, Exit, Crash
  <2> QED
    BY <2>1, SummaryStays
<1> QED
  BY <1>2, <1>3, <1>4, <1>5, <1>6, <1>7

(* A new invocation has recorded nothing, and less than the split to ask. *)
LEMMA InvokeStep ==
  ASSUME IInv, NEW c \in Configs, NEW limit \in Limits, Invoke(c, limit) PROVE IInv'
<1> USE DEF IInv
<1>0. /\ proc \in Ended /\ proc' = "starting" /\ conf' = c /\ asked' = <<>> /\ consecutive' = 0
      /\ pending' \subseteq Questions /\ UNCHANGED <<manifest, disk, summary, crashes>>
  BY DEF Invoke
<1>1. \A q \in Questions : /\ (Whole(q)' <=> Whole(q)) /\ (Unasked(q)' <=> Unasked(q))
                           /\ (Answered(q)' <=> Answered(q))
  BY <1>0 DEF Whole, Unasked, Answered
<1>2. TypeOK'
  BY <1>0, <1>1, BoundAssumption, SizeAssumption DEF TypeOK, Invoke
<1>3. CountIsTheWall'
  <2>1. Cardinality(pending') \in Nat /\ Cardinality(pending') <= N
    BY <1>0, QuestionsFinite
  <2> QED
    BY <1>0, <2>1, SizeAssumption DEF CountIsTheWall, Working
<1>4. PendingUnanswered' /\ ManifestFirst'
  BY <1>0, <1>1 DEF PendingUnanswered, ManifestFirst, OneFingerprint, Working
<1>5. RetriedNotScored' /\ SummaryAddsUp'
  BY <1>0, <1>1, SummaryStays DEF RetriedNotScored
<1> QED
  BY <1>2, <1>3, <1>4, <1>5

(* Truncating a file loses no answer: the question is pending. *)
LEMMA RecordStep ==
  ASSUME IInv, Record PROVE IInv'
<1> USE DEF IInv
<1>0. /\ proc = "asking" /\ proc' = "recording" /\ disk' = [disk EXCEPT ![Asking] = Torn]
      /\ UNCHANGED <<conf, pending, asked, consecutive, manifest, summary, runs, crashes>>
  BY DEF Record
<1>a. Asking \in pending /\ Asking \in Questions /\ Asking' = Asking
  BY <1>0, AskingPending DEF Record, TypeOK, Asking
<1>1. \A q \in Questions : q # Asking =>
        disk'[q] = disk[q] /\ (Whole(q)' <=> Whole(q)) /\ (Unasked(q)' <=> Unasked(q))
          /\ (Answered(q)' <=> Answered(q))
  BY <1>0 DEF Whole, Unasked, Answered, TypeOK
<1>2. /\ disk'[Asking] = Torn /\ ~Whole(Asking)' /\ ~Answered(Asking)' /\ ~Unasked(Asking)'
  BY <1>0, <1>a DEF Whole, Answered, Unasked, TypeOK, Torn
<1>3. TypeOK'
  BY <1>0, <1>1, <1>2 DEF TypeOK
<1>4. CountIsTheWall'
  <2>1. Len(asked) \in Nat /\ \A i \in DOMAIN asked : asked[i] \in Questions /\ asked[i] # Asking
    BY <1>a DEF TypeOK, CountIsTheWall
  <2> QED
    BY <1>0, <1>1, <2>1 DEF CountIsTheWall, Working, TypeOK
<1>5. PendingUnanswered' /\ ManifestFirst'
  BY <1>0, <1>a, <1>1, <1>2 DEF PendingUnanswered, ManifestFirst, OneFingerprint, Working, TypeOK
<1>6. RetriedNotScored'
  <2> SUFFICES ASSUME NEW q \in Questions, disk'[q].state = "whole"
      PROVE  /\ IsInfrastructure(disk'[q].error)
                  => disk'[q].category \in {"gold_error", "infrastructure"}
             /\ disk'[q].category = "infrastructure" => IsInfrastructure(disk'[q].error)
    BY DEF RetriedNotScored, Unasked, Whole
  <2>1. q # Asking
    BY <1>0, <1>a DEF TypeOK, Torn
  <2>2. disk'[q] = disk[q]
    BY <1>1, <2>1
  <2> QED
    BY <2>2 DEF RetriedNotScored, Unasked, Whole
<1>7. SummaryAddsUp'
  <2>1. \A q \in Questions : Answered(q) => disk'[q] = disk[q]
    BY <1>0, <1>a, <1>1 DEF PendingUnanswered
  <2> QED
    BY <1>0, <2>1, SummaryStays
<1> QED
  BY <1>3, <1>4, <1>5, <1>6, <1>7

(* Writing the file: the run of failures at the end grows by one or is      *)
(* gone, and the count with it.                                             *)
LEMMA RecordWrittenStep ==
  ASSUME IInv, RecordWritten PROVE IInv'
<1> USE DEF IInv
<1>q. PICK q0 : q0 = Asking
  OBVIOUS
<1>0. PICK a \in Evaluated(conf) :
        /\ disk' = [disk EXCEPT ![q0] = a]
        /\ consecutive' = IF IsInfrastructure(a.error) THEN consecutive + 1 ELSE 0
        /\ proc' = IF Wall(IF IsInfrastructure(a.error) THEN consecutive + 1 ELSE 0)
                   THEN "halted" ELSE "asking"
  BY <1>q DEF RecordWritten
<1>a. /\ proc = "recording" /\ pending' = pending \ {q0} /\ asked' = Append(asked, q0)
      /\ UNCHANGED <<conf, manifest, summary, runs, crashes>>
  BY <1>q DEF RecordWritten
<1>b. q0 \in pending /\ q0 \in Questions /\ disk[q0] = Torn
  BY <1>q, <1>a, AskingPending DEF PendingUnanswered, TypeOK
<1>c. /\ a.state = "whole" /\ a.conf = conf /\ a.error \in Errors
      /\ a.category \in Categories \ {"uncategorised"}
      /\ IsInfrastructure(a.error) => a.category \in {"gold_error", "infrastructure"}
      /\ a.category = "infrastructure" => IsInfrastructure(a.error)
  BY ArtifactSound
<1> DEFINE U(q) == disk'[q].state = "whole" /\ IsInfrastructure(disk'[q].error)
<1>d. \A q : Unasked(q)' <=> U(q)
  BY DEF Unasked, Whole
<1> HIDE DEF U
<1>1. \A q \in Questions : q # q0 =>
        disk'[q] = disk[q] /\ (Whole(q)' <=> Whole(q)) /\ (Unasked(q)' <=> Unasked(q))
          /\ (Answered(q)' <=> Answered(q))
  BY <1>0 DEF Whole, Unasked, Answered, TypeOK
<1>2. /\ disk'[q0] = a /\ Whole(q0)' /\ (Unasked(q0)' <=> IsInfrastructure(a.error))
      /\ (Answered(q0)' <=> ~IsInfrastructure(a.error))
  BY <1>0, <1>b, <1>c DEF Whole, Answered, Unasked, TypeOK
<1>3. /\ Len(asked) \in Nat /\ Len(asked') = Len(asked) + 1 /\ asked' \in Seq(Questions)
      /\ asked'[Len(asked) + 1] = q0
      /\ \A i \in DOMAIN asked : asked'[i] = asked[i]
      /\ \A i \in DOMAIN asked : asked[i] \in Questions /\ asked[i] # q0
      /\ DOMAIN asked = 1 .. Len(asked) /\ DOMAIN asked' = 1 .. Len(asked) + 1
  BY <1>a, <1>b DEF TypeOK, CountIsTheWall
<1>4. /\ consecutive' \in Nat /\ consecutive' <= Len(asked')
      /\ Cardinality(pending') \in Nat /\ Len(asked') + Cardinality(pending') <= N
  <2>1. Cardinality(pending') = Cardinality(pending) - 1 /\ Cardinality(pending) \in Nat
        /\ Cardinality(pending') \in Nat
    BY <1>a, <1>b, FS_RemoveElement, QuestionsFinite DEF TypeOK
  <2> QED
    BY <1>0, <1>3, <2>1, SizeAssumption DEF TypeOK, CountIsTheWall
<1>5. TypeOK'
  <2>1. \A q \in Questions :
          \/ disk'[q] \in {Absent, Torn}
          \/ /\ Whole(q)' /\ disk'[q].error \in Errors
             /\ disk'[q].category \in Categories \ {"uncategorised"}
    BY <1>1, <1>2, <1>c DEF TypeOK
  <2>2. consecutive' \in 0 .. N
    BY <1>3, <1>4, SizeAssumption
  <2> QED
    BY <1>0, <1>a, <1>3, <2>1, <2>2 DEF TypeOK
<1>6. CountIsTheWall'
  <2>1. \A i, j \in DOMAIN asked' : i # j => asked'[i] # asked'[j]
    BY <1>3 DEF CountIsTheWall
  <2>2. \A i \in DOMAIN asked' : asked'[i] \notin pending'
    BY <1>a, <1>3 DEF CountIsTheWall
  <2>3. \A i \in DOMAIN asked' : i > Len(asked') - consecutive' => U(asked'[i])
    BY <1>0, <1>a, <1>d, <1>1, <1>2, <1>3 DEF CountIsTheWall, TypeOK, Working
  <2>4. consecutive' < Len(asked') => ~U(asked'[Len(asked') - consecutive'])
    <3>1. CASE ~IsInfrastructure(a.error)
      <4>1. Len(asked') - consecutive' = Len(asked) + 1
        BY <3>1, <1>0, <1>3
      <4> QED
        BY <3>1, <4>1, <1>d, <1>2, <1>3
    <3>2. CASE IsInfrastructure(a.error)
      <4> SUFFICES ASSUME consecutive < Len(asked)
                   PROVE  ~U(asked'[Len(asked) - consecutive])
        BY <3>2, <1>0, <1>3 DEF TypeOK
      <4>1. Len(asked) - consecutive \in DOMAIN asked
        BY <1>3 DEF TypeOK
      <4>2. ~Unasked(asked[Len(asked) - consecutive])
        BY <1>a DEF CountIsTheWall, Working
      <4> QED
        BY <4>1, <4>2, <1>d, <1>1, <1>3
    <3> QED
      BY <3>1, <3>2
  <2>5. proc' = IF Wall(consecutive') THEN "halted" ELSE "asking"
    BY <1>0
  <2> QED
    BY <1>4, <2>1, <2>2, <2>3, <2>4, <2>5 DEF CountIsTheWall, Working, Wall, U, Unasked, Whole
<1>7. PendingUnanswered'
  BY <1>0, <1>a, <1>1 DEF PendingUnanswered, TypeOK
<1>8. ManifestFirst'
  BY <1>0, <1>a, <1>c, <1>1, <1>2, ConfigAssumption
     DEF ManifestFirst, OneFingerprint, Working, TypeOK
<1>9. RetriedNotScored'
  BY <1>c, <1>1, <1>2 DEF RetriedNotScored
<1>10. SummaryAddsUp'
  <2>1. \A q \in Questions : Answered(q) => disk'[q] = disk[q]
    BY <1>b, <1>1 DEF Answered, Whole, Torn
  <2>2. proc' # "summarised"
    BY <1>0
  <2> QED
    BY <1>a, <2>1, <2>2, SummaryStays
<1> QED
  BY <1>5, <1>6, <1>7, <1>8, <1>9, <1>10

(* A summary counts every file once, and scores what is answered.           *)
LEMMA SummariseStep ==
  ASSUME IInv, Summarise PROVE IInv'
<1> USE DEF IInv
<1>0. /\ proc \in {"halted", "asking"} /\ proc' = "summarised" /\ summary' = Summary
      /\ \A q \in Recorded : Whole(q)
      /\ UNCHANGED <<conf, pending, asked, consecutive, manifest, disk, runs, crashes>>
  BY DEF Summarise
<1>1. \A q \in Questions : /\ (Whole(q)' <=> Whole(q)) /\ (Unasked(q)' <=> Unasked(q))
                           /\ (Answered(q)' <=> Answered(q))
  BY <1>0 DEF Whole, Unasked, Answered
<1>2. TypeOK' /\ RetriedNotScored'
  BY <1>0, <1>1 DEF TypeOK, RetriedNotScored
<1>3. CountIsTheWall' /\ PendingUnanswered' /\ ManifestFirst'
  BY <1>0, <1>1 DEF CountIsTheWall, PendingUnanswered, ManifestFirst, OneFingerprint, Working
<1>4. /\ summary'.total = summary'.gold \cup summary'.infrastructure \cup summary'.scored
      /\ Cardinality(summary'.total) = Cardinality(summary'.gold)
           + Cardinality(summary'.infrastructure) + Cardinality(summary'.scored)
  <2> DEFINE G == Of({"gold_error"})
             F == Of({"infrastructure"})
             S == Scorable
  <2>1. /\ summary'.total = Recorded /\ summary'.gold = G /\ summary'.infrastructure = F
        /\ summary'.scored = S /\ summary'.matched \subseteq S
    BY <1>0 DEF Summary
  <2>2. /\ Recorded = (G \cup F) \cup S
        /\ G \cap F = {} /\ (G \cup F) \cap S = {}
    BY DEF Of, Scorable
  <2>3. IsFiniteSet(G) /\ IsFiniteSet(F) /\ IsFiniteSet(S) /\ IsFiniteSet(G \cup F)
    <3>1. G \subseteq Questions /\ F \subseteq Questions /\ S \subseteq Questions
      BY DEF Of, Scorable, Recorded
    <3>2. G \cup F \subseteq Questions
      BY <3>1
    <3> QED
      BY <3>1, <3>2, QuestionsFinite
  <2> HIDE DEF G, F, S
  <2>4. Cardinality(G \cup F) = Cardinality(G) + Cardinality(F)
    BY <2>2, <2>3, DisjointUnion
  <2>5. Cardinality(Recorded) = Cardinality(G \cup F) + Cardinality(S)
    BY <2>2, <2>3, DisjointUnion
  <2> QED
    BY <2>1, <2>2, <2>4, <2>5
<1>5. summary'.scored = ToScore /\ ToScore' = ToScore
  <2>1. \A q \in Questions : q \in Scorable <=> q \in ToScore
    <3> TAKE q \in Questions
    <3>1. q \in Recorded <=> Whole(q)
      BY <1>0 DEF Recorded, Whole
    <3>2. Whole(q) /\ disk[q].category = "infrastructure" => Unasked(q)
      BY DEF RetriedNotScored
    <3>3. Unasked(q) => disk[q].category \in {"gold_error", "infrastructure"}
      BY DEF RetriedNotScored
    <3>4. Whole(q) => (Unasked(q) <=> ~Answered(q))
      BY DEF Unasked, Answered
    <3>5. Answered(q) => Whole(q)
      BY DEF Answered
    <3> QED
      BY <3>1, <3>2, <3>3, <3>4, <3>5 DEF Scorable, Of, ToScore
  <2>2. Scorable \subseteq Questions /\ ToScore \subseteq Questions
    BY DEF Scorable, Recorded, ToScore
  <2> QED
    BY <1>0, <1>1, <2>1, <2>2 DEF Summary, ToScore
<1>6. SummaryAddsUp'
  <2>1. \A q \in Questions : Answered(q)' => q \in summary'.total
    BY <1>0, <1>1 DEF Summary, Answered, Whole, Recorded
  <2>2. \A q \in summary'.matched : q \in summary'.scored /\ disk'[q].matched
    BY <1>0 DEF Summary
  <2>3. summary'.state = "whole"
    BY <1>0 DEF Summary
  <2> QED
    BY <1>4, <1>5, <2>1, <2>2, <2>3 DEF SummaryAddsUp
<1> QED
  BY <1>2, <1>3, <1>5, <1>6

-------------------------------------------------------------------------------
(* The inductive invariant is preserved by every step. *)
LEMMA NextIInv ==
  ASSUME IInv, [Next]_vars PROVE IInv'
<1>1. CASE UNCHANGED vars
  <2>1. UNCHANGED <<proc, conf, pending, asked, consecutive, manifest, disk, summary, runs, crashes>>
    BY <1>1 DEF vars
  <2> QED
    BY <2>1 DEF IInv, TypeOK, CountIsTheWall, PendingUnanswered, ManifestFirst, OneFingerprint,
                RetriedNotScored, SummaryAddsUp, ToScore, Working, Whole, Unasked, Answered,
                Asking, Wall
<1>2. ASSUME NEW c \in Configs, NEW limit \in Limits, Invoke(c, limit) PROVE IInv'
  BY <1>2, InvokeStep
<1>3. CASE Start
  BY <1>3, QuietStep DEF Start, WriteManifest, ManifestWritten, ManifestExists
<1>4. CASE Ask
  BY <1>4, QuietStep, RecordStep, RecordWrittenStep DEF Ask, Resume, RefuseResume, ResumeAborts
<1>5. CASE End
  BY <1>5, QuietStep, SummariseStep DEF End, SummariseAborts, Exit
<1>6. CASE Crash
  BY <1>6, QuietStep DEF Crash
<1> QED
  BY <1>1, <1>2, <1>3, <1>4, <1>5, <1>6 DEF Next

(* The inductive invariant holds in every reachable state. *)
THEOREM SpecIInv == Spec => []IInv
<1>1. IInv /\ [Next]_vars => IInv'
  BY NextIInv
<1> QED
  BY <1>1, InitIInv, PTL DEF Spec

(* Type correctness: a recorded artifact has a category, and no invocation  *)
(* counts more failures in a row than there are questions.                  *)
THEOREM Typed == Spec => []TypeOK
<1>1. IInv => TypeOK
  BY DEF IInv
<1> QED
  BY <1>1, SpecIInv, PTL

(* RunStore.resume and record: an answered artifact is never overwritten,   *)
(* truncated or lost, whatever is killed and resumed.                       *)
THEOREM AnswersStay == Spec => AnswersKept
<1>1. IInv /\ [Next]_vars => [\A q \in Questions : Answered(q) => disk'[q] = disk[q]]_vars
  <2> SUFFICES ASSUME IInv, Next, NEW q \in Questions, Answered(q)
               PROVE  disk'[q] = disk[q]
    OBVIOUS
  <2>1. CASE Record
    <3>1. Asking \in pending
      BY <2>1, AskingPending DEF Record, IInv, TypeOK
    <3>2. q # Asking
      BY <2>1, <3>1 DEF Record, IInv, PendingUnanswered
    <3> QED
      BY <2>1, <3>2 DEF Record, IInv, TypeOK
  <2>2. CASE RecordWritten
    <3>1. q # Asking
      BY <2>2 DEF RecordWritten, IInv, PendingUnanswered, Answered, Whole, Torn
    <3> QED
      BY <2>2, <3>1 DEF RecordWritten, IInv, TypeOK
  <2>3. CASE ~Record /\ ~RecordWritten
    BY <2>3 DEF Next, Start, Ask, End, Invoke, WriteManifest, ManifestWritten, ManifestExists, Resume,
                RefuseResume, ResumeAborts, Summarise, SummariseAborts, Exit, Crash
  <2> QED
    BY <2>1, <2>2, <2>3
<1> QED
  BY <1>1, SpecIInv, PTL DEF Spec, AnswersKept

(* RunStore.resume: the artifacts of a directory share the fingerprint of   *)
(* its manifest.                                                            *)
THEOREM FingerprintsDoNotMix == Spec => []OneFingerprint
<1>1. IInv => OneFingerprint
  BY DEF IInv, ManifestFirst
<1> QED
  BY <1>1, SpecIInv, PTL

(* evals/taxonomy.py and resume agree: what is asked again is not scored. *)
THEOREM NothingScoredTwice == Spec => []RetriedNotScored
<1>1. IInv => RetriedNotScored
  BY DEF IInv
<1> QED
  BY <1>1, SpecIInv, PTL

(* EvalRunner.run: the loop is broken exactly when the last HaltAfter       *)
(* questions it recorded failed on infrastructure.                          *)
THEOREM HaltsExactlyOnAWall == Spec => []HaltedOnAWall
<1>1. IInv => HaltedOnAWall
  <2> SUFFICES ASSUME IInv PROVE HaltedOnAWall
    OBVIOUS
  <2>1. Len(asked) \in Nat /\ DOMAIN asked = 1 .. Len(asked) /\ consecutive \in Nat /\ HaltAfter \in Nat
    BY SizeAssumption DEF IInv, TypeOK
  <2>2. ASSUME proc = "halted"
        PROVE  /\ HaltAfter # 0 /\ Len(asked) >= HaltAfter
               /\ \A i \in Len(asked) - HaltAfter + 1 .. Len(asked) : Unasked(asked[i])
    BY <2>1, <2>2 DEF IInv, CountIsTheWall, Working, Wall
  <2>3. ASSUME proc = "asking", HaltAfter # 0, Len(asked) >= HaltAfter,
               \A i \in Len(asked) - HaltAfter + 1 .. Len(asked) : Unasked(asked[i])
        PROVE  FALSE
    <3>1. consecutive < HaltAfter
      BY <2>1, <2>3 DEF IInv, CountIsTheWall, Wall
    <3>2. Len(asked) - consecutive \in Len(asked) - HaltAfter + 1 .. Len(asked)
      BY <2>1, <3>1
    <3> QED
      BY <2>1, <2>3, <3>1, <3>2 DEF IInv, CountIsTheWall, Working
  <2> QED
    BY <2>2, <2>3 DEF HaltedOnAWall
<1> QED
  BY <1>1, SpecIInv, PTL

(* EvalRunner._summarise: through any crashes, halts and resumes, a summary *)
(* just written scores exactly what the directory has answered, and one     *)
(* left behind counts nothing that is not so.                               *)
THEOREM SummariesAddUp == Spec => []SummaryAddsUp
<1>1. IInv => SummaryAddsUp
  BY DEF IInv
<1> QED
  BY <1>1, SpecIInv, PTL
===============================================================================
