-------------------------------- MODULE EvalRun --------------------------------
(***************************************************************************)
(* An evaluation run and its directory (evals/runner.py, artifacts.py).    *)
(*                                                                         *)
(* An operator invokes the harness as often as it takes; an invocation     *)
(* resumes from what is on disk, answers what is pending one question at a *)
(* time, stops early when the provider is gone, and summarises the         *)
(* directory.  A process may die between any two writes and in the middle  *)
(* of one: write_text truncates the file before it fills it.               *)
(***************************************************************************)
EXTENDS Naturals, Sequences, FiniteSets

CONSTANTS N,             \* questions of the split, in order 1 .. N
          Limits,        \* the values of --limit the operator uses
          Configs,       \* config_fingerprints of what the operator runs
          HaltAfter,     \* --halt-after; 0 is off
          MaxRuns,       \* bound on invocations
          MaxCrashes     \* bound on crashes

ASSUME SizeAssumption == N \in Nat /\ Limits \subseteq Nat /\ HaltAfter \in Nat
ASSUME BoundAssumption == MaxRuns \in Nat /\ MaxCrashes \in Nat
(* A fingerprint is a digest: never what stands for a file without one. *)
ASSUME ConfigAssumption == Configs \cap {"absent", "torn"} = {}

Questions == 1 .. N

VARIABLES
    proc,         \* where the invocation is
    conf,         \* its configuration
    pending,      \* the questions it has still to answer
    asked,        \* the questions it has recorded (history)
    consecutive,  \* infrastructure failures in a row
    manifest,     \* manifest.json: absent, torn or a fingerprint
    disk,         \* questions/*.json, by question
    summary,      \* summary.json: the questions it counted, by kind
    runs, crashes

vars == <<proc, conf, pending, asked, consecutive, manifest, disk, summary, runs, crashes>>

Absent == [state |-> "absent"]
Torn == [state |-> "torn"]
NoSummary == [state |-> "absent"]

Errors == {"none", "infrastructure", "unanswerable", "rejected", "execution_failed"}
Categories == {"none", "gold_error", "infrastructure", "unanswerable",
               "retrieval_miss", "error", "wrong", "uncategorised"}

Init ==
    /\ proc = "down" /\ conf \in Configs
    /\ pending = {} /\ asked = <<>> /\ consecutive = 0
    /\ manifest = "absent"
    /\ disk = [q \in Questions |-> Absent]
    /\ summary = NoSummary
    /\ runs = 0 /\ crashes = 0

-------------------------------------------------------------------------------
(* Classification (evals/taxonomy.py). *)

(* is_infrastructure: the system under test was never asked. *)
IsInfrastructure(error) == error = "infrastructure"

(* Mutant: the recall branch before the infrastructure one. *)
ClassifyRecallFirst(goldFailed, error, missed, compared, matched) ==
    CASE goldFailed -> "gold_error"
      [] ~goldFailed /\ missed -> "retrieval_miss"
      [] ~goldFailed /\ ~missed /\ IsInfrastructure(error) -> "infrastructure"
      [] OTHER -> IF error # "none" THEN "error" ELSE IF matched THEN "none" ELSE "wrong"

(* classify: the earliest cause wins. *)
Classify(goldFailed, error, missed, compared, matched) ==
    IF goldFailed THEN "gold_error"
    ELSE IF IsInfrastructure(error) THEN "infrastructure"
    ELSE IF error = "unanswerable" THEN "unanswerable"
    ELSE IF missed THEN "retrieval_miss"
    ELSE IF error # "none" THEN "error"
    ELSE IF ~compared THEN "uncategorised"
    ELSE IF matched THEN "none" ELSE "wrong"

(* What the answerer ends in: SQL, no scope or a failed retrieval or model   *)
(* or any other exception, a refusal by the model, or a failed validation.   *)
Attempts == {"none", "infrastructure", "unanswerable", "rejected"}

(* How a question may go.  Gold and generated SQL run through one query     *)
(* runner, in which any exception, a lost connection included, is a         *)
(* failure; the answerer declines, breaks or yields SQL; recall and the     *)
(* comparison say the rest.                                                 *)
Outcomes == [goldFailed : BOOLEAN, attempt : Attempts, ran : BOOLEAN,
             missed : BOOLEAN, matched : BOOLEAN]

(* Both results are there to compare. *)
Compared(o) == ~o.goldFailed /\ o.attempt = "none" /\ o.ran

ErrorOf(o) ==
    IF ~o.goldFailed /\ o.attempt = "none" /\ ~o.ran THEN "execution_failed" ELSE o.attempt

(* What _evaluate records for a question under configuration c. *)
Artifact(c, o) ==
    [state |-> "whole", conf |-> c, matched |-> o.matched /\ Compared(o),
     error |-> ErrorOf(o),
     category |-> Classify(o.goldFailed, ErrorOf(o), o.missed, Compared(o), o.matched)]

Evaluated(c) == {Artifact(c, o) : o \in Outcomes}

Whole(q) == disk[q].state = "whole"
Unasked(q) == Whole(q) /\ IsInfrastructure(disk[q].error)
Answered(q) == Whole(q) /\ ~IsInfrastructure(disk[q].error)
Recorded == {q \in Questions : disk[q].state # "absent"}

-------------------------------------------------------------------------------
(* One invocation of evals.run. *)

(* No process runs: the last one was killed, refused, aborted, or has        *)
(* written its summary.                                                      *)
Ended == {"down", "summarised"}

Invoke(c, limit) ==
    /\ proc \in Ended /\ runs < MaxRuns
    /\ runs' = runs + 1
    /\ conf' = c
    /\ pending' = {q \in Questions : q <= limit}
    /\ asked' = <<>> /\ consecutive' = 0
    /\ proc' = "starting"
    /\ UNCHANGED <<manifest, disk, summary, crashes>>

(* RunStore.start: the manifest is written once, before the first question. *)
WriteManifest ==
    /\ proc = "starting" /\ manifest = "absent"
    /\ manifest' = "torn"
    /\ proc' = "manifest"
    /\ UNCHANGED <<conf, pending, asked, consecutive, disk, summary, runs, crashes>>

ManifestWritten ==
    /\ proc = "manifest"
    /\ manifest' = conf
    /\ proc' = "resuming"
    /\ UNCHANGED <<conf, pending, asked, consecutive, disk, summary, runs, crashes>>

ManifestExists ==
    /\ proc = "starting" /\ manifest # "absent"
    /\ proc' = "resuming"
    /\ UNCHANGED <<conf, pending, asked, consecutive, manifest, disk, summary, runs, crashes>>

(* Mutant: nothing on disk counts, every question is asked again. *)
ResumeNothing ==
    /\ proc = "resuming"
    /\ manifest # "torn" /\ manifest = conf
    /\ proc' = "asking"
    /\ UNCHANGED <<conf, pending, asked, consecutive, manifest, disk, summary, runs, crashes>>

(* Mutant: the fingerprint is not compared. *)
ResumeAnyway ==
    /\ proc = "resuming"
    /\ manifest # "torn"
    /\ pending' = {q \in pending : ~Answered(q)}
    /\ proc' = "asking"
    /\ UNCHANGED <<conf, asked, consecutive, manifest, disk, summary, runs, crashes>>

(* RunStore.resume, the fingerprint equal: answered questions are skipped;  *)
(* torn files and infrastructure failures are asked again.                  *)
Resume ==
    /\ proc = "resuming"
    /\ manifest # "torn" /\ manifest = conf
    /\ pending' = {q \in pending : ~Answered(q)}
    /\ proc' = "asking"
    /\ UNCHANGED <<conf, asked, consecutive, manifest, disk, summary, runs, crashes>>

(* Another fingerprint is refused before anything is asked. *)
RefuseResume ==
    /\ proc = "resuming"
    /\ manifest # "torn" /\ manifest # conf
    /\ proc' = "down"
    /\ UNCHANGED <<conf, pending, asked, consecutive, manifest, disk, summary, runs, crashes>>

(* json.loads of a torn manifest raises, and nothing catches it. *)
ResumeAborts ==
    /\ proc = "resuming" /\ manifest = "torn"
    /\ proc' = "aborted_resume"
    /\ UNCHANGED <<conf, pending, asked, consecutive, manifest, disk, summary, runs, crashes>>

(* The loop goes through what is pending in the order of the split. *)
Asking == CHOOSE q \in pending : \A r \in pending : q <= r

(* The answer is computed and record() has truncated the file. *)
Record ==
    /\ proc = "asking" /\ pending # {}
    /\ disk' = [disk EXCEPT ![Asking] = Torn]
    /\ proc' = "recording"
    /\ UNCHANGED <<conf, pending, asked, consecutive, manifest, summary, runs, crashes>>

(* Mutant: a failed question is asked again until it is answered. *)
RecordedRetrying ==
    /\ proc = "recording"
    /\ \E a \in Evaluated(conf) :
         /\ disk' = [disk EXCEPT ![Asking] = a]
         /\ pending' = IF IsInfrastructure(a.error) THEN pending ELSE pending \ {Asking}
         /\ asked' = IF IsInfrastructure(a.error) THEN asked ELSE Append(asked, Asking)
    /\ proc' = "asking" /\ consecutive' = 0
    /\ UNCHANGED <<conf, manifest, summary, runs, crashes>>

(* Mutant: one failure too many. *)
WallPast(failures) == HaltAfter # 0 /\ failures > HaltAfter

(* HaltAfter infrastructure failures in a row end the loop. *)
Wall(failures) == HaltAfter # 0 /\ failures >= HaltAfter

(* The file is whole. *)
RecordWritten ==
    /\ proc = "recording"
    /\ \E a \in Evaluated(conf) :
         LET failures == IF IsInfrastructure(a.error) THEN consecutive + 1 ELSE 0 IN
         /\ disk' = [disk EXCEPT ![Asking] = a]
         /\ consecutive' = failures
         /\ proc' = IF Wall(failures) THEN "halted" ELSE "asking"
    /\ pending' = pending \ {Asking}
    /\ asked' = Append(asked, Asking)
    /\ UNCHANGED <<conf, manifest, summary, runs, crashes>>

(* _summarise over RunStore.artifacts(): every file of the directory. *)
Of(categories) == {q \in Recorded : disk[q].category \in categories}
Scorable == Recorded \ Of({"gold_error", "infrastructure"})

Summary ==
    [state |-> "whole",
     total |-> Recorded,
     gold |-> Of({"gold_error"}),
     infrastructure |-> Of({"infrastructure"}),
     scored |-> Scorable,
     matched |-> {q \in Scorable : disk[q].matched}]

(* Mutant: a summary of what this invocation answered. *)
SummariseOwn ==
    /\ proc = "halted" \/ (proc = "asking" /\ pending = {})
    /\ \A q \in Recorded : Whole(q)
    /\ LET own == {asked[i] : i \in DOMAIN asked} IN
       summary' = [Summary EXCEPT !.total = @ \cap own, !.gold = @ \cap own,
                                  !.infrastructure = @ \cap own, !.scored = @ \cap own,
                                  !.matched = @ \cap own]
    /\ proc' = "summarised"
    /\ UNCHANGED <<conf, pending, asked, consecutive, manifest, disk, runs, crashes>>

Summarise ==
    /\ proc = "halted" \/ (proc = "asking" /\ pending = {})
    /\ \A q \in Recorded : Whole(q)
    /\ summary' = Summary
    /\ proc' = "summarised"
    /\ UNCHANGED <<conf, pending, asked, consecutive, manifest, disk, runs, crashes>>

(* A torn artifact that this invocation did not reach: artifacts() raises. *)
SummariseAborts ==
    /\ proc = "halted" \/ (proc = "asking" /\ pending = {})
    /\ \E q \in Recorded : ~Whole(q)
    /\ proc' = IF proc = "halted" THEN "aborted_halt" ELSE "aborted_end"
    /\ UNCHANGED <<conf, pending, asked, consecutive, manifest, disk, summary, runs, crashes>>

(* The traceback is read and the process is gone. *)
Exit ==
    /\ proc \in {"aborted_resume", "aborted_halt", "aborted_end"}
    /\ proc' = "down"
    /\ UNCHANGED <<conf, pending, asked, consecutive, manifest, disk, summary, runs, crashes>>

(* Killed, wherever it was. *)
Crash ==
    /\ proc \notin Ended /\ crashes < MaxCrashes
    /\ crashes' = crashes + 1
    /\ proc' = "down"
    /\ UNCHANGED <<conf, pending, asked, consecutive, manifest, disk, summary, runs>>

-------------------------------------------------------------------------------
Start == WriteManifest \/ ManifestWritten \/ ManifestExists

Ask == Resume \/ RefuseResume \/ ResumeAborts \/ Record \/ RecordWritten

End == Summarise \/ SummariseAborts \/ Exit

Next == \/ \E c \in Configs, limit \in Limits : Invoke(c, limit)
        \/ Start \/ Ask \/ End \/ Crash

Spec == Init /\ [][Next]_vars

(* An invocation runs on until it ends or is killed. *)
FairSpec == Spec /\ WF_vars(Start \/ Ask \/ End)

-------------------------------------------------------------------------------
(* Every variable keeps its type; a recorded artifact has a category. *)
TypeOK ==
    /\ proc \in {"down", "starting", "manifest", "resuming", "asking", "recording",
                 "halted", "aborted_resume", "aborted_halt", "aborted_end", "summarised"}
    /\ conf \in Configs
    /\ pending \subseteq Questions /\ asked \in Seq(Questions)
    /\ consecutive \in 0 .. N
    /\ manifest \in {"absent", "torn"} \cup Configs
    /\ DOMAIN disk = Questions
    /\ \A q \in Questions :
         \/ disk[q] \in {Absent, Torn}
         \/ /\ Whole(q) /\ disk[q].error \in Errors
            /\ disk[q].category \in Categories \ {"uncategorised"}
    /\ runs \in 0 .. MaxRuns /\ crashes \in 0 .. MaxCrashes

(* "an *answered* question is not asked again" (docs/development/TESTING.md): *)
(* through crashes, halts and resumes, an answered artifact is never lost,    *)
(* overwritten or even truncated.                                             *)
AnswersKept == [][\A q \in Questions : Answered(q) => disk'[q] = disk[q]]_vars

(* The guard of resume(): every artifact of a directory was answered under  *)
(* the fingerprint its manifest records.                                    *)
OneFingerprint ==
    \A q \in Questions : Whole(q) => disk[q].conf = manifest

(* What is retried leaves the score: a question a resume will ask again is  *)
(* never counted as scored, so no question is scored twice; and one that    *)
(* was left out of the score as infrastructure will be asked again.         *)
RetriedNotScored ==
    \A q \in Questions :
      /\ Unasked(q) => disk[q].category \in {"gold_error", "infrastructure"}
      /\ Whole(q) /\ disk[q].category = "infrastructure" => Unasked(q)

(* The questions a summary of the directory as it stands has to score. *)
ToScore == {q \in Questions : Answered(q) /\ disk[q].category # "gold_error"}

(* A summary is about the directory, not the invocation: its parts add up   *)
(* to its total.  When an invocation has just written it, however many      *)
(* before it were killed, halted or resumed, it covers every question any   *)
(* of them answered and scores all of those but the gold errors.  And a     *)
(* summary that later invocations leave behind, killed or not, still counts *)
(* only what the directory says: nothing unanswered, nothing unmatched.     *)
SummaryAddsUp ==
    /\ proc = "summarised" =>
         /\ summary.state = "whole"
         /\ \A q \in Questions : Answered(q) => q \in summary.total
         /\ summary.scored = ToScore
    /\ summary.state = "whole" =>
         /\ summary.total = summary.gold \cup summary.infrastructure \cup summary.scored
         /\ Cardinality(summary.total) = Cardinality(summary.gold)
              + Cardinality(summary.infrastructure) + Cardinality(summary.scored)
         /\ summary.scored \subseteq ToScore
         /\ \A q \in summary.matched : q \in summary.scored /\ disk[q].matched

(* "a wall rather than a bad minute" (evals/runner.py): an invocation has   *)
(* halted exactly when the last HaltAfter questions it recorded all failed  *)
(* on infrastructure, each of which a resume will ask again.                *)
HaltedOnAWall ==
    LET first == Len(asked) - HaltAfter + 1
        wall == /\ HaltAfter # 0 /\ Len(asked) >= HaltAfter
                /\ \A i \in first .. Len(asked) : Unasked(asked[i])
    IN  /\ proc = "halted" => wall
        /\ proc = "asking" => ~wall

(* An invocation that is not killed ends. *)
InvocationEnds == proc = "starting" ~> proc \in Ended
===============================================================================
