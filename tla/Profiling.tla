------------------------------- MODULE Profiling -------------------------------
(***************************************************************************)
(* What a table profile says and what it leaves unsaid                     *)
(* (profiling/profiler.py): the columns chosen, the three gates between a  *)
(* value and a caller, and the reasons given for every gap.                *)
(*                                                                         *)
(* The contents of a column are [ordered, values]: whether its type has    *)
(* extremes that are bounds, and its values in physical order, naturals    *)
(* with zero for NULL.  Settings are                                       *)
(*   scan, cap, topK, threshold   rows read, columns, values, small cells  *)
(*   sampling, sampleRows         whether and how many raw values          *)
(* Clipping of long values is text and left out.                           *)
(***************************************************************************)
EXTENDS SqlRules, SequencesExt

CONSTANT Sensitive      \* column names the denylist matches

Null == 0
Silent == [nulls |-> "none", distinct |-> "none", min |-> Null, max |-> Null,
           frequent |-> <<>>, samples |-> <<>>, withheld |-> {}]

(* The published input schema: at least one column and at most the cap, and *)
(* a sample no larger than the configured one.                              *)
FitsSchema(s, call) ==
    /\ call.columns # <<>> => Len(call.columns) <= s.cap
    /\ call.samples.given => call.samples.n <= s.sampleRows

(* ProfilingSettings.clamp_sample_rows: zero unless allowed. *)
ClampSampleRows(s, requested) ==
    IF ~s.sampling THEN 0
    ELSE IF requested.given THEN Least(requested.n, s.sampleRows)
    ELSE s.sampleRows

(* _select_columns: the columns named, or all that are known, up to the cap. *)
SelectColumns(s, known, requested) ==
    LET names == IF requested = <<>> THEN SetToSeq(known) ELSE requested IN
    [taken |-> SubSeq(names, 1, Least(s.cap, Len(names))),
     omitted |-> IF Len(names) > s.cap THEN Len(names) - s.cap ELSE 0]

-------------------------------------------------------------------------------
(* One column. *)

Scan(s, values) == SubSeq(values, 1, Least(s.scan, Len(values)))
Occurrences(v, values) == Cardinality({i \in DOMAIN values : values[i] = v})
NotNull(values) == Picked(values, {i \in DOMAIN values : values[i] # Null})

(* Its ORDER BY: the commonest first, values break ties. *)
Before(x, y) == x.count > y.count \/ (x.count = y.count /\ x.value < y.value)
Ranked(found) ==
    [n \in 1 .. Cardinality(found) |-> CHOOSE x \in found :
        Cardinality({y \in found : Before(y, x)}) = n - 1]

(* Mutant: values are counted with no threshold. *)
FrequentAnyway(s, scan) ==
    LET seen == {[value |-> v, count |-> Occurrences(v, scan)] : v \in ToSet(NotNull(scan))}
    IN  SubSeq(Ranked(seen), 1, Least(s.topK, Cardinality(seen)))

(* The freq CTE: values that are categories, the commonest first. *)
Frequent(s, scan) ==
    LET seen == {[value |-> v, count |-> Occurrences(v, scan)] : v \in ToSet(NotNull(scan))}
        common == {x \in seen : x.count >= s.threshold}
    IN  SubSeq(Ranked(common), 1, Least(s.topK, Cardinality(common)))

Extreme(values, better(_, _)) ==
    IF values = {} THEN Null ELSE CHOOSE v \in values : \A w \in values : better(v, w)

(* _run_stats, and the profile of a column the database answered about. *)
RunStats(s, contents) ==
    LET scan == Scan(s, contents.values)
        values == ToSet(NotNull(scan))
        extreme(better(_, _)) == IF contents.ordered THEN Extreme(values, better) ELSE Null
    IN  [Silent EXCEPT
           !.nulls = IF scan = <<>> THEN "none" ELSE <<Occurrences(Null, scan), Len(scan)>>,
           !.distinct = Cardinality(values),
           !.min = extreme(LAMBDA v, w : v <= w),
           !.max = extreme(LAMBDA v, w : v >= w),
           !.frequent = Frequent(s, scan)]

(* _sample: a statement of its own; a failure of it leaves nothing. *)
SampleValues(contents, wanted) ==
    LET values == NotNull(contents.values) IN SubSeq(values, 1, Least(wanted, Len(values)))

(* _profile_column.  The outcome is what became of its statements: "ok",    *)
(* "refused", or "unsampled" when only the second failed.                   *)
ProfileColumn(s, column, contents, outcome, wanted) ==
    LET gates == (IF contents.ordered THEN {} ELSE {"unordered"})
                   \cup (IF s.topK = 0 THEN {"top_k"} ELSE {})
        stats == RunStats(s, contents)
    IN  IF column \in Sensitive THEN [Silent EXCEPT !.withheld = {"sensitive"}]
        ELSE IF outcome = "refused" THEN [Silent EXCEPT !.withheld = gates \cup {"refused"}]
        ELSE [stats EXCEPT
                !.samples = IF outcome = "unsampled" THEN <<>> ELSE SampleValues(contents, wanted),
                !.withheld = gates
                  \cup (IF s.topK > 0 /\ stats.frequent = <<>> THEN {"rare"} ELSE {})
                  \cup (IF wanted = 0 THEN {"sampling"} ELSE {})]
===============================================================================
