-------------------------------- MODULE Scoring --------------------------------
(***************************************************************************)
(* The arithmetic behind every published number: when two results mean the *)
(* same (evals/comparison.py), which schema elements a reference query     *)
(* needs and how many of them were retrieved (evals/recall.py).            *)
(*                                                                         *)
(* A result is a sequence of rows, a row a sequence of values.  A value is *)
(* [type, v]: the v of a number counts tenths of the last decimal place    *)
(* that comparison keeps, so ten of them are FLOAT_TOLERANCE; the v of a   *)
(* text, of a date and of a number that is not finite stands for the text  *)
(* it is written as.  Arrays and JSON are left out.                        *)
(***************************************************************************)
EXTENDS SqlRules, Integers, SequencesExt

CONSTANTS MaxColumns,     \* MAX_COLUMNS_FOR_PERMUTATION
          KValues,        \* DEFAULT_K_VALUES
          FloatExact,     \* up to here no two numbers share a double: 2^53 for integers
          FloatStep,      \* ... and beyond it the doubles lie this far apart
          TiesUp          \* halves that round up: where the double lies, or half to even

ASSUME ScoringAssumption ==
    /\ MaxColumns \in Nat \ {0} /\ KValues \subseteq Nat \ {0}
    /\ FloatExact \in Nat /\ FloatStep \in Nat \ {0} /\ TiesUp \subseteq Int

Tolerance == 10
Numeric == {"int", "decimal", "float"}
Written == {"text", "date", "nonfinite"}

-------------------------------------------------------------------------------
(* float(value): beyond what a double holds, the nearest one, half to even. *)
AsFloat(v) ==
    LET low == v \div FloatStep
        rest == v % FloatStep
        up == 2 * rest > FloatStep \/ (2 * rest = FloatStep /\ low % 2 = 1)
    IN  IF v \in -FloatExact .. FloatExact THEN v ELSE FloatStep * (IF up THEN low + 1 ELSE low)

(* round(number, FLOAT_PLACES) *)
ToPlaces(v) ==
    LET low == v \div Tolerance
        rest == v % Tolerance
    IN  IF rest > 5 \/ (rest = 5 /\ v \in TiesUp) THEN low + 1 ELSE low

(* canonical: numbers are one type and rounded, booleans are not numbers,   *)
(* what is not finite and what is a date become text, and NULL is itself.   *)
Canonical(value) ==
    IF value.type \in Numeric THEN [type |-> "number", v |-> ToPlaces(AsFloat(value.v))]
    ELSE IF value.type \in Written THEN [type |-> "text", v |-> value.v]
    ELSE value

(* _columns: transposed, every value made canonical. *)
ColumnsOf(rows, width) ==
    [c \in 1 .. width |-> [r \in DOMAIN rows |-> Canonical(rows[r][c])]]

(* zip of no columns has no rows. *)
RowsOf(columns) ==
    IF columns = <<>> THEN <<>>
    ELSE [r \in DOMAIN columns[1] |-> [c \in DOMAIN columns |-> columns[c][r]]]

(* Counter(xs) = Counter(ys) *)
Multiset(xs) == [x \in ToSet(xs) |-> Cardinality({i \in DOMAIN xs : xs[i] = x})]

(* Mutant: set(xs) = set(ys). *)
RowsEqualAsSets(pred, gold, ordered) ==
    IF ordered THEN RowsOf(pred) = RowsOf(gold)
    ELSE ToSet(RowsOf(pred)) = ToSet(RowsOf(gold))

(* _rows_equal: duplicates count. *)
RowsEqual(pred, gold, ordered) ==
    IF ordered THEN RowsOf(pred) = RowsOf(gold)
    ELSE Multiset(RowsOf(pred)) = Multiset(RowsOf(gold))

Signature(column, ordered) == IF ordered THEN column ELSE Multiset(column)
Signatures(columns, ordered) == [c \in DOMAIN columns |-> Signature(columns[c], ordered)]

(* _candidate_orderings: the identity, then what the signatures allow. *)
CandidateOrderings(pred, gold, ordered) ==
    LET ps == Signatures(pred, ordered)
        gs == Signatures(gold, ordered)
        orders == {p \in [DOMAIN pred -> DOMAIN pred] :
                     /\ IsInjective(p)
                     /\ \A c \in DOMAIN gold : ps[p[c]] = gs[c]}
    IN  {pred} \cup IF Multiset(ps) = Multiset(gs)
                    THEN {[c \in DOMAIN pred |-> pred[p[c]]] : p \in orders}
                    ELSE {}

(* _diagnose: the columns as they stand, then their contents. *)
Diagnose(pred, gold, ordered) ==
    IF ordered /\ RowsEqual(pred, gold, FALSE) THEN "order_mismatch"
    ELSE IF Multiset(Signatures(pred, FALSE)) # Multiset(Signatures(gold, FALSE))
         THEN "no_column_bijection"
    ELSE "value_mismatch"

(* compare *)
Compare(predicted, gold, ordered) ==
    IF Len(predicted) # Len(gold) THEN "shape_mismatch"
    ELSE IF gold = <<>> THEN "match"
    ELSE LET width == Len(gold[1]) IN
         IF \E row \in ToSet(gold) \cup ToSet(predicted) : Len(row) # width THEN "shape_mismatch"
         ELSE LET p == ColumnsOf(predicted, width)
                  g == ColumnsOf(gold, width)
              IN  IF width > MaxColumns
                  THEN IF RowsEqual(p, g, ordered) THEN "match" ELSE "value_mismatch"
                  ELSE IF \E o \in CandidateOrderings(p, g, ordered) : RowsEqual(o, g, ordered)
                       THEN "match"
                  ELSE Diagnose(p, g, ordered)

(* The rules of docs/ml/EVALUATION.md, section 1.1: columns in any order,    *)
(* rows in any order unless the reference is ordered, duplicates count,      *)
(* numbers within the tolerance -- its end included, which two ties rounded  *)
(* to one even number reach -- and everything else only equal to itself.     *)
Alike(a, b) ==
    IF a.type \in Numeric /\ b.type \in Numeric
    THEN a.v - b.v <= Tolerance /\ b.v - a.v <= Tolerance
    ELSE a = b

SameMeaning(predicted, gold, ordered) ==
    /\ Len(predicted) = Len(gold)
    /\ \A row \in ToSet(gold) \cup ToSet(predicted) : Len(row) = Len(gold[1])
    /\ gold # <<>> =>
         \E columns \in {p \in [DOMAIN gold[1] -> DOMAIN gold[1]] : IsInjective(p)},
            rows \in {p \in [DOMAIN gold -> DOMAIN gold] :
                        IsInjective(p) /\ (ordered => \A r \in DOMAIN gold : p[r] = r)} :
              \A r \in DOMAIN gold, c \in DOMAIN gold[1] :
                 Alike(predicted[rows[r]][columns[c]], gold[r][c])

Cells(rows) == UNION {ToSet(row) : row \in ToSet(rows)}

(* float() changes no number of the two results. *)
NothingLost(pred, gold) ==
    \A a \in Cells(pred) \cup Cells(gold) :
       a.type \in Numeric => a.v \in -FloatExact .. FloatExact

(* No value of one is written like a value of another type in the other. *)
Confused(a, b) == {a.type, b.type} \subseteq Written /\ a.type # b.type /\ a.v = b.v
NothingConfused(pred, gold) == \A a \in Cells(pred), b \in Cells(gold) : ~Confused(a, b)

-------------------------------------------------------------------------------
(* Recall. *)

CteNames(s) == IF s.role = "cte" THEN {s.name} ELSE {}

(* _aliases_in_scope: the tables of one scope, by every name they have. *)
AliasesInScope(s, scope) ==
    {pair \in UNION {{<<t.name, t.name>>, <<t.alias, t.name>>} : t \in ToSet(scope.from)} :
        NoName \notin {pair[1], pair[2]} /\ pair[2] \notin CteNames(s)}

(* extract_gold_elements, one column of one scope: the element it needs, or *)
(* none if it belongs to a CTE or cannot be attributed.                     *)
ElementOf(s, scope, column) ==
    LET aliases == AliasesInScope(s, scope)
        tables == {pair[2] : pair \in aliases}
        named == {pair[2] : pair \in {a \in aliases : a[1] = column.qual}}
        table == IF named = {} THEN {column.qual} ELSE named
    IN  IF column.qual # NoName THEN {<<t, column.name>> : t \in table \ CteNames(s)}
        ELSE IF Cardinality(tables) = 1 THEN {<<t, column.name>> : t \in tables}
        ELSE {}

GoldColumns(s) ==
    UNION {UNION {ElementOf(s, scope, column) : column \in ColumnsIn(scope)} : scope \in Scopes(s)}

GoldTables(s) ==
    UNION {{pair[2] : pair \in AliasesInScope(s, scope)} : scope \in Scopes(s)}

(* The targets recall is measured over; a table has no column. *)
Targets(s) == GoldColumns(s) \cup {<<table, NoName>> : table \in GoldTables(s)}

Window(retrieved, k) == SubSeq(retrieved, 1, Least(k, Len(retrieved)))

(* Mutant: a table is credited only as a table. *)
CreditedNoTables(target, window) == target \in ToSet(window)

(* compute_recall, one target: the column itself, or anything of its table. *)
Credited(target, window) ==
    \/ target \in ToSet(window)
    \/ target[1] \in {element[1] : element \in ToSet(window)}

(* How many of the targets the first k elements cover. *)
Found(s, retrieved, k) ==
    Cardinality({target \in Targets(s) : Credited(target, Window(retrieved, k))})

===============================================================================
