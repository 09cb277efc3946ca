------------------------------- MODULE SqlRules -------------------------------
(***************************************************************************)
(* What is decided about generated SQL from its text: recovering it from a *)
(* model's reply (generation/generator.py), the four static stages of the  *)
(* validator (validation/validator.py) and the row limit put on it         *)
(* (execution/executor.py), beside SQL's own rules for resolving names.    *)
(*                                                                         *)
(* A reply is a sequence of the marks that formatting is made of.  A       *)
(* statement has one SELECT scope and perhaps a second one inside it: the  *)
(* body of a CTE, a derived table of the FROM clause, or a nested query    *)
(* that sees the outer scope.  A scope is                                  *)
(*   from   a sequence of table references [name, alias],                  *)
(*   items  the select list, [qual, name, as],                             *)
(*   where  the other column references, [qual, name].                     *)
(* The empty name stands for an absent alias, qualifier or output name,    *)
(* and a table reference without a name is a call of a function, whose one *)
(* column is called by the alias.  renamed is the column list after the    *)
(* name of a CTE or a derived table, a function from the items of the body *)
(* that have a place in it to their new names.                             *)
(***************************************************************************)
EXTENDS Naturals, Sequences, FiniteSets

NoName == ""

(* The members of a sequence at some of its positions, in order. *)
Picked(s, at) ==
    [n \in 1 .. Cardinality(at) |-> s[CHOOSE i \in at : Cardinality({j \in at : j <= i}) = n]]

-------------------------------------------------------------------------------
(* strip_formatting: a leading reasoning block, then a fence around the     *)
(* whole of the rest, then one label.                                       *)

Starts(reply, mark) == reply # <<>> /\ Head(reply) = mark

(* Mutant: up to the first closing tag instead of the last. *)
DropThinkingLazily(reply) ==
    LET closed == {i \in DOMAIN reply : reply[i] = "/think"} IN
    IF Starts(reply, "think") /\ closed # {}
    THEN SubSeq(reply, 1 + (CHOOSE i \in closed : \A j \in closed : i <= j), Len(reply))
    ELSE reply

(* Reasoning talks about its own tags, so it ends at the last closing one. *)
DropThinking(reply) ==
    LET closed == {i \in DOMAIN reply : reply[i] = "/think"} IN
    IF Starts(reply, "think") /\ closed # {}
    THEN SubSeq(reply, 1 + (CHOOSE i \in closed : \A j \in closed : j <= i), Len(reply))
    ELSE reply

Unfence(reply) ==
    IF Len(reply) > 1 /\ Head(reply) = "fence" /\ reply[Len(reply)] = "fence"
    THEN SubSeq(reply, 2, Len(reply) - 1)
    ELSE reply

DropLabel(reply) == IF Starts(reply, "label") THEN Tail(reply) ELSE reply

StripFormatting(reply) ==
    LET answer == DropThinking(reply) IN
    IF Starts(answer, "think") THEN <<>> ELSE DropLabel(Unfence(answer))

-------------------------------------------------------------------------------
(* Walks over the tree. *)

Scopes(s) == IF s.role = "none" THEN {s.outer} ELSE {s.outer, s.inner}

(* find_all(exp.Table) is breadth first: the outer scope's come first. *)
TableRefs(s) == s.outer.from \o (IF s.role = "none" THEN <<>> ELSE s.inner.from)

(* _referenced_tables: a call of a function names no table. *)
ReferencedTables(s) == {TableRefs(s)[i].name : i \in DOMAIN TableRefs(s)} \ {NoName}

ColumnsIn(scope) == {[qual |-> i.qual, name |-> i.name] : i \in scope.items} \cup scope.where
ColumnRefs(s) == UNION {ColumnsIn(scope) : scope \in Scopes(s)}

OutputName(item) == IF item.as = NoName THEN item.name ELSE item.as
Outputs(scope) == {OutputName(i) : i \in scope.items}

(* _local_names: CTE names and what their bodies select, derived tables,   *)
(* the aliases of the select lists; not column lists, not the FROM clause.  *)
LocalNames(s) ==
    (IF s.role = "cte" THEN {s.name} \cup Outputs(s.inner) ELSE {})
      \cup (IF s.role = "derived" THEN {s.name} ELSE {})
      \cup ({i.as : i \in UNION {scope.items : scope \in Scopes(s)}} \ {NoName})

(* _resolve_alias: the first table of the whole tree with that alias. *)
ResolveAlias(s, qualifier) ==
    LET aliased == {i \in DOMAIN TableRefs(s) : TableRefs(s)[i].alias = qualifier} IN
    IF aliased = {} THEN qualifier
    ELSE TableRefs(s)[CHOOSE i \in aliased : \A j \in aliased : i <= j].name

-------------------------------------------------------------------------------
(* SQLValidator.validate_static over a catalog, a function from tables to   *)
(* their columns.  The answer is "ok" or the error_type of the stage that   *)
(* failed.                                                                  *)

CheckReadOnly(s) ==
    IF s.root # "query" \/ s.parts \cap {"forbidden", "lock"} # {} \/ s.into
    THEN "not_read_only" ELSE "ok"

HasTable(catalog, table) == table # NoName /\ table \in DOMAIN catalog

(* What an unqualified column may be called. *)
Reachable(catalog, s) ==
    LocalNames(s) \cup UNION {catalog[t] : t \in ReferencedTables(s) \ LocalNames(s)}

(* Mutant: only the columns of the outer scope's tables are reachable. *)
KnownColumnOuter(catalog, s, column) ==
    LET local == LocalNames(s)
        outer == {s.outer.from[i].name : i \in DOMAIN s.outer.from} \ ({NoName} \cup local)
    IN  \/ column.name = "*"
        \/ column.qual # NoName
        \/ column.name \in local \cup UNION {catalog[t] : t \in outer}

(* One column reference of _check_identifiers. *)
KnownColumn(catalog, s, column) ==
    LET target == ResolveAlias(s, column.qual) IN
    \/ column.name = "*"
    \/ /\ column.qual # NoName
       /\ \/ column.qual \in LocalNames(s)
          \/ ~HasTable(catalog, target)
          \/ column.name \in catalog[target]
    \/ column.qual = NoName /\ column.name \in Reachable(catalog, s)

CheckIdentifiers(catalog, s) ==
    LET local == LocalNames(s)
        tables == ReferencedTables(s)
    IN  IF DOMAIN catalog = {} THEN "ok"
        ELSE IF ~(tables \subseteq local \cup DOMAIN catalog) THEN "table_not_found"
        ELSE IF tables \subseteq local THEN "ok"
        ELSE IF \A column \in ColumnRefs(s) : KnownColumn(catalog, s, column) THEN "ok"
        ELSE "unknown_identifier"

(* What sqlglot makes of the text, before there is a tree to look at. *)
CheckText(s) ==
    CASE s.text \in {"blank", "too_long", "garbled", "opaque"} -> "syntax_error"
      [] s.text \in {"stacked", "nothing"} -> "multiple_statements"
      [] s.text = "one" -> "ok"

ValidateStatic(catalog, s) ==
    IF CheckText(s) # "ok" THEN CheckText(s)
    ELSE IF CheckReadOnly(s) # "ok" THEN CheckReadOnly(s)
    ELSE CheckIdentifiers(catalog, s)

-------------------------------------------------------------------------------
(* How SQL resolves names: by scope, the inner one first. *)

(* The columns that a CTE or a derived table shows to the outer scope. *)
Exposed(s) == {IF i \in DOMAIN s.renamed THEN s.renamed[i] ELSE OutputName(i) : i \in s.inner.items}

Called(t) == IF t.alias = NoName THEN t.name ELSE t.alias

(* The relation a table reference brings into scope.  A CTE is visible to   *)
(* the outer scope and not to its own body.                                 *)
Relation(schema, s, t, inBody) ==
    [as |-> Called(t),
     columns |-> IF t.name = NoName THEN {Called(t)}
                 ELSE IF s.role = "cte" /\ t.name = s.name /\ ~inBody THEN Exposed(s)
                 ELSE IF t.name \in DOMAIN schema THEN schema[t.name] ELSE {}]

InnerRelations(schema, s) ==
    {Relation(schema, s, s.inner.from[i], TRUE) : i \in DOMAIN s.inner.from}

OuterRelations(schema, s) ==
    {Relation(schema, s, s.outer.from[i], FALSE) : i \in DOMAIN s.outer.from}
      \cup (IF s.role = "derived" THEN {[as |-> s.name, columns |-> Exposed(s)]} ELSE {})

(* The relations that could own a column. *)
Owners(relations, column) ==
    {r \in relations : /\ column.qual \in {NoName, r.as}
                       /\ column.name \in r.columns}

Bound(relations, column) == column.name = "*" \/ Cardinality(Owners(relations, column)) = 1

(* Where no column has the name, it is the whole row of a relation. *)
WholeRow(relations, column) ==
    /\ column.qual = NoName /\ column.name \in {r.as : r \in relations}
    /\ Owners(relations, column) = {}

(* A nested query looks outside for what its own FROM clause cannot own. *)
BoundInNested(inner, outer, column) ==
    IF column.qual \in {r.as : r \in inner} \/ Owners(inner, column) # {}
    THEN Bound(inner, column) ELSE Bound(outer, column)

TablesExist(schema, s) ==
    ReferencedTables(s) \subseteq DOMAIN schema \cup (IF s.role = "cte" THEN {s.name} ELSE {})

Resolves(schema, s) ==
    LET outer == OuterRelations(schema, s) IN
    /\ TablesExist(schema, s)
    /\ \A column \in ColumnsIn(s.outer) :
         Bound(outer, column) \/ WholeRow(outer, column)
    /\ s.role # "none" =>
         LET inner == InnerRelations(schema, s)
             seen == IF s.role = "nested" THEN inner \cup outer ELSE inner
         IN
         \A column \in ColumnsIn(s.inner) :
            \/ IF s.role = "nested" THEN BoundInNested(inner, outer, column)
               ELSE Bound(inner, column)
            \/ WholeRow(seen, column)

(* A name means one thing in the whole statement: no alias is given to two  *)
(* tables, nothing the query defines is called like a table it reads, and a *)
(* CTE that is called like a table of the catalog is not read by an alias.  *)
NamesMeanOneThing(catalog, s) ==
    /\ \A i, j \in DOMAIN TableRefs(s) :
         TableRefs(s)[i].alias \in {TableRefs(s)[j].alias, TableRefs(s)[j].name} \ {NoName}
           => TableRefs(s)[i].name = TableRefs(s)[j].name
    /\ LocalNames(s) \cap {TableRefs(s)[i].name : i \in DOMAIN TableRefs(s)}
         \subseteq (IF s.role = "cte" THEN {s.name} ELSE {})
    /\ s.role = "cte" => \A i \in DOMAIN s.inner.from : s.inner.from[i].name # s.name
    /\ s.role = "cte" /\ s.name \in DOMAIN catalog =>
         \A i \in DOMAIN s.outer.from :
           s.outer.from[i].name = s.name => s.outer.from[i].alias = NoName

(* The names _local_names leaves out, though a query gives them itself:     *)
(* those of a column list, and those of the FROM clause, which stand for a  *)
(* whole row or for what a function returns.                                *)
Unseen(s) ==
    {s.renamed[i] : i \in DOMAIN s.renamed}
      \cup {Called(TableRefs(s)[i]) : i \in DOMAIN TableRefs(s)}

(* An unseen name is used with a qualifier, or is the name of a column too. *)
Seen(catalog, s, column) ==
    column.qual = NoName /\ column.name \in Unseen(s) => column.name \in Reachable(catalog, s)

NamesAreSeen(catalog, s) == \A column \in ColumnRefs(s) : Seen(catalog, s, column)

-------------------------------------------------------------------------------
(* Row limits.  An own limit is [form, n]: "none", a "literal" integer, or  *)
(* "other", an expression or FETCH FIRST.                                   *)

Least(a, b) == IF a <= b THEN a ELSE b
Greatest(a, b) == IF a >= b THEN a ELSE b

(* ExecutionSettings.clamp_rows. *)
ClampRows(limits, request) ==
    IF request.given THEN Greatest(1, Least(request.n, limits.ceiling)) ELSE limits.default

(* Mutant: no row beyond the limit is asked for. *)
ApplyRowLimitExactly(own, max) ==
    IF own.form = "literal"
    THEN [effective |-> Least(own.n, max), asked |-> Least(own.n, max), capped |-> own.n > max]
    ELSE [effective |-> max, asked |-> max, capped |-> TRUE]

(* apply_row_limit: what is kept, what the database is asked for, and       *)
(* whether it is the server's limit that cuts.                              *)
ApplyRowLimit(own, max) ==
    IF own.form = "literal"
    THEN [effective |-> Least(own.n, max), asked |-> Least(own.n, max) + 1, capped |-> own.n > max]
    ELSE [effective |-> max, asked |-> max + 1, capped |-> TRUE]

(* The rest of execute(): available rows come back, up to those asked for. *)
Page(own, max, available) ==
    LET bound == ApplyRowLimit(own, max)
        fetched == Least(available, bound.asked)
    IN  [rows |-> Least(fetched, bound.effective),
         truncated |-> fetched > bound.effective /\ bound.capped]
===============================================================================
