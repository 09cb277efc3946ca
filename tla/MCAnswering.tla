------------------------------ MODULE MCAnswering ------------------------------
(***************************************************************************)
(* Answering on two small schemas.  One load moves the schemas and the     *)
(* catalog under two questions; each of the others holds them still and    *)
(* lets one input range over everything of its kind.                       *)
(***************************************************************************)
EXTENDS Answering

Key(n, f, fc, t, tc) == [name |-> n, edge |-> <<f, fc, t, tc>>]

(* Two tables joined by a path that two constraints declare. *)
HR == [tables |-> [t |-> {"a", "b"}, u |-> {"a", "c"}],
       keys |-> <<Key("k1", "t", "a", "u", "a"), Key("k2", "t", "a", "u", "a")>>]
(* ... after b became c and the path moved. *)
HR2 == [tables |-> [t |-> {"a", "c"}, u |-> {"a", "c"}],
        keys |-> <<Key("k1", "t", "c", "u", "c")>>]
Shop == [tables |-> [t |-> {"b"}, v |-> {"c"}], keys |-> <<>>]
Dropped == [tables |-> <<>>, keys |-> <<>>]

MCFold == [HR |-> "hr", shop |-> "shop"]
MCDatasets == {"hr", "shop"}
MCInitialShape == [hr |-> HR, shop |-> Shop]
MCShapes == {HR2, Dropped}
MCModels == {"m1", "m2"}
MCElementOrder == <<<<"t", "">>, <<"t", "a">>, <<"t", "b">>, <<"t", "c">>,
                    <<"u", "">>, <<"u", "a">>, <<"u", "c">>, <<"v", "">>, <<"v", "c">>>>
MCTiesUp == {v \in -200 .. 200 : (v \div 10) % 2 = 1}
MCRowLimits == [default |-> 2, ceiling |-> 3]

-------------------------------------------------------------------------------
(* Statements. *)
T(name, alias) == [name |-> name, alias |-> alias]
Items(quals, names, as) == [qual : quals, name : names, as : as]
Select(from, items, where) == [from |-> from, items |-> items, where |-> where]

Query(outer, inner, role, name) ==
    [text |-> "one", root |-> "query", parts |-> {}, into |-> FALSE,
     outer |-> outer, inner |-> inner, role |-> role, name |-> name, renamed |-> <<>>]

Plain == {Query(Select(from, {item}, where), NoSelect, "none", "") :
    from \in {<<T("t", "")>>, <<T("u", "")>>, <<T("t", ""), T("u", "")>>, <<T("t", "x")>>,
              <<T("t", "x"), T("u", "y")>>, <<T("v", "")>>},
    item \in Items({"", "t", "u", "x"}, {"a", "b", "c"}, {"", "n"}),
    where \in {{}} \cup {{c} : c \in [qual : {"", "u"}, name : {"a", "c", "n"}]}}

Nested == {Query(Select(<<outer>>, {[qual |-> "", name |-> "a", as |-> ""]}, {}),
                 Select(<<inner>>, {item}, where), "nested", "") :
    outer \in {T("t", ""), T("t", "x")},
    inner \in {T("u", ""), T("u", "x"), T("u", "y"), T("t", "x")},
    item \in Items({"", "t", "u", "x"}, {"a", "b", "c"}, {""}),
    where \in {{}, {[qual |-> "x", name |-> "b"]}, {[qual |-> "", name |-> "b"]}}}

Bodies == {Select(<<from>>, {item}, {}) :
    from \in {T("t", ""), T("t", "x")},
    item \in {[qual |-> "", name |-> "a", as |-> "n"], [qual |-> "", name |-> "b", as |-> ""],
              [qual |-> "x", name |-> "a", as |-> ""]}}

Ctes == {Query(Select(from, {item}, {}), body, "cte", "w") :
    from \in {<<T("w", "")>>, <<T("w", "x")>>, <<T("w", ""), T("u", "")>>},
    item \in Items({"", "w", "x"}, {"a", "b", "n"}, {""}), body \in Bodies}

(* ... called like a table of the schema. *)
Shadows == {Query(Select(<<from>>, {item}, {}), body, "cte", "u") :
    from \in {T("u", ""), T("u", "y")},
    item \in Items({"", "u", "y"}, {"a", "b", "n"}, {""}), body \in Bodies}

Derived == {Query(Select(from, {item}, {}), body, "derived", "s") :
    from \in {<<>>, <<T("u", "")>>},
    item \in Items({"", "s", "u"}, {"a", "b", "n"}, {""}), body \in Bodies}

(* ... with a column list. *)
Listed == {[s EXCEPT !.renamed = [i \in s.inner.items |-> name]] :
    s \in {s \in Ctes \cup Shadows \cup Derived : \A i \in s.inner.items : i.qual = ""},
    name \in {"n", "c"}}

(* Functions and whole rows. *)
WholeRows == {Query(Select(from, {item}, {}), inner, role, "s") :
    from \in {<<T("", "g")>>, <<T("", "g"), T("t", "")>>, <<T("t", "x"), T("", "t")>>},
    item \in Items({"", "g", "t"}, {"a", "g", "t", "x"}, {""}),
    inner \in {Select(<<from>>, {item2}, {}) :
                from \in {T("", "h"), T("u", "")},
                item2 \in Items({""}, {"g", "h", "u", "x"}, {""})},
    role \in {"none", "nested", "derived"}}

AllQueries == Plain \cup Nested \cup Ctes \cup Shadows \cup Derived \cup Listed \cup WholeRows
Sample == Query(Select(<<T("t", "")>>, {[qual |-> "", name |-> "b", as |-> ""]}, {}),
                NoSelect, "none", "")
Renamed == Query(Select(<<T("t", "x")>>, {[qual |-> "x", name |-> "c", as |-> ""]}, {}),
                 NoSelect, "none", "")
Odd == {[Sample EXCEPT !.text = t] : t \in {"blank", "too_long", "opaque", "stacked", "nothing"}}
         \cup {[Sample EXCEPT !.root = "other"], [Sample EXCEPT !.into = TRUE],
               [Sample EXCEPT !.parts = {"forbidden"}], [Sample EXCEPT !.parts = {"lock"}]}

-------------------------------------------------------------------------------
(* Replies, results and pages. *)
AllReplies == SeqOf(Marks, 5)

Whole(v) == [type |-> "int", v |-> v]
Float(v) == [type |-> "float", v |-> v]
Text(v) == [type |-> "text", v |-> v]
NonFinite(v) == [type |-> "nonfinite", v |-> v]
Date(v) == [type |-> "date", v |-> v]
Values == {Whole(10), Float(14), Float(16), Text(10)}
Row(V, n) == [1 .. n -> V]
Table(V, r, c) == [1 .. r -> Row(V, c)]
Small == Table({Whole(10), Float(16), Text(10)}, 2, 2)
(* Numbers past FloatExact, ties, and what is written like a text. *)
Odds == {Whole(120), Whole(135), Whole(140), Float(15), Float(25), Whole(20),
         Text(1), NonFinite(1), Date(1), Date(2)}
Tables == {<<Small, Small>>, <<Table(Values, 1, 1), Table(Values, 1, 1)>>,
           <<Table(Odds, 1, 1), Table(Odds, 1, 1)>>,
           <<Table({NonFinite(1), Date(2)}, 2, 1), Table({NonFinite(1), Date(2), Text(2)}, 2, 1)>>,
           <<Table({Whole(10), Float(14), Whole(30)}, 3, 1), Table({Whole(10), Whole(30)}, 3, 1)>>,
           <<Table({Whole(10), Whole(30)}, 1, 3), Table({Whole(10), Whole(30)}, 1, 3)>>,
           <<{<<>>} \cup Table({Whole(10)}, 1, 1), {<<>>} \cup Table({Whole(10)}, 2, 1)>>}
AllResults == UNION {[predicted : p[1], gold : p[2], ordered : BOOLEAN] : p \in Tables}
OneResult == {[predicted |-> <<<<Whole(10)>>>>, gold |-> <<<<Whole(10)>>>>, ordered |-> FALSE]}

AllPages == [own : {[form |-> "none", n |-> 0], [form |-> "other", n |-> 1]}
                     \cup [form : {"literal"}, n : 0 .. 4],
             request : {[given |-> FALSE, n |-> 0]} \cup [given : {TRUE}, n : 0 .. 4],
             available : 0 .. 5]
OnePage == {[own |-> [form |-> "none", n |-> 0], request |-> [given |-> FALSE, n |-> 0],
             available |-> 1]}

(* Profiles of columns with up to five rows, four of which are read. *)
OneBound == [scan |-> 4, cap |-> 1, topK |-> 1, threshold |-> 2, sampling |-> TRUE, sampleRows |-> 1]
AllBounds == {[OneBound EXCEPT !.cap = c, !.topK = k, !.sampling = b] :
                c \in 1 .. 2, k \in 0 .. 2, b \in BOOLEAN}
AllCalls == [table : {"t", "missing"}, columns : {<<>>, <<"a">>, <<"a", "b">>, <<"c">>},
             samples : {[given |-> FALSE, n |-> 0]} \cup [given : {TRUE}, n : {0, 2}]]
AllContents == [ordered : BOOLEAN, values : SeqOf(0 .. 2, 3) \cup [1 .. 5 -> 1 .. 2]]

Order(i) == CASE i = 1 -> MCElementOrder
              [] i = 2 -> Reverse(MCElementOrder)
              [] i = 3 -> <<<<"t", "a">>, <<"u", "c">>, <<"t", "b">>, <<"u", "a">>, <<"t", "">>>>

-------------------------------------------------------------------------------
Small1 == [surfaces |-> {"retrieval-only"}, databases |-> {"HR"}, indexed |-> {"m1"},
           questions |-> 1, migrations |-> 0, indexes |-> 0,
           rankings |-> {Order(3)}, replies |-> {<<"sql">>}, statements |-> {Sample},
           golds |-> {Sample}, results |-> OneResult, pages |-> OnePage,
           settings |-> AllBounds, calls |-> AllCalls, contents |-> AllContents]

MCLoads ==
    [moving |-> [Small1 EXCEPT !.surfaces = Baselines \cup {"api"}, !.databases = {"HR", "shop"},
                   !.questions = 2, !.migrations = 1, !.indexes = 1,
                   !.statements = {Sample, Renamed}],
     overtaken |-> [Small1 EXCEPT !.indexed = {}, !.migrations = 2, !.indexes = 2],
     statements |-> [Small1 EXCEPT !.surfaces = {"with-validation"},
                       !.statements = AllQueries \cup Odd],
     replies |-> [Small1 EXCEPT !.replies = AllReplies],
     results |-> [Small1 EXCEPT !.results = AllResults],
     recall |-> [Small1 EXCEPT !.golds = AllQueries, !.rankings = {Order(i) : i \in 1 .. 3}],
     pages |-> [Small1 EXCEPT !.surfaces = {"api"}, !.pages = AllPages,
                  !.replies = {<<"sql">>, <<"cannot">>, <<"think", "sql">>}],
     profiles |-> [Small1 EXCEPT !.surfaces = {"profile_table"}, !.migrations = 1]]
===============================================================================
