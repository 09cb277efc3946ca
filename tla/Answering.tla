------------------------------- MODULE Answering -------------------------------
(***************************************************************************)
(* One question after another through the pipeline the API and the         *)
(* evaluation share: schema context, generation, validation, execution,    *)
(* and then a published failure, a page of rows or a score                 *)
(* (evals/pipeline.py, evals/runner.py, answering/, execution/), while the *)
(* schemas are migrated and the catalog is indexed again beside it.        *)
(*                                                                         *)
(* The surface is a baseline of the evaluation, "api", or the tool server  *)
(* "profile_table", which describes a table where the others answer.  What *)
(* the environment offers is one of the Loads, by name:                    *)
(*   surfaces, databases, indexed     who asks about what, indexed for     *)
(*   questions, migrations, indexes   how much of each may happen          *)
(*   rankings, replies, statements    similarity orders, model replies,    *)
(*   golds, results, pages            SQL, and what running it returns     *)
(*   settings, calls, contents        profiles: bounds, requests, columns  *)
(* A question names a database as the benchmark spells it; Fold is what    *)
(* PostgreSQL and schema_name_for make of that spelling.                   *)
(***************************************************************************)
EXTENDS SchemaCatalog, Scoring, Profiling, Surfaces

(* What formatting and answers are made of in a reply. *)
Marks == {"think", "/think", "fence", "label", "sql", "cannot"}

CONSTANTS Loads, Fold, Model, TopK, ElementOrder, RowLimits

(* A statement is a finite text, a result a sequence of rows of values. *)
IsSeq(s) == s \in Seq(ToSet(s))
IsSelect(scope) == IsSeq(scope.from) /\ IsFiniteSet(scope.items) /\ IsFiniteSet(scope.where)
IsValue(v) == /\ v = [type |-> v.type, v |-> v.v] /\ v.type # "number"
              /\ v.type \in Numeric => v.v \in Int
IsTable(table) == IsSeq(table) /\ \A row \in ToSet(table) :
                                     IsSeq(row) /\ \A v \in ToSet(row) : IsValue(v)

ASSUME LoadAssumption ==
    /\ Model \in Models /\ TopK \in Nat \ {0} /\ IsSeq(ElementOrder)
    /\ RowLimits.ceiling \in Nat /\ RowLimits.default \in 1 .. RowLimits.ceiling
    /\ \A db \in DOMAIN Fold : Fold[db] \in Datasets
    /\ \A l \in DOMAIN Loads :
         /\ Loads[l].databases \subseteq DOMAIN Fold /\ Loads[l].indexed \subseteq Models
         /\ Loads[l].replies \subseteq Seq(Marks)
         /\ \A s \in Loads[l].statements \cup Loads[l].golds : IsSelect(s.outer) /\ IsSelect(s.inner)
         /\ \A ranking \in Loads[l].rankings : IsSeq(ranking)
         /\ \A r \in Loads[l].results :
              IsTable(r.predicted) /\ IsTable(r.gold) /\ r.ordered \in BOOLEAN
         /\ \A p \in Loads[l].pages :
              /\ p.own.form \in {"none", "literal", "other"} /\ p.own.n \in Nat
              /\ p.request.given \in BOOLEAN /\ p.request.n \in Nat /\ p.available \in Nat
         /\ \A s \in Loads[l].settings :
              {s.scan, s.cap, s.topK, s.threshold, s.sampleRows} \subseteq Nat
         /\ \A call \in Loads[l].calls : IsSeq(call.columns) /\ call.samples.n \in Nat
         /\ \A contents \in Loads[l].contents :
              contents.ordered \in BOOLEAN /\ contents.values \in Seq(Nat)

VARIABLES
    load,       \* what the environment may do
    left,       \* what of it is left: questions, migrations, indexes
    surface,    \* the baseline, or the server
    scopes,     \* ScopeRegistry._scopes, by database; a server's catalog
    path,       \* search_path of the read-only session
    pc,         \* where the question is
    q           \* the question

Load == Loads[load]

vars == <<catalogVars, load, left, surface, scopes, path, pc, q>>
asker == <<load, surface>>

Servers == {"api", "profile_table"}
Baselines == {"full-schema", "retrieval-only", "with-validation", "mcp-retrieval"}
NeedsRetrieval == surface # "full-schema"
NeedsValidation == surface \in {"with-validation", "api"}

NoScope == [dataset |-> NoName, catalog |-> <<>>, elements |-> <<>>, edges |-> {}]
NoContext == [known |-> FALSE, elements |-> <<>>, edges |-> {}, since |-> 0]
NoPage == [made |-> FALSE]
NoProfile == [made |-> FALSE]
NoAttempt == [error |-> "none", retrieved |-> <<>>, tokens |-> FALSE, sql |-> FALSE]

(* A question before anything is known about it.  goldIn, explainedIn and   *)
(* ranIn are the schemas its statements met (history).                      *)
Unasked == [db |-> NoName, gold |-> "none", ranking |-> <<>>, goldFailed |-> FALSE,
          context |-> NoContext, reply |-> <<>>, taken |-> <<>>, sql |-> "none", stage |-> "none",
          attempt |-> NoAttempt, result |-> "none", verdict |-> "none",
          page |-> NoPage, profile |-> NoProfile, raised |-> "none",
          goldIn |-> NoName, explainedIn |-> NoName, ranIn |-> NoName]

Init ==
    /\ load \in DOMAIN Loads
    /\ surface \in Load.surfaces
    /\ left = [questions |-> Load.questions, migrations |-> Load.migrations,
               indexes |-> Load.indexes]
    /\ InitCatalog(Load.indexed)
    /\ scopes = [db \in DOMAIN Fold |-> NoScope]
    /\ path = NoName
    /\ pc = "idle" /\ q = Unasked

-------------------------------------------------------------------------------
(* The environment. *)

Spend(what) == left[what] > 0 /\ left' = [left EXCEPT ![what] = @ - 1]
Quiet == UNCHANGED <<asker, scopes, path, pc, q>>

Schema ==
    /\ \/ Spend("migrations") /\ \E d \in Datasets, s \in Shapes : Migrate(d, s)
       \/ Spend("indexes") /\ \E d \in Datasets, m \in Models : ReadColumns(d, m)
       \/ UNCHANGED left /\ (ReadTables \/ ReadKeys \/ IndexNothing \/ CommitIndex)
    /\ Quiet

-------------------------------------------------------------------------------
(* Steps of a question. *)

Step(from, to) == pc = from /\ pc' = to
Still == UNCHANGED <<catalogVars, left, asker>>

(* The answerer returns an Attempt.  SQL goes on to the query runner if the *)
(* reference ran, and everything else is recorded as it stands.             *)
Return(record, attempt) ==
    /\ q' = [record EXCEPT !.attempt = attempt]
    /\ pc' = IF attempt.sql /\ ~q.goldFailed THEN "run" ELSE "done"

(* What an exception of this class becomes.  The evaluation files what the  *)
(* answerer raises; a server publishes it.                                  *)
Raise(record, class, attempt) ==
    IF surface \in Servers
    THEN /\ q' = [record EXCEPT !.raised = class, !.attempt = NoAttempt]
         /\ pc' = "done"
    ELSE Return(record, attempt)

Failed(error) == [NoAttempt EXCEPT !.error = error]

(* EvalRunner.run, or a request.  A server's catalog is read at startup. *)
Ask ==
    /\ pc \in {"idle", "done"} /\ Spend("questions")
    /\ \E db \in Load.databases, gold \in Load.golds, ranking \in Load.rankings :
         /\ surface \in Servers => scopes[db] # NoScope
         /\ q' = [Unasked EXCEPT !.db = db, !.gold = gold, !.ranking = ranking]
    /\ pc' = CASE surface = "api" -> "retrieve"
               [] surface = "profile_table" -> "profile"
               [] OTHER -> "gold"
    /\ UNCHANGED <<catalogVars, asker, scopes, path>>

(* SchemaScopedQueryRunner: the transaction's own search_path, folded by    *)
(* PostgreSQL.                                                              *)
RunnerSchema(db) == Fold[db]

(* _evaluate runs the reference first and remembers only that it failed. *)
RunGold ==
    /\ Step("gold", "scope")
    /\ \E lost \in BOOLEAN :
         q' = [q EXCEPT !.goldIn = RunnerSchema(q.db),
                        !.goldFailed = lost \/ ~Resolves(live[RunnerSchema(q.db)].tables, q.gold)]
    /\ Still /\ UNCHANGED <<scopes, path>>

(* _dataset_for: the loader's own spelling. *)
DatasetFor(db) == Fold[db]

(* ScopeRegistry.scope, cached. *)
UseScope ==
    /\ Step("scope", "retrieve")
    /\ scopes[q.db] # NoScope
    /\ Still /\ UNCHANGED <<scopes, path, q>>

(* ... and built: the catalog under every model, none of which is refused. *)
BuildScope ==
    LET d == DatasetFor(q.db) IN
    /\ pc = "scope" /\ scopes[q.db] = NoScope
    /\ IF LoadCatalog(d) = <<>>
       THEN Return(q, Failed("scope_unavailable")) /\ UNCHANGED scopes
       ELSE /\ scopes' = [scopes EXCEPT ![q.db] =
                            [NoScope EXCEPT !.dataset = d, !.catalog = LoadCatalog(d)]]
            /\ pc' = IF NeedsRetrieval THEN "retrieve" ELSE "elements"
            /\ UNCHANGED q
    /\ Still /\ UNCHANGED path

(* read_full_schema: two statements, one row per element and model. *)
ReadFullElements ==
    LET held == rows[scopes[q.db].dataset]
        found == {p \in (DOMAIN ElementOrder) \X Models : ElementOrder[p[1]] \in held[p[2]]}
        upTo(i) == Cardinality({p \in found : p[1] <= i})
    IN
    /\ Step("elements", "edges")
    /\ scopes' = [scopes EXCEPT ![q.db].elements =
         [n \in 1 .. Cardinality(found) |->
            ElementOrder[CHOOSE i \in DOMAIN ElementOrder : upTo(i - 1) < n /\ n <= upTo(i)]]]
    /\ Still /\ UNCHANGED <<path, q>>

ReadFullEdges ==
    /\ surface = "full-schema"
    /\ Step("edges", "retrieve")
    /\ scopes' = [scopes EXCEPT ![q.db].edges = keys[scopes[q.db].dataset]]
    /\ Still /\ UNCHANGED <<path, q>>

(* Resources.catalog, once, on a session that is pointed at the schema. *)
StartServer(db) ==
    /\ surface \in Servers /\ pc = "idle"
    /\ db \in Load.databases /\ \A other \in DOMAIN scopes : scopes[other] = NoScope
    /\ LoadCatalog(Fold[db]) # <<>>
    /\ scopes' = [scopes EXCEPT ![db] =
                    [NoScope EXCEPT !.dataset = Fold[db], !.catalog = LoadCatalog(Fold[db])]]
    /\ path' = Fold[db]
    /\ Still /\ UNCHANGED <<pc, q>>

(* FullSchemaSource.context *)
UseFullSchema ==
    /\ surface = "full-schema"
    /\ Step("retrieve", "generate")
    /\ q' = [q EXCEPT !.context = [known |-> TRUE, elements |-> scopes[q.db].elements,
                                   edges |-> scopes[q.db].edges, since |-> 0]]
    /\ Still /\ UNCHANGED <<scopes, path>>

(* SchemaRetriever.search, here or in a server: elements, then join paths,  *)
(* in one READ COMMITTED transaction.                                       *)
Search ==
    /\ NeedsRetrieval
    /\ Step("retrieve", "edges")
    /\ \E elements \in {SearchElements(scopes[q.db].dataset, Model, q.ranking, TopK)} :
         q' = [q EXCEPT !.context = [known |-> FALSE, elements |-> elements, edges |-> {},
                                     since |-> Len(log)]]
    /\ Still /\ UNCHANGED <<scopes, path>>

SearchJoins ==
    /\ NeedsRetrieval
    /\ Step("edges", "generate")
    /\ q' = [q EXCEPT !.context.known = TRUE,
                      !.context.edges = SearchEdges(scopes[q.db].dataset, q.context.elements)]
    /\ Still /\ UNCHANGED <<scopes, path>>

(* A question that embeds to nothing, a server that does not answer, or any *)
(* other exception on the way: the driver's are not caught before the       *)
(* runner.                                                                  *)
LosesContext ==
    /\ \/ pc \in {"retrieve", "edges"} /\ NeedsRetrieval
             /\ Raise(q, "RetrievalError", Failed("retrieval_failed"))
       \/ pc \in {"scope", "elements", "edges"} /\ Raise(q, "DriverError", Failed("internal_error"))
    /\ scopes' = IF pc \in {"elements", "edges"} /\ ~NeedsRetrieval
                 THEN [scopes EXCEPT ![q.db] = NoScope] ELSE scopes
    /\ Still /\ UNCHANGED path

(* retrieved_columns *)
RetrievedColumns(context) ==
    Picked(context.elements, {i \in DOMAIN context.elements : context.elements[i][2] # NoName})

(* Mutant: an answer that never came reports nothing of what came before. *)
NoAnswerForgetful(error, paid) == [Failed(error) EXCEPT !.tokens = paid]

(* An Attempt without an answer; a refusal has been paid for. *)
NoAnswer(error, paid) ==
    [Failed(error) EXCEPT !.retrieved = RetrievedColumns(q.context), !.tokens = paid]

(* The provider failed. *)
ModelFails(class) ==
    /\ pc = "generate"
    /\ Raise(q, class, NoAnswer("llm_failed", FALSE))
    /\ Still /\ UNCHANGED <<scopes, path>>

(* A completed generation, with or without SQL to run. *)
Candidate(error) ==
    [error |-> error, retrieved |-> RetrievedColumns(q.context), tokens |-> TRUE,
     sql |-> error = "none"]

(* Text that is not a statement. *)
NoSelect == [from |-> <<>>, items |-> {}, where |-> {}]
Garbled == [text |-> "garbled", root |-> "none", parts |-> {}, into |-> FALSE,
            outer |-> NoSelect, inner |-> NoSelect, role |-> "none", name |-> NoName,
            renamed |-> <<>>]

(* generate_detailed: what is left of a reply once it is stripped. *)
Generate(reply) ==
    /\ pc = "generate"
    /\ LET text == StripFormatting(reply)
           read == [q EXCEPT !.reply = reply, !.taken = text]
           answer(sql) == [read EXCEPT !.sql = sql,
                             !.attempt = IF NeedsValidation THEN @ ELSE Candidate("none")]
       IN  IF text = <<>> THEN Raise(read, "LLMResponseError", NoAnswer("llm_failed", FALSE))
           ELSE IF Head(text) = "cannot"
                THEN Raise(read, "UnanswerableQuestionError", NoAnswer("unanswerable", TRUE))
           ELSE /\ \E sql \in IF text = <<"sql">> THEN Load.statements ELSE {Garbled} :
                     q' = answer(sql)
                /\ pc' = IF NeedsValidation THEN "validate"
                         ELSE IF q.goldFailed THEN "done" ELSE "run"
    /\ Still /\ UNCHANGED <<scopes, path>>

-------------------------------------------------------------------------------
(* Validation. *)

(* Mutant: the session is pointed once and stays there. *)
ActivateOnce(scope) == IF path = NoName THEN scope.dataset ELSE path

(* ScopeRegistry.activate; the API's sessions are pointed when they open. *)
Activate(scope) == IF surface = "api" THEN path ELSE scope.dataset

(* What EXPLAIN says in a schema, as _from_database_error names it, and the *)
(* cost ceiling.  A lost connection is one more "explain_failed".           *)
Explained(schema, s) ==
    {"explain_failed", "statement_timeout"} \cup
      (IF ~TablesExist(schema, s) THEN {"table_not_found"}
       ELSE IF ~Resolves(schema, s) THEN {"unknown_identifier"}
       ELSE {"ok", "cost_exceeded", "permission_denied"})

(* A rejection: no SQL for the runner, an SQLValidationError for a caller. *)
Reject(record, error) ==
    Raise(record, "SQLValidationError", Candidate(error))

(* PipelineAnswerer's last step, or the first of SQLExecutor.execute. *)
Validate ==
    LET scope == scopes[q.db]
        static == ValidateStatic(scope.catalog, q.sql)
    IN
    /\ pc = "validate"
    /\ path' = Activate(scope)
    /\ IF static # "ok" THEN Reject([q EXCEPT !.stage = "static"], static)
       ELSE \E outcome \in Explained(live[path'].tables, q.sql) :
              LET asked == [q EXCEPT !.stage = "explain", !.explainedIn = path'] IN
              IF outcome # "ok" THEN Reject(asked, outcome)
              ELSE /\ q' = [asked EXCEPT !.attempt = Candidate("none")]
                   /\ pc' = IF q.goldFailed THEN "done" ELSE "run"
    /\ Still /\ UNCHANGED scopes

(* The statement that points the session fails: nothing catches it here. *)
ActivateFails ==
    /\ pc = "validate" /\ surface = "with-validation"
    /\ Raise(q, "DriverError", Failed("internal_error"))
    /\ Still /\ UNCHANGED <<scopes, path>>

-------------------------------------------------------------------------------
(* Execution. *)

(* SQLExecutor.execute, past validation: the limit is put on, one row more  *)
(* is asked for, and a driver error is translated.                          *)
Execute ==
    /\ pc = "run" /\ surface = "api"
    /\ \/ /\ Resolves(live[path].tables, q.sql)
          /\ \E p \in Load.pages :
               q' = [q EXCEPT !.ranIn = path,
                       !.page = [made |-> TRUE, given |-> p,
                                 shown |-> Page(p.own, ClampRows(RowLimits, p.request), p.available)]]
          /\ pc' = "done"
       \/ \E class \in {"StatementTimeoutError", "PermissionDeniedError", "ExecutionError"} :
            Raise([q EXCEPT !.ranIn = path], class, NoAttempt)
    /\ Still /\ UNCHANGED <<scopes, path>>

(* The generated query through the runner that ran the reference. *)
RunPredicted ==
    /\ surface # "api"
    /\ Step("run", "done")
    /\ LET ran == [q EXCEPT !.ranIn = RunnerSchema(q.db)] IN
       \/ /\ CheckText(q.sql) = "ok" /\ Resolves(live[RunnerSchema(q.db)].tables, q.sql)
          /\ \E r \in Load.results :
               q' = [ran EXCEPT !.result = r, !.verdict = Compare(r.predicted, r.gold, r.ordered)]
       \/ q' = [ran EXCEPT !.attempt.error = "execution_failed"]
    /\ Still /\ UNCHANGED <<scopes, path>>

-------------------------------------------------------------------------------
(* Profiling. *)

(* The columns of a table in the live schema, none if it is gone. *)
LiveColumns(d, table) ==
    IF table \in DOMAIN live[d].tables THEN live[d].tables[table] ELSE {}

(* The profile_table tool: names are resolved in the catalog of the         *)
(* startup; a column the schema no longer has cannot be read.               *)
ProfileTable(s, call) ==
    LET scope == scopes[q.db]
        table == call.table
        chosen == SelectColumns(s, scope.catalog[table], call.columns)
        readable == LiveColumns(path, table) \ Sensitive
        gone == [ordered |-> FALSE, values |-> <<>>]
    IN
    /\ Step("profile", "done")
    /\ IF ~FitsSchema(s, call) THEN UNCHANGED q
       ELSE IF table \notin DOMAIN scope.catalog
            THEN q' = [q EXCEPT !.raised = "UnknownTableError"]
       ELSE IF ~(ToSet(call.columns) \subseteq scope.catalog[table])
            THEN q' = [q EXCEPT !.raised = "ProfilingError"]
       ELSE \E contents \in [ToSet(chosen.taken) \cap readable -> Load.contents],
               outcome \in [ToSet(chosen.taken) \cap readable -> {"ok", "refused", "unsampled"}] :
              LET held(c) == IF c \in DOMAIN contents THEN contents[c] ELSE gone
                  came(c) == IF c \in DOMAIN outcome THEN outcome[c] ELSE "refused"
                  wanted == ClampSampleRows(s, call.samples)
              IN  q' = [q EXCEPT !.profile =
                    [made |-> TRUE, settings |-> s, call |-> call, held |-> contents,
                     came |-> outcome, omitted |-> chosen.omitted,
                     columns |-> [i \in DOMAIN chosen.taken |->
                       LET c == chosen.taken[i] IN
                       [column |-> c, says |-> ProfileColumn(s, c, held(c), came(c), wanted)]]]]
    /\ Still /\ UNCHANGED <<scopes, path>>

(* The statements around the columns, of types and of the row estimate, are *)
(* not guarded: the driver's own error leaves the tool.                     *)
ProfileFails ==
    /\ pc = "profile"
    /\ Raise(q, "DriverError", NoAttempt)
    /\ Still /\ UNCHANGED <<scopes, path>>

-------------------------------------------------------------------------------
Providers == {"LLMUnavailableError", "LLMQuotaExceededError"}

Context == UseScope \/ BuildScope \/ ReadFullElements \/ ReadFullEdges \/ UseFullSchema
           \/ Search \/ SearchJoins \/ LosesContext

Answer == \/ \E class \in Providers : ModelFails(class)
          \/ \E reply \in Load.replies : Generate(reply)
          \/ Validate \/ ActivateFails \/ Execute \/ RunPredicted

Profile == ProfileFails \/ \E s \in Load.settings, call \in Load.calls : ProfileTable(s, call)

Next == Schema \/ Ask \/ RunGold \/ Context \/ Answer \/ Profile
        \/ \E db \in DOMAIN Fold : StartServer(db)

Spec == Init /\ [][Next]_vars

-------------------------------------------------------------------------------
(* The last index of a dataset under some models among the first n. *)
LastIndex(n, d, models) ==
    LET done == {i \in 1 .. n : log[i].dataset = d /\ log[i].model \in models} IN
    IF done = {} THEN 0 ELSE CHOOSE i \in done : \A j \in done : j <= i

(* "All or nothing" (schema/indexer.py): whatever is indexed while a search *)
(* runs, its elements are the best of the one index that was current when   *)
(* it began, and its join paths, each offered once, are those of a single   *)
(* index that is no older.                                                  *)
SearchSeesWholeIndexes ==
    q.context.known /\ NeedsRetrieval =>
      LET d == scopes[q.db].dataset
          i == LastIndex(q.context.since, d, {Model})
          current == IF i = 0 THEN {} ELSE log[i].rows
          hits == Hits(q.ranking, current)
          both(ks) == {k \in ks : {k.edge[1], k.edge[3]} \subseteq TablesOf(q.context.elements)}
      IN  /\ q.context.elements = SubSeq(hits, 1, Least(TopK, Len(hits)))
          /\ \/ q.context.edges = {}
             \/ \E j \in i .. Len(log) : /\ log[j].dataset = d
                                         /\ q.context.edges = both(log[j].keys)
          /\ \A k, l \in q.context.edges : k.edge = l.edge => k = l

(* "a catalog for one database and a search_path for another produces SQL   *)
(* that validates and then reads the wrong tables" (DatabaseScope): the     *)
(* reference, EXPLAIN, the generated query and the catalog of one question  *)
(* all mean the schema of its database, whatever was asked before it.       *)
OneDatabase ==
    pc # "idle" =>
      /\ {q.goldIn, q.explainedIn, q.ranIn} \subseteq {NoName, Fold[q.db]}
      /\ scopes[q.db].dataset \in {NoName, Fold[q.db]}

(* The catalog knows all that the schema has. *)
Covers(catalog, schema) ==
    \A t \in DOMAIN schema : t \in DOMAIN catalog /\ schema[t] \subseteq catalog[t]

(* A query is right in a schema the catalog covers, and refused all the     *)
(* same for one of its names.                                               *)
RightYetRefused(catalog, schema, s) ==
    /\ Covers(catalog, schema)
    /\ CheckText(s) = "ok" /\ Resolves(schema, s)
    /\ ValidateStatic(catalog, s) \in {"table_not_found", "unknown_identifier"}

(* "A false rejection blocks a valid query for a reason the agent cannot    *)
(* fix ... So this only rejects what it is confident about"                 *)
(* (_check_identifiers): a query whose names all resolve in the live schema *)
(* is not refused for its identifiers by a catalog that covers that schema, *)
(* when each of its names means one thing and those that _local_names       *)
(* leaves out are qualified where they are used.                            *)
RightQueryNotRejected ==
    pc = "validate" =>
      LET scope == scopes[q.db] IN
      NamesMeanOneThing(scope.catalog, q.sql) /\ NamesAreSeen(scope.catalog, q.sql) =>
        ~RightYetRefused(scope.catalog, live[scope.dataset].tables, q.sql)

(* "recall is a data point whether or not the model went on to answer" and  *)
(* a question that cost tokens still cost them (PipelineAnswerer): an       *)
(* attempt that the answerer returned reports what was retrieved and, once  *)
(* the model said anything, what was paid.                                  *)
AttemptKeepsWhatItLearned ==
    pc = "done" /\ surface \in Baselines /\ q.attempt.error # "internal_error" =>
      /\ q.context.known => q.attempt.retrieved = RetrievedColumns(q.context)
      /\ q.attempt.tokens = (q.taken # <<>>)

(* A reply a model is asked for: reasoning of any kind, then the answer,    *)
(* bare, labelled or fenced.                                                *)
Answers(body) == {<<body>>, <<"label", body>>, <<"fence", body, "fence">>,
                  <<"fence", "label", body, "fence">>}
Replies(body, reply) ==
    \/ reply \in Answers(body)
    \/ \E i \in DOMAIN reply : /\ reply[1] = "think" /\ reply[i] = "/think"
                               /\ SubSeq(reply, i + 1, Len(reply)) \in Answers(body)

(* strip_formatting takes the answer and only the answer: reasoning that    *)
(* quotes its own tags, fences or SQL is never run, and reasoning that was  *)
(* cut off is no answer.                                                    *)
AnswerIsTheReplys ==
    /\ \A body \in {"sql", "cannot"} : Replies(body, q.reply) => q.taken = <<body>>
    /\ q.reply # <<>> /\ q.reply[1] = "think" /\ "/think" \notin ToSet(q.reply) => q.taken = <<>>

(* "Smaller wins", and truncation is reported exactly when rows were lost   *)
(* to the server's limit (apply_row_limit): a query that asked for ten rows *)
(* and got ten has lost nothing, one that filled the page may have.         *)
LimitsHonest ==
    q.page.made /\ q.page.given.own.form # "other" =>
      LET given == q.page.given
          limit == ClampRows(RowLimits, given.request)
          wanted == IF given.own.form = "literal" THEN Least(given.own.n, given.available)
                    ELSE given.available
      IN  /\ q.page.shown.rows = Least(wanted, limit)
          /\ q.page.shown.truncated = (wanted > limit)
          /\ limit \in 1 .. RowLimits.ceiling

(* The verdict is the one docs/ml/EVALUATION.md defines: a match, and a     *)
(* verdict of wrong order once the order is forgotten, have the same        *)
(* meaning, and results that are the same once every value is canonical     *)
(* match.  The first does not hold of what canonical() makes equal: numbers *)
(* that share a double, and a NaN, an infinity or a date beside its text.   *)
VerdictIsTheReference ==
    q.verdict # "none" =>
      LET r == q.result
          rounded(result) == [i \in DOMAIN result |-> [c \in DOMAIN result[i] |->
                                Canonical(result[i][c])]]
          told == NothingLost(r.predicted, r.gold) /\ NothingConfused(r.predicted, r.gold)
      IN  /\ told /\ q.verdict = "match" => SameMeaning(r.predicted, r.gold, r.ordered)
          /\ SameMeaning(rounded(r.predicted), rounded(r.gold), r.ordered)
             /\ (r.gold # <<>> => Len(r.gold[1]) <= MaxColumns) => q.verdict = "match"
          /\ q.verdict = "order_mismatch" => r.ordered
          /\ told /\ q.verdict = "order_mismatch" => SameMeaning(r.predicted, r.gold, FALSE)

(* Recall is attainable and honest at its ends: with every column the       *)
(* reference needs among the first k it is one, tables included; with       *)
(* nothing retrieved it is zero; and it never falls as k grows.             *)
RecallReachesOne ==
    pc = "done" /\ surface \in Baselines =>
      LET got == q.attempt.retrieved
          found(k) == Found(q.gold, got, k)
      IN  \A k \in KValues :
            /\ GoldColumns(q.gold) \subseteq ToSet(Window(got, k))
               /\ GoldTables(q.gold) \subseteq {e[1] : e \in GoldColumns(q.gold)}
               => found(k) = Cardinality(Targets(q.gold))
            /\ got = <<>> => found(k) = 0
            /\ \A l \in KValues : k <= l => found(k) <= found(l)

(* "Silence and suppression look identical to a caller" (ColumnProfile): a  *)
(* profile never speaks of a sensitive column, lists exactly the commonest  *)
(* values that are no small cell, counts as it says, gives a reason for     *)
(* every gap that is not the column's own emptiness (or a sample that was   *)
(* lost), and accounts for every column it was asked about.                 *)
ProfileSaysWhy ==
    q.profile.made =>
      LET p == q.profile
          s == p.settings
          rowsOf(c) == Scan(s, p.held[c].values)
          common(c) == {v \in ToSet(NotNull(rowsOf(c))) : Occurrences(v, rowsOf(c)) >= s.threshold}
          why(says, reasons) == says.withheld \cap (reasons \cup {"refused"}) # {}
          shows(says) == {x.value : x \in ToSet(says.frequent)}
      IN  /\ p.call.columns = <<>> =>
               Len(p.columns) + p.omitted = Cardinality(scopes[q.db].catalog[p.call.table])
          /\ p.call.columns # <<>> => Len(p.columns) = Len(p.call.columns)
          /\ \A i \in DOMAIN p.columns :
               LET c == p.columns[i].column
                   says == p.columns[i].says
               IN  IF c \in Sensitive THEN says = [Silent EXCEPT !.withheld = {"sensitive"}]
                   ELSE IF c \notin DOMAIN p.held THEN "refused" \in says.withheld
                   ELSE /\ \A x \in ToSet(says.frequent) : x.count = Occurrences(x.value, rowsOf(c))
                        /\ shows(says) \subseteq common(c)
                        /\ \A v \in common(c) \ shows(says) :
                             why(says, {"top_k"}) \/ Len(says.frequent) = s.topK
                        /\ says.frequent = <<>> => why(says, {"top_k", "rare"})
                        /\ says.min = Null => why(says, {"unordered"}) \/ NotNull(rowsOf(c)) = <<>>
                        /\ says.samples = <<>> => \/ why(says, {"sampling"})
                                                  \/ p.came[c] = "unsampled"
                                                  \/ NotNull(p.held[c].values) = <<>>

(* "Two renderers, one rule" (published): however a failure reaches a       *)
(* caller of the API, by the handler of its class or by the first except    *)
(* clause that fits, it carries the code the error table has for the        *)
(* nearest class, and text that was not written for a caller never leaves.  *)
(* A tool names the same cause in its error_type, and says that it failed   *)
(* in the flag of the protocol as well.  Left out: a driver error, and the  *)
(* cost ceiling, whose error_type is its own.                               *)
FailuresAgree ==
    q.raised # "none" =>
      LET plain == PlainAnswer(q.raised)
          tool(own) == CallResult(Dispatch(TRUE, q.raised, own))
      IN  /\ plain = StreamAnswer(q.raised) /\ plain.code \in DOMAIN Status
          /\ q.raised # "DriverError" => plain.code = NearestCode(q.raised)
          /\ plain.code = "internal_error" => plain.message = "generic"
          /\ \A own \in RejectionTypes :
               /\ <<plain.code, tool(own).payload.error_type>> \in SameCause
               /\ tool(own).isError
               /\ "TextToSQLError" \notin Line[q.raised] => tool(own).payload.message = "generic"
===============================================================================
