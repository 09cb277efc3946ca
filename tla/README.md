# Verification of the text-to-SQL agent

TLA+ models of the agent's service, TLC configurations that check them on small instances, and TLAPS proofs of the
central invariants for instances of every size. Paths below are relative to the repository root.

## 1. The system and its parts

A question in natural language arrives at `POST /v1/query`; the service retrieves the relevant part of the schema,
asks a language model for SQL, validates it, runs it as a role that can only read, records it in an audit trail and
answers, either with one JSON body or as a stream of server-sent events.

| Part | State it keeps | Operations | Talks to | What makes it correct |
|---|---|---|---|---|
| Query service (`src/api/query.py`) | admission counter; per request: generator, producer task, queue | answer, stream, heartbeat, disconnect, cancel | answerer and executor on worker threads | slots counted exactly and always returned; a stream tells its story in order and to the end; answers agree with the audit trail |
| Model chain (`src/adapters/llm/`) | index of the model in use | complete | providers over HTTP | preferred models are skipped only for quota; "unavailable" is said only where every model refused somebody; calls end |
| Connections (`src/composition/resources.py`) | owner, read-only connection, pool | open on first use, close | every component | one thread's transaction never harms another's; audit rows survive |
| Executor (`src/execution/`) | none of its own | explain, execute, record | validator, pool, audit | what ran was validated, bounded and recorded |
| Validator (`src/validation/validator.py`) | catalog snapshot | validate | read-only connection | only single read-only statements over known names pass, and right queries are not refused |
| Generator (`src/generation/`) | none | generate | model chain | the SQL that runs is the model's answer, never its reasoning |
| Schema catalog (`src/schema/`) | `agent_meta.schema_elements`, `foreign_keys` | index, load, search | owner connection | a reader sees one whole index; the catalog matches the configured model |
| Application shell (`src/api/app.py`, `health.py`, `middleware.py`) | readiness cache, lifespan | startup, probe, shutdown | resources, query service | ready only when serving is possible; probing is bounded; nothing leaks when startup fails |
| Error surfaces (`src/api/errors.py`, `src/mcp_servers/common.py`) | the error table | publish | every handler and tool | one failure has one code everywhere, and no internal text leaves |
| Profiler (`src/profiling/`) | catalog snapshot | profile | read-only connection | no sensitive or rare value is shown, and every gap says why |
| MCP servers (`src/mcp_servers/`) | resources of one process | tools/call | the same components | one call at a time, errors become envelopes |
| Evaluation (`src/evals/`) | run directory, artifacts | run, resume, score | answerer or MCP servers | an interrupted run resumes without losing or repeating a question; a question meets one database; scores mean what the evaluation document says |
| Benchmark preparation (`src/benchmark/`) | downloads, converted schemas, splits | acquire, convert, load, verify | PostgreSQL, SQLite | partial results are never taken for whole ones; splits are disjoint |
| Web console (`web/src/`) | reducer state, one stream | ask, abort | the API | the view agrees with the stream, whatever the order |

### What is hard here

The API process is an event loop and a pool of worker threads that share one admission counter, two database
connections, a connection pool and one model chain. Cancelling a coroutine does nothing to the thread it awaited;
a client may hang up anywhere; a provider may refuse, recover or time out between any two awaits. The evaluation
harness survives kills by what it left on disk, and talks to server processes that it must be able to give up on. A
question is answered from four reads of a schema (catalog, elements, join paths, EXPLAIN) that migrations and a new
index may separate, and from text a model wrote: reasoning, fences, refusals and SQL with names in several scopes. The
console reads a stream the network cuts where it likes, and may have abandoned it. `PROJECT.json` lists each hazard at
the line where it bites, with the property that would catch it.

## 2. Modules

| Module | Models | Used by |
|---|---|---|
| `Admission` | what the in-flight cap promises, without a counter | `QueryService` (refinement) |
| `QueryService` | `src/api/query.py`, with the executor, the answerer and the audit it drives | `MCQueryService`, `QueryServiceProofs` |
| `FallbackChain` | `src/adapters/llm/fallback.py`, errors as `litellm_client.py` classifies them | `MCFallbackChain`, `FallbackChainProofs` |
| `SharedConnection` | one psycopg connection of `src/composition/resources.py` used from several threads | `MCSharedConnection`, `SharedConnectionProofs` |
| `Lifespan` | the lifespan of `src/api/app.py`, `Resources`, `src/api/health.py` | `MCLifespan`, `LifespanProofs` |
| `EvalRun` | `src/evals/runner.py`, `artifacts.py`, `taxonomy.py`: one run directory | `MCEvalRun`, `EvalRunProofs` |
| `McpPool` | `src/evals/mcp_client.py`, `src/agent/discovery.py` | `MCMcpPool`, `McpPoolProofs` |
| `Console` | `web/src`: parser, transport, reducer, page | `MCConsole`, `ConsoleProofs` |
| `SqlRules` | recovering the answer from a reply (`src/generation/generator.py`), the static stages of `src/validation/validator.py`, row limits (`src/execution/`) | `Scoring`, `Answering` |
| `SchemaCatalog` | `src/schema/`: introspection, index transaction, catalog, search; the schemas under them | `Answering` |
| `Scoring` | `src/evals/comparison.py`, `recall.py` | `Answering` |
| `Profiling` | `src/profiling/profiler.py` | `Answering` |
| `Surfaces` | exception classes, `src/api/errors.py`, the stream's error event, `src/mcp_servers/common.py` | `Answering` |
| `Answering` | the composition: `src/evals/pipeline.py` and `runner.py`, `src/answering/`, the executor, the profile tool | `MCAnswering`, `AnsweringProofs` |

`PROJECT.json` maps each definition to its lines. The operators named as mutants stand next to the definition they
alter; no specification uses them.

**QueryService.** One request is a handler (the route, or the generator `_stream`), a task (`_answer` inside
`_produce` or the route), a thread (its last `asyncio.to_thread` call), a queue between task and generator, what has
been sent, and its audit rows. Coroutines are atomic from await to await. `Arrive` is `acquire` and the choice of
shape; `Begin`, `Deliver`, `Heartbeat`, `Finish`, `Abort` and `Release` are the generator, its `finally` included;
`StartTask` to `Cancelled` are the task; `PickUp` to `Record` the worker thread, which borrows from the pool, runs and
records whether or not anybody still waits. `Hangup` is the client, `DropUnstarted` the response object dropped before
its body was ever iterated. Left out: timings, wording, payloads.

**FallbackChain.** `active` is `_active`; a call carries the index it started from and the one it tries. `Decide` is
the provider's reply, after which other calls may move before `Advance`, `Serve` or `Raise` resumes the coroutine.
`Spend`, `Throttle` and `Recover` are the providers: a daily cap stays spent, a momentary limit passes, and both are
the same 429. `refused` is history, call by call: whom a call has heard refuse it.

**SharedConnection.** `num`, `idx`, `outer` are the fields psycopg keeps for nested blocks; `stack` is the server's
open transaction with its savepoints. `Enter`, `Work`, `Leave` are the three parts of `with conn.transaction()`,
`Insert` is `AuditLog.record`: the statement joins the transaction it finds, or commits by itself, or is refused,
which `record` logs and swallows; a refusal inside a block breaks that block's transaction. psycopg and PostgreSQL are
external, modelled from how the code uses them.

**Lifespan.** `Connect` to `Serve` follow the startup line by line and may fail at each (`Stop` closes everything);
`AskDuringStartup`, `AskCached`, `AskRefresh`, `Run` and `Store` are `Readiness.status`, with the await between
reading the cache and writing it. The database and its grants change at any time; the dataset may be indexed for any set
of models.

**EvalRun.** An invocation is `Invoke`, the manifest, `Resume` (or its refusals), one `Record`/`RecordWritten` pair per
question, `Summarise`. A write is two steps, truncation and content, and `Crash` may come between any two steps.
`Evaluated` is the set of artifacts one question may produce, categorised by `Classify`.

**McpPool.** The harness is one thread (`caller`), each client a thread with an event loop and a server process.
Every wait of the caller may end by timeout with the thread still running; servers may hang or die. `abandoned` is
history: the threads the caller stopped waiting for.

**Console.** Each question is a call of `ask()`: fetching, reading, with events in hand, over. A wire is a sequence of
line texts, CRs and LFs; `Read` takes a chunk that ends anywhere and runs `Push`, the parser's loop, on it. A text is
one token because the parser only looks for terminators in it: cutting inside a text leaves the same
kind of unterminated tail as cutting after it. A line beyond `MAX_LINE_CHARS` is the token of `big_rows`; rows with a
float that is not finite are `nan_rows`, which `json.dumps` writes and `JSON.parse` rejects (`NotJson`). `Ask`,
`Stop`, `Leave` are the person.

**SchemaCatalog.** `live` is each schema as PostgreSQL has it, `rows` and `keys` what `agent_meta` has of it per dataset
and model. An index run reads columns, tables and keys in three statements (`ReadColumns`, `ReadTables`, `ReadKeys`)
between which `Migrate` may come, refuses an empty snapshot (`IndexNothing`) and replaces everything in one transaction
(`CommitIndex`). `log` is history: the indexes committed, in order.

**SqlRules, Scoring, Profiling, Surfaces.** Operators without state. A statement is a query with at most one inner query
(nested, CTE or derived table), its tables and calls of functions, items and column references, the column list of a CTE
or a derived table (`renamed`), and the attributes the parser gives it. A reply
is a sequence of tokens (tags of reasoning, fences, a label, SQL, a refusal). A result is a sequence of rows of typed
values, and `Canonical` does to each what the comparison does: a number goes through a double (`AsFloat`: exact up to
`FloatExact`, multiples of `FloatStep` beyond, ties to even) and is rounded (`ToPlaces`: a tie goes up for the numbers of
`TiesUp`, since it falls where its double lies), a date and a number that is not finite become the text they are written
as. Arrays and JSON values are left out. A column to profile is the sequence of its values.
Exceptions are classes with their line of ancestors; the tables of codes, statuses and error types are the source's, the
table they are held to (`Documented`, `RejectionTypes`) is that of `API.md` and `MCP.md`. The cost ceiling's
`cost_exceeded` is not among the error types of `MCP.md` and is left out of that comparison.

**Answering.** One question at a time goes `gold`, `scope`, `retrieve`, `edges`, `generate`, `validate`, `run`, `done`,
skipping what its surface does not do: the four baselines of the evaluation, the API, or the `profile_table` tool.
`scopes` is the registry's cache, filled once per database and never refreshed; `path` is the `search_path` of the
session that EXPLAIN uses. Each step is one statement, one model call or the code between two of them, and may fail as
the code lets it (`LosesContext`, `ModelFails`, `ActivateFails`, `ProfileFails`). `Schema` moves the catalog beside it.
A question names its database as the benchmark spells it, and `Fold` is what becomes of that spelling.

## 3. Runs

| Run | Bounds | What it shows |
|---|---|---|
| `query_safety` | 2 requests of any shape, cap 2, pool 3, 2 threads | slots counted exactly, transcripts legal, answers agree with the trail |
| `query_liveness` | 2 requests, cap 1, 1 thread | refinement of `Admission`; started slots return at once when the client leaves, otherwise unless the work is stuck in a driver call; so connected callers hear the end; executed queries are audited unless their own call never returns |
| `query_slot_leak` (violation) | same | a stream dropped before its first iteration keeps its slot |
| `chain_calls` | 2 calls, 3 models | preference kept, "unavailable" is said to a call that all it could ask refused, calls end |
| `connection_safety` | 4 blocks, 2 audit rows | serial use sound, a row lost only if its own INSERT was refused; nobody's transaction ended by another |
| `connection_audit_lost` (violation) | 2 blocks, 1 row | an audit row disappears with a search's transaction |
| `lifespan` | 3 probes, TTL 2, clock to 2 | nothing leaks, a ready answer was true within the TTL |
| `lifespan_unindexed` (violation) | 2 probes, 2 embedding models | a process starts on a catalog its model is not in |
| `eval_run` | 3 questions, limits 2 and 3, 2 configurations, halt after 2, 2 invocations, 1 crash | answers kept, one fingerprint, halts on a wall, summaries add up, invocations end |
| `mcp_pool` | 2 datasets, pool of 1, 3 questions | trees bounded and gone at the end, answers own, servers reused, searches end |
| `console` | 2 questions, 4 transcripts, chunks of 6 tokens | one question on the page, shown is sent, settled stays, questions settle |
| `answering` | 2 databases, 2 models, the 8 loads below | an answer is about one database and one index; its SQL is the model's; right queries are not refused; what is reported, scored, profiled and published is what happened |

The loads of `answering`: one moves the schemas under the questions, the others hold them still and let one input
range over everything of its kind.

| Load | What ranges |
|---|---|
| `moving` | two questions of two databases on every baseline and the API, one migration and one index run at any point |
| `overtaken` | nothing indexed at first, two migrations and two index runs against one question |
| `statements` | every query of the grammar: one or two tables, aliases, functions and whole rows, nested, CTE and derived queries with and without column lists, and the odd texts |
| `replies` | every sequence of up to five tokens |
| `results` | pairs of results up to three rows or columns, ordered or not: around the rounding boundary and on ties, past what a double holds, NaN and dates beside text |
| `recall` | every query of the grammar as the reference, three similarity orders |
| `pages` | every LIMIT of the query and of the request from none to one past the ceiling, with 0 to 5 rows there; the API's refusals and cut-off replies |
| `profiles` | columns of up to five rows (one past the scan bound), every combination of caps and gates, a migration |

Why the bounds suffice. *Query:* a slot needs a holder and a contender; `BorrowTimeout` may come at any time, so a
pool emptied by the threads of abandoned requests needs no third request to be seen. *Chain:* an overtaking needs two
calls, a skip over a refusing model needs three models. *Connection:* the worst nesting is a block left out of order
under two others while a fourth arrives. *Lifespan:* two refreshes that overlap and finish in either order, a third
probe that reads what they left, and a clock that runs through a TTL. *EvalRun:* a halt after two leaves a third
question pending for the second invocation; one crash reaches every torn file. *McpPool:* one is the default pool
size; two datasets force an eviction and the third question asks for the evicted one again, with the late answer of
the first still possible. *Console:* a chunk of six tokens completes two events at once, and smaller ones cut an event
everywhere, between CR and LF included; a third question adds nothing that the second does not, since only the current
and one overtaken stream can still be moving. *Answering:* two databases with a shared table name and a shared column
name are what a stale path or catalog confuses; two models share a dataset's join paths; a join declared by two
constraints is what a search must offer once; one inner query reaches every rule on scopes; five tokens hold reasoning
that quotes a tag, and a fenced answer after it; two columns are the limit up to which the comparison permutes
(`MaxColumns`), and three lie beyond it.

The runs of `query_safety`, `connection_safety` and `lifespan` use symmetry over interchangeable requests, blocks,
rows or probes, for invariants only. Deadlock is not checked where every actor may be finished: a bounded number of
requests, blocks, invocations or questions ends in a state with nothing left to do.

### Fairness

- Query: every ready callback of the event loop runs; model calls and the borrow of a connection end by their timeouts;
  a free worker takes a queued call; the transport goes on reading for a client that is there. Clients owe nothing, and
  nothing is assumed of the driver's calls: `statement_timeout` covers the statement of the pool's role only, not the
  search and the audit row on the owner connection (`src/schema/retrieval.py:239`, `src/execution/executor.py:414`), and
  none of them ends while its peer is silent. So `Retrieve`, `Validate`, `Query` and `Record` have no fairness, and the
  properties say what then remains: a client that leaves frees its slot whatever hangs, everything else may wait for as
  long as the request's work is in such a call, or queued while such calls hold every worker (`Stuck`).
- Chain: a provider answers or times out. Nothing is assumed of recovery.
- EvalRun: an invocation goes on until it ends or is killed. Nobody has to resume.
- McpPool: only the caller's thread is fair, since its waits are `Event.wait`, `Future.result` and `Thread.join` with
  timeouts. Servers and their threads may stop for ever anywhere.
- Console: the browser runs, and a connection delivers, drops or closes in the end, as the server's keepalive and end
  of stream make it. The person owes nothing.

## 4. Proofs

For every value of the constants allowed by the named assumptions; `tlapm` checks each to the last leaf. Each
theorem is `Spec => []P`, `Spec => [][A]_vars` or, for `Admission`, `Spec => ASpec`, and follows from an inductive
invariant. The assumptions on constants are those of the component modules: sizes are naturals, positive where the code
refuses zero, a pool exceeds the cap (`PoolAssumption`, which `APISettings` enforces), inputs have the types the code
gives them: a schema has finitely many tables and columns (`ShapeAssumption`), a result is a sequence of rows of typed
values and a query is finite (`LoadAssumption`), and a stream's script ends with its answer and its lines in CR, LF or
both (`TranscriptAssumption`; the first half is `TranscriptLegal` of the query service).

| Theorem | States | Why the property is not inductive, and what is added |
|---|---|---|
| `QueryServiceProofs` `TypeCorrect`, `SlotsExact`, `AdmissionRefined` | `TypeOK`, `SlotAccounting`, the refinement of `Admission` | a release must know that only a generator that started reaches `closing`, and that a plain request is awaited while its work can still end: `Shaped`, `Decided`. `SlotStep` shows that each action keeps the holders and the counter, takes, gives back or turns away one |
| `StoryInOrder`, `ToldAsRecorded` | `TranscriptLegal`, `TrailMatchesAnswer` | both speak of what was sent; what is queued and what the thread will still record must agree with it: `StoryInv` says how much of its script a stream has sent and queued, by where its task is, and that a request is recorded at most once, at the end of the one executor call it makes |
| `FallbackChainProofs` `PreferenceIsKept`, `UnavailableIsHonest` | `PreferenceKept`, `UnavailableMeansAllRefused` | a call has been refused by exactly the models from its start to where it stands (`RefusedSoFar`), those before its start were skipped because another call was refused (`SkippedForOthers`), and it only moves on (`Onward`) |
| `SharedConnectionProofs` `NeverEndedUnderfoot` | `IdleOnlyWhenUnused` | the nesting level is at least the number of open blocks (`Counted`), so the outermost COMMIT or ROLLBACK, issued at level zero, finds nobody inside (`OuterAtZero`, `IdleIsClean`) |
| `SerialIsSound` | `SerialUseIsSound` | `SerialInv`: while blocks never overlap, a block inside is alone and issued BEGIN at level zero, outside the session is idle, a failure is the block's own, and every row whose INSERT was not refused is committed (`RowsCommitted`) |
| `LifespanProofs` `NeverLeaks`, `ReadyIsTrue` | `NothingLeaks`, `ReadyWasTrue` | what is open is a function of the phase (`OpenedInOrder`); the cache, and each refresh under way, carry a date since which everything they list has answered (`CacheDated`, `SeenDated`) |
| `EvalRunProofs` `AnswersStay`, `FingerprintsDoNotMix`, `NothingScoredTwice`, `HaltsExactlyOnAWall`, `SummariesAddUp` | `AnswersKept`, `OneFingerprint`, `RetriedNotScored`, `HaltedOnAWall`, `SummaryAddsUp` | what is pending has no answer (`PendingUnanswered`); no artifact precedes its manifest (`ManifestFirst`); the counter is exactly the run of failures at the end of what was recorded (`CountIsTheWall`); `SummaryAddsUp` itself is inductive once it speaks of the directory just summarised and of a summary that later invocations, killed or not, leave behind |
| `McpPoolProofs` `AnswerableOnceStarted`, `AnswersAreOwn`, `TreesStayBounded`, `StartsOnlyWhenNeeded` | `StartMeansAnswerable`, `AnswerIsOwn`, `TreesBounded`, `StartedOnlyWhenNeeded` | a client is started at most once, by the question that made it, so thread, queue and client share a name (`Named`); what is queued was asked of that dataset (`Queues`); a live thread is abandoned, pooled, the caller's, or being joined (`Accounted`); behind a dataset that answered only later askers stand in the pool (`Recent`), which makes the order of the list least recently used |
| `ConsoleProofs` `OneQuestionAtATime`, `SettledIsFinal` | `OneQuestionShown`, `SettledStays` | a stream that is open and not aborted is the one in flight and the one of the question on the page (`OneReachesThePage`): whatever the parser yields, it yields for that question |
| `AnswersShowWhatWasSent` | `ShownIsSent` | `SInv`: a call that reads or yields is in stride (`InStride`): the parser stands at some line of some entry of the wire (`Parsing`), what is in hand is what the script says from behind a place `k0` to there (`Carries`), and while the question is asked the page shows what it says up to `k0` (`Shows`) |
| `AnsweringProofs` `QuestionsStayHome`, `AttemptsKeepWhatTheyLearned`, `PagesAreHonest` | `OneDatabase`, `AttemptKeepsWhatItLearned`, `LimitsHonest` | `QInv`: a scope once built is of its own database and never changes it (`Scoped`), a server is pointed once, at the database of every question (`Pointed`), what is known grows step by step (`Learned`), a page was made from a request that was allowed (`Paged`) |
| `SearchesSeeWholeIndexes` | `SearchSeesWholeIndexes` | `SInv` adds that `agent_meta` is a function of the log of indexes, the last one per dataset and model, and for join paths per dataset (`Indexed`), and what a search in hand has of which index (`Searched`) |
| `RightQueriesPass`, `AnswersAreTheReplys` | `RightQueryNotRejected`, `AnswerIsTheReplys` | `RInv` adds what was taken of a reply and that a statement reaches the validator; the rest is about operators, below |
| `RenderersAlwaysAgree`, `VerdictsAreTheReference`, `RecallIsAttainable`, `ProfilesSayWhy` | `FailuresAgree`, `VerdictIsTheReference`, `RecallReachesOne`, `ProfileSaysWhy` | `EInv` adds to `SInv` that catalogs, indexes and what is read of them stay finite (`Finite`), so that a ranking of them exists, and how a question ends (`Ended`): what is raised is a class of the hierarchy, a verdict is the comparison of the results in hand, what is listed is a sequence, a profile explains the columns of its scope |

Most of these rest on what operators compute, proved for all inputs. *Names* (`RightIsNotRefused`): where a column is
bound by SQL's rules, some relation in scope owns it; if that is a table, its alias resolves to it, since another table
with the alias has the same name, and the catalog covers it; if it is a CTE or a derived table, the name is among
`LocalNames`, belongs to a table inside, or comes from a column list. A name of a column list, of what a function returns
or of a whole row passes when it is qualified, or when some column is called that too (`NamesAreSeen`). One condition
came out of the proof, a CTE called like a table and read by an alias: `NamesMeanOneThing` has it, and the statements of
the run include it.
*Replies* (`StripTakesAnswer`): an answer has no closing tag in it, so the one before it is the last. *Errors*
(`RenderersAgree`): the code and the error type of every class are written out (`Coded`, `Typed`) and shown to be what
the first rule that fits gives (`FirstFits`), the hierarchy being unwound class by class (`Line`, `Descent`).
*Verdicts* (`VerdictAgrees`): two multisets of rows are equal exactly if a permutation carries one to the other, shown
both ways from counts of places (`SameCountsPermute`, `PermutedCountsSame`), and the column permutations tried are all
there are up to `MaxColumns`; two numbers rounded to one lie within the tolerance if `float()` changed neither
(`RoundedAlike`). *Recall*: a larger k finds no less (`FoundGrows`), nothing retrieved is nothing found
(`NothingFound`), and a window with every column of the reference finds all of it (`AllFound`). *Profiles*
(`ColumnExplains`): a statistic that is missing has a reason, a value shown is counted as it occurs and often enough,
and one that is common is shown unless a cap says otherwise.
*Streams*: the wire is the join of its entries, so each line stands at a known place of it (`Joined`, `WireShape`); a
turn of the parser's loop cuts exactly one line off what is unread, or waits, a CR at the end of the buffer included
(`Cutting`), and a line consumed leads to the next place (`PlaceConsumed`, `TurnParses`). So it does not matter where
the chunks end (`Pushed`), and the events framed are the script's, in order and without its keepalives (`EventsAre`).

Induction. The installed provers cannot use the induction theorems of the library, whose parameter is an operator. Where
a proof needs a least or a greatest element (the log of indexes, aliases by position, blocks by level, halts) it gets one
from well-foundedness (`WFMin` with `NatLessThanWellFounded`), a theorem without such a parameter. The same theorem gives
induction over a *set* of numbers, as a lemma about that set (`Counting`), which is how the recursions of the encoding
and of the parser's loop are shown to be what they say (`EncodingsAre`, `TurnsAre`). Selections (what was retrieved, the
non-null values of a column, the sound events) are picked by position in the models, rather than with `SelectSeq` or a
fold, so that they are defined without recursion; cardinalities come from `FiniteSetTheorems`.

Only model-checked: liveness and fairness, which are out of the prover's reach, as is `ENABLED`: `StartedSlotReturned`,
`ConnectedCallerTold`, `RunQueryAudited`, `EveryCallEnds`, `InvocationEnds`, `SearchEnds` and `QuestionSettles`. Every
other property of a passing run is a theorem.

## 5. Findings

Three runs show the code doing what a comment, a message or a document rules out; `PROJECT.json` quotes the lines.

1. *A slot can be lost* (`src/api/query.py:215`). The slot is taken before the generator starts, and given back by the
   generator's `finally`, which a generator dropped before its first iteration never reaches.
2. *An audit row can vanish* (`src/composition/answering.py:84`). The audit shares the owner connection with the
   retriever, so a row may join, and be rolled back with, a search's transaction.
3. *A process serves without an index* (`src/schema/indexer.py:283`). The check that the configured model has vectors is
   called by tests only; the startup accepts the catalog of any model, and every search then finds nothing.

### Observations made while modelling

Behaviour the models contain that is not a finding with a run of its own; where a property excepts it, the item says so.
The first six also contradict a line of the repository:

- A recovered model is not asked again (`src/adapters/llm/fallback.py:107`). A call tries the models from the one in use
  to the end and nothing moves the chain back, so "every model in the fallback chain is rate limited or out of quota"
  may be said while the preferred ones would answer. `UnavailableMeansAllRefused` says what is meant: this call was
  refused by all it could ask, and each model before those has refused another call, at some time.
- Rows with a NaN are lost on the way (`src/api/sse.py:90`). `json.dumps` writes NaN and Infinity, against "Every
  payload is JSON, always" (`docs/architecture/API.md:178`), and `JSON.parse` rejects them; the page ignores the event
  and shows the question as answered, without rows. `ShownIsSent` has no rows there, and everything else that was sent.
- A query is refused for a name of its own (`src/validation/validator.py:503`). `_local_names` does not read column
  lists: `WITH w(n) AS (SELECT a FROM t) SELECT n FROM w` is an `unknown_identifier`, "the most damaging way for this
  stage to be wrong" (line 495). `RightQueryNotRejected` excepts it by `NamesAreSeen`.
- A NaN matches the text `nan`, an infinity the text `inf` (`src/evals/comparison.py:316`), and a date its ISO text
  (line 319); `docs/ml/EVALUATION.md:27` has a number and its string as distinct. `VerdictIsTheReference` excepts them
  by `NothingConfused`.
- Large numbers that differ match (`src/evals/comparison.py:314`): integers and decimals beyond 2^53 are compared as
  doubles, where `docs/ml/EVALUATION.md:26` has "no meaningful difference is being hidden". Excepted by `NothingLost`.
- An unreachable database is not said to be one (`src/api/errors.py:254`). `docs/architecture/API.md:271` has
  `503 database_unavailable`, which is answered for nothing: a driver's error is `500 internal_error`. `FailuresAgree`
  excepts that class.
- Threads of abandoned requests keep their connection after the slot is free, so the pool, although larger than the cap,
  can be exhausted for a live request (`src/api/query.py:336`); it then fails by the pool's timeout.
- An `explain_only` audit row is written without the request id (`src/api/query.py:264`).
- Two EXPLAIN blocks left out of order make psycopg reject a valid query (`src/validation/validator.py:370`).
- Probes that find the cache stale at the same time each refresh it (`src/api/health.py:127`).
- `--top-k` is not part of the fingerprint of a run (`src/evals/artifacts.py:104`), so a resume may mix two.
- A manifest torn by a crash makes every later resume raise (`src/evals/artifacts.py:269`), and a torn artifact makes
  the summary of a halted or limited resume raise (`src/evals/artifacts.py:370`).
- A gold query that failed on a lost connection is recorded as a gold error and never asked again
  (`src/evals/runner.py:344`).
- A matched answer with incomplete recall may be filed as a retrieval miss (`src/evals/taxonomy.py:114`).
- A slow success on an earlier model moves the chain back onto a model that another call has found spent meanwhile
  (`src/adapters/llm/fallback.py:99`); the next call pays one more refusal.
- A start or a stop that times out leaves a server tree beyond `max_live`; a serving thread that died stays in the pool
  and fails every call until evicted; failed launches are not counted in `starts` (`src/evals/mcp_client.py`).
- A snapshot taken across a migration mixes two schemas (`src/schema/`): three statements, no common transaction snapshot.
  Join paths are not kept per model, so they may be newer than the elements a search ranks.
- The full-schema baseline lists an element once per model it is indexed for; each scope is cached until the process ends.
- The validator refuses other right queries too, although it means to reject "only what it is confident about"
  (`src/validation/validator.py:296`). Of the grammar modelled, these are the ones `RightQueryNotRejected` excepts. By
  `NamesMeanOneThing`, names that are shared: a query that uses an alias in two scopes for two tables (`SELECT a FROM
  t AS x WHERE EXISTS (SELECT x.c FROM u AS x)`: `x` is taken for `t`), one that gives its own relation the name of a
  table it also reads, and one that reads a CTE called like a table of the catalog under an alias (`WITH u AS (SELECT
  a AS n FROM t) SELECT y.n FROM u AS y`: `y` is taken for the catalog's `u`). By `NamesAreSeen`, names that stand
  alone and that the query gives otherwise than by AS: those of a column list (above), of what a function in FROM
  returns (`SELECT g FROM generate_series(1, 3) AS g, t`) and of a whole row (`SELECT t FROM t`). Outside the grammar,
  and not examined: system columns, set operations, queries nested deeper than once, several CTEs.
- A connection lost during EXPLAIN is an `explain_failed`, scored as a syntax error; a failing `activate` is an
  `internal_error` that loses what was retrieved and paid. `AttemptKeepsWhatItLearned` excepts that one.
- An empty or truncated reply is recorded as `llm_failed`, so it counts as infrastructure, without tokens, and is retried;
  the API reports a refusal of the model as `llm_unavailable`; a label before a fence is not stripped.
- A plain `ExecutionError`, the pool's timeout included, is published as `internal_error` (`src/api/errors.py`).
- A LIMIT that is not a literal, or FETCH FIRST, is discarded by `apply_row_limit`; `LimitsHonest` excepts that form.
- Recall credits a table as soon as any column of it was retrieved, and the reference's elements include aliases of outer
  or derived relations that no catalog can hold (`src/evals/recall.py`); averages count a question whose scope or search
  failed as zero.
- The comparison reports a value mismatch for permuted columns in the wrong order (`src/evals/comparison.py`).
- A sample that failed leaves no reason in a profile, a request for no samples leaves the reason of a closed gate, and
  the statements on types and row estimates raise driver errors (`src/profiling/profiler.py`).
- A connection closed cleanly between two events leaves the page asking, with no error shown: `pending` is false there
  (`web/src/api/client.ts:137`). `QuestionSettles` excepts exactly this case.

## 6. Not modelled

Body limits, request ids, static files and request parsing (they act on one request and share nothing); the SQL parser
(a library: its verdict is an attribute of the statement); vectors, samples and the text of prompts, so the prompt's
budget too; rendering and stdio of the MCP servers; costs, confidence intervals and file formats of the evaluation;
benchmark acquisition, conversion and verification (run by hand; archives and type conversion are data); settings,
which are declarative; demo data and migrations. Two index runs that overlap on one dataset are serialised in
`SchemaCatalog`: `indexer` is one run. Reasons are in `PROJECT.json`.

## 7. Plan

1. `TypeOK` of `Lifespan`, `EvalRun` and `McpPool` is part of their inductive invariants and could be listed on its own.
2. `Benchmark`: extraction, lock file and conversion with crashes between steps.
