---------------------------- MODULE AnsweringProofs ----------------------------
(***************************************************************************)
(* What holds of Answering for every load, schema, model and reply: one    *)
(* question meets one database, an attempt keeps what it learned, the      *)
(* limits on rows are told as they are, a search sees whole indexes, a     *)
(* query whose names mean one thing is not refused for them, what is run   *)
(* is the answer of the reply and nothing else, and what a question ends   *)
(* with -- a failure, a verdict, a recall or a profile -- is what the      *)
(* rules for it say.                                                       *)
(***************************************************************************)
EXTENDS Answering, FiniteSetTheorems, SequenceTheorems, WellFoundedInduction, TLAPS

(* A question and a scope are records with the fields they began with. *)
Fields == {"db", "gold", "ranking", "goldFailed", "context", "reply", "taken", "sql", "stage",
           "attempt", "result", "verdict", "page", "profile", "raised", "goldIn", "explainedIn", "ranIn"}
IsQuestion(r) == r = [f \in Fields |-> r[f]]
IsScope(r) == r = [f \in {"dataset", "catalog", "elements", "edges"} |-> r[f]]
IsAttempt(r) == r = [f \in {"error", "retrieved", "tokens", "sql"} |-> r[f]]

(* s is r with at most these fields changed. *)
Changed(r, s, fields) == IsQuestion(s) /\ \A f \in Fields \ fields : s[f] = r[f]

(* A scope that was built is of its own database. *)
Scoped ==
    /\ scopes = [db \in DOMAIN Fold |-> scopes[db]]
    /\ \A db \in DOMAIN Fold :
         IsScope(scopes[db]) /\ (scopes[db] # NoScope => scopes[db].dataset = Fold[db])

(* Where a question works with its scope. *)
Working == {"elements", "retrieve", "edges", "generate", "validate", "run", "profile"}

Met(db, schema) == schema \in {NoName, Fold[db]}

(* What a question in hand has met so far is its database. *)
AtHome ==
    pc # "idle" =>
      /\ q.db \in DOMAIN Fold
      /\ Met(q.db, q.goldIn) /\ Met(q.db, q.explainedIn) /\ Met(q.db, q.ranIn)
      /\ pc \in Working => scopes[q.db].dataset = Fold[q.db]

(* A server is pointed once, at the database of every question it takes.    *)
Pointed ==
    surface \in Servers =>
      /\ pc \notin {"gold", "scope", "elements"}
      /\ \A db \in DOMAIN Fold : scopes[db] # NoScope => path = Fold[db]
      /\ pc # "idle" => path = Fold[q.db]

(* What an attempt reports. *)
Reports ==
    /\ q.context.known => q.attempt.retrieved = RetrievedColumns(q.context)
    /\ q.attempt.tokens <=> q.taken # <<>>

(* What is known of a question at each of its steps. *)
Learned ==
    surface \in Baselines =>
      /\ pc # "profile"
      /\ pc \in {"gold", "scope", "elements", "retrieve", "edges"} => q.context.known = FALSE
      /\ pc \in {"gold", "scope", "elements", "retrieve", "edges", "generate"} => q.taken = <<>>
      /\ pc = "validate" => q.taken # <<>>
      /\ pc \in {"run", "done"} => IsAttempt(q.attempt) /\ q.attempt.tokens \in BOOLEAN
      /\ pc = "run" \/ (pc = "done" /\ q.attempt.error # "internal_error") => Reports

(* A page is what execute() made of a request that was allowed. *)
Paged ==
    q.page.made =>
      \E l \in DOMAIN Loads : \E p \in Loads[l].pages :
        q.page = [made |-> TRUE, given |-> p,
                  shown |-> Page(p.own, ClampRows(RowLimits, p.request), p.available)]

(* The inductive invariant of a question. *)
QInv == IsQuestion(q) /\ load \in DOMAIN Loads /\ Scoped /\ AtHome /\ Pointed /\ Learned /\ Paged

USE LoadAssumption

-------------------------------------------------------------------------------
LEMMA Apart == \A s \in Baselines : s \notin Servers
BY DEF Baselines, Servers

LEMMA UnaskedQuestion ==
  /\ IsQuestion(Unasked) /\ Unasked.goldIn = NoName /\ Unasked.explainedIn = NoName
  /\ Unasked.ranIn = NoName /\ Unasked.page.made = FALSE /\ Unasked.context.known = FALSE
  /\ Unasked.taken = <<>>
BY DEF IsQuestion, Fields, Unasked, NoPage, NoContext

LEMMA Attempts ==
  ASSUME NEW error, NEW paid \in BOOLEAN
  PROVE  /\ IsAttempt(Failed(error)) /\ Failed(error).tokens = FALSE /\ Failed(error).sql = FALSE
         /\ Failed(error).error = error
         /\ IsAttempt(NoAnswer(error, paid)) /\ NoAnswer(error, paid).sql = FALSE
         /\ NoAnswer(error, paid).tokens = paid
         /\ NoAnswer(error, paid).retrieved = RetrievedColumns(q.context)
         /\ IsAttempt(Candidate(error)) /\ Candidate(error).tokens = TRUE
         /\ Candidate(error).retrieved = RetrievedColumns(q.context)
         /\ IsAttempt(NoAttempt) /\ NoAttempt.tokens = FALSE /\ NoAttempt.sql = FALSE
<1> PICK columns : columns = RetrievedColumns(q.context)
  OBVIOUS
<1> QED
  BY DEF Failed, NoAnswer, Candidate, NoAttempt, IsAttempt

LEMMA FailedAttempt ==
  ASSUME NEW error
  PROVE  \E a : /\ a = Failed(error) /\ IsAttempt(a) /\ a.tokens = FALSE /\ a.sql = FALSE
               /\ a.error = error
<1> WITNESS Failed(error)
<1> QED
  BY DEF Failed, NoAttempt, IsAttempt

(* What becomes of an exception, or of an attempt. *)
LEMMA RaiseStep ==
  ASSUME NEW record, IsQuestion(record), NEW class, NEW attempt, Raise(record, class, attempt)
  PROVE  /\ Changed(record, q', {"attempt", "raised"}) /\ pc' \in {"run", "done"}
         /\ attempt.sql = FALSE => pc' = "done"
         /\ surface \in Baselines => q'.attempt = attempt
<1>1. CASE surface \in Servers
  BY <1>1, Apart DEF Raise, Changed, IsQuestion, Fields
<1>2. CASE surface \notin Servers
  BY <1>2 DEF Raise, Return, Changed, IsQuestion, Fields
<1> QED
  BY <1>1, <1>2

LEMMA ReturnStep ==
  ASSUME NEW record, IsQuestion(record), NEW attempt, Return(record, attempt)
  PROVE  /\ Changed(record, q', {"attempt"}) /\ pc' \in {"run", "done"}
         /\ attempt.sql = FALSE => pc' = "done"
         /\ q'.attempt = attempt
BY DEF Return, Changed, IsQuestion, Fields

(* A step of a question in hand. *)
LEMMA Moves ==
  ASSUME QInv, UNCHANGED <<load, surface>>, surface \in Servers => UNCHANGED <<scopes, path>>,
         Scoped', pc # "idle", pc' # "idle", IsQuestion(q'), q'.db = q.db,
         q'.goldIn = q.goldIn \/ Met(q.db, q'.goldIn),
         q'.explainedIn = q.explainedIn \/ Met(q.db, q'.explainedIn),
         q'.ranIn = q.ranIn \/ Met(q.db, q'.ranIn),
         pc' \in Working => scopes'[q.db].dataset = Fold[q.db],
         pc' \notin {"gold", "scope", "elements"},
         q'.page = q.page \/ Paged'
  PROVE  IsQuestion(q') /\ load' \in DOMAIN Loads /\ Scoped' /\ AtHome' /\ Pointed' /\ Paged'
<1>1. AtHome'
  BY DEF QInv, AtHome, Met
<1>2. Pointed'
  BY DEF QInv, Pointed
<1>3. Paged'
  BY DEF QInv, Paged
<1> QED
  BY <1>1, <1>2, <1>3 DEF QInv

LEMMA ScopedStill ==
  ASSUME Scoped, UNCHANGED scopes
  PROVE  Scoped'
BY DEF Scoped

(* An exception in a question that had its scope, or none: what was met so  *)
(* far stays met, and a baseline's attempt says what was learned.           *)
LEMMA Raising ==
  ASSUME QInv, UNCHANGED <<load, surface>>, surface \in Servers => UNCHANGED <<scopes, path>>,
         Scoped', pc # "idle", NEW record, IsQuestion(record), NEW class, NEW attempt,
         Raise(record, class, attempt),
         record.db = q.db, record.goldIn = q.goldIn, record.page = q.page,
         record.explainedIn = q.explainedIn \/ Met(q.db, record.explainedIn),
         record.ranIn = q.ranIn \/ Met(q.db, record.ranIn),
         attempt.sql # FALSE => scopes'[q.db].dataset = Fold[q.db],
         surface \in Baselines =>
           /\ IsAttempt(attempt) /\ attempt.tokens \in BOOLEAN
           /\ attempt.error = "internal_error" => attempt.sql = FALSE
           /\ attempt.error # "internal_error" =>
                /\ record.context.known => attempt.retrieved = RetrievedColumns(record.context)
                /\ attempt.tokens <=> record.taken # <<>>
  PROVE  QInv'
<1>1. /\ Changed(record, q', {"attempt", "raised"}) /\ pc' \in {"run", "done"}
      /\ attempt.sql = FALSE => pc' = "done"
      /\ surface \in Baselines => q'.attempt = attempt
  BY RaiseStep
<1>2. /\ q'.db = q.db /\ q'.goldIn = q.goldIn /\ q'.explainedIn = record.explainedIn
      /\ q'.ranIn = record.ranIn /\ q'.page = q.page
      /\ q'.context = record.context /\ q'.taken = record.taken /\ IsQuestion(q')
  BY <1>1 DEF Changed, Fields
<1>3. IsQuestion(q') /\ load' \in DOMAIN Loads /\ Scoped' /\ AtHome' /\ Pointed' /\ Paged'
  BY <1>1, <1>2, Moves DEF Working
<1>4. Learned'
  <2> SUFFICES ASSUME surface \in Baselines PROVE Learned'
    BY DEF Learned
  <2> HIDE DEF IsAttempt
  <2> QED
    BY <1>1, <1>2 DEF Learned, Reports
<1> QED
  BY <1>3, <1>4 DEF QInv

-------------------------------------------------------------------------------
LEMMA NoScopeIsOne == IsScope(NoScope) /\ NoScope.dataset = NoName
BY DEF IsScope, NoScope

LEMMA InitQInv == Init => QInv
<1> SUFFICES ASSUME Init PROVE QInv
  OBVIOUS
<1>1. Scoped
  BY NoScopeIsOne DEF Init, Scoped
<1>2. AtHome /\ Pointed /\ Learned
  BY <1>1 DEF Init, AtHome, Pointed, Learned, Scoped
<1>3. Paged
  BY UnaskedQuestion DEF Init, Paged
<1> QED
  BY <1>1, <1>2, <1>3, UnaskedQuestion DEF Init, QInv

(* The schemas and the catalog may move under a question: it holds names,   *)
(* which do not.                                                            *)
LEMMA QInvStill ==
  ASSUME QInv, UNCHANGED <<load, surface, scopes, path, pc, q>>
  PROVE  QInv'
<1>1. Scoped' /\ AtHome' /\ Pointed' /\ IsQuestion(q') /\ load' \in DOMAIN Loads
  BY DEF QInv, IsQuestion, Scoped, AtHome, Pointed, Met
<1>2. Learned'
  BY DEF QInv, Learned, Reports, IsAttempt
<1>3. Paged'
  BY DEF QInv, Paged
<1> QED
  BY <1>1, <1>2, <1>3 DEF QInv

LEMMA QInvAsk ==
  ASSUME QInv, Ask
  PROVE  QInv'
<1> USE DEF Ask
<1>1. PICK db \in Load.databases, gold \in Load.golds, ranking \in Load.rankings :
        /\ surface \in Servers => scopes[db] # NoScope
        /\ q' = [Unasked EXCEPT !.db = db, !.gold = gold, !.ranking = ranking]
  BY DEF Ask
<1>2. db \in DOMAIN Fold
  BY DEF Load, QInv
<1>3. /\ Changed(Unasked, q', {"db", "gold", "ranking"}) /\ q'.db = db
  BY <1>1, UnaskedQuestion DEF Changed, IsQuestion, Fields
<1>4. /\ q'.goldIn = NoName /\ q'.explainedIn = NoName /\ q'.ranIn = NoName
      /\ q'.page = Unasked.page /\ q'.context = Unasked.context /\ q'.taken = <<>>
  BY <1>3, UnaskedQuestion DEF Changed, Fields
<1>5. pc' \in {"retrieve", "profile", "gold"} /\ (surface \notin Servers <=> pc' = "gold")
  BY DEF Servers
<1>6. UNCHANGED <<load, surface, scopes, path>>
  BY DEF asker
<1>7. Scoped'
  BY <1>6 DEF QInv, Scoped
<1>8. AtHome'
  BY <1>1, <1>2, <1>3, <1>4, <1>5, <1>6 DEF AtHome, Met, QInv, Scoped, Working
<1>9. Pointed'
  BY <1>1, <1>2, <1>3, <1>5, <1>6 DEF Pointed, QInv
<1>10. Learned'
  BY <1>4, <1>5, <1>6, UnaskedQuestion, Apart DEF Learned
<1>11. Paged'
  BY <1>4, UnaskedQuestion DEF Paged
<1> QED
  BY <1>3, <1>6, <1>7, <1>8, <1>9, <1>10, <1>11 DEF QInv, Changed

LEMMA QInvRunGold ==
  ASSUME QInv, RunGold
  PROVE  QInv'
<1>1. /\ Changed(q, q', {"goldIn", "goldFailed"}) /\ q'.goldIn = Fold[q.db]
  BY DEF RunGold, QInv, Changed, IsQuestion, Fields, RunnerSchema
<1>2. UNCHANGED <<load, surface, scopes, path>> /\ pc = "gold" /\ pc' = "scope"
  BY DEF RunGold, Still, asker, Step
<1>3. /\ q'.db = q.db /\ q'.explainedIn = q.explainedIn /\ q'.ranIn = q.ranIn
      /\ q'.page = q.page /\ q'.context = q.context /\ q'.taken = q.taken
  BY <1>1 DEF Changed, Fields
<1>4. Scoped' /\ AtHome' /\ Pointed' /\ Paged'
  BY <1>1, <1>2, <1>3 DEF QInv, Scoped, AtHome, Pointed, Met, Paged, Working
<1>5. Learned'
  BY <1>2, <1>3 DEF QInv, Learned
<1> QED
  BY <1>1, <1>2, <1>4, <1>5 DEF QInv, Changed

LEMMA QInvUseScope ==
  ASSUME QInv, UseScope
  PROVE  QInv'
<1>1. UNCHANGED <<load, surface, scopes, path, q>> /\ pc = "scope" /\ pc' = "retrieve"
  BY DEF UseScope, Still, asker, Step
<1>2. scopes[q.db].dataset = Fold[q.db]
  BY <1>1 DEF UseScope, QInv, Scoped, AtHome
<1>3. Scoped' /\ AtHome' /\ Pointed' /\ Paged' /\ IsQuestion(q')
  BY <1>1, <1>2 DEF QInv, Scoped, AtHome, Pointed, Met, Paged, IsQuestion
<1>4. Learned'
  BY <1>1 DEF QInv, Learned
<1> QED
  BY <1>1, <1>3, <1>4 DEF QInv

(* A scope is set, whole or in a field, and is still of its database. *)
LEMMA ScopeSet ==
  ASSUME Scoped, NEW db \in DOMAIN Fold, NEW scope, IsScope(scope),
         scope # NoScope => scope.dataset = Fold[db],
         scopes' = [scopes EXCEPT ![db] = scope]
  PROVE  Scoped' /\ scopes'[db] = scope /\ \A d \in DOMAIN Fold : d # db => scopes'[d] = scopes[d]
<1>1. scopes'[db] = scope /\ \A d \in DOMAIN Fold : d # db => scopes'[d] = scopes[d]
  BY DEF Scoped
<1>2. scopes' = [d \in DOMAIN Fold |-> scopes'[d]]
  BY DEF Scoped
<1> QED
  BY <1>1, <1>2 DEF Scoped

LEMMA Opened ==
  ASSUME NEW d, NEW catalog, NEW s, s = [NoScope EXCEPT !.dataset = d, !.catalog = catalog]
  PROVE  IsScope(s) /\ s.dataset = d
BY DEF NoScope, IsScope

LEMMA QInvBuildScope ==
  ASSUME QInv, BuildScope
  PROVE  QInv'
<1>1. UNCHANGED <<load, surface, path>> /\ pc = "scope"
  BY DEF BuildScope, Still, asker
<1>2. q.db \in DOMAIN Fold /\ surface \notin Servers
  BY <1>1 DEF QInv, AtHome, Pointed
<1>3. CASE LoadCatalog(DatasetFor(q.db)) = <<>>
  <2>a. PICK a : /\ a = Failed("scope_unavailable") /\ IsAttempt(a) /\ a.tokens = FALSE
                 /\ a.sql = FALSE
    BY FailedAttempt
  <2>1. Return(q, a) /\ UNCHANGED scopes
    BY <1>3, <2>a DEF BuildScope
  <2>2. Changed(q, q', {"attempt"}) /\ pc' = "done" /\ q'.attempt = a
    BY <2>1, <2>a, ReturnStep DEF QInv
  <2>3. /\ q'.db = q.db /\ q'.goldIn = q.goldIn /\ q'.explainedIn = q.explainedIn
        /\ q'.ranIn = q.ranIn /\ q'.page = q.page /\ q'.context = q.context /\ q'.taken = q.taken
    BY <2>2 DEF Changed, Fields
  <2>4. Learned'
    BY <1>1, <2>a, <2>2, <2>3 DEF QInv, Learned, Reports
  <2>5. Scoped'
    BY <2>1, ScopedStill DEF QInv
  <2> QED
    BY <1>1, <2>1, <2>2, <2>3, <2>4, <2>5, Moves DEF QInv, Changed, Working
<1>4. CASE LoadCatalog(DatasetFor(q.db)) # <<>>
  <2>c. PICK c : c = LoadCatalog(DatasetFor(q.db))
    OBVIOUS
  <2>d. PICK d : d = Fold[q.db]
    OBVIOUS
  <2>k. PICK db : db = q.db
    OBVIOUS
  <2>s. PICK s : s = [NoScope EXCEPT !.dataset = d, !.catalog = c]
    OBVIOUS
  <2>1. scopes' = [scopes EXCEPT ![db] = s] /\ UNCHANGED q
    BY <1>4, <2>c, <2>d, <2>k, <2>s DEF BuildScope, DatasetFor
  <2>2. IsScope(s) /\ s.dataset = Fold[db]
    BY <2>s, <2>d, <2>k, Opened
  <2>3. Scoped' /\ scopes'[db] = s
    BY <1>2, <2>1, <2>2, <2>k, ScopeSet DEF QInv
  <2>4. pc' \in {"retrieve", "elements"}
    BY <1>4 DEF BuildScope
  <2>5. AtHome' /\ Pointed' /\ Paged' /\ IsQuestion(q')
    BY <1>1, <1>2, <2>1, <2>2, <2>3, <2>4, <2>k
       DEF QInv, AtHome, Pointed, Met, Paged, IsQuestion, Working
  <2>6. Learned'
    BY <1>1, <2>1, <2>4 DEF QInv, Learned
  <2> QED
    BY <1>1, <2>3, <2>5, <2>6 DEF QInv
<1> QED
  BY <1>3, <1>4

LEMMA QInvReadFullElements ==
  ASSUME QInv, ReadFullElements
  PROVE  QInv'
<1>1. UNCHANGED <<load, surface, path, q>> /\ pc = "elements" /\ pc' = "edges"
  BY DEF ReadFullElements, Still, asker, Step
<1>2. q.db \in DOMAIN Fold /\ surface \notin Servers /\ scopes[q.db].dataset = Fold[q.db]
  BY <1>1 DEF QInv, AtHome, Pointed, Working
<1>3. PICK elements : scopes' = [scopes EXCEPT ![q.db].elements = elements]
  BY DEF ReadFullElements
<1>4. PICK db, s : db = q.db /\ s = [scopes[db] EXCEPT !.elements = elements]
  OBVIOUS
<1>a. scopes' = [scopes EXCEPT ![db] = s]
  BY ONLY <1>3, <1>4
<1>b. db \in DOMAIN Fold
  BY <1>2, <1>4
<1>5. IsScope(s) /\ s.dataset = Fold[db]
  BY <1>2, <1>4 DEF QInv, Scoped, IsScope
<1>6. Scoped' /\ scopes'[db] = s
  BY <1>a, <1>b, <1>5, ScopeSet DEF QInv
<1>7. IsQuestion(q')
  BY <1>1 DEF QInv, IsQuestion
<1>8. IsQuestion(q') /\ load' \in DOMAIN Loads /\ Scoped' /\ AtHome' /\ Pointed' /\ Paged'
  BY <1>1, <1>2, <1>4, <1>5, <1>6, <1>7, Moves
<1>9. Learned'
  BY <1>1 DEF QInv, Learned
<1> QED
  BY <1>8, <1>9 DEF QInv

LEMMA QInvReadFullEdges ==
  ASSUME QInv, ReadFullEdges
  PROVE  QInv'
<1>1. UNCHANGED <<load, surface, path, q>> /\ pc = "edges" /\ pc' = "retrieve"
  BY DEF ReadFullEdges, Still, asker, Step
<1>2. q.db \in DOMAIN Fold /\ surface \notin Servers /\ scopes[q.db].dataset = Fold[q.db]
  BY <1>1 DEF QInv, AtHome, Servers, Working, ReadFullEdges
<1>3. PICK edges : scopes' = [scopes EXCEPT ![q.db].edges = edges]
  BY DEF ReadFullEdges
<1>4. PICK db, s : db = q.db /\ s = [scopes[db] EXCEPT !.edges = edges]
  OBVIOUS
<1>a. scopes' = [scopes EXCEPT ![db] = s]
  BY ONLY <1>3, <1>4
<1>b. db \in DOMAIN Fold
  BY <1>2, <1>4
<1>5. IsScope(s) /\ s.dataset = Fold[db]
  BY <1>2, <1>4 DEF QInv, Scoped, IsScope
<1>6. Scoped' /\ scopes'[db] = s
  BY <1>a, <1>b, <1>5, ScopeSet DEF QInv
<1>7. IsQuestion(q')
  BY <1>1 DEF QInv, IsQuestion
<1>8. IsQuestion(q') /\ load' \in DOMAIN Loads /\ Scoped' /\ AtHome' /\ Pointed' /\ Paged'
  BY <1>1, <1>2, <1>4, <1>5, <1>6, <1>7, Moves
<1>9. Learned'
  BY <1>1 DEF QInv, Learned
<1> QED
  BY <1>8, <1>9 DEF QInv

LEMMA QInvStartServer ==
  ASSUME QInv, NEW db \in DOMAIN Fold, StartServer(db)
  PROVE  QInv'
<1>1. UNCHANGED <<load, surface, pc, q>> /\ pc = "idle" /\ path' = Fold[db]
  BY DEF StartServer, Still, asker
<1>2. PICK c : c = LoadCatalog(Fold[db])
  OBVIOUS
<1>3. PICK schema, s : /\ schema = Fold[db]
                       /\ s = [NoScope EXCEPT !.dataset = schema, !.catalog = c]
  OBVIOUS
<1>4. scopes' = [scopes EXCEPT ![db] = s]
  BY <1>2, <1>3 DEF StartServer
<1>5. IsScope(s) /\ s.dataset = Fold[db]
  BY <1>3, Opened
<1>6. Scoped' /\ scopes'[db] = s /\ \A d \in DOMAIN Fold : d # db => scopes'[d] = scopes[d]
  BY <1>4, <1>5, ScopeSet DEF QInv
<1>7. DOMAIN scopes = DOMAIN Fold
  BY DEF QInv, Scoped
<1>8. \A d \in DOMAIN Fold : d # db => scopes'[d] = NoScope
  BY <1>6, <1>7 DEF StartServer
<1>9. Pointed'
  BY <1>1, <1>8 DEF Pointed
<1>10. AtHome' /\ Learned'
  BY <1>1 DEF AtHome, Learned
<1>11. Paged' /\ IsQuestion(q')
  BY <1>1 DEF QInv, Paged, IsQuestion
<1> QED
  BY <1>1, <1>6, <1>9, <1>10, <1>11 DEF QInv

(* The context of a question is made. *)
LEMMA Contexts ==
  ASSUME QInv, UNCHANGED <<load, surface, scopes, path>>, pc \in {"retrieve", "edges"},
         pc' \in {"edges", "generate"}, Changed(q, q', {"context"}),
         pc' = "edges" => q'.context.known = FALSE
  PROVE  QInv'
<1>1. /\ q'.db = q.db /\ q'.goldIn = q.goldIn /\ q'.explainedIn = q.explainedIn
      /\ q'.ranIn = q.ranIn /\ q'.page = q.page /\ q'.taken = q.taken /\ IsQuestion(q')
  BY DEF Changed, Fields
<1>2. Scoped' /\ scopes'[q.db].dataset = Fold[q.db]
  BY ScopedStill DEF QInv, AtHome, Working
<1>3. IsQuestion(q') /\ load' \in DOMAIN Loads /\ Scoped' /\ AtHome' /\ Pointed' /\ Paged'
  BY <1>1, <1>2, Moves
<1>4. Learned'
  BY <1>1 DEF QInv, Learned
<1> QED
  BY <1>3, <1>4 DEF QInv

LEMMA QInvSearches ==
  ASSUME QInv, UseFullSchema \/ Search \/ SearchJoins
  PROVE  QInv'
<1>1. CASE UseFullSchema
  <2>1. PICK context : q' = [q EXCEPT !.context = context]
    BY <1>1 DEF UseFullSchema
  <2>2. Changed(q, q', {"context"})
    BY <2>1 DEF QInv, Changed, IsQuestion, Fields
  <2> QED
    BY <1>1, <2>2, Contexts DEF UseFullSchema, Step, Still, asker
<1>2. CASE Search
  <2>0. PICK elements, since :
          q' = [q EXCEPT !.context = [known |-> FALSE, elements |-> elements, edges |-> {},
                                      since |-> since]]
    BY <1>2 DEF Search
  <2>c. PICK context : context = [known |-> FALSE, elements |-> elements, edges |-> {},
                                  since |-> since]
    OBVIOUS
  <2>1. q' = [q EXCEPT !.context = context] /\ context.known = FALSE
    BY <2>0, <2>c
  <2>2. Changed(q, q', {"context"}) /\ q'.context = context
    BY <2>1 DEF QInv, Changed, IsQuestion, Fields
  <2> QED
    BY <1>2, <2>1, <2>2, Contexts DEF Search, Step, Still, asker
<1>3. CASE SearchJoins
  <2>1. PICK context : q' = [q EXCEPT !.context = context]
    BY <1>3 DEF SearchJoins
  <2>2. Changed(q, q', {"context"})
    BY <2>1 DEF QInv, Changed, IsQuestion, Fields
  <2> QED
    BY <1>3, <2>2, Contexts DEF SearchJoins, Step, Still, asker
<1> QED
  BY <1>1, <1>2, <1>3

LEMMA QInvLosesContext ==
  ASSUME QInv, LosesContext
  PROVE  QInv'
<1>1. UNCHANGED <<load, surface, path>> /\ pc \in {"retrieve", "edges", "scope", "elements"}
  BY DEF LosesContext, Still, asker
<1>2. Scoped' /\ (surface \in Servers => UNCHANGED scopes)
  <2>1. CASE pc \in {"elements", "edges"} /\ ~NeedsRetrieval
    <3>1. PICK db, s : db = q.db /\ s = NoScope
      OBVIOUS
    <3>2. db \in DOMAIN Fold /\ scopes' = [scopes EXCEPT ![db] = s]
      BY <2>1, <3>1 DEF LosesContext, QInv, AtHome
    <3>3. Scoped'
      BY <3>1, <3>2, NoScopeIsOne, ScopeSet DEF QInv
    <3> QED
      BY <2>1, <3>3 DEF NeedsRetrieval, Servers
  <2>2. CASE ~(pc \in {"elements", "edges"} /\ ~NeedsRetrieval)
    BY <2>2, ScopedStill DEF LosesContext, QInv
  <2> QED
    BY <2>1, <2>2
<1>3. PICK class, error :
        Raise(q, class, Failed(error)) /\ error \in {"retrieval_failed", "internal_error"}
  BY DEF LosesContext
<1>4. PICK a : /\ a = Failed(error) /\ IsAttempt(a) /\ a.tokens = FALSE /\ a.sql = FALSE
               /\ a.error = error
  BY FailedAttempt
<1>5. surface \in Baselines => q.context.known = FALSE /\ q.taken = <<>>
  BY <1>1 DEF QInv, Learned
<1>6. Raise(q, class, a) /\ IsQuestion(q) /\ pc # "idle"
  BY <1>1, <1>3, <1>4 DEF QInv
<1> QED
  BY <1>1, <1>2, <1>4, <1>5, <1>6, Raising

LEMMA QInvModelFails ==
  ASSUME QInv, NEW class, ModelFails(class)
  PROVE  QInv'
<1>1. UNCHANGED <<load, surface, path, scopes>> /\ pc = "generate" /\ Scoped'
  BY ScopedStill DEF ModelFails, Still, asker, QInv
<1>2. PICK a : a = NoAnswer("llm_failed", FALSE)
  OBVIOUS
<1>3. /\ IsAttempt(a) /\ a.tokens = FALSE /\ a.sql = FALSE
      /\ a.retrieved = RetrievedColumns(q.context)
  BY <1>2, Attempts
<1>4. Raise(q, class, a) /\ IsQuestion(q)
  BY <1>2 DEF ModelFails, QInv
<1>5. surface \in Baselines => q.taken = <<>>
  BY <1>1 DEF QInv, Learned
<1> QED
  BY <1>1, <1>3, <1>4, <1>5, Raising

LEMMA QInvGenerate ==
  ASSUME QInv, NEW reply, Generate(reply)
  PROVE  QInv'
<1>1. UNCHANGED <<load, surface, path, scopes>> /\ pc = "generate" /\ Scoped'
  BY ScopedStill DEF Generate, Still, asker, QInv
<1>t. PICK text : text = StripFormatting(reply)
  OBVIOUS
<1>r. PICK read : read = [q EXCEPT !.reply = reply, !.taken = text]
  OBVIOUS
<1>2. Changed(q, read, {"reply", "taken"}) /\ read.taken = text
  BY <1>r DEF QInv, Changed, IsQuestion, Fields
<1>3. /\ read.db = q.db /\ read.goldIn = q.goldIn /\ read.explainedIn = q.explainedIn
      /\ read.ranIn = q.ranIn /\ read.page = q.page /\ read.context = q.context
      /\ IsQuestion(read)
  BY <1>2 DEF Changed, Fields
<1>4. CASE text = <<>>
  <2>1. PICK a : a = NoAnswer("llm_failed", FALSE)
    OBVIOUS
  <2>2. /\ IsAttempt(a) /\ a.tokens = FALSE /\ a.sql = FALSE
        /\ a.retrieved = RetrievedColumns(q.context)
    BY <2>1, Attempts
  <2>3. Raise(read, "LLMResponseError", a)
    BY <1>4, <1>t, <1>r, <2>1 DEF Generate
  <2> QED
    BY <1>1, <1>2, <1>3, <1>4, <2>2, <2>3, Raising
<1>5. CASE text # <<>> /\ Head(text) = "cannot"
  <2>1. PICK a : a = NoAnswer("unanswerable", TRUE)
    OBVIOUS
  <2>2. /\ IsAttempt(a) /\ a.tokens = TRUE /\ a.sql = FALSE
        /\ a.retrieved = RetrievedColumns(q.context)
    BY <2>1, Attempts
  <2>3. Raise(read, "UnanswerableQuestionError", a)
    BY <1>5, <1>t, <1>r, <2>1 DEF Generate
  <2> QED
    BY <1>1, <1>2, <1>3, <1>5, <2>2, <2>3, Raising
<1>6. CASE text # <<>> /\ Head(text) # "cannot"
  <2>a. PICK a : a = IF NeedsValidation THEN read.attempt ELSE Candidate("none")
    OBVIOUS
  <2>1. PICK sql : q' = [read EXCEPT !.sql = sql, !.attempt = a]
    BY <1>6, <1>t, <1>r, <2>a DEF Generate
  <2>2. Changed(read, q', {"sql", "attempt"}) /\ q'.attempt = a
    BY <1>3, <2>1 DEF Changed, IsQuestion, Fields
  <2>3. /\ q'.db = q.db /\ q'.goldIn = q.goldIn /\ q'.explainedIn = q.explainedIn
        /\ q'.ranIn = q.ranIn /\ q'.page = q.page /\ q'.context = q.context /\ q'.taken = text
        /\ IsQuestion(q')
    BY <1>2, <1>3, <2>2 DEF Changed, Fields
  <2>4. pc' = IF NeedsValidation THEN "validate" ELSE IF q.goldFailed THEN "done" ELSE "run"
    BY <1>6, <1>t, <1>r DEF Generate
  <2>5. scopes'[q.db].dataset = Fold[q.db]
    BY <1>1 DEF QInv, AtHome, Working
  <2>6. IsQuestion(q') /\ load' \in DOMAIN Loads /\ Scoped' /\ AtHome' /\ Pointed' /\ Paged'
    BY <1>1, <2>3, <2>4, <2>5, Moves
  <2>7. Learned'
    <3>1. CASE NeedsValidation
      BY <1>1, <1>6, <2>3, <2>4, <3>1 DEF Learned
    <3>2. CASE ~NeedsValidation
      <4>1. /\ IsAttempt(a) /\ a.tokens = TRUE /\ a.retrieved = RetrievedColumns(q.context)
        BY <2>a, <3>2, Attempts
      <4>2. pc' \in {"done", "run"}
        BY <2>4, <3>2
      <4> QED
        BY <1>1, <1>6, <2>2, <2>3, <4>1, <4>2 DEF Learned, Reports
    <3> QED
      BY <3>1, <3>2
  <2> QED
    BY <2>6, <2>7 DEF QInv
<1> QED
  BY <1>4, <1>5, <1>6

LEMMA QInvValidate ==
  ASSUME QInv, Validate
  PROVE  QInv'
<1>1. UNCHANGED <<load, surface, scopes>> /\ pc = "validate" /\ Scoped'
  BY ScopedStill DEF Validate, Still, asker, QInv
<1>2. q.db \in DOMAIN Fold /\ scopes[q.db].dataset = Fold[q.db]
  BY <1>1 DEF QInv, AtHome, Working
<1>3. path' = Fold[q.db] \/ (surface = "api" /\ path' = path)
  BY <1>2 DEF Validate, Activate
<1>4. path' = Fold[q.db] /\ (surface \in Servers => path' = path)
  BY <1>1, <1>3 DEF QInv, Pointed, Servers
<1>5. surface \in Baselines => q.taken # <<>>
  BY <1>1 DEF QInv, Learned
<1>6. ASSUME NEW record, Changed(q, record, {"stage", "explainedIn"}),
             record.explainedIn \in {q.explainedIn, path'}
      PROVE  /\ record.db = q.db /\ record.goldIn = q.goldIn
             /\ record.explainedIn = q.explainedIn \/ Met(q.db, record.explainedIn)
             /\ record.ranIn = q.ranIn /\ record.page = q.page /\ record.context = q.context
             /\ record.taken = q.taken /\ IsQuestion(record)
  BY <1>4, <1>6 DEF Changed, Fields, Met
<1>7. ASSUME NEW record, Changed(q, record, {"stage", "explainedIn"}),
             record.explainedIn \in {q.explainedIn, path'},
             NEW error, Reject(record, error)
      PROVE  QInv'
  <2>1. PICK a : a = Candidate(error)
    OBVIOUS
  <2>2. /\ IsAttempt(a) /\ a.tokens = TRUE /\ a.retrieved = RetrievedColumns(q.context)
        /\ a.error = "internal_error" => a.sql = FALSE
    BY <1>7, <2>1, Attempts DEF Candidate
  <2>3. Raise(record, "SQLValidationError", a)
    BY <1>7, <2>1 DEF Reject
  <2>4. /\ record.db = q.db /\ record.goldIn = q.goldIn
        /\ record.explainedIn = q.explainedIn \/ Met(q.db, record.explainedIn)
        /\ record.ranIn = q.ranIn /\ record.page = q.page /\ record.context = q.context
        /\ record.taken = q.taken /\ IsQuestion(record)
    BY <1>6, <1>7
  <2> QED
    BY <1>1, <1>2, <1>4, <1>5, <2>2, <2>3, <2>4, Raising
<1>s. PICK static : static = ValidateStatic(scopes[q.db].catalog, q.sql)
  OBVIOUS
<1>8. CASE static # "ok"
  <2>1. PICK record : record = [q EXCEPT !.stage = "static"]
    OBVIOUS
  <2>2. Reject(record, static)
    BY <1>8, <1>s, <2>1 DEF Validate
  <2>3. Changed(q, record, {"stage", "explainedIn"}) /\ record.explainedIn = q.explainedIn
    BY <2>1 DEF QInv, Changed, IsQuestion, Fields
  <2> QED
    BY <1>7, <1>8, <2>2, <2>3
<1>9. CASE static = "ok"
  <2>p. PICK p : p = path'
    OBVIOUS
  <2>1. PICK record : record = [q EXCEPT !.stage = "explain", !.explainedIn = p]
    OBVIOUS
  <2>2. Changed(q, record, {"stage", "explainedIn"}) /\ record.explainedIn = path'
    BY <2>p, <2>1 DEF QInv, Changed, IsQuestion, Fields
  <2>3. PICK outcome \in Explained(live[path'].tables, q.sql) :
          IF outcome # "ok" THEN Reject(record, outcome)
          ELSE /\ q' = [record EXCEPT !.attempt = Candidate("none")]
               /\ pc' = IF q.goldFailed THEN "done" ELSE "run"
    BY <1>9, <1>s, <2>p, <2>1 DEF Validate
  <2>4. CASE outcome # "ok"
    BY <1>7, <2>2, <2>3, <2>4
  <2>5. CASE outcome = "ok"
    <3>a. PICK a : a = Candidate("none")
      OBVIOUS
    <3>1. IsAttempt(a) /\ a.tokens = TRUE /\ a.retrieved = RetrievedColumns(q.context)
      BY <3>a, Attempts
    <3>2. Changed(record, q', {"attempt"}) /\ q'.attempt = a /\ pc' \in {"done", "run"}
      BY <2>2, <2>3, <2>5, <3>a DEF Changed, IsQuestion, Fields
    <3>3. /\ record.db = q.db /\ record.goldIn = q.goldIn
          /\ record.explainedIn = q.explainedIn \/ Met(q.db, record.explainedIn)
          /\ record.ranIn = q.ranIn /\ record.page = q.page /\ record.context = q.context
          /\ record.taken = q.taken /\ IsQuestion(record)
      BY <1>6, <2>2
    <3>4. /\ q'.db = q.db /\ q'.goldIn = q.goldIn
          /\ q'.explainedIn = q.explainedIn \/ Met(q.db, q'.explainedIn)
          /\ q'.ranIn = q.ranIn /\ q'.page = q.page /\ q'.context = q.context
          /\ q'.taken = q.taken /\ IsQuestion(q')
      BY <3>2, <3>3 DEF Changed, Fields
    <3>5. IsQuestion(q') /\ load' \in DOMAIN Loads /\ Scoped' /\ AtHome' /\ Pointed' /\ Paged'
      BY <1>1, <1>2, <1>4, <3>2, <3>4, Moves
    <3>6. Learned'
      BY <1>1, <1>5, <3>1, <3>2, <3>4 DEF Learned, Reports
    <3> QED
      BY <3>5, <3>6 DEF QInv
  <2> QED
    BY <2>4, <2>5
<1> QED
  BY <1>8, <1>9

LEMMA QInvActivateFails ==
  ASSUME QInv, ActivateFails
  PROVE  QInv'
<1>1. UNCHANGED <<load, surface, path, scopes>> /\ pc = "validate" /\ Scoped'
  BY ScopedStill DEF ActivateFails, Still, asker, QInv
<1>2. PICK a : /\ a = Failed("internal_error") /\ IsAttempt(a) /\ a.tokens = FALSE
               /\ a.sql = FALSE /\ a.error = "internal_error"
  BY FailedAttempt
<1>3. Raise(q, "DriverError", a) /\ IsQuestion(q)
  BY <1>2 DEF ActivateFails, QInv
<1> QED
  BY <1>1, <1>2, <1>3, Raising

LEMMA QInvExecute ==
  ASSUME QInv, Execute
  PROVE  QInv'
<1>1. /\ UNCHANGED <<load, surface, path, scopes>> /\ pc = "run" /\ surface = "api" /\ Scoped'
      /\ surface \in Servers /\ surface \notin Baselines
  BY ScopedStill DEF Execute, Still, asker, QInv, Servers, Baselines
<1>2. path = Fold[q.db] /\ scopes'[q.db].dataset = Fold[q.db]
  BY <1>1 DEF QInv, Pointed, AtHome, Working
<1>3. CASE \E class \in {"StatementTimeoutError", "PermissionDeniedError", "ExecutionError"} :
             Raise([q EXCEPT !.ranIn = path], class, NoAttempt)
  <2>0. PICK p : p = path
    OBVIOUS
  <2>1. PICK record, a : record = [q EXCEPT !.ranIn = p] /\ a = NoAttempt
    OBVIOUS
  <2>2. PICK class : Raise(record, class, a)
    BY <1>3, <2>0, <2>1
  <2>3. Changed(q, record, {"ranIn"}) /\ record.ranIn = Fold[q.db]
    BY <1>2, <2>0, <2>1 DEF QInv, Changed, IsQuestion, Fields
  <2>4. /\ record.db = q.db /\ record.goldIn = q.goldIn /\ record.explainedIn = q.explainedIn
        /\ Met(q.db, record.ranIn) /\ record.page = q.page /\ IsQuestion(record)
    BY <2>3 DEF Changed, Fields, Met
  <2> QED
    BY <1>1, <1>2, <2>2, <2>4, Raising
<1>4. CASE /\ \E p \in Load.pages :
               q' = [q EXCEPT !.ranIn = path,
                       !.page = [made |-> TRUE, given |-> p,
                                 shown |-> Page(p.own, ClampRows(RowLimits, p.request), p.available)]]
           /\ pc' = "done"
  <2>1. PICK p \in Load.pages :
          q' = [q EXCEPT !.ranIn = path,
                  !.page = [made |-> TRUE, given |-> p,
                            shown |-> Page(p.own, ClampRows(RowLimits, p.request), p.available)]]
    BY <1>4
  <2>2. PICK page : page = [made |-> TRUE, given |-> p,
                            shown |-> Page(p.own, ClampRows(RowLimits, p.request), p.available)]
    OBVIOUS
  <2>3. q' = [q EXCEPT !.ranIn = path, !.page = page]
    BY <2>1, <2>2
  <2>4. Changed(q, q', {"ranIn", "page"}) /\ q'.ranIn = path /\ q'.page = page
    BY <2>3 DEF QInv, Changed, IsQuestion, Fields
  <2>5. Paged'
    BY <1>1, <2>2, <2>4 DEF QInv, Load, Paged
  <2>6. /\ q'.db = q.db /\ q'.goldIn = q.goldIn /\ q'.explainedIn = q.explainedIn
        /\ Met(q.db, q'.ranIn) /\ IsQuestion(q')
    BY <1>2, <2>4 DEF Changed, Fields, Met
  <2>7. IsQuestion(q') /\ load' \in DOMAIN Loads /\ Scoped' /\ AtHome' /\ Pointed' /\ Paged'
    BY <1>1, <1>4, <2>5, <2>6, Moves DEF Working
  <2>8. Learned'
    BY <1>1 DEF Learned
  <2> QED
    BY <2>7, <2>8 DEF QInv
<1> QED
  BY <1>3, <1>4 DEF Execute

LEMMA QInvRunPredicted ==
  ASSUME QInv, RunPredicted
  PROVE  QInv'
<1>1. UNCHANGED <<load, surface, path, scopes>> /\ pc = "run" /\ pc' = "done" /\ Scoped'
  BY ScopedStill DEF RunPredicted, Step, Still, asker, QInv
<1>2. PICK a : a = [q.attempt EXCEPT !.error = "execution_failed"]
  OBVIOUS
<1>3. /\ Changed(q, q', {"ranIn", "result", "verdict", "attempt"}) /\ q'.ranIn = Fold[q.db]
      /\ q'.attempt \in {q.attempt, a}
  <2>1. CASE \E r, v : q' = [[q EXCEPT !.ranIn = Fold[q.db]] EXCEPT !.result = r, !.verdict = v]
    BY <2>1 DEF QInv, Changed, IsQuestion, Fields
  <2>2. CASE q' = [[q EXCEPT !.ranIn = Fold[q.db]] EXCEPT !.attempt.error = "execution_failed"]
    BY <1>2, <2>2 DEF QInv, Changed, IsQuestion, Fields
  <2> QED
    BY <2>1, <2>2 DEF RunPredicted, RunnerSchema
<1>4. /\ q'.db = q.db /\ q'.goldIn = q.goldIn /\ q'.explainedIn = q.explainedIn
      /\ Met(q.db, q'.ranIn) /\ q'.page = q.page /\ q'.context = q.context
      /\ q'.taken = q.taken /\ IsQuestion(q')
  BY <1>3 DEF Changed, Fields, Met
<1>5. IsQuestion(q') /\ load' \in DOMAIN Loads /\ Scoped' /\ AtHome' /\ Pointed' /\ Paged'
  BY <1>1, <1>4, Moves DEF Working
<1>6. Learned'
  <2> SUFFICES ASSUME surface \in Baselines PROVE Learned'
    BY <1>1 DEF Learned
  <2>1. IsAttempt(q.attempt) /\ q.attempt.tokens \in BOOLEAN /\ Reports
    BY <1>1 DEF QInv, Learned
  <2>2. IsAttempt(a) /\ a.tokens = q.attempt.tokens /\ a.retrieved = q.attempt.retrieved
    BY <1>2, <2>1 DEF IsAttempt
  <2> QED
    BY <1>1, <1>3, <1>4, <2>1, <2>2 DEF Learned, Reports
<1> QED
  BY <1>5, <1>6 DEF QInv

LEMMA QInvProfileTable ==
  ASSUME QInv, NEW s, NEW call, ProfileTable(s, call)
  PROVE  QInv'
<1>1. UNCHANGED <<load, surface, path, scopes>> /\ pc = "profile" /\ pc' = "done" /\ Scoped'
  BY ScopedStill DEF ProfileTable, Step, Still, asker, QInv
<1>2. \/ UNCHANGED q
      \/ \E class : q' = [q EXCEPT !.raised = class]
      \/ \E profile : q' = [q EXCEPT !.profile = profile]
  BY DEF ProfileTable
<1>3. Changed(q, q', {"raised", "profile"})
  BY <1>2 DEF QInv, Changed, IsQuestion, Fields
<1>4. /\ q'.db = q.db /\ q'.goldIn = q.goldIn /\ q'.explainedIn = q.explainedIn
      /\ q'.ranIn = q.ranIn /\ q'.page = q.page /\ IsQuestion(q')
  BY <1>3 DEF Changed, Fields
<1>5. IsQuestion(q') /\ load' \in DOMAIN Loads /\ Scoped' /\ AtHome' /\ Pointed' /\ Paged'
  BY <1>1, <1>4, Moves DEF Working
<1>6. Learned'
  BY <1>1 DEF QInv, Learned
<1> QED
  BY <1>5, <1>6 DEF QInv

LEMMA QInvProfileFails ==
  ASSUME QInv, ProfileFails
  PROVE  QInv'
<1>1. /\ UNCHANGED <<load, surface, path, scopes>> /\ pc = "profile" /\ Scoped'
      /\ surface \notin Baselines
  BY ScopedStill DEF ProfileFails, Still, asker, QInv, Learned
<1>a. PICK a : a = NoAttempt
  OBVIOUS
<1>2. a.sql = FALSE
  BY <1>a DEF NoAttempt
<1>3. Raise(q, "DriverError", a) /\ IsQuestion(q)
  BY <1>a DEF ProfileFails, QInv
<1> QED
  BY <1>1, <1>2, <1>3, Raising

-------------------------------------------------------------------------------
LEMMA NextQInv == QInv /\ [Next]_vars => QInv'
<1> SUFFICES ASSUME QInv, [Next]_vars PROVE QInv'
  OBVIOUS
<1>1. CASE Schema
  BY <1>1, QInvStill DEF Schema, Quiet, asker
<1>2. CASE Ask \/ RunGold
  BY <1>2, QInvAsk, QInvRunGold
<1>3. CASE Context
  BY <1>3, QInvUseScope, QInvBuildScope, QInvReadFullElements, QInvReadFullEdges, QInvSearches,
     QInvLosesContext DEF Context
<1>4. CASE Answer
  BY <1>4, QInvModelFails, QInvGenerate, QInvValidate, QInvActivateFails, QInvExecute,
     QInvRunPredicted DEF Answer
<1>5. CASE Profile
  BY <1>5, QInvProfileTable, QInvProfileFails DEF Profile
<1>6. CASE \E db \in DOMAIN Fold : StartServer(db)
  BY <1>6, QInvStartServer
<1>7. CASE UNCHANGED vars
  BY <1>7, QInvStill DEF vars
<1> QED
  BY <1>1, <1>2, <1>3, <1>4, <1>5, <1>6, <1>7 DEF Next

(* Whatever is asked, migrated and indexed, a question knows its own        *)
(* database, its scope is of it, a server's session is pointed at it, and   *)
(* what it has learned grows with its steps.                                *)
THEOREM SpecQInv == Spec => []QInv
BY InitQInv, NextQInv, PTL DEF Spec

(* The catalog, the reference, EXPLAIN and the generated query of one       *)
(* question mean one schema (ScopeRegistry, SchemaScopedQueryRunner), for   *)
(* any databases asked about in any order on one session.                   *)
THEOREM QuestionsStayHome == Spec => []OneDatabase
<1>1. QInv => OneDatabase
  <2> SUFFICES ASSUME QInv, pc # "idle"
               PROVE  /\ {q.goldIn, q.explainedIn, q.ranIn} \subseteq {NoName, Fold[q.db]}
                      /\ scopes[q.db].dataset \in {NoName, Fold[q.db]}
    BY DEF OneDatabase
  <2> QED
    BY NoScopeIsOne DEF QInv, AtHome, Scoped, Met
<1> QED
  BY <1>1, SpecQInv, PTL

(* An attempt of PipelineAnswerer, however it ended, reports what was       *)
(* retrieved and whether the model was paid.                                *)
THEOREM AttemptsKeepWhatTheyLearned == Spec => []AttemptKeepsWhatItLearned
<1>1. QInv => AttemptKeepsWhatItLearned
  <2> SUFFICES ASSUME QInv, pc = "done", surface \in Baselines,
                      q.attempt.error # "internal_error"
               PROVE  /\ q.context.known => q.attempt.retrieved = RetrievedColumns(q.context)
                      /\ q.attempt.tokens = (q.taken # <<>>)
    BY DEF AttemptKeepsWhatItLearned
  <2>1. Reports /\ q.attempt.tokens \in BOOLEAN
    BY DEF QInv, Learned
  <2>2. q.attempt.tokens = (q.taken # <<>>)
    BY <2>1, Zenon DEF Reports
  <2> QED
    BY <2>1, <2>2 DEF Reports
<1> QED
  BY <1>1, SpecQInv, PTL

(* clamp_rows keeps to the ceiling. *)
LEMMA Clamped ==
  ASSUME NEW request, request.given \in BOOLEAN, request.n \in Nat
  PROVE  ClampRows(RowLimits, request) \in 1 .. RowLimits.ceiling
BY DEF ClampRows, Least, Greatest

(* One row more than the limit tells a full page from a cut one. *)
LEMMA PageIsHonest ==
  ASSUME NEW own, NEW limit \in Nat, NEW available \in Nat,
         own.form \in {"none", "literal"}, own.n \in Nat, NEW wanted,
         wanted = IF own.form = "literal" THEN Least(own.n, available) ELSE available
  PROVE  /\ Page(own, limit, available).rows = Least(wanted, limit)
         /\ Page(own, limit, available).truncated = (wanted > limit)
<1> DEFINE kept == IF own.form = "literal" THEN Least(own.n, limit) ELSE limit
           cuts == IF own.form = "literal" THEN own.n > limit ELSE TRUE
           fetched == Least(available, kept + 1)
<1>1. /\ ApplyRowLimit(own, limit).effective = kept /\ ApplyRowLimit(own, limit).asked = kept + 1
      /\ ApplyRowLimit(own, limit).capped = cuts
  BY DEF ApplyRowLimit
<1>2. /\ Page(own, limit, available).rows = Least(fetched, kept)
      /\ Page(own, limit, available).truncated = (fetched > kept /\ cuts)
  BY <1>1 DEF Page
<1>3. wanted \in Nat /\ Least(fetched, kept) = Least(wanted, limit)
  BY DEF Least
<1>4. (fetched > kept /\ cuts) <=> wanted > limit
  BY DEF Least
<1>5. (fetched > kept /\ cuts) = (wanted > limit)
  <2> HIDE DEF fetched, kept, cuts
  <2> QED
    BY <1>4
<1> QED
  BY <1>2, <1>3, <1>5

(* A page holds the smaller of what was wanted and the limit, and says it   *)
(* was cut exactly when the server's limit cut it (apply_row_limit,         *)
(* SQLExecutor.execute), for every limit, request and number of rows.       *)
THEOREM PagesAreHonest == Spec => []LimitsHonest
<1>1. QInv => LimitsHonest
  <2> SUFFICES ASSUME QInv, q.page.made, q.page.given.own.form # "other" PROVE LimitsHonest
    BY DEF LimitsHonest
  <2>1. PICK l \in DOMAIN Loads : \E p \in Loads[l].pages :
          q.page = [made |-> TRUE, given |-> p,
                    shown |-> Page(p.own, ClampRows(RowLimits, p.request), p.available)]
    BY DEF QInv, Paged
  <2>2. PICK p \in Loads[l].pages :
          q.page = [made |-> TRUE, given |-> p,
                    shown |-> Page(p.own, ClampRows(RowLimits, p.request), p.available)]
    BY <2>1
  <2>3. /\ p.own.form \in {"none", "literal"} /\ p.own.n \in Nat
        /\ p.request.given \in BOOLEAN /\ p.request.n \in Nat /\ p.available \in Nat
    BY <2>2
  <2>4. PICK limit : limit = ClampRows(RowLimits, p.request)
    OBVIOUS
  <2>5. limit \in 1 .. RowLimits.ceiling /\ limit \in Nat
    BY <2>3, <2>4, Clamped
  <2>6. PICK wanted : wanted = IF p.own.form = "literal" THEN Least(p.own.n, p.available)
                               ELSE p.available
    OBVIOUS
  <2>7. PICK own, available : own = p.own /\ available = p.available
    OBVIOUS
  <2>a. /\ own.form \in {"none", "literal"} /\ own.n \in Nat /\ available \in Nat
        /\ wanted = IF own.form = "literal" THEN Least(own.n, available) ELSE available
    BY <2>3, <2>6, <2>7
  <2>8. /\ Page(own, limit, available).rows = Least(wanted, limit)
        /\ Page(own, limit, available).truncated = (wanted > limit)
    BY ONLY <2>a, <2>5, PageIsHonest
  <2>9. /\ q.page.given = p /\ q.page.shown = Page(own, limit, available)
    BY <2>2, <2>4, <2>7
  <2> QED
    BY <2>4, <2>5, <2>6, <2>8, <2>9 DEF LimitsHonest
<1> QED
  BY <1>1, SpecQInv, PTL

-------------------------------------------------------------------------------
(* The last index, as LastIndex finds it, in a log that is given. *)
Done(s, n, d, models) == {i \in 1 .. n : s[i].dataset = d /\ s[i].model \in models}
Top(S) == IF S = {} THEN 0 ELSE CHOOSE i \in S : \A j \in S : j <= i
Newest(s, n, d, models) == Top(Done(s, n, d, models))
RowsAt(s, i) == IF i = 0 THEN {} ELSE s[i].rows
KeysAt(s, i) == IF i = 0 THEN {} ELSE s[i].keys

(* Join paths are each offered once. *)
OnceEach(edges) == \A k, l \in edges : k.edge = l.edge => k = l
Listed(foreignKeys) == DOMAIN foreignKeys \subseteq Nat \ {0}

IsIndex(r) == r = [f \in {"at", "dataset", "model", "columns", "tables", "keys"} |-> r[f]]

(* The catalog is that of the last index in the log: the elements under a   *)
(* model of the last under it, the join paths of the last under any.        *)
Indexed ==
    /\ \E S : log \in Seq(S)
    /\ \A i \in 1 .. Len(log) : OnceEach(log[i].keys)
    /\ DOMAIN live = Datasets /\ \A d \in Datasets : Listed(live[d].keys)
    /\ IsIndex(indexer) /\ Listed(indexer.keys)
    /\ indexer.at # "idle" => indexer.dataset \in Datasets /\ indexer.model \in Models
    /\ rows = [d \in Datasets |-> [m \in Models |-> RowsAt(log, Newest(log, Len(log), d, {m}))]]
    /\ keys = [d \in Datasets |-> KeysAt(log, Newest(log, Len(log), d, Models))]

(* A set of naturals that is bounded has a greatest element. *)
LEMMA GreatestExists ==
  ASSUME NEW n \in Nat, NEW S, S \subseteq 1 .. n, S # {}
  PROVE  \E x \in S : \A y \in S : y <= x
<1> DEFINE T == {n - x : x \in S}
           lt == OpToRel(<, Nat)
<1>1. T \subseteq Nat /\ T # {}
  <2>1. \A x \in S : n - x \in Nat
    OBVIOUS
  <2> QED
    BY <2>1
<1>2. \E t \in T : \A u \in T : ~(<<u, t>> \in lt)
  <2>1. IsWellFoundedOn(lt, Nat)
    BY NatLessThanWellFounded
  <2> HIDE DEF T, lt
  <2> QED
    BY <1>1, <2>1, WFMin
<1>3. PICK x \in S : \A y \in S : ~(n - y < n - x)
  BY <1>1, <1>2 DEF OpToRel
<1> QED
  BY <1>3

LEMMA LastIs ==
  ASSUME NEW s, NEW n \in Nat, NEW d, NEW models
  PROVE  /\ Newest(s, n, d, models) \in 0 .. n
         /\ Done(s, n, d, models) = {} => Newest(s, n, d, models) = 0
         /\ Done(s, n, d, models) # {} =>
              /\ Newest(s, n, d, models) \in Done(s, n, d, models)
              /\ \A j \in Done(s, n, d, models) : j <= Newest(s, n, d, models)
<1>1. PICK S : S = Done(s, n, d, models)
  OBVIOUS
<1>2. S \subseteq 1 .. n
  BY <1>1 DEF Done
<1>5. Newest(s, n, d, models) = Top(S)
  BY <1>1 DEF Newest
<1>3. CASE S = {}
  <2>1. Top(S) = 0
    BY <1>3 DEF Top
  <2> QED
    BY <1>1, <1>3, <1>5, <2>1
<1>4. CASE S # {}
  <2>1. \E x \in S : \A y \in S : y <= x
    BY <1>2, <1>4, GreatestExists
  <2>2. Top(S) \in S /\ \A y \in S : y <= Top(S)
    BY <1>4, <2>1 DEF Top
  <2> QED
    BY <1>1, <1>2, <1>4, <1>5, <2>2
<1> QED
  BY <1>3, <1>4

(* The last index is one of those it is the last of. *)
LEMMA LastOf ==
  ASSUME NEW s, NEW n \in Nat, NEW d, NEW models, Newest(s, n, d, models) # 0
  PROVE  /\ Newest(s, n, d, models) \in 1 .. n
         /\ s[Newest(s, n, d, models)].dataset = d /\ s[Newest(s, n, d, models)].model \in models
<1>1. Newest(s, n, d, models) \in Done(s, n, d, models)
  BY LastIs
<1> QED
  BY <1>1 DEF Done

(* More of the log, or more models, find no older index. *)
LEMMA LastGrows ==
  ASSUME NEW s, NEW m \in Nat, NEW n \in Nat, m <= n, NEW d, NEW few, NEW many, few \subseteq many
  PROVE  Newest(s, m, d, few) <= Newest(s, n, d, many)
<1>1. Done(s, m, d, few) \subseteq Done(s, n, d, many)
  BY DEF Done
<1>2. CASE Done(s, m, d, few) = {}
  BY <1>2, LastIs
<1>3. CASE Done(s, m, d, few) # {}
  <2>1. Newest(s, m, d, few) \in Done(s, n, d, many)
    BY <1>1, <1>3, LastIs
  <2> QED
    BY <2>1, LastIs
<1> QED
  BY <1>2, <1>3

(* An index that is committed is the last of its own dataset and models. *)
LEMMA LastAppended ==
  ASSUME NEW s, NEW k \in Nat \ {0}, NEW d, NEW models, s[k].dataset = d, s[k].model \in models
  PROVE  Newest(s, k, d, models) = k
<1>1. k \in Done(s, k, d, models)
  BY DEF Done
<1>2. Newest(s, k, d, models) \in 0 .. k /\ k <= Newest(s, k, d, models)
  BY <1>1, LastIs
<1> QED
  BY <1>2

(* _distinct_edges keeps one of each. *)
LEMMA DistinctOnce ==
  ASSUME NEW foreignKeys, Listed(foreignKeys)
  PROVE  OnceEach(DistinctEdges(foreignKeys))
<1> SUFFICES ASSUME NEW i \in DOMAIN foreignKeys, NEW j \in DOMAIN foreignKeys,
                    \A h \in 1 .. i - 1 : foreignKeys[h].edge # foreignKeys[i].edge,
                    \A h \in 1 .. j - 1 : foreignKeys[h].edge # foreignKeys[j].edge,
                    foreignKeys[i].edge = foreignKeys[j].edge
             PROVE  foreignKeys[i] = foreignKeys[j]
  BY DEF OnceEach, DistinctEdges
<1>1. i \in Nat \ {0} /\ j \in Nat \ {0}
  BY DEF Listed
<1>2. ~(i < j) /\ ~(j < i)
  BY <1>1
<1> QED
  BY <1>1, <1>2

LEMMA LastIndexIsNewest ==
  ASSUME NEW n, NEW d, NEW models
  PROVE  LastIndex(n, d, models) = Newest(log, n, d, models)
BY DEF LastIndex, Newest, Top, Done

-------------------------------------------------------------------------------
(* SetToSeq lists a finite set. *)
LEMMA SetToSeqLists ==
  ASSUME NEW S, IsFiniteSet(S)
  PROVE  /\ SetToSeq(S) \in Seq(S) /\ Len(SetToSeq(S)) \in Nat
         /\ Len(SetToSeq(S)) = Cardinality(S)
         /\ \A x \in S : \E i \in 1 .. Len(SetToSeq(S)) : SetToSeq(S)[i] = x
         /\ \A i \in 1 .. Len(SetToSeq(S)) : SetToSeq(S)[i] \in S
<1>1. PICK n : n = Cardinality(S) /\ n \in Nat /\ ExistsBijection(1 .. n, S)
  BY FS_CardinalityType
<1>2. \E f \in [1 .. n -> S] : IsInjective(f)
  BY <1>1 DEF ExistsBijection, Bijection, Injection
<1>3. PICK f : f = SetToSeq(S)
  OBVIOUS
<1>4. f \in [1 .. n -> S] /\ IsInjective(f)
  BY <1>1, <1>2, <1>3 DEF SetToSeq
<1>5. f \in Injection(1 .. n, S)
  BY <1>4 DEF Injection
<1>6. IsFiniteSet(1 .. n) /\ Cardinality(1 .. n) = n
  BY <1>1, FS_Interval
<1>7. f \in Surjection(1 .. n, S)
  BY <1>1, <1>5, <1>6, FS_Injection
<1>8. f \in Seq(S) /\ Len(f) = n
  BY <1>1, <1>4
<1> QED
  BY <1>1, <1>3, <1>4, <1>7, <1>8 DEF Surjection

LEMMA NothingIndexed ==
  IsIndex(NoIndex) /\ Listed(NoIndex.keys) /\ NoIndex.at = "idle"
<1>1. NoIndex.keys = <<>> /\ NoIndex.at = "idle" /\ IsIndex(NoIndex)
  BY DEF NoIndex, IsIndex
<1>2. Listed(<<>>)
  BY DEF Listed
<1> QED
  BY <1>1, <1>2

LEMMA InitIndexed == Init => Indexed
<1> SUFFICES ASSUME Init PROVE Indexed
  OBVIOUS
<1>i. PICK indexed : indexed = Load.indexed
  OBVIOUS
<1>1. InitCatalog(indexed) /\ indexed \subseteq Models
  <2>1. InitCatalog(Load.indexed) /\ load \in DOMAIN Loads
    BY DEF Init
  <2>2. indexed \subseteq Models
    BY <1>i, <2>1 DEF Load
  <2> QED
    BY <1>i, <2>1, <2>2
<1> DEFINE Entry(d, m) == [dataset |-> d, model |-> m, rows |-> ShapeRows(InitialShape[d]),
                           keys |-> DistinctEdges(InitialShape[d].keys)]
           S == {Entry(d, m) : d \in Datasets, m \in indexed}
<1>2. IsFiniteSet(S)
  <2> DEFINE f == [p \in Datasets \X indexed |-> Entry(p[1], p[2])]
  <2>a. f \in [Datasets \X indexed -> S]
    OBVIOUS
  <2>b. ASSUME NEW d \in Datasets, NEW m \in indexed
        PROVE  \E p \in Datasets \X indexed : f[p] = Entry(d, m)
    <3>1. <<d, m>> \in Datasets \X indexed /\ f[<<d, m>>] = Entry(d, m)
      OBVIOUS
    <3> QED
      BY <3>1
  <2>c. ASSUME NEW x \in S
        PROVE  \E p \in Datasets \X indexed : f[p] = x
    <3>1. PICK d \in Datasets, m \in indexed : x = Entry(d, m)
      OBVIOUS
    <3>2. \E p \in Datasets \X indexed : f[p] = Entry(d, m)
      BY <2>b
    <3> HIDE DEF f
    <3> QED
      BY <3>1, <3>2
  <2>1. f \in Surjection(Datasets \X indexed, S)
    <3> HIDE DEF f, S
    <3> QED
      BY <2>a, <2>c DEF Surjection
  <2>2. IsFiniteSet(Datasets \X indexed)
    BY <1>1, ShapeAssumption, FS_Subset, FS_Product
  <2> HIDE DEF f, S
  <2> QED
    BY <2>1, <2>2, FS_Surjection
<1>3. log = SetToSeq(S)
  BY <1>1 DEF InitCatalog
<1>4. /\ log \in Seq(S) /\ Len(log) \in Nat
      /\ \A x \in S : \E i \in 1 .. Len(log) : log[i] = x
      /\ \A i \in 1 .. Len(log) : log[i] \in S
  <2> HIDE DEF S
  <2> QED
    BY <1>2, <1>3, SetToSeqLists
<1>len. Len(log) \in Nat
  BY <1>4
<1>5. \A d \in Datasets : Listed(InitialShape[d].keys)
  BY ShapeAssumption DEF Listed
<1>6. \A i \in 1 .. Len(log) : OnceEach(log[i].keys)
  BY <1>4, <1>5, DistinctOnce
<1>7. rows = [d \in Datasets |-> [m \in Models |->
                RowsAt(log, Newest(log, Len(log), d, {m}))]]
  <2>1. ASSUME NEW d \in Datasets, NEW m \in Models
        PROVE  RowsAt(log, Newest(log, Len(log), d, {m})) =
                 IF m \in indexed THEN ShapeRows(InitialShape[d]) ELSE {}
    <3>n. PICK n : n = Newest(log, Len(log), d, {m})
      OBVIOUS
    <3>1. CASE m \in indexed
      <4>1. PICK i \in 1 .. Len(log) : log[i] = Entry(d, m)
        <5>1. Entry(d, m) \in S
          BY <3>1
        <5> HIDE DEF S, Entry
        <5> QED
          BY <1>4, <5>1
      <4>2. i \in Done(log, Len(log), d, {m})
        BY <4>1 DEF Done
      <4>3. n # 0 /\ n \in Done(log, Len(log), d, {m})
        <5>1. Done(log, Len(log), d, {m}) # {}
          BY <4>2
        <5>2. n \in Done(log, Len(log), d, {m})
          BY <1>len, <3>n, <5>1, LastIs
        <5> QED
          BY <5>2 DEF Done
      <4>4. log[n] \in S /\ log[n].dataset = d
        BY <1>4, <4>3 DEF Done
      <4>5. log[n].rows = ShapeRows(InitialShape[d])
        BY <4>4
      <4> QED
        BY <3>1, <3>n, <4>3, <4>5 DEF RowsAt
    <3>2. CASE m \notin indexed
      <4>1. Done(log, Len(log), d, {m}) = {}
        BY <1>4, <3>2 DEF Done
      <4>2. n = 0
        BY <1>len, <3>n, <4>1, LastIs
      <4> QED
        BY <3>2, <3>n, <4>2 DEF RowsAt
    <3> QED
      BY <3>1, <3>2
  <2> QED
    BY <1>1, <2>1 DEF InitCatalog
<1>8. keys = [d \in Datasets |-> KeysAt(log, Newest(log, Len(log), d, Models))]
  <2>1. ASSUME NEW d \in Datasets
        PROVE  KeysAt(log, Newest(log, Len(log), d, Models)) =
                 IF indexed = {} THEN {} ELSE DistinctEdges(InitialShape[d].keys)
    <3>n. PICK n : n = Newest(log, Len(log), d, Models)
      OBVIOUS
    <3>1. CASE indexed # {}
      <4>0. PICK m \in indexed : TRUE
        BY <3>1
      <4>1. PICK i \in 1 .. Len(log) : log[i] = Entry(d, m)
        <5>1. Entry(d, m) \in S
          BY <4>0
        <5> HIDE DEF S, Entry
        <5> QED
          BY <1>4, <5>1
      <4>2. i \in Done(log, Len(log), d, Models)
        BY <1>1, <4>1 DEF Done
      <4>3. n # 0 /\ n \in Done(log, Len(log), d, Models)
        <5>1. Done(log, Len(log), d, Models) # {}
          BY <4>2
        <5>2. n \in Done(log, Len(log), d, Models)
          BY <1>len, <3>n, <5>1, LastIs
        <5> QED
          BY <5>2 DEF Done
      <4>4. log[n] \in S /\ log[n].dataset = d
        BY <1>4, <4>3 DEF Done
      <4>5. log[n].keys = DistinctEdges(InitialShape[d].keys)
        BY <4>4
      <4> QED
        BY <3>1, <3>n, <4>3, <4>5 DEF KeysAt
    <3>2. CASE indexed = {}
      <4>1. Done(log, Len(log), d, Models) = {}
        BY <1>4, <3>2 DEF Done
      <4>2. n = 0
        BY <1>len, <3>n, <4>1, LastIs
      <4> QED
        BY <3>2, <3>n, <4>2 DEF KeysAt
    <3> QED
      BY <3>1, <3>2
  <2> QED
    BY <1>1, <2>1 DEF InitCatalog
<1>9. IsIndex(indexer) /\ Listed(indexer.keys) /\ indexer.at = "idle"
  BY <1>1, NothingIndexed DEF InitCatalog
<1>10. DOMAIN live = Datasets /\ \A d \in Datasets : Listed(live[d].keys)
  BY <1>1, <1>5, ShapeAssumption DEF InitCatalog
<1> QED
  BY <1>4, <1>6, <1>7, <1>8, <1>9, <1>10 DEF Indexed

(* Nothing but a commit touches what the catalog holds. *)
LEMMA IndexedStill ==
  ASSUME Indexed, UNCHANGED <<rows, keys, log>>,
         DOMAIN live' = Datasets, \A d \in Datasets : Listed(live'[d].keys),
         IsIndex(indexer'), Listed(indexer'.keys),
         indexer'.at # "idle" => indexer'.dataset \in Datasets /\ indexer'.model \in Models
  PROVE  Indexed'
BY DEF Indexed

LEMMA IndexedCommit ==
  ASSUME Indexed, CommitIndex
  PROVE  Indexed'
<1>w. PICK written, edges : /\ written = BuildRows(indexer.tables, indexer.columns)
                            /\ edges = DistinctEdges(indexer.keys)
  OBVIOUS
<1>d. PICK dataset, model : dataset = indexer.dataset /\ model = indexer.model
  OBVIOUS
<1>0. dataset \in Datasets /\ model \in Models
  BY <1>d DEF Indexed, CommitIndex
<1>e. PICK e : e = [dataset |-> dataset, model |-> model, rows |-> written, keys |-> edges]
  OBVIOUS
<1>1. /\ rows' = [rows EXCEPT ![dataset][model] = written]
      /\ keys' = [keys EXCEPT ![dataset] = edges]
      /\ log' = Append(log, e) /\ indexer' = NoIndex /\ live' = live
  BY <1>w, <1>d, <1>e DEF CommitIndex
<1>2. OnceEach(edges)
  BY <1>w, DistinctOnce DEF Indexed
<1>n. PICK n : n = Len(log)
  OBVIOUS
<1>3. /\ \E S : log' \in Seq(S)
      /\ n \in Nat /\ Len(log') = n + 1 /\ log'[n + 1] = e
      /\ \A i \in 1 .. n : log'[i] = log[i]
  <2>1. PICK S : log \in Seq(S)
    BY DEF Indexed
  <2>2. PICK T : T = S \cup {e}
    OBVIOUS
  <2>3. log \in Seq(T) /\ e \in T
    BY <2>1, <2>2
  <2> QED
    BY <1>1, <1>n, <2>3, AppendProperties
<1>4. \A i \in 1 .. Len(log') : OnceEach(log'[i].keys)
  <2>1. e.keys = edges
    BY <1>e
  <2> QED
    BY <1>2, <1>3, <1>n, <2>1 DEF Indexed
<1>5. e.dataset = dataset /\ e.model = model /\ e.rows = written /\ e.keys = edges
  BY <1>e
<1>6. ASSUME NEW d \in Datasets, NEW models
      PROVE  /\ Newest(log', n + 1, d, models) =
                  IF dataset = d /\ model \in models THEN n + 1 ELSE Newest(log, n, d, models)
             /\ Newest(log, n, d, models) \in 0 .. n
  <2>1. PICK s, t : s = log' /\ t = log
    OBVIOUS
  <2>2. n \in Nat /\ s[n + 1] = e /\ \A i \in 1 .. n : s[i] = t[i]
    BY <1>3, <2>1
  <2>3. CASE dataset = d /\ model \in models
    <3>1. Newest(s, n + 1, d, models) = n + 1
      BY <1>5, <2>2, <2>3, LastAppended
    <3> QED
      BY <2>1, <2>2, <2>3, <3>1, LastIs
  <2>4. CASE ~(dataset = d /\ model \in models)
    <3>1. s[n + 1].dataset # d \/ s[n + 1].model \notin models
      BY <1>5, <2>2, <2>4
    <3>2. Newest(s, n + 1, d, models) = Newest(t, n, d, models)
      <4>1. Done(s, n + 1, d, models) = Done(t, n, d, models)
        BY <2>2, <3>1 DEF Done
      <4> QED
        BY <4>1 DEF Newest
    <3> QED
      BY <2>1, <2>2, <2>4, <3>2, LastIs
  <2> QED
    BY <2>3, <2>4
<1>7. ASSUME NEW i \in 0 .. n
      PROVE  RowsAt(log', i) = RowsAt(log, i) /\ KeysAt(log', i) = KeysAt(log, i)
  BY <1>3 DEF RowsAt, KeysAt
<1>8. n + 1 # 0 /\ RowsAt(log', n + 1) = written /\ KeysAt(log', n + 1) = edges
  BY <1>3, <1>5 DEF RowsAt, KeysAt
<1>9. ASSUME NEW d \in Datasets, NEW m \in Models
      PROVE  RowsAt(log', Newest(log', n + 1, d, {m})) =
               IF dataset = d /\ model = m THEN written ELSE RowsAt(log, Newest(log, n, d, {m}))
  BY <1>6, <1>7, <1>8
<1>10. ASSUME NEW d \in Datasets
       PROVE  KeysAt(log', Newest(log', n + 1, d, Models)) =
                IF dataset = d THEN edges ELSE KeysAt(log, Newest(log, n, d, Models))
  BY <1>0, <1>6, <1>7, <1>8
<1>11. rows' = [d \in Datasets |-> [m \in Models |->
                  RowsAt(log', Newest(log', n + 1, d, {m}))]]
  <2>1. rows = [d \in Datasets |-> [m \in Models |-> RowsAt(log, Newest(log, n, d, {m}))]]
    BY <1>n DEF Indexed
  <2> QED
    BY <1>0, <1>1, <1>9, <2>1
<1>12. keys' = [d \in Datasets |-> KeysAt(log', Newest(log', n + 1, d, Models))]
  <2>1. keys = [d \in Datasets |-> KeysAt(log, Newest(log, n, d, Models))]
    BY <1>n DEF Indexed
  <2> QED
    BY <1>0, <1>1, <1>10, <2>1
<1>13. /\ DOMAIN live' = Datasets /\ \A d \in Datasets : Listed(live'[d].keys)
       /\ IsIndex(indexer') /\ Listed(indexer'.keys) /\ indexer'.at = "idle"
  BY <1>1, NothingIndexed DEF Indexed
<1> QED
  BY <1>3, <1>4, <1>11, <1>12, <1>13 DEF Indexed

LEMMA IndexedSchema ==
  ASSUME Indexed, Schema
  PROVE  Indexed'
<1>0. /\ DOMAIN live = Datasets /\ \A d \in Datasets : Listed(live[d].keys)
      /\ IsIndex(indexer) /\ Listed(indexer.keys)
      /\ indexer.at # "idle" => indexer.dataset \in Datasets /\ indexer.model \in Models
  BY DEF Indexed
<1>1. ASSUME NEW d \in Datasets, NEW s \in Shapes, Migrate(d, s) PROVE Indexed'
  <2>1. Listed(s.keys)
    BY ShapeAssumption DEF Listed
  <2>2. /\ UNCHANGED <<rows, keys, log, indexer>>
        /\ DOMAIN live' = Datasets /\ \A x \in Datasets : Listed(live'[x].keys)
    BY <1>0, <1>1, <2>1 DEF Migrate
  <2> QED
    BY <1>0, <2>2, IndexedStill
<1>2. ASSUME NEW d \in Datasets, NEW m \in Models, ReadColumns(d, m) PROVE Indexed'
  <2>1. PICK columns : columns = live[d].tables
    OBVIOUS
  <2>2. /\ UNCHANGED <<rows, keys, log, live>>
        /\ indexer' = [NoIndex EXCEPT !.at = "tables", !.dataset = d, !.model = m,
                                      !.columns = columns]
    BY <1>2, <2>1 DEF ReadColumns
  <2>3. /\ IsIndex(indexer') /\ indexer'.keys = NoIndex.keys /\ indexer'.dataset = d
        /\ indexer'.model = m
    BY <2>2 DEF NoIndex, IsIndex
  <2> QED
    BY <1>0, <2>2, <2>3, NothingIndexed, IndexedStill
<1>3. ASSUME ReadTables PROVE Indexed'
  <2>1. PICK tables : tables = DOMAIN live[indexer.dataset].tables
    OBVIOUS
  <2>2. /\ UNCHANGED <<rows, keys, log, live>> /\ indexer.at = "tables"
        /\ indexer' = [indexer EXCEPT !.at = "keys", !.tables = tables]
    BY <1>3, <2>1 DEF ReadTables
  <2>3. /\ IsIndex(indexer') /\ indexer'.keys = indexer.keys
        /\ indexer'.dataset = indexer.dataset /\ indexer'.model = indexer.model
    BY <1>0, <2>2 DEF IsIndex
  <2> QED
    BY <1>0, <2>2, <2>3, IndexedStill
<1>4. ASSUME ReadKeys PROVE Indexed'
  <2>1. PICK found : found = live[indexer.dataset].keys
    OBVIOUS
  <2>2. /\ UNCHANGED <<rows, keys, log, live>> /\ indexer.at = "keys"
        /\ indexer' = [indexer EXCEPT !.at = "commit", !.keys = found]
    BY <1>4, <2>1 DEF ReadKeys
  <2>3. /\ IsIndex(indexer') /\ indexer'.keys = found
        /\ indexer'.dataset = indexer.dataset /\ indexer'.model = indexer.model
    BY <1>0, <2>2 DEF IsIndex
  <2>4. Listed(found)
    BY <1>0, <2>1, <2>2
  <2> QED
    BY <1>0, <2>2, <2>3, <2>4, IndexedStill
<1>5. ASSUME IndexNothing PROVE Indexed'
  BY <1>0, <1>5, NothingIndexed, IndexedStill DEF IndexNothing
<1> QED
  BY <1>1, <1>2, <1>3, <1>4, <1>5, IndexedCommit DEF Schema

-------------------------------------------------------------------------------
IsContext(c) == c = [f \in {"known", "elements", "edges", "since"} |-> c[f]]

Best(ranking, index) ==
    SubSeq(Hits(ranking, index), 1, Least(TopK, Len(Hits(ranking, index))))
Both(edges, elements) == {k \in edges : {k.edge[1], k.edge[3]} \subseteq TablesOf(elements)}

(* What a search found, by the log as it was when it began ... *)
WholeElements(s, c, ranking, d) ==
    /\ c.since \in 0 .. Len(s)
    /\ c.elements = Best(ranking, RowsAt(s, Newest(s, c.since, d, {Model})))

(* ... and its join paths, by one index since. *)
WholeEdges(s, c, d) ==
    /\ OnceEach(c.edges)
    /\ \/ c.edges = {}
       \/ \E j \in 1 .. Len(s) : /\ Newest(s, c.since, d, {Model}) <= j /\ s[j].dataset = d
                                 /\ c.edges = Both(s[j].keys, c.elements)

(* Where nothing is known yet. *)
Early == {"idle", "gold", "scope", "elements", "retrieve", "edges", "profile"}

Searched ==
    /\ IsContext(q.context) /\ q.context.known \in BOOLEAN
    /\ pc \in Early => q.context.known = FALSE
    /\ pc = "elements" => ~NeedsRetrieval
    /\ NeedsRetrieval /\ (pc = "edges" \/ q.context.known = TRUE) =>
         WholeElements(log, q.context, q.ranking, scopes[q.db].dataset)
    /\ NeedsRetrieval /\ q.context.known = TRUE => WholeEdges(log, q.context, scopes[q.db].dataset)

LEMMA UnaskedContext ==
  IsContext(Unasked.context) /\ Unasked.context.known = FALSE
BY DEF Unasked, NoContext, IsContext

LEMMA InitSearched == Init => Searched
BY UnaskedContext DEF Init, Searched

(* What was found stays what it was when the log grows. *)
LEMMA WholeStays ==
  ASSUME NEW s, NEW t, Len(s) \in Nat, Len(t) \in Nat, Len(s) <= Len(t),
         \A i \in 1 .. Len(s) : s[i] = t[i], NEW c, NEW ranking, NEW d,
         WholeElements(s, c, ranking, d)
  PROVE  WholeElements(t, c, ranking, d) /\ (WholeEdges(s, c, d) => WholeEdges(t, c, d))
<1>n. PICK n : n = c.since
  OBVIOUS
<1>1. n \in Nat /\ n <= Len(s)
  BY <1>n DEF WholeElements
<1>2. Newest(s, n, d, {Model}) = Newest(t, n, d, {Model})
  <2>1. Done(s, n, d, {Model}) = Done(t, n, d, {Model})
    BY <1>1 DEF Done
  <2> QED
    BY <2>1 DEF Newest
<1>3. Newest(s, n, d, {Model}) \in 0 .. n
  BY <1>1, LastIs
<1>4. RowsAt(s, Newest(s, n, d, {Model})) = RowsAt(t, Newest(t, n, d, {Model}))
  BY <1>1, <1>2, <1>3 DEF RowsAt
<1>5. WholeElements(t, c, ranking, d)
  BY <1>n, <1>1, <1>4 DEF WholeElements
<1>6. ASSUME WholeEdges(s, c, d), c.edges # {} PROVE WholeEdges(t, c, d)
  <2>1. PICK j \in 1 .. Len(s) : /\ Newest(s, n, d, {Model}) <= j /\ s[j].dataset = d
                                 /\ c.edges = Both(s[j].keys, c.elements)
    BY <1>n, <1>6 DEF WholeEdges
  <2>2. s[j] = t[j] /\ j \in 1 .. Len(t)
    BY <2>1
  <2> QED
    BY <1>n, <1>2, <1>6, <2>1, <2>2 DEF WholeEdges
<1>7. ASSUME WholeEdges(s, c, d), c.edges = {} PROVE WholeEdges(t, c, d)
  BY <1>7 DEF WholeEdges
<1> QED
  BY <1>5, <1>6, <1>7

(* The schemas move and the catalog is indexed beside a question. *)
LEMMA SearchedSchema ==
  ASSUME Indexed, Searched, Schema
  PROVE  Searched'
<1>1. UNCHANGED <<surface, scopes, pc, q>>
  BY DEF Schema, Quiet, asker
<1>2. /\ Len(log) \in Nat /\ Len(log') \in Nat /\ Len(log) <= Len(log')
      /\ \A i \in 1 .. Len(log) : log[i] = log'[i]
  <2>1. PICK S : log \in Seq(S)
    BY DEF Indexed
  <2>2. CASE UNCHANGED log
    BY <2>1, <2>2
  <2>3. CASE CommitIndex
    <3>1. PICK e : log' = Append(log, e)
      BY <2>3 DEF CommitIndex
    <3>2. PICK T : T = S \cup {e}
      OBVIOUS
    <3>3. log \in Seq(T) /\ e \in T
      BY <2>1, <3>2
    <3> QED
      BY <3>1, <3>3, AppendProperties
  <2> QED
    BY <2>2, <2>3 DEF Schema, Migrate, ReadColumns, ReadTables, ReadKeys, IndexNothing
<1>3. PICK s, t : s = log /\ t = log'
  OBVIOUS
<1>4. PICK c, ranking, d : c = q.context /\ ranking = q.ranking /\ d = scopes[q.db].dataset
  OBVIOUS
<1>5. WholeElements(s, c, ranking, d) =>
        WholeElements(t, c, ranking, d) /\ (WholeEdges(s, c, d) => WholeEdges(t, c, d))
  BY <1>2, <1>3, WholeStays
<1> QED
  BY <1>1, <1>3, <1>4, <1>5 DEF Searched, NeedsRetrieval

(* Steps before anything is known. *)
LEMMA SearchedEarly ==
  ASSUME UNCHANGED surface, IsContext(q'.context), q'.context.known = FALSE,
         pc' \in {"edges", "elements"} => ~NeedsRetrieval
  PROVE  Searched'
BY DEF Searched, NeedsRetrieval

(* Steps that look at what is known. *)
LEMMA SearchedLate ==
  ASSUME Searched, UNCHANGED <<surface, scopes, log>>,
         q'.db = q.db, q'.context = q.context, q'.ranking = q.ranking,
         pc' \notin Early
  PROVE  Searched'
BY DEF Searched, NeedsRetrieval, Early

LEMMA SearchedAsk ==
  ASSUME Ask
  PROVE  Searched'
<1>1. q'.context = Unasked.context
  BY UnaskedQuestion DEF Ask, IsQuestion, Fields
<1>2. pc' \in {"retrieve", "profile", "gold"} /\ UNCHANGED surface
  BY DEF Ask, asker
<1> QED
  BY <1>1, <1>2, UnaskedContext, SearchedEarly

LEMMA SearchedScopes ==
  ASSUME QInv, Searched, RunGold \/ UseScope \/ BuildScope \/ ReadFullElements \/ ReadFullEdges
  PROVE  Searched'
<1>0. IsContext(q.context) /\ (pc \in Early => q.context.known = FALSE)
  BY DEF Searched
<1>1. CASE RunGold
  <2>1. q'.context = q.context
    BY <1>1 DEF RunGold, QInv, IsQuestion, Fields
  <2> QED
    BY <1>0, <1>1, <2>1, SearchedEarly DEF RunGold, Step, Still, asker, Early
<1>2. CASE UseScope
  BY <1>0, <1>2, SearchedEarly DEF UseScope, Step, Still, asker, Early
<1>3. CASE BuildScope
  <2>1. UNCHANGED surface /\ pc = "scope"
    BY <1>3 DEF BuildScope, Still, asker
  <2>2. CASE LoadCatalog(DatasetFor(q.db)) = <<>>
    <3>1. PICK a : a = Failed("scope_unavailable")
      OBVIOUS
    <3>2. Return(q, a)
      BY <1>3, <2>2, <3>1 DEF BuildScope
    <3>3. Changed(q, q', {"attempt"}) /\ pc' \in {"run", "done"}
      BY <3>2, ReturnStep DEF QInv
    <3>4. q'.context = q.context
      BY <3>3 DEF Changed, Fields
    <3> QED
      BY <1>0, <2>1, <3>3, <3>4, SearchedEarly DEF Early
  <2>3. CASE LoadCatalog(DatasetFor(q.db)) # <<>>
    <3>1. UNCHANGED q /\ pc' = IF NeedsRetrieval THEN "retrieve" ELSE "elements"
      BY <1>3, <2>3 DEF BuildScope
    <3> QED
      BY <1>0, <2>1, <3>1, SearchedEarly DEF Early
  <2> QED
    BY <2>2, <2>3
<1>4. CASE ReadFullElements
  <2>1. UNCHANGED <<surface, q>> /\ pc = "elements" /\ pc' = "edges"
    BY <1>4 DEF ReadFullElements, Step, Still, asker
  <2>2. ~NeedsRetrieval
    BY <2>1 DEF Searched
  <2> QED
    BY <1>0, <2>1, <2>2, SearchedEarly DEF Early
<1>5. CASE ReadFullEdges
  BY <1>0, <1>5, SearchedEarly DEF ReadFullEdges, Step, Still, asker, Early
<1> QED
  BY <1>1, <1>2, <1>3, <1>4, <1>5

LEMMA SearchedFull ==
  ASSUME QInv, UseFullSchema
  PROVE  Searched'
<1>1. PICK elements, edges :
        q' = [q EXCEPT !.context = [known |-> TRUE, elements |-> elements, edges |-> edges,
                                    since |-> 0]]
  BY DEF UseFullSchema
<1>2. PICK c : c = [known |-> TRUE, elements |-> elements, edges |-> edges, since |-> 0]
  OBVIOUS
<1>3. q'.context = c
  BY <1>1, <1>2 DEF QInv, IsQuestion, Fields
<1>4. IsContext(c) /\ c.known = TRUE
  BY <1>2 DEF IsContext
<1>5. UNCHANGED surface /\ ~NeedsRetrieval /\ pc' = "generate"
  BY DEF UseFullSchema, Step, Still, asker, NeedsRetrieval
<1> QED
  BY <1>3, <1>4, <1>5 DEF Searched, NeedsRetrieval, Early

LEMMA SearchedElements ==
  ASSUME QInv, Indexed, Searched, Search
  PROVE  Searched'
<1>1. UNCHANGED <<surface, scopes, log>> /\ pc = "retrieve" /\ pc' = "edges" /\ NeedsRetrieval
  BY DEF Search, Step, Still, asker, catalogVars
<1>2. PICK d, ranking, n : d = scopes[q.db].dataset /\ ranking = q.ranking /\ n = Len(log)
  OBVIOUS
<1>3. d \in Datasets
  BY <1>1, <1>2 DEF QInv, AtHome, Working
<1>4. PICK elements : elements = SearchElements(d, Model, ranking, TopK)
  OBVIOUS
<1>5. PICK c : c = [known |-> FALSE, elements |-> elements, edges |-> {}, since |-> n]
  OBVIOUS
<1>6. q' = [q EXCEPT !.context = c]
  BY <1>2, <1>4, <1>5 DEF Search
<1>7. q'.context = c /\ q'.ranking = q.ranking /\ q'.db = q.db
  BY <1>6 DEF QInv, IsQuestion, Fields
<1>8. IsContext(c) /\ c.known = FALSE /\ c.since = n /\ c.elements = elements
  BY <1>5 DEF IsContext
<1>9. rows[d][Model] = RowsAt(log, Newest(log, n, d, {Model}))
  BY <1>2, <1>3 DEF Indexed
<1>10. elements = Best(ranking, RowsAt(log, Newest(log, n, d, {Model})))
  BY <1>4, <1>9 DEF SearchElements, Best
<1>11. n \in 0 .. Len(log)
  BY <1>2 DEF Indexed
<1>12. WholeElements(log, c, ranking, d)
  BY <1>8, <1>10, <1>11 DEF WholeElements
<1> QED
  BY <1>1, <1>2, <1>7, <1>8, <1>12 DEF Searched, NeedsRetrieval

LEMMA SearchedJoins ==
  ASSUME QInv, Indexed, Searched, SearchJoins
  PROVE  Searched'
<1>1. UNCHANGED <<surface, scopes, log>> /\ pc = "edges" /\ pc' = "generate" /\ NeedsRetrieval
  BY DEF SearchJoins, Step, Still, asker, catalogVars
<1>2. PICK d, b, n, s : d = scopes[q.db].dataset /\ b = q.context /\ n = Len(log) /\ s = log
  OBVIOUS
<1>3. d \in Datasets /\ n \in Nat
  BY <1>1, <1>2 DEF QInv, AtHome, Working, Indexed
<1>4. PICK edges : edges = SearchEdges(d, b.elements)
  OBVIOUS
<1>5. PICK c : c = [b EXCEPT !.known = TRUE, !.edges = edges]
  OBVIOUS
<1>6. q' = [q EXCEPT !.context = c]
  BY <1>2, <1>4, <1>5 DEF SearchJoins, QInv, IsQuestion, Fields, Searched, IsContext
<1>7. q'.context = c /\ q'.ranking = q.ranking /\ q'.db = q.db
  BY <1>6 DEF QInv, IsQuestion, Fields
<1>8. /\ IsContext(c) /\ c.known = TRUE /\ c.since = b.since /\ c.elements = b.elements
      /\ c.edges = edges
  BY <1>2, <1>5 DEF Searched, IsContext
<1>9. WholeElements(log, b, q.ranking, d)
  BY <1>1, <1>2 DEF Searched
<1>10. WholeElements(log, c, q.ranking, d) /\ b.since \in Nat /\ b.since <= n
  BY <1>2, <1>3, <1>8, <1>9 DEF WholeElements
<1>11. PICK j : j = Newest(s, n, d, Models)
  OBVIOUS
<1>12. keys[d] = KeysAt(s, j) /\ edges = Both(keys[d], b.elements)
  BY <1>2, <1>3, <1>4, <1>11 DEF Indexed, SearchEdges, Both
<1>13. CASE j = 0
  <2>1. edges = {}
    BY <1>12, <1>13 DEF KeysAt, Both
  <2> QED
    BY <1>1, <1>2, <1>7, <1>8, <1>10, <2>1 DEF Searched, NeedsRetrieval, Early, WholeEdges, OnceEach
<1>14. CASE j # 0
  <2>1. j \in 1 .. n /\ s[j].dataset = d
    BY <1>3, <1>11, <1>14, LastOf
  <2>2. Newest(s, b.since, d, {Model}) <= j
    BY <1>3, <1>10, <1>11, LastGrows
  <2>3. keys[d] = s[j].keys
    BY <1>12, <1>14 DEF KeysAt
  <2>4. OnceEach(s[j].keys)
    BY <1>2, <2>1 DEF Indexed
  <2>5. OnceEach(edges)
    BY <1>12, <2>3, <2>4 DEF OnceEach, Both
  <2>6. WholeEdges(log, c, d)
    BY <1>2, <1>8, <1>12, <2>1, <2>2, <2>3, <2>5 DEF WholeEdges
  <2> QED
    BY <1>1, <1>2, <1>7, <1>8, <1>10, <2>6 DEF Searched, NeedsRetrieval, Early
<1> QED
  BY <1>13, <1>14

LEMMA SearchedLosesContext ==
  ASSUME QInv, Searched, LosesContext
  PROVE  Searched'
<1>1. UNCHANGED surface /\ pc \in Early
  BY DEF LosesContext, Still, asker, Early
<1>2. PICK class, a : Raise(q, class, a)
  BY DEF LosesContext
<1>3. Changed(q, q', {"attempt", "raised"}) /\ pc' \in {"run", "done"}
  BY <1>2, RaiseStep DEF QInv
<1>4. q'.context = q.context
  BY <1>3 DEF Changed, Fields
<1> QED
  BY <1>1, <1>3, <1>4, SearchedEarly DEF Searched

(* An exception past the search. *)
LEMMA SearchedRaise ==
  ASSUME Searched, UNCHANGED <<surface, scopes, log>>, NEW record, IsQuestion(record),
         record.db = q.db, record.context = q.context, record.ranking = q.ranking,
         NEW class, NEW attempt, Raise(record, class, attempt)
  PROVE  Searched'
<1>1. Changed(record, q', {"attempt", "raised"}) /\ pc' \in {"run", "done"}
  BY RaiseStep
<1>2. q'.db = q.db /\ q'.context = q.context /\ q'.ranking = q.ranking
  BY <1>1 DEF Changed, Fields
<1> QED
  BY <1>1, <1>2, SearchedLate DEF Early

LEMMA SearchedGenerate ==
  ASSUME QInv, Searched, NEW reply, Generate(reply)
  PROVE  Searched'
<1>1. UNCHANGED <<surface, scopes, log>>
  BY DEF Generate, Still, asker, catalogVars
<1>t. PICK text : text = StripFormatting(reply)
  OBVIOUS
<1>r. PICK read : read = [q EXCEPT !.reply = reply, !.taken = text]
  OBVIOUS
<1>2. /\ IsQuestion(read) /\ read.db = q.db /\ read.context = q.context
      /\ read.ranking = q.ranking
  BY <1>r DEF QInv, IsQuestion, Fields
<1>3. CASE \E class, attempt : Raise(read, class, attempt)
  BY <1>1, <1>2, <1>3, SearchedRaise
<1>4. CASE /\ \E sql, a : q' = [read EXCEPT !.sql = sql, !.attempt = a]
           /\ pc' \in {"validate", "done", "run"}
  <2>1. q'.db = q.db /\ q'.context = q.context /\ q'.ranking = q.ranking
    BY <1>2, <1>4 DEF IsQuestion, Fields
  <2> QED
    BY <1>1, <1>4, <2>1, SearchedLate DEF Early
<1>5. CASE text = <<>> \/ Head(text) = "cannot"
  <2>1. \E class, attempt : Raise(read, class, attempt)
    BY <1>t, <1>r, <1>5 DEF Generate
  <2> QED
    BY <1>3, <2>1
<1>6. CASE ~(text = <<>> \/ Head(text) = "cannot")
  <2>a. PICK a : a = IF NeedsValidation THEN read.attempt ELSE Candidate("none")
    OBVIOUS
  <2>1. PICK sql : q' = [read EXCEPT !.sql = sql, !.attempt = a]
    BY <1>6, <1>t, <1>r, <2>a DEF Generate
  <2>2. pc' \in {"validate", "done", "run"}
    BY <1>6, <1>t, <1>r DEF Generate
  <2> QED
    BY <1>4, <2>1, <2>2
<1> QED
  BY <1>5, <1>6

LEMMA SearchedValidate ==
  ASSUME QInv, Searched, Validate
  PROVE  Searched'
<1>1. UNCHANGED <<surface, scopes, log>>
  BY DEF Validate, Still, asker, catalogVars
<1>2. ASSUME NEW stage, NEW schema
      PROVE  LET r == [q EXCEPT !.stage = stage, !.explainedIn = schema]
             IN  /\ IsQuestion(r) /\ r.db = q.db /\ r.context = q.context
                 /\ r.ranking = q.ranking
  BY DEF QInv, IsQuestion, Fields
<1>3. ASSUME NEW record, IsQuestion(record), record.db = q.db, record.context = q.context,
             record.ranking = q.ranking, NEW error, Reject(record, error)
      PROVE  Searched'
  <2>1. PICK a : a = Candidate(error)
    OBVIOUS
  <2>2. Raise(record, "SQLValidationError", a)
    BY <1>3, <2>1 DEF Reject
  <2> QED
    BY <1>1, <1>3, <2>2, SearchedRaise
<1>s. PICK static : static = ValidateStatic(scopes[q.db].catalog, q.sql)
  OBVIOUS
<1>4. CASE static # "ok"
  <2>1. PICK record : record = [q EXCEPT !.stage = "static"]
    OBVIOUS
  <2>2. Reject(record, static)
    BY <1>4, <1>s, <2>1 DEF Validate
  <2>3. /\ IsQuestion(record) /\ record.db = q.db /\ record.context = q.context
        /\ record.ranking = q.ranking
    BY <2>1 DEF QInv, IsQuestion, Fields
  <2> QED
    BY <1>3, <2>2, <2>3
<1>5. CASE static = "ok"
  <2>p. PICK p : p = path'
    OBVIOUS
  <2>1. PICK record : record = [q EXCEPT !.stage = "explain", !.explainedIn = p]
    OBVIOUS
  <2>2. /\ IsQuestion(record) /\ record.db = q.db /\ record.context = q.context
        /\ record.ranking = q.ranking
    BY <2>1 DEF QInv, IsQuestion, Fields
  <2>3. PICK outcome \in Explained(live[path'].tables, q.sql) :
          IF outcome # "ok" THEN Reject(record, outcome)
          ELSE /\ q' = [record EXCEPT !.attempt = Candidate("none")]
               /\ pc' = IF q.goldFailed THEN "done" ELSE "run"
    BY <1>5, <1>s, <2>p, <2>1 DEF Validate
  <2>4. CASE outcome # "ok"
    BY <1>3, <2>2, <2>3, <2>4
  <2>5. CASE outcome = "ok"
    <3>a. PICK a : a = Candidate("none")
      OBVIOUS
    <3>1. q' = [record EXCEPT !.attempt = a] /\ pc' \in {"done", "run"}
      BY <2>3, <2>5, <3>a
    <3>2. q'.db = q.db /\ q'.context = q.context /\ q'.ranking = q.ranking
      BY <2>2, <3>1 DEF IsQuestion, Fields
    <3> QED
      BY <1>1, <3>1, <3>2, SearchedLate DEF Early
  <2> QED
    BY <2>4, <2>5
<1> QED
  BY <1>4, <1>5

LEMMA SearchedRaises ==
  ASSUME QInv, Searched, ActivateFails \/ ProfileFails \/ \E class \in Providers : ModelFails(class)
  PROVE  Searched'
<1>1. UNCHANGED <<surface, scopes, log>>
  BY DEF ActivateFails, ProfileFails, ModelFails, Still, asker, catalogVars
<1>2. \E class, a : Raise(q, class, a)
  BY DEF ActivateFails, ProfileFails, ModelFails
<1> QED
  BY <1>1, <1>2, SearchedRaise DEF QInv

LEMMA SearchedRuns ==
  ASSUME QInv, Searched, Execute \/ RunPredicted
  PROVE  Searched'
<1>1. UNCHANGED <<surface, scopes, log>>
  BY DEF Execute, RunPredicted, Still, asker, catalogVars
<1>2. CASE \E class : Raise([q EXCEPT !.ranIn = path], class, NoAttempt)
  <2>0. PICK p, a : p = path /\ a = NoAttempt
    OBVIOUS
  <2>1. PICK record : record = [q EXCEPT !.ranIn = p]
    OBVIOUS
  <2>2. PICK class : Raise(record, class, a)
    BY <1>2, <2>0, <2>1
  <2>3. /\ IsQuestion(record) /\ record.db = q.db /\ record.context = q.context
        /\ record.ranking = q.ranking
    BY <2>1 DEF QInv, IsQuestion, Fields
  <2> QED
    BY <1>1, <2>2, <2>3, SearchedRaise
<1>3. CASE /\ \/ \E schema, page : q' = [q EXCEPT !.ranIn = schema, !.page = page]
              \/ \E schema, r, v :
                   q' = [[q EXCEPT !.ranIn = schema] EXCEPT !.result = r, !.verdict = v]
              \/ \E schema :
                   q' = [[q EXCEPT !.ranIn = schema] EXCEPT !.attempt.error = "execution_failed"]
           /\ pc' = "done"
  <2>1. q'.db = q.db /\ q'.context = q.context /\ q'.ranking = q.ranking
    BY <1>3 DEF QInv, IsQuestion, Fields
  <2> QED
    BY <1>1, <1>3, <2>1, SearchedLate DEF Early
<1>4. CASE Execute
  BY <1>2, <1>3, <1>4 DEF Execute
<1>5. CASE RunPredicted
  <2>0. PICK schema : schema = RunnerSchema(q.db)
    OBVIOUS
  <2>1. \/ \E r, v : q' = [[q EXCEPT !.ranIn = schema] EXCEPT !.result = r, !.verdict = v]
        \/ q' = [[q EXCEPT !.ranIn = schema] EXCEPT !.attempt.error = "execution_failed"]
    BY <1>5, <2>0 DEF RunPredicted
  <2>2. pc' = "done"
    BY <1>5 DEF RunPredicted, Step
  <2> QED
    BY <1>3, <2>1, <2>2
<1> QED
  BY <1>4, <1>5

LEMMA SearchedProfile ==
  ASSUME QInv, Searched, NEW s, NEW call, ProfileTable(s, call)
  PROVE  Searched'
<1>1. UNCHANGED <<surface, scopes, log>> /\ pc' = "done"
  BY DEF ProfileTable, Step, Still, asker, catalogVars
<1>2. \/ UNCHANGED q
      \/ \E class : q' = [q EXCEPT !.raised = class]
      \/ \E profile : q' = [q EXCEPT !.profile = profile]
  BY DEF ProfileTable
<1>3. q'.db = q.db /\ q'.context = q.context /\ q'.ranking = q.ranking
  BY <1>2 DEF QInv, IsQuestion, Fields
<1> QED
  BY <1>1, <1>3, SearchedLate DEF Early

LEMMA IndexedAlone ==
  ASSUME Indexed, UNCHANGED catalogVars
  PROVE  Indexed'
BY IndexedStill DEF Indexed, catalogVars

(* The inductive invariant of a search. *)
SInv == QInv /\ Indexed /\ Searched

LEMMA NextSInv == SInv /\ [Next]_vars => SInv'
<1> SUFFICES ASSUME QInv, Indexed, Searched, [Next]_vars PROVE Indexed' /\ Searched'
  BY NextQInv DEF SInv
<1>1. CASE Schema
  BY <1>1, IndexedSchema, SearchedSchema
<1>2. CASE UNCHANGED vars
  <2>1. Searched'
    BY <1>2 DEF vars, catalogVars, Searched, NeedsRetrieval
  <2> QED
    BY <1>2, <2>1, IndexedAlone DEF vars
<1>3. CASE Ask \/ RunGold \/ Context
  <2>1. UNCHANGED catalogVars
    BY <1>3 DEF Ask, RunGold, Context, UseScope, BuildScope, ReadFullElements, ReadFullEdges,
       UseFullSchema, Search, SearchJoins, LosesContext, Still
  <2>2. Searched'
    BY <1>3, SearchedAsk, SearchedScopes, SearchedFull, SearchedElements, SearchedJoins,
       SearchedLosesContext DEF Context
  <2> QED
    BY <2>1, <2>2, IndexedAlone
<1>4. CASE Answer \/ Profile
  <2>1. UNCHANGED catalogVars
    BY <1>4 DEF Answer, Profile, ModelFails, Generate, Validate, ActivateFails, Execute,
       RunPredicted, ProfileFails, ProfileTable, Still
  <2>2. Searched'
    BY <1>4, SearchedGenerate, SearchedValidate, SearchedRaises, SearchedRuns, SearchedProfile
       DEF Answer, Profile
  <2> QED
    BY <2>1, <2>2, IndexedAlone
<1>5. CASE \E db \in DOMAIN Fold : StartServer(db)
  <2>1. UNCHANGED <<catalogVars, surface, pc, q>> /\ pc = "idle"
    BY <1>5 DEF StartServer, Still, asker
  <2>2. Searched'
    BY <2>1, SearchedEarly DEF Searched, Early
  <2> QED
    BY <2>1, <2>2, IndexedAlone
<1> QED
  BY <1>1, <1>2, <1>3, <1>4, <1>5 DEF Next

(* The catalog is that of the last index of each dataset and model, and a   *)
(* search has the elements of the one it began in.                          *)
THEOREM SpecSInv == Spec => []SInv
<1>1. Init => SInv
  BY InitQInv, InitIndexed, InitSearched DEF SInv
<1> QED
  BY <1>1, NextSInv, PTL DEF Spec

(* A search never sees a part of an index (SchemaIndexer.index,             *)
(* SchemaRetriever.search), for any number of datasets, models, migrations  *)
(* and index runs beside any number of questions.                           *)
THEOREM SearchesSeeWholeIndexes == Spec => []SearchSeesWholeIndexes
<1>1. SInv => SearchSeesWholeIndexes
  <2> SUFFICES ASSUME SInv, q.context.known, NeedsRetrieval PROVE SearchSeesWholeIndexes
    BY DEF SearchSeesWholeIndexes
  <2>1. q.context.known = TRUE
    BY DEF SInv, Searched
  <2>2. PICK c, ranking, d, s : /\ c = q.context /\ ranking = q.ranking
                                /\ d = scopes[q.db].dataset /\ s = log
    OBVIOUS
  <2>3. WholeElements(s, c, ranking, d) /\ WholeEdges(s, c, d)
    BY <2>1, <2>2 DEF SInv, Searched
  <2>4. PICK i, current : /\ i = LastIndex(c.since, d, {Model})
                          /\ current = IF i = 0 THEN {} ELSE s[i].rows
    OBVIOUS
  <2>5. i = Newest(s, c.since, d, {Model}) /\ current = RowsAt(s, i)
    BY <2>2, <2>4, LastIndexIsNewest DEF RowsAt
  <2>6. c.elements = SubSeq(Hits(ranking, current), 1, Least(TopK, Len(Hits(ranking, current))))
    BY <2>3, <2>5 DEF WholeElements, Best
  <2>7. \/ c.edges = {}
        \/ \E j \in i .. Len(s) :
             /\ s[j].dataset = d
             /\ c.edges = {k \in s[j].keys : {k.edge[1], k.edge[3]} \subseteq TablesOf(c.elements)}
    <3>1. Len(s) \in Nat /\ i \in Nat
      <4>1. c.since \in Nat /\ Len(s) \in Nat
        BY <2>2, <2>3 DEF WholeElements, SInv, Indexed
      <4>2. PICK n : n = c.since
        OBVIOUS
      <4>3. Newest(s, n, d, {Model}) \in 0 .. n
        BY <4>1, <4>2, LastIs
      <4> QED
        BY <2>5, <4>1, <4>2, <4>3
    <3>2. CASE c.edges # {}
      <4>1. PICK j \in 1 .. Len(s) : i <= j /\ s[j].dataset = d /\ c.edges = Both(s[j].keys, c.elements)
        BY <2>3, <2>5, <3>2 DEF WholeEdges
      <4>2. j \in i .. Len(s)
        BY <3>1, <4>1
      <4> QED
        BY <4>1, <4>2 DEF Both
    <3> QED
      BY <3>2
  <2>8. \A k, l \in c.edges : k.edge = l.edge => k = l
    BY <2>3 DEF WholeEdges, OnceEach
  <2>9. PICK hits : hits = Hits(ranking, current)
    OBVIOUS
  <2>10. q.context.elements = SubSeq(hits, 1, Least(TopK, Len(hits)))
    BY ONLY <2>2, <2>6, <2>9
  <2>11. /\ i = LastIndex(q.context.since, scopes[q.db].dataset, {Model})
         /\ current = IF i = 0 THEN {} ELSE log[i].rows
         /\ hits = Hits(q.ranking, current)
    BY ONLY <2>2, <2>4, <2>9
  <2> QED
    BY ONLY <2>2, <2>7, <2>8, <2>10, <2>11 DEF SearchSeesWholeIndexes
<1> QED
  BY <1>1, SpecSInv, PTL

-------------------------------------------------------------------------------
(* The FROM clauses of a statement are sequences. *)
IsStatement(s) == \E S : s.outer.from \in Seq(S) /\ s.inner.from \in Seq(S)

(* What is known where a query is checked: the names in it resolve in a     *)
(* schema that the catalog covers.                                          *)
Sound(catalog, schema, s) ==
    /\ IsStatement(s) /\ Covers(catalog, schema) /\ Resolves(schema, s)
    /\ NamesMeanOneThing(catalog, s)

OuterTable(s, t) == \E i \in DOMAIN s.outer.from : t = s.outer.from[i]
InnerTable(s, t) == s.role # "none" /\ \E i \in DOMAIN s.inner.from : t = s.inner.from[i]

(* TableRefs lists the tables of both scopes and no others. *)
LEMMA RefsAre ==
  ASSUME NEW s, IsStatement(s)
  PROVE  /\ DOMAIN TableRefs(s) \subseteq Nat
         /\ \A i \in DOMAIN TableRefs(s) :
              OuterTable(s, TableRefs(s)[i]) \/ InnerTable(s, TableRefs(s)[i])
         /\ \A t : OuterTable(s, t) \/ InnerTable(s, t) =>
              \E i \in DOMAIN TableRefs(s) : TableRefs(s)[i] = t
<1>1. PICK S : s.outer.from \in Seq(S) /\ s.inner.from \in Seq(S)
  BY DEF IsStatement
<1>2. PICK a, b : /\ a = s.outer.from
                  /\ b = IF s.role = "none" THEN <<>> ELSE s.inner.from
  OBVIOUS
<1>3. a \in Seq(S) /\ b \in Seq(S) /\ TableRefs(s) = a \o b
  BY <1>1, <1>2 DEF TableRefs
<1>4. /\ Len(a) \in Nat /\ Len(b) \in Nat /\ Len(a \o b) = Len(a) + Len(b) /\ a \o b \in Seq(S)
      /\ \A i \in 1 .. Len(a) + Len(b) :
           (a \o b)[i] = IF i <= Len(a) THEN a[i] ELSE b[i - Len(a)]
      /\ DOMAIN (a \o b) = 1 .. Len(a) + Len(b)
      /\ DOMAIN a = 1 .. Len(a) /\ DOMAIN b = 1 .. Len(b)
  BY <1>3, ConcatProperties
<1>5. \A t : OuterTable(s, t) <=> \E i \in DOMAIN a : t = a[i]
  BY <1>2 DEF OuterTable
<1>6. \A t : InnerTable(s, t) <=> \E i \in DOMAIN b : t = b[i]
  BY <1>2, <1>4 DEF InnerTable
<1>7. ASSUME NEW i \in DOMAIN (a \o b)
      PROVE  (\E j \in DOMAIN a : (a \o b)[i] = a[j]) \/ (\E j \in DOMAIN b : (a \o b)[i] = b[j])
  <2>1. CASE i <= Len(a)
    BY <1>4, <2>1
  <2>2. CASE ~(i <= Len(a))
    <3>1. i - Len(a) \in DOMAIN b /\ (a \o b)[i] = b[i - Len(a)]
      BY <1>4, <2>2
    <3> QED
      BY <3>1
  <2> QED
    BY <2>1, <2>2
<1>8. ASSUME NEW j \in DOMAIN a PROVE \E i \in DOMAIN (a \o b) : (a \o b)[i] = a[j]
  <2>1. j \in DOMAIN (a \o b) /\ (a \o b)[j] = a[j]
    BY <1>4
  <2> QED
    BY <2>1
<1>9. ASSUME NEW j \in DOMAIN b PROVE \E i \in DOMAIN (a \o b) : (a \o b)[i] = b[j]
  <2>1. Len(a) + j \in DOMAIN (a \o b) /\ (a \o b)[Len(a) + j] = b[j]
    BY <1>4
  <2> QED
    BY <2>1
<1>10. DOMAIN (a \o b) \subseteq Nat
  BY <1>4
<1>r. PICK refs : refs = a \o b
  OBVIOUS
<1>11. \A i \in DOMAIN refs : OuterTable(s, refs[i]) \/ InnerTable(s, refs[i])
  BY ONLY <1>5, <1>6, <1>7, <1>r
<1>12. \A t : OuterTable(s, t) \/ InnerTable(s, t) => \E i \in DOMAIN refs : refs[i] = t
  <2> TAKE t
  <2>1. CASE OuterTable(s, t)
    <3>1. PICK j \in DOMAIN a : t = a[j]
      BY <1>5, <2>1
    <3>2. PICK i \in DOMAIN refs : refs[i] = a[j]
      BY <1>8, <1>r
    <3> QED
      BY <3>1, <3>2
  <2>2. CASE InnerTable(s, t)
    <3>1. PICK j \in DOMAIN b : t = b[j]
      BY <1>6, <2>2
    <3>2. PICK i \in DOMAIN refs : refs[i] = b[j]
      BY <1>9, <1>r
    <3> QED
      BY <3>1, <3>2
  <2> QED
    BY <2>1, <2>2
<1> QED
  BY ONLY <1>3, <1>10, <1>11, <1>12, <1>r

LEMMA RefNames ==
  ASSUME NEW s, IsStatement(s), NEW t, OuterTable(s, t) \/ InnerTable(s, t), t.name # NoName
  PROVE  t.name \in ReferencedTables(s)
BY RefsAre DEF ReferencedTables

(* ... and what the FROM clauses call them are names not seen. *)
LEMMA CalledUnseen ==
  ASSUME NEW s, IsStatement(s), NEW t, OuterTable(s, t) \/ InnerTable(s, t)
  PROVE  Called(t) \in Unseen(s)
BY RefsAre DEF Unseen

(* A set of naturals that is not empty has a least element. *)
LEMMA LeastExists ==
  ASSUME NEW S, S \subseteq Nat, S # {}
  PROVE  \E x \in S : \A y \in S : x <= y
<1>1. PICK x \in S : \A y \in S : ~(<<y, x>> \in OpToRel(<, Nat))
  BY WFMin, NatLessThanWellFounded
<1>2. \A y \in S : ~(y < x)
  BY <1>1 DEF OpToRel
<1> QED
  BY <1>2

(* An alias that means one thing is resolved to the table it stands for. *)
LEMMA AliasResolves ==
  ASSUME NEW catalog, NEW s, IsStatement(s), NamesMeanOneThing(catalog, s),
         NEW t, OuterTable(s, t) \/ InnerTable(s, t),
         NEW qual, qual # NoName, qual = Called(t)
  PROVE  ResolveAlias(s, qual) = t.name
<1>0. qual = IF t.alias = NoName THEN t.name ELSE t.alias
  BY DEF Called
<1>r. PICK refs : refs = TableRefs(s)
  OBVIOUS
<1>1. PICK k \in DOMAIN refs : refs[k] = t
  BY <1>r, RefsAre
<1>2. \A i, j \in DOMAIN refs :
        refs[i].alias \in {refs[j].alias, refs[j].name} \ {NoName} => refs[i].name = refs[j].name
  BY <1>r DEF NamesMeanOneThing
<1>3. PICK aliased : aliased = {i \in DOMAIN refs : refs[i].alias = qual}
  OBVIOUS
<1>4. ResolveAlias(s, qual) =
        IF aliased = {} THEN qual ELSE refs[CHOOSE i \in aliased : \A j \in aliased : i <= j].name
  BY <1>r, <1>3 DEF ResolveAlias
<1>5. \A i \in aliased : refs[i].name = t.name
  BY <1>0, <1>1, <1>2, <1>3
<1>6. CASE aliased = {}
  <2>1. t.alias = NoName
    BY <1>0, <1>1, <1>3, <1>6
  <2> QED
    BY <1>0, <1>4, <1>6, <2>1
<1>7. CASE aliased # {}
  <2>1. \E i \in aliased : \A j \in aliased : i <= j
    BY <1>r, <1>3, <1>7, RefsAre, LeastExists
  <2>2. PICK m : m = CHOOSE i \in aliased : \A j \in aliased : i <= j
    OBVIOUS
  <2>3. m \in aliased
    BY <2>1, <2>2
  <2> QED
    BY <1>4, <1>5, <1>7, <2>2, <2>3
<1> QED
  BY <1>6, <1>7

(* A name that a table owns is known. *)
LEMMA OwnedIsKnown ==
  ASSUME NEW catalog, NEW schema, NEW s, Sound(catalog, schema, s),
         NEW t, OuterTable(s, t) \/ InnerTable(s, t), t.name # NoName,
         t.name \notin LocalNames(s), t.name \in DOMAIN schema,
         NEW column, column.name \in schema[t.name], column.qual \in {NoName, Called(t)}
  PROVE  KnownColumn(catalog, s, column)
<1>1. t.name \in DOMAIN catalog /\ column.name \in catalog[t.name]
  BY DEF Sound, Covers
<1>2. CASE column.qual = NoName
  <2>1. t.name \in ReferencedTables(s) \ LocalNames(s)
    BY RefNames DEF Sound
  <2> QED
    BY <1>1, <1>2, <2>1 DEF KnownColumn, Reachable
<1>3. CASE column.qual # NoName
  <2>1. ResolveAlias(s, column.qual) = t.name
    BY <1>3, AliasResolves DEF Sound
  <2> QED
    BY <1>1, <1>3, <2>1 DEF KnownColumn
<1> QED
  BY <1>2, <1>3

LEMMA StarIsKnown ==
  ASSUME NEW catalog, NEW s, NEW column, column.name = "*"
  PROVE  KnownColumn(catalog, s, column)
BY DEF KnownColumn

LEMMA LocalIsKnown ==
  ASSUME NEW catalog, NEW s, NEW column,
         IF column.qual = NoName THEN column.name \in LocalNames(s)
         ELSE column.qual \in LocalNames(s)
  PROVE  KnownColumn(catalog, s, column)
BY DEF KnownColumn, Reachable

(* A name that _local_names does not see, where it may be used. *)
LEMMA UnseenIsKnown ==
  ASSUME NEW catalog, NEW s, NEW column, Seen(catalog, s, column),
         column.qual = NoName, column.name \in Unseen(s)
  PROVE  KnownColumn(catalog, s, column)
BY DEF KnownColumn, Seen

(* What a call of a function returns. *)
LEMMA CallIsKnown ==
  ASSUME NEW catalog, NEW schema, NEW s, Sound(catalog, schema, s),
         NEW t, OuterTable(s, t) \/ InnerTable(s, t), t.name = NoName,
         NEW column, Seen(catalog, s, column),
         column.name = Called(t), column.qual \in {NoName, Called(t)}
  PROVE  KnownColumn(catalog, s, column)
<1>1. CASE column.qual = NoName
  BY <1>1, CalledUnseen, UnseenIsKnown DEF Sound
<1>2. CASE column.qual # NoName
  <2>1. ResolveAlias(s, column.qual) = NoName
    BY <1>2, AliasResolves DEF Sound
  <2> QED
    BY <1>2, <2>1 DEF KnownColumn, HasTable
<1> QED
  BY <1>1, <1>2

(* A column that is bound has an owner. *)
LEMMA BoundHasOwner ==
  ASSUME NEW relations, NEW column, Bound(relations, column), column.name # "*"
  PROVE  \E r \in relations : column.qual \in {NoName, r.as} /\ column.name \in r.columns
<1>1. Cardinality(Owners(relations, column)) = 1
  BY DEF Bound
<1>2. PICK owners : owners = Owners(relations, column)
  OBVIOUS
<1>3. Cardinality({}) = 0
  BY FS_EmptySet
<1>4. owners # {}
  <2> SUFFICES ASSUME owners = {} PROVE FALSE
    OBVIOUS
  <2>1. Cardinality(owners) = 1
    BY ONLY <1>1, <1>2
  <2>2. Cardinality(owners) = 0
    BY ONLY <1>3, owners = {}
  <2> QED
    BY ONLY <2>1, <2>2
<1> QED
  BY <1>2, <1>4 DEF Owners

(* Only a CTE shares its name with a table that is read. *)
LEMMA OnlyCteShares ==
  ASSUME NEW catalog, NEW schema, NEW s, Sound(catalog, schema, s),
         NEW t, OuterTable(s, t) \/ InnerTable(s, t), t.name \in LocalNames(s)
  PROVE  s.role = "cte" /\ t.name = s.name /\ ~InnerTable(s, t)
<1>1. t.name \in {TableRefs(s)[i].name : i \in DOMAIN TableRefs(s)}
  BY RefsAre DEF Sound
<1>2. s.role = "cte" /\ t.name = s.name
  BY <1>1 DEF Sound, NamesMeanOneThing
<1>3. ~InnerTable(s, t)
  BY <1>2 DEF Sound, NamesMeanOneThing, InnerTable
<1> QED
  BY <1>2, <1>3

(* A column of the body belongs to a table, or to a call, or is a row. *)
Owned(schema, s, column) ==
    \E t : /\ InnerTable(s, t) /\ t.name \notin LocalNames(s) /\ t.name # NoName
           /\ t.name \in DOMAIN schema /\ column.name \in schema[t.name]
           /\ column.qual \in {NoName, Called(t)}

OfCall(s, column) ==
    \E t : /\ InnerTable(s, t) /\ t.name = NoName /\ column.name = Called(t)
           /\ column.qual \in {NoName, Called(t)}

LEMMA InnerOwned ==
  ASSUME NEW catalog, NEW schema, NEW s, Sound(catalog, schema, s), s.role # "none",
         NEW column, Bound(InnerRelations(schema, s), column), column.name # "*"
  PROVE  Owned(schema, s, column) \/ OfCall(s, column)
<1>1. PICK r \in InnerRelations(schema, s) :
        column.qual \in {NoName, r.as} /\ column.name \in r.columns
  BY BoundHasOwner
<1>2. PICK i \in DOMAIN s.inner.from : r = Relation(schema, s, s.inner.from[i], TRUE)
  BY DEF InnerRelations
<1>3. PICK t : t = s.inner.from[i]
  OBVIOUS
<1>4. InnerTable(s, t)
  BY <1>2, <1>3 DEF InnerTable
<1>5. /\ r.as = Called(t)
      /\ r.columns = IF t.name = NoName THEN {Called(t)}
                     ELSE IF t.name \in DOMAIN schema THEN schema[t.name] ELSE {}
  BY <1>2, <1>3 DEF Relation
<1>6. CASE t.name = NoName
  BY <1>1, <1>4, <1>5, <1>6 DEF OfCall
<1>7. CASE t.name # NoName
  <2>1. t.name \in DOMAIN schema /\ column.name \in schema[t.name]
    BY <1>1, <1>5, <1>7
  <2>2. t.name \notin LocalNames(s)
    BY <1>4, OnlyCteShares
  <2> QED
    BY <1>1, <1>4, <1>5, <1>7, <2>1, <2>2 DEF Owned
<1> QED
  BY <1>6, <1>7

LEMMA InnerKnown ==
  ASSUME NEW catalog, NEW schema, NEW s, Sound(catalog, schema, s), s.role # "none",
         NEW column, Seen(catalog, s, column), Bound(InnerRelations(schema, s), column)
  PROVE  KnownColumn(catalog, s, column)
<1>1. CASE column.name = "*"
  BY <1>1, StarIsKnown
<1>2. CASE column.name # "*" /\ Owned(schema, s, column)
  <2>1. PICK t : /\ InnerTable(s, t) /\ t.name \notin LocalNames(s) /\ t.name # NoName
                 /\ t.name \in DOMAIN schema /\ column.name \in schema[t.name]
                 /\ column.qual \in {NoName, Called(t)}
    BY <1>2 DEF Owned
  <2> QED
    BY <2>1, OwnedIsKnown
<1>3. CASE column.name # "*" /\ OfCall(s, column)
  <2>1. PICK t : /\ InnerTable(s, t) /\ t.name = NoName /\ column.name = Called(t)
                 /\ column.qual \in {NoName, Called(t)}
    BY <1>3 DEF OfCall
  <2> QED
    BY <2>1, CallIsKnown
<1> QED
  BY <1>1, <1>2, <1>3, InnerOwned

(* A whole row goes by the name of its relation. *)
LEMMA InnerRow ==
  ASSUME NEW schema, NEW s, IsStatement(s), s.role # "none", NEW name,
         name \in {r.as : r \in InnerRelations(schema, s)}
  PROVE  name \in Unseen(s)
<1>1. PICK i \in DOMAIN s.inner.from : name = Relation(schema, s, s.inner.from[i], TRUE).as
  BY DEF InnerRelations
<1>2. PICK t : t = s.inner.from[i]
  OBVIOUS
<1>3. InnerTable(s, t) /\ name = Called(t)
  BY <1>1, <1>2 DEF InnerTable, Relation
<1> QED
  BY <1>3, CalledUnseen

LEMMA OuterRow ==
  ASSUME NEW schema, NEW s, IsStatement(s), NEW name,
         name \in {r.as : r \in OuterRelations(schema, s)}
  PROVE  name \in Unseen(s) \cup LocalNames(s)
<1>1. PICK r \in OuterRelations(schema, s) : name = r.as
  OBVIOUS
<1>2. CASE \E i \in DOMAIN s.outer.from : r = Relation(schema, s, s.outer.from[i], FALSE)
  <2>1. PICK i \in DOMAIN s.outer.from : name = Relation(schema, s, s.outer.from[i], FALSE).as
    BY <1>1, <1>2
  <2>2. PICK t : t = s.outer.from[i]
    OBVIOUS
  <2>3. OuterTable(s, t) /\ name = Called(t)
    BY <2>1, <2>2 DEF OuterTable, Relation
  <2> QED
    BY <2>3, CalledUnseen
<1>3. CASE s.role = "derived" /\ r = [as |-> s.name, columns |-> Exposed(s)]
  <2>1. name = s.name
    BY <1>1, <1>3
  <2> QED
    BY <1>3, <2>1 DEF LocalNames
<1> QED
  BY <1>1, <1>2, <1>3 DEF OuterRelations

LEMMA RowIsKnown ==
  ASSUME NEW catalog, NEW s, NEW column, Seen(catalog, s, column),
         column.qual = NoName, column.name \in Unseen(s) \cup LocalNames(s)
  PROVE  KnownColumn(catalog, s, column)
BY UnseenIsKnown, LocalIsKnown

(* What a derived table shows: a name of its list, an alias, or a column.   *)
LEMMA DerivedKnown ==
  ASSUME NEW catalog, NEW schema, NEW s, Sound(catalog, schema, s), s.role = "derived",
         NEW column, Seen(catalog, s, column), column.name # "*",
         column.qual = NoName, column.name \in Exposed(s)
  PROVE  KnownColumn(catalog, s, column)
<1>1. PICK item \in s.inner.items :
        column.name = IF item \in DOMAIN s.renamed THEN s.renamed[item] ELSE OutputName(item)
  BY DEF Exposed
<1>2. CASE item \in DOMAIN s.renamed
  <2>1. column.name \in Unseen(s)
    BY <1>1, <1>2 DEF Unseen
  <2> QED
    BY <2>1, UnseenIsKnown
<1>3. CASE item \notin DOMAIN s.renamed /\ item.as # NoName
  <2>1. s.inner \in Scopes(s)
    BY DEF Scopes
  <2>2. column.name \in LocalNames(s)
    BY <1>1, <1>3, <2>1 DEF LocalNames, OutputName
  <2> QED
    BY <2>2, LocalIsKnown
<1>4. CASE item \notin DOMAIN s.renamed /\ item.as = NoName
  <2>1. PICK own : own = [qual |-> item.qual, name |-> item.name]
    OBVIOUS
  <2>2. own \in ColumnsIn(s.inner) /\ own.name = column.name
    BY <1>1, <1>4, <2>1 DEF ColumnsIn, OutputName
  <2>3. Bound(InnerRelations(schema, s), own) \/ WholeRow(InnerRelations(schema, s), own)
    BY <2>2 DEF Sound, Resolves
  <2>4. CASE WholeRow(InnerRelations(schema, s), own)
    <3>1. own.name \in {r.as : r \in InnerRelations(schema, s)}
      BY <2>4 DEF WholeRow
    <3>2. column.name \in Unseen(s)
      BY <2>2, <3>1, InnerRow DEF Sound
    <3> QED
      BY <3>2, UnseenIsKnown
  <2>5. CASE Bound(InnerRelations(schema, s), own)
    <3>1. Owned(schema, s, own) \/ OfCall(s, own)
      BY <2>2, <2>5, InnerOwned
    <3>2. CASE Owned(schema, s, own)
      <4>1. PICK t : /\ InnerTable(s, t) /\ t.name \notin LocalNames(s) /\ t.name # NoName
                     /\ t.name \in DOMAIN schema /\ own.name \in schema[t.name]
        BY <3>2 DEF Owned
      <4> QED
        BY <2>2, <4>1, OwnedIsKnown
    <3>3. CASE OfCall(s, own)
      <4>1. PICK t : InnerTable(s, t) /\ own.name = Called(t)
        BY <3>3 DEF OfCall
      <4>2. column.name \in Unseen(s)
        BY <2>2, <4>1, CalledUnseen DEF Sound
      <4> QED
        BY <4>2, UnseenIsKnown
    <3> QED
      BY <3>1, <3>2, <3>3
  <2> QED
    BY <2>3, <2>4, <2>5
<1> QED
  BY <1>2, <1>3, <1>4

LEMMA OuterKnown ==
  ASSUME NEW catalog, NEW schema, NEW s, Sound(catalog, schema, s),
         NEW column, Seen(catalog, s, column), Bound(OuterRelations(schema, s), column)
  PROVE  KnownColumn(catalog, s, column)
<1> SUFFICES ASSUME column.name # "*" PROVE KnownColumn(catalog, s, column)
  BY StarIsKnown
<1>1. PICK r \in OuterRelations(schema, s) :
        column.qual \in {NoName, r.as} /\ column.name \in r.columns
  BY BoundHasOwner
<1>2. CASE \E i \in DOMAIN s.outer.from : r = Relation(schema, s, s.outer.from[i], FALSE)
  <2>2. PICK i \in DOMAIN s.outer.from : r = Relation(schema, s, s.outer.from[i], FALSE)
    BY <1>2
  <2>3. PICK t : t = s.outer.from[i]
    OBVIOUS
  <2>4. OuterTable(s, t)
    BY <2>2, <2>3 DEF OuterTable
  <2>5. /\ r.as = Called(t)
        /\ r.columns = IF t.name = NoName THEN {Called(t)}
                       ELSE IF s.role = "cte" /\ t.name = s.name THEN Exposed(s)
                       ELSE IF t.name \in DOMAIN schema THEN schema[t.name] ELSE {}
    BY <2>2, <2>3 DEF Relation
  <2>6. column.qual \in {NoName, Called(t)}
    BY <1>1, <2>5
  <2>7. CASE t.name = NoName
    BY <1>1, <2>4, <2>5, <2>6, <2>7, CallIsKnown
  <2>8. CASE t.name # NoName /\ s.role = "cte" /\ t.name = s.name
    <3>1. column.name \in Exposed(s) /\ t.name \in LocalNames(s)
      BY <1>1, <2>5, <2>8 DEF LocalNames
    <3>2. CASE column.qual = NoName
      <4>1. PICK item \in s.inner.items :
              column.name = IF item \in DOMAIN s.renamed THEN s.renamed[item] ELSE OutputName(item)
        BY <3>1 DEF Exposed
      <4>2. column.name \in Unseen(s) \cup LocalNames(s)
        BY <2>8, <4>1 DEF Unseen, LocalNames, Outputs
      <4> QED
        BY <3>2, <4>2, RowIsKnown
    <3>3. CASE column.qual # NoName /\ t.alias = NoName
      BY <2>6, <3>1, <3>3, LocalIsKnown DEF Called
    <3>4. CASE column.qual # NoName /\ t.alias # NoName
      <4>1. t.name \notin DOMAIN catalog
        BY <2>2, <2>3, <2>8, <3>4 DEF Sound, NamesMeanOneThing
      <4>2. ResolveAlias(s, column.qual) = t.name
        BY <2>4, <2>6, <3>4, AliasResolves DEF Sound
      <4> QED
        BY <3>4, <4>1, <4>2 DEF KnownColumn, HasTable
    <3> QED
      BY <3>2, <3>3, <3>4
  <2>9. CASE t.name # NoName /\ ~(s.role = "cte" /\ t.name = s.name)
    <3>1. t.name \in DOMAIN schema /\ column.name \in schema[t.name]
      BY <1>1, <2>5, <2>9
    <3>2. t.name \notin LocalNames(s)
      BY <2>4, <2>9, OnlyCteShares
    <3> QED
      BY <2>4, <2>6, <2>9, <3>1, <3>2, OwnedIsKnown
  <2> QED
    BY <2>7, <2>8, <2>9
<1>3. CASE s.role = "derived" /\ r = [as |-> s.name, columns |-> Exposed(s)]
  <2>1. r.as = s.name /\ r.columns = Exposed(s) /\ s.name \in LocalNames(s)
    BY <1>3 DEF LocalNames
  <2>2. CASE column.qual # NoName
    BY <1>1, <2>1, <2>2, LocalIsKnown
  <2>3. CASE column.qual = NoName
    BY <1>1, <1>3, <2>1, <2>3, DerivedKnown
  <2> QED
    BY <2>2, <2>3
<1> QED
  BY <1>1, <1>2, <1>3 DEF OuterRelations

(* What the static stages say of a query whose names resolve. *)
LEMMA RightIsNotRefused ==
  ASSUME NEW catalog, NEW schema, NEW s, IsStatement(s),
         NamesMeanOneThing(catalog, s), NamesAreSeen(catalog, s)
  PROVE  ~RightYetRefused(catalog, schema, s)
<1> SUFFICES ASSUME Covers(catalog, schema), CheckText(s) = "ok", Resolves(schema, s)
             PROVE  ValidateStatic(catalog, s) \notin {"table_not_found", "unknown_identifier"}
  BY DEF RightYetRefused
<1>1. Sound(catalog, schema, s)
  BY DEF Sound
<1>2. ReferencedTables(s) \subseteq LocalNames(s) \cup DOMAIN catalog
  BY DEF Resolves, TablesExist, Covers, LocalNames
<1>3. ASSUME NEW column \in ColumnRefs(s) PROVE KnownColumn(catalog, s, column)
  <2>0. Seen(catalog, s, column)
    BY DEF NamesAreSeen
  <2>1. CASE column \in ColumnsIn(s.outer)
    <3>1. CASE Bound(OuterRelations(schema, s), column)
      BY <1>1, <2>0, <3>1, OuterKnown
    <3>2. CASE WholeRow(OuterRelations(schema, s), column)
      BY <2>0, <3>2, OuterRow, RowIsKnown DEF WholeRow
    <3> QED
      BY <2>1, <3>1, <3>2 DEF Resolves
  <2>2. CASE s.role # "none" /\ column \in ColumnsIn(s.inner)
    <3>1. PICK seen : seen = IF s.role = "nested"
                             THEN InnerRelations(schema, s) \cup OuterRelations(schema, s)
                             ELSE InnerRelations(schema, s)
      OBVIOUS
    <3>2. \/ Bound(InnerRelations(schema, s), column)
          \/ Bound(OuterRelations(schema, s), column)
          \/ WholeRow(seen, column)
      BY <2>2, <3>1 DEF Resolves, BoundInNested
    <3>3. CASE WholeRow(seen, column)
      <4>1. column.qual = NoName /\ column.name \in {r.as : r \in seen}
        BY <3>3 DEF WholeRow
      <4>2. \/ column.name \in {r.as : r \in InnerRelations(schema, s)}
            \/ column.name \in {r.as : r \in OuterRelations(schema, s)}
        BY <3>1, <4>1
      <4>3. column.name \in Unseen(s) \cup LocalNames(s)
        BY <2>2, <4>2, InnerRow, OuterRow
      <4> QED
        BY <2>0, <4>1, <4>3, RowIsKnown
    <3> QED
      BY <1>1, <2>0, <2>2, <3>2, <3>3, InnerKnown, OuterKnown
  <2> QED
    BY <2>1, <2>2 DEF ColumnRefs, Scopes
<1>4. CheckIdentifiers(catalog, s) = "ok"
  BY <1>2, <1>3 DEF CheckIdentifiers
<1>5. CheckReadOnly(s) \in {"ok", "not_read_only"}
  BY DEF CheckReadOnly
<1> QED
  BY <1>4, <1>5 DEF ValidateStatic

-------------------------------------------------------------------------------
(* What was taken of the reply, and the query that is put to the validator. *)
Read ==
    /\ q.reply \in Seq(Marks) /\ q.taken = StripFormatting(q.reply)
    /\ pc = "validate" => IsStatement(q.sql)

(* The inductive invariant of an answer. *)
RInv == QInv /\ Read

LEMMA StripNothing == StripFormatting(<<>>) = <<>>
<1>1. DropThinking(<<>>) = <<>>
  BY DEF DropThinking, Starts
<1>2. DropLabel(Unfence(<<>>)) = <<>>
  <2>1. Unfence(<<>>) = <<>>
    BY DEF Unfence
  <2> QED
    BY <2>1 DEF DropLabel, Starts
<1> QED
  BY <1>1, <1>2 DEF StripFormatting, Starts

LEMMA GarbledIsStatement == IsStatement(Garbled)
<1>1. Garbled.outer.from = <<>> /\ Garbled.inner.from = <<>>
  <2>1. Garbled.outer = NoSelect /\ Garbled.inner = NoSelect
    BY DEF Garbled
  <2>2. NoSelect.from = <<>>
    BY DEF NoSelect
  <2> QED
    BY ONLY <2>1, <2>2
<1>2. Garbled.outer.from \in Seq(Nat) /\ Garbled.inner.from \in Seq(Nat)
  BY <1>1
<1> QED
  BY <1>2 DEF IsStatement

(* Nothing was said before a question is put. *)
LEMMA ReadUnasked ==
  ASSUME NEW r, r.reply = <<>>, r.taken = <<>>
  PROVE  r.reply \in Seq(Marks) /\ r.taken = StripFormatting(r.reply)
<1>1. PICK reply : reply = r.reply
  OBVIOUS
<1>2. reply = <<>> /\ StripFormatting(reply) = <<>>
  BY <1>1, StripNothing
<1> QED
  BY <1>1, <1>2

LEMMA InitRead == Init => Read
<1> SUFFICES ASSUME Init PROVE Read
  OBVIOUS
<1>1. q.reply = <<>> /\ q.taken = <<>> /\ pc = "idle"
  BY DEF Init, Unasked
<1> QED
  BY <1>1, ReadUnasked DEF Read

(* A step that reads no reply and puts no query to the validator. *)
LEMMA ReadKept ==
  ASSUME Read, q'.reply = q.reply, q'.taken = q.taken, pc' # "validate"
  PROVE  Read'
BY DEF Read

LEMMA ReadStill ==
  ASSUME Read, UNCHANGED <<pc, q>>
  PROVE  Read'
BY DEF Read

LEMMA ReadAsk ==
  ASSUME Ask
  PROVE  Read'
<1>1. q'.reply = <<>> /\ q'.taken = <<>>
  BY DEF Ask, Unasked
<1>2. pc' # "validate"
  BY DEF Ask
<1> QED
  BY <1>1, <1>2, ReadUnasked DEF Read

(* An exception in a question. *)
LEMMA ReadRaise ==
  ASSUME Read, NEW record, IsQuestion(record), record.reply = q.reply, record.taken = q.taken,
         NEW class, NEW attempt, Raise(record, class, attempt)
  PROVE  Read'
<1>1. Changed(record, q', {"attempt", "raised"}) /\ pc' \in {"run", "done"}
  BY RaiseStep
<1>2. q'.reply = q.reply /\ q'.taken = q.taken
  BY <1>1 DEF Changed, Fields
<1> QED
  BY <1>1, <1>2, ReadKept

LEMMA ReadContext ==
  ASSUME QInv, Read, RunGold \/ Context
  PROVE  Read'
<1>1. CASE \E class, a : Raise(q, class, a)
  BY <1>1, ReadRaise DEF QInv
<1>2. CASE \E a : Return(q, a)
  <2>1. Changed(q, q', {"attempt"}) /\ pc' \in {"run", "done"}
    BY <1>2, ReturnStep DEF QInv
  <2>2. q'.reply = q.reply /\ q'.taken = q.taken
    BY <2>1 DEF Changed, Fields
  <2> QED
    BY <2>1, <2>2, ReadKept
<1>3. CASE RunGold
  <2>1. q'.reply = q.reply /\ q'.taken = q.taken
    BY <1>3 DEF RunGold, QInv, IsQuestion, Fields
  <2> QED
    BY <1>3, <2>1, ReadKept DEF RunGold, Step
<1>4. CASE UseScope \/ ReadFullElements \/ ReadFullEdges
  BY <1>4, ReadKept DEF UseScope, ReadFullElements, ReadFullEdges, Step
<1>5. CASE BuildScope
  BY <1>2, <1>5, ReadKept DEF BuildScope
<1>6. CASE UseFullSchema \/ Search
  <2>1. PICK c : q' = [q EXCEPT !.context = c]
    BY <1>6 DEF UseFullSchema, Search
  <2>2. q'.reply = q.reply /\ q'.taken = q.taken
    BY <2>1 DEF QInv, IsQuestion, Fields
  <2> QED
    BY <1>6, <2>2, ReadKept DEF UseFullSchema, Search, Step
<1>7. CASE SearchJoins
  <2>1. PICK edges : q' = [q EXCEPT !.context.known = TRUE, !.context.edges = edges]
    BY <1>7 DEF SearchJoins
  <2>2. q'.reply = q.reply /\ q'.taken = q.taken
    BY <2>1 DEF QInv, IsQuestion, Fields
  <2> QED
    BY <1>7, <2>2, ReadKept DEF SearchJoins, Step
<1>8. CASE LosesContext
  BY <1>1, <1>8 DEF LosesContext
<1> QED
  BY <1>3, <1>4, <1>5, <1>6, <1>7, <1>8 DEF Context

LEMMA ReadGenerate ==
  ASSUME QInv, Read, NEW reply \in Load.replies, Generate(reply)
  PROVE  Read'
<1>1. reply \in Seq(Marks)
  BY DEF Load, QInv
<1>t. PICK text : text = StripFormatting(reply)
  OBVIOUS
<1>r. PICK read : read = [q EXCEPT !.reply = reply, !.taken = text]
  OBVIOUS
<1>2. IsQuestion(read) /\ read.reply = reply /\ read.taken = text
  BY <1>r DEF QInv, IsQuestion, Fields
<1>3. ASSUME q'.reply = reply, q'.taken = text, pc' = "validate" => IsStatement(q'.sql)
      PROVE  Read'
  BY <1>1, <1>3, <1>t DEF Read
<1>4. CASE \E class, attempt : Raise(read, class, attempt)
  <2>1. Changed(read, q', {"attempt", "raised"}) /\ pc' \in {"run", "done"}
    BY <1>2, <1>4, RaiseStep
  <2>2. q'.reply = reply /\ q'.taken = text
    BY <1>2, <2>1 DEF Changed, Fields
  <2> QED
    BY <1>3, <2>1, <2>2
<1>5. CASE text = <<>> \/ Head(text) = "cannot"
  BY <1>4, <1>5, <1>t, <1>r DEF Generate
<1>6. CASE ~(text = <<>> \/ Head(text) = "cannot")
  <2>a. PICK a : a = IF NeedsValidation THEN read.attempt ELSE Candidate("none")
    OBVIOUS
  <2>1. PICK sql : /\ q' = [read EXCEPT !.sql = sql, !.attempt = a]
                   /\ sql \in Load.statements \/ sql = Garbled
    BY <1>6, <1>t, <1>r, <2>a DEF Generate
  <2>2. q'.reply = reply /\ q'.taken = text /\ q'.sql = sql
    BY <1>2, <2>1 DEF IsQuestion, Fields
  <2>3. IsStatement(sql)
    <3>1. CASE sql \in Load.statements
      <4>1. PICK outer, inner : outer = sql.outer.from /\ inner = sql.inner.from
        OBVIOUS
      <4>2. outer \in Seq(ToSet(outer)) /\ inner \in Seq(ToSet(inner))
        BY <3>1, <4>1 DEF Load, QInv, IsSelect, IsSeq
      <4>3. outer \in Seq(ToSet(outer) \cup ToSet(inner)) /\ inner \in Seq(ToSet(outer) \cup ToSet(inner))
        <5> HIDE DEF ToSet
        <5> QED
          BY ONLY <4>2, SMT
      <4> QED
        BY <4>1, <4>3 DEF IsStatement
    <3> QED
      BY <2>1, <3>1, GarbledIsStatement
  <2> QED
    BY <1>3, <2>2, <2>3
<1> QED
  BY <1>5, <1>6

LEMMA ReadValidate ==
  ASSUME QInv, Read, Validate
  PROVE  Read'
<1>1. ASSUME NEW record, IsQuestion(record), record.reply = q.reply, record.taken = q.taken,
             NEW error, Reject(record, error)
      PROVE  Read'
  <2>1. PICK a : a = Candidate(error)
    OBVIOUS
  <2>2. Raise(record, "SQLValidationError", a)
    BY <1>1, <2>1 DEF Reject
  <2> QED
    BY <1>1, <2>2, ReadRaise
<1>s. PICK static : static = ValidateStatic(scopes[q.db].catalog, q.sql)
  OBVIOUS
<1>2. CASE static # "ok"
  <2>1. PICK record : record = [q EXCEPT !.stage = "static"]
    OBVIOUS
  <2>2. Reject(record, static)
    BY <1>2, <1>s, <2>1 DEF Validate
  <2>3. IsQuestion(record) /\ record.reply = q.reply /\ record.taken = q.taken
    BY <2>1 DEF QInv, IsQuestion, Fields
  <2> QED
    BY <1>1, <2>2, <2>3
<1>3. CASE static = "ok"
  <2>p. PICK p : p = path'
    OBVIOUS
  <2>1. PICK record : record = [q EXCEPT !.stage = "explain", !.explainedIn = p]
    OBVIOUS
  <2>2. IsQuestion(record) /\ record.reply = q.reply /\ record.taken = q.taken
    BY <2>1 DEF QInv, IsQuestion, Fields
  <2>3. PICK outcome \in Explained(live[path'].tables, q.sql) :
          IF outcome # "ok" THEN Reject(record, outcome)
          ELSE /\ q' = [record EXCEPT !.attempt = Candidate("none")]
               /\ pc' = IF q.goldFailed THEN "done" ELSE "run"
    BY <1>3, <1>s, <2>p, <2>1 DEF Validate
  <2>4. CASE outcome # "ok"
    BY <1>1, <2>2, <2>3, <2>4
  <2>5. CASE outcome = "ok"
    <3>a. PICK a : a = Candidate("none")
      OBVIOUS
    <3>1. q' = [record EXCEPT !.attempt = a] /\ pc' \in {"done", "run"}
      BY <2>3, <2>5, <3>a
    <3>2. q'.reply = q.reply /\ q'.taken = q.taken
      BY <2>2, <3>1 DEF IsQuestion, Fields
    <3> QED
      BY <3>1, <3>2, ReadKept
  <2> QED
    BY <2>4, <2>5
<1> QED
  BY <1>2, <1>3

LEMMA ReadRaises ==
  ASSUME QInv, Read, ActivateFails \/ ProfileFails \/ \E class \in Providers : ModelFails(class)
  PROVE  Read'
<1>1. \E class, a : Raise(q, class, a)
  BY DEF ActivateFails, ProfileFails, ModelFails
<1> QED
  BY <1>1, ReadRaise DEF QInv

LEMMA ReadRuns ==
  ASSUME QInv, Read, Execute \/ RunPredicted
  PROVE  Read'
<1>1. CASE \E class : Raise([q EXCEPT !.ranIn = path], class, NoAttempt)
  <2>0. PICK p, a : p = path /\ a = NoAttempt
    OBVIOUS
  <2>1. PICK record : record = [q EXCEPT !.ranIn = p]
    OBVIOUS
  <2>2. PICK class : Raise(record, class, a)
    BY <1>1, <2>0, <2>1
  <2>3. IsQuestion(record) /\ record.reply = q.reply /\ record.taken = q.taken
    BY <2>1 DEF QInv, IsQuestion, Fields
  <2> QED
    BY <2>2, <2>3, ReadRaise
<1>2. CASE /\ \/ \E schema, page : q' = [q EXCEPT !.ranIn = schema, !.page = page]
              \/ \E schema, r, v :
                   q' = [[q EXCEPT !.ranIn = schema] EXCEPT !.result = r, !.verdict = v]
              \/ \E schema :
                   q' = [[q EXCEPT !.ranIn = schema] EXCEPT !.attempt.error = "execution_failed"]
           /\ pc' = "done"
  <2>1. q'.reply = q.reply /\ q'.taken = q.taken
    BY <1>2 DEF QInv, IsQuestion, Fields
  <2> QED
    BY <1>2, <2>1, ReadKept
<1>3. CASE Execute
  BY <1>1, <1>2, <1>3 DEF Execute
<1>4. CASE RunPredicted
  <2>0. PICK schema : schema = RunnerSchema(q.db)
    OBVIOUS
  <2>1. \/ \E r, v : q' = [[q EXCEPT !.ranIn = schema] EXCEPT !.result = r, !.verdict = v]
        \/ q' = [[q EXCEPT !.ranIn = schema] EXCEPT !.attempt.error = "execution_failed"]
    BY <1>4, <2>0 DEF RunPredicted
  <2>2. pc' = "done"
    BY <1>4 DEF RunPredicted, Step
  <2> QED
    BY <1>2, <2>1, <2>2
<1> QED
  BY <1>3, <1>4

LEMMA ReadProfile ==
  ASSUME QInv, Read, NEW s, NEW call, ProfileTable(s, call)
  PROVE  Read'
<1>1. pc' = "done"
  BY DEF ProfileTable, Step
<1>2. \/ UNCHANGED q
      \/ \E class : q' = [q EXCEPT !.raised = class]
      \/ \E profile : q' = [q EXCEPT !.profile = profile]
  BY DEF ProfileTable
<1>3. q'.reply = q.reply /\ q'.taken = q.taken
  BY <1>2 DEF QInv, IsQuestion, Fields
<1> QED
  BY <1>1, <1>3, ReadKept

LEMMA NextRInv == RInv /\ [Next]_vars => RInv'
<1> SUFFICES ASSUME QInv, Read, [Next]_vars PROVE Read'
  BY NextQInv DEF RInv
<1>1. CASE Schema \/ UNCHANGED vars
  BY <1>1, ReadStill DEF Schema, Quiet, vars
<1>2. CASE Ask \/ RunGold \/ Context
  BY <1>2, ReadAsk, ReadContext
<1>3. CASE Answer \/ Profile
  BY <1>3, ReadGenerate, ReadValidate, ReadRaises, ReadRuns, ReadProfile DEF Answer, Profile
<1>4. CASE \E db \in DOMAIN Fold : StartServer(db)
  BY <1>4, ReadStill DEF StartServer
<1> QED
  BY <1>1, <1>2, <1>3, <1>4 DEF Next

(* A query that reaches the validator is a statement or no SQL at all, and  *)
(* what was taken of a reply is what strip_formatting makes of it.          *)
THEOREM SpecRInv == Spec => []RInv
<1>1. Init => RInv
  BY InitQInv, InitRead DEF RInv
<1> QED
  BY <1>1, NextRInv, PTL DEF Spec

(* SQLValidator refuses no query for its names that resolve in the schema   *)
(* the catalog covers, when each name means one thing in it and no name of  *)
(* a column list, of a function's result or of a whole row stands alone:    *)
(* for any statement of the grammar, any catalog, any schema.               *)
THEOREM RightQueriesPass == Spec => []RightQueryNotRejected
<1>1. RInv => RightQueryNotRejected
  <2> SUFFICES ASSUME RInv, pc = "validate",
                      NamesMeanOneThing(scopes[q.db].catalog, q.sql),
                      NamesAreSeen(scopes[q.db].catalog, q.sql)
               PROVE  ~RightYetRefused(scopes[q.db].catalog, live[scopes[q.db].dataset].tables, q.sql)
    BY DEF RightQueryNotRejected
  <2>1. IsStatement(q.sql)
    BY DEF RInv, Read
  <2>2. PICK catalog, schema, s : /\ catalog = scopes[q.db].catalog /\ s = q.sql
                                  /\ schema = live[scopes[q.db].dataset].tables
    OBVIOUS
  <2>3. ~RightYetRefused(catalog, schema, s)
    BY <2>1, <2>2, RightIsNotRefused
  <2> QED
    BY <2>2, <2>3
<1> QED
  BY <1>1, SpecRInv, PTL

-------------------------------------------------------------------------------
(* An answer by itself, without the marks around it. *)
LEMMA AnswerAlone ==
  ASSUME NEW body \in {"sql", "cannot"}, NEW reply \in Seq(Marks), reply \in Answers(body)
  PROVE  /\ ~Starts(reply, "think") /\ \A i \in DOMAIN reply : reply[i] # "/think"
         /\ DropLabel(Unfence(reply)) = <<body>>
<1>b. body # "/think" /\ body # "think" /\ body # "fence" /\ body # "label"
  OBVIOUS
<1>1. CASE reply = <<body>>
  <2>1. Unfence(reply) = reply
    BY <1>1 DEF Unfence
  <2>2. Head(reply) = body /\ Len(reply) = 1 /\ reply[1] = body /\ DOMAIN reply = 1 .. 1
    BY <1>1
  <2> QED
    BY <1>b, <1>1, <2>1, <2>2 DEF DropLabel, Starts
<1>2. CASE reply = <<"label", body>>
  <2>1. Head(reply) = "label" /\ reply # <<>> /\ DOMAIN reply = 1 .. 2
        /\ reply[1] = "label" /\ reply[2] = body
    BY <1>2
  <2>2. Unfence(reply) = reply
    BY <2>1 DEF Unfence
  <2>3. Tail(reply) = <<body>>
    BY <1>2
  <2> QED
    BY <1>b, <2>1, <2>2, <2>3 DEF DropLabel, Starts
<1>3. CASE reply = <<"fence", body, "fence">>
  <2>1. Head(reply) = "fence" /\ reply # <<>> /\ DOMAIN reply = 1 .. 3 /\ Len(reply) = 3
        /\ reply[1] = "fence" /\ reply[2] = body /\ reply[3] = "fence"
    BY <1>3
  <2>2. Unfence(reply) = SubSeq(reply, 2, 2)
    BY <2>1 DEF Unfence
  <2>3. SubSeq(reply, 2, 2) = <<body>>
    <3>1. PICK cut : cut = SubSeq(reply, 2, 2)
      OBVIOUS
    <3>2. cut \in Seq(Marks) /\ Len(cut) = 1 /\ cut[1] = body
      BY <2>1, <3>1, SubSeqProperties
    <3>3. PICK one : one = <<body>>
      OBVIOUS
    <3>4. one \in Seq(Marks) /\ Len(one) = 1 /\ one[1] = body
      BY <3>3 DEF Marks
    <3>5. cut = one
      BY ONLY <3>2, <3>4, SeqEqual
    <3> QED
      BY ONLY <3>1, <3>3, <3>5
  <2>4. DropLabel(<<body>>) = <<body>>
    BY <1>b DEF DropLabel, Starts
  <2>5. DropLabel(Unfence(reply)) = <<body>>
    BY ONLY <2>2, <2>3, <2>4
  <2>6. ~Starts(reply, "think")
    BY <2>1 DEF Starts
  <2>7. \A i \in DOMAIN reply : reply[i] # "/think"
    BY <1>b, <2>1
  <2> QED
    BY <2>5, <2>6, <2>7
<1>4. CASE reply = <<"fence", "label", body, "fence">>
  <2>1. Head(reply) = "fence" /\ reply # <<>> /\ DOMAIN reply = 1 .. 4 /\ Len(reply) = 4
        /\ reply[1] = "fence" /\ reply[2] = "label" /\ reply[3] = body /\ reply[4] = "fence"
    BY <1>4
  <2>2. Unfence(reply) = SubSeq(reply, 2, 3)
    BY <2>1 DEF Unfence
  <2>3. SubSeq(reply, 2, 3) = <<"label", body>>
    <3>1. PICK cut : cut = SubSeq(reply, 2, 3)
      OBVIOUS
    <3>s. \A i \in 2 .. 3 : reply[i] \in Marks
      BY <2>1 DEF Marks
    <3>2. /\ cut \in Seq(Marks) /\ Len(cut) = IF 2 <= 3 THEN 3 - 2 + 1 ELSE 0
          /\ \A i \in 1 .. 3 - 2 + 1 : cut[i] = reply[2 + i - 1]
      BY ONLY <3>1, <3>s, SubSeqProperties
    <3>3. Len(cut) = 2 /\ cut[1] = "label" /\ cut[2] = body
      <4>1. 1 \in 1 .. 3 - 2 + 1 /\ 2 \in 1 .. 3 - 2 + 1 /\ 2 + 1 - 1 = 2 /\ 2 + 2 - 1 = 3
        OBVIOUS
      <4>2. cut[1] = reply[2 + 1 - 1] /\ cut[2] = reply[2 + 2 - 1]
        BY ONLY <3>2, <4>1
      <4> QED
        BY <2>1, <3>2, <4>1, <4>2
    <3>4. PICK two : two = <<"label", body>>
      OBVIOUS
    <3>5. two \in Seq(Marks) /\ Len(two) = 2 /\ two[1] = "label" /\ two[2] = body
      BY <3>4 DEF Marks
    <3>6. \A i \in 1 .. 2 : cut[i] = two[i]
      BY ONLY <3>3, <3>5
    <3>7. cut = two
      BY ONLY <3>2, <3>3, <3>5, <3>6, SeqEqual
    <3> QED
      BY ONLY <3>1, <3>4, <3>7
  <2>4. DropLabel(<<"label", body>>) = <<body>>
    BY DEF DropLabel, Starts
  <2>5. DropLabel(Unfence(reply)) = <<body>>
    BY ONLY <2>2, <2>3, <2>4
  <2>6. ~Starts(reply, "think")
    BY <2>1 DEF Starts
  <2>7. \A i \in DOMAIN reply : reply[i] # "/think"
    BY <1>b, <2>1
  <2> QED
    BY <2>5, <2>6, <2>7
<1> QED
  BY <1>1, <1>2, <1>3, <1>4 DEF Answers

(* strip_formatting takes the answer of a reply. *)
LEMMA StripTakesAnswer ==
  ASSUME NEW body \in {"sql", "cannot"}, NEW reply \in Seq(Marks), Replies(body, reply)
  PROVE  StripFormatting(reply) = <<body>>
<1>1. CASE reply \in Answers(body)
  <2>1. ~Starts(reply, "think") /\ DropLabel(Unfence(reply)) = <<body>>
    BY <1>1, AnswerAlone
  <2> QED
    BY <2>1 DEF StripFormatting, DropThinking
<1>2. CASE \E i \in DOMAIN reply : /\ reply[1] = "think" /\ reply[i] = "/think"
                                   /\ SubSeq(reply, i + 1, Len(reply)) \in Answers(body)
  <2>1. PICK i \in DOMAIN reply : /\ reply[1] = "think" /\ reply[i] = "/think"
                                  /\ SubSeq(reply, i + 1, Len(reply)) \in Answers(body)
    BY <1>2
  <2>2. PICK n, rest : n = Len(reply) /\ rest = SubSeq(reply, i + 1, n)
    OBVIOUS
  <2>3. n \in Nat /\ DOMAIN reply = 1 .. n /\ i \in 1 .. n
    BY <2>2
  <2>4. /\ rest \in Seq(Marks) /\ \A k \in 1 .. n - i : rest[k] = reply[i + k]
        /\ DOMAIN rest = 1 .. n - i
    <3>1. i + 1 \in 1 .. n + 1
      BY <2>3
    <3>2. /\ rest \in Seq(Marks) /\ Len(rest) = IF i + 1 <= n THEN n - (i + 1) + 1 ELSE 0
          /\ \A k \in 1 .. n - (i + 1) + 1 : rest[k] = reply[(i + 1) + k - 1]
      BY <2>2, <2>3, <3>1, SubSeqProperties
    <3>3. \A k \in 1 .. n - i : rest[k] = reply[i + k]
      <4> SUFFICES ASSUME NEW k \in 1 .. n - i PROVE rest[k] = reply[i + k]
        OBVIOUS
      <4>1. k \in 1 .. n - (i + 1) + 1 /\ (i + 1) + k - 1 = i + k
        BY <2>3
      <4> QED
        BY <3>2, <4>1
    <3>4. Len(rest) = n - i
      BY <2>3, <3>2
    <3> QED
      BY <3>2, <3>3, <3>4
  <2>5. /\ ~Starts(rest, "think") /\ \A k \in DOMAIN rest : rest[k] # "/think"
        /\ DropLabel(Unfence(rest)) = <<body>>
    BY <2>1, <2>2, <2>4, AnswerAlone
  <2>6. PICK closed : closed = {k \in DOMAIN reply : reply[k] = "/think"}
    OBVIOUS
  <2>7. \A k \in closed : k <= i
    <3> SUFFICES ASSUME NEW k \in 1 .. n, reply[k] = "/think", i < k PROVE FALSE
      BY <2>3, <2>6
    <3>1. k - i \in 1 .. n - i /\ i + (k - i) = k
      BY <2>3
    <3>2. rest[k - i] = reply[k]
      BY <2>4, <3>1
    <3> QED
      BY <2>4, <2>5, <3>1, <3>2
  <2>8. i \in closed
    BY <2>1, <2>6
  <2>9. (CHOOSE k \in closed : \A j \in closed : j <= k) = i
    <3>1. \A k \in closed : k \in Nat
      BY <2>3, <2>6
    <3>2. \E k \in closed : \A j \in closed : j <= k
      BY <2>7, <2>8
    <3>3. PICK m : m = CHOOSE k \in closed : \A j \in closed : j <= k
      OBVIOUS
    <3>4. m \in closed /\ \A j \in closed : j <= m
      BY <3>2, <3>3
    <3>5. m = i
      BY <2>7, <2>8, <3>1, <3>4
    <3> QED
      BY <3>3, <3>5
  <2>10. Starts(reply, "think")
    BY <2>1, <2>3 DEF Starts
  <2>11. DropThinking(reply) = rest
    <3>1. DropThinking(reply) =
            SubSeq(reply, 1 + (CHOOSE k \in closed : \A j \in closed : j <= k), Len(reply))
      BY <2>6, <2>8, <2>10 DEF DropThinking
    <3>2. 1 + i = i + 1
      BY <2>3
    <3> QED
      BY <2>2, <2>9, <3>1, <3>2
  <2> QED
    BY <2>5, <2>11 DEF StripFormatting
<1> QED
  BY <1>1, <1>2 DEF Replies

(* Reasoning that was cut off leaves nothing. *)
LEMMA StripDropsCutOff ==
  ASSUME NEW reply \in Seq(Marks), reply # <<>>, reply[1] = "think", "/think" \notin ToSet(reply)
  PROVE  StripFormatting(reply) = <<>>
<1>1. Starts(reply, "think")
  BY DEF Starts
<1>2. {i \in DOMAIN reply : reply[i] = "/think"} = {}
  BY DEF ToSet
<1>3. DropThinking(reply) = reply
  BY <1>2 DEF DropThinking
<1> QED
  BY <1>1, <1>3 DEF StripFormatting

(* strip_formatting takes the answer and only the answer, for replies of    *)
(* any length and any reasoning.                                            *)
THEOREM AnswersAreTheReplys == Spec => []AnswerIsTheReplys
<1>1. RInv => AnswerIsTheReplys
  <2> SUFFICES ASSUME RInv PROVE AnswerIsTheReplys
    OBVIOUS
  <2>1. PICK reply : reply = q.reply
    OBVIOUS
  <2>2. reply \in Seq(Marks) /\ q.taken = StripFormatting(reply)
    BY <2>1 DEF RInv, Read
  <2>3. \A body \in {"sql", "cannot"} : Replies(body, reply) => q.taken = <<body>>
    BY <2>2, StripTakesAnswer
  <2>4. reply # <<>> /\ reply[1] = "think" /\ "/think" \notin ToSet(reply) => q.taken = <<>>
    BY <2>2, StripDropsCutOff
  <2> QED
    BY <2>1, <2>3, <2>4 DEF AnswerIsTheReplys
<1> QED
  BY <1>1, SpecRInv, PTL

-------------------------------------------------------------------------------
(* Failures: the line of descent of every class is finite and written out, *)
(* so what Surfaces computes for a class can be read off class by class.   *)

HIDE LoadAssumption

(* The lines of descent, written out. *)
Descent ==
    [ConfigurationError          |-> {"ConfigurationError", "TextToSQLError", "Exception"},
     LLMError                    |-> {"LLMError", "TextToSQLError", "Exception"},
     LLMUnavailableError         |-> {"LLMUnavailableError", "LLMError", "TextToSQLError", "Exception"},
     LLMQuotaExceededError       |-> {"LLMQuotaExceededError", "LLMUnavailableError", "LLMError",
                                      "TextToSQLError", "Exception"},
     LLMResponseError            |-> {"LLMResponseError", "LLMError", "TextToSQLError", "Exception"},
     UnanswerableQuestionError   |-> {"UnanswerableQuestionError", "LLMResponseError", "LLMError",
                                      "TextToSQLError", "Exception"},
     RetrievalError              |-> {"RetrievalError", "TextToSQLError", "Exception"},
     EmbeddingModelMismatchError |-> {"EmbeddingModelMismatchError", "RetrievalError",
                                      "TextToSQLError", "Exception"},
     SQLValidationError          |-> {"SQLValidationError", "TextToSQLError", "Exception"},
     ExecutionError              |-> {"ExecutionError", "TextToSQLError", "Exception"},
     StatementTimeoutError       |-> {"StatementTimeoutError", "ExecutionError", "TextToSQLError",
                                      "Exception"},
     PermissionDeniedError       |-> {"PermissionDeniedError", "ExecutionError", "TextToSQLError",
                                      "Exception"},
     ProfilingError              |-> {"ProfilingError", "TextToSQLError", "Exception"},
     UnknownTableError           |-> {"UnknownTableError", "ProfilingError", "TextToSQLError",
                                      "Exception"},
     TextToSQLError              |-> {"TextToSQLError", "Exception"},
     ValueError                  |-> {"ValueError", "Exception"},
     DriverError                 |-> {"DriverError", "Exception"}]

Under(class, parent) == Parent[class] = parent /\ Descent[class] = {class} \cup Descent[parent]

(* Every line is the class and the line of its parent. *)
LEMMA Hierarchy ==
  /\ Under("ConfigurationError", "TextToSQLError")
  /\ Under("LLMError", "TextToSQLError")
  /\ Under("LLMUnavailableError", "LLMError")
  /\ Under("LLMQuotaExceededError", "LLMUnavailableError")
  /\ Under("LLMResponseError", "LLMError")
  /\ Under("UnanswerableQuestionError", "LLMResponseError")
  /\ Under("RetrievalError", "TextToSQLError")
  /\ Under("EmbeddingModelMismatchError", "RetrievalError")
  /\ Under("SQLValidationError", "TextToSQLError")
  /\ Under("ExecutionError", "TextToSQLError")
  /\ Under("StatementTimeoutError", "ExecutionError")
  /\ Under("PermissionDeniedError", "ExecutionError")
  /\ Under("ProfilingError", "TextToSQLError")
  /\ Under("UnknownTableError", "ProfilingError")
  /\ \A class \in {"TextToSQLError", "ValueError", "DriverError"} :
       Parent[class] = "Exception" /\ Descent[class] = {class, "Exception"}
  /\ Classes = {"ConfigurationError", "LLMError", "LLMUnavailableError",
                 "LLMQuotaExceededError", "LLMResponseError", "UnanswerableQuestionError",
                 "RetrievalError", "EmbeddingModelMismatchError", "SQLValidationError",
                 "ExecutionError", "StatementTimeoutError", "PermissionDeniedError",
                 "ProfilingError", "UnknownTableError", "TextToSQLError",
                 "ValueError", "DriverError"}
<1>1. Under("ConfigurationError", "TextToSQLError")
  BY DEF Under, Parent, Descent
<1>2. Under("LLMError", "TextToSQLError")
  BY DEF Under, Parent, Descent
<1>3. Under("LLMUnavailableError", "LLMError")
  BY DEF Under, Parent, Descent
<1>4. Under("LLMQuotaExceededError", "LLMUnavailableError")
  BY DEF Under, Parent, Descent
<1>5. Under("LLMResponseError", "LLMError")
  BY DEF Under, Parent, Descent
<1>6. Under("UnanswerableQuestionError", "LLMResponseError")
  BY DEF Under, Parent, Descent
<1>7. Under("RetrievalError", "TextToSQLError")
  BY DEF Under, Parent, Descent
<1>8. Under("EmbeddingModelMismatchError", "RetrievalError")
  BY DEF Under, Parent, Descent
<1>9. Under("SQLValidationError", "TextToSQLError")
  BY DEF Under, Parent, Descent
<1>10. Under("ExecutionError", "TextToSQLError")
  BY DEF Under, Parent, Descent
<1>11. Under("StatementTimeoutError", "ExecutionError")
  BY DEF Under, Parent, Descent
<1>12. Under("PermissionDeniedError", "ExecutionError")
  BY DEF Under, Parent, Descent
<1>13. Under("ProfilingError", "TextToSQLError")
  BY DEF Under, Parent, Descent
<1>14. Under("UnknownTableError", "ProfilingError")
  BY DEF Under, Parent, Descent
<1>20. \A class \in {"TextToSQLError", "ValueError", "DriverError"} :
         Parent[class] = "Exception" /\ Descent[class] = {class, "Exception"}
  BY DEF Parent, Descent
<1> QED
  BY <1>1, <1>2, <1>3, <1>4, <1>5, <1>6, <1>7, <1>8, <1>9, <1>10, <1>11, <1>12, <1>13, <1>14, <1>20 DEF Classes, Parent

(* Line is defined by recursion over the hierarchy: some function satisfies *)
(* its equation, so Line does, and it is the one written out.               *)
LEMMA LineUnfolds ==
  \A class \in Classes :
    Line[class] = {class} \cup (IF Parent[class] \in Classes THEN Line[Parent[class]]
                                ELSE {"Exception"})
<1> DEFINE Steps(f) == [class \in Classes |-> {class} \cup (IF Parent[class] \in Classes
                          THEN f[Parent[class]] ELSE {"Exception"})]
<1>1. \A class \in Classes :
        Descent[class] = {class} \cup (IF Parent[class] \in Classes THEN Descent[Parent[class]]
                                       ELSE {"Exception"})
  BY Hierarchy DEF Under
<1>2. Descent = [class \in Classes |-> Descent[class]]
  BY DEF Descent, Classes, Parent
<1>3. Descent = Steps(Descent)
  BY <1>1, <1>2
<1>4. \E f : f = Steps(f)
  BY <1>3
<1>5. Line = Steps(Line)
  BY <1>4 DEF Line
<1> QED
  BY <1>5

LEMMA LineUnder ==
  ASSUME NEW class \in Classes, NEW parent \in Classes, Under(class, parent),
         Line[parent] = Descent[parent]
  PROVE  Line[class] = Descent[class]
BY LineUnfolds DEF Under

LEMMA LineIsDescent == \A class \in Classes : Line[class] = Descent[class]
<1>1. "Exception" \notin Classes
  BY Hierarchy
<1>2. \A class \in {"TextToSQLError", "ValueError", "DriverError"} : Line[class] = Descent[class]
  <2> TAKE class \in {"TextToSQLError", "ValueError", "DriverError"}
  <2>1. class \in Classes /\ Parent[class] = "Exception" /\ Descent[class] = {class, "Exception"}
    BY Hierarchy
  <2> QED
    BY ONLY <1>1, <2>1, LineUnfolds
<1>3. \A class \in {"ConfigurationError", "LLMError", "RetrievalError", "SQLValidationError",
                    "ExecutionError", "ProfilingError"} : Line[class] = Descent[class]
  <2>1. Line["TextToSQLError"] = Descent["TextToSQLError"]
    BY <1>2
  <2> QED
    BY ONLY <2>1, LineUnder, Hierarchy
<1>4. \A class \in {"LLMUnavailableError", "LLMResponseError", "EmbeddingModelMismatchError",
                    "StatementTimeoutError", "PermissionDeniedError", "UnknownTableError"} :
        Line[class] = Descent[class]
  <2>1. \A class \in {"LLMError", "RetrievalError", "ExecutionError", "ProfilingError"} :
          Line[class] = Descent[class]
    BY <1>3
  <2> QED
    BY ONLY <2>1, LineUnder, Hierarchy
<1>5. \A class \in {"LLMQuotaExceededError", "UnanswerableQuestionError"} :
        Line[class] = Descent[class]
  <2>1. \A class \in {"LLMUnavailableError", "LLMResponseError"} : Line[class] = Descent[class]
    BY <1>4
  <2> QED
    BY ONLY <2>1, LineUnder, Hierarchy
<1> QED
  BY ONLY <1>2, <1>3, <1>4, <1>5, Hierarchy

(* The first rule that fits decides. *)
LEMMA FirstFits ==
  ASSUME NEW rules, NEW class, NEW otherwise, DOMAIN rules \subseteq Nat, NEW i \in DOMAIN rules,
         IsInstance(class, rules[i][1]),
         \A j \in DOMAIN rules : j < i => ~IsInstance(class, rules[j][1])
  PROVE  FirstMatch(rules, class, otherwise) = rules[i][2]
<1> DEFINE fits == {j \in DOMAIN rules : IsInstance(class, rules[j][1])}
<1>1. i \in fits /\ \A j \in fits : i <= j
  OBVIOUS
<1>2. \A k \in fits : (\A j \in fits : k <= j) => k = i
  BY <1>1
<1>3. (CHOOSE k \in fits : \A j \in fits : k <= j) = i
  BY <1>1, <1>2
<1> QED
  BY <1>1, <1>3 DEF FirstMatch

LEMMA NoneFits ==
  ASSUME NEW rules, NEW class, NEW otherwise,
         \A j \in DOMAIN rules : ~IsInstance(class, rules[j][1])
  PROVE  FirstMatch(rules, class, otherwise) = otherwise
BY DEF FirstMatch

(* The entry of the documented table that is nearest. *)
LEMMA NearestIs ==
  ASSUME NEW class, NEW c \in Line[class] \cap DOMAIN Documented,
         \A d \in Line[class] \cap DOMAIN Documented : d \in Line[c] /\ (c \in Line[d] => d = c)
  PROVE  NearestCode(class) = Documented[c]
<1> DEFINE listed == Line[class] \cap DOMAIN Documented
<1>1. c \in listed /\ \A d \in listed : d \in Line[c]
  OBVIOUS
<1>2. \A e \in listed : (\A d \in listed : d \in Line[e]) => e = c
  OBVIOUS
<1>3. (CHOOSE e \in listed : \A d \in listed : d \in Line[e]) = c
  BY <1>1, <1>2
<1> QED
  BY <1>1, <1>3 DEF NearestCode

(* The code of every class, written out. *)
Coded(class, code) ==
    code = IF class = "StatementTimeoutError" THEN "query_timeout"
           ELSE IF class \in {"PermissionDeniedError", "SQLValidationError"} THEN "sql_validation_failed"
           ELSE IF class = "LLMQuotaExceededError" THEN "rate_limited"
           ELSE IF class \in {"LLMError", "LLMUnavailableError", "LLMResponseError",
                              "UnanswerableQuestionError"} THEN "llm_unavailable"
           ELSE IF class \in {"RetrievalError", "EmbeddingModelMismatchError"} THEN "ambiguous_question"
           ELSE "internal_error"

(* "Two renderers, one rule": the code of a class is the documented one of  *)
(* the nearest class that has one, but for an error of the driver.          *)
LEMMA CodesAgree ==
  ASSUME NEW class \in Classes
  PROVE  /\ class # "DriverError" => CodeFor(class) = NearestCode(class)
         /\ CodeFor(class) \in DOMAIN Status /\ Coded(class, CodeFor(class))
<1> DEFINE rules == << <<"StatementTimeoutError", "query_timeout">>,
                       <<"PermissionDeniedError", "sql_validation_failed">>,
                       <<"SQLValidationError", "sql_validation_failed">>,
                       <<"LLMQuotaExceededError", "rate_limited">>,
                       <<"LLMError", "llm_unavailable">>,
                       <<"RetrievalError", "ambiguous_question">>,
                       <<"ConfigurationError", "internal_error">> >>
           bases == {"StatementTimeoutError", "PermissionDeniedError", "SQLValidationError",
                     "LLMQuotaExceededError", "LLMError", "RetrievalError", "TextToSQLError",
                     "DriverError"}
<1>1. CodeFor(class) = FirstMatch(rules, class, "internal_error")
  BY DEF CodeFor
<1>2. /\ DOMAIN rules = 1 .. 7
      /\ rules[1] = <<"StatementTimeoutError", "query_timeout">>
      /\ rules[2] = <<"PermissionDeniedError", "sql_validation_failed">>
      /\ rules[3] = <<"SQLValidationError", "sql_validation_failed">>
      /\ rules[4] = <<"LLMQuotaExceededError", "rate_limited">>
      /\ rules[5] = <<"LLMError", "llm_unavailable">>
      /\ rules[6] = <<"RetrievalError", "ambiguous_question">>
      /\ rules[7] = <<"ConfigurationError", "internal_error">>
  OBVIOUS
<1> HIDE DEF rules
<1>3. /\ DOMAIN Documented = bases
      /\ Documented["StatementTimeoutError"] = "query_timeout"
      /\ Documented["PermissionDeniedError"] = "sql_validation_failed"
      /\ Documented["SQLValidationError"] = "sql_validation_failed"
      /\ Documented["LLMQuotaExceededError"] = "rate_limited"
      /\ Documented["LLMError"] = "llm_unavailable"
      /\ Documented["RetrievalError"] = "ambiguous_question"
      /\ Documented["TextToSQLError"] = "internal_error"
  BY DEF Documented
<1>4. DOMAIN Status = {"query_timeout", "sql_validation_failed", "ambiguous_question",
                       "rate_limited", "internal_error", "llm_unavailable"}
  BY DEF Status
<1>5. \A base \in bases : base \in Classes /\ Line[base] = Descent[base]
  BY LineIsDescent, Hierarchy
<1>6. Line[class] = Descent[class]
  BY LineIsDescent
<1>7. ASSUME class \in {"StatementTimeoutError"}
      PROVE  CodeFor(class) = "query_timeout" /\ NearestCode(class) = "query_timeout"
  <2>1. /\ "StatementTimeoutError" \in Line[class] \cap bases
        /\ Line[class] \cap bases = Line["StatementTimeoutError"] \cap bases
    BY <1>7, <1>5, <1>6, Hierarchy DEF Under
  <2>2. \A d \in Line[class] \cap bases : "StatementTimeoutError" \in Line[d] => d = "StatementTimeoutError"
    BY <2>1, <1>5, Hierarchy DEF Under
  <2>3. NearestCode(class) = "query_timeout"
    BY <2>1, <2>2, <1>3, NearestIs
  <2>4. \A j \in 1 .. 0 : ~IsInstance(class, rules[j][1])
    BY <2>1, <1>2, <1>5, Hierarchy DEF Under, IsInstance
  <2> QED
    BY <2>1, <2>3, <2>4, <1>1, <1>2, FirstFits DEF IsInstance
<1>8. ASSUME class \in {"PermissionDeniedError"}
      PROVE  CodeFor(class) = "sql_validation_failed" /\ NearestCode(class) = "sql_validation_failed"
  <2>1. /\ "PermissionDeniedError" \in Line[class] \cap bases
        /\ Line[class] \cap bases = Line["PermissionDeniedError"] \cap bases
    BY <1>8, <1>5, <1>6, Hierarchy DEF Under
  <2>2. \A d \in Line[class] \cap bases : "PermissionDeniedError" \in Line[d] => d = "PermissionDeniedError"
    BY <2>1, <1>5, Hierarchy DEF Under
  <2>3. NearestCode(class) = "sql_validation_failed"
    BY <2>1, <2>2, <1>3, NearestIs
  <2>4. \A j \in 1 .. 1 : ~IsInstance(class, rules[j][1])
    BY <2>1, <1>2, <1>5, Hierarchy DEF Under, IsInstance
  <2> QED
    BY <2>1, <2>3, <2>4, <1>1, <1>2, FirstFits DEF IsInstance
<1>9. ASSUME class \in {"SQLValidationError"}
      PROVE  CodeFor(class) = "sql_validation_failed" /\ NearestCode(class) = "sql_validation_failed"
  <2>1. /\ "SQLValidationError" \in Line[class] \cap bases
        /\ Line[class] \cap bases = Line["SQLValidationError"] \cap bases
    BY <1>9, <1>5, <1>6, Hierarchy DEF Under
  <2>2. \A d \in Line[class] \cap bases : "SQLValidationError" \in Line[d] => d = "SQLValidationError"
    BY <2>1, <1>5, Hierarchy DEF Under
  <2>3. NearestCode(class) = "sql_validation_failed"
    BY <2>1, <2>2, <1>3, NearestIs
  <2>4. \A j \in 1 .. 2 : ~IsInstance(class, rules[j][1])
    BY <2>1, <1>2, <1>5, Hierarchy DEF Under, IsInstance
  <2> QED
    BY <2>1, <2>3, <2>4, <1>1, <1>2, FirstFits DEF IsInstance
<1>10. ASSUME class \in {"LLMQuotaExceededError"}
      PROVE  CodeFor(class) = "rate_limited" /\ NearestCode(class) = "rate_limited"
  <2>1. /\ "LLMQuotaExceededError" \in Line[class] \cap bases
        /\ Line[class] \cap bases = Line["LLMQuotaExceededError"] \cap bases
    BY <1>10, <1>5, <1>6, Hierarchy DEF Under
  <2>2. \A d \in Line[class] \cap bases : "LLMQuotaExceededError" \in Line[d] => d = "LLMQuotaExceededError"
    BY <2>1, <1>5, Hierarchy DEF Under
  <2>3. NearestCode(class) = "rate_limited"
    BY <2>1, <2>2, <1>3, NearestIs
  <2>4. \A j \in 1 .. 3 : ~IsInstance(class, rules[j][1])
    BY <2>1, <1>2, <1>5, Hierarchy DEF Under, IsInstance
  <2> QED
    BY <2>1, <2>3, <2>4, <1>1, <1>2, FirstFits DEF IsInstance
<1>11. ASSUME class \in {"LLMError", "LLMUnavailableError", "LLMResponseError", "UnanswerableQuestionError"}
      PROVE  CodeFor(class) = "llm_unavailable" /\ NearestCode(class) = "llm_unavailable"
  <2>1. /\ "LLMError" \in Line[class] \cap bases
        /\ Line[class] \cap bases = Line["LLMError"] \cap bases
    BY <1>11, <1>5, <1>6, Hierarchy DEF Under
  <2>2. \A d \in Line[class] \cap bases : "LLMError" \in Line[d] => d = "LLMError"
    BY <2>1, <1>5, Hierarchy DEF Under
  <2>3. NearestCode(class) = "llm_unavailable"
    BY <2>1, <2>2, <1>3, NearestIs
  <2>4. \A j \in 1 .. 4 : ~IsInstance(class, rules[j][1])
    BY <2>1, <1>2, <1>5, Hierarchy DEF Under, IsInstance
  <2> QED
    BY <2>1, <2>3, <2>4, <1>1, <1>2, FirstFits DEF IsInstance
<1>12. ASSUME class \in {"RetrievalError", "EmbeddingModelMismatchError"}
      PROVE  CodeFor(class) = "ambiguous_question" /\ NearestCode(class) = "ambiguous_question"
  <2>1. /\ "RetrievalError" \in Line[class] \cap bases
        /\ Line[class] \cap bases = Line["RetrievalError"] \cap bases
    BY <1>12, <1>5, <1>6, Hierarchy DEF Under
  <2>2. \A d \in Line[class] \cap bases : "RetrievalError" \in Line[d] => d = "RetrievalError"
    BY <2>1, <1>5, Hierarchy DEF Under
  <2>3. NearestCode(class) = "ambiguous_question"
    BY <2>1, <2>2, <1>3, NearestIs
  <2>4. \A j \in 1 .. 5 : ~IsInstance(class, rules[j][1])
    BY <2>1, <1>2, <1>5, Hierarchy DEF Under, IsInstance
  <2> QED
    BY <2>1, <2>3, <2>4, <1>1, <1>2, FirstFits DEF IsInstance
<1>13. ASSUME class \in {"ConfigurationError", "ExecutionError", "ProfilingError",
                       "UnknownTableError", "TextToSQLError", "ValueError", "DriverError"}
       PROVE  /\ CodeFor(class) = "internal_error"
              /\ class # "DriverError" => NearestCode(class) = "internal_error"
  <2>1. Line[class] \cap bases \subseteq {"TextToSQLError", "DriverError"}
    BY <1>13, <1>6, Hierarchy DEF Under
  <2>2. \A j \in 1 .. 6 : ~IsInstance(class, rules[j][1])
    BY <2>1, <1>2 DEF IsInstance
  <2>3. CodeFor(class) = "internal_error"
    <3>1. CASE IsInstance(class, "ConfigurationError")
      BY <3>1, <2>2, <1>1, <1>2, FirstFits
    <3>2. CASE ~IsInstance(class, "ConfigurationError")
      BY <3>2, <2>2, <1>1, <1>2, NoneFits
    <3> QED
      BY <3>1, <3>2
  <2>4. ASSUME class # "DriverError" PROVE NearestCode(class) = "internal_error"
    <3>0. "DriverError" \notin Line[class]
      BY <1>13, <1>6, <2>4, Hierarchy DEF Under
    <3>1. CASE "TextToSQLError" \in Line[class]
      <4>1. "TextToSQLError" \in Line["TextToSQLError"]
        BY <1>5, Hierarchy
      <4> QED
        BY <4>1, <3>0, <3>1, <2>1, <1>3, NearestIs
    <3>2. CASE "TextToSQLError" \notin Line[class]
      <4>1. Line[class] \cap DOMAIN Documented = {}
        BY <3>0, <3>2, <2>1, <1>3
      <4> QED
        BY ONLY <4>1 DEF NearestCode
    <3> QED
      BY <3>1, <3>2
  <2> QED
    BY <2>3, <2>4
<1> QED
  BY <1>7, <1>8, <1>9, <1>10, <1>11, <1>12, <1>13, <1>4, Hierarchy DEF Coded

(* The error_type of every class, written out. *)
Typed(class, own, type) ==
    type = IF class = "StatementTimeoutError" THEN "statement_timeout"
           ELSE IF class = "PermissionDeniedError" THEN "permission_denied"
           ELSE IF class = "UnknownTableError" THEN "table_not_found"
           ELSE IF class = "SQLValidationError" THEN own
           ELSE IF class = "EmbeddingModelMismatchError" THEN "connection_failed"
           ELSE IF class \in {"ProfilingError", "RetrievalError"} THEN "invalid_arguments"
           ELSE IF class = "ExecutionError" THEN "execution_failed"
           ELSE "internal_error"

LEMMA TypesAre ==
  ASSUME NEW class \in Classes, NEW own
  PROVE  Typed(class, own, ErrorType(class, own))
<1> DEFINE rules == << <<"StatementTimeoutError", "statement_timeout">>,
                       <<"PermissionDeniedError", "permission_denied">>,
                       <<"UnknownTableError", "table_not_found">>,
                       <<"SQLValidationError", own>>,
                       <<"EmbeddingModelMismatchError", "connection_failed">>,
                       <<"ProfilingError", "invalid_arguments">>,
                       <<"RetrievalError", "invalid_arguments">>,
                       <<"ExecutionError", "execution_failed">> >>
<1>1. ErrorType(class, own) = FirstMatch(rules, class, "internal_error")
  BY DEF ErrorType
<1>2. /\ DOMAIN rules = 1 .. 8
      /\ rules[1] = <<"StatementTimeoutError", "statement_timeout">>
      /\ rules[2] = <<"PermissionDeniedError", "permission_denied">>
      /\ rules[3] = <<"UnknownTableError", "table_not_found">>
      /\ rules[4] = <<"SQLValidationError", own>>
      /\ rules[5] = <<"EmbeddingModelMismatchError", "connection_failed">>
      /\ rules[6] = <<"ProfilingError", "invalid_arguments">>
      /\ rules[7] = <<"RetrievalError", "invalid_arguments">>
      /\ rules[8] = <<"ExecutionError", "execution_failed">>
  OBVIOUS
<1> HIDE DEF rules
<1>3. Line[class] = Descent[class]
  BY LineIsDescent
<1>4. ASSUME NEW i \in DOMAIN rules, NEW base, NEW type, rules[i] = <<base, type>>,
             base \in Line[class],
             \A j \in DOMAIN rules : j < i => rules[j][1] \notin Line[class]
      PROVE  ErrorType(class, own) = type
  <2>1. rules[i][1] = base /\ rules[i][2] = type
    BY <1>4
  <2> QED
    BY <1>1, <1>2, <1>4, <2>1, FirstFits DEF IsInstance
<1>5. CASE class = "StatementTimeoutError"
  <2>1. class \in Line[class]
    BY <1>3, <1>5, Hierarchy DEF Under
  <2> QED
    BY <1>2, <1>4, <1>5, <2>1 DEF Typed
<1>6. CASE class = "PermissionDeniedError"
  <2>1. class \in Line[class] /\ "StatementTimeoutError" \notin Line[class]
    BY <1>3, <1>6, Hierarchy DEF Under
  <2> QED
    BY <1>2, <1>4, <1>6, <2>1 DEF Typed
<1>7. CASE class = "UnknownTableError"
  <2>1. /\ class \in Line[class]
        /\ {"StatementTimeoutError", "PermissionDeniedError"} \cap Line[class] = {}
    BY <1>3, <1>7, Hierarchy DEF Under
  <2> QED
    BY <1>2, <1>4, <1>7, <2>1 DEF Typed
<1>8. CASE class = "SQLValidationError"
  <2>1. /\ class \in Line[class]
        /\ {"StatementTimeoutError", "PermissionDeniedError", "UnknownTableError"} \cap Line[class] = {}
    BY <1>3, <1>8, Hierarchy DEF Under
  <2> QED
    BY <1>2, <1>4, <1>8, <2>1 DEF Typed
<1>9. CASE class = "EmbeddingModelMismatchError"
  <2>1. /\ class \in Line[class]
        /\ {"StatementTimeoutError", "PermissionDeniedError", "UnknownTableError",
            "SQLValidationError"} \cap Line[class] = {}
    BY <1>3, <1>9, Hierarchy DEF Under
  <2> QED
    BY <1>2, <1>4, <1>9, <2>1 DEF Typed
<1>10. CASE class = "ProfilingError"
  <2>1. /\ class \in Line[class]
        /\ {"StatementTimeoutError", "PermissionDeniedError", "UnknownTableError",
            "SQLValidationError", "EmbeddingModelMismatchError"} \cap Line[class] = {}
    BY <1>3, <1>10, Hierarchy DEF Under
  <2> QED
    BY <1>2, <1>4, <1>10, <2>1 DEF Typed
<1>11. CASE class = "RetrievalError"
  <2>1. /\ class \in Line[class]
        /\ {"StatementTimeoutError", "PermissionDeniedError", "UnknownTableError",
            "SQLValidationError", "EmbeddingModelMismatchError", "ProfilingError"} \cap Line[class] = {}
    BY <1>3, <1>11, Hierarchy DEF Under
  <2> QED
    BY <1>2, <1>4, <1>11, <2>1 DEF Typed
<1>12. CASE class = "ExecutionError"
  <2>1. /\ class \in Line[class]
        /\ {"StatementTimeoutError", "PermissionDeniedError", "UnknownTableError",
            "SQLValidationError", "EmbeddingModelMismatchError", "ProfilingError",
            "RetrievalError"} \cap Line[class] = {}
    BY <1>3, <1>12, Hierarchy DEF Under
  <2> QED
    BY <1>2, <1>4, <1>12, <2>1 DEF Typed
<1>13. CASE class \in {"ConfigurationError", "LLMError", "LLMUnavailableError",
                       "LLMQuotaExceededError", "LLMResponseError", "UnanswerableQuestionError",
                       "TextToSQLError", "ValueError", "DriverError"}
  <2>1. {"StatementTimeoutError", "PermissionDeniedError", "UnknownTableError",
         "SQLValidationError", "EmbeddingModelMismatchError", "ProfilingError",
         "RetrievalError", "ExecutionError"} \cap Line[class] = {}
    BY <1>3, <1>13, Hierarchy DEF Under
  <2>2. \A j \in DOMAIN rules : ~IsInstance(class, rules[j][1])
    BY <1>2, <2>1 DEF IsInstance
  <2>3. ErrorType(class, own) = "internal_error"
    BY <1>1, <2>2, NoneFits
  <2> QED
    BY <1>13, <2>3 DEF Typed
<1> QED
  BY <1>5, <1>6, <1>7, <1>8, <1>9, <1>10, <1>11, <1>12, <1>13, Hierarchy

(* What the API makes of a failure, by either way. *)
LEMMA PlainIsStream ==
  ASSUME NEW class \in Classes
  PROVE  /\ PlainAnswer(class) = StreamAnswer(class)
         /\ PlainAnswer(class).code = CodeFor(class)
         /\ CodeFor(class) = "internal_error" => PlainAnswer(class).message = "generic"
<1> DEFINE clauses == << <<"SQLValidationError", Rejected>>,
                         <<"TextToSQLError", Published(class)>> >>
<1>1. StreamAnswer(class) = FirstMatch(clauses, class, Unhandled)
  BY DEF StreamAnswer
<1>2. /\ DOMAIN clauses = {1, 2} /\ clauses[1] = <<"SQLValidationError", Rejected>>
      /\ clauses[2] = <<"TextToSQLError", Published(class)>>
  OBVIOUS
<1>3. /\ clauses[1][1] = "SQLValidationError" /\ clauses[1][2] = Rejected
      /\ clauses[2][1] = "TextToSQLError" /\ clauses[2][2] = Published(class)
  BY <1>2
<1> HIDE DEF clauses
<1>4. Coded(class, CodeFor(class))
  BY CodesAgree
<1>5. CASE IsInstance(class, "SQLValidationError")
  <2>1. class = "SQLValidationError"
    BY <1>5, LineIsDescent, Hierarchy DEF Under, IsInstance
  <2>2. CodeFor(class) = "sql_validation_failed"
    BY <1>4, <2>1 DEF Coded
  <2>3. PlainAnswer(class) = Rejected /\ Rejected.code = "sql_validation_failed"
    BY <1>5 DEF PlainAnswer, Rejected
  <2>4. StreamAnswer(class) = Rejected
    BY <1>1, <1>2, <1>3, <1>5, FirstFits
  <2> QED
    BY <2>2, <2>3, <2>4
<1>6. CASE ~IsInstance(class, "SQLValidationError") /\ IsInstance(class, "TextToSQLError")
  <2>1. PlainAnswer(class) = Published(class)
    BY <1>6 DEF PlainAnswer
  <2>2. /\ Published(class).code = CodeFor(class)
        /\ CodeFor(class) = "internal_error" => Published(class).message = "generic"
    BY DEF Published
  <2>3. StreamAnswer(class) = Published(class)
    BY <1>1, <1>2, <1>3, <1>6, FirstFits
  <2> QED
    BY <2>1, <2>2, <2>3
<1>7. CASE ~IsInstance(class, "SQLValidationError") /\ ~IsInstance(class, "TextToSQLError")
  <2>1. PlainAnswer(class) = Unhandled
    BY <1>7 DEF PlainAnswer
  <2>2. Unhandled.code = "internal_error" /\ Unhandled.message = "generic"
    BY DEF Unhandled
  <2>3. StreamAnswer(class) = Unhandled
    BY <1>1, <1>2, <1>3, <1>7, NoneFits
  <2>4. class \in {"ValueError", "DriverError"}
    BY <1>7, LineIsDescent, Hierarchy DEF Under, IsInstance
  <2>5. CodeFor(class) = "internal_error"
    BY <1>4, <2>4 DEF Coded
  <2> QED
    BY <2>1, <2>2, <2>3, <2>5
<1> QED
  BY <1>5, <1>6, <1>7

(* What a tool makes of it. *)
LEMMA ToolAgrees ==
  ASSUME NEW class \in Classes, NEW own \in RejectionTypes
  PROVE  /\ <<CodeFor(class), Dispatch(TRUE, class, own).error_type>> \in SameCause
         /\ Dispatch(TRUE, class, own).ok = FALSE
         /\ "TextToSQLError" \notin Line[class] => Dispatch(TRUE, class, own).message = "generic"
<1>1. class # "none"
  BY Hierarchy
<1>2. PICK code, type : code = CodeFor(class) /\ type = ErrorType(class, own)
  OBVIOUS
<1>3. Coded(class, code) /\ Typed(class, own, type)
  BY <1>2, CodesAgree, TypesAre
<1>4. CASE "TextToSQLError" \in Line[class]
  <2>1. /\ Dispatch(TRUE, class, own).ok = FALSE
        /\ Dispatch(TRUE, class, own).error_type = type
    BY <1>1, <1>2, <1>4 DEF Dispatch, ErrorPayload, IsInstance
  <2>2. <<code, type>> \in SameCause
    <3>1. CASE class = "SQLValidationError"
      BY <1>3, <3>1 DEF Coded, Typed, SameCause
    <3>2. CASE class \in {"StatementTimeoutError", "PermissionDeniedError"}
      BY <1>3, <3>2 DEF Coded, Typed, SameCause
    <3>3. CASE class \in {"LLMQuotaExceededError", "LLMError", "LLMUnavailableError",
                          "LLMResponseError", "UnanswerableQuestionError"}
      BY <1>3, <3>3 DEF Coded, Typed, SameCause
    <3>4. CASE class \in {"RetrievalError", "EmbeddingModelMismatchError"}
      BY <1>3, <3>4 DEF Coded, Typed, SameCause
    <3>5. CASE class \in {"ConfigurationError", "ExecutionError", "ProfilingError",
                          "UnknownTableError", "TextToSQLError", "ValueError", "DriverError"}
      BY <1>3, <3>5 DEF Coded, Typed, SameCause
    <3> QED
      BY <3>1, <3>2, <3>3, <3>4, <3>5, Hierarchy
  <2> QED
    BY <1>2, <1>4, <2>1, <2>2
<1>5. CASE "TextToSQLError" \notin Line[class]
  <2>1. Dispatch(TRUE, class, own) =
          [ok |-> FALSE, error_type |-> "internal_error", message |-> "generic"]
    BY <1>1, <1>5 DEF Dispatch, IsInstance
  <2>2. class \in {"ValueError", "DriverError"}
    BY <1>5, LineIsDescent, Hierarchy DEF Under
  <2>3. code = "internal_error"
    BY <1>3, <2>2 DEF Coded
  <2>4. PICK said : said = "internal_error"
    OBVIOUS
  <2>5. <<code, said>> \in SameCause
    BY <2>3, <2>4 DEF SameCause
  <2>6. PICK payload : payload = Dispatch(TRUE, class, own)
    OBVIOUS
  <2>7. payload = [ok |-> FALSE, error_type |-> said, message |-> "generic"]
    BY <2>1, <2>4, <2>6
  <2>8. payload.ok = FALSE /\ payload.error_type = said /\ payload.message = "generic"
    BY <2>7
  <2>9. <<CodeFor(class), payload.error_type>> \in SameCause
    BY <1>2, <2>5, <2>8
  <2> QED
    BY <2>6, <2>8, <2>9
<1> QED
  BY <1>4, <1>5

(* What is claimed of a class, and how it is rendered. *)
Agreed(class) ==
    /\ PlainAnswer(class) = StreamAnswer(class) /\ PlainAnswer(class).code \in DOMAIN Status
    /\ class # "DriverError" => PlainAnswer(class).code = NearestCode(class)
    /\ PlainAnswer(class).code = "internal_error" => PlainAnswer(class).message = "generic"
    /\ \A own \in RejectionTypes :
         LET tool == CallResult(Dispatch(TRUE, class, own)) IN
         /\ <<PlainAnswer(class).code, tool.payload.error_type>> \in SameCause
         /\ tool.isError
         /\ "TextToSQLError" \notin Line[class] => tool.payload.message = "generic"

(* What every renderer makes of a failure, whatever its class. *)
LEMMA RenderersAgree ==
  ASSUME NEW class \in Classes
  PROVE  Agreed(class)
<1>1. /\ PlainAnswer(class) = StreamAnswer(class)
      /\ PlainAnswer(class).code = CodeFor(class)
      /\ CodeFor(class) = "internal_error" => PlainAnswer(class).message = "generic"
  BY PlainIsStream
<1>2. ASSUME NEW own \in RejectionTypes
      PROVE  LET tool == CallResult(Dispatch(TRUE, class, own)) IN
             /\ <<PlainAnswer(class).code, tool.payload.error_type>> \in SameCause
             /\ tool.isError
             /\ "TextToSQLError" \notin Line[class] => tool.payload.message = "generic"
  <2>1. PICK payload : payload = Dispatch(TRUE, class, own)
    OBVIOUS
  <2>2. /\ CallResult(payload).isError = ~payload.ok
        /\ CallResult(payload).payload = payload
    BY DEF CallResult
  <2>3. /\ <<CodeFor(class), payload.error_type>> \in SameCause /\ payload.ok = FALSE
        /\ "TextToSQLError" \notin Line[class] => payload.message = "generic"
    BY <2>1, ToolAgrees
  <2> QED
    BY <1>1, <2>1, <2>2, <2>3
<1>3. /\ CodeFor(class) \in DOMAIN Status
      /\ class # "DriverError" => CodeFor(class) = NearestCode(class)
  BY CodesAgree
<1> QED
  BY <1>1, <1>2, <1>3 DEF Agreed

-------------------------------------------------------------------------------
(* What is picked from a sequence, and what a Counter counts: two sequences *)
(* have the same counts exactly when one is the other in some order.       *)

(* The members of a finite set of numbers, counted off in order. *)
Rank(at, i) == Cardinality({j \in at : j <= i})

LEMMA RanksAre ==
  ASSUME NEW at \in SUBSET Int, IsFiniteSet(at)
  PROVE  /\ Cardinality(at) \in Nat
         /\ \A i \in at : Rank(at, i) \in 1 .. Cardinality(at)
         /\ \A i, k \in at : Rank(at, i) = Rank(at, k) => i = k
         /\ \A n \in 1 .. Cardinality(at) : \E i \in at : Rank(at, i) = n
<1>1. Cardinality(at) \in Nat
  BY FS_CardinalityType
<1>2. \A i \in Int : /\ IsFiniteSet({j \in at : j <= i})
                     /\ Rank(at, i) \in Nat /\ Rank(at, i) <= Cardinality(at)
  <2> TAKE i \in Int
  <2> DEFINE upTo == {j \in at : j <= i}
  <2>1. upTo \in SUBSET at
    OBVIOUS
  <2> HIDE DEF upTo
  <2>2. IsFiniteSet(upTo) /\ Cardinality(upTo) <= Cardinality(at)
    BY <2>1, FS_Subset
  <2>3. Cardinality(upTo) \in Nat
    BY <2>2, FS_CardinalityType
  <2> QED
    BY <2>2, <2>3 DEF upTo, Rank
<1>3. ASSUME NEW i \in at PROVE Rank(at, i) \in 1 .. Cardinality(at)
  <2> DEFINE upTo == {j \in at : j <= i}
  <2>1. i \in upTo
    OBVIOUS
  <2>2. Cardinality(upTo) # 0
    BY <2>1, <1>2, FS_EmptySet
  <2> QED
    BY <2>2, <1>1, <1>2 DEF Rank
<1>4. ASSUME NEW i \in at, NEW k \in at, i < k PROVE Rank(at, i) # Rank(at, k)
  <2> DEFINE low == {j \in at : j <= i}
             high == {j \in at : j <= k}
  <2>1. low \in SUBSET high /\ k \in high /\ k \notin low
    <3>1. i \in Int /\ k \in Int /\ i < k
      BY <1>4
    <3>2. \A j \in at : j \in Int
      OBVIOUS
    <3>3. \A j \in low : j \in high
      BY <3>1, <3>2
    <3>4. k \in high /\ k \notin low
      BY <3>1
    <3> QED
      BY <3>3, <3>4
  <2>2. IsFiniteSet(high)
    BY <1>2
  <2>3. Cardinality(low) # Cardinality(high)
    <3> HIDE DEF low, high
    <3> QED
      BY <2>1, <2>2, FS_Subset
  <2> QED
    BY <2>3 DEF Rank
<1>5. \A i, k \in at : Rank(at, i) = Rank(at, k) => i = k
  BY <1>4
<1>6. \A n \in 1 .. Cardinality(at) : \E i \in at : Rank(at, i) = n
  <2> DEFINE places == 1 .. Cardinality(at)
             f == [i \in at |-> Rank(at, i)]
  <2>1. f \in Injection(at, places)
    BY <1>3, <1>5 DEF Injection, IsInjective
  <2>2. IsFiniteSet(places) /\ Cardinality(places) = Cardinality(at)
    BY <1>1, FS_Interval
  <2>3. f \in Surjection(at, places)
    <3> HIDE DEF places, f
    <3> QED
      BY <2>1, <2>2, FS_Injection
  <2> QED
    BY <2>3 DEF Surjection
<1> QED
  BY <1>1, <1>3, <1>5, <1>6

LEMMA PickedAre ==
  ASSUME NEW s, NEW at \in SUBSET Int, IsFiniteSet(at)
  PROVE  /\ Picked(s, at) \in Seq({s[i] : i \in at})
         /\ Len(Picked(s, at)) = Cardinality(at) /\ Cardinality(at) \in Nat
         /\ \A i \in at : \E n \in DOMAIN Picked(s, at) : Picked(s, at)[n] = s[i]
         /\ Picked(s, at) = <<>> <=> at = {}
<1> DEFINE p == Picked(s, at)
           place(n) == CHOOSE i \in at : Rank(at, i) = n
<1>1. /\ Cardinality(at) \in Nat
      /\ p = [n \in 1 .. Cardinality(at) |-> s[place(n)]]
  BY RanksAre DEF Picked, Rank
<1>2. \A n \in 1 .. Cardinality(at) : place(n) \in at /\ Rank(at, place(n)) = n
  BY RanksAre
<1>3. p \in Seq({s[i] : i \in at})
  <2> DEFINE range == {s[i] : i \in at}
  <2>1. \A n \in 1 .. Cardinality(at) : s[place(n)] \in range
    BY <1>2
  <2> HIDE DEF range, place
  <2>2. p \in [1 .. Cardinality(at) -> range]
    BY <2>1, <1>1
  <2> HIDE DEF p
  <2> QED
    BY <2>2, <1>1 DEF range
<1>4. Len(p) = Cardinality(at)
  BY <1>1
<1>5. \A i \in at : \E n \in DOMAIN p : p[n] = s[i]
  <2> TAKE i \in at
  <2>1. Rank(at, i) \in 1 .. Cardinality(at)
    BY RanksAre
  <2>2. place(Rank(at, i)) = i
    BY <2>1, <1>2, RanksAre
  <2>3. PICK n \in 1 .. Cardinality(at) : n = Rank(at, i) /\ place(n) = i
    BY <2>1, <2>2
  <2>4. DOMAIN p = 1 .. Cardinality(at) /\ p[n] = s[place(n)]
    BY <1>1
  <2> QED
    BY <2>3, <2>4
<1>6. p = <<>> <=> at = {}
  <2>1. p = <<>> <=> Cardinality(at) = 0
    BY <1>1, <1>4
  <2> QED
    BY <2>1, FS_EmptySet
<1> QED
  BY <1>1, <1>3, <1>4, <1>5, <1>6

(* Where a value is. *)
Places(xs, x) == {i \in DOMAIN xs : xs[i] = x}

LEMMA PlacesFinite ==
  ASSUME NEW xs, IsFiniteSet(DOMAIN xs)
  PROVE  \A x : IsFiniteSet(Places(xs, x)) /\ Cardinality(Places(xs, x)) \in Nat
<1> TAKE x
<1>2. Places(xs, x) \in SUBSET (DOMAIN xs)
  BY DEF Places
<1>3. IsFiniteSet(Places(xs, x))
  BY <1>2, FS_Subset
<1> QED
  BY <1>3, FS_CardinalityType

LEMMA CountedIs ==
  ASSUME NEW xs
  PROVE  \A y : /\ y \in DOMAIN Multiset(xs) <=> \E i \in DOMAIN xs : xs[i] = y
                /\ \A i \in DOMAIN xs : xs[i] = y =>
                     Multiset(xs)[y] = Cardinality(Places(xs, y))
<1>1. \A y : y \in ToSet(xs) <=> \E i \in DOMAIN xs : xs[i] = y
  BY DEF ToSet
<1>2. /\ DOMAIN Multiset(xs) = ToSet(xs)
      /\ \A y \in ToSet(xs) : Multiset(xs)[y] = Cardinality(Places(xs, y))
  BY DEF Multiset, Places
<1> QED
  BY <1>1, <1>2

(* The same values as often as in another sequence: one is the other in     *)
(* some order.                                                              *)
LEMMA SameCountsPermute ==
  ASSUME NEW xs, NEW ys, IsFiniteSet(DOMAIN xs), DOMAIN ys = DOMAIN xs,
         Multiset(xs) = Multiset(ys)
  PROVE  \E p \in [DOMAIN xs -> DOMAIN xs] : IsInjective(p) /\ \A i \in DOMAIN xs : xs[p[i]] = ys[i]
<1> DEFINE match(y) == CHOOSE f \in Bijection(Places(ys, y), Places(xs, y)) : TRUE
           p == [i \in DOMAIN xs |-> match(ys[i])[i]]
<1>1. \A i \in DOMAIN xs : match(ys[i]) \in Bijection(Places(ys, ys[i]), Places(xs, ys[i]))
  <2> TAKE i \in DOMAIN xs
  <2>1. PICK y : y = ys[i]
    OBVIOUS
  <2>2. y \in DOMAIN Multiset(xs) /\ Multiset(xs)[y] = Cardinality(Places(ys, y))
    BY <2>1, CountedIs
  <2>3. PICK k \in DOMAIN xs : xs[k] = y
    BY <2>2, CountedIs
  <2>4. Cardinality(Places(xs, y)) = Cardinality(Places(ys, y))
    BY <2>2, <2>3, CountedIs
  <2>5. ExistsBijection(Places(ys, y), Places(xs, y))
    BY <2>4, PlacesFinite, FS_SameCardinalityBij
  <2> QED
    BY <2>1, <2>5 DEF ExistsBijection
<1>2. \A i \in DOMAIN xs : i \in Places(ys, ys[i])
  BY DEF Places
<1>3. \A i \in DOMAIN xs : match(ys[i])[i] \in Places(xs, ys[i])
  BY <1>1, <1>2 DEF Bijection, Injection
<1>4. \A i \in DOMAIN xs : p[i] \in DOMAIN xs /\ xs[p[i]] = ys[i]
  BY <1>3 DEF Places
<1>5. ASSUME NEW i \in DOMAIN xs, NEW j \in DOMAIN xs, p[i] = p[j] PROVE i = j
  <2>1. ys[i] = ys[j]
    BY <1>4, <1>5
  <2>2. PICK f : f = match(ys[i])
    OBVIOUS
  <2>3. f \in Injection(Places(ys, ys[i]), Places(xs, ys[i])) /\ f[i] = f[j]
    BY <1>1, <1>5, <2>1, <2>2 DEF Bijection
  <2>4. i \in Places(ys, ys[i]) /\ j \in Places(ys, ys[i])
    BY <1>2, <2>1
  <2> QED
    BY <2>3, <2>4 DEF Injection, IsInjective
<1>6. p \in [DOMAIN xs -> DOMAIN xs] /\ IsInjective(p)
  BY <1>4, <1>5 DEF IsInjective
<1> QED
  BY <1>4, <1>6

(* ... and the other way round. *)
LEMMA PermutedCountsSame ==
  ASSUME NEW xs, NEW ys, IsFiniteSet(DOMAIN xs), DOMAIN ys = DOMAIN xs,
         NEW p \in [DOMAIN xs -> DOMAIN xs], IsInjective(p), \A i \in DOMAIN xs : xs[p[i]] = ys[i]
  PROVE  Multiset(xs) = Multiset(ys)
<1>1. \A k \in DOMAIN xs : \E i \in DOMAIN xs : p[i] = k
  <2>1. p \in Injection(DOMAIN xs, DOMAIN xs)
    BY DEF Injection
  <2>3. p \in Surjection(DOMAIN xs, DOMAIN xs)
    BY <2>1, FS_Injection
  <2> QED
    BY <2>3 DEF Surjection
<1>2. DOMAIN Multiset(xs) = DOMAIN Multiset(ys)
  <2>1. \A y : (\E i \in DOMAIN xs : xs[i] = y) <=> \E i \in DOMAIN xs : ys[i] = y
    <3> TAKE y
    <3>1. ASSUME NEW i \in DOMAIN xs, ys[i] = y PROVE \E k \in DOMAIN xs : xs[k] = y
      <4>1. p[i] \in DOMAIN xs /\ xs[p[i]] = y
        BY <3>1
      <4> QED
        BY <4>1
    <3>2. ASSUME NEW k \in DOMAIN xs, xs[k] = y PROVE \E i \in DOMAIN xs : ys[i] = y
      <4>1. PICK i \in DOMAIN xs : p[i] = k
        BY <1>1
      <4>2. ys[i] = y
        BY <4>1, <3>2
      <4> QED
        BY <4>2
    <3> QED
      BY <3>1, <3>2
  <2>x. \A y : y \in DOMAIN Multiset(xs) <=> \E i \in DOMAIN xs : xs[i] = y
    BY CountedIs
  <2>y. \A y : y \in DOMAIN Multiset(ys) <=> \E i \in DOMAIN xs : ys[i] = y
    BY CountedIs
  <2>2. \A y : y \in DOMAIN Multiset(xs) <=> y \in DOMAIN Multiset(ys)
    BY ONLY <2>1, <2>x, <2>y
  <2> QED
    BY <2>2
<1>3. \A y : Cardinality(Places(xs, y)) = Cardinality(Places(ys, y))
  <2> TAKE y
  <2> DEFINE f == [i \in Places(ys, y) |-> p[i]]
  <2>1. f \in Injection(Places(ys, y), Places(xs, y))
    BY DEF Injection, IsInjective, Places
  <2>2. f \in Surjection(Places(ys, y), Places(xs, y))
    BY <1>1 DEF Surjection, Places
  <2> HIDE DEF f
  <2>3. ExistsBijection(Places(ys, y), Places(xs, y))
    BY <2>1, <2>2 DEF ExistsBijection, Bijection
  <2> QED
    BY <2>3, PlacesFinite, FS_Bijection
<1>4. \A y \in DOMAIN Multiset(xs) : Multiset(xs)[y] = Multiset(ys)[y]
  <2> TAKE y \in DOMAIN Multiset(xs)
  <2>1. PICK i \in DOMAIN xs : y = xs[i]
    BY CountedIs
  <2>2. PICK j \in DOMAIN xs : y = ys[j]
    BY <1>2, CountedIs
  <2>3. Multiset(xs)[y] = Cardinality(Places(xs, y))
    BY <2>1, CountedIs
  <2>4. Multiset(ys)[y] = Cardinality(Places(ys, y))
    BY <2>2, CountedIs
  <2> QED
    BY ONLY <2>3, <2>4, <1>3
<1>5. /\ Multiset(xs) = [y \in DOMAIN Multiset(xs) |-> Multiset(xs)[y]]
      /\ Multiset(ys) = [y \in DOMAIN Multiset(ys) |-> Multiset(ys)[y]]
  BY DEF Multiset
<1> QED
  BY <1>2, <1>4, <1>5

-------------------------------------------------------------------------------
(* compare: its verdict in terms of the rows and columns of two results.   *)

(* A number is rounded to one that is at most half the tolerance away. *)
LEMMA RoundsNear ==
  ASSUME NEW x \in Int
  PROVE  /\ ToPlaces(x) \in Int
         /\ 10 * ToPlaces(x) <= x + 5 /\ x <= 10 * ToPlaces(x) + 5
<1>1. PICK low, rest : low = x \div 10 /\ rest = x % 10
  OBVIOUS
<1>2. low \in Int /\ rest \in 0 .. 9 /\ x = 10 * low + rest
  BY <1>1
<1>3. \/ ToPlaces(x) = low + 1 /\ rest >= 5
      \/ ToPlaces(x) = low /\ rest <= 5
  <2>1. ToPlaces(x) = IF rest > 5 \/ (rest = 5 /\ x \in TiesUp) THEN low + 1 ELSE low
    BY <1>1 DEF ToPlaces, Tolerance
  <2> QED
    BY <1>2, <2>1
<1> QED
  BY <1>2, <1>3

(* A number that float() does not change. *)
Exact(a) == a.type \in Numeric => a.v \in -FloatExact .. FloatExact

LEMMA CanonicalIs ==
  ASSUME NEW a, IsValue(a)
  PROVE  /\ a.type \in Numeric => Canonical(a).v = ToPlaces(AsFloat(a.v))
         /\ a.type \in Written => Canonical(a).v = a.v
         /\ a.type \notin Numeric \cup Written => Canonical(a) = a
         /\ Canonical(a).type \notin Numeric
         /\ Canonical(a).type = "number" <=> a.type \in Numeric
         /\ Canonical(a).type = "text" <=> a.type \in Written
<1>1. /\ Numeric \cap Written = {} /\ "text" \in Written /\ "number" \notin Numeric \cup Written
      /\ "text" \notin Numeric
  BY DEF Numeric, Written
<1>2. a.type # "number"
  BY DEF IsValue
<1>3. CASE a.type \in Numeric
  <2>1. PICK v : v = ToPlaces(AsFloat(a.v))
    OBVIOUS
  <2>2. Canonical(a) = [type |-> "number", v |-> v]
    BY <1>3, <2>1 DEF Canonical
  <2>3. Canonical(a).type = "number" /\ Canonical(a).v = v
    BY <2>2
  <2> QED
    BY <1>1, <1>3, <2>1, <2>2, <2>3
<1>4. CASE a.type \in Written
  <2>0. PICK v : v = a.v
    OBVIOUS
  <2>1. Canonical(a) = [type |-> "text", v |-> v]
    BY <1>1, <1>4, <2>0 DEF Canonical
  <2>2. Canonical(a).type = "text" /\ Canonical(a).v = a.v
    BY <2>0, <2>1
  <2> QED
    BY <1>1, <1>4, <2>1, <2>2
<1>5. CASE a.type \notin Numeric \cup Written
  <2>1. Canonical(a) = a
    BY <1>5 DEF Canonical
  <2> QED
    BY <1>1, <1>2, <1>5, <2>1
<1> QED
  BY <1>3, <1>4, <1>5

(* Two values that are rounded to one are alike, unless they were changed   *)
(* before, and rounded values are alike only if they are one.               *)
LEMMA RoundedAlike ==
  ASSUME NEW a, NEW b, IsValue(a), IsValue(b)
  PROVE  /\ Exact(a) /\ Exact(b) /\ ~Confused(a, b) /\ Canonical(a) = Canonical(b) => Alike(a, b)
         /\ Alike(Canonical(a), Canonical(b)) => Canonical(a) = Canonical(b)
<1>1. Alike(Canonical(a), Canonical(b)) => Canonical(a) = Canonical(b)
  BY CanonicalIs DEF Alike
<1>2. ASSUME Exact(a), Exact(b), ~Confused(a, b), Canonical(a) = Canonical(b)
      PROVE  Alike(a, b)
  <2>1. CASE a.type \in Numeric
    <3>1. b.type \in Numeric
      BY <1>2, <2>1, CanonicalIs
    <3>2. PICK x, y : x = a.v /\ y = b.v
      OBVIOUS
    <3>3. x \in Int /\ y \in Int
      BY <2>1, <3>1, <3>2 DEF IsValue
    <3>4. AsFloat(x) = x /\ AsFloat(y) = y
      BY <1>2, <2>1, <3>1, <3>2 DEF Exact, AsFloat
    <3>5. Canonical(a).v = ToPlaces(x) /\ Canonical(b).v = ToPlaces(y)
      BY <2>1, <3>1, <3>2, <3>4, CanonicalIs
    <3>6. ToPlaces(x) = ToPlaces(y)
      BY <1>2, <3>5
    <3>7. x - y <= 10 /\ y - x <= 10
      BY <3>3, <3>6, RoundsNear
    <3> QED
      BY <2>1, <3>1, <3>2, <3>7 DEF Alike, Tolerance
  <2>2. CASE a.type \in Written
    <3>1. b.type \in Written
      BY <1>2, <2>2, CanonicalIs
    <3>2. PICK x, y : x = a.v /\ y = b.v
      OBVIOUS
    <3>3. Canonical(a).v = x /\ Canonical(b).v = y
      BY <2>2, <3>1, <3>2, CanonicalIs
    <3>4. x = y
      BY <1>2, <3>3
    <3>5. a.type = b.type
      BY <1>2, <2>2, <3>1, <3>2, <3>4 DEF Confused
    <3>6. a = b
      BY <3>2, <3>4, <3>5 DEF IsValue
    <3>7. a.type \notin Numeric
      BY <2>2 DEF Numeric, Written
    <3> QED
      BY <3>6, <3>7 DEF Alike
  <2>3. CASE a.type \notin Numeric \cup Written
    <3>1. b.type \notin Numeric \cup Written
      BY <1>2, <2>3, CanonicalIs
    <3>2. a = b
      BY <1>2, <2>3, <3>1, CanonicalIs
    <3> QED
      BY <2>3, <3>2 DEF Alike
  <2> QED
    BY <2>1, <2>2, <2>3
<1> QED
  BY <1>1, <1>2

(* Columns of one length. *)
Grid(g, n, w) == g = [c \in 1 .. w |-> [r \in 1 .. n |-> g[c][r]]]

LEMMA RowsAre ==
  ASSUME NEW n \in Nat, NEW w \in Nat \ {0}, NEW g, Grid(g, n, w)
  PROVE  RowsOf(g) = [r \in 1 .. n |-> [c \in 1 .. w |-> g[c][r]]]
<1>1. DOMAIN g = 1 .. w /\ 1 \in DOMAIN g
  BY DEF Grid
<1>2. g # <<>>
  BY <1>1
<1>3. DOMAIN g[1] = 1 .. n
  BY <1>1 DEF Grid
<1> QED
  BY ONLY <1>1, <1>2, <1>3 DEF RowsOf

LEMMA NoRows ==
  ASSUME NEW n, NEW g, Grid(g, n, 0)
  PROVE  RowsOf(g) = <<>>
<1>1. g = <<>>
  <2>1. DOMAIN g = {} /\ g = [c \in DOMAIN g |-> g[c]]
    BY DEF Grid
  <2> QED
    BY <2>1
<1> QED
  BY <1>1 DEF RowsOf

(* The rows one sequence of columns has for those of another. *)
Pairs(n, w, ordered, p, g, lines) ==
    /\ lines \in [1 .. n -> 1 .. n] /\ IsInjective(lines)
    /\ ordered => \A r \in 1 .. n : lines[r] = r
    /\ \A r \in 1 .. n, c \in 1 .. w : p[c][lines[r]] = g[c][r]

LEMMA RowsEqualPairs ==
  ASSUME NEW n \in Nat, NEW w \in Nat, NEW p, NEW g, Grid(p, n, w), Grid(g, n, w),
         NEW ordered \in BOOLEAN
  PROVE  RowsEqual(p, g, ordered) <=> \E lines : Pairs(n, w, ordered, p, g, lines)
<1>i. PICK id : id = [r \in 1 .. n |-> r]
  OBVIOUS
<1>j. id \in [1 .. n -> 1 .. n] /\ IsInjective(id) /\ \A r \in 1 .. n : id[r] = r
  BY <1>i DEF IsInjective
<1>1. CASE w = 0
  <2>1. RowsOf(p) = <<>> /\ RowsOf(g) = <<>>
    BY <1>1, NoRows
  <2>2. RowsEqual(p, g, ordered)
    BY <2>1 DEF RowsEqual
  <2>3. Pairs(n, w, ordered, p, g, id)
    BY <1>1, <1>j DEF Pairs
  <2> QED
    BY <2>2, <2>3
<1>2. CASE w # 0
  <2>p. PICK ps : ps = [r \in 1 .. n |-> [c \in 1 .. w |-> p[c][r]]]
    OBVIOUS
  <2>g. PICK gs : gs = [r \in 1 .. n |-> [c \in 1 .. w |-> g[c][r]]]
    OBVIOUS
  <2>1. RowsOf(p) = ps /\ RowsOf(g) = gs
    BY <1>2, <2>p, <2>g, RowsAre
  <2>2. DOMAIN ps = 1 .. n /\ DOMAIN gs = 1 .. n
    BY <2>p, <2>g
  <2>f. IsFiniteSet(DOMAIN ps)
    BY <2>2, FS_Interval
  <2>3. \A i \in 1 .. n, r \in 1 .. n : ps[i] = gs[r] <=> \A c \in 1 .. w : p[c][i] = g[c][r]
    <3> TAKE i \in 1 .. n, r \in 1 .. n
    <3>1. ps[i] = [c \in 1 .. w |-> p[c][i]] /\ gs[r] = [c \in 1 .. w |-> g[c][r]]
      BY <2>p, <2>g
    <3> QED
      BY <3>1
  <2>4. CASE ordered
    <3>1. RowsEqual(p, g, ordered) <=> ps = gs
      BY <2>1, <2>4 DEF RowsEqual
    <3>2. ps = gs <=> \A r \in 1 .. n : ps[r] = gs[r]
      BY <2>p, <2>g
    <3>3. (\A r \in 1 .. n : ps[r] = gs[r]) => Pairs(n, w, ordered, p, g, id)
      BY <2>3, <1>j DEF Pairs
    <3>4. ASSUME NEW lines, Pairs(n, w, ordered, p, g, lines) PROVE \A r \in 1 .. n : ps[r] = gs[r]
      BY <3>4, <2>3, <2>4 DEF Pairs
    <3> QED
      BY <3>1, <3>2, <3>3, <3>4
  <2>5. CASE ~ordered
    <3>1. RowsEqual(p, g, ordered) <=> Multiset(ps) = Multiset(gs)
      BY <2>1, <2>5 DEF RowsEqual
    <3>2. ASSUME Multiset(ps) = Multiset(gs) PROVE \E lines : Pairs(n, w, ordered, p, g, lines)
      <4>0. DOMAIN gs = DOMAIN ps
        BY <2>2
      <4>1. PICK lines \in [DOMAIN ps -> DOMAIN ps] :
              IsInjective(lines) /\ \A r \in DOMAIN ps : ps[lines[r]] = gs[r]
        BY ONLY <4>0, <2>f, <3>2, SameCountsPermute
      <4>2. \A r \in 1 .. n, c \in 1 .. w : p[c][lines[r]] = g[c][r]
        BY <2>2, <2>3, <4>1
      <4> QED
        BY <2>2, <2>5, <4>1, <4>2 DEF Pairs
    <3>3. ASSUME NEW lines, Pairs(n, w, ordered, p, g, lines) PROVE Multiset(ps) = Multiset(gs)
      <4>1. lines \in [1 .. n -> 1 .. n] /\ IsInjective(lines)
        BY <3>3 DEF Pairs
      <4>2. \A r \in 1 .. n : ps[lines[r]] = gs[r]
        BY <2>3, <3>3 DEF Pairs
      <4> QED
        BY ONLY <2>2, <2>f, <4>1, <4>2, PermutedCountsSame
    <3> QED
      BY <3>1, <3>2, <3>3
  <2> QED
    BY <2>4, <2>5
<1> QED
  BY <1>1, <1>2

(* Rows of one length. *)
Regular(t, n, w) ==
    /\ DOMAIN t = 1 .. n
    /\ \A r \in 1 .. n : DOMAIN t[r] = 1 .. w /\ \A c \in 1 .. w : IsValue(t[r][c])

LEMMA TableShape ==
  ASSUME NEW t, IsTable(t)
  PROVE  /\ Len(t) \in Nat /\ DOMAIN t = 1 .. Len(t)
         /\ \A r \in DOMAIN t : /\ t[r] \in ToSet(t)
                                /\ Len(t[r]) \in Nat /\ DOMAIN t[r] = 1 .. Len(t[r])
                                /\ \A c \in DOMAIN t[r] : IsValue(t[r][c])
<1>1. \A s : IsSeq(s) => Len(s) \in Nat /\ DOMAIN s = 1 .. Len(s)
  <2> TAKE s
  <2>1. PICK S : S = ToSet(s)
    OBVIOUS
  <2>2. s \in Seq(S) => Len(s) \in Nat /\ DOMAIN s = 1 .. Len(s)
    OBVIOUS
  <2> QED
    BY ONLY <2>1, <2>2 DEF IsSeq
<1>2. \A s : \A i \in DOMAIN s : s[i] \in ToSet(s)
  BY DEF ToSet
<1> QED
  BY ONLY <1>1, <1>2, IsTable(t) DEF IsTable

(* Two tables that passed the checks of compare on their shape. *)
LEMMA TablesAgree ==
  ASSUME NEW pred, NEW gold, IsTable(pred), IsTable(gold), Len(pred) = Len(gold),
         \A row \in ToSet(gold) \cup ToSet(pred) : Len(row) = Len(gold[1])
  PROVE  /\ Regular(pred, Len(gold), Len(gold[1])) /\ Regular(gold, Len(gold), Len(gold[1]))
         /\ Len(gold) \in Nat
         /\ gold # <<>> => /\ 1 \in 1 .. Len(gold) /\ Len(gold[1]) \in Nat
                           /\ DOMAIN gold[1] = 1 .. Len(gold[1])
<1> PICK n, w : n = Len(gold) /\ w = Len(gold[1])
  OBVIOUS
<1>1. n \in Nat /\ DOMAIN gold = 1 .. n /\ DOMAIN pred = 1 .. n
  BY TableShape
<1>2. Regular(pred, n, w) /\ Regular(gold, n, w)
  BY <1>1, TableShape DEF Regular
<1>3. gold # <<>> => 1 \in 1 .. n
  <2>1. PICK S : gold \in Seq(S)
    BY DEF IsTable, IsSeq
  <2> QED
    BY <1>1, <2>1
<1> QED
  BY <1>1, <1>2, <1>3, TableShape

LEMMA ColumnsAre ==
  ASSUME NEW n, NEW w, NEW t, Regular(t, n, w)
  PROVE  /\ Grid(ColumnsOf(t, w), n, w)
         /\ \A c \in 1 .. w, r \in 1 .. n : ColumnsOf(t, w)[c][r] = Canonical(t[r][c])
<1>1. ColumnsOf(t, w) = [c \in 1 .. w |-> [r \in 1 .. n |-> Canonical(t[r][c])]]
  BY DEF ColumnsOf, Regular
<1> QED
  BY <1>1 DEF Grid

(* The columns of p in another order. *)
Ordered(p, w, cols) == [c \in 1 .. w |-> p[cols[c]]]

SomeOrdering(p, g, ordered) ==
    \E o \in CandidateOrderings(p, g, ordered) : RowsEqual(o, g, ordered)
SomePairs(n, w, ordered, p, g) ==
    \E cols \in [1 .. w -> 1 .. w] :
      IsInjective(cols) /\ \E lines : Pairs(n, w, ordered, Ordered(p, w, cols), g, lines)

LEMMA CandidatesMatch ==
  ASSUME NEW n \in Nat, NEW w \in Nat, NEW p, NEW g, Grid(p, n, w), Grid(g, n, w),
         NEW ordered \in BOOLEAN
  PROVE  SomeOrdering(p, g, ordered) <=> SomePairs(n, w, ordered, p, g)
<1>d. DOMAIN p = 1 .. w /\ DOMAIN g = 1 .. w
      /\ \A c \in 1 .. w : /\ p[c] = [r \in 1 .. n |-> p[c][r]] /\ g[c] = [r \in 1 .. n |-> g[c][r]]
                           /\ DOMAIN p[c] = 1 .. n /\ DOMAIN g[c] = 1 .. n
  BY DEF Grid
<1>g. \A cols \in [1 .. w -> 1 .. w] : Grid(Ordered(p, w, cols), n, w)
  BY <1>d DEF Grid, Ordered
<1>1. ASSUME NEW o \in CandidateOrderings(p, g, ordered), RowsEqual(o, g, ordered)
      PROVE  \E cols \in [1 .. w -> 1 .. w] :
               IsInjective(cols) /\ \E lines : Pairs(n, w, ordered, Ordered(p, w, cols), g, lines)
  <2>1. PICK cols \in [1 .. w -> 1 .. w] : IsInjective(cols) /\ o = Ordered(p, w, cols)
    <3>1. CASE o = p
      <4>1. PICK id : id = [c \in 1 .. w |-> c]
        OBVIOUS
      <4>2. id \in [1 .. w -> 1 .. w] /\ IsInjective(id)
        BY <4>1 DEF IsInjective
      <4>3. p = [c \in 1 .. w |-> p[c]]
        BY DEF Grid
      <4>4. p = Ordered(p, w, id)
        BY <4>1, <4>3 DEF Ordered
      <4> QED
        BY <3>1, <4>2, <4>4
    <3>2. CASE o # p
      <4>1. PICK cols \in [DOMAIN p -> DOMAIN p] :
              IsInjective(cols) /\ o = [c \in DOMAIN p |-> p[cols[c]]]
        BY <3>2 DEF CandidateOrderings
      <4> QED
        BY <4>1, <1>d DEF Ordered
    <3> QED
      BY <3>1, <3>2
  <2>2. \E lines : Pairs(n, w, ordered, Ordered(p, w, cols), g, lines)
    BY <1>1, <1>g, <2>1, RowsEqualPairs
  <2> QED
    BY <2>1, <2>2
<1>2. ASSUME NEW cols \in [1 .. w -> 1 .. w], IsInjective(cols), NEW lines,
             Pairs(n, w, ordered, Ordered(p, w, cols), g, lines)
      PROVE  \E o \in CandidateOrderings(p, g, ordered) : RowsEqual(o, g, ordered)
  <2>o. PICK o : o = Ordered(p, w, cols)
    OBVIOUS
  <2>1. RowsEqual(o, g, ordered)
    BY <1>2, <1>g, <2>o, RowsEqualPairs
  <2>2. /\ lines \in [1 .. n -> 1 .. n] /\ IsInjective(lines)
        /\ ordered => \A r \in 1 .. n : lines[r] = r
        /\ \A r \in 1 .. n, c \in 1 .. w : p[cols[c]][lines[r]] = g[c][r]
    BY <1>2 DEF Pairs, Ordered
  <2>p. PICK ps : ps = Signatures(p, ordered)
    OBVIOUS
  <2>g. PICK gs : gs = Signatures(g, ordered)
    OBVIOUS
  <2>3. /\ DOMAIN ps = 1 .. w /\ DOMAIN gs = 1 .. w
        /\ \A c \in 1 .. w : ps[c] = Signature(p[c], ordered) /\ gs[c] = Signature(g[c], ordered)
    BY <1>d, <2>p, <2>g DEF Signatures
  <2>4. \A c \in 1 .. w : Signature(p[cols[c]], ordered) = Signature(g[c], ordered)
    <3> TAKE c \in 1 .. w
    <3>x. PICK xs : xs = p[cols[c]]
      OBVIOUS
    <3>y. PICK ys : ys = g[c]
      OBVIOUS
    <3>1. /\ DOMAIN xs = 1 .. n /\ DOMAIN ys = 1 .. n
          /\ xs = [r \in 1 .. n |-> xs[r]] /\ ys = [r \in 1 .. n |-> ys[r]]
      BY <1>d, <3>x, <3>y
    <3>2. \A r \in 1 .. n : xs[lines[r]] = ys[r]
      BY <2>2, <3>x, <3>y
    <3>3. CASE ordered
      <4>1. \A r \in 1 .. n : xs[r] = ys[r]
        BY <3>2, <3>3, <2>2
      <4>2. xs = ys
        BY ONLY <3>1, <4>1
      <4> QED
        BY <3>3, <3>x, <3>y, <4>2 DEF Signature
    <3>4. CASE ~ordered
      <4>0. IsFiniteSet(1 .. n)
        BY FS_Interval
      <4>1. IsFiniteSet(DOMAIN xs) /\ DOMAIN ys = DOMAIN xs /\ lines \in [DOMAIN xs -> DOMAIN xs]
        BY ONLY <3>1, <2>2, <4>0
      <4>2. \A r \in DOMAIN xs : xs[lines[r]] = ys[r]
        BY <3>1, <3>2
      <4>3. Multiset(xs) = Multiset(ys)
        BY ONLY <4>1, <4>2, <2>2, PermutedCountsSame
      <4> QED
        BY <3>4, <3>x, <3>y, <4>3 DEF Signature
    <3> QED
      BY <3>3, <3>4
  <2>5. \A c \in 1 .. w : ps[cols[c]] = gs[c]
    BY <2>3, <2>4
  <2>6. Multiset(ps) = Multiset(gs)
    <3>0. IsFiniteSet(1 .. w)
      BY FS_Interval
    <3>1. IsFiniteSet(DOMAIN ps) /\ DOMAIN gs = DOMAIN ps /\ cols \in [DOMAIN ps -> DOMAIN ps]
      BY <2>3, <3>0
    <3>2. \A c \in DOMAIN ps : ps[cols[c]] = gs[c]
      BY <2>3, <2>5
    <3> QED
      BY ONLY <3>1, <3>2, <1>2, PermutedCountsSame
  <2>7. o \in CandidateOrderings(p, g, ordered)
    <3>1. cols \in {s \in [DOMAIN p -> DOMAIN p] :
                      IsInjective(s) /\ \A c \in DOMAIN g : ps[s[c]] = gs[c]}
      BY <1>d, <1>2, <2>5
    <3>2. o = [c \in DOMAIN p |-> p[cols[c]]]
      BY <2>o, <1>d DEF Ordered
    <3> QED
      BY <3>1, <3>2, <2>6, <2>p, <2>g DEF CandidateOrderings
  <2> QED
    BY <2>1, <2>7
<1> QED
  BY <1>1, <1>2 DEF SomeOrdering, SomePairs

(* The shape of two results that compare goes on to look into. *)
Fits(pred, gold) ==
    /\ Len(pred) = Len(gold) /\ gold # <<>>
    /\ \A row \in ToSet(gold) \cup ToSet(pred) : Len(row) = Len(gold[1])

(* Two tables that are one when rounded, once columns and rows are in order. *)
Meets(n, w, ordered, pred, gold, cols, lines) ==
    /\ cols \in [1 .. w -> 1 .. w] /\ IsInjective(cols)
    /\ lines \in [1 .. n -> 1 .. n] /\ IsInjective(lines)
    /\ ordered => \A r \in 1 .. n : lines[r] = r
    /\ \A r \in 1 .. n, c \in 1 .. w : Canonical(pred[lines[r]][cols[c]]) = Canonical(gold[r][c])

LEMMA MeetsIsPairs ==
  ASSUME NEW n \in Nat, NEW w \in Nat, NEW pred, NEW gold, Regular(pred, n, w), Regular(gold, n, w),
         NEW ordered, NEW cols \in [1 .. w -> 1 .. w], IsInjective(cols), NEW lines
  PROVE  Pairs(n, w, ordered, Ordered(ColumnsOf(pred, w), w, cols), ColumnsOf(gold, w), lines)
         <=> Meets(n, w, ordered, pred, gold, cols, lines)
<1> PICK p : p = ColumnsOf(pred, w)
  OBVIOUS
<1> PICK g : g = ColumnsOf(gold, w)
  OBVIOUS
<1>1. \A c \in 1 .. w, r \in 1 .. n : p[c][r] = Canonical(pred[r][c]) /\ g[c][r] = Canonical(gold[r][c])
  <2>1. \A c \in 1 .. w, r \in 1 .. n : ColumnsOf(pred, w)[c][r] = Canonical(pred[r][c])
    BY ONLY ColumnsAre, Regular(pred, n, w)
  <2>2. \A c \in 1 .. w, r \in 1 .. n : ColumnsOf(gold, w)[c][r] = Canonical(gold[r][c])
    BY ONLY ColumnsAre, Regular(gold, n, w)
  <2> QED
    BY <2>1, <2>2
<1>2. \A c \in 1 .. w : Ordered(p, w, cols)[c] = p[cols[c]]
  BY DEF Ordered
<1>3. ASSUME lines \in [1 .. n -> 1 .. n], NEW r \in 1 .. n, NEW c \in 1 .. w
      PROVE  /\ Ordered(p, w, cols)[c][lines[r]] = Canonical(pred[lines[r]][cols[c]])
             /\ g[c][r] = Canonical(gold[r][c])
  <2>1. PICK i \in 1 .. n : i = lines[r]
    BY <1>3
  <2>2. Ordered(p, w, cols)[c][i] = p[cols[c]][i]
    BY <1>2
  <2>3. cols[c] \in 1 .. w
    OBVIOUS
  <2> QED
    BY <1>1, <2>1, <2>2, <2>3
<1>4. lines \in [1 .. n -> 1 .. n] =>
        \A r \in 1 .. n, c \in 1 .. w :
          Ordered(p, w, cols)[c][lines[r]] = g[c][r]
          <=> Canonical(pred[lines[r]][cols[c]]) = Canonical(gold[r][c])
  BY <1>3
<1>5. Ordered(ColumnsOf(pred, w), w, cols) = Ordered(p, w, cols) /\ ColumnsOf(gold, w) = g
  OBVIOUS
<1>6. Pairs(n, w, ordered, Ordered(p, w, cols), g, lines)
      <=> /\ lines \in [1 .. n -> 1 .. n] /\ IsInjective(lines)
          /\ ordered => \A r \in 1 .. n : lines[r] = r
          /\ \A r \in 1 .. n, c \in 1 .. w : Ordered(p, w, cols)[c][lines[r]] = g[c][r]
  BY ONLY DEF Pairs
<1>7. Meets(n, w, ordered, pred, gold, cols, lines)
      <=> /\ lines \in [1 .. n -> 1 .. n] /\ IsInjective(lines)
          /\ ordered => \A r \in 1 .. n : lines[r] = r
          /\ \A r \in 1 .. n, c \in 1 .. w :
               Canonical(pred[lines[r]][cols[c]]) = Canonical(gold[r][c])
  BY DEF Meets
<1>8. Pairs(n, w, ordered, Ordered(p, w, cols), g, lines) <=> Meets(n, w, ordered, pred, gold, cols, lines)
  BY ONLY <1>4, <1>6, <1>7
<1> QED
  BY ONLY <1>5, <1>8

(* Nothing that canonical makes equal differs. *)
Told(pred, gold) == NothingLost(pred, gold) /\ NothingConfused(pred, gold)

LEMMA CellsHold ==
  ASSUME NEW t, NEW n, NEW w, Regular(t, n, w)
  PROVE  \A r \in 1 .. n, c \in 1 .. w : t[r][c] \in Cells(t)
<1> SUFFICES ASSUME NEW r \in 1 .. n, NEW c \in 1 .. w PROVE t[r][c] \in Cells(t)
  OBVIOUS
<1>1. PICK row : row = t[r]
  OBVIOUS
<1>2. row \in ToSet(t) /\ row[c] \in ToSet(row)
  BY <1>1 DEF Regular, ToSet
<1> QED
  BY <1>1, <1>2 DEF Cells

LEMMA MeetsMeansSame ==
  ASSUME NEW pred, NEW gold, IsTable(pred), IsTable(gold), NEW ordered, Fits(pred, gold),
         Told(pred, gold),
         \E cols, lines : Meets(Len(gold), Len(gold[1]), ordered, pred, gold, cols, lines)
  PROVE  SameMeaning(pred, gold, ordered)
<1> PICK n, w : n = Len(gold) /\ w = Len(gold[1])
  OBVIOUS
<1>1. /\ Regular(pred, n, w) /\ Regular(gold, n, w)
      /\ DOMAIN gold = 1 .. n /\ DOMAIN gold[1] = 1 .. w
  BY TablesAgree DEF Fits, Regular
<1>2. PICK cols, lines : Meets(n, w, ordered, pred, gold, cols, lines)
  OBVIOUS
<1>3. ASSUME NEW r \in 1 .. n, NEW c \in 1 .. w PROVE Alike(pred[lines[r]][cols[c]], gold[r][c])
  <2>1. lines[r] \in 1 .. n /\ cols[c] \in 1 .. w
    BY <1>2 DEF Meets
  <2>2. IsValue(pred[lines[r]][cols[c]]) /\ IsValue(gold[r][c])
    BY <1>1, <2>1 DEF Regular
  <2>3. Canonical(pred[lines[r]][cols[c]]) = Canonical(gold[r][c])
    BY <1>2 DEF Meets
  <2>4. PICK a, b : a = pred[lines[r]][cols[c]] /\ b = gold[r][c]
    OBVIOUS
  <2>5. a \in Cells(pred) /\ b \in Cells(gold)
    <3>1. \A i \in 1 .. n, k \in 1 .. w : pred[i][k] \in Cells(pred)
      BY ONLY <1>1, CellsHold
    <3>2. \A i \in 1 .. n, k \in 1 .. w : gold[i][k] \in Cells(gold)
      BY ONLY <1>1, CellsHold
    <3> QED
      BY ONLY <2>1, <2>4, <3>1, <3>2, <1>3
  <2>6. Exact(a) /\ Exact(b) /\ ~Confused(a, b)
    BY <2>5 DEF Told, NothingLost, NothingConfused, Exact
  <2>7. IsValue(a) /\ IsValue(b) /\ Canonical(a) = Canonical(b)
    BY ONLY <2>2, <2>3, <2>4
  <2>8. Alike(a, b)
    BY ONLY <2>6, <2>7, RoundedAlike
  <2> QED
    BY ONLY <2>4, <2>8
<1>4. /\ cols \in [DOMAIN gold[1] -> DOMAIN gold[1]] /\ IsInjective(cols)
      /\ lines \in [DOMAIN gold -> DOMAIN gold] /\ IsInjective(lines)
      /\ ordered => \A r \in DOMAIN gold : lines[r] = r
      /\ \A r \in DOMAIN gold, c \in DOMAIN gold[1] : Alike(pred[lines[r]][cols[c]], gold[r][c])
  BY <1>1, <1>2, <1>3 DEF Meets
<1> QED
  BY <1>4 DEF SameMeaning, Fits

(* What compare finds in two results that fit. *)
LEMMA CompareFits ==
  ASSUME NEW pred, NEW gold, IsTable(pred), IsTable(gold), NEW ordered \in BOOLEAN, Fits(pred, gold)
  PROVE  LET n == Len(gold)
             w == Len(gold[1])
             met(o) == \E cols, lines : Meets(n, w, o, pred, gold, cols, lines)
         IN  /\ Compare(pred, gold, ordered) = "match" => met(ordered)
             /\ met(ordered) /\ w <= MaxColumns => Compare(pred, gold, ordered) = "match"
             /\ Compare(pred, gold, ordered) = "order_mismatch" => ordered /\ met(FALSE)
<1> PICK n, w : n = Len(gold) /\ w = Len(gold[1])
  OBVIOUS
<1> DEFINE met(o) == \E cols, lines : Meets(n, w, o, pred, gold, cols, lines)
<1>1. /\ Regular(pred, n, w) /\ Regular(gold, n, w) /\ n \in Nat /\ w \in Nat
  BY TablesAgree DEF Fits
<1> PICK p, g : p = ColumnsOf(pred, w) /\ g = ColumnsOf(gold, w)
  OBVIOUS
<1>2. Grid(p, n, w) /\ Grid(g, n, w)
  BY <1>1, ColumnsAre
<1>i. PICK id : id = [c \in 1 .. w |-> c]
  OBVIOUS
<1>j. id \in [1 .. w -> 1 .. w] /\ IsInjective(id) /\ Ordered(p, w, id) = p
  <2>1. p = [c \in 1 .. w |-> p[c]]
    BY <1>2 DEF Grid
  <2> QED
    BY <1>i, <2>1 DEF IsInjective, Ordered
<1>3. ASSUME NEW o \in BOOLEAN, RowsEqual(p, g, o) PROVE met(o)
  <2>1. PICK lines : Pairs(n, w, o, p, g, lines)
    BY <1>1, <1>2, <1>3, RowsEqualPairs
  <2>2. Pairs(n, w, o, Ordered(ColumnsOf(pred, w), w, id), ColumnsOf(gold, w), lines)
    BY <1>j, <2>1
  <2>3. Meets(n, w, o, pred, gold, id, lines)
    BY ONLY <1>1, <1>j, <2>2, MeetsIsPairs
  <2> QED
    BY <2>3
<1>4. SomeOrdering(p, g, ordered) <=> met(ordered)
  <2>1. SomeOrdering(p, g, ordered) <=> SomePairs(n, w, ordered, p, g)
    <3>1. n \in Nat /\ w \in Nat /\ ordered \in BOOLEAN
      BY <1>1
    <3> QED
      BY ONLY <3>1, <1>2, CandidatesMatch
  <2>2. ASSUME NEW cols \in [1 .. w -> 1 .. w], IsInjective(cols), NEW lines
        PROVE  Pairs(n, w, ordered, Ordered(p, w, cols), g, lines)
               <=> Meets(n, w, ordered, pred, gold, cols, lines)
    BY <1>1, <2>2, MeetsIsPairs
  <2>3. \A cols, lines : Meets(n, w, ordered, pred, gold, cols, lines)
                          => cols \in [1 .. w -> 1 .. w] /\ IsInjective(cols)
    BY DEF Meets
  <2> QED
    BY <2>1, <2>2, <2>3 DEF SomePairs
<1>5. Compare(pred, gold, ordered) =
        IF w > MaxColumns THEN IF RowsEqual(p, g, ordered) THEN "match" ELSE "value_mismatch"
        ELSE IF SomeOrdering(p, g, ordered) THEN "match"
        ELSE Diagnose(p, g, ordered)
  BY DEF Compare, Fits, SomeOrdering
<1>6. Diagnose(p, g, ordered) # "match"
      /\ (Diagnose(p, g, ordered) = "order_mismatch" => ordered /\ RowsEqual(p, g, FALSE))
  BY DEF Diagnose
<1>7. w > MaxColumns <=> ~(w <= MaxColumns)
  BY <1>1, ScoringAssumption
<1>8. Compare(pred, gold, ordered) = "match" => met(ordered)
  BY <1>3, <1>4, <1>5, <1>6
<1>9. met(ordered) /\ w <= MaxColumns => Compare(pred, gold, ordered) = "match"
  BY <1>4, <1>5, <1>7
<1>10. Compare(pred, gold, ordered) = "order_mismatch" => ordered /\ met(FALSE)
  BY <1>3, <1>5, <1>6
<1> QED
  BY <1>8, <1>9, <1>10

(* Two results that do not fit, or are empty. *)
LEMMA CompareEmpty ==
  ASSUME NEW pred, NEW gold, IsTable(pred), IsTable(gold), NEW ordered, ~Fits(pred, gold)
  PROVE  /\ Compare(pred, gold, ordered) \in {"match", "shape_mismatch"}
         /\ Compare(pred, gold, ordered) = "match" <=> Len(pred) = Len(gold) /\ gold = <<>>
<1> QED
  BY DEF Compare, Fits

LEMMA EmptySame ==
  ASSUME NEW pred, NEW gold, IsTable(pred), IsTable(gold), NEW ordered, Len(pred) = Len(gold), gold = <<>>
  PROVE  SameMeaning(pred, gold, ordered)
<1>1. DOMAIN pred = {} /\ DOMAIN gold = {}
  BY TableShape
<1>2. ToSet(pred) = {} /\ ToSet(gold) = {}
  BY <1>1 DEF ToSet
<1> QED
  BY <1>2 DEF SameMeaning

(* A result with every value as compare rounds it. *)
Rounded(t) == [i \in DOMAIN t |-> [c \in DOMAIN t[i] |-> Canonical(t[i][c])]]

LEMMA RoundedShape ==
  ASSUME NEW t, IsTable(t)
  PROVE  /\ Len(Rounded(t)) = Len(t) /\ DOMAIN Rounded(t) = DOMAIN t
         /\ \A r \in DOMAIN t : /\ Len(Rounded(t)[r]) = Len(t[r])
                                /\ DOMAIN Rounded(t)[r] = DOMAIN t[r]
                                /\ \A c \in DOMAIN t[r] : Rounded(t)[r][c] = Canonical(t[r][c])
         /\ \A row \in ToSet(t) : \E r \in DOMAIN t : row = t[r]
         /\ \A r \in DOMAIN t : Rounded(t)[r] \in ToSet(Rounded(t))
<1>1. /\ Len(t) \in Nat /\ DOMAIN t = 1 .. Len(t)
      /\ \A r \in DOMAIN t : Len(t[r]) \in Nat /\ DOMAIN t[r] = 1 .. Len(t[r])
  BY TableShape
<1> PICK n : n = Len(t)
  OBVIOUS
<1>2. Rounded(t) = [r \in 1 .. n |-> [c \in DOMAIN t[r] |-> Canonical(t[r][c])]]
  BY <1>1 DEF Rounded
<1>3. \A s : \A m \in Nat : DOMAIN s = 1 .. m => Len(s) = m
  OBVIOUS
<1>4. DOMAIN Rounded(t) = 1 .. n /\ Len(Rounded(t)) = n
  BY ONLY <1>1, <1>2, <1>3, n = Len(t)
<1>5. ASSUME NEW r \in 1 .. n
      PROVE  /\ DOMAIN Rounded(t)[r] = DOMAIN t[r] /\ Len(Rounded(t)[r]) = Len(t[r])
             /\ \A c \in DOMAIN t[r] : Rounded(t)[r][c] = Canonical(t[r][c])
  <2>1. Rounded(t)[r] = [c \in DOMAIN t[r] |-> Canonical(t[r][c])]
    BY <1>2
  <2>2. DOMAIN Rounded(t)[r] = 1 .. Len(t[r]) /\ Len(t[r]) \in Nat
    BY <1>1, <2>1
  <2> QED
    BY ONLY <1>1, <1>3, <2>1, <2>2, r \in 1 .. n, n = Len(t)
<1> QED
  BY <1>1, <1>4, <1>5 DEF ToSet

(* The existential of SameMeaning, for results of n rows and w columns. *)
Alikes(n, w, ordered, pred, gold, cols, lines) ==
    /\ cols \in [1 .. w -> 1 .. w] /\ IsInjective(cols)
    /\ lines \in [1 .. n -> 1 .. n] /\ IsInjective(lines)
    /\ ordered => \A r \in 1 .. n : lines[r] = r
    /\ \A r \in 1 .. n, c \in 1 .. w : Alike(pred[lines[r]][cols[c]], gold[r][c])

LEMMA SameMeaningHas ==
  ASSUME NEW pred, NEW gold, NEW ordered, SameMeaning(pred, gold, ordered), gold # <<>>,
         NEW n, NEW w, DOMAIN gold = 1 .. n, DOMAIN gold[1] = 1 .. w
  PROVE  \E cols, lines : Alikes(n, w, ordered, pred, gold, cols, lines)
<1>1. PICK columns \in {p \in [DOMAIN gold[1] -> DOMAIN gold[1]] : IsInjective(p)},
           lines \in {p \in [DOMAIN gold -> DOMAIN gold] :
                       IsInjective(p) /\ (ordered => \A r \in DOMAIN gold : p[r] = r)} :
             \A r \in DOMAIN gold, c \in DOMAIN gold[1] :
               Alike(pred[lines[r]][columns[c]], gold[r][c])
  BY Zenon DEF SameMeaning
<1>2. Alikes(n, w, ordered, pred, gold, columns, lines)
  BY <1>1 DEF Alikes
<1> QED
  BY <1>2

LEMMA RoundedSameMeets ==
  ASSUME NEW pred, NEW gold, IsTable(pred), IsTable(gold), NEW ordered \in BOOLEAN,
         SameMeaning(Rounded(pred), Rounded(gold), ordered)
  PROVE  /\ Len(pred) = Len(gold)
         /\ gold # <<>> =>
              /\ Fits(pred, gold)
              /\ \E cols, lines : Meets(Len(gold), Len(gold[1]), ordered, pred, gold, cols, lines)
<1>1. Len(pred) = Len(gold)
  BY RoundedShape DEF SameMeaning
<1>2. ASSUME gold # <<>>
      PROVE  /\ Fits(pred, gold)
             /\ \E cols, lines : Meets(Len(gold), Len(gold[1]), ordered, pred, gold, cols, lines)
  <2> PICK n, w : n = Len(gold) /\ w = Len(gold[1])
    OBVIOUS
  <2>1. DOMAIN gold = 1 .. n /\ DOMAIN pred = 1 .. n /\ n \in Nat
    BY <1>1, TableShape
  <2>2. 1 \in 1 .. n
    <3>1. PICK S : gold \in Seq(S)
      BY DEF IsTable, IsSeq
    <3> QED
      BY <1>2, <2>1, <3>1
  <2>3. Len(Rounded(gold)[1]) = w
    BY <2>1, <2>2, RoundedShape
  <2>4. \A row \in ToSet(gold) \cup ToSet(pred) : Len(row) = w
    BY <2>3, RoundedShape DEF SameMeaning
  <2>5. Fits(pred, gold)
    BY <1>1, <1>2, <2>4 DEF Fits
  <2>6. Regular(pred, n, w) /\ Regular(gold, n, w) /\ DOMAIN gold[1] = 1 .. w /\ w \in Nat
    BY <2>5, TablesAgree DEF Fits
  <2>7. DOMAIN Rounded(gold) = 1 .. n /\ DOMAIN Rounded(gold)[1] = 1 .. w /\ Rounded(gold) # <<>>
    <3>1. DOMAIN Rounded(gold) = 1 .. n /\ DOMAIN Rounded(gold)[1] = 1 .. w
      BY <2>1, <2>2, <2>6, RoundedShape
    <3> QED
      BY <3>1, <2>2
  <2>8. PICK cols, lines : Alikes(n, w, ordered, Rounded(pred), Rounded(gold), cols, lines)
    BY <2>7, SameMeaningHas
  <2>9. ASSUME NEW r \in 1 .. n, NEW c \in 1 .. w
        PROVE  Canonical(pred[lines[r]][cols[c]]) = Canonical(gold[r][c])
    <3>1. lines[r] \in 1 .. n /\ cols[c] \in 1 .. w
      BY <2>8 DEF Alikes
    <3>2. \A i \in 1 .. n, k \in 1 .. w : /\ Rounded(pred)[i][k] = Canonical(pred[i][k])
                                          /\ Rounded(gold)[i][k] = Canonical(gold[i][k])
                                          /\ IsValue(pred[i][k]) /\ IsValue(gold[i][k])
      <4>1. \A i \in 1 .. n : /\ DOMAIN pred[i] = 1 .. w /\ DOMAIN gold[i] = 1 .. w
                              /\ \A k \in 1 .. w : IsValue(pred[i][k]) /\ IsValue(gold[i][k])
        BY <2>6 DEF Regular
      <4>2. \A i \in 1 .. n : \A k \in DOMAIN pred[i] : Rounded(pred)[i][k] = Canonical(pred[i][k])
        BY ONLY <2>1, IsTable(pred), RoundedShape
      <4>3. \A i \in 1 .. n : \A k \in DOMAIN gold[i] : Rounded(gold)[i][k] = Canonical(gold[i][k])
        BY ONLY <2>1, IsTable(gold), RoundedShape
      <4> QED
        BY ONLY <4>1, <4>2, <4>3
    <3>3. Alike(Rounded(pred)[lines[r]][cols[c]], Rounded(gold)[r][c])
      BY <2>8 DEF Alikes
    <3>4. Alike(Canonical(pred[lines[r]][cols[c]]), Canonical(gold[r][c]))
      BY ONLY <3>1, <3>2, <3>3, <2>9
    <3>5. IsValue(pred[lines[r]][cols[c]]) /\ IsValue(gold[r][c])
      BY ONLY <3>1, <3>2, <2>9
    <3> QED
      BY ONLY <3>4, <3>5, RoundedAlike
  <2>10. Meets(n, w, ordered, pred, gold, cols, lines)
    BY <2>8, <2>9 DEF Alikes, Meets
  <2> QED
    BY <2>5, <2>10
<1> QED
  BY <1>1, <1>2

(* The verdict of compare is the one the rules of a match give. *)
LEMMA VerdictAgrees ==
  ASSUME NEW pred, NEW gold, IsTable(pred), IsTable(gold), NEW ordered \in BOOLEAN
  PROVE  /\ Told(pred, gold) /\ Compare(pred, gold, ordered) = "match" =>
              SameMeaning(pred, gold, ordered)
         /\ SameMeaning(Rounded(pred), Rounded(gold), ordered)
            /\ (gold # <<>> => Len(gold[1]) <= MaxColumns) => Compare(pred, gold, ordered) = "match"
         /\ Compare(pred, gold, ordered) = "order_mismatch" => ordered
         /\ Told(pred, gold) /\ Compare(pred, gold, ordered) = "order_mismatch" =>
              SameMeaning(pred, gold, FALSE)
<1>1. CASE Fits(pred, gold)
  <2>0. gold # <<>>
    BY <1>1 DEF Fits
  <2>1. Told(pred, gold) /\ Compare(pred, gold, ordered) = "match" =>
          SameMeaning(pred, gold, ordered)
    BY <1>1, CompareFits, MeetsMeansSame
  <2>2. SameMeaning(Rounded(pred), Rounded(gold), ordered) /\ Len(gold[1]) <= MaxColumns
        => Compare(pred, gold, ordered) = "match"
    BY <1>1, <2>0, CompareFits, RoundedSameMeets
  <2>3. Compare(pred, gold, ordered) = "order_mismatch" => ordered
    BY <1>1, CompareFits
  <2>4. Told(pred, gold) /\ Compare(pred, gold, ordered) = "order_mismatch" =>
          SameMeaning(pred, gold, FALSE)
    BY <1>1, CompareFits, MeetsMeansSame
  <2> QED
    BY <2>0, <2>1, <2>2, <2>3, <2>4
<1>2. CASE ~Fits(pred, gold)
  BY <1>2, CompareEmpty, EmptySame, RoundedSameMeets
<1> QED
  BY <1>1, <1>2

-------------------------------------------------------------------------------
(* Recall: the targets of a query are a finite set, and windows grow.      *)

(* Finite sets are made of finite sets. *)
LEMMA ImageFinite ==
  ASSUME NEW f, IsFiniteSet(DOMAIN f)
  PROVE  IsFiniteSet({f[x] : x \in DOMAIN f})
<1> DEFINE T == {f[x] : x \in DOMAIN f}
           g == [x \in DOMAIN f |-> f[x]]
<1>1. g \in Surjection(DOMAIN f, T)
  BY DEF Surjection
<1> HIDE DEF T, g
<1>2. IsFiniteSet(T)
  BY <1>1, FS_Surjection
<1> QED
  BY <1>2 DEF T

LEMMA PairFinite == \A a, b : IsFiniteSet({a, b})
<1> TAKE a, b
<1>1. IsFiniteSet({a} \cup {b})
  BY FS_Singleton, FS_Union
<1>2. {a, b} = {a} \cup {b}
  OBVIOUS
<1> QED
  BY <1>1, <1>2

LEMMA ListFinite == ASSUME NEW s, IsSeq(s) PROVE IsFiniteSet(ToSet(s))
<1>1. PICK S : S = ToSet(s)
  OBVIOUS
<1>2. s \in Seq(S) => Len(s) \in Nat /\ DOMAIN s = 1 .. Len(s)
  OBVIOUS
<1>3. IsFiniteSet(DOMAIN s)
  BY <1>1, <1>2, FS_Interval DEF IsSeq
<1> QED
  BY <1>3, ImageFinite DEF ToSet

LEMMA AliasesFinite ==
  ASSUME NEW s, NEW scope, IsSelect(scope)
  PROVE  IsFiniteSet(AliasesInScope(s, scope))
<1> PICK tables : tables = ToSet(scope.from)
  OBVIOUS
<1> DEFINE names == [t \in tables |-> {<<t.name, t.name>>, <<t.alias, t.name>>}]
           all == {names[t] : t \in DOMAIN names}
<1>1. IsFiniteSet(DOMAIN names)
  BY ListFinite DEF IsSelect
<1>2. \A T \in all : IsFiniteSet(T)
  <2> TAKE T \in all
  <2>1. PICK t \in tables : T = {<<t.name, t.name>>, <<t.alias, t.name>>}
    OBVIOUS
  <2>2. PICK a, b : a = <<t.name, t.name>> /\ b = <<t.alias, t.name>>
    OBVIOUS
  <2> QED
    BY <2>1, <2>2, PairFinite
<1>3. all = {{<<t.name, t.name>>, <<t.alias, t.name>>} : t \in tables}
  OBVIOUS
<1> HIDE DEF names
<1>4. IsFiniteSet(all)
  BY <1>1, ImageFinite
<1> HIDE DEF all
<1>5. IsFiniteSet(UNION all)
  BY <1>2, <1>4, FS_UNION
<1>6. AliasesInScope(s, scope) \in SUBSET (UNION all)
  BY <1>3 DEF AliasesInScope
<1> QED
  BY <1>5, <1>6, FS_Subset

(* The other names of a finite set of names. *)
LEMMA NamedFinite ==
  ASSUME NEW P, IsFiniteSet(P)
  PROVE  IsFiniteSet({p[2] : p \in P})
<1> DEFINE f == [p \in P |-> p[2]]
<1>1. {p[2] : p \in P} = {f[x] : x \in DOMAIN f} /\ DOMAIN f = P
  OBVIOUS
<1> HIDE DEF f
<1> QED
  BY <1>1, ImageFinite

LEMMA ElementsFinite ==
  ASSUME NEW s, NEW scope, IsSelect(scope), NEW column
  PROVE  IsFiniteSet(ElementOf(s, scope, column))
<1> PICK aliases : aliases = AliasesInScope(s, scope)
  OBVIOUS
<1> PICK some : some = {a \in aliases : a[1] = column.qual}
  OBVIOUS
<1>1. IsFiniteSet(aliases) /\ IsFiniteSet(some)
  <2>1. IsFiniteSet(aliases)
    BY AliasesFinite
  <2>2. some \in SUBSET aliases
    OBVIOUS
  <2> QED
    BY <2>1, <2>2, FS_Subset
<1> DEFINE tables == {pair[2] : pair \in aliases}
           named == {pair[2] : pair \in some}
           table == IF named = {} THEN {column.qual} ELSE named
<1>2. IsFiniteSet(tables) /\ IsFiniteSet(named)
  BY <1>1, NamedFinite
<1>3. ElementOf(s, scope, column) =
        IF column.qual # NoName THEN {<<t, column.name>> : t \in table \ CteNames(s)}
        ELSE IF Cardinality(tables) = 1 THEN {<<t, column.name>> : t \in tables} ELSE {}
  BY DEF ElementOf
<1> HIDE DEF tables, named
<1>4. IsFiniteSet(table)
  BY <1>2, FS_Singleton
<1> HIDE DEF table
<1>5. \A T : IsFiniteSet(T) => IsFiniteSet({<<t, column.name>> : t \in T})
  <2> SUFFICES ASSUME NEW T, IsFiniteSet(T) PROVE IsFiniteSet({<<t, column.name>> : t \in T})
    OBVIOUS
  <2> DEFINE f == [t \in T |-> <<t, column.name>>]
  <2>1. {<<t, column.name>> : t \in T} = {f[x] : x \in DOMAIN f} /\ DOMAIN f = T
    OBVIOUS
  <2> HIDE DEF f
  <2> QED
    BY <2>1, ImageFinite
<1>6. IsFiniteSet(table \ CteNames(s))
  <2>1. (table \ CteNames(s)) \in SUBSET table
    OBVIOUS
  <2> QED
    BY <2>1, <1>4, FS_Subset
<1>7. IsFiniteSet({})
  BY FS_EmptySet
<1> QED
  BY <1>2, <1>3, <1>5, <1>6, <1>7

LEMMA ColumnsFinite ==
  ASSUME NEW s, NEW scope, IsSelect(scope)
  PROVE  IsFiniteSet(UNION {ElementOf(s, scope, column) : column \in ColumnsIn(scope)})
<1> DEFINE item == [i \in scope.items |-> [qual |-> i.qual, name |-> i.name]]
<1>1. ColumnsIn(scope) = {item[x] : x \in DOMAIN item} \cup scope.where /\ DOMAIN item = scope.items
  BY DEF ColumnsIn
<1> HIDE DEF item
<1>2. IsFiniteSet({item[x] : x \in DOMAIN item})
  BY <1>1, ImageFinite DEF IsSelect
<1>3. IsFiniteSet(ColumnsIn(scope))
  <2>1. IsFiniteSet(scope.where)
    BY DEF IsSelect
  <2> QED
    BY <1>1, <1>2, <2>1, FS_Union
<1> DEFINE f == [column \in ColumnsIn(scope) |-> ElementOf(s, scope, column)]
           all == {f[x] : x \in DOMAIN f}
<1>4. /\ all = {ElementOf(s, scope, column) : column \in ColumnsIn(scope)}
      /\ DOMAIN f = ColumnsIn(scope) /\ \A T \in all : IsFiniteSet(T)
  BY ElementsFinite
<1> HIDE DEF f
<1>5. IsFiniteSet(all)
  BY <1>3, <1>4, ImageFinite
<1> HIDE DEF all
<1> QED
  BY <1>4, <1>5, FS_UNION

(* What a reference query needs is a finite set. *)
LEMMA TargetsFinite ==
  ASSUME NEW s, IsSelect(s.outer), IsSelect(s.inner)
  PROVE  IsFiniteSet(Targets(s))
<1>1. IsFiniteSet(Scopes(s)) /\ \A scope \in Scopes(s) : IsSelect(scope)
  BY PairFinite, FS_Singleton DEF Scopes
<1>2. IsFiniteSet(GoldColumns(s))
  <2> DEFINE f == [scope \in Scopes(s) |-> UNION {ElementOf(s, scope, column) : column \in ColumnsIn(scope)}]
             all == {f[x] : x \in DOMAIN f}
  <2>1. GoldColumns(s) = UNION all /\ DOMAIN f = Scopes(s) /\ \A T \in all : IsFiniteSet(T)
    BY <1>1, ColumnsFinite DEF GoldColumns
  <2> HIDE DEF f
  <2>2. IsFiniteSet(all)
    BY <1>1, <2>1, ImageFinite
  <2> HIDE DEF all
  <2> QED
    BY <2>1, <2>2, FS_UNION
<1>3. IsFiniteSet(GoldTables(s))
  <2> DEFINE f == [scope \in Scopes(s) |-> {pair[2] : pair \in AliasesInScope(s, scope)}]
             all == {f[x] : x \in DOMAIN f}
  <2>0. \A scope \in Scopes(s) : IsFiniteSet(AliasesInScope(s, scope))
    BY <1>1, AliasesFinite
  <2>1. GoldTables(s) = UNION all /\ DOMAIN f = Scopes(s)
    BY DEF GoldTables
  <2>3. \A T \in all : IsFiniteSet(T)
    BY <2>0, NamedFinite
  <2> HIDE DEF f
  <2>2. IsFiniteSet(all)
    BY <1>1, <2>1, ImageFinite
  <2> HIDE DEF all
  <2> QED
    BY <2>1, <2>2, <2>3, FS_UNION
<1>4. IsFiniteSet({<<table, NoName>> : table \in GoldTables(s)})
  <2> DEFINE f == [table \in GoldTables(s) |-> <<table, NoName>>]
  <2>1. {<<table, NoName>> : table \in GoldTables(s)} = {f[x] : x \in DOMAIN f} /\ DOMAIN f = GoldTables(s)
    OBVIOUS
  <2> HIDE DEF f
  <2> QED
    BY <1>3, <2>1, ImageFinite
<1> QED
  BY <1>2, <1>4, FS_Union DEF Targets

(* The first k elements. *)
LEMMA WindowsGrow ==
  ASSUME NEW S, NEW got \in Seq(S), NEW k \in Nat, NEW l \in Nat, k <= l
  PROVE  ToSet(Window(got, k)) \subseteq ToSet(Window(got, l))
<1>1. Len(got) \in Nat
  OBVIOUS
<1> PICK a, b : a = Least(k, Len(got)) /\ b = Least(l, Len(got))
  OBVIOUS
<1>2. a \in 0 .. Len(got) /\ b \in 0 .. Len(got) /\ a <= b
  BY <1>1 DEF Least
<1>3. \A n \in 0 .. Len(got) : /\ DOMAIN SubSeq(got, 1, n) = 1 .. n
                              /\ \A i \in 1 .. n : SubSeq(got, 1, n)[i] = got[i]
  OBVIOUS
<1>4. \A i \in 1 .. a : i \in 1 .. b
  BY <1>1, <1>2
<1> QED
  BY <1>2, <1>3, <1>4 DEF Window, ToSet

LEMMA NothingFound ==
  ASSUME NEW s, NEW k \in Nat
  PROVE  Found(s, <<>>, k) = 0
<1>1. Window(<<>>, k) = <<>>
  BY DEF Window, Least
<1>2. ToSet(<<>>) = {}
  BY DEF ToSet
<1>3. {target \in Targets(s) : Credited(target, Window(<<>>, k))} = {}
  BY <1>1, <1>2 DEF Credited
<1> QED
  BY <1>3, FS_EmptySet DEF Found

LEMMA FoundGrows ==
  ASSUME NEW s, IsSelect(s.outer), IsSelect(s.inner),
         NEW S, NEW got \in Seq(S), NEW k \in Nat, NEW l \in Nat, k <= l
  PROVE  Found(s, got, k) <= Found(s, got, l)
<1> PICK low, high : low = Window(got, k) /\ high = Window(got, l)
  OBVIOUS
<1>1. ToSet(low) \subseteq ToSet(high)
  BY WindowsGrow
<1>2. \A target : Credited(target, low) => Credited(target, high)
  BY <1>1 DEF Credited
<1> DEFINE few == {target \in Targets(s) : Credited(target, low)}
           many == {target \in Targets(s) : Credited(target, high)}
<1>3. few \in SUBSET many /\ many \in SUBSET Targets(s)
  BY <1>2
<1>4. Found(s, got, k) = Cardinality(few) /\ Found(s, got, l) = Cardinality(many)
  BY DEF Found
<1> HIDE DEF few, many
<1>5. IsFiniteSet(many)
  BY <1>3, TargetsFinite, FS_Subset
<1> QED
  BY <1>3, <1>4, <1>5, FS_Subset

LEMMA AllFound ==
  ASSUME NEW s, NEW got, NEW k,
         GoldColumns(s) \subseteq ToSet(Window(got, k)),
         GoldTables(s) \subseteq {e[1] : e \in GoldColumns(s)}
  PROVE  Found(s, got, k) = Cardinality(Targets(s))
<1> PICK shown : shown = ToSet(Window(got, k))
  OBVIOUS
<1>1. ASSUME NEW target \in Targets(s) PROVE Credited(target, Window(got, k))
  <2>1. CASE target \in GoldColumns(s)
    BY <2>1 DEF Credited
  <2>2. CASE target \notin GoldColumns(s)
    <3>1. PICK table \in GoldTables(s) : target = <<table, NoName>>
      BY <1>1, <2>2 DEF Targets
    <3>2. PICK e \in GoldColumns(s) : table = e[1]
      OBVIOUS
    <3>3. e \in shown /\ target[1] = e[1]
      BY <3>1, <3>2
    <3> QED
      BY <3>3 DEF Credited
  <2> QED
    BY <2>1, <2>2
<1>2. {target \in Targets(s) : Credited(target, Window(got, k))} = Targets(s)
  BY <1>1
<1> QED
  BY <1>2 DEF Found

-------------------------------------------------------------------------------
(* Profiles: what is listed, what is left out and the reason given for it. *)

LEMMA BeforeOrders ==
  ASSUME NEW found, \A x \in found : /\ x = [value |-> x.value, count |-> x.count]
                                     /\ x.value \in Int /\ x.count \in Int
  PROVE  /\ \A x \in found : ~Before(x, x)
         /\ \A x, y \in found : x = y \/ Before(x, y) \/ Before(y, x)
         /\ \A x, y, z \in found : Before(x, y) /\ Before(y, z) => Before(x, z)
<1>1. \A x \in found : ~Before(x, x)
  BY DEF Before
<1>2. ASSUME NEW x \in found, NEW y \in found PROVE x = y \/ Before(x, y) \/ Before(y, x)
  <2>1. x.value = y.value /\ x.count = y.count => x = y
    OBVIOUS
  <2> QED
    BY <2>1 DEF Before
<1>3. ASSUME NEW x \in found, NEW y \in found, NEW z \in found, Before(x, y), Before(y, z)
      PROVE  Before(x, z)
  BY <1>3 DEF Before
<1> QED
  BY <1>1, <1>2, <1>3

(* How many come before a value. *)
Place(found, x) == Cardinality({y \in found : Before(y, x)})

LEMMA PlacesAre ==
  ASSUME NEW found, IsFiniteSet(found),
         \A x \in found : /\ x = [value |-> x.value, count |-> x.count]
                          /\ x.value \in Int /\ x.count \in Int
  PROVE  /\ Cardinality(found) \in Nat
         /\ \A x \in found : Place(found, x) \in 0 .. Cardinality(found) - 1
         /\ \A x, y \in found : Place(found, x) = Place(found, y) => x = y
         /\ \A n \in 1 .. Cardinality(found) : \E x \in found : Place(found, x) = n - 1
<1>1. Cardinality(found) \in Nat
  BY FS_CardinalityType
<1>o. /\ \A x \in found : ~Before(x, x)
      /\ \A x, y \in found : x = y \/ Before(x, y) \/ Before(y, x)
      /\ \A x, y, z \in found : Before(x, y) /\ Before(y, z) => Before(x, z)
  BY BeforeOrders
<1>2. ASSUME NEW x \in found
      PROVE  IsFiniteSet({y \in found : Before(y, x)}) /\ Place(found, x) \in 0 .. Cardinality(found) - 1
  <2> DEFINE low == {y \in found : Before(y, x)}
  <2>1. low \in SUBSET found /\ x \notin low
    BY <1>o
  <2> HIDE DEF low
  <2>2. /\ IsFiniteSet(low) /\ Cardinality(low) <= Cardinality(found)
        /\ Cardinality(low) # Cardinality(found) /\ Cardinality(low) \in Nat
    BY <2>1, FS_Subset, FS_CardinalityType
  <2> QED
    BY <1>1, <2>2 DEF low, Place
<1>3. ASSUME NEW x \in found, NEW y \in found, Before(x, y)
      PROVE  Place(found, x) # Place(found, y)
  <2> DEFINE low == {z \in found : Before(z, x)}
             high == {z \in found : Before(z, y)}
  <2>1. low \in SUBSET high /\ x \in high /\ x \notin low
    BY <1>o, <1>3
  <2>2. IsFiniteSet(high)
    BY <1>2
  <2>3. Cardinality(low) # Cardinality(high)
    <3> HIDE DEF low, high
    <3> QED
      BY <2>1, <2>2, FS_Subset
  <2> QED
    BY <2>3 DEF Place
<1>4. \A x, y \in found : Place(found, x) = Place(found, y) => x = y
  BY <1>3, <1>o
<1>5. \A n \in 1 .. Cardinality(found) : \E x \in found : Place(found, x) = n - 1
  <2> DEFINE places == 0 .. Cardinality(found) - 1
             f == [x \in found |-> Place(found, x)]
  <2>1. f \in Injection(found, places)
    BY <1>2, <1>4 DEF Injection, IsInjective
  <2>2. IsFiniteSet(places) /\ Cardinality(places) = Cardinality(found)
    <3> PICK m \in Nat : m = Cardinality(found)
      BY <1>1
    <3>1. m - 1 \in Int /\ 0 \in Int
      OBVIOUS
    <3>2. /\ IsFiniteSet(0 .. (m - 1))
          /\ Cardinality(0 .. (m - 1)) = IF 0 > m - 1 THEN 0 ELSE (m - 1) - 0 + 1
      BY ONLY <3>1, FS_Interval
    <3>3. Cardinality(0 .. (m - 1)) = m
      BY ONLY <3>2, m \in Nat
    <3> QED
      BY <3>2, <3>3
  <2>3. f \in Surjection(found, places)
    <3> HIDE DEF places, f
    <3> QED
      BY <2>1, <2>2, FS_Injection
  <2>4. \A n \in 1 .. Cardinality(found) : n - 1 \in places
    BY <1>1
  <2> QED
    BY <2>3, <2>4 DEF Surjection
<1> QED
  BY <1>1, <1>2, <1>4, <1>5

(* A ranking lists every value once. *)
LEMMA RankedAre ==
  ASSUME NEW found, IsFiniteSet(found),
         \A x \in found : /\ x = [value |-> x.value, count |-> x.count]
                          /\ x.value \in Int /\ x.count \in Int
  PROVE  /\ Cardinality(found) \in Nat /\ Ranked(found) \in Seq(found)
         /\ Len(Ranked(found)) = Cardinality(found)
         /\ \A x \in found : \E n \in 1 .. Cardinality(found) : Ranked(found)[n] = x
<1> DEFINE at(n) == CHOOSE x \in found : Place(found, x) = n - 1
<1>0. Cardinality(found) \in Nat
  BY FS_CardinalityType
<1>1. Ranked(found) = [n \in 1 .. Cardinality(found) |-> at(n)]
  BY DEF Ranked, Place
<1>2. \A n \in 1 .. Cardinality(found) : at(n) \in found /\ Place(found, at(n)) = n - 1
  BY PlacesAre
<1>3. \A x \in found : \E n \in 1 .. Cardinality(found) : at(n) = x
  <2> TAKE x \in found
  <2>1. Place(found, x) \in 0 .. Cardinality(found) - 1
    BY PlacesAre
  <2> PICK m \in Nat : m = Cardinality(found)
    BY <1>0
  <2>a. PICK k \in 0 .. m - 1 : k = Place(found, x)
    BY <2>1
  <2>b. k + 1 \in 1 .. m /\ (k + 1) - 1 = k
    BY ONLY m \in Nat, k \in 0 .. m - 1
  <2>2. PICK n \in 1 .. Cardinality(found) : n - 1 = Place(found, x)
    BY <2>a, <2>b
  <2>3. at(n) = x
    BY <1>2, <2>2, PlacesAre
  <2> QED
    BY <2>3
<1> HIDE DEF at
<1>4. Ranked(found) \in [1 .. Cardinality(found) -> found]
  BY <1>1, <1>2
<1>5. \A x \in found : \E n \in 1 .. Cardinality(found) : Ranked(found)[n] = x
  BY <1>1, <1>3
<1>6. Ranked(found) \in Seq(found) /\ Len(Ranked(found)) = Cardinality(found)
  BY <1>0, <1>4
<1> QED
  BY <1>0, <1>5, <1>6

(* The values of some rows that are not NULL. *)
LEMMA NotNullAre ==
  ASSUME NEW scan \in Seq(Nat)
  PROVE  /\ NotNull(scan) \in Seq(Nat \ {Null})
         /\ ToSet(NotNull(scan)) \subseteq Nat \ {Null} /\ IsFiniteSet(ToSet(NotNull(scan)))
         /\ NotNull(scan) = <<>> <=> ToSet(NotNull(scan)) = {}
<1> DEFINE at == {i \in DOMAIN scan : scan[i] # Null}
<1>1. DOMAIN scan = 1 .. Len(scan) /\ Len(scan) \in Nat /\ \A i \in DOMAIN scan : scan[i] \in Nat
  OBVIOUS
<1>2. at \in SUBSET Int /\ at \in SUBSET (1 .. Len(scan)) /\ {scan[i] : i \in at} \subseteq Nat \ {Null}
  BY <1>1
<1>3. NotNull(scan) = Picked(scan, at)
  BY DEF NotNull
<1> HIDE DEF at
<1>4. IsFiniteSet(at)
  <2>1. IsFiniteSet(1 .. Len(scan))
    BY <1>1, FS_Interval
  <2> QED
    BY <1>2, <2>1, FS_Subset
<1> PICK S : S = {scan[i] : i \in at}
  OBVIOUS
<1>5. NotNull(scan) \in Seq(S) /\ S \subseteq Nat \ {Null}
  <2>1. Picked(scan, at) \in Seq({scan[i] : i \in at})
    BY <1>2, <1>4, PickedAre
  <2> QED
    BY <1>2, <1>3, <2>1
<1> PICK held : held = NotNull(scan)
  OBVIOUS
<1>6. held \in Seq(Nat \ {Null})
  <2>1. held \in Seq(S)
    BY <1>5
  <2>2. DOMAIN held = 1 .. Len(held) /\ Len(held) \in Nat /\ \A i \in DOMAIN held : held[i] \in S
    BY <2>1
  <2>3. \A i \in DOMAIN held : held[i] \in Nat \ {Null}
    BY <1>5, <2>2
  <2>4. held = [i \in 1 .. Len(held) |-> held[i]]
    BY <2>1
  <2> PICK T : T = Nat \ {Null}
    OBVIOUS
  <2>5. held \in [1 .. Len(held) -> T]
    BY ONLY <2>2, <2>3, <2>4, T = Nat \ {Null}
  <2> QED
    BY <2>2, <2>5
<1>7. \A i \in DOMAIN held : held[i] \in Nat \ {Null}
  BY <1>6
<1>8. DOMAIN held = 1 .. Len(held) /\ Len(held) \in Nat
  BY <1>6
<1>9. IsFiniteSet(ToSet(held))
  <2>1. IsFiniteSet(DOMAIN held)
    BY <1>8, FS_Interval
  <2> QED
    BY <2>1, ImageFinite DEF ToSet
<1>10. ToSet(held) \subseteq Nat \ {Null}
  BY <1>7 DEF ToSet
<1>11. held = <<>> <=> ToSet(held) = {}
  <2>1. held = <<>> <=> Len(held) = 0
    BY <1>6
  <2>2. Len(held) = 0 <=> DOMAIN held = {}
    <3>1. \A m \in Nat : m = 0 <=> 1 .. m = {}
      <4> TAKE m \in Nat
      <4>1. m = 0 => 1 .. m = {}
        OBVIOUS
      <4>2. m # 0 => 1 \in 1 .. m
        OBVIOUS
      <4> QED
        BY <4>1, <4>2
    <3> QED
      BY <1>8, <3>1
  <2> QED
    BY <2>1, <2>2 DEF ToSet
<1> QED
  BY <1>6, <1>9, <1>10, <1>11
LEMMA OccurrencesCount ==
  ASSUME NEW scan \in Seq(Nat), NEW v
  PROVE  Occurrences(v, scan) \in Nat
<1>1. IsFiniteSet(1 .. Len(scan)) /\ DOMAIN scan = 1 .. Len(scan)
  BY FS_Interval
<1> DEFINE at == {i \in DOMAIN scan : scan[i] = v}
<1>2. at \in SUBSET (1 .. Len(scan))
  BY <1>1
<1> HIDE DEF at
<1>3. Cardinality(at) \in Nat
  BY <1>1, <1>2, FS_Subset, FS_CardinalityType
<1> QED
  BY <1>3 DEF Occurrences, at

(* The values a profile may show. *)
Common(s, scan) == {v \in ToSet(NotNull(scan)) : Occurrences(v, scan) >= s.threshold}
Shown(list) == {x.value : x \in ToSet(list)}

(* The values listed as frequent: common ones, counted, and all of them     *)
(* unless the list is full.                                                 *)
LEMMA FrequentAre ==
  ASSUME NEW scan \in Seq(Nat), NEW s, s.topK \in Nat, s.threshold \in Nat
  PROVE  /\ \A x \in ToSet(Frequent(s, scan)) : x.count = Occurrences(x.value, scan)
         /\ Shown(Frequent(s, scan)) \subseteq Common(s, scan)
         /\ Len(Frequent(s, scan)) = s.topK \/ Common(s, scan) \subseteq Shown(Frequent(s, scan))
<1> PICK values : values = ToSet(NotNull(scan))
  OBVIOUS
<1>1. values \subseteq Nat /\ IsFiniteSet(values)
  BY NotNullAre
<1> DEFINE entry == [v \in values |-> [value |-> v, count |-> Occurrences(v, scan)]]
           seen == {entry[v] : v \in DOMAIN entry}
           common == {x \in seen : x.count >= s.threshold}
<1>2. /\ DOMAIN entry = values
      /\ seen = {[value |-> v, count |-> Occurrences(v, scan)] : v \in values}
  OBVIOUS
<1>3. \A x \in seen : /\ x.value \in values /\ x.count = Occurrences(x.value, scan)
                      /\ x = [value |-> x.value, count |-> x.count]
                      /\ x.value \in Int /\ x.count \in Int
  <2>1. \A v : Occurrences(v, scan) \in Int
    BY OccurrencesCount
  <2> QED
    BY <1>1, <1>2, <2>1
<1>4. \A v \in values : [value |-> v, count |-> Occurrences(v, scan)] \in seen
  BY <1>2
<1> PICK n : n = Cardinality(common)
  OBVIOUS
<1>5. Frequent(s, scan) = SubSeq(Ranked(common), 1, Least(s.topK, n))
  BY <1>2 DEF Frequent
<1> HIDE DEF entry
<1>6. IsFiniteSet(seen)
  BY <1>1, <1>2, ImageFinite
<1> HIDE DEF seen
<1>7. common \in SUBSET seen
  OBVIOUS
<1>8. \A x : x \in common <=> x \in seen /\ x.count >= s.threshold
  OBVIOUS
<1> HIDE DEF common
<1>9. IsFiniteSet(common)
  BY <1>6, <1>7, FS_Subset
<1>10. \A x \in common : /\ x = [value |-> x.value, count |-> x.count]
                         /\ x.value \in Int /\ x.count \in Int
  BY <1>3, <1>7
<1> PICK all : all = Ranked(common)
  OBVIOUS
<1>11. /\ n \in Nat /\ all \in Seq(common) /\ Len(all) = n
       /\ \A x \in common : \E i \in 1 .. n : all[i] = x
  BY <1>9, <1>10, RankedAre
<1> PICK m : m = Least(s.topK, n)
  OBVIOUS
<1>12. m \in 0 .. n /\ (m = s.topK \/ m = n)
  BY <1>11 DEF Least
<1> PICK list : list = Frequent(s, scan)
  OBVIOUS
<1>13. DOMAIN list = 1 .. m /\ Len(list) = m /\ \A i \in 1 .. m : list[i] = all[i] /\ all[i] \in common
  <2>1. list = SubSeq(all, 1, m)
    BY <1>5
  <2>2. \A k \in 0 .. Len(all) : /\ DOMAIN SubSeq(all, 1, k) = 1 .. k /\ Len(SubSeq(all, 1, k)) = k
                                  /\ \A i \in 1 .. k : SubSeq(all, 1, k)[i] = all[i] /\ all[i] \in common
    BY <1>11
  <2> QED
    BY <1>11, <1>12, <2>1, <2>2
<1>14. \A x : x \in ToSet(list) <=> \E i \in 1 .. m : x = list[i]
  BY <1>13 DEF ToSet
<1>15. \A x \in ToSet(list) : x \in common
  BY <1>13, <1>14
<1>16. \A x \in ToSet(list) : x.count = Occurrences(x.value, scan)
  BY <1>3, <1>7, <1>15
<1>17. \A v : v \in Common(s, scan) <=> v \in values /\ Occurrences(v, scan) >= s.threshold
  BY DEF Common
<1>18. Shown(list) \subseteq Common(s, scan)
  <2>1. \A x \in ToSet(list) : x.value \in Common(s, scan)
    BY <1>3, <1>8, <1>15, <1>17
  <2> QED
    BY <2>1 DEF Shown
<1>19. ASSUME m # s.topK PROVE Common(s, scan) \subseteq Shown(list)
  <2>1. m = n
    BY <1>12, <1>19
  <2>2. ASSUME NEW v \in Common(s, scan) PROVE v \in Shown(list)
    <3> PICK x : x = [value |-> v, count |-> Occurrences(v, scan)]
      OBVIOUS
    <3>1. x \in common /\ x.value = v
      BY <1>4, <1>8, <1>17, <2>2
    <3>2. PICK i \in 1 .. m : all[i] = x
      BY <1>11, <2>1, <3>1
    <3>3. x \in ToSet(list)
      BY <1>13, <1>14, <3>2
    <3> QED
      BY <3>1, <3>3 DEF Shown
  <2> QED
    BY <2>2
<1> QED
  BY <1>13, <1>16, <1>18, <1>19

(* The first rows of a column. *)
LEMMA ScanIs ==
  ASSUME NEW S, NEW values \in Seq(S), NEW n \in Nat
  PROVE  /\ SubSeq(values, 1, Least(n, Len(values))) \in Seq(S)
         /\ Len(SubSeq(values, 1, Least(n, Len(values)))) = Least(n, Len(values))
         /\ Least(n, Len(values)) \in 0 .. Len(values)
         /\ SubSeq(values, 1, Least(n, Len(values))) = <<>> => n = 0 \/ values = <<>>
<1> PICK m : m = Least(n, Len(values))
  OBVIOUS
<1>1. Len(values) \in Nat /\ m \in 0 .. Len(values) /\ (m = 0 => n = 0 \/ Len(values) = 0)
  BY DEF Least
<1>2. Len(SubSeq(values, 1, m)) = m /\ SubSeq(values, 1, m) \in Seq(S)
  BY <1>1
<1>3. Len(values) = 0 => values = <<>>
  OBVIOUS
<1> QED
  BY <1>1, <1>2, <1>3

LEMMA RunStatsAre ==
  ASSUME NEW s, NEW contents, s.scan \in Nat, contents.values \in Seq(Nat),
         contents.ordered \in BOOLEAN
  PROVE  /\ RunStats(s, contents).frequent = Frequent(s, Scan(s, contents.values))
         /\ RunStats(s, contents) = [f \in DOMAIN Silent |-> RunStats(s, contents)[f]]
         /\ RunStats(s, contents).min = Null =>
              ~contents.ordered \/ NotNull(Scan(s, contents.values)) = <<>>
<1> PICK rowsOf : rowsOf = Scan(s, contents.values)
  OBVIOUS
<1>1. rowsOf \in Seq(Nat)
  BY ScanIs DEF Scan
<1> PICK values : values = ToSet(NotNull(rowsOf))
  OBVIOUS
<1>2. values \subseteq Nat \ {Null} /\ (values = {} => NotNull(rowsOf) = <<>>)
  BY <1>1, NotNullAre
<1> PICK stats : stats = RunStats(s, contents)
  OBVIOUS
<1>3. /\ stats.frequent = Frequent(s, rowsOf)
      /\ stats.min = IF contents.ordered
                     THEN IF values = {} THEN Null ELSE CHOOSE v \in values : \A w \in values : v <= w
                     ELSE Null
      /\ stats = [f \in DOMAIN Silent |-> stats[f]]
  <2>1. stats.frequent = Frequent(s, rowsOf)
    BY DEF RunStats, Silent
  <2>2. stats.min = IF contents.ordered
                    THEN IF values = {} THEN Null ELSE CHOOSE v \in values : \A w \in values : v <= w
                    ELSE Null
    BY DEF RunStats, Extreme, Silent
  <2>3. stats = [f \in DOMAIN Silent |-> stats[f]]
    BY DEF RunStats, Silent
  <2> QED
    BY <2>1, <2>2, <2>3
<1>4. values # {} => (CHOOSE v \in values : \A w \in values : v <= w) \in values
  <2>1. values # {} => \E v \in values : \A w \in values : v <= w
    BY <1>2, LeastExists
  <2> QED
    BY <2>1
<1>5. stats.min = Null => ~contents.ordered \/ NotNull(rowsOf) = <<>>
  BY <1>2, <1>3, <1>4
<1> QED
  BY <1>3, <1>5

(* A profile gives a reason for every gap. *)
Explains(s, contents, came, says) ==
    LET rowsOf == Scan(s, contents.values)
        why(reasons) == says.withheld \cap (reasons \cup {"refused"}) # {}
    IN  /\ \A x \in ToSet(says.frequent) : x.count = Occurrences(x.value, rowsOf)
        /\ Shown(says.frequent) \subseteq Common(s, rowsOf)
        /\ \A v \in Common(s, rowsOf) \ Shown(says.frequent) :
             why({"top_k"}) \/ Len(says.frequent) = s.topK
        /\ says.frequent = <<>> => why({"top_k", "rare"})
        /\ says.min = Null => why({"unordered"}) \/ NotNull(rowsOf) = <<>>
        /\ says.samples = <<>> => \/ why({"sampling"})
                                  \/ came = "unsampled"
                                  \/ NotNull(contents.values) = <<>>

LEMMA ColumnExplains ==
  ASSUME NEW s, NEW contents, NEW c, NEW came, NEW wanted \in Nat, c \notin Sensitive,
         {s.scan, s.topK, s.threshold} \subseteq Nat, contents.values \in Seq(Nat),
         contents.ordered \in BOOLEAN
  PROVE  Explains(s, contents, came, ProfileColumn(s, c, contents, came, wanted))
<1> PICK says : says = ProfileColumn(s, c, contents, came, wanted)
  OBVIOUS
<1> PICK stats : stats = RunStats(s, contents)
  OBVIOUS
<1> PICK gates : gates = (IF contents.ordered THEN {} ELSE {"unordered"})
                           \cup (IF s.topK = 0 THEN {"top_k"} ELSE {})
  OBVIOUS
<1>1. CASE came = "refused"
  <2>1. says = [Silent EXCEPT !.withheld = gates \cup {"refused"}]
    BY <1>1 DEF ProfileColumn
  <2>2. says.frequent = <<>> /\ "refused" \in says.withheld
    BY <2>1 DEF Silent
  <2>3. ToSet(<<>>) = {}
    BY DEF ToSet
  <2>4. \A S : says.withheld \cap (S \cup {"refused"}) # {}
    BY <2>2
  <2>5. Shown(says.frequent) = {}
    BY <2>2, <2>3 DEF Shown
  <2> QED
    BY <2>2, <2>3, <2>4, <2>5 DEF Explains
<1>2. CASE came # "refused"
  <2>1. says = [stats EXCEPT
                  !.samples = IF came = "unsampled" THEN <<>> ELSE SampleValues(contents, wanted),
                  !.withheld = gates
                    \cup (IF s.topK > 0 /\ stats.frequent = <<>> THEN {"rare"} ELSE {})
                    \cup (IF wanted = 0 THEN {"sampling"} ELSE {})]
    BY <1>2 DEF ProfileColumn
  <2>2. /\ stats = [f \in DOMAIN Silent |-> stats[f]]
        /\ stats.frequent = Frequent(s, Scan(s, contents.values))
        /\ stats.min = Null => ~contents.ordered \/ NotNull(Scan(s, contents.values)) = <<>>
    BY RunStatsAre
  <2>3. {"samples", "withheld", "frequent", "min"} \subseteq DOMAIN stats
    <3>1. {"samples", "withheld", "frequent", "min"} \subseteq DOMAIN Silent
      BY DEF Silent
    <3> QED
      BY <2>2, <3>1
  <2>4. /\ says.frequent = stats.frequent /\ says.min = stats.min
        /\ says.samples = IF came = "unsampled" THEN <<>> ELSE SampleValues(contents, wanted)
        /\ says.withheld = gates
             \cup (IF s.topK > 0 /\ stats.frequent = <<>> THEN {"rare"} ELSE {})
             \cup (IF wanted = 0 THEN {"sampling"} ELSE {})
    BY <2>1, <2>3
  <2>5. says.samples = <<>> => \/ "sampling" \in says.withheld \/ came = "unsampled"
                               \/ NotNull(contents.values) = <<>>
    <3>1. NotNull(contents.values) \in Seq(Nat \ {Null})
      BY NotNullAre
    <3>2. SampleValues(contents, wanted) = <<>> => wanted = 0 \/ NotNull(contents.values) = <<>>
      BY <3>1, ScanIs DEF SampleValues
    <3> QED
      BY <2>4, <3>2
  <2>6. says.frequent = <<>> => "top_k" \in says.withheld \/ "rare" \in says.withheld
    <3>1. s.topK = 0 \/ s.topK > 0
      OBVIOUS
    <3> QED
      BY <2>4, <3>1
  <2>7. says.min = Null => \/ "unordered" \in says.withheld
                           \/ NotNull(Scan(s, contents.values)) = <<>>
    BY <2>2, <2>4
  <2>8. Scan(s, contents.values) \in Seq(Nat)
    BY ScanIs DEF Scan
  <2>9. /\ \A x \in ToSet(says.frequent) : x.count = Occurrences(x.value, Scan(s, contents.values))
        /\ Shown(says.frequent) \subseteq Common(s, Scan(s, contents.values))
        /\ \/ Len(says.frequent) = s.topK
           \/ Common(s, Scan(s, contents.values)) \subseteq Shown(says.frequent)
    BY <2>2, <2>4, <2>8, FrequentAre
  <2> QED
    BY <2>5, <2>6, <2>7, <2>9 DEF Explains
<1> QED
  BY <1>1, <1>2

(* The columns a profile takes and the columns it leaves out. *)
LEMMA ColumnsAccounted ==
  ASSUME NEW s, s.cap \in Nat, NEW known, IsFiniteSet(known), NEW requested, IsSeq(requested)
  PROVE  LET chosen == SelectColumns(s, known, requested)
         IN  /\ \E n \in Nat : DOMAIN chosen.taken = 1 .. n /\ Len(chosen.taken) = n
             /\ requested = <<>> => Len(chosen.taken) + chosen.omitted = Cardinality(known)
             /\ requested # <<>> /\ Len(requested) <= s.cap => Len(chosen.taken) = Len(requested)
<1> PICK names : names = IF requested = <<>> THEN SetToSeq(known) ELSE requested
  OBVIOUS
<1> PICK S : S = ToSet(requested) \cup known
  OBVIOUS
<1>1. names \in Seq(S)
  <2>1. PICK T : T = ToSet(requested)
    OBVIOUS
  <2>2. requested \in Seq(T) /\ SetToSeq(known) \in Seq(known)
    BY <2>1, SetToSeqLists DEF IsSeq
  <2>3. \A A : A \subseteq S => \A x \in Seq(A) : x \in Seq(S)
    OBVIOUS
  <2> QED
    BY <2>1, <2>2, <2>3
<1> PICK taken : taken = SubSeq(names, 1, Least(s.cap, Len(names)))
  OBVIOUS
<1>2. Len(taken) = Least(s.cap, Len(names)) /\ taken \in Seq(S) /\ Len(names) \in Nat
  <2> PICK cap \in Nat : cap = s.cap
    OBVIOUS
  <2>1. /\ Len(SubSeq(names, 1, Least(cap, Len(names)))) = Least(cap, Len(names))
        /\ SubSeq(names, 1, Least(cap, Len(names))) \in Seq(S)
    BY <1>1, ScanIs
  <2>2. Len(names) \in Nat
    BY <1>1
  <2> QED
    BY <2>1, <2>2
<1>c. PICK chosen : chosen = SelectColumns(s, known, requested)
  OBVIOUS
<1>3. chosen =
        [taken |-> taken, omitted |-> IF Len(names) > s.cap THEN Len(names) - s.cap ELSE 0]
  BY <1>c DEF SelectColumns
<1>4. Len(taken) + (IF Len(names) > s.cap THEN Len(names) - s.cap ELSE 0) = Len(names)
  BY <1>2 DEF Least
<1>5. Len(names) <= s.cap => Len(taken) = Len(names)
  BY <1>2 DEF Least
<1>6. requested = <<>> => Len(names) = Cardinality(known)
  BY SetToSeqLists
<1>7. \E n \in Nat : DOMAIN taken = 1 .. n /\ Len(taken) = n
  BY <1>2
<1>8. /\ chosen.taken = taken
      /\ chosen.omitted = IF Len(names) > s.cap THEN Len(names) - s.cap ELSE 0
  BY <1>3
<1>9. requested # <<>> => names = requested
  OBVIOUS
<1> QED
  BY <1>c, <1>4, <1>5, <1>6, <1>7, <1>8, <1>9

-------------------------------------------------------------------------------
(* What a question ends with: its failure, its verdict, what it retrieved  *)
(* and its profile.                                                        *)

USE LoadAssumption

(* Everything that is named is one of finitely many: the schemas, what an   *)
(* index run read of them, the catalog, and what was loaded of it.          *)
Named(columns) == \A t \in DOMAIN columns : IsFiniteSet(columns[t])

Finite ==
    /\ \A d \in Datasets : IsFiniteSet(DOMAIN live[d].tables) /\ Named(live[d].tables)
    /\ \A d \in Datasets, m \in Models : IsFiniteSet(rows[d][m])
    /\ IsFiniteSet(indexer.tables) /\ Named(indexer.columns)
    /\ \A db \in DOMAIN Fold : Named(scopes[db].catalog)

(* The elements of finitely many tables of finitely many columns. *)
LEMMA BuiltFinite ==
  ASSUME NEW tables, IsFiniteSet(tables), NEW columns, Named(columns)
  PROVE  IsFiniteSet(BuildRows(tables, columns))
<1> DEFINE whole == [t \in tables |-> <<t, NoName>>]
           parts == [t \in tables \cap DOMAIN columns |-> {<<t, c>> : c \in columns[t]}]
           wholes == {whole[t] : t \in DOMAIN whole}
           all == {parts[t] : t \in DOMAIN parts}
<1>1. IsFiniteSet(wholes)
  <2>1. DOMAIN whole = tables
    OBVIOUS
  <2> HIDE DEF whole
  <2> QED
    BY <2>1, ImageFinite
<1>2. \A T \in all : IsFiniteSet(T)
  <2> TAKE T \in all
  <2>1. PICK t \in tables \cap DOMAIN columns : T = {<<t, c>> : c \in columns[t]}
    OBVIOUS
  <2> DEFINE f == [c \in columns[t] |-> <<t, c>>]
  <2>2. T = {f[c] : c \in DOMAIN f} /\ DOMAIN f = columns[t]
    BY <2>1
  <2>3. IsFiniteSet(columns[t])
    BY DEF Named
  <2> HIDE DEF f
  <2> QED
    BY <2>2, <2>3, ImageFinite
<1>3. IsFiniteSet(all)
  <2>1. DOMAIN parts = tables \cap DOMAIN columns
    OBVIOUS
  <2>2. (tables \cap DOMAIN columns) \in SUBSET tables
    OBVIOUS
  <2>3. IsFiniteSet(DOMAIN parts)
    <3> HIDE DEF parts
    <3> QED
      BY <2>1, <2>2, FS_Subset
  <2> HIDE DEF parts
  <2> QED
    BY <2>3, ImageFinite
<1>4. BuildRows(tables, columns) = wholes \cup UNION all
  BY DEF BuildRows
<1> HIDE DEF wholes, all
<1>5. IsFiniteSet(UNION all)
  BY <1>2, <1>3, FS_UNION
<1> PICK A, B : A = wholes /\ B = UNION all
  OBVIOUS
<1>6. IsFiniteSet(A) /\ IsFiniteSet(B) /\ BuildRows(tables, columns) = A \cup B
  BY <1>1, <1>4, <1>5
<1>7. IsFiniteSet(A \cup B)
  BY ONLY <1>6, FS_Union
<1> QED
  BY <1>6, <1>7

(* A catalog that is loaded names finitely many columns of each table. *)
LEMMA LoadedFinite ==
  ASSUME Finite, NEW d \in Datasets
  PROVE  Named(LoadCatalog(d))
<1> DEFINE f == [m \in Models |-> rows[d][m]]
           all == {f[m] : m \in DOMAIN f}
<1>1. UNION {rows[d][m] : m \in Models} = UNION all /\ DOMAIN f = Models
      /\ \A T \in all : IsFiniteSet(T)
  BY DEF Finite
<1> HIDE DEF f
<1>2. IsFiniteSet(all)
  BY <1>1, ShapeAssumption, ImageFinite
<1> HIDE DEF all
<1> PICK elements : elements = UNION {rows[d][m] : m \in Models}
  OBVIOUS
<1>3. IsFiniteSet(elements)
  BY <1>1, <1>2, FS_UNION
<1>4. ASSUME NEW t PROVE IsFiniteSet({e[2] : e \in {x \in elements : x[1] = t}} \ {NoName})
  <2> DEFINE some == {x \in elements : x[1] = t}
             names == {e[2] : e \in some}
  <2>1. some \in SUBSET elements
    OBVIOUS
  <2> HIDE DEF some
  <2>2. IsFiniteSet(names)
    BY <1>3, <2>1, FS_Subset, NamedFinite
  <2>3. (names \ {NoName}) \in SUBSET names
    OBVIOUS
  <2> HIDE DEF names
  <2>4. IsFiniteSet(names \ {NoName})
    BY <2>2, <2>3, FS_Subset
  <2> QED
    BY <2>4 DEF names, some
<1> PICK catalog : catalog = LoadCatalog(d)
  OBVIOUS
<1>5. catalog = [t \in {e[1] : e \in elements} |->
                          {e[2] : e \in {x \in elements : x[1] = t}} \ {NoName}]
  BY DEF LoadCatalog
<1>6. \A t \in DOMAIN catalog : IsFiniteSet(catalog[t])
  BY ONLY <1>4, <1>5
<1> QED
  BY <1>6 DEF Named

LEMMA ShapesFinite ==
  ASSUME NEW s \in Shapes \cup {InitialShape[d] : d \in Datasets}
  PROVE  IsFiniteSet(DOMAIN s.tables) /\ Named(s.tables) /\ IsFiniteSet(ShapeRows(s))
<1>1. IsFiniteSet(DOMAIN s.tables) /\ Named(s.tables)
  BY ShapeAssumption DEF Named
<1> PICK tables : tables = s.tables
  OBVIOUS
<1>2. IsFiniteSet(BuildRows(DOMAIN tables, tables))
  BY <1>1, BuiltFinite
<1> QED
  BY <1>1, <1>2 DEF ShapeRows

LEMMA NothingNamed == Named(<<>>) /\ IsFiniteSet({})
BY FS_EmptySet DEF Named

LEMMA InitFinite == Init => Finite
<1> SUFFICES ASSUME Init PROVE Finite
  OBVIOUS
<1>1. \A d \in Datasets : IsFiniteSet(DOMAIN live[d].tables) /\ Named(live[d].tables)
  BY ShapesFinite DEF Init, InitCatalog
<1>2. \A d \in Datasets, m \in Models : IsFiniteSet(rows[d][m])
  <2> TAKE d \in Datasets, m \in Models
  <2>1. rows[d][m] = ShapeRows(InitialShape[d]) \/ rows[d][m] = {}
    BY DEF Init, InitCatalog
  <2>2. IsFiniteSet(ShapeRows(InitialShape[d]))
    BY ShapesFinite
  <2> QED
    BY <2>1, <2>2, NothingNamed
<1>3. IsFiniteSet(indexer.tables) /\ Named(indexer.columns)
  <2>1. indexer.tables = {} /\ indexer.columns = <<>>
    BY DEF Init, InitCatalog, NoIndex
  <2> QED
    BY <2>1, NothingNamed
<1>4. \A db \in DOMAIN Fold : Named(scopes[db].catalog)
  <2>1. \A db \in DOMAIN Fold : scopes[db].catalog = <<>>
    BY DEF Init, NoScope
  <2> QED
    BY <2>1, NothingNamed
<1> QED
  BY <1>1, <1>2, <1>3, <1>4 DEF Finite

LEMMA FiniteSchema ==
  ASSUME Indexed, Finite, Schema
  PROVE  Finite'
<1>0. /\ UNCHANGED scopes /\ DOMAIN live = Datasets /\ IsIndex(indexer)
      /\ indexer.at # "idle" => indexer.dataset \in Datasets /\ indexer.model \in Models
      /\ \A d \in Datasets : IsFiniteSet(DOMAIN live[d].tables) /\ Named(live[d].tables)
      /\ \A d \in Datasets, m \in Models : IsFiniteSet(rows[d][m])
      /\ IsFiniteSet(indexer.tables) /\ Named(indexer.columns)
      /\ \A db \in DOMAIN Fold : Named(scopes[db].catalog)
  BY DEF Schema, Quiet, Indexed, Finite
<1>s. \A db \in DOMAIN Fold : Named(scopes'[db].catalog)
  BY <1>0
<1>n. NoIndex.tables = {} /\ NoIndex.columns = <<>>
  BY DEF NoIndex
<1>1. ASSUME NEW d \in Datasets, NEW s \in Shapes, Migrate(d, s) PROVE Finite'
  <2>1. \A x \in Datasets : live'[x] = s \/ live'[x] = live[x]
    BY <1>0, <1>1 DEF Migrate
  <2>2. \A x \in Datasets : IsFiniteSet(DOMAIN live'[x].tables) /\ Named(live'[x].tables)
    BY <1>0, <2>1, ShapesFinite
  <2>3. UNCHANGED <<rows, indexer>>
    BY <1>1 DEF Migrate
  <2> QED
    BY <1>0, <1>s, <2>2, <2>3 DEF Finite
<1>2. ASSUME NEW d \in Datasets, NEW m \in Models, ReadColumns(d, m) PROVE Finite'
  <2>1. PICK columns : columns = live[d].tables
    OBVIOUS
  <2>2. /\ UNCHANGED <<rows, live>>
        /\ indexer' = [NoIndex EXCEPT !.at = "tables", !.dataset = d, !.model = m,
                                      !.columns = columns]
    BY <1>2, <2>1 DEF ReadColumns
  <2>3. indexer'.tables = {} /\ indexer'.columns = columns
    BY <2>2 DEF NoIndex
  <2> QED
    BY <1>0, <1>s, <2>1, <2>2, <2>3, NothingNamed DEF Finite
<1>3. ASSUME ReadTables PROVE Finite'
  <2>1. PICK tables : tables = DOMAIN live[indexer.dataset].tables
    OBVIOUS
  <2>2. /\ UNCHANGED <<rows, live>> /\ indexer.at = "tables"
        /\ indexer' = [indexer EXCEPT !.at = "keys", !.tables = tables]
    BY <1>3, <2>1 DEF ReadTables
  <2>3. indexer'.tables = tables /\ indexer'.columns = indexer.columns
    BY <1>0, <2>2 DEF IsIndex
  <2>4. IsFiniteSet(tables)
    BY <1>0, <2>1, <2>2
  <2> QED
    BY <1>0, <1>s, <2>2, <2>3, <2>4 DEF Finite
<1>4. ASSUME ReadKeys PROVE Finite'
  <2>1. PICK found : found = live[indexer.dataset].keys
    OBVIOUS
  <2>2. /\ UNCHANGED <<rows, live>>
        /\ indexer' = [indexer EXCEPT !.at = "commit", !.keys = found]
    BY <1>4, <2>1 DEF ReadKeys
  <2>3. indexer'.tables = indexer.tables /\ indexer'.columns = indexer.columns
    BY <1>0, <2>2 DEF IsIndex
  <2> QED
    BY <1>0, <1>s, <2>2, <2>3 DEF Finite
<1>5. ASSUME IndexNothing PROVE Finite'
  BY <1>0, <1>s, <1>n, <1>5, NothingNamed DEF IndexNothing, Finite
<1>6. ASSUME CommitIndex PROVE Finite'
  <2>w. PICK written : written = BuildRows(indexer.tables, indexer.columns)
    OBVIOUS
  <2>1. IsFiniteSet(written)
    <3>1. PICK tables, columns : tables = indexer.tables /\ columns = indexer.columns
      OBVIOUS
    <3> QED
      BY <1>0, <2>w, <3>1, BuiltFinite
  <2>d. PICK dataset, model : dataset = indexer.dataset /\ model = indexer.model
    OBVIOUS
  <2>2. /\ rows' = [rows EXCEPT ![dataset][model] = written]
        /\ UNCHANGED live /\ indexer' = NoIndex
    BY <1>6, <2>w, <2>d DEF CommitIndex
  <2>3. \A d \in Datasets, m \in Models : rows'[d][m] = rows[d][m] \/ rows'[d][m] = written
    <3>1. rows = [d \in Datasets |-> [m \in Models |-> RowsAt(log, Newest(log, Len(log), d, {m}))]]
      BY DEF Indexed
    <3> HIDE DEF RowsAt, Newest
    <3> QED
      BY <2>2, <3>1
  <2>4. \A d \in Datasets, m \in Models : IsFiniteSet(rows'[d][m])
    BY <1>0, <2>1, <2>3
  <2> QED
    BY <1>0, <1>s, <1>n, <2>2, <2>4, NothingNamed DEF Finite
<1> QED
  BY <1>1, <1>2, <1>3, <1>4, <1>5, <1>6 DEF Schema

(* A step of a question changes no schema, and a scope keeps the catalog it *)
(* has unless it is dropped or built.                                       *)
LEMMA FiniteScopes ==
  ASSUME Finite, UNCHANGED catalogVars, \A db \in DOMAIN Fold : Named(scopes'[db].catalog)
  PROVE  Finite'
BY DEF Finite, catalogVars

-------------------------------------------------------------------------------
(* What a question ends with. *)
IsList(s) == \E S : s \in Seq(S)
Reported(attempt) == IsAttempt(attempt) /\ IsList(attempt.retrieved)

(* A profile that is made gives its reasons, and speaks of the catalog. *)
Tells(p, catalog) ==
    /\ p.call.columns = <<>> => Len(p.columns) + p.omitted = Cardinality(catalog[p.call.table])
    /\ p.call.columns # <<>> => Len(p.columns) = Len(p.call.columns)
    /\ \A i \in DOMAIN p.columns :
         LET c == p.columns[i].column
             says == p.columns[i].says
         IN  IF c \in Sensitive THEN says = [Silent EXCEPT !.withheld = {"sensitive"}]
             ELSE IF c \notin DOMAIN p.held THEN "refused" \in says.withheld
             ELSE Explains(p.settings, p.held[c], p.came[c], says)

Raised == q.raised \in {"none"} \cup Classes
Judged ==
    q.verdict # "none" =>
      /\ q.result \in Load.results
      /\ q.verdict = Compare(q.result.predicted, q.result.gold, q.result.ordered)
Listing ==
    /\ pc # "idle" => q.gold \in Load.golds /\ q.ranking \in Load.rankings
    /\ IsList(q.context.elements) /\ Reported(q.attempt)
    /\ \A db \in DOMAIN Fold : IsList(scopes[db].elements)
Profiled == q.profile.made => pc = "done" /\ Tells(q.profile, scopes[q.db].catalog)

Ended == Raised /\ Judged /\ Listing /\ Profiled

(* The inductive invariant of an ending. *)
EInv == SInv /\ Finite /\ Ended

(* The fields that endings are about. *)
Endings == {"gold", "ranking", "raised", "result", "verdict", "profile"}

LEMMA Emptiness == IsList(<<>>) /\ Reported(NoAttempt)
<1>1. <<>> \in Seq({})
  OBVIOUS
<1>2. IsList(<<>>)
  BY <1>1 DEF IsList
<1>3. IsAttempt(NoAttempt) /\ NoAttempt.retrieved = <<>>
  BY DEF NoAttempt, IsAttempt
<1> QED
  BY <1>2, <1>3 DEF Reported

LEMMA UnaskedEnds ==
  /\ Unasked.raised = "none" /\ Unasked.verdict = "none" /\ Unasked.profile.made = FALSE
  /\ Unasked.context.elements = <<>> /\ Unasked.attempt = NoAttempt
BY DEF Unasked, NoProfile, NoContext

LEMMA InitEnded == Init => Ended
<1> SUFFICES ASSUME Init PROVE Ended
  OBVIOUS
<1>1. q = Unasked /\ pc = "idle" /\ \A db \in DOMAIN Fold : scopes[db].elements = <<>>
  BY DEF Init, NoScope
<1> QED
  BY <1>1, UnaskedEnds, Emptiness DEF Ended, Raised, Judged, Listing, Profiled

(* What was retrieved is a list, and so is what an attempt says of it. *)
LEMMA RetrievedLists ==
  ASSUME NEW context, IsList(context.elements)
  PROVE  IsList(RetrievedColumns(context))
<1> PICK elements : elements = context.elements
  OBVIOUS
<1>1. PICK S : elements \in Seq(S)
  BY DEF IsList
<1> PICK at : at = {i \in DOMAIN elements : elements[i][2] # NoName}
  OBVIOUS
<1>2. Len(elements) \in Nat /\ DOMAIN elements = 1 .. Len(elements)
  BY <1>1
<1>3. at \in SUBSET (1 .. Len(elements)) /\ at \in SUBSET Int
  BY <1>2
<1>4. IsFiniteSet(at)
  <2>1. PICK n \in Nat : n = Len(elements)
    BY <1>2
  <2>2. IsFiniteSet(1 .. n)
    BY ONLY n \in Nat, FS_Interval
  <2> QED
    BY ONLY <1>3, <2>1, <2>2, FS_Subset
<1>5. Picked(elements, at) \in Seq({elements[i] : i \in at})
  BY <1>3, <1>4, PickedAre
<1>6. RetrievedColumns(context) = Picked(elements, at)
  BY DEF RetrievedColumns
<1> QED
  BY <1>5, <1>6 DEF IsList

LEMMA AttemptsReport ==
  ASSUME IsList(q.context.elements), NEW error, NEW paid \in BOOLEAN
  PROVE  Reported(Failed(error)) /\ Reported(NoAnswer(error, paid)) /\ Reported(Candidate(error))
<1>1. Failed(error).retrieved = <<>>
  BY DEF Failed, NoAttempt
<1> PICK a : a = Failed(error)
  OBVIOUS
<1> PICK b : b = NoAnswer(error, paid)
  OBVIOUS
<1> PICK c : c = Candidate(error)
  OBVIOUS
<1>2. IsAttempt(a) /\ IsAttempt(b) /\ IsAttempt(c)
  BY Attempts
<1>3. IsList(a.retrieved) /\ IsList(b.retrieved) /\ IsList(c.retrieved)
  <2> PICK columns : columns = RetrievedColumns(q.context)
    OBVIOUS
  <2>1. a.retrieved = <<>> /\ b.retrieved = columns /\ c.retrieved = columns
    BY <1>1, Attempts
  <2>2. IsList(columns)
    BY RetrievedLists
  <2> QED
    BY <2>1, <2>2, Emptiness
<1> QED
  BY <1>2, <1>3 DEF Reported

(* A step of a question in hand that ends nothing. *)
LEMMA EndedKept ==
  ASSUME Ended, UNCHANGED load, pc \notin {"idle", "done"},
         \A f \in Endings \ {"raised"} : q'[f] = q[f],
         q'.raised = q.raised \/ q'.raised \in Classes,
         IsList(q'.context.elements), Reported(q'.attempt),
         \A db \in DOMAIN Fold : IsList(scopes'[db].elements)
  PROVE  Ended'
<1>1. /\ q'.gold = q.gold /\ q'.ranking = q.ranking /\ q'.result = q.result
      /\ q'.verdict = q.verdict /\ q'.profile = q.profile
  BY DEF Endings
<1>2. ~q'.profile.made
  BY <1>1 DEF Ended, Profiled
<1>3. Raised'
  BY DEF Ended, Raised
<1>4. Judged'
  BY <1>1 DEF Ended, Judged, Load
<1>5. Listing'
  BY <1>1 DEF Ended, Listing, Load
<1>6. Profiled'
  BY <1>2 DEF Profiled
<1> QED
  BY <1>3, <1>4, <1>5, <1>6 DEF Ended

LEMMA EndedStill ==
  ASSUME Ended, UNCHANGED <<load, pc, q, scopes>>
  PROVE  Ended'
BY DEF Ended, Raised, Judged, Listing, Profiled, Load

(* The schemas, the catalog and the elements of other steps. *)
LEMMA EndedScopes ==
  ASSUME Ended, UNCHANGED scopes
  PROVE  \A db \in DOMAIN Fold : IsList(scopes'[db].elements)
BY DEF Ended, Listing

LEMMA EndedAsk ==
  ASSUME QInv, Ended, Ask
  PROVE  Ended'
<1>1. PICK db \in Load.databases, gold \in Load.golds, ranking \in Load.rankings :
        q' = [Unasked EXCEPT !.db = db, !.gold = gold, !.ranking = ranking]
  BY DEF Ask
<1>2. Changed(Unasked, q', {"db", "gold", "ranking"}) /\ q'.gold = gold /\ q'.ranking = ranking
  BY <1>1, UnaskedQuestion DEF Changed, IsQuestion, Fields
<1>3. /\ q'.raised = "none" /\ q'.verdict = "none" /\ q'.profile.made = FALSE
      /\ q'.context.elements = <<>> /\ q'.attempt = NoAttempt
  BY <1>2, UnaskedEnds DEF Changed, Fields
<1>4. UNCHANGED <<load, scopes>>
  BY DEF Ask, asker
<1>5. \A d \in DOMAIN Fold : IsList(scopes'[d].elements)
  BY <1>4, EndedScopes
<1>6. Raised' /\ Judged' /\ Profiled'
  BY <1>3 DEF Raised, Judged, Profiled
<1>7. Listing'
  BY <1>2, <1>3, <1>4, <1>5, Emptiness DEF Listing, Load
<1> QED
  BY <1>6, <1>7 DEF Ended

(* An exception in a question. *)
LEMMA EndedRaise ==
  ASSUME Ended, UNCHANGED load, pc \notin {"idle", "done"},
         NEW record, IsQuestion(record), \A f \in Endings : record[f] = q[f],
         record.context = q.context,
         NEW class \in Classes, NEW attempt, Reported(attempt), Raise(record, class, attempt),
         \A db \in DOMAIN Fold : IsList(scopes'[db].elements)
  PROVE  Ended'
<1>1. \/ q' = [record EXCEPT !.raised = class, !.attempt = NoAttempt]
      \/ q' = [record EXCEPT !.attempt = attempt]
  BY DEF Raise, Return
<1>2. /\ q'.attempt = NoAttempt \/ q'.attempt = attempt
      /\ q'.raised = record.raised \/ q'.raised = class
      /\ \A f \in Fields \ {"raised", "attempt"} : q'[f] = record[f]
  BY <1>1 DEF IsQuestion, Fields
<1>3. /\ \A f \in Endings \ {"raised"} : q'[f] = q[f]
      /\ q'.context = q.context /\ record.raised = q.raised
  BY <1>2 DEF Fields, Endings
<1>4. Reported(q'.attempt)
  BY <1>2, Emptiness
<1>5. IsList(q'.context.elements)
  BY <1>3 DEF Ended, Listing
<1>6. q'.raised = q.raised \/ q'.raised \in Classes
  BY <1>2, <1>3
<1> QED
  BY <1>3, <1>4, <1>5, <1>6, EndedKept

LEMMA Raisable ==
  /\ {"RetrievalError", "DriverError", "SQLValidationError", "LLMResponseError"} \subseteq Classes
  /\ {"UnanswerableQuestionError", "StatementTimeoutError", "PermissionDeniedError"} \subseteq Classes
  /\ {"ExecutionError", "UnknownTableError", "ProfilingError"} \subseteq Classes
  /\ Providers \subseteq Classes
BY DEF Classes, Parent, Providers

LEMMA EndedRunGold ==
  ASSUME QInv, Ended, RunGold
  PROVE  Ended'
<1>1. PICK schema, failed : q' = [q EXCEPT !.goldIn = schema, !.goldFailed = failed]
  BY DEF RunGold
<1>2. \A f \in Fields \ {"goldIn", "goldFailed"} : q'[f] = q[f]
  BY <1>1 DEF QInv, IsQuestion, Fields
<1>3. UNCHANGED <<load, scopes>> /\ pc = "gold"
  BY DEF RunGold, Still, asker, Step
<1>4. q'.context = q.context /\ q'.attempt = q.attempt /\ \A f \in Endings : q'[f] = q[f]
  BY <1>2 DEF Fields, Endings
<1>5. IsList(q'.context.elements) /\ Reported(q'.attempt)
  BY <1>4 DEF Ended, Listing
<1>6. \A db \in DOMAIN Fold : IsList(scopes'[db].elements)
  BY <1>3, EndedScopes
<1>7. pc \notin {"idle", "done"}
  BY <1>3
<1>8. q'.raised = q.raised
  BY <1>4 DEF Endings
<1> QED
  BY <1>3, <1>4, <1>5, <1>6, <1>7, <1>8, EndedKept

(* A step of a question that only moves it, and a scope that keeps lists. *)
LEMMA EndedMoves ==
  ASSUME Ended, UNCHANGED <<load, q>>, pc \notin {"idle", "done"},
         \A db \in DOMAIN Fold : IsList(scopes'[db].elements)
  PROVE  Ended'
<1>1. IsList(q'.context.elements) /\ Reported(q'.attempt)
  BY DEF Ended, Listing
<1> QED
  BY <1>1, EndedKept

LEMMA EndedBuildScope ==
  ASSUME QInv, Ended, BuildScope
  PROVE  Ended'
<1>d. PICK d : d = DatasetFor(q.db)
  OBVIOUS
<1>c. PICK catalog : catalog = LoadCatalog(d)
  OBVIOUS
<1>0. pc = "scope" /\ UNCHANGED load /\ IsQuestion(q)
  BY DEF BuildScope, Still, asker, QInv
<1>1. CASE catalog = <<>>
  <2>1. Return(q, Failed("scope_unavailable")) /\ UNCHANGED scopes
    BY <1>1, <1>c, <1>d DEF BuildScope
  <2>2. PICK a : a = Failed("scope_unavailable")
    OBVIOUS
  <2>3. q' = [q EXCEPT !.attempt = a]
    BY <2>1, <2>2 DEF Return
  <2>4. /\ q'.attempt = a /\ \A f \in Endings : q'[f] = q[f]
        /\ q'.context = q.context /\ q'.raised = q.raised
    BY <1>0, <2>3 DEF IsQuestion, Fields, Endings
  <2>5. Reported(a)
    <3>1. a.retrieved = <<>>
      BY <2>2 DEF Failed, NoAttempt
    <3>2. IsAttempt(a)
      BY <2>2, Attempts
    <3> QED
      BY <3>1, <3>2, Emptiness DEF Reported
  <2>6. IsList(q'.context.elements) /\ Reported(q'.attempt)
    BY <2>4, <2>5 DEF Ended, Listing
  <2>7. \A db \in DOMAIN Fold : IsList(scopes'[db].elements)
    BY <2>1, EndedScopes
  <2> QED
    BY <1>0, <2>4, <2>6, <2>7, EndedKept
<1>2. CASE catalog # <<>>
  <2>1. PICK new : new = [NoScope EXCEPT !.dataset = d, !.catalog = catalog]
    OBVIOUS
  <2>2. scopes' = [scopes EXCEPT ![q.db] = new] /\ UNCHANGED q
    BY <1>2, <1>c, <1>d, <2>1 DEF BuildScope
  <2>3. new.elements = <<>>
    BY <2>1 DEF NoScope
  <2>4. \A db \in DOMAIN Fold : scopes'[db] = scopes[db] \/ scopes'[db] = new
    BY <2>2 DEF QInv, Scoped
  <2>5. \A db \in DOMAIN Fold : IsList(scopes'[db].elements)
    BY <2>3, <2>4, Emptiness DEF Ended, Listing
  <2> QED
    BY <1>0, <2>2, <2>5, EndedMoves
<1> QED
  BY <1>1, <1>2

(* A function on the first n numbers is a list. *)
LEMMA ListOf ==
  ASSUME NEW n \in Nat, NEW s, s = [i \in 1 .. n |-> s[i]]
  PROVE  IsList(s)
<1> DEFINE S == {s[i] : i \in 1 .. n}
<1>1. \A i \in 1 .. n : s[i] \in S
  OBVIOUS
<1> HIDE DEF S
<1>2. s \in [1 .. n -> S]
  BY <1>1
<1>3. s \in Seq(S)
  BY <1>2
<1> QED
  BY <1>3 DEF IsList

LEMMA EndedReadFullElements ==
  ASSUME QInv, Ended, ReadFullElements
  PROVE  Ended'
<1> PICK n, elements : /\ n \in Nat /\ elements = [i \in 1 .. n |-> elements[i]]
                       /\ scopes' = [scopes EXCEPT ![q.db].elements = elements]
  <2> DEFINE held == rows[scopes[q.db].dataset]
             found == {p \in (DOMAIN ElementOrder) \X Models : ElementOrder[p[1]] \in held[p[2]]}
             upTo(i) == Cardinality({p \in found : p[1] <= i})
             at(m) == ElementOrder[CHOOSE i \in DOMAIN ElementOrder : upTo(i - 1) < m /\ m <= upTo(i)]
             all == [m \in 1 .. Cardinality(found) |-> at(m)]
  <2>1. scopes' = [scopes EXCEPT ![q.db].elements = all]
    BY DEF ReadFullElements
  <2>2. IsFiniteSet(DOMAIN ElementOrder)
    <3>1. PICK order, S : order = ElementOrder /\ S = ToSet(order)
      OBVIOUS
    <3>2. order \in Seq(S)
      BY <3>1 DEF IsSeq
    <3>3. DOMAIN order = 1 .. Len(order) /\ Len(order) \in Nat
      BY <3>2
    <3>4. PICK n \in Nat : n = Len(order)
      BY <3>3
    <3>5. IsFiniteSet(1 .. n)
      BY ONLY n \in Nat, FS_Interval
    <3> QED
      BY ONLY <3>1, <3>3, <3>4, <3>5
  <2>3. IsFiniteSet((DOMAIN ElementOrder) \X Models)
    BY <2>2, ShapeAssumption, FS_Product
  <2>4. found \in SUBSET ((DOMAIN ElementOrder) \X Models)
    OBVIOUS
  <2>5. Cardinality(found) \in Nat
    <3> HIDE DEF found
    <3> QED
      BY <2>3, <2>4, FS_Subset, FS_CardinalityType
  <2>6. all = [m \in 1 .. Cardinality(found) |-> all[m]]
    <3> HIDE DEF at, found
    <3> QED
      OBVIOUS
  <2> HIDE DEF all, found
  <2> QED
    BY <2>1, <2>5, <2>6
<1>0. pc = "elements" /\ UNCHANGED <<load, q>>
  BY DEF ReadFullElements, Still, asker, Step
<1>1. IsList(elements)
  BY ListOf
<1>2. \A db \in DOMAIN Fold : scopes'[db].elements = scopes[db].elements
                              \/ scopes'[db].elements = elements
  <2>1. \A db \in DOMAIN Fold : IsScope(scopes[db])
    BY DEF QInv, Scoped
  <2>2. PICK db, s : db = q.db /\ s = [scopes[db] EXCEPT !.elements = elements]
    OBVIOUS
  <2>3. scopes' = [scopes EXCEPT ![db] = s]
    BY ONLY <2>2, scopes' = [scopes EXCEPT ![q.db].elements = elements]
  <2>4. db \in DOMAIN Fold => s.elements = elements
    BY <2>1, <2>2 DEF IsScope
  <2>5. scopes = [d \in DOMAIN Fold |-> scopes[d]]
    BY DEF QInv, Scoped
  <2> QED
    BY ONLY <2>3, <2>4, <2>5
<1>3. \A db \in DOMAIN Fold : IsList(scopes'[db].elements)
  BY <1>1, <1>2 DEF Ended, Listing
<1> QED
  BY <1>0, <1>3, EndedMoves

LEMMA EndedReadFullEdges ==
  ASSUME QInv, Ended, ReadFullEdges
  PROVE  Ended'
<1>0. pc = "edges" /\ UNCHANGED <<load, q>>
  BY DEF ReadFullEdges, Still, asker, Step
<1>1. PICK edges : scopes' = [scopes EXCEPT ![q.db].edges = edges]
  BY DEF ReadFullEdges
<1>2. \A db \in DOMAIN Fold : scopes'[db].elements = scopes[db].elements
  <2>1. \A db \in DOMAIN Fold : IsScope(scopes[db])
    BY DEF QInv, Scoped
  <2>2. PICK db, s : db = q.db /\ s = [scopes[db] EXCEPT !.edges = edges]
    OBVIOUS
  <2>3. scopes' = [scopes EXCEPT ![db] = s]
    BY ONLY <1>1, <2>2
  <2>4. db \in DOMAIN Fold => s.elements = scopes[db].elements
    BY <2>1, <2>2 DEF IsScope
  <2>5. scopes = [d \in DOMAIN Fold |-> scopes[d]]
    BY DEF QInv, Scoped
  <2> QED
    BY ONLY <2>3, <2>4, <2>5
<1>3. \A db \in DOMAIN Fold : IsList(scopes'[db].elements)
  BY <1>2 DEF Ended, Listing
<1> QED
  BY <1>0, <1>3, EndedMoves

LEMMA HitsAreList ==
  ASSUME NEW ranking, IsSeq(ranking), NEW index, NEW k \in Nat
  PROVE  IsList(SubSeq(Hits(ranking, index), 1, Least(k, Len(Hits(ranking, index)))))
<1> PICK S : S = ToSet(ranking)
  OBVIOUS
<1>1. ranking \in Seq(S)
  BY DEF IsSeq
<1>2. Len(ranking) \in Nat /\ DOMAIN ranking = 1 .. Len(ranking)
  BY <1>1
<1> PICK at : at = {i \in DOMAIN ranking : ranking[i] \in index}
  OBVIOUS
<1>3. at \in SUBSET (1 .. Len(ranking)) /\ at \in SUBSET Int
  BY <1>2
<1>4. IsFiniteSet(at)
  <2>1. IsFiniteSet(1 .. Len(ranking))
    BY <1>2, FS_Interval
  <2> QED
    BY <1>3, <2>1, FS_Subset
<1> PICK T : T = {ranking[i] : i \in at}
  OBVIOUS
<1> PICK hits : hits = Hits(ranking, index)
  OBVIOUS
<1>5. hits \in Seq(T)
  BY <1>3, <1>4, PickedAre DEF Hits
<1>6. SubSeq(hits, 1, Least(k, Len(hits))) \in Seq(T)
  BY <1>5, ScanIs
<1> QED
  BY <1>6 DEF IsList

LEMMA EndedSearches ==
  ASSUME QInv, Searched, Ended, UseFullSchema \/ Search \/ SearchJoins
  PROVE  Ended'
<1>0. pc \in {"retrieve", "edges"} /\ UNCHANGED <<load, scopes>> /\ IsQuestion(q)
  BY DEF UseFullSchema, Search, SearchJoins, Still, asker, Step, QInv
<1>1. q.db \in DOMAIN Fold
  BY <1>0 DEF QInv, AtHome
<1>2. PICK c : q' = [q EXCEPT !.context = c] /\ IsList(c.elements)
  <2>1. CASE UseFullSchema
    <3>1. PICK elements, edges : elements = scopes[q.db].elements /\ edges = scopes[q.db].edges
      OBVIOUS
    <3>2. PICK c : c = [known |-> TRUE, elements |-> elements, edges |-> edges, since |-> 0]
      OBVIOUS
    <3>3. q' = [q EXCEPT !.context = c]
      BY <2>1, <3>1, <3>2 DEF UseFullSchema
    <3>4. c.elements = elements
      BY <3>2
    <3> QED
      BY <1>1, <3>1, <3>3, <3>4 DEF Ended, Listing
  <2>2. CASE Search
    <3>1. PICK elements, since :
            /\ elements = SearchElements(scopes[q.db].dataset, Model, q.ranking, TopK)
            /\ since = Len(log)
      OBVIOUS
    <3>2. PICK c : c = [known |-> FALSE, elements |-> elements, edges |-> {}, since |-> since]
      OBVIOUS
    <3>3. q' = [q EXCEPT !.context = c]
      BY <2>2, <3>1, <3>2 DEF Search
    <3>4. c.elements = elements
      BY <3>2
    <3>5. PICK ranking : ranking = q.ranking
      OBVIOUS
    <3>6. IsSeq(ranking)
      BY <1>0, <3>5 DEF Ended, Listing, Load, QInv
    <3>7. IsList(elements)
      BY <3>1, <3>5, <3>6, HitsAreList DEF SearchElements
    <3> QED
      BY <3>3, <3>4, <3>7
  <2>3. CASE SearchJoins
    <3>1. PICK edges : q' = [q EXCEPT !.context.known = TRUE, !.context.edges = edges]
      BY <2>3 DEF SearchJoins
    <3>2. PICK old : old = q.context
      OBVIOUS
    <3>3. PICK c : c = [old EXCEPT !.known = TRUE, !.edges = edges]
      OBVIOUS
    <3>4. IsContext(old)
      BY <3>2 DEF Searched
    <3>5. c.elements = old.elements
      BY <3>3, <3>4 DEF IsContext
    <3>6. q' = [q EXCEPT !.context = c]
      BY <1>0, <3>1, <3>2, <3>3 DEF IsQuestion, Fields
    <3> QED
      BY <3>2, <3>5, <3>6 DEF Ended, Listing
  <2> QED
    BY <2>1, <2>2, <2>3
<1>3. /\ q'.context = c /\ q'.attempt = q.attempt /\ q'.raised = q.raised
      /\ \A f \in Endings : q'[f] = q[f]
  BY <1>0, <1>2 DEF IsQuestion, Fields, Endings
<1>4. IsList(q'.context.elements) /\ Reported(q'.attempt)
  BY <1>2, <1>3 DEF Ended, Listing
<1>5. \A db \in DOMAIN Fold : IsList(scopes'[db].elements)
  BY <1>0, EndedScopes
<1>6. pc \notin {"idle", "done"}
  BY <1>0
<1> QED
  BY <1>0, <1>3, <1>4, <1>5, <1>6, EndedKept

(* An exception in a question that changes nothing else. *)
LEMMA EndedRaises ==
  ASSUME QInv, Ended, UNCHANGED load, pc \notin {"idle", "done"},
         \A db \in DOMAIN Fold : IsList(scopes'[db].elements),
         NEW class \in Classes, NEW attempt, Reported(attempt), Raise(q, class, attempt)
  PROVE  Ended'
<1> PICK record : record = q
  OBVIOUS
<1>1. /\ IsQuestion(record) /\ \A f \in Endings : record[f] = q[f]
      /\ record.context = q.context /\ Raise(record, class, attempt)
  BY DEF QInv
<1> QED
  BY <1>1, EndedRaise

LEMMA EndedLosesContext ==
  ASSUME QInv, Ended, LosesContext
  PROVE  Ended'
<1>0. pc \notin {"idle", "done"} /\ UNCHANGED load
  BY DEF LosesContext, Still, asker
<1>1. \A db \in DOMAIN Fold : IsList(scopes'[db].elements)
  <2>1. scopes' = scopes \/ scopes' = [scopes EXCEPT ![q.db] = NoScope]
    BY DEF LosesContext
  <2>2. PICK none : none = NoScope
    OBVIOUS
  <2>3. none.elements = <<>>
    BY <2>2 DEF NoScope
  <2>4. \A db \in DOMAIN Fold : scopes'[db] = scopes[db] \/ scopes'[db] = none
    BY <2>1, <2>2 DEF QInv, Scoped
  <2> QED
    BY <2>3, <2>4, Emptiness DEF Ended, Listing
<1>2. IsList(q.context.elements)
  BY DEF Ended, Listing
<1>3. PICK a, b : a = Failed("retrieval_failed") /\ b = Failed("internal_error")
  OBVIOUS
<1>4. Reported(a) /\ Reported(b)
  BY <1>2, <1>3, AttemptsReport
<1>5. Raise(q, "RetrievalError", a) \/ Raise(q, "DriverError", b)
  BY <1>3 DEF LosesContext
<1> QED
  BY <1>0, <1>1, <1>4, <1>5, Raisable, EndedRaises

LEMMA EndedModelFails ==
  ASSUME QInv, Ended, NEW class \in Providers, ModelFails(class)
  PROVE  Ended'
<1>0. pc = "generate" /\ UNCHANGED <<load, scopes>>
  BY DEF ModelFails, Still, asker
<1>1. \A db \in DOMAIN Fold : IsList(scopes'[db].elements)
  BY <1>0, EndedScopes
<1>2. PICK a : a = NoAnswer("llm_failed", FALSE)
  OBVIOUS
<1>3. Reported(a)
  BY <1>2, AttemptsReport DEF Ended, Listing
<1>4. Raise(q, class, a)
  BY <1>2 DEF ModelFails
<1> QED
  BY <1>0, <1>1, <1>3, <1>4, Raisable, EndedRaises

LEMMA EndedGenerate ==
  ASSUME QInv, Ended, NEW reply \in Load.replies, Generate(reply)
  PROVE  Ended'
<1>0. pc = "generate" /\ UNCHANGED <<load, scopes>>
  BY DEF Generate, Still, asker
<1>1. \A db \in DOMAIN Fold : IsList(scopes'[db].elements)
  BY <1>0, EndedScopes
<1>t. PICK text : text = StripFormatting(reply)
  OBVIOUS
<1>r. PICK read : read = [q EXCEPT !.reply = reply, !.taken = text]
  OBVIOUS
<1>2. /\ IsQuestion(read) /\ \A f \in Endings : read[f] = q[f]
      /\ read.context = q.context /\ read.attempt = q.attempt
  BY <1>r DEF QInv, IsQuestion, Fields, Endings
<1>a. PICK a, b, c : /\ a = NoAnswer("llm_failed", FALSE) /\ b = NoAnswer("unanswerable", TRUE)
                     /\ c = Candidate("none")
  OBVIOUS
<1>3. Reported(a) /\ Reported(b) /\ Reported(c) /\ Reported(q.attempt) /\ IsList(q.context.elements)
  <2>1. Reported(q.attempt) /\ IsList(q.context.elements)
    BY DEF Ended, Listing
  <2>2. Reported(a)
    BY <1>a, <2>1, AttemptsReport
  <2>3. Reported(b)
    BY <1>a, <2>1, AttemptsReport
  <2>4. Reported(c)
    BY <1>a, <2>1, AttemptsReport
  <2> QED
    BY <2>1, <2>2, <2>3, <2>4
<1>4. CASE text = <<>>
  <2>1. Raise(read, "LLMResponseError", a)
    BY <1>4, <1>t, <1>r, <1>a DEF Generate
  <2> QED
    BY <1>0, <1>1, <1>2, <1>3, <2>1, Raisable, EndedRaise
<1>5. CASE text # <<>> /\ Head(text) = "cannot"
  <2>1. Raise(read, "UnanswerableQuestionError", b)
    BY <1>5, <1>t, <1>r, <1>a DEF Generate
  <2> QED
    BY <1>0, <1>1, <1>2, <1>3, <2>1, Raisable, EndedRaise
<1>6. CASE text # <<>> /\ Head(text) # "cannot"
  <2>1. PICK sql, attempt : /\ q' = [read EXCEPT !.sql = sql, !.attempt = attempt]
                            /\ attempt \in {read.attempt, c}
    BY <1>6, <1>t, <1>r, <1>a DEF Generate
  <2>2. /\ q'.attempt = attempt /\ q'.context = q.context
        /\ \A f \in Endings : q'[f] = q[f]
    BY <1>2, <2>1 DEF IsQuestion, Fields, Endings
  <2>3. q'.raised = q.raised
    BY <2>2 DEF Endings
  <2>4. IsList(q'.context.elements) /\ Reported(q'.attempt)
    BY <1>2, <1>3, <2>1, <2>2
  <2> QED
    BY <1>0, <1>1, <2>2, <2>3, <2>4, EndedKept
<1> QED
  BY <1>4, <1>5, <1>6

LEMMA EndedValidate ==
  ASSUME QInv, Ended, Validate
  PROVE  Ended'
<1>0. pc = "validate" /\ UNCHANGED <<load, scopes>>
  BY DEF Validate, Still, asker
<1>l. \A db \in DOMAIN Fold : IsList(scopes'[db].elements)
  BY <1>0, EndedScopes
<1>q. IsList(q.context.elements) /\ IsQuestion(q)
  BY DEF Ended, Listing, QInv
<1>1. ASSUME NEW record, IsQuestion(record), \A f \in Endings : record[f] = q[f],
             record.context = q.context, NEW error, Reject(record, error)
      PROVE  Ended'
  <2>1. PICK a : a = Candidate(error)
    OBVIOUS
  <2>2. Raise(record, "SQLValidationError", a)
    BY <1>1, <2>1 DEF Reject
  <2>3. Reported(a)
    BY <1>q, <2>1, AttemptsReport
  <2> QED
    BY <1>0, <1>l, <1>1, <2>2, <2>3, Raisable, EndedRaise
<1>s. PICK static : static = ValidateStatic(scopes[q.db].catalog, q.sql)
  OBVIOUS
<1>2. CASE static # "ok"
  <2>1. PICK record : record = [q EXCEPT !.stage = "static"]
    OBVIOUS
  <2>2. Reject(record, static)
    BY <1>2, <1>s, <2>1 DEF Validate
  <2>3. IsQuestion(record) /\ record.context = q.context /\ \A f \in Endings : record[f] = q[f]
    BY <1>q, <2>1 DEF IsQuestion, Fields, Endings
  <2> QED
    BY <1>1, <2>2, <2>3
<1>3. CASE static = "ok"
  <2>p. PICK p : p = path'
    OBVIOUS
  <2>1. PICK record : record = [q EXCEPT !.stage = "explain", !.explainedIn = p]
    OBVIOUS
  <2>2. IsQuestion(record) /\ record.context = q.context /\ \A f \in Endings : record[f] = q[f]
    BY <1>q, <2>1 DEF IsQuestion, Fields, Endings
  <2>3. PICK outcome \in Explained(live[path'].tables, q.sql) :
          IF outcome # "ok" THEN Reject(record, outcome)
          ELSE q' = [record EXCEPT !.attempt = Candidate("none")]
    BY <1>3, <1>s, <2>p, <2>1 DEF Validate
  <2>4. CASE outcome # "ok"
    BY <1>1, <2>2, <2>3, <2>4
  <2>5. CASE outcome = "ok"
    <3>a. PICK a : a = Candidate("none")
      OBVIOUS
    <3>1. q' = [record EXCEPT !.attempt = a]
      BY <2>3, <2>5, <3>a
    <3>2. q'.attempt = a /\ q'.context = q.context /\ \A f \in Endings : q'[f] = q[f]
      BY <2>2, <3>1 DEF IsQuestion, Fields, Endings
    <3>3. q'.raised = q.raised
      BY <3>2 DEF Endings
    <3>4. IsList(q'.context.elements) /\ Reported(q'.attempt)
      BY <1>q, <3>2, <3>a, AttemptsReport
    <3> QED
      BY <1>0, <1>l, <3>2, <3>3, <3>4, EndedKept
  <2> QED
    BY <2>4, <2>5
<1> QED
  BY <1>2, <1>3

LEMMA EndedFails ==
  ASSUME QInv, Ended, ActivateFails \/ ProfileFails
  PROVE  Ended'
<1>0. pc \in {"validate", "profile"} /\ UNCHANGED <<load, scopes>>
  BY DEF ActivateFails, ProfileFails, Still, asker
<1>1. \A db \in DOMAIN Fold : IsList(scopes'[db].elements)
  BY <1>0, EndedScopes
<1>2. PICK a, b : a = Failed("internal_error") /\ b = NoAttempt
  OBVIOUS
<1>3. Reported(a) /\ Reported(b)
  BY <1>2, AttemptsReport, Emptiness DEF Ended, Listing
<1>4. Raise(q, "DriverError", a) \/ Raise(q, "DriverError", b)
  BY <1>2 DEF ActivateFails, ProfileFails
<1>5. pc \notin {"idle", "done"}
  BY <1>0
<1> QED
  BY <1>0, <1>1, <1>3, <1>4, <1>5, Raisable, EndedRaises

LEMMA EndedExecute ==
  ASSUME QInv, Ended, Execute
  PROVE  Ended'
<1>0. pc = "run" /\ UNCHANGED <<load, scopes>> /\ IsQuestion(q)
  BY DEF Execute, Still, asker, QInv
<1>l. \A db \in DOMAIN Fold : IsList(scopes'[db].elements)
  BY <1>0, EndedScopes
<1>1. CASE \E page : q' = [q EXCEPT !.ranIn = path, !.page = page]
  <2>1. PICK p, page : q' = [q EXCEPT !.ranIn = p, !.page = page]
    BY <1>1
  <2>2. q'.attempt = q.attempt /\ q'.context = q.context /\ \A f \in Endings : q'[f] = q[f]
    BY <1>0, <2>1 DEF IsQuestion, Fields, Endings
  <2>3. q'.raised = q.raised
    BY <2>2 DEF Endings
  <2>4. IsList(q'.context.elements) /\ Reported(q'.attempt)
    BY <2>2 DEF Ended, Listing
  <2> QED
    BY <1>0, <1>l, <2>2, <2>3, <2>4, EndedKept
<1>2. CASE \E class \in {"StatementTimeoutError", "PermissionDeniedError", "ExecutionError"} :
             Raise([q EXCEPT !.ranIn = path], class, NoAttempt)
  <2>0. PICK p, a : p = path /\ a = NoAttempt
    OBVIOUS
  <2>1. PICK record : record = [q EXCEPT !.ranIn = p]
    OBVIOUS
  <2>2. PICK class \in Classes : Raise(record, class, a)
    BY <1>2, <2>0, <2>1, Raisable
  <2>3. IsQuestion(record) /\ record.context = q.context /\ \A f \in Endings : record[f] = q[f]
    BY <1>0, <2>1 DEF IsQuestion, Fields, Endings
  <2> QED
    BY <1>0, <1>l, <2>0, <2>2, <2>3, Emptiness, EndedRaise
<1> QED
  BY <1>1, <1>2 DEF Execute

(* The only step that gives a verdict. *)
LEMMA EndedRunPredicted ==
  ASSUME QInv, Ended, RunPredicted
  PROVE  Ended'
<1>0. pc = "run" /\ UNCHANGED <<load, scopes>> /\ IsQuestion(q) /\ q.db \in DOMAIN Fold
  BY DEF RunPredicted, Step, Still, asker, QInv, AtHome
<1>l. \A db \in DOMAIN Fold : IsList(scopes'[db].elements)
  BY <1>0, EndedScopes
<1>s. PICK schema : schema = RunnerSchema(q.db)
  OBVIOUS
<1>1. CASE \E r \in Load.results :
             q' = [[q EXCEPT !.ranIn = schema] EXCEPT
                     !.result = r, !.verdict = Compare(r.predicted, r.gold, r.ordered)]
  <2>1. PICK r, v :
          /\ r \in Load.results /\ v = Compare(r.predicted, r.gold, r.ordered)
          /\ q' = [[q EXCEPT !.ranIn = schema] EXCEPT !.result = r, !.verdict = v]
    BY <1>1
  <2>2. /\ q'.result = r /\ q'.verdict = v /\ q'.attempt = q.attempt /\ q'.context = q.context
        /\ q'.raised = q.raised /\ q'.gold = q.gold /\ q'.ranking = q.ranking
        /\ q'.profile = q.profile
    BY <1>0, <2>1 DEF IsQuestion, Fields
  <2>3. Judged'
    BY <1>0, <2>1, <2>2 DEF Judged, Load
  <2>4. Listing'
    BY <1>0, <1>l, <2>2 DEF Ended, Listing, Load
  <2>5. Raised' /\ Profiled'
    BY <1>0, <2>2 DEF Ended, Raised, Profiled
  <2> QED
    BY <2>3, <2>4, <2>5 DEF Ended
<1>2. CASE q' = [[q EXCEPT !.ranIn = schema] EXCEPT !.attempt.error = "execution_failed"]
  <2>1. PICK old : old = q.attempt
    OBVIOUS
  <2>2. PICK new : new = [old EXCEPT !.error = "execution_failed"]
    OBVIOUS
  <2>3. q' = [[q EXCEPT !.ranIn = schema] EXCEPT !.attempt = new]
    BY <1>0, <1>2, <2>1, <2>2 DEF IsQuestion, Fields
  <2>4. q'.attempt = new /\ q'.context = q.context /\ \A f \in Endings : q'[f] = q[f]
    BY <1>0, <2>3 DEF IsQuestion, Fields, Endings
  <2>5. q'.raised = q.raised
    BY <2>4 DEF Endings
  <2>6. IsAttempt(old) /\ IsList(old.retrieved) /\ IsList(q.context.elements)
    BY <2>1 DEF Ended, Listing, Reported
  <2>7. IsAttempt(new) /\ new.retrieved = old.retrieved
    BY <2>2, <2>6 DEF IsAttempt
  <2>8. IsList(q'.context.elements) /\ Reported(q'.attempt)
    BY <2>4, <2>6, <2>7 DEF Reported
  <2> QED
    BY <1>0, <1>l, <2>4, <2>5, <2>8, EndedKept
<1>3. \/ \E r \in Load.results :
           q' = [[q EXCEPT !.ranIn = schema] EXCEPT
                   !.result = r, !.verdict = Compare(r.predicted, r.gold, r.ordered)]
      \/ q' = [[q EXCEPT !.ranIn = schema] EXCEPT !.attempt.error = "execution_failed"]
  BY <1>s DEF RunPredicted
<1> QED
  BY <1>1, <1>2, <1>3

(* The profile ProfileTable makes of the columns it takes. *)
Describes(p, s, call, chosen, contents, outcome, gone) ==
    /\ p.settings = s /\ p.call = call /\ p.held = contents /\ p.came = outcome
    /\ p.omitted = chosen.omitted
    /\ p.columns = [i \in DOMAIN chosen.taken |->
         [column |-> chosen.taken[i],
          says |-> ProfileColumn(s, chosen.taken[i],
                     IF chosen.taken[i] \in DOMAIN contents THEN contents[chosen.taken[i]] ELSE gone,
                     IF chosen.taken[i] \in DOMAIN outcome THEN outcome[chosen.taken[i]] ELSE "refused",
                     ClampSampleRows(s, call.samples))]]

(* What the profiler makes of the columns it takes is what a profile has to *)
(* say.                                                                     *)
LEMMA ProfileTells ==
  ASSUME NEW s, {s.scan, s.cap, s.topK, s.threshold, s.sampleRows} \subseteq Nat,
         NEW call, IsSeq(call.columns), call.samples.n \in Nat, FitsSchema(s, call),
         NEW catalog, IsFiniteSet(catalog[call.table]),
         NEW chosen, chosen = SelectColumns(s, catalog[call.table], call.columns),
         NEW All, \A x \in All : x.ordered \in BOOLEAN /\ x.values \in Seq(Nat),
         NEW readable, NEW contents \in [readable -> All],
         NEW outcome, DOMAIN outcome = readable,
         NEW gone, NEW p, Describes(p, s, call, chosen, contents, outcome, gone)
  PROVE  Tells(p, catalog)
<1>0. /\ p.settings = s /\ p.call = call /\ p.held = contents /\ p.came = outcome
      /\ p.omitted = chosen.omitted
      /\ p.columns = [i \in DOMAIN chosen.taken |->
           [column |-> chosen.taken[i],
            says |-> ProfileColumn(s, chosen.taken[i],
                       IF chosen.taken[i] \in DOMAIN contents THEN contents[chosen.taken[i]] ELSE gone,
                       IF chosen.taken[i] \in DOMAIN outcome THEN outcome[chosen.taken[i]] ELSE "refused",
                       ClampSampleRows(s, call.samples))]]
  BY DEF Describes
<1> PICK wanted : wanted = ClampSampleRows(s, call.samples)
  OBVIOUS
<1>1. wanted \in Nat
  BY DEF ClampSampleRows, Least
<1> PICK known : known = catalog[call.table]
  OBVIOUS
<1> PICK requested : requested = call.columns
  OBVIOUS
<1>2. /\ \E n \in Nat : DOMAIN chosen.taken = 1 .. n /\ Len(chosen.taken) = n
      /\ requested = <<>> => Len(chosen.taken) + chosen.omitted = Cardinality(known)
      /\ requested # <<>> /\ Len(requested) <= s.cap => Len(chosen.taken) = Len(requested)
  <2>1. s.cap \in Nat /\ IsFiniteSet(known) /\ IsSeq(requested)
    OBVIOUS
  <2>2. chosen = SelectColumns(s, known, requested)
    OBVIOUS
  <2> QED
    BY ONLY <2>1, <2>2, ColumnsAccounted
<1>3. Len(p.columns) = Len(chosen.taken) /\ DOMAIN p.columns = DOMAIN chosen.taken
  <2>1. PICK n \in Nat : DOMAIN chosen.taken = 1 .. n /\ Len(chosen.taken) = n
    BY <1>2
  <2>2. DOMAIN p.columns = 1 .. n
    BY <1>0, <2>1
  <2>3. PICK columns : columns = p.columns
    OBVIOUS
  <2>4. columns = [i \in 1 .. n |-> columns[i]]
    BY <1>0, <2>1, <2>3
  <2>5. Len(columns) = n
    BY ONLY <2>4, n \in Nat
  <2> QED
    BY <2>1, <2>2, <2>3, <2>5
<1>4. requested # <<>> => Len(requested) <= s.cap
  BY DEF FitsSchema
<1>5. ASSUME NEW i \in DOMAIN p.columns
      PROVE  LET c == p.columns[i].column
                 says == p.columns[i].says
             IN  IF c \in Sensitive THEN says = [Silent EXCEPT !.withheld = {"sensitive"}]
                 ELSE IF c \notin DOMAIN p.held THEN "refused" \in says.withheld
                 ELSE Explains(p.settings, p.held[c], p.came[c], says)
  <2>0. i \in DOMAIN chosen.taken
    BY <1>3
  <2>1. p.columns[i] =
          [column |-> chosen.taken[i],
           says |-> ProfileColumn(s, chosen.taken[i],
             IF chosen.taken[i] \in DOMAIN contents THEN contents[chosen.taken[i]] ELSE gone,
             IF chosen.taken[i] \in DOMAIN outcome THEN outcome[chosen.taken[i]] ELSE "refused",
             ClampSampleRows(s, call.samples))]
    BY ONLY <1>0, <2>0
  <2> PICK c : c = chosen.taken[i]
    OBVIOUS
  <2> PICK held : held = IF chosen.taken[i] \in DOMAIN contents THEN contents[chosen.taken[i]] ELSE gone
    OBVIOUS
  <2> PICK came : came = IF chosen.taken[i] \in DOMAIN outcome THEN outcome[chosen.taken[i]] ELSE "refused"
    OBVIOUS
  <2> PICK says : says = ProfileColumn(s, c, held, came, wanted)
    OBVIOUS
  <2>e. p.columns[i] = [column |-> c, says |-> says]
    <3>1. p.columns[i] = [column |-> c, says |-> ProfileColumn(s, c, held, came, wanted)]
      BY ONLY <2>1, wanted = ClampSampleRows(s, call.samples), c = chosen.taken[i],
              held = IF chosen.taken[i] \in DOMAIN contents THEN contents[chosen.taken[i]] ELSE gone,
              came = IF chosen.taken[i] \in DOMAIN outcome THEN outcome[chosen.taken[i]] ELSE "refused"
    <3> QED
      BY ONLY <3>1, says = ProfileColumn(s, c, held, came, wanted)
  <2>2. p.columns[i].column = c /\ p.columns[i].says = says
    BY ONLY <2>e
  <2>3. c \in Sensitive => says = [Silent EXCEPT !.withheld = {"sensitive"}]
    BY DEF ProfileColumn
  <2>4. c \notin Sensitive /\ c \notin readable => "refused" \in says.withheld
    <3>1. ASSUME c \notin Sensitive, c \notin readable PROVE "refused" \in says.withheld
      <4>1. came = "refused"
        BY <3>1
      <4>2. PICK S : says = [Silent EXCEPT !.withheld = S \cup {"refused"}]
        BY <3>1, <4>1 DEF ProfileColumn
      <4>3. "withheld" \in DOMAIN Silent
        BY DEF Silent
      <4>4. says.withheld = S \cup {"refused"}
        BY ONLY <4>2, <4>3
      <4> QED
        BY <4>4
    <3> QED
      BY <3>1
  <2>5. c \notin Sensitive /\ c \in readable => Explains(s, held, came, says)
    <3>1. ASSUME c \notin Sensitive, c \in readable PROVE Explains(s, held, came, says)
      <4>1. held.ordered \in BOOLEAN /\ held.values \in Seq(Nat)
        BY <3>1
      <4>2. {s.scan, s.topK, s.threshold} \subseteq Nat
        OBVIOUS
      <4> QED
        BY <1>1, <3>1, <4>1, <4>2, ColumnExplains
    <3> QED
      BY <3>1
  <2>6. c \in readable => held = p.held[c] /\ came = p.came[c]
    BY <1>0
  <2>7. DOMAIN p.held = readable /\ p.settings = s
    BY <1>0
  <2>8. CASE c \in Sensitive
    BY ONLY <2>2, <2>3, <2>8
  <2>9. CASE c \notin Sensitive /\ c \notin readable
    BY ONLY <2>2, <2>4, <2>7, <2>9
  <2>10. CASE c \notin Sensitive /\ c \in readable
    <3>1. Explains(p.settings, p.held[c], p.came[c], says)
      BY <2>5, <2>6, <2>7, <2>10
    <3> QED
      BY ONLY <2>2, <2>7, <2>10, <3>1
  <2> QED
    BY ONLY <2>8, <2>9, <2>10
<1>6. p.call.columns = requested /\ catalog[p.call.table] = known /\ p.omitted = chosen.omitted
  BY <1>0
<1> QED
  BY <1>2, <1>3, <1>4, <1>5, <1>6 DEF Tells

(* What a profiler reads of a question's profile does not move it. *)
LEMMA EndedProfileTable ==
  ASSUME QInv, Finite, Ended,
         NEW s \in Load.settings, NEW call \in Load.calls, ProfileTable(s, call)
  PROVE  Ended'
<1>0. pc = "profile" /\ pc' = "done" /\ UNCHANGED <<load, scopes>> /\ IsQuestion(q)
  BY DEF ProfileTable, Still, asker, QInv, Step
<1>l. \A db \in DOMAIN Fold : IsList(scopes'[db].elements)
  BY <1>0, EndedScopes
<1>n. pc \notin {"idle", "done"}
  BY <1>0
<1>1. CASE UNCHANGED q
  BY <1>0, <1>1, <1>l, <1>n, EndedMoves
<1>2. ASSUME NEW class \in {"UnknownTableError", "ProfilingError"},
             q' = [q EXCEPT !.raised = class]
      PROVE  Ended'
  <2>1. q'.raised = class /\ \A f \in Fields \ {"raised"} : q'[f] = q[f]
    BY <1>0, <1>2 DEF IsQuestion, Fields
  <2>2. /\ \A f \in Endings \ {"raised"} : q'[f] = q[f]
        /\ q'.context = q.context /\ q'.attempt = q.attempt
    BY <2>1 DEF Endings, Fields
  <2>3. IsList(q'.context.elements) /\ Reported(q'.attempt)
    BY <2>2 DEF Ended, Listing
  <2>4. q'.raised \in Classes
    BY <2>1, Raisable
  <2> QED
    BY <1>0, <1>l, <1>n, <2>2, <2>3, <2>4, EndedKept
<1> DEFINE chosen == SelectColumns(s, scopes[q.db].catalog[call.table], call.columns)
           readable == ToSet(chosen.taken) \cap (LiveColumns(path, call.table) \ Sensitive)
           gone == [ordered |-> FALSE, values |-> <<>>]
           record(contents, outcome) ==
             [made |-> TRUE, settings |-> s, call |-> call, held |-> contents,
              came |-> outcome, omitted |-> chosen.omitted,
              columns |-> [i \in DOMAIN chosen.taken |->
                [column |-> chosen.taken[i],
                 says |-> ProfileColumn(s, chosen.taken[i],
                   IF chosen.taken[i] \in DOMAIN contents THEN contents[chosen.taken[i]] ELSE gone,
                   IF chosen.taken[i] \in DOMAIN outcome THEN outcome[chosen.taken[i]] ELSE "refused",
                   ClampSampleRows(s, call.samples))]]]
<1>3. ASSUME FitsSchema(s, call), call.table \in DOMAIN scopes[q.db].catalog,
             NEW contents \in [readable -> Load.contents],
             NEW outcome \in [readable -> {"ok", "refused", "unsampled"}],
             q' = [q EXCEPT !.profile = record(contents, outcome)]
      PROVE  Ended'
  <2> PICK p : p = record(contents, outcome)
    OBVIOUS
  <2>1. q'.profile = p /\ \A f \in Fields \ {"profile"} : q'[f] = q[f]
    <3>1. q' = [q EXCEPT !.profile = p]
      BY <1>3
    <3> HIDE DEF record
    <3> QED
      BY ONLY <1>0, <3>1 DEF IsQuestion, Fields
  <2>2. /\ \A f \in Endings \ {"profile"} : q'[f] = q[f]
        /\ q'.context = q.context /\ q'.attempt = q.attempt /\ q'.db = q.db
    BY ONLY <2>1 DEF Endings, Fields
  <2> PICK catalog : catalog = scopes[q.db].catalog
    OBVIOUS
  <2>3. IsFiniteSet(catalog[call.table])
    <3>1. q.db \in DOMAIN Fold
      BY <1>0 DEF QInv, AtHome
    <3>2. Named(catalog) /\ call.table \in DOMAIN catalog
      BY <1>3, <3>1 DEF Finite
    <3> QED
      BY <3>2 DEF Named
  <2>4. {s.scan, s.cap, s.topK, s.threshold, s.sampleRows} \subseteq Nat
    BY DEF Load, QInv
  <2>5. IsSeq(call.columns) /\ call.samples.n \in Nat
    BY DEF Load, QInv
  <2> PICK All : All = Load.contents
    OBVIOUS
  <2>6. \A x \in All : x.ordered \in BOOLEAN /\ x.values \in Seq(Nat)
    BY DEF Load, QInv
  <2> PICK taking : taking = chosen
    OBVIOUS
  <2>7. taking = SelectColumns(s, catalog[call.table], call.columns)
    OBVIOUS
  <2>8. Describes(p, s, call, taking, contents, outcome, gone)
    BY DEF Describes
  <2> PICK among : among = readable
    OBVIOUS
  <2>9. contents \in [among -> All] /\ DOMAIN outcome = among
    BY <1>3
  <2>10. FitsSchema(s, call)
    BY <1>3
  <2> HIDE DEF chosen, readable, gone, record
  <2>11. Tells(p, catalog)
    BY ONLY <2>3, <2>4, <2>5, <2>6, <2>7, <2>8, <2>9, <2>10, ProfileTells
  <2>12. Profiled'
    BY <1>0, <2>1, <2>2, <2>11, catalog = scopes[q.db].catalog DEF Profiled
  <2>13. Raised' /\ Judged'
    BY <1>0, <2>2 DEF Ended, Raised, Judged, Endings, Load
  <2>14. Listing'
    BY <1>0, <1>l, <1>n, <2>2 DEF Ended, Listing, Endings, Load
  <2> QED
    BY <2>12, <2>13, <2>14 DEF Ended
<1>4. \/ UNCHANGED q
      \/ q' = [q EXCEPT !.raised = "UnknownTableError"]
      \/ q' = [q EXCEPT !.raised = "ProfilingError"]
      \/ /\ FitsSchema(s, call) /\ call.table \in DOMAIN scopes[q.db].catalog
         /\ \E contents \in [readable -> Load.contents],
               outcome \in [readable -> {"ok", "refused", "unsampled"}] :
               q' = [q EXCEPT !.profile = record(contents, outcome)]
  BY DEF ProfileTable
<1> HIDE DEF readable, record
<1> QED
  BY <1>1, <1>2, <1>3, <1>4

(* A server reads its catalog before anything is asked. *)
LEMMA EndedStartServer ==
  ASSUME QInv, Ended, NEW home \in DOMAIN Fold, StartServer(home)
  PROVE  Ended'
<1>c. PICK catalog : catalog = LoadCatalog(Fold[home])
  OBVIOUS
<1>n. PICK new : new = [NoScope EXCEPT !.dataset = Fold[home], !.catalog = catalog]
  OBVIOUS
<1>1. /\ scopes' = [scopes EXCEPT ![home] = new] /\ pc = "idle" /\ UNCHANGED <<load, pc, q>>
  BY <1>c, <1>n DEF StartServer, Still, asker
<1>2. new.elements = <<>>
  BY <1>n DEF NoScope
<1>3. \A db \in DOMAIN Fold : scopes'[db] = scopes[db] \/ scopes'[db] = new
  BY <1>1 DEF QInv, Scoped
<1>4. \A db \in DOMAIN Fold : IsList(scopes'[db].elements)
  BY <1>2, <1>3, Emptiness DEF Ended, Listing
<1>5. ~q'.profile.made
  BY <1>1 DEF Ended, Profiled
<1>6. Raised' /\ Judged' /\ Profiled'
  BY <1>1, <1>5 DEF Ended, Raised, Judged, Profiled, Load
<1>7. Listing'
  BY <1>1, <1>4 DEF Ended, Listing
<1> QED
  BY <1>6, <1>7 DEF Ended

-------------------------------------------------------------------------------
(* Every step keeps what is named finite. *)

(* A scope is dropped or built, or keeps its catalog. *)
Rescoped(home) ==
    \/ UNCHANGED scopes
    \/ scopes' = [scopes EXCEPT ![home] = NoScope]
    \/ \E d \in Datasets : scopes' = [scopes EXCEPT ![home] =
                              [NoScope EXCEPT !.dataset = d, !.catalog = LoadCatalog(d)]]
    \/ \E elements : scopes' = [scopes EXCEPT ![home].elements = elements]
    \/ \E edges : scopes' = [scopes EXCEPT ![home].edges = edges]

LEMMA FiniteStill ==
  ASSUME QInv, Finite, UNCHANGED catalogVars, NEW home, Rescoped(home)
  PROVE  Finite'
<1>0. /\ scopes = [d \in DOMAIN Fold |-> scopes[d]]
      /\ \A db \in DOMAIN Fold : IsScope(scopes[db]) /\ Named(scopes[db].catalog)
  BY DEF QInv, Scoped, Finite
<1>1. CASE UNCHANGED scopes
  BY <1>0, <1>1, FiniteScopes
<1>2. ASSUME NEW new, Named(new.catalog), scopes' = [scopes EXCEPT ![home] = new]
      PROVE  Finite'
  <2>1. \A db \in DOMAIN Fold : scopes'[db] = scopes[db] \/ scopes'[db] = new
    BY ONLY <1>0, <1>2
  <2>2. \A db \in DOMAIN Fold : Named(scopes'[db].catalog)
    BY <1>0, <1>2, <2>1
  <2> QED
    BY <2>2, FiniteScopes
<1>3. CASE scopes' = [scopes EXCEPT ![home] = NoScope]
  <2>1. NoScope.catalog = <<>>
    BY DEF NoScope
  <2> QED
    BY <1>2, <1>3, <2>1, NothingNamed
<1>4. ASSUME NEW d \in Datasets,
             scopes' = [scopes EXCEPT ![home] =
                          [NoScope EXCEPT !.dataset = d, !.catalog = LoadCatalog(d)]]
      PROVE  Finite'
  <2>1. PICK catalog : catalog = LoadCatalog(d)
    OBVIOUS
  <2>2. PICK new : new = [NoScope EXCEPT !.dataset = d, !.catalog = catalog]
    OBVIOUS
  <2>3. new.catalog = catalog
    BY <2>2 DEF NoScope
  <2>4. Named(catalog)
    BY <2>1, LoadedFinite
  <2>5. scopes' = [scopes EXCEPT ![home] = new]
    BY <1>4, <2>1, <2>2
  <2> QED
    BY <1>2, <2>3, <2>4, <2>5
<1>5. ASSUME NEW new, new.catalog = scopes[home].catalog,
             scopes' = [scopes EXCEPT ![home] = new]
      PROVE  Finite'
  <2>1. \A db \in DOMAIN Fold : scopes'[db] = scopes[db] \/ (db = home /\ scopes'[db] = new)
    BY ONLY <1>0, <1>5
  <2>2. \A db \in DOMAIN Fold : Named(scopes'[db].catalog)
    BY <1>0, <1>5, <2>1
  <2> QED
    BY <2>2, FiniteScopes
<1>6. ASSUME NEW x, \/ scopes' = [scopes EXCEPT ![home].elements = x]
                    \/ scopes' = [scopes EXCEPT ![home].edges = x]
      PROVE  Finite'
  <2>1. CASE home \notin DOMAIN Fold
    <3>1. scopes' = scopes
      BY ONLY <1>0, <1>6, <2>1
    <3> QED
      BY <1>1, <3>1
  <2>2. CASE home \in DOMAIN Fold
    <3>1. PICK e, f : /\ e = [scopes[home] EXCEPT !.elements = x]
                      /\ f = [scopes[home] EXCEPT !.edges = x]
      OBVIOUS
    <3>2. e.catalog = scopes[home].catalog /\ f.catalog = scopes[home].catalog
      BY <1>0, <2>2, <3>1 DEF IsScope
    <3>3. scopes' = [scopes EXCEPT ![home] = e] \/ scopes' = [scopes EXCEPT ![home] = f]
      BY ONLY <1>6, <3>1
    <3> QED
      BY <1>5, <3>2, <3>3
  <2> QED
    BY <2>1, <2>2
<1> QED
  BY <1>1, <1>3, <1>4, <1>6 DEF Rescoped

LEMMA FiniteContext ==
  ASSUME QInv, Finite, Context
  PROVE  Finite'
<1>1. UNCHANGED catalogVars
  BY DEF Context, UseScope, BuildScope, ReadFullElements, ReadFullEdges,
     UseFullSchema, Search, SearchJoins, LosesContext, Still
<1>2. CASE UseScope \/ UseFullSchema \/ Search \/ SearchJoins
  <2>1. UNCHANGED scopes
    BY <1>2 DEF UseScope, UseFullSchema, Search, SearchJoins
  <2> QED
    BY <1>1, <2>1, FiniteStill DEF Rescoped
<1>3. CASE BuildScope
  <2>1. PICK d : d = Fold[q.db]
    OBVIOUS
  <2>2. \/ UNCHANGED scopes
        \/ scopes' = [scopes EXCEPT ![q.db] =
                         [NoScope EXCEPT !.dataset = d, !.catalog = LoadCatalog(d)]]
    BY <1>3, <2>1 DEF BuildScope, DatasetFor
  <2>3. d \in Datasets
    <3>1. q.db \in DOMAIN Fold
      BY <1>3 DEF BuildScope, QInv, AtHome
    <3> QED
      BY <2>1, <3>1
  <2>4. Rescoped(q.db)
    BY <2>2, <2>3 DEF Rescoped
  <2> QED
    BY <1>1, <2>4, FiniteStill
<1>4. CASE ReadFullElements
  <2>1. \E elements : scopes' = [scopes EXCEPT ![q.db].elements = elements]
    BY <1>4 DEF ReadFullElements
  <2>2. Rescoped(q.db)
    BY <2>1 DEF Rescoped
  <2> QED
    BY <1>1, <2>2, FiniteStill
<1>5. CASE ReadFullEdges
  <2>1. \E edges : scopes' = [scopes EXCEPT ![q.db].edges = edges]
    BY <1>5 DEF ReadFullEdges
  <2>2. Rescoped(q.db)
    BY <2>1 DEF Rescoped
  <2> QED
    BY <1>1, <2>2, FiniteStill
<1>6. CASE LosesContext
  <2>1. UNCHANGED scopes \/ scopes' = [scopes EXCEPT ![q.db] = NoScope]
    BY <1>6 DEF LosesContext
  <2>2. Rescoped(q.db)
    BY <2>1 DEF Rescoped
  <2> QED
    BY <1>1, <2>2, FiniteStill
<1> QED
  BY <1>2, <1>3, <1>4, <1>5, <1>6 DEF Context

LEMMA NextFinite ==
  ASSUME QInv, Indexed, Finite, [Next]_vars
  PROVE  Finite'
<1>1. CASE Schema
  BY <1>1, FiniteSchema
<1>2. CASE Context
  BY <1>2, FiniteContext
<1>3. CASE Ask \/ RunGold \/ Answer \/ Profile \/ UNCHANGED vars
  <2>1. UNCHANGED <<catalogVars, scopes>>
    BY <1>3 DEF Ask, RunGold, Answer, Profile, ModelFails, Generate, Validate, ActivateFails,
       Execute, RunPredicted, ProfileFails, ProfileTable, Still, vars
  <2> QED
    BY <2>1, FiniteStill DEF Rescoped
<1>4. ASSUME NEW db \in DOMAIN Fold, StartServer(db) PROVE Finite'
  <2>1. PICK d : d = Fold[db]
    OBVIOUS
  <2>2. /\ scopes' = [scopes EXCEPT ![db] =
                        [NoScope EXCEPT !.dataset = d, !.catalog = LoadCatalog(d)]]
        /\ UNCHANGED catalogVars /\ d \in Datasets
    BY <1>4, <2>1 DEF StartServer, Still
  <2>3. Rescoped(db)
    BY <2>2 DEF Rescoped
  <2> QED
    BY <2>2, <2>3, FiniteStill
<1> QED
  BY <1>1, <1>2, <1>3, <1>4 DEF Next

LEMMA NextEnded ==
  ASSUME QInv, Searched, Finite, Ended, [Next]_vars
  PROVE  Ended'
<1>1. CASE Schema
  BY <1>1, EndedStill DEF Schema, Quiet, asker
<1>2. CASE Ask \/ RunGold
  BY <1>2, EndedAsk, EndedRunGold
<1>3. CASE UseScope
  <2>1. UNCHANGED <<load, q, scopes>> /\ pc = "scope"
    BY <1>3 DEF UseScope, Still, asker, Step
  <2> QED
    BY <2>1, EndedScopes, EndedMoves
<1>4. CASE Context /\ ~UseScope
  BY <1>4, EndedBuildScope, EndedReadFullElements, EndedReadFullEdges, EndedSearches,
     EndedLosesContext DEF Context
<1>5. CASE Answer
  BY <1>5, EndedModelFails, EndedGenerate, EndedValidate, EndedFails, EndedExecute,
     EndedRunPredicted DEF Answer
<1>6. CASE Profile
  BY <1>6, EndedProfileTable, EndedFails DEF Profile
<1>7. CASE \E db \in DOMAIN Fold : StartServer(db)
  BY <1>7, EndedStartServer
<1>8. CASE UNCHANGED vars
  BY <1>8, EndedStill DEF vars
<1> QED
  BY <1>1, <1>2, <1>3, <1>4, <1>5, <1>6, <1>7, <1>8 DEF Next

LEMMA NextEInv == EInv /\ [Next]_vars => EInv'
<1> SUFFICES ASSUME SInv, Finite, Ended, [Next]_vars PROVE Finite' /\ Ended'
  BY NextSInv DEF EInv
<1>1. QInv /\ Indexed /\ Searched
  BY DEF SInv
<1> QED
  BY <1>1, NextFinite, NextEnded

(* Whatever is asked, migrated and indexed, every name is one of finitely   *)
(* many, and a question ends with a class of the error table, a verdict on  *)
(* a result it was given, a list of what was retrieved, or a profile that   *)
(* gives its reasons.                                                       *)
THEOREM SpecEInv == Spec => []EInv
<1>1. Init => EInv
  BY InitQInv, InitIndexed, InitSearched, InitFinite, InitEnded DEF EInv, SInv
<1> QED
  BY <1>1, NextEInv, PTL DEF Spec

-------------------------------------------------------------------------------
(* "Two renderers, one rule" (api/errors.py, api/query.py,                  *)
(* mcp_servers/common.py): whatever class a question ends with, the HTTP    *)
(* handlers and the stream give the code documented for the nearest class,  *)
(* a tool's error_type names the same cause, and no text of a driver's      *)
(* error leaves any of them.                                                *)
THEOREM RenderersAlwaysAgree == Spec => []FailuresAgree
<1>1. EInv => FailuresAgree
  <2> SUFFICES ASSUME EInv, q.raised # "none" PROVE FailuresAgree
    BY DEF FailuresAgree
  <2>1. q.raised \in Classes
    BY DEF EInv, Ended, Raised
  <2> PICK class : class = q.raised
    OBVIOUS
  <2>2. Agreed(class)
    BY <2>1, RenderersAgree
  <2> QED
    BY <2>2 DEF FailuresAgree, Agreed
<1> QED
  BY <1>1, SpecEInv, PTL

(* The verdict of a question (evals/comparison.py: canonical columns, their *)
(* signatures, the orders those allow) is that of the definition in         *)
(* docs/ml/EVALUATION.md, for results of any number of rows, columns and    *)
(* values, and any number of columns that may be permuted: of every two     *)
(* values but two that canonical itself makes one, numbers beyond what a    *)
(* double holds and a date or a NaN beside the text it is written as.       *)
THEOREM VerdictsAreTheReference == Spec => []VerdictIsTheReference
<1>1. EInv => VerdictIsTheReference
  <2> SUFFICES ASSUME EInv, q.verdict # "none" PROVE VerdictIsTheReference
    BY DEF VerdictIsTheReference
  <2> PICK r : r = q.result
    OBVIOUS
  <2>1. r \in Load.results /\ q.verdict = Compare(r.predicted, r.gold, r.ordered)
    BY DEF EInv, Ended, Judged
  <2>2. load \in DOMAIN Loads
    BY DEF EInv, SInv, QInv
  <2>3. IsTable(r.predicted) /\ IsTable(r.gold) /\ r.ordered \in BOOLEAN
    BY <2>1, <2>2 DEF Load
  <2> PICK pred, gold, ordered : pred = r.predicted /\ gold = r.gold /\ ordered = r.ordered
    OBVIOUS
  <2>4. /\ Told(pred, gold) /\ Compare(pred, gold, ordered) = "match" =>
             SameMeaning(pred, gold, ordered)
        /\ SameMeaning(Rounded(pred), Rounded(gold), ordered)
           /\ (gold # <<>> => Len(gold[1]) <= MaxColumns) => Compare(pred, gold, ordered) = "match"
        /\ Compare(pred, gold, ordered) = "order_mismatch" => ordered
        /\ Told(pred, gold) /\ Compare(pred, gold, ordered) = "order_mismatch" =>
             SameMeaning(pred, gold, FALSE)
    BY <2>3, VerdictAgrees
  <2> QED
    BY <2>1, <2>4 DEF VerdictIsTheReference, Rounded, Told
<1> QED
  BY <1>1, SpecEInv, PTL

(* Recall (extract_gold_elements, compute_recall) is attainable, zero for   *)
(* nothing and monotone in k, whatever was retrieved and whatever the       *)
(* reference query is made of.                                              *)
THEOREM RecallIsAttainable == Spec => []RecallReachesOne
<1>1. EInv => RecallReachesOne
  <2> SUFFICES ASSUME EInv, pc = "done", surface \in Baselines PROVE RecallReachesOne
    BY DEF RecallReachesOne
  <2> PICK s, got : s = q.gold /\ got = q.attempt.retrieved
    OBVIOUS
  <2>1. s \in Load.golds /\ IsList(got)
    BY DEF EInv, Ended, Listing, Reported
  <2>2. load \in DOMAIN Loads
    BY DEF EInv, SInv, QInv
  <2>3. IsSelect(s.outer) /\ IsSelect(s.inner)
    BY <2>1, <2>2 DEF Load
  <2> PICK S : got \in Seq(S)
    BY <2>1 DEF IsList
  <2>4. ASSUME NEW k \in KValues
        PROVE  /\ GoldColumns(s) \subseteq ToSet(Window(got, k))
                  /\ GoldTables(s) \subseteq {e[1] : e \in GoldColumns(s)}
                  => Found(s, got, k) = Cardinality(Targets(s))
               /\ got = <<>> => Found(s, got, k) = 0
               /\ \A l \in KValues : k <= l => Found(s, got, k) <= Found(s, got, l)
    <3>1. k \in Nat /\ \A l \in KValues : l \in Nat
      BY ScoringAssumption
    <3>2. \A l \in KValues : k <= l => Found(s, got, k) <= Found(s, got, l)
      BY <2>3, <3>1, FoundGrows
    <3>3. got = <<>> => Found(s, got, k) = 0
      BY <3>1, NothingFound
    <3> QED
      BY <3>2, <3>3, AllFound
  <2> QED
    BY <2>4 DEF RecallReachesOne
<1> QED
  BY <1>1, SpecEInv, PTL

(* "Silence and suppression look identical to a caller" (ColumnProfile): a  *)
(* profile gives its reasons (_run_stats, _profile_column, _select_columns) *)
(* for any settings, any request and columns of any contents.               *)
THEOREM ProfilesSayWhy == Spec => []ProfileSaysWhy
<1>1. EInv => ProfileSaysWhy
  <2> SUFFICES ASSUME EInv, q.profile.made PROVE ProfileSaysWhy
    BY DEF ProfileSaysWhy
  <2>1. Tells(q.profile, scopes[q.db].catalog)
    BY DEF EInv, Ended, Profiled
  <2> QED
    BY <2>1 DEF ProfileSaysWhy, Tells, Explains, Common, Shown
<1> QED
  BY <1>1, SpecEInv, PTL
===============================================================================
