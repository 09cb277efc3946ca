----------------------------- MODULE SchemaCatalog -----------------------------
(***************************************************************************)
(* The target schemas and the catalog that describes them: introspection   *)
(* (schema/introspection.py), the indexer (schema/indexer.py) and what     *)
(* reads the catalog back (schema/catalog.py, schema/retrieval.py).        *)
(*                                                                         *)
(* A snapshot is three statements on an autocommit connection, so the      *)
(* schema may change between any two of them.  The index is written in one *)
(* transaction, long after: the embedding happens in between.  Index runs  *)
(* of one dataset are taken one after another.                             *)
(*                                                                         *)
(* An element is <<table, column>>, the column NoName for the table        *)
(* itself.  A shape is [tables, keys]: columns by table, and the foreign   *)
(* keys in the order of their constraint names, each [name, edge] with     *)
(* edge <<from_table, from_column, to_table, to_column>>.                  *)
(***************************************************************************)
EXTENDS SqlRules, SequencesExt

CONSTANTS Datasets,      \* catalog namespaces, which are also the schemas
          Models,        \* model_version of the embedders in use
          Shapes,        \* the shapes a schema may be migrated to
          InitialShape   \* the shape each schema has first

ASSUME ShapeAssumption ==
    /\ IsFiniteSet(Datasets) /\ IsFiniteSet(Models) /\ DOMAIN InitialShape = Datasets
    /\ \A s \in Shapes \cup {InitialShape[d] : d \in Datasets} :
         /\ s.keys \in Seq(ToSet(s.keys))
         /\ \A i \in DOMAIN s.keys : s.keys[i].edge[1] \in DOMAIN s.tables
         /\ IsFiniteSet(DOMAIN s.tables) /\ \A t \in DOMAIN s.tables : IsFiniteSet(s.tables[t])

VARIABLES
    live,      \* the shape of each schema (external)
    rows,      \* agent_meta.schema_elements, by dataset and model_version
    keys,      \* agent_meta.foreign_keys, by dataset
    indexer,   \* the index run under way
    log        \* the indexes committed so far (history)

catalogVars == <<live, rows, keys, indexer, log>>

NoIndex == [at |-> "idle", dataset |-> NoName, model |-> NoName,
            columns |-> <<>>, tables |-> {}, keys |-> <<>>]

-------------------------------------------------------------------------------
(* Operators of the indexer. *)

(* SchemaIndexer._build_rows: a row per table and one per column of it;     *)
(* columns of a table that was not there for the second statement are not   *)
(* looked up.                                                               *)
BuildRows(tables, columns) ==
    {<<t, NoName>> : t \in tables}
      \cup UNION {{<<t, c>> : c \in columns[t]} : t \in tables \cap DOMAIN columns}

(* _distinct_edges: one row per join path, the first constraint's. *)
DistinctEdges(foreignKeys) ==
    {foreignKeys[i] : i \in {j \in DOMAIN foreignKeys :
        \A h \in 1 .. j - 1 : foreignKeys[h].edge # foreignKeys[j].edge}}

ShapeRows(shape) == BuildRows(DOMAIN shape.tables, shape.tables)

-------------------------------------------------------------------------------
(* The catalog begins with each schema indexed for the models given. *)
InitCatalog(indexed) ==
    /\ live = InitialShape
    /\ rows = [d \in Datasets |-> [m \in Models |->
                 IF m \in indexed THEN ShapeRows(InitialShape[d]) ELSE {}]]
    /\ keys = [d \in Datasets |->
                 IF indexed = {} THEN {} ELSE DistinctEdges(InitialShape[d].keys)]
    /\ indexer = NoIndex
    /\ log = SetToSeq({[dataset |-> d, model |-> m, rows |-> ShapeRows(InitialShape[d]),
                        keys |-> DistinctEdges(InitialShape[d].keys)] :
                         d \in Datasets, m \in indexed})

(* Somebody migrates, drops or recreates a schema. *)
Migrate(d, shape) ==
    /\ shape # live[d]
    /\ live' = [live EXCEPT ![d] = shape]
    /\ UNCHANGED <<rows, keys, indexer, log>>

(* PostgresIntrospector.snapshot: the columns, then the tables, then the    *)
(* foreign keys.                                                            *)
ReadColumns(d, m) ==
    /\ indexer.at = "idle"
    /\ indexer' = [NoIndex EXCEPT !.at = "tables", !.dataset = d, !.model = m,
                                  !.columns = live[d].tables]
    /\ UNCHANGED <<live, rows, keys, log>>

ReadTables ==
    /\ indexer.at = "tables"
    /\ indexer' = [indexer EXCEPT !.at = "keys", !.tables = DOMAIN live[indexer.dataset].tables]
    /\ UNCHANGED <<live, rows, keys, log>>

ReadKeys ==
    /\ indexer.at = "keys"
    /\ indexer' = [indexer EXCEPT !.at = "commit", !.keys = live[indexer.dataset].keys]
    /\ UNCHANGED <<live, rows, keys, log>>

(* An empty snapshot leaves the catalog alone, and so does a failure        *)
(* anywhere: an unreadable model, a wrong width, a lost connection.         *)
IndexNothing ==
    /\ indexer.at # "idle"
    /\ indexer' = NoIndex
    /\ UNCHANGED <<live, rows, keys, log>>

(* Mutant: the join paths of the last index stay beside the new ones. *)
CommitKeepingKeys ==
    LET written == BuildRows(indexer.tables, indexer.columns)
        edges == DistinctEdges(indexer.keys)
    IN
    /\ indexer.at = "commit" /\ written # {}
    /\ rows' = [rows EXCEPT ![indexer.dataset][indexer.model] = written]
    /\ keys' = [keys EXCEPT ![indexer.dataset] = @ \cup edges]
    /\ log' = Append(log, [dataset |-> indexer.dataset, model |-> indexer.model,
                           rows |-> written, keys |-> edges])
    /\ indexer' = NoIndex
    /\ UNCHANGED live

(* SchemaIndexer.index: upserts, the rows of this model that were not       *)
(* written deleted, and the dataset's join paths replaced, in one           *)
(* transaction.                                                             *)
CommitIndex ==
    LET written == BuildRows(indexer.tables, indexer.columns)
        edges == DistinctEdges(indexer.keys)
    IN
    /\ indexer.at = "commit" /\ written # {}
    /\ rows' = [rows EXCEPT ![indexer.dataset][indexer.model] = written]
    /\ keys' = [keys EXCEPT ![indexer.dataset] = edges]
    /\ log' = Append(log, [dataset |-> indexer.dataset, model |-> indexer.model,
                           rows |-> written, keys |-> edges])
    /\ indexer' = NoIndex
    /\ UNCHANGED live

-------------------------------------------------------------------------------
(* Reading it back. *)

(* load_catalog: the names of a dataset, under every model at once. *)
LoadCatalog(d) ==
    LET elements == UNION {rows[d][m] : m \in Models} IN
    [t \in {e[1] : e \in elements} |-> {e[2] : e \in {x \in elements : x[1] = t}} \ {NoName}]

(* The elements of an index, by similarity. *)
Hits(ranking, index) == Picked(ranking, {i \in DOMAIN ranking : ranking[i] \in index})

(* The elements of one dataset and model, by similarity, at most k. *)
SearchElements(d, m, ranking, k) ==
    LET hits == Hits(ranking, rows[d][m]) IN SubSeq(hits, 1, Least(k, Len(hits)))

TablesOf(elements) == {e[1] : e \in ToSet(elements)}

(* SchemaRetriever._foreign_keys: both ends retrieved. *)
SearchEdges(d, elements) ==
    {key \in keys[d] : {key.edge[1], key.edge[3]} \subseteq TablesOf(elements)}
===============================================================================
