---- MODULE QuerySession ----
(***************************************************************************)
(* A session of queries on one store: syntax trees are executed one after  *)
(* the other (execute of crates/nova-executor).  The backend is behind one *)
(* lock, so a query is over before the next is taken.                      *)
(*                                                                         *)
(* Names that other specifications have, too, are told apart, so that this *)
(* one can be reasoned about beside them.                                  *)
(***************************************************************************)
EXTENDS QueryEngine

CONSTANTS
    Trees,        \* the syntax trees submitted at any time
    FirstStore,   \* the store a session begins with
    MaxDocuments, \* bound: ids are 1 .. MaxDocuments, each given once
    SortKeys,     \* the lists of sort keys considered
    PathLists,    \* the lists of paths to project considered
    Probes        \* the paths considered

IsPath(path) == path # <<>> /\ path \in Seq(Range(path))

\* A session begins without documents; trees are those that parse makes.
ASSUME SessionAssumption ==
    /\ MaxDocuments \in Nat
    /\ FirstStore = [collections |-> FirstStore.collections, definitions |-> <<>>]
    /\ \A c \in DOMAIN FirstStore.collections : FirstStore.collections[c] = NoFields
    /\ \A tree \in Trees :
         /\ WellFormed(tree)
         /\ tree.command[1] = "CreateIndex" => Rank(tree.command[2]) \in Nat
    /\ \A path \in Probes : IsPath(path)
    /\ \A paths \in PathLists :
         paths \in Seq(Range(paths)) /\ \A i \in DOMAIN paths : IsPath(paths[i])
    /\ \A keys \in SortKeys :
         keys \in Seq(Range(keys)) /\ \A k \in DOMAIN keys : IsPath(keys[k][1])

VARIABLES
    query,     \* the query at hand, in a sequence of one
    store,     \* the backend
    nextId     \* the id that Document::generated gives next

queryVars == <<query, store, nextId>>

QueryInit == query = <<>> /\ store = FirstStore /\ nextId = 1

Submit(tree) ==
    /\ query = <<>>
    /\ tree.command[1] = "Insert" => nextId <= MaxDocuments
    /\ query' = <<tree>>
    /\ UNCHANGED <<store, nextId>>

ExecuteQuery ==
    /\ query # <<>>
    /\ \E outcome \in {execute(query[1], store, nextId)} :
         /\ store' = outcome.store
         /\ nextId' = IF outcome.reply[1] = "Inserted" THEN nextId + 1 ELSE nextId
    /\ query' = <<>>

QueryNext == (\E tree \in Trees : Submit(tree)) \/ ExecuteQuery

QuerySpec == QueryInit /\ [][QueryNext]_queryVars

-----------------------------------------------------------------------------
(* Properties *)

Pipelined(q) == q.command[1] \in {"Get", "Update", "Delete"} /\ ~q.explain

\* No value of a collection is indexed that is equal to another one.
IndexesExactFields(collection) ==
    \A n \in DOMAIN store.definitions :
        (collection \in DOMAIN store.collections /\ store.definitions[n].collection = collection) =>
            \A d \in Range(Scan(store.collections[collection])) :
                Exact(read_path(d, store.definitions[n].field))

AnswersAs(planned, scanned) ==
    scanned.reply # Error => planned.reply = scanned.reply /\ planned.store = scanned.store

\* The planner's choice alters nothing: whatever a query over a scan of the
\* whole collection answers and stores, it answers and stores over an index
\* scan, documents in the same order (it may succeed where the scan fails).
\* Minus zero is the exception: an index tells it from zero, `=` does not.
IndexesChangeNothing ==
    (query # <<>> /\ Pipelined(query[1]) /\ IndexesExactFields(query[1].command[2])) =>
        AnswersAs(execute(query[1], store, nextId),
                  execute_planned(query[1], store, <<"CollectionScan">>, nextId))

Documents == UNION {Range(Scan(store.collections[c])) : c \in DOMAIN store.collections}

\* Sorting accepts exactly the columns whose values, missing and null apart, are
\* of one sortable type; over those the comparator is a strict weak order (what
\* sort_by must not be without), and the result is sorted, equals in old order.
SortsAreStable ==
    query = <<>> =>
    \A c \in DOMAIN store.collections, keys \in SortKeys :
        LET documents == Scan(store.collections[c])
            sorted == sort_documents(documents, keys)
            types(key) == {read_path(d, key[1])[1] : d \in Range(documents)} \ {"Missing", "Null"}
            less(d, e) == Precedes(keys, d, e)
        IN  /\ (sorted # <<>>) <=>
                 \A k \in DOMAIN keys : /\ types(keys[k]) \subseteq Sortable
                                        /\ Cardinality(types(keys[k])) <= 1
            /\ sorted # <<>> =>
                 /\ \A d, e, f \in Range(documents) :
                      /\ ~(less(d, e) /\ less(e, d))
                      /\ less(d, f) => less(d, e) \/ less(e, f)
                 /\ Range(sorted[1]) = Range(documents) /\ Len(sorted[1]) = Len(documents)
                 /\ \A i, j \in DOMAIN documents : i < j =>
                      \/ less(sorted[1][i], sorted[1][j])
                      \/ /\ ~less(sorted[1][j], sorted[1][i])
                         /\ sorted[1][i].id < sorted[1][j].id

\* How many stages come before the first `set`.
Selecting(q) ==
    Min({i \in DOMAIN q.stages : q.stages[i][1] = "Set"} \cup {Len(q.stages) + 1}) - 1

\* No stage selects among documents that were changed.
SetsComeLast(q) == \A i \in DOMAIN q.stages : i > Selecting(q) => q.stages[i][1] = "Set"

AsGet(q) == [explain |-> FALSE, command |-> <<"Get", q.command[2]>>,
             stages |-> SubSeq(q.stages, 1, Selecting(q))]

\* The documents that a command leaves in the place of one.
InPlace(q, document) ==
    LET assigned == run_pipeline(<<document>>,
                                 SubSeq(q.stages, Selecting(q) + 1, Len(q.stages)))
    IN  IF q.command[1] = "Delete" THEN {}
        ELSE UNION {Range(documents) : documents \in Range(assigned)}

\* Some documents of a collection are replaced by others, unless an index refuses one.
Replaces(name, got, put, outcome) ==
    IF outcome.reply # Error
    THEN Range(Scan(outcome.store.collections[name])) =
             (Range(Scan(store.collections[name])) \ got) \cup put
    ELSE outcome.store = store \/ \E d \in put : ~Validates(store, name, d)

ActsOn(q, get, outcome) ==
    IF get = Error THEN outcome.reply = Error /\ outcome.store = store
    ELSE /\ outcome.reply # Error => outcome.reply[2] = Len(get[2])
         /\ Replaces(q.command[2], Range(get[2]), UNION {InPlace(q, d) : d \in Range(get[2])}, outcome)

\* `update` and `delete` act on the documents that `get` returns for the stages
\* before `set`, on each as if it were alone, and on no other; they fail if `get`
\* does or an assignment fails anywhere, then without having changed a document
\* (unless an index refuses one of them).
CommandsActOnWhatGetReturns ==
    (query # <<>> /\ Pipelined(query[1]) /\ query[1].command[1] # "Get"
       /\ SetsComeLast(query[1])) =>
        ActsOn(query[1], execute(AsGet(query[1]), store, nextId).reply,
               execute(query[1], store, nextId))

\* A value other than a document is stored where the first segments of a path lead.
InTheWay(fields, path, k) ==
    LET around == lookup_parts(fields, SubSeq(path, 1, k - 1))
    IN  /\ around[1] = "Object" /\ path[k] \in DOMAIN around[2]
        /\ around[2][path[k]][1] # "Object"

\* A projection has what was asked for, wherever that was, and empty documents
\* on the way to it, whatever the order of the paths.  A value that `set` put at
\* a path is read there, nothing beside it changes, and `set` fails exactly if a
\* value other than a document is on the way.
PathsReadBack ==
    query = <<>> =>
    \A d \in Documents, probe \in Probes :
        /\ \A paths \in PathLists :
             LET found == read_path(project(d, paths), probe)
                 asked == \E i \in DOMAIN paths :
                              paths[i] # <<IdField>> /\ IsPrefix(paths[i], probe)
                 crossed == \E i \in DOMAIN paths : IsStrictPrefix(probe, paths[i])
             IN  IF asked \/ probe = <<IdField>> THEN found = read_path(d, probe)
                 ELSE IF crossed /\ read_path(d, probe)[1] = "Object" THEN found[1] = "Object"
                 ELSE found = Missing
        /\ \A path \in Probes : path[1] # IdField =>
             LET fields == set_segments(d.fields, path, <<"Int64", 0>>)
                 found(p) == read_path([d EXCEPT !.fields = fields[1]], p)
             IN  /\ fields = <<>> <=> \E k \in 1 .. Len(path) - 1 : InTheWay(d.fields, path, k)
                 /\ fields # <<>> =>
                      /\ found(path) = <<"Int64", 0>>
                      /\ ~IsPrefix(probe, path) /\ ~IsPrefix(path, probe) =>
                           found(probe) = read_path(d, probe)

\* The planner would use an index on a path, were it the only one.
PlannerUses(q, path) ==
    plan(q, [name \in {<<"n">>} |-> [collection |-> q.command[2], field |-> path]])[1] = "IndexScan"

AreUsable(q, candidates) ==
    \A path \in Probes \cup candidates : path \in candidates <=> PlannerUses(q, path)

\* The paths that telemetry calls index candidates are those the planner would
\* use an index on.
CandidatesAreUsable ==
    (query # <<>> /\ query[1].command[1] \in Piped) =>
        AreUsable(query[1],
                  observed_event(query[1], <<"CollectionScan">>, execute(query[1], store, nextId))
                      .index_candidate_paths)
====
