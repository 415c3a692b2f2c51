---- MODULE QueryEngine ----
(***************************************************************************)
(* One query from plan to reply: the commands of executor.rs               *)
(* (execute_internal, execute_planned) on a memory backend with indexes,   *)
(* and the outcome that execute_with_telemetry puts into its event.  The   *)
(* plan and the rest of the event are in QueryPlanning.                    *)
(*                                                                         *)
(* A store holds the collections, a function from their names to functions *)
(* from document ids to fields, and the index definitions, a function from *)
(* their names to a collection and a path.  An index holds the keys of its *)
(* documents exactly (IndexedBackend and BPlusTree are about that).  The   *)
(* time a query takes is left out.                                         *)
(***************************************************************************)
EXTENDS QueryExecution

-----------------------------------------------------------------------------
(* The backend *)

Ascending(ids) == Chosen([i \in 1 .. Max(ids \cup {0}) |-> i], ids)

\* scan: the documents of a collection in the order of their ids.
Scan(documents) ==
    LET ids == Ascending(DOMAIN documents)
    IN  [i \in DOMAIN ids |-> [id |-> ids[i], fields |-> documents[ids[i]]]]

\* document_key: the key of a document in an index over a path.
document_key(document, field) == read_path(document, field)

scan_index(documents, field, key) ==
    LET scanned == Scan(documents)
    IN  Chosen(scanned, {d \in Range(scanned) : document_key(d, field) = key})

\* validate_document: an index takes the value of the document's field.
Indexable(document, field) ==
    document_key(document, field)[1] \in
        {"Missing", "Null", "Int64", "Float64", "String", "NovaId"}

Validates(store, collection, document) ==
    \A n \in DOMAIN store.definitions :
        store.definitions[n].collection = collection =>
            Indexable(document, store.definitions[n].field)

\* The replies and the store after them.
Outcome(reply, store, examined) == [reply |-> reply, store |-> store, examined |-> examined]

\* A document put in the place of the one with its id; none if it is refused.
replace(store, collection, document) ==
    IF Validates(store, collection, document)
    THEN <<[store EXCEPT !.collections[collection][document.id] = document.fields]>>
    ELSE <<>>

\* The loop of `update`: it stops at a refusal.
UpdateAll(store, collection, documents) ==
    LET after[n \in 0 .. Len(documents)] ==
          LET before == after[n - 1]
              replaced == replace(before.store, collection, documents[n])
          IN  CASE n = 0 -> [reply |-> <<"Updated", 0>>, store |-> store]
                [] n > 0 /\ before.reply = Error -> before
                [] n > 0 /\ before.reply # Error /\ replaced = <<>> ->
                       [reply |-> Error, store |-> before.store]
                [] OTHER -> [reply |-> <<"Updated", n>>, store |-> replaced[1]]
    IN  after[Len(documents)]

Without(function, keys) == [key \in DOMAIN function \ keys |-> function[key]]

\* The loop of `delete`.
DeleteAll(store, collection, documents) ==
    [store EXCEPT !.collections[collection] =
        Without(@, {documents[i].id : i \in DOMAIN documents})]

-----------------------------------------------------------------------------
(* Commands *)

validate_stages(stages, kind) ==
    \A i \in DOMAIN stages :
        CASE kind = "Get" -> stages[i][1] # "Set"
          [] kind = "Update" -> stages[i][1] # "Project"
          [] kind = "Delete" -> stages[i][1] \notin {"Project", "Set"}

\* access_documents along a plan.
Accessed(store, collection, access) ==
    IF access[1] = "IndexScan"
    THEN scan_index(store.collections[collection], store.definitions[access[2]].field, access[3])
    ELSE Scan(store.collections[collection])

\* What get, update and delete do with the documents that their stages select.
Effect(kind, store, collection, documents) ==
    CASE kind = "Get" -> [reply |-> <<"Documents", documents>>, store |-> store]
      [] kind = "Update" -> UpdateAll(store, collection, documents)
      [] kind = "Delete" -> [reply |-> <<"Deleted", Len(documents)>>,
                             store |-> DeleteAll(store, collection, documents)]

\* The outcome for what the stages selected, if they did not fail.
OnSelected(command, store, selected, examined) ==
    IF selected = <<>> THEN Outcome(Error, store, examined)
    ELSE LET effect == Effect(command[1], store, command[2], selected[1])
         IN  Outcome(effect.reply, effect.store, examined)

\* get, update and delete.
ExecutePipeline(query, store, access) ==
    LET command == query.command
        documents == Accessed(store, command[2], access)
    IN  IF \/ ~validate_stages(query.stages, command[1])
           \/ command[2] \notin DOMAIN store.collections
        THEN Outcome(Error, store, 0)
        ELSE OnSelected(command, store, run_pipeline(documents, query.stages), Len(documents))

\* The document of an evaluated object, stored under a fresh id.
InsertValue(collection, value, store, fresh) ==
    IF \/ value[1] # "Object" \/ ~Storable(value)
       \/ ~Validates(store, collection, [id |-> fresh, fields |-> value[2]])
       \/ collection \notin DOMAIN store.collections
    THEN Outcome(Error, store, 0)
    ELSE Outcome(<<"Inserted", fresh>>,
                 [store EXCEPT !.collections[collection] = With(@, fresh, value[2])], 0)

\* An inserted object is evaluated on an empty document whose id is 0.
ExecuteInsert(query, store, fresh) ==
    InsertValue(query.command[2],
                evaluate(query.command[3], [id |-> 0, fields |-> NoFields]), store, fresh)

\* The store after a command on the catalog; none if it fails.
Catalogued(command, store) ==
    LET name == command[2] IN
    CASE command[1] = "CreateCollection" ->
             IF name \in DOMAIN store.collections THEN <<>>
             ELSE <<[store EXCEPT !.collections = With(@, name, NoFields)]>>
      [] command[1] = "DropCollection" ->
             IF name \notin DOMAIN store.collections THEN <<>>
             ELSE <<[collections |-> Without(store.collections, {name}),
                     definitions |-> Without(store.definitions,
                         {n \in DOMAIN store.definitions :
                             store.definitions[n].collection = name})]>>
      [] command[1] = "CreateIndex" ->
             IF \/ Len(command[4]) # 1
                \/ command[3] \notin DOMAIN store.collections
                \/ name \in DOMAIN store.definitions
                \/ \E id \in DOMAIN store.collections[command[3]] :
                       ~Indexable([id |-> id, fields |-> store.collections[command[3]][id]],
                                  command[4][1])
             THEN <<>>
             ELSE <<[store EXCEPT !.definitions =
                         With(@, name, [collection |-> command[3], field |-> command[4][1]])]>>
      [] command[1] = "DropIndex" ->
             IF name \notin DOMAIN store.definitions THEN <<>>
             ELSE <<[store EXCEPT !.definitions = Without(@, {name})]>>

execute_planned(query, store, access, fresh) ==
    LET kind == query.command[1] IN
    IF query.explain THEN Outcome(<<"Explained", access>>, store, 0)
    ELSE CASE kind = "Insert" -> ExecuteInsert(query, store, fresh)
           [] kind \in Piped -> ExecutePipeline(query, store, access)
           [] OTHER -> LET catalogued == Catalogued(query.command, store) IN
                       IF catalogued = <<>> THEN Outcome(Error, store, 0)
                       ELSE Outcome(<<kind, query.command[2]>>, catalogued[1], 0)

execute(query, store, fresh) ==
    execute_planned(query, store, plan(query, store.definitions), fresh)

-----------------------------------------------------------------------------
(* Telemetry *)

result_count(reply) ==
    CASE reply[1] = "Documents" -> Len(reply[2])
      [] reply[1] = "Inserted" -> 1
      [] reply[1] \in {"Updated", "Deleted"} -> reply[2]
      [] OTHER -> 0

\* MUTANT of observed_event: a query that failed counts as a mere command.
CommandObservedEvent(query, access, outcome) ==
    build_event(query, IF outcome.reply = Error THEN <<"Command">> ELSE access,
                outcome.examined, result_count(outcome.reply), outcome.reply # Error)

\* The event of a query and its outcome.
observed_event(query, access, outcome) ==
    build_event(query, access, outcome.examined, result_count(outcome.reply),
                outcome.reply # Error)
====
