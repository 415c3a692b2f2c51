---- MODULE ObservedSession ----
(***************************************************************************)
(* The intelligence engine beside a store: the queries of the workload are *)
(* planned and executed, and what execute_with_telemetry records is what   *)
(* happened.  Intelligence knows of the store its index definitions only.  *)
(***************************************************************************)
EXTENDS Intelligence, QueryEngine

CONSTANTS
    StartStore,  \* the store the session begins with
    MaxId        \* bound: the highest id

\* The index definitions that a command may make of others.
CatalogsAfter(command, catalog) ==
    CASE command[1] = "CreateIndex" ->
             {With(catalog, command[2], [collection |-> command[3], field |-> command[4][1]])}
      [] command[1] = "DropIndex" -> {Without(catalog, {command[2]})}
      [] command[1] = "DropCollection" ->
             {Without(catalog, {n \in DOMAIN catalog : catalog[n].collection = command[2]})}
      [] OTHER -> {}

\* The session begins within the bounds, and Intelligence is told of every
\* number of documents and of all index definitions that there may be.
ASSUME ObservedAssumption ==
    /\ MaxId \in Nat /\ 0 .. MaxId \cup {1} \subseteq Counts
    /\ StartStore = [collections |-> StartStore.collections,
                     definitions |-> StartStore.definitions]
    /\ \A c \in DOMAIN StartStore.collections :
         DOMAIN StartStore.collections[c] \subseteq 1 .. MaxId
    /\ StartStore.definitions \in Catalogs
    /\ \A catalog \in Catalogs :
         /\ \A n \in DOMAIN catalog : Rank(n) \in Nat
         /\ \A q \in Workload :
              /\ q.command[1] = "CreateIndex" => Rank(q.command[2]) \in Nat
              /\ CatalogsAfter(q.command, catalog) \subseteq Catalogs

VARIABLE collections  \* the documents of the store

Store == [collections |-> collections, definitions |-> definitions]

SessionInit ==
    /\ collections = StartStore.collections /\ definitions = StartStore.definitions
    /\ events = <<>> /\ records = <<>>

Fresh == 1 + Max({0} \cup UNION {DOMAIN collections[c] : c \in DOMAIN collections})

\* execute, or execute_with_telemetry.
ExecuteOnStore(q) ==
    LET access == plan(q, definitions)
        outcome == execute_planned(q, Store, access, Fresh)
    IN  /\ q.command[1] = "Insert" => Fresh <= MaxId
        /\ collections' = outcome.store.collections
        /\ definitions' = outcome.store.definitions
        /\ IF q \in Watched
           THEN /\ Len(events) < MaxEvents
                /\ events' = Append(events, observed_event(q, access, outcome))
           ELSE UNCHANGED events
        /\ UNCHANGED records

SessionNext ==
    \/ \E q \in Workload : ExecuteOnStore(q)
    \/ Use /\ UNCHANGED collections

Session == SessionInit /\ [][SessionNext]_<<vars, collections>>

-----------------------------------------------------------------------------
(* Properties *)

\* What Intelligence assumes of the queries beside it is what they do: every
\* event is one that build_event makes of a watched query and of the plan that
\* it ran along, and nothing but a query changes definitions.
ObservesQueries == Spec
====
