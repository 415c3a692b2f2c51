---- MODULE Intelligence ----
(***************************************************************************)
(* The Nova Intelligence Engine of crates/nova-intelligence: the telemetry *)
(* sink, the analysis of what it holds, the index advisor and the life of  *)
(* its recommendations.                                                    *)
(*                                                                         *)
(* The database beside it is there only as what an event tells of a query  *)
(* and as the index definitions, which may be different ones after each    *)
(* query; ObservedSession has the engine beside a real store.              *)
(*                                                                         *)
(* A caller that analyzes, recommends or evaluates does so with the events *)
(* and the index definitions of one moment.  Counters saturate at MaxCount *)
(* (u64::MAX); elapsed times are left out.                                 *)
(***************************************************************************)
EXTENDS QueryPlanning

CONSTANTS
    Workload,         \* the queries of the session
    Watched,          \* those executed with telemetry
    Catalogs,         \* the index definitions there may be
    Counts,           \* the numbers of documents an event may give
    Configs,          \* the AdvisorConfigs that callers use
    Thresholds,       \* the EvaluationConfigs, each its min_index_scans
    MaxCount,         \* u64::MAX
    LowestReduction,  \* i32::MIN
    MaxEvents         \* bound: events held at a time

ASSUME WorkloadAssumption ==
    /\ Watched \subseteq Workload
    /\ \A q \in Workload : WellFormed(q)

ASSUME IntelligenceAssumption ==
    /\ MaxCount \in Nat /\ LowestReduction \in Int /\ LowestReduction < 0
    /\ Counts \subseteq Nat /\ Thresholds \subseteq Nat /\ MaxEvents \in Nat
    /\ Configs \subseteq [min_successful : Nat, min_scans : Nat, min_examined : Nat,
                           max_ratio : Nat]

VARIABLES
    definitions,  \* the index definitions of the database
    events,       \* what InMemoryTelemetry holds
    records       \* the records of the RecommendationLifecycle, by collection and path

vars == <<definitions, events, records>>

-----------------------------------------------------------------------------
(* Analysis *)

\* saturating_add
Plus(count, more) == Min({count + more, MaxCount})

NoStats == [successful |-> 0, failed |-> 0, collection_scans |-> 0, index_scans |-> 0,
            examined |-> 0, returned |-> 0]

NoCandidateStats ==
    [successful |-> 0, failed |-> 0, collection_scans |-> 0, index_scans |-> 0,
     collection_scan_examined |-> 0, collection_scan_returned |-> 0,
     index_scan_examined |-> 0, index_scan_returned |-> 0]

add_access(stats, event) ==
    CASE event.access[1] = "Command" -> stats
      [] event.access[1] = "CollectionScan" -> [stats EXCEPT !.collection_scans = Plus(@, 1)]
      [] event.access[1] = "IndexScan" -> [stats EXCEPT !.index_scans = Plus(@, 1)]

\* add_fingerprint_success and add_path_success.
add_success(stats, event) ==
    add_access([stats EXCEPT !.successful = Plus(@, 1),
                             !.examined = Plus(@, event.examined),
                             !.returned = Plus(@, event.returned)], event)

\* MUTANT of add_candidate_success: documents of index scans count as scanned.
MixedCandidateSuccess(stats, event) ==
    LET counted == add_access([stats EXCEPT !.successful = Plus(@, 1)], event) IN
    [counted EXCEPT !.collection_scan_examined = Plus(@, event.examined),
                    !.collection_scan_returned = Plus(@, event.returned)]

add_candidate_success(stats, event) ==
    LET counted == add_access([stats EXCEPT !.successful = Plus(@, 1)], event) IN
    CASE event.access[1] = "CollectionScan" ->
             [counted EXCEPT !.collection_scan_examined = Plus(@, event.examined),
                             !.collection_scan_returned = Plus(@, event.returned)]
      [] event.access[1] = "IndexScan" ->
             [counted EXCEPT !.index_scan_examined = Plus(@, event.examined),
                             !.index_scan_returned = Plus(@, event.returned)]
      [] OTHER -> counted

\* Candidates have counters for each access path.
Succeeded(none, stats, event) ==
    IF none = NoCandidateStats THEN add_candidate_success(stats, event)
    ELSE add_success(stats, event)

\* What a table has under a key, or will start from.
Entry(table, none, key) == IF key \in DOMAIN table THEN table[key] ELSE none

\* A table of statistics in which an event is counted under each of the keys.
Counted(table, keys, none, event) ==
    [key \in DOMAIN table \cup keys |->
        LET old == Entry(table, none, key) IN
        CASE key \notin keys -> old
          [] key \in keys /\ event.succeeded -> Succeeded(none, old, event)
          [] OTHER -> [old EXCEPT !.failed = Plus(@, 1)]]

NoReport ==
    [total |-> 0, successful |-> 0, failed |-> 0, command_executions |-> 0,
     collection_scans |-> 0, index_scans |-> 0, examined |-> 0, returned |-> 0,
     fingerprints |-> <<>>, predicate_paths |-> <<>>, index_candidates |-> <<>>]

\* The keys that an event is counted under in each table.
FingerprintKeys(event) == {<<event.collection, event.fingerprint>>}
PredicateKeys(event) == Range(event.collection) \X event.predicate_paths
CandidateKeys(event) == Range(event.collection) \X event.index_candidate_paths

One(condition) == IF condition THEN 1 ELSE 0

\* One turn of the loop of analyze_workload.
AnalyzeEvent(report, event) ==
    LET access == event.access[1]
        success == event.succeeded
    IN  [total |-> Plus(report.total, 1),
         successful |-> Plus(report.successful, One(success)),
         failed |-> Plus(report.failed, One(~success)),
         command_executions |-> Plus(report.command_executions, One(access = "Command")),
         collection_scans |-> Plus(report.collection_scans, One(access = "CollectionScan")),
         index_scans |-> Plus(report.index_scans, One(access = "IndexScan")),
         examined |-> Plus(report.examined, IF success THEN event.examined ELSE 0),
         returned |-> Plus(report.returned, IF success THEN event.returned ELSE 0),
         fingerprints |-> Counted(report.fingerprints, FingerprintKeys(event), NoStats, event),
         predicate_paths |-> Counted(report.predicate_paths, PredicateKeys(event),
                                     NoStats, event),
         index_candidates |-> Counted(report.index_candidates, CandidateKeys(event),
                                      NoCandidateStats, event)]

\* The loop of analyze_workload: the report of the first n events.
analyze_workload(observed) ==
    LET report[n \in 0 .. Len(observed)] ==
          IF n = 0 THEN NoReport ELSE AnalyzeEvent(report[n - 1], observed[n])
    IN  report[Len(observed)]

-----------------------------------------------------------------------------
(* Advice *)

BASIS_POINTS == 10000

validate_config(config) ==
    /\ config.min_successful > 0 /\ config.min_scans > 0 /\ config.min_examined > 0
    /\ config.max_ratio <= BASIS_POINTS

ratio_basis_points(returned, examined) ==
    IF examined = 0 THEN BASIS_POINTS
    ELSE Min({(returned * BASIS_POINTS) \div examined, BASIS_POINTS})

Ratio(stats) == ratio_basis_points(stats.collection_scan_returned, stats.collection_scan_examined)

\* MUTANT of Enough: what the scans returned of what they examined is no matter.
UnselectiveEnough(stats, config) ==
    /\ stats.successful >= config.min_successful
    /\ stats.collection_scans >= config.min_scans
    /\ stats.collection_scan_examined >= config.min_examined

Enough(stats, config) ==
    /\ stats.successful >= config.min_successful
    /\ stats.collection_scans >= config.min_scans
    /\ stats.collection_scan_examined >= config.min_examined
    /\ Ratio(stats) <= config.max_ratio

Existing(catalog) == {<<catalog[n].collection, catalog[n].field>> : n \in DOMAIN catalog}

\* The recommendations: their evidence, by collection and path.
recommend_indexes(report, existing, config) ==
    LET candidates == report.index_candidates
        chosen == {key \in DOMAIN candidates \ Existing(existing) :
                      Enough(candidates[key], config)}
    IN  [key \in chosen |-> [stats |-> candidates[key], ratio |-> Ratio(candidates[key])]]

-----------------------------------------------------------------------------
(* Evaluation *)

average(total, count) == IF count = 0 THEN 0 ELSE total \div count

\* In basis points of the baseline, rounded towards zero.
Reduction(baseline, observed) ==
    IF observed <= baseline THEN ((baseline - observed) * BASIS_POINTS) \div baseline
    ELSE -(((observed - baseline) * BASIS_POINTS) \div baseline)

reduction_basis_points(baseline, observed) ==
    IF baseline = 0 THEN 0 ELSE Max({Reduction(baseline, observed), LowestReduction})

\* The ImpactEvaluation of evidence by what was counted later.
Impact(evidence, stats) ==
    LET baseline == average(evidence.stats.collection_scan_examined,
                            evidence.stats.collection_scans)
        observed == average(stats.index_scan_examined, stats.index_scans)
    IN  [baseline_collection_scans |-> evidence.stats.collection_scans,
         observed_index_scans |-> stats.index_scans,
         baseline_average_examined |-> baseline,
         observed_average_examined |-> observed,
         examined_reduction |-> reduction_basis_points(baseline, observed)]

-----------------------------------------------------------------------------
(* The engine *)

Init == definitions \in Catalogs /\ events = <<>> /\ records = <<>>

\* An event with what became of its query.
EventWith(event, examined, returned, succeeded) ==
    [event EXCEPT !.examined = examined, !.returned = returned, !.succeeded = succeeded]

\* A query is executed; record appends its event, if it is executed with
\* telemetry, whatever the query examined and returned and whether it failed.
Execute(q) ==
    /\ definitions' \in Catalogs
    /\ IF q \in Watched
       THEN /\ Len(events) < MaxEvents
            /\ LET event == build_event(q, plan(q, definitions), 0, 0, TRUE) IN
               \E n \in Counts, m \in Counts, s \in BOOLEAN :
                   events' = Append(events, EventWith(event, n, m, s))
       ELSE UNCHANGED events
    /\ UNCHANGED records

clear == events' = <<>> /\ UNCHANGED <<definitions, records>>

\* recommend_indexes, and a lifecycle from its result.
from_recommendations(config) ==
    /\ records = <<>>
    /\ validate_config(config)
    /\ LET chosen == recommend_indexes(analyze_workload(events), definitions, config) IN
         records' = [key \in DOMAIN chosen |-> [recommendation |-> chosen[key],
                                                status |-> "Proposed", evaluation |-> <<>>]]
    /\ UNCHANGED <<definitions, events>>

transition(key, expected, next) ==
    /\ records[key].status = expected
    /\ records' = [records EXCEPT ![key].status = next]
    /\ UNCHANGED <<definitions, events>>

accept(key) == transition(key, "Proposed", "Accepted")
dismiss(key) == transition(key, "Proposed", "Dismissed")
mark_applied(key) == transition(key, "Accepted", "Applied")

\* MUTANT of Sufficient: all successful executions are taken for index scans.
AnySufficient(stats, threshold) == threshold > 0 /\ stats.successful >= threshold

\* Whether what was counted for a path is enough to evaluate its index.
Sufficient(stats, threshold) == threshold > 0 /\ stats.index_scans >= threshold

evaluate_impact(key, threshold) ==
    LET candidates == analyze_workload(events).index_candidates IN
    /\ records[key].status = "Applied"
    /\ key \in DOMAIN candidates
    /\ Sufficient(candidates[key], threshold)
    /\ records' = [records EXCEPT
          ![key].status = "Evaluated",
          ![key].evaluation = <<Impact(records[key].recommendation, candidates[key])>>]
    /\ UNCHANGED <<definitions, events>>

\* The calls that users of the engine make.
Use ==
    \/ clear
    \/ \E config \in Configs : from_recommendations(config)
    \/ \E key \in DOMAIN records :
         \/ accept(key) \/ dismiss(key) \/ mark_applied(key)
         \/ \E threshold \in Thresholds : evaluate_impact(key, threshold)

Next == (\E q \in Workload : Execute(q)) \/ Use

Spec == Init /\ [][Next]_vars

-----------------------------------------------------------------------------
(* What there is to count in a sequence of events: sets of positions *)

Good(observed) == {i \in DOMAIN observed : observed[i].succeeded}
Commands(observed) == {i \in DOMAIN observed : observed[i].access[1] = "Command"}
Scans(observed) == {i \in DOMAIN observed : observed[i].access[1] = "CollectionScan"}
Lookups(observed) == {i \in DOMAIN observed : observed[i].access[1] = "IndexScan"}

\* The events with a fingerprint, and those whose predicate has a path, or has
\* it where it could use an index.
Shaped(observed, key) ==
    {i \in DOMAIN observed : <<observed[i].collection, observed[i].fingerprint>> = key}
Concerning(observed, key) ==
    {i \in DOMAIN observed : /\ observed[i].collection = <<key[1]>>
                             /\ key[2] \in observed[i].predicate_paths}
Serving(observed, key) ==
    {i \in DOMAIN observed : /\ observed[i].collection = <<key[1]>>
                             /\ key[2] \in observed[i].index_candidate_paths}

\* Numbers and sums of a set of positions, saturated.
Number(S) == Min({MaxCount, Cardinality(S)})
Total(S, amounts) ==
    LET sum[n \in 0 .. Len(amounts)] ==
          IF n = 0 THEN 0 ELSE sum[n - 1] + (IF n \in S THEN amounts[n] ELSE 0)
    IN  sum[Len(amounts)]
Saturated(S, amounts) == Min({MaxCount, Total(S, amounts)})

Examined(observed) == [i \in DOMAIN observed |-> observed[i].examined]
Returned(observed) == [i \in DOMAIN observed |-> observed[i].returned]

\* The true statistics of a set of events.
StatsOf(observed, S) ==
    LET good == S \cap Good(observed) IN
    [successful |-> Number(good), failed |-> Number(S \ Good(observed)),
     collection_scans |-> Number(good \cap Scans(observed)),
     index_scans |-> Number(good \cap Lookups(observed)),
     examined |-> Saturated(good, Examined(observed)),
     returned |-> Saturated(good, Returned(observed))]

CandidateStatsOf(observed, S) ==
    LET good == S \cap Good(observed)
        scans == good \cap Scans(observed)
        lookups == good \cap Lookups(observed)
    IN  [successful |-> Number(good), failed |-> Number(S \ Good(observed)),
         collection_scans |-> Number(scans), index_scans |-> Number(lookups),
         collection_scan_examined |-> Saturated(scans, Examined(observed)),
         collection_scan_returned |-> Saturated(scans, Returned(observed)),
         index_scan_examined |-> Saturated(lookups, Examined(observed)),
         index_scan_returned |-> Saturated(lookups, Returned(observed))]

-----------------------------------------------------------------------------
(* Properties *)

\* Every counter of a report is the true number or saturated: of all events by
\* outcome and by access path, failed ones too, and of the documents of the
\* successful ones.  In the tables a failed event counts as a failure only, an
\* event counts once under each of its paths and under none else, and the events
\* counted for a candidate path are among those of its predicate path.
ReportsCountWhatHappened ==
    LET report == analyze_workload(events) IN
    /\ report.total = Number(DOMAIN events)
    /\ report.successful = Number(Good(events))
    /\ report.failed = Number(DOMAIN events \ Good(events))
    /\ report.command_executions = Number(Commands(events))
    /\ report.collection_scans = Number(Scans(events))
    /\ report.index_scans = Number(Lookups(events))
    /\ report.examined = Saturated(Good(events), Examined(events))
    /\ report.returned = Saturated(Good(events), Returned(events))
    /\ \A i \in DOMAIN events :
         /\ FingerprintKeys(events[i]) \subseteq DOMAIN report.fingerprints
         /\ PredicateKeys(events[i]) \subseteq DOMAIN report.predicate_paths
         /\ CandidateKeys(events[i]) \subseteq DOMAIN report.index_candidates
    /\ \A f \in DOMAIN report.fingerprints :
         report.fingerprints[f] = StatsOf(events, Shaped(events, f))
    /\ \A key \in DOMAIN report.predicate_paths :
         report.predicate_paths[key] = StatsOf(events, Concerning(events, key))
    /\ \A key \in DOMAIN report.index_candidates :
         /\ report.index_candidates[key] = CandidateStatsOf(events, Serving(events, key))
         /\ Serving(events, key) \subseteq Concerning(events, key)
         /\ key \in DOMAIN report.predicate_paths

\* A catalog with an index, under a name of its own, on the path of a key.
WithIndex(catalog, key) ==
    [n \in DOMAIN catalog \cup {<<"nie">>} |->
        IF n = <<"nie">> THEN [collection |-> key[1], field |-> key[2]] ELSE catalog[n]]

\* The successful events that were planned as full scans where an index on the
\* path of a key could be used.  Explained queries are among them and examine
\* nothing (explain).
FullScans(observed, key) == Serving(observed, key) \cap Good(observed) \cap Scans(observed)

\* At most limit basis points, rounded down, of the documents examined were
\* returned.
Selective(returned, examined, limit) ==
    limit < BASIS_POINTS => returned * BASIS_POINTS < (limit + 1) * examined

\* What is recommended now is not indexed.  The demanded number of executions
\* succeeded, and of full scans among them; together these scans examined the
\* demanded number of documents, and returned no larger a part of them than the
\* limit allows, as far as the two sums do not saturate.  And with such an index
\* no query of the workload that is counted for it would scan the whole
\* collection again.
RecommendationsWouldHelp ==
    LET report == analyze_workload(events) IN
    \A config \in {c \in Configs : validate_config(c)} :
        \A key \in DOMAIN recommend_indexes(report, definitions, config) :
            LET scans == FullScans(events, key)
            IN  /\ \A n \in DOMAIN definitions :
                     ~(definitions[n].collection = key[1] /\ definitions[n].field = key[2])
                /\ Cardinality(Serving(events, key) \cap Good(events)) >= config.min_successful
                /\ Cardinality(scans) >= config.min_scans
                /\ Total(scans, Examined(events)) >= config.min_examined
                /\ Selective(Saturated(scans, Returned(events)),
                             Saturated(scans, Examined(events)), config.max_ratio)
                /\ \A q \in Workload :
                     /\ EventCollection(q.command) = <<key[1]>>
                     /\ key[2] \in index_candidate_paths(q.stages)
                     => plan(q, WithIndex(definitions, key))[1] = "IndexScan"

Edges == {<<"Proposed", "Accepted">>, <<"Proposed", "Dismissed">>,
          <<"Accepted", "Applied">>, <<"Applied", "Evaluated">>}

\* A record goes the documented way once, keeps its evidence, and is evaluated
\* exactly when it becomes Evaluated: by at least the demanded number of index
\* scans observed for its path, and against the evidence it was proposed with.
MovesForward ==
    \A key \in DOMAIN records :
        LET old == records[key]
            new == records'[key]
            lookups == Serving(events, key) \cap Good(events) \cap Lookups(events)
        IN  /\ key \in DOMAIN records'
            /\ new # old => <<old.status, new.status>> \in Edges
            /\ new.recommendation = old.recommendation
            /\ (new.evaluation # <<>>) <=> (new.status = "Evaluated")
            /\ (new # old /\ new.status = "Evaluated") =>
                 /\ \E threshold \in Thresholds \ {0} : Cardinality(lookups) >= threshold
                 /\ new.evaluation[1].baseline_collection_scans
                      = old.recommendation.stats.collection_scans
                 /\ new.evaluation[1].examined_reduction <= BASIS_POINTS

\* No call and no query moves a record in any other way.
RecordsMoveForward == [][MovesForward]_vars
====
