---- MODULE Intelligence_proofs ----
(***************************************************************************)
(* Proofs about Intelligence for any workload, catalogs, configurations    *)
(* and bounds: reports count what happened, recommendations are of use to  *)
(* the planner, and records go their documented way.                       *)
(***************************************************************************)
EXTENDS ObservedSession, QueryEngine_proofs

-----------------------------------------------------------------------------
(* Counting *)

\* The greater of two numbers.
LEMMA MaxOfTwo ==
    ASSUME NEW a \in Int, NEW b \in Int
    PROVE  Max({a, b}) = IF a >= b THEN a ELSE b
<1> DEFINE most == IF a >= b THEN a ELSE b
<1>1. most \in {a, b} /\ \A y \in {a, b} : most >= y
  OBVIOUS
<1>2. \A x \in {a, b} : (\A y \in {a, b} : x >= y) => x = most
  OBVIOUS
<1> HIDE DEF most
<1> QED
  BY <1>1, <1>2 DEF Max, most

\* A saturated count of what follows more is that of all.
LEMMA PlusSaturates ==
    ASSUME NEW n \in Nat, NEW more \in Nat
    PROVE  /\ Plus(Min({MaxCount, n}), more) = Min({MaxCount, n + more})
           /\ Min({MaxCount, n}) \in 0 .. MaxCount /\ Min({MaxCount, n}) <= n
<1>1. Min({MaxCount, n}) = IF MaxCount <= n THEN MaxCount ELSE n
  BY MinOfTwo, IntelligenceAssumption
<1>2. Min({MaxCount, n + more}) = IF MaxCount <= n + more THEN MaxCount ELSE n + more
  BY MinOfTwo, IntelligenceAssumption
<1> DEFINE c == Min({MaxCount, n})
<1>3. c \in Nat
  BY <1>1, IntelligenceAssumption
<1> HIDE DEF c
<1>4. Plus(c, more) = IF c + more <= MaxCount THEN c + more ELSE MaxCount
  BY <1>3, MinOfTwo, IntelligenceAssumption DEF Plus
<1> QED
  BY <1>1, <1>2, <1>3, <1>4, IntelligenceAssumption DEF c

\* Counts of positions: none, and one more.
LEMMA Numbers ==
    ASSUME NEW S, IsFiniteSet(S)
    PROVE  /\ Number({}) = 0
           /\ \A x : x \notin S => Number(S \cup {x}) = Plus(Number(S), 1)
           /\ Number(S) \in 0 .. MaxCount /\ Number(S) <= Cardinality(S)
<1>1. Cardinality(S) \in Nat
  BY FS_CardinalityType
<1>2. \A x : x \notin S => Cardinality(S \cup {x}) = Cardinality(S) + 1
  BY FS_AddElement
<1>3. Number({}) = 0
  <2>1. Min({MaxCount, 0}) = 0
    BY MinOfTwo, IntelligenceAssumption
  <2> QED
    BY <2>1, FS_EmptySet DEF Number
<1> QED
  BY <1>1, <1>2, <1>3, PlusSaturates DEF Number

\* Total by running sums.
LEMMA RunningSum ==
    ASSUME NEW S, NEW amounts \in Seq(Nat)
    PROVE  \E f \in [0 .. Len(amounts) -> Nat] :
              /\ f[0] = 0 /\ Total(S, amounts) = f[Len(amounts)]
              /\ \A n \in 1 .. Len(amounts) :
                   f[n] = f[n - 1] + (IF n \in S THEN amounts[n] ELSE 0)
<1> DEFINE L == Len(amounts)
           More(n) == IF n \in S THEN amounts[n] ELSE 0
           Run(f, k) == f = [n \in 0 .. k |-> IF n = 0 THEN 0 ELSE f[n - 1] + More(n)]
           sum == CHOOSE f : Run(f, L)
<1>1. L \in Nat /\ \A n \in 1 .. L : More(n) \in Nat
  OBVIOUS
<1>2. Total(S, amounts) = sum[L]
  BY DEF Total
<1> HIDE DEF L, More
<1>3. Run(sum, L)
  <2> DEFINE T == {k \in 0 .. L : \E f : Run(f, k)}
  <2>1. 0 \in T
    <3>1. Run([n \in 0 .. 0 |-> 0], 0)
      OBVIOUS
    <3> HIDE DEF Run
    <3> QED
      BY <1>1, <3>1
  <2>2. ASSUME NEW k \in 1 .. L, k - 1 \in T
        PROVE  k \in T
    <3>1. PICK f : Run(f, k - 1)
      BY <2>2
    <3> DEFINE g == [n \in 0 .. k |-> IF n = k THEN f[k - 1] + More(k) ELSE f[n]]
    <3>2. \A n \in 0 .. k : n # k => n \in 0 .. k - 1 /\ (n = 0 \/ n - 1 \in 0 .. k - 1)
      BY <1>1
    <3>3. \A n \in 0 .. k - 1 : f[n] = IF n = 0 THEN 0 ELSE f[n - 1] + More(n)
      BY <3>1
    <3>4. ASSUME NEW n \in 0 .. k
          PROVE  g[n] = IF n = 0 THEN 0 ELSE g[n - 1] + More(n)
      <4>1. CASE n = k
        BY <1>1, <4>1
      <4>2. CASE n # k
        BY <1>1, <3>2, <3>3, <4>2
      <4> QED
        BY <4>1, <4>2
    <3>5. Run(g, k)
      BY <3>4
    <3>6. k \in 0 .. L
      BY <1>1
    <3> HIDE DEF Run, g
    <3> QED
      BY <3>5, <3>6
  <2> HIDE DEF T
  <2>3. L \in T
    <3>1. L \in 0 .. L
      BY <1>1
    <3> QED
      BY <1>1, <2>1, <2>2, <3>1, LevelByLevel
  <2>4. \E f : Run(f, L)
    BY <2>3 DEF T
  <2> HIDE DEF Run
  <2> QED
    BY <2>4
<1> HIDE DEF sum
<1>4. /\ 0 \in 0 .. L /\ L \in 0 .. L
      /\ \A n \in 1 .. L : n \in 0 .. L /\ n - 1 \in 0 .. L /\ n # 0
  BY <1>1
<1>5. sum[0] = 0
  BY <1>3, <1>4
<1>6. \A n \in 1 .. L : sum[n] = sum[n - 1] + More(n)
  BY <1>3, <1>4
<1>7. sum = [n \in 0 .. L |-> sum[n]]
  BY <1>3
<1> HIDE DEF Run
<1>8. \A n \in 0 .. L : sum[n] \in Nat
  <2> DEFINE T == {n \in 0 .. L : sum[n] \in Nat}
  <2>1. 0 \in T
    BY <1>4, <1>5
  <2>2. ASSUME NEW k \in 1 .. L, k - 1 \in T
        PROVE  k \in T
    <3>1. sum[k - 1] \in Nat /\ More(k) \in Nat
      BY <1>1, <2>2
    <3> QED
      BY <1>4, <1>6, <3>1
  <2> HIDE DEF T
  <2>3. \A n \in 0 .. L : n \in T
    BY <1>1, <2>1, <2>2, LevelByLevel
  <2> QED
    BY <2>3 DEF T
<1>9. sum \in [0 .. L -> Nat]
  BY <1>7, <1>8
<1> QED
  BY <1>2, <1>5, <1>6, <1>9 DEF L, More

\* A sum is a number, none for no positions, and positive only if it has a
\* positive part.
LEMMA Sums ==
    ASSUME NEW S, NEW amounts \in Seq(Nat)
    PROVE  /\ Total(S, amounts) \in Nat /\ Total({}, amounts) = 0
           /\ Total(S, amounts) > 0 => \E i \in S \cap DOMAIN amounts : amounts[i] > 0
<1> DEFINE L == Len(amounts)
<1>0. L \in Nat /\ DOMAIN amounts = 1 .. L /\ \A n \in 1 .. L : amounts[n] \in Nat
  OBVIOUS
<1>1. ASSUME NEW D, \A i \in D \cap DOMAIN amounts : ~(amounts[i] > 0)
      PROVE  Total(D, amounts) = 0
  <2>1. PICK f \in [0 .. L -> Nat] :
              /\ f[0] = 0 /\ Total(D, amounts) = f[L]
              /\ \A n \in 1 .. L :
                   f[n] = f[n - 1] + (IF n \in D THEN amounts[n] ELSE 0)
    BY RunningSum
  <2> HIDE DEF L
  <2> DEFINE T == {n \in 0 .. L : f[n] = 0}
  <2>2. 0 \in T
    BY <1>0, <2>1
  <2>3. ASSUME NEW k \in 1 .. L, k - 1 \in T
        PROVE  k \in T
    <3>1. (IF k \in D THEN amounts[k] ELSE 0) = 0
      <4>1. CASE k \in D
        <5>1. amounts[k] \in Nat /\ ~(amounts[k] > 0)
          BY <1>0, <1>1, <4>1
        <5> QED
          BY <4>1, <5>1
      <4>2. CASE k \notin D
        BY <4>2
      <4> QED
        BY <4>1, <4>2
    <3>2. f[k - 1] = 0 /\ k \in 0 .. L
      BY <1>0, <2>3
    <3> QED
      BY <2>1, <3>1, <3>2
  <2> HIDE DEF T
  <2>4. \A n \in 0 .. L : n \in T
    BY <1>0, <2>2, <2>3, LevelByLevel
  <2>5. L \in 0 .. L
    BY <1>0
  <2> QED
    BY <2>1, <2>4, <2>5 DEF T
<1>2. Total(S, amounts) \in Nat
  <2>1. PICK f \in [0 .. L -> Nat] :
              /\ f[0] = 0 /\ Total(S, amounts) = f[L]
              /\ \A n \in 1 .. L :
                   f[n] = f[n - 1] + (IF n \in S THEN amounts[n] ELSE 0)
    BY RunningSum
  <2> HIDE DEF L
  <2>2. L \in 0 .. L
    BY <1>0
  <2> QED
    BY <2>1, <2>2
<1>3. Total({}, amounts) = 0
  BY <1>1
<1> QED
  BY <1>1, <1>2, <1>3

\* A further position adds its amount.
LEMMA SumOfOneMore ==
    ASSUME NEW S, NEW amounts \in Seq(Nat), NEW x \in DOMAIN amounts, x \notin S
    PROVE  Total(S \cup {x}, amounts) = Total(S, amounts) + amounts[x]
<1> DEFINE L == Len(amounts)
<1>0. L \in Nat /\ DOMAIN amounts = 1 .. L /\ \A n \in 1 .. L : amounts[n] \in Nat
  OBVIOUS
<1>1. PICK f \in [0 .. L -> Nat] :
              /\ f[0] = 0 /\ Total(S, amounts) = f[L]
              /\ \A n \in 1 .. L :
                   f[n] = f[n - 1] + (IF n \in S THEN amounts[n] ELSE 0)
  BY RunningSum
<1>2. PICK g \in [0 .. L -> Nat] :
              /\ g[0] = 0 /\ Total(S \cup {x}, amounts) = g[L]
              /\ \A n \in 1 .. L :
                   g[n] = g[n - 1] + (IF n \in S \cup {x} THEN amounts[n] ELSE 0)
  BY RunningSum
<1> HIDE DEF L
<1> DEFINE T == {n \in 0 .. L : g[n] = f[n] + (IF x <= n THEN amounts[x] ELSE 0)}
<1>3. x \in 1 .. L /\ amounts[x] \in Nat
  BY <1>0
<1>4. 0 \in T
  BY <1>0, <1>1, <1>2, <1>3
<1>5. ASSUME NEW k \in 1 .. L, k - 1 \in T
      PROVE  k \in T
  <2>1. /\ f[k - 1] \in Nat /\ g[k - 1] \in Nat /\ amounts[k] \in Nat
        /\ g[k - 1] = f[k - 1] + (IF x <= k - 1 THEN amounts[x] ELSE 0)
    BY <1>0, <1>1, <1>2, <1>5
  <2>2. CASE k = x
    BY <1>1, <1>2, <1>3, <2>1, <2>2
  <2>3. CASE k # x
    <3>1. x <= k <=> x <= k - 1
      BY <1>3, <2>3
    <3>2. k \in S \cup {x} <=> k \in S
      BY <2>3
    <3> QED
      BY <1>1, <1>2, <1>3, <2>1, <3>1, <3>2
  <2> QED
    BY <2>2, <2>3
<1> HIDE DEF T
<1>6. \A n \in 0 .. L : n \in T
  BY <1>0, <1>4, <1>5, LevelByLevel
<1> QED
  BY <1>0, <1>1, <1>2, <1>3, <1>6 DEF T

\* Saturated sums: none, and one more.
LEMMA SaturatedSums ==
    ASSUME NEW S, NEW amounts \in Seq(Nat)
    PROVE  /\ Saturated({}, amounts) = 0
           /\ \A x \in DOMAIN amounts : x \notin S =>
                 Saturated(S \cup {x}, amounts) = Plus(Saturated(S, amounts), amounts[x])
           /\ Saturated(S, amounts) \in 0 .. MaxCount
           /\ Saturated(S, amounts) <= Total(S, amounts)
<1>1. Saturated({}, amounts) = 0
  <2>1. Min({MaxCount, 0}) = 0
    BY MinOfTwo, IntelligenceAssumption
  <2> QED
    BY <2>1, Sums DEF Saturated
<1>2. Total(S, amounts) \in Nat
  BY Sums
<1>3. ASSUME NEW x \in DOMAIN amounts, x \notin S
      PROVE  Saturated(S \cup {x}, amounts) = Plus(Saturated(S, amounts), amounts[x])
  <2>1. amounts[x] \in Nat
    OBVIOUS
  <2>2. Total(S \cup {x}, amounts) = Total(S, amounts) + amounts[x]
    BY <1>3, SumOfOneMore
  <2> QED
    BY <1>2, <2>1, <2>2, PlusSaturates DEF Saturated
<1>4. /\ Saturated(S, amounts) \in 0 .. MaxCount
      /\ Saturated(S, amounts) <= Total(S, amounts)
  BY <1>2, PlusSaturates DEF Saturated
<1> QED
  BY <1>1, <1>3, <1>4

\* Counting on from the first k - 1 positions to the first k.
LEMMA NumberStep ==
    ASSUME NEW S, NEW k \in Nat, k # 0
    PROVE  /\ Number(S \cap (1 .. k)) = Plus(Number(S \cap (1 .. k - 1)), One(k \in S))
           /\ Number(S \cap (1 .. k)) \in 0 .. MaxCount
           /\ Number(S \cap (1 .. 0)) = 0
<1> DEFINE before == S \cap (1 .. k - 1)
           upto == S \cap (1 .. k)
<1>1. IsFiniteSet(before) /\ IsFiniteSet(upto)
  <2>1. IsFiniteSet(1 .. k) /\ before \subseteq 1 .. k /\ upto \subseteq 1 .. k
    BY FS_Interval
  <2> QED
    BY <2>1, FS_Subset
<1>2. k \notin before /\ upto = IF k \in S THEN before \cup {k} ELSE before
  OBVIOUS
<1>3. S \cap (1 .. 0) = {}
  OBVIOUS
<1> HIDE DEF before, upto
<1>4. Number(before) \in 0 .. MaxCount /\ Number(upto) \in 0 .. MaxCount
  BY <1>1, Numbers
<1>5. Plus(Number(before), 0) = Number(before)
  <2> DEFINE c == Number(before)
  <2>1. c \in 0 .. MaxCount
    BY <1>4
  <2> HIDE DEF c
  <2>2. Plus(c, 0) = c
    BY <2>1, MinOfTwo, IntelligenceAssumption DEF Plus
  <2> QED
    BY <2>2 DEF c
<1>6. Number(upto) = Plus(Number(before), One(k \in S))
  <2>1. CASE k \in S
    BY <1>1, <1>2, <2>1, Numbers DEF One
  <2>2. CASE k \notin S
    BY <1>2, <1>5, <2>2 DEF One
  <2> QED
    BY <2>1, <2>2
<1>7. Number({}) = 0
  BY FS_EmptySet, Numbers
<1> QED
  BY <1>3, <1>4, <1>6, <1>7 DEF before, upto

\* Adding up from the first k - 1 positions to the first k.
LEMMA SaturatedStep ==
    ASSUME NEW S, NEW amounts \in Seq(Nat), NEW k \in DOMAIN amounts
    PROVE  /\ k \in S => Saturated(S \cap (1 .. k), amounts)
                            = Plus(Saturated(S \cap (1 .. k - 1), amounts), amounts[k])
           /\ k \notin S => Saturated(S \cap (1 .. k), amounts)
                               = Plus(Saturated(S \cap (1 .. k - 1), amounts), 0)
<1> DEFINE before == S \cap (1 .. k - 1)
           upto == S \cap (1 .. k)
<1>1. k \in Nat /\ k # 0
  OBVIOUS
<1>2. k \notin before /\ upto = IF k \in S THEN before \cup {k} ELSE before
  BY <1>1
<1> HIDE DEF before, upto
<1>4. Saturated(before, amounts) \in 0 .. MaxCount
  BY SaturatedSums
<1>5. Plus(Saturated(before, amounts), 0) = Saturated(before, amounts)
  <2> DEFINE c == Saturated(before, amounts)
  <2>1. c \in 0 .. MaxCount
    BY <1>4
  <2> HIDE DEF c
  <2>2. Plus(c, 0) = c
    BY <2>1, MinOfTwo, IntelligenceAssumption DEF Plus
  <2> QED
    BY <2>2 DEF c
<1>6. CASE k \in S
  <2>1. Saturated(before \cup {k}, amounts) = Plus(Saturated(before, amounts), amounts[k])
    BY <1>2, SaturatedSums
  <2>2. Saturated(upto, amounts) = Plus(Saturated(before, amounts), amounts[k])
    BY <1>2, <1>6, <2>1
  <2> QED
    BY <1>6, <2>2 DEF before, upto
<1>7. CASE k \notin S
  BY <1>2, <1>5, <1>7 DEF before, upto
<1> QED
  BY <1>6, <1>7

-----------------------------------------------------------------------------
(* Reports *)

\* What a report relies on of an event.
IsEvent(event) ==
    /\ event.succeeded \in BOOLEAN
    /\ event.examined \in Nat /\ event.returned \in Nat
    /\ event.access[1] \in {"Command", "CollectionScan", "IndexScan"}
    /\ event.collection = <<>> \/ \E c : event.collection = <<c>>
    /\ event.index_candidate_paths \subseteq event.predicate_paths

\* A sequence of events.
IsWorkload(observed) ==
    /\ Len(observed) \in Nat /\ DOMAIN observed = 1 .. Len(observed)
    /\ \A i \in DOMAIN observed : IsEvent(observed[i])

\* The documents examined and returned are numbers.
LEMMA AmountsOfEvents ==
    ASSUME NEW observed, IsWorkload(observed)
    PROVE  /\ Examined(observed) \in Seq(Nat) /\ Returned(observed) \in Seq(Nat)
           /\ DOMAIN Examined(observed) = DOMAIN observed
           /\ DOMAIN Returned(observed) = DOMAIN observed
           /\ \A i \in DOMAIN observed : /\ Examined(observed)[i] = observed[i].examined
                                         /\ Returned(observed)[i] = observed[i].returned
<1> DEFINE L == Len(observed)
<1>1. L \in Nat /\ DOMAIN observed = 1 .. L
  BY DEF IsWorkload
<1>2. \A i \in 1 .. L : observed[i].examined \in Nat /\ observed[i].returned \in Nat
  BY <1>1 DEF IsWorkload, IsEvent
<1> HIDE DEF L
<1>3. Examined(observed) = [i \in 1 .. L |-> observed[i].examined]
  BY <1>1 DEF Examined
<1>4. Returned(observed) = [i \in 1 .. L |-> observed[i].returned]
  BY <1>1 DEF Returned
<1> QED
  BY <1>1, <1>2, <1>3, <1>4

\* analyze_workload by the reports after each event.
LEMMA ReportRecursion ==
    ASSUME NEW observed, Len(observed) \in Nat
    PROVE  \E f : /\ f[0] = NoReport /\ analyze_workload(observed) = f[Len(observed)]
                  /\ \A n \in 1 .. Len(observed) : f[n] = AnalyzeEvent(f[n - 1], observed[n])
<1> DEFINE L == Len(observed)
           Run(f, k) == f = [n \in 0 .. k |->
                               IF n = 0 THEN NoReport ELSE AnalyzeEvent(f[n - 1], observed[n])]
           report == CHOOSE f : Run(f, L)
<1>1. L \in Nat
  OBVIOUS
<1>2. analyze_workload(observed) = report[L]
  BY DEF analyze_workload
<1> HIDE DEF L
<1>3. Run(report, L)
  <2> DEFINE T == {k \in 0 .. L : \E f : Run(f, k)}
  <2>1. 0 \in T
    <3>1. Run([n \in 0 .. 0 |-> NoReport], 0)
      OBVIOUS
    <3> HIDE DEF Run
    <3> QED
      BY <1>1, <3>1
  <2>2. ASSUME NEW k \in 1 .. L, k - 1 \in T
        PROVE  k \in T
    <3>1. PICK f : Run(f, k - 1)
      BY <2>2
    <3> DEFINE g == [n \in 0 .. k |->
                       IF n = k THEN AnalyzeEvent(f[k - 1], observed[k]) ELSE f[n]]
    <3>2. \A n \in 0 .. k : n # k => n \in 0 .. k - 1 /\ (n = 0 \/ n - 1 \in 0 .. k - 1)
      BY <1>1
    <3>3. \A n \in 0 .. k - 1 :
             f[n] = IF n = 0 THEN NoReport ELSE AnalyzeEvent(f[n - 1], observed[n])
      BY <3>1
    <3>4. ASSUME NEW n \in 0 .. k
          PROVE  g[n] = IF n = 0 THEN NoReport ELSE AnalyzeEvent(g[n - 1], observed[n])
      <4>1. CASE n = k
        BY <1>1, <4>1
      <4>2. CASE n # k
        BY <1>1, <3>2, <3>3, <4>2
      <4> QED
        BY <4>1, <4>2
    <3>5. Run(g, k)
      BY <3>4
    <3>6. k \in 0 .. L
      BY <1>1
    <3> HIDE DEF Run, g
    <3> QED
      BY <3>5, <3>6
  <2> HIDE DEF T
  <2>3. L \in T
    <3>1. L \in 0 .. L
      BY <1>1
    <3> QED
      BY <1>1, <2>1, <2>2, <3>1, LevelByLevel
  <2>4. \E f : Run(f, L)
    BY <2>3 DEF T
  <2> HIDE DEF Run
  <2> QED
    BY <2>4
<1> HIDE DEF report
<1>4. /\ 0 \in 0 .. L
      /\ \A n \in 1 .. L : n \in 0 .. L /\ n - 1 \in 0 .. L /\ n # 0
  BY <1>1
<1>5. report[0] = NoReport
  BY <1>3, <1>4
<1>6. \A n \in 1 .. L : report[n] = AnalyzeEvent(report[n - 1], observed[n])
  BY <1>3, <1>4
<1> QED
  BY <1>2, <1>5, <1>6 DEF L

\* The true statistics of the kind that a table starts from.
TrueStats(none, observed, S) ==
    IF none = NoCandidateStats THEN CandidateStatsOf(observed, S) ELSE StatsOf(observed, S)

\* Candidates' statistics are not those of fingerprints and paths.
LEMMA KindsDiffer == NoStats # NoCandidateStats
<1>1. "examined" \in DOMAIN NoStats /\ "examined" \notin DOMAIN NoCandidateStats
  BY DEF NoStats, NoCandidateStats
<1> QED
  BY <1>1

\* A position more in the part of a set that is in X, or is not.
LEMMA OneMorePosition ==
    ASSUME NEW S, NEW k, NEW X, IsFiniteSet(S), k \notin S
    PROVE  Number((S \cup {k}) \cap X) = IF k \in X THEN Plus(Number(S \cap X), 1)
                                         ELSE Number(S \cap X)
<1>1. IsFiniteSet(S \cap X)
  BY FS_Subset
<1>2. CASE k \in X
  <2>1. (S \cup {k}) \cap X = (S \cap X) \cup {k}
    BY <1>2
  <2> QED
    BY <1>1, <1>2, <2>1, Numbers
<1>3. CASE k \notin X
  <2>1. (S \cup {k}) \cap X = S \cap X
    BY <1>3
  <2> QED
    BY <1>3, <2>1
<1> QED
  BY <1>2, <1>3

\* A position more in the part of a set that is not in X.
LEMMA OneMoreBeside ==
    ASSUME NEW S, NEW k, NEW X, IsFiniteSet(S), k \notin S
    PROVE  Number((S \cup {k}) \ X) = IF k \in X THEN Number(S \ X)
                                      ELSE Plus(Number(S \ X), 1)
<1>1. IsFiniteSet(S \ X)
  BY FS_Subset
<1>2. CASE k \in X
  <2>1. (S \cup {k}) \ X = S \ X
    BY <1>2
  <2> QED
    BY <1>2, <2>1
<1>3. CASE k \notin X
  <2>1. (S \cup {k}) \ X = (S \ X) \cup {k}
    BY <1>3
  <2> QED
    BY <1>1, <1>3, <2>1, Numbers
<1> QED
  BY <1>2, <1>3

\* No events have the statistics that a table starts from.
LEMMA NothingCounted ==
    ASSUME NEW none \in {NoStats, NoCandidateStats}, NEW observed, IsWorkload(observed)
    PROVE  TrueStats(none, observed, {}) = none
<1>1. Examined(observed) \in Seq(Nat) /\ Returned(observed) \in Seq(Nat)
  BY AmountsOfEvents
<1>2. \A X : {} \cap X = {} /\ {} \ X = {}
  OBVIOUS
<1>3. /\ Number({}) = 0
      /\ Saturated({}, Examined(observed)) = 0 /\ Saturated({}, Returned(observed)) = 0
  BY <1>1, FS_EmptySet, Numbers, SaturatedSums
<1>4. StatsOf(observed, {}) = NoStats
  BY <1>2, <1>3, Zenon DEF StatsOf, NoStats
<1>5. CandidateStatsOf(observed, {}) = NoCandidateStats
  BY <1>2, <1>3, Zenon DEF CandidateStatsOf, NoCandidateStats
<1> QED
  BY <1>4, <1>5, KindsDiffer DEF TrueStats

\* Statistics of fingerprints and paths, and those of candidates, have their fields.
IsStats(stats) ==
    stats = [successful |-> stats.successful, failed |-> stats.failed,
             collection_scans |-> stats.collection_scans, index_scans |-> stats.index_scans,
             examined |-> stats.examined, returned |-> stats.returned]

IsCandidateStats(stats) ==
    stats = [successful |-> stats.successful, failed |-> stats.failed,
             collection_scans |-> stats.collection_scans, index_scans |-> stats.index_scans,
             collection_scan_examined |-> stats.collection_scan_examined,
             collection_scan_returned |-> stats.collection_scan_returned,
             index_scan_examined |-> stats.index_scan_examined,
             index_scan_returned |-> stats.index_scan_returned]

\* The statistics after an event, field by field.
AfterEvent(old, event) ==
    LET scan == event.succeeded /\ event.access[1] = "CollectionScan"
        lookup == event.succeeded /\ event.access[1] = "IndexScan"
    IN
    [successful |-> IF event.succeeded THEN Plus(old.successful, 1) ELSE old.successful,
     failed |-> IF event.succeeded THEN old.failed ELSE Plus(old.failed, 1),
     collection_scans |-> IF scan THEN Plus(old.collection_scans, 1) ELSE old.collection_scans,
     index_scans |-> IF lookup THEN Plus(old.index_scans, 1) ELSE old.index_scans,
     examined |-> IF event.succeeded THEN Plus(old.examined, event.examined) ELSE old.examined,
     returned |-> IF event.succeeded THEN Plus(old.returned, event.returned) ELSE old.returned]

CandidateAfterEvent(old, event) ==
    LET scan == event.succeeded /\ event.access[1] = "CollectionScan"
        lookup == event.succeeded /\ event.access[1] = "IndexScan"
    IN
    [successful |-> IF event.succeeded THEN Plus(old.successful, 1) ELSE old.successful,
     failed |-> IF event.succeeded THEN old.failed ELSE Plus(old.failed, 1),
     collection_scans |-> IF scan THEN Plus(old.collection_scans, 1) ELSE old.collection_scans,
     index_scans |-> IF lookup THEN Plus(old.index_scans, 1) ELSE old.index_scans,
     collection_scan_examined |-> IF scan THEN Plus(old.collection_scan_examined, event.examined)
         ELSE old.collection_scan_examined,
     collection_scan_returned |-> IF scan THEN Plus(old.collection_scan_returned, event.returned)
         ELSE old.collection_scan_returned,
     index_scan_examined |-> IF lookup THEN Plus(old.index_scan_examined, event.examined)
         ELSE old.index_scan_examined,
     index_scan_returned |-> IF lookup THEN Plus(old.index_scan_returned, event.returned)
         ELSE old.index_scan_returned]

\* What an event adds to the statistics of a fingerprint or path.
LEMMA EventAdds ==
    ASSUME NEW event, NEW old, IsStats(old), event.succeeded \in BOOLEAN,
           event.access[1] \in {"Command", "CollectionScan", "IndexScan"}
    PROVE  AfterEvent(old, event) = IF event.succeeded THEN add_success(old, event)
                                    ELSE [old EXCEPT !.failed = Plus(@, 1)]
<1> USE DEF IsStats, AfterEvent
<1> DEFINE one == [old EXCEPT !.successful = Plus(@, 1)]
           two == [one EXCEPT !.examined = Plus(@, event.examined)]
           three == [two EXCEPT !.returned = Plus(@, event.returned)]
<1>1. add_success(old, event) = add_access(three, event)
  BY DEF add_success
<1>2. one = [successful |-> Plus(old.successful, 1), failed |-> old.failed,
             collection_scans |-> old.collection_scans, index_scans |-> old.index_scans,
             examined |-> old.examined, returned |-> old.returned]
  OBVIOUS
<1> HIDE DEF one
<1>3. two = [successful |-> Plus(old.successful, 1), failed |-> old.failed,
             collection_scans |-> old.collection_scans, index_scans |-> old.index_scans,
             examined |-> Plus(old.examined, event.examined), returned |-> old.returned]
  BY <1>2
<1> HIDE DEF two
<1>4. three = [successful |-> Plus(old.successful, 1), failed |-> old.failed,
               collection_scans |-> old.collection_scans, index_scans |-> old.index_scans,
               examined |-> Plus(old.examined, event.examined),
               returned |-> Plus(old.returned, event.returned)]
  BY <1>3
<1> HIDE DEF three
<1>5. CASE ~event.succeeded
  BY <1>5
<1>6. CASE event.succeeded /\ event.access[1] = "Command"
  BY <1>1, <1>4, <1>6 DEF add_access
<1>7. CASE event.succeeded /\ event.access[1] = "CollectionScan"
  BY <1>1, <1>4, <1>7 DEF add_access
<1>8. CASE event.succeeded /\ event.access[1] = "IndexScan"
  BY <1>1, <1>4, <1>8 DEF add_access
<1> QED
  BY <1>5, <1>6, <1>7, <1>8

\* What an event adds to the statistics of a candidate.
LEMMA EventAddsToCandidate ==
    ASSUME NEW event, NEW old, IsCandidateStats(old), event.succeeded \in BOOLEAN,
           event.access[1] \in {"Command", "CollectionScan", "IndexScan"}
    PROVE  CandidateAfterEvent(old, event)
             = IF event.succeeded THEN add_candidate_success(old, event)
               ELSE [old EXCEPT !.failed = Plus(@, 1)]
<1> USE DEF IsCandidateStats, CandidateAfterEvent
<1> DEFINE one == [old EXCEPT !.successful = Plus(@, 1)]
           scan == [one EXCEPT !.collection_scans = Plus(@, 1)]
           scanned == [scan EXCEPT !.collection_scan_examined = Plus(@, event.examined)]
           find == [one EXCEPT !.index_scans = Plus(@, 1)]
           found == [find EXCEPT !.index_scan_examined = Plus(@, event.examined)]
<1>1. CASE ~event.succeeded
  BY <1>1
<1>2. CASE event.succeeded /\ event.access[1] = "Command"
  BY <1>2 DEF add_candidate_success, add_access
<1>3. one = [successful |-> Plus(old.successful, 1), failed |-> old.failed,
             collection_scans |-> old.collection_scans, index_scans |-> old.index_scans,
             collection_scan_examined |-> old.collection_scan_examined,
             collection_scan_returned |-> old.collection_scan_returned,
             index_scan_examined |-> old.index_scan_examined,
             index_scan_returned |-> old.index_scan_returned]
  OBVIOUS
<1>4. CASE event.succeeded /\ event.access[1] = "CollectionScan"
  <2>1. add_candidate_success(old, event)
          = [scanned EXCEPT !.collection_scan_returned = Plus(@, event.returned)]
    BY <1>4 DEF add_candidate_success, add_access
  <2> HIDE DEF one
  <2>2. scan = [successful |-> Plus(old.successful, 1), failed |-> old.failed,
                collection_scans |-> Plus(old.collection_scans, 1),
                index_scans |-> old.index_scans,
                collection_scan_examined |-> old.collection_scan_examined,
                collection_scan_returned |-> old.collection_scan_returned,
                index_scan_examined |-> old.index_scan_examined,
                index_scan_returned |-> old.index_scan_returned]
    BY <1>3
  <2> HIDE DEF scan
  <2>3. scanned = [successful |-> Plus(old.successful, 1), failed |-> old.failed,
                   collection_scans |-> Plus(old.collection_scans, 1),
                   index_scans |-> old.index_scans,
                   collection_scan_examined |->
                       Plus(old.collection_scan_examined, event.examined),
                   collection_scan_returned |-> old.collection_scan_returned,
                   index_scan_examined |-> old.index_scan_examined,
                   index_scan_returned |-> old.index_scan_returned]
    BY <2>2
  <2> HIDE DEF scanned
  <2> QED
    BY <1>4, <2>1, <2>3
<1>5. CASE event.succeeded /\ event.access[1] = "IndexScan"
  <2>1. add_candidate_success(old, event)
          = [found EXCEPT !.index_scan_returned = Plus(@, event.returned)]
    BY <1>5 DEF add_candidate_success, add_access
  <2> HIDE DEF one
  <2>2. find = [successful |-> Plus(old.successful, 1), failed |-> old.failed,
                collection_scans |-> old.collection_scans,
                index_scans |-> Plus(old.index_scans, 1),
                collection_scan_examined |-> old.collection_scan_examined,
                collection_scan_returned |-> old.collection_scan_returned,
                index_scan_examined |-> old.index_scan_examined,
                index_scan_returned |-> old.index_scan_returned]
    BY <1>3
  <2> HIDE DEF find
  <2>3. found = [successful |-> Plus(old.successful, 1), failed |-> old.failed,
                 collection_scans |-> old.collection_scans,
                 index_scans |-> Plus(old.index_scans, 1),
                 collection_scan_examined |-> old.collection_scan_examined,
                 collection_scan_returned |-> old.collection_scan_returned,
                 index_scan_examined |-> Plus(old.index_scan_examined, event.examined),
                 index_scan_returned |-> old.index_scan_returned]
    BY <2>2
  <2> HIDE DEF found
  <2> QED
    BY <1>5, <2>1, <2>3
<1> QED
  BY <1>1, <1>2, <1>4, <1>5

\* Counting one event more keeps statistics true.
LEMMA OneMoreCounted ==
    ASSUME NEW none \in {NoStats, NoCandidateStats}, NEW observed, IsWorkload(observed),
           NEW k \in DOMAIN observed, NEW S \in SUBSET (1 .. k - 1)
    PROVE  LET stats == TrueStats(none, observed, S)
               event == observed[k]
           IN  TrueStats(none, observed, S \cup {k})
                 = IF event.succeeded THEN Succeeded(none, stats, event)
                   ELSE [stats EXCEPT !.failed = Plus(@, 1)]
<1> DEFINE event == observed[k]
           more == S \cup {k}
           G == Good(observed)
           E == Examined(observed)
           R == Returned(observed)
<1>1. IsEvent(event) /\ k \in 1 .. Len(observed) /\ k \in Nat
  BY DEF IsWorkload
<1>2. IsFiniteSet(S) /\ k \notin S
  <2>1. IsFiniteSet(1 .. k - 1)
    BY <1>1, FS_Interval
  <2>2. S \subseteq 1 .. k - 1 /\ k \notin 1 .. k - 1
    BY <1>1
  <2>3. k \notin S
    BY <2>2
  <2> QED
    BY <2>1, <2>2, <2>3, FS_Subset
<1>3. /\ E \in Seq(Nat) /\ R \in Seq(Nat) /\ k \in DOMAIN E /\ k \in DOMAIN R
      /\ E[k] = event.examined /\ R[k] = event.returned
  BY AmountsOfEvents
<1>4. /\ k \in G <=> event.succeeded
      /\ k \in Scans(observed) <=> event.access[1] = "CollectionScan"
      /\ k \in Lookups(observed) <=> event.access[1] = "IndexScan"
  BY DEF Good, Scans, Lookups
<1> HIDE DEF event, E, R, G, more
<1> DEFINE Goods == G \cap Scans(observed)
           Finds == G \cap Lookups(observed)
<1>5. \A X : /\ (more \cap G) \cap X = more \cap (G \cap X)
             /\ (S \cap G) \cap X = S \cap (G \cap X)
  OBVIOUS
<1>6. /\ StatsOf(observed, S) =
           [successful |-> Number(S \cap G), failed |-> Number(S \ G),
            collection_scans |-> Number(S \cap Goods), index_scans |-> Number(S \cap Finds),
            examined |-> Saturated(S \cap G, E), returned |-> Saturated(S \cap G, R)]
      /\ StatsOf(observed, more) =
           [successful |-> Number(more \cap G), failed |-> Number(more \ G),
            collection_scans |-> Number(more \cap Goods), index_scans |-> Number(more \cap Finds),
            examined |-> Saturated(more \cap G, E), returned |-> Saturated(more \cap G, R)]
  BY <1>5, Zenon DEF StatsOf, G, E, R
<1>7. /\ CandidateStatsOf(observed, S) =
           [successful |-> Number(S \cap G), failed |-> Number(S \ G),
            collection_scans |-> Number(S \cap Goods), index_scans |-> Number(S \cap Finds),
            collection_scan_examined |-> Saturated(S \cap Goods, E),
            collection_scan_returned |-> Saturated(S \cap Goods, R),
            index_scan_examined |-> Saturated(S \cap Finds, E),
            index_scan_returned |-> Saturated(S \cap Finds, R)]
      /\ CandidateStatsOf(observed, more) =
           [successful |-> Number(more \cap G), failed |-> Number(more \ G),
            collection_scans |-> Number(more \cap Goods), index_scans |-> Number(more \cap Finds),
            collection_scan_examined |-> Saturated(more \cap Goods, E),
            collection_scan_returned |-> Saturated(more \cap Goods, R),
            index_scan_examined |-> Saturated(more \cap Finds, E),
            index_scan_returned |-> Saturated(more \cap Finds, R)]
  BY <1>5, Zenon DEF CandidateStatsOf, G, E, R
<1>8. /\ k \in Goods <=> event.succeeded /\ event.access[1] = "CollectionScan"
      /\ k \in Finds <=> event.succeeded /\ event.access[1] = "IndexScan"
  BY <1>4
<1> HIDE DEF Goods, Finds
<1>9. ASSUME NEW X
      PROVE  /\ Number(more \cap X) = IF k \in X THEN Plus(Number(S \cap X), 1)
                                      ELSE Number(S \cap X)
             /\ Number(more \ X) = IF k \in X THEN Number(S \ X) ELSE Plus(Number(S \ X), 1)
             /\ Saturated(more \cap X, E) = IF k \in X
                                            THEN Plus(Saturated(S \cap X, E), event.examined)
                                            ELSE Saturated(S \cap X, E)
             /\ Saturated(more \cap X, R) = IF k \in X
                                            THEN Plus(Saturated(S \cap X, R), event.returned)
                                            ELSE Saturated(S \cap X, R)
  <2>1. Number(more \cap X) = IF k \in X THEN Plus(Number(S \cap X), 1) ELSE Number(S \cap X)
    BY <1>2, OneMorePosition DEF more
  <2>2. Number(more \ X) = IF k \in X THEN Number(S \ X) ELSE Plus(Number(S \ X), 1)
    BY <1>2, OneMoreBeside DEF more
  <2>3. \A amounts \in Seq(Nat) : k \in DOMAIN amounts =>
           Saturated(more \cap X, amounts)
             = IF k \in X THEN Plus(Saturated(S \cap X, amounts), amounts[k])
               ELSE Saturated(S \cap X, amounts)
    <3> SUFFICES ASSUME NEW amounts \in Seq(Nat), k \in DOMAIN amounts
                 PROVE  Saturated((S \cup {k}) \cap X, amounts)
                          = IF k \in X THEN Plus(Saturated(S \cap X, amounts), amounts[k])
                            ELSE Saturated(S \cap X, amounts)
      BY DEF more
    <3>1. k \notin S
      BY <1>2
    <3>2. CASE k \in X
      <4>1. (S \cup {k}) \cap X = (S \cap X) \cup {k} /\ k \notin S \cap X
        BY <3>1, <3>2
      <4>2. Saturated((S \cap X) \cup {k}, amounts)
              = Plus(Saturated(S \cap X, amounts), amounts[k])
        <5> DEFINE some == S \cap X
        <5>1. k \in DOMAIN amounts /\ k \notin some
          BY <4>1
        <5> HIDE DEF some
        <5>2. Saturated(some \cup {k}, amounts) = Plus(Saturated(some, amounts), amounts[k])
          BY <5>1, SaturatedSums
        <5> QED
          BY <5>2 DEF some
      <4> QED
        BY <3>2, <4>1, <4>2, Zenon
    <3>3. CASE k \notin X
      <4>1. (S \cup {k}) \cap X = S \cap X
        BY <3>3
      <4> QED
        BY <3>3, <4>1, Zenon
    <3> QED
      BY <3>2, <3>3
  <2> QED
    BY <1>3, <2>1, <2>2, <2>3
<1>10. event.succeeded \in BOOLEAN
       /\ event.access[1] \in {"Command", "CollectionScan", "IndexScan"}
  BY <1>1 DEF IsEvent
<1>11. StatsOf(observed, more) = IF event.succeeded
         THEN add_success(StatsOf(observed, S), event)
         ELSE [StatsOf(observed, S) EXCEPT !.failed = Plus(@, 1)]
  <2> DEFINE old == StatsOf(observed, S)
             new == StatsOf(observed, more)
  <2>1. /\ IsStats(old)
        /\ old.successful = Number(S \cap G) /\ old.failed = Number(S \ G)
        /\ old.collection_scans = Number(S \cap Goods)
        /\ old.index_scans = Number(S \cap Finds)
        /\ old.examined = Saturated(S \cap G, E) /\ old.returned = Saturated(S \cap G, R)
    BY <1>6 DEF IsStats
  <2>2. new = [successful |-> Number(more \cap G), failed |-> Number(more \ G),
               collection_scans |-> Number(more \cap Goods),
               index_scans |-> Number(more \cap Finds),
               examined |-> Saturated(more \cap G, E), returned |-> Saturated(more \cap G, R)]
    BY <1>6
  <2> HIDE DEF old, new
  <2>3. /\ Number(more \cap G) = IF event.succeeded THEN Plus(old.successful, 1)
                                 ELSE old.successful
        /\ Number(more \ G) = IF event.succeeded THEN old.failed ELSE Plus(old.failed, 1)
        /\ Saturated(more \cap G, E) = IF event.succeeded
                                       THEN Plus(old.examined, event.examined)
                                       ELSE old.examined
        /\ Saturated(more \cap G, R) = IF event.succeeded
                                       THEN Plus(old.returned, event.returned)
                                       ELSE old.returned
    BY <1>4, <1>9, <2>1
  <2>4. /\ Number(more \cap Goods) = IF event.succeeded /\ event.access[1] = "CollectionScan"
                                     THEN Plus(old.collection_scans, 1)
                                     ELSE old.collection_scans
        /\ Number(more \cap Finds) = IF event.succeeded /\ event.access[1] = "IndexScan"
                                     THEN Plus(old.index_scans, 1) ELSE old.index_scans
    BY <1>8, <1>9, <2>1
  <2>6. new = AfterEvent(old, event)
    BY <2>2, <2>3, <2>4, Zenon DEF AfterEvent
  <2> QED
    BY <1>10, <2>1, <2>6, EventAdds DEF old, new
<1>12. CandidateStatsOf(observed, more) = IF event.succeeded
         THEN add_candidate_success(CandidateStatsOf(observed, S), event)
         ELSE [CandidateStatsOf(observed, S) EXCEPT !.failed = Plus(@, 1)]
  <2> DEFINE old == CandidateStatsOf(observed, S)
             new == CandidateStatsOf(observed, more)
  <2>1. /\ IsCandidateStats(old)
        /\ old.successful = Number(S \cap G) /\ old.failed = Number(S \ G)
        /\ old.collection_scans = Number(S \cap Goods)
        /\ old.index_scans = Number(S \cap Finds)
        /\ old.collection_scan_examined = Saturated(S \cap Goods, E)
        /\ old.collection_scan_returned = Saturated(S \cap Goods, R)
        /\ old.index_scan_examined = Saturated(S \cap Finds, E)
        /\ old.index_scan_returned = Saturated(S \cap Finds, R)
    BY <1>7 DEF IsCandidateStats
  <2>2. new = [successful |-> Number(more \cap G), failed |-> Number(more \ G),
               collection_scans |-> Number(more \cap Goods),
               index_scans |-> Number(more \cap Finds),
               collection_scan_examined |-> Saturated(more \cap Goods, E),
               collection_scan_returned |-> Saturated(more \cap Goods, R),
               index_scan_examined |-> Saturated(more \cap Finds, E),
               index_scan_returned |-> Saturated(more \cap Finds, R)]
    BY <1>7
  <2> HIDE DEF old, new
  <2>3. /\ Number(more \cap G) = IF event.succeeded THEN Plus(old.successful, 1)
                                 ELSE old.successful
        /\ Number(more \ G) = IF event.succeeded THEN old.failed ELSE Plus(old.failed, 1)
    BY <1>4, <1>9, <2>1
  <2>4. /\ Number(more \cap Goods) = IF event.succeeded /\ event.access[1] = "CollectionScan"
                                     THEN Plus(old.collection_scans, 1)
                                     ELSE old.collection_scans
        /\ Saturated(more \cap Goods, E) =
             IF event.succeeded /\ event.access[1] = "CollectionScan"
             THEN Plus(old.collection_scan_examined, event.examined)
             ELSE old.collection_scan_examined
        /\ Saturated(more \cap Goods, R) =
             IF event.succeeded /\ event.access[1] = "CollectionScan"
             THEN Plus(old.collection_scan_returned, event.returned)
             ELSE old.collection_scan_returned
    BY <1>8, <1>9, <2>1
  <2>5. /\ Number(more \cap Finds) = IF event.succeeded /\ event.access[1] = "IndexScan"
                                     THEN Plus(old.index_scans, 1) ELSE old.index_scans
        /\ Saturated(more \cap Finds, E) =
             IF event.succeeded /\ event.access[1] = "IndexScan"
             THEN Plus(old.index_scan_examined, event.examined)
             ELSE old.index_scan_examined
        /\ Saturated(more \cap Finds, R) =
             IF event.succeeded /\ event.access[1] = "IndexScan"
             THEN Plus(old.index_scan_returned, event.returned)
             ELSE old.index_scan_returned
    BY <1>8, <1>9, <2>1
  <2>6. new = CandidateAfterEvent(old, event)
    BY <2>2, <2>3, <2>4, <2>5, Zenon DEF CandidateAfterEvent
  <2> QED
    BY <1>10, <2>1, <2>6, EventAddsToCandidate DEF old, new
<1> QED
  BY <1>11, <1>12, KindsDiffer DEF TrueStats, Succeeded, more, event

\* The first n events that are counted under a key.
CountedUnder(keys, n, key) == {i \in 1 .. n : key \in keys[i]}

\* The tables after each event, of which the last is that of a report.
BuiltUp(none, observed, keys, tables) ==
    /\ tables[0] = <<>>
    /\ \A n \in 1 .. Len(observed) :
         tables[n] = Counted(tables[n - 1], keys[n], none, observed[n])

\* A table built event by event has the keys of the events, and the true
\* statistics under each.
LEMMA TablesCount ==
    ASSUME NEW none \in {NoStats, NoCandidateStats}, NEW observed, IsWorkload(observed),
           NEW keys, NEW tables, BuiltUp(none, observed, keys, tables)
    PROVE  \A n \in 0 .. Len(observed) :
               /\ DOMAIN tables[n] = UNION {keys[i] : i \in 1 .. n}
               /\ \A key \in DOMAIN tables[n] :
                     tables[n][key] = TrueStats(none, observed, CountedUnder(keys, n, key))
<1> DEFINE L == Len(observed)
           Kept(n) == /\ DOMAIN tables[n] = UNION {keys[i] : i \in 1 .. n}
                      /\ \A key \in DOMAIN tables[n] :
                           tables[n][key]
                             = TrueStats(none, observed, CountedUnder(keys, n, key))
           T == {n \in 0 .. L : Kept(n)}
<1>1. L \in Nat /\ DOMAIN observed = 1 .. L /\ \A i \in 1 .. L : IsEvent(observed[i])
  BY DEF IsWorkload
<1>2. /\ tables[0] = <<>>
      /\ \A n \in 1 .. L : tables[n] = Counted(tables[n - 1], keys[n], none, observed[n])
  BY DEF BuiltUp
<1> HIDE DEF L
<1>3. 0 \in T
  <2>1. DOMAIN tables[0] = {} /\ UNION {keys[i] : i \in 1 .. 0} = {}
    BY <1>2
  <2> QED
    BY <1>1, <2>1
<1>4. ASSUME NEW k \in 1 .. L, k - 1 \in T
      PROVE  k \in T
  <2> DEFINE before == tables[k - 1]
             event == observed[k]
             now == keys[k]
  <2>1. /\ DOMAIN before = UNION {keys[i] : i \in 1 .. k - 1}
        /\ \A key \in DOMAIN before :
             before[key] = TrueStats(none, observed, CountedUnder(keys, k - 1, key))
    BY <1>4
  <2>2. tables[k] = Counted(before, now, none, event)
    BY <1>2
  <2>3. 1 .. k = (1 .. k - 1) \cup {k} /\ k \in 0 .. L /\ k \in DOMAIN observed
    BY <1>1
  <2>4. DOMAIN tables[k] = DOMAIN before \cup now
    BY <2>2 DEF Counted
  <2>5. DOMAIN tables[k] = UNION {keys[i] : i \in 1 .. k}
    BY <2>1, <2>3, <2>4
  <2>6. ASSUME NEW key \in DOMAIN tables[k]
        PROVE  tables[k][key] = TrueStats(none, observed, CountedUnder(keys, k, key))
    <3> DEFINE S == CountedUnder(keys, k - 1, key)
               old == Entry(before, none, key)
    <3>1. old = TrueStats(none, observed, S)
      <4>1. CASE key \in DOMAIN before
        BY <2>1, <4>1 DEF Entry
      <4>2. CASE key \notin DOMAIN before
        <5>1. S = {}
          BY <2>1, <4>2 DEF CountedUnder
        <5> QED
          BY <4>2, <5>1, NothingCounted DEF Entry
      <4> QED
        BY <4>1, <4>2
    <3>2. tables[k][key] = CASE key \notin now -> old
                             [] key \in now /\ event.succeeded -> Succeeded(none, old, event)
                             [] OTHER -> [old EXCEPT !.failed = Plus(@, 1)]
      BY <2>2, <2>4 DEF Counted
    <3>3. S \in SUBSET (1 .. k - 1)
      BY DEF CountedUnder
    <3>4. CountedUnder(keys, k, key) = IF key \in now THEN S \cup {k} ELSE S
      BY <2>3 DEF CountedUnder
    <3>5. event.succeeded \in BOOLEAN
      BY <1>1 DEF IsEvent
    <3> HIDE DEF S, old, event, now
    <3>6. CASE key \notin now
      BY <3>1, <3>2, <3>4, <3>6
    <3>7. CASE key \in now
      <4>1. TrueStats(none, observed, S \cup {k})
              = IF event.succeeded THEN Succeeded(none, old, event)
                ELSE [old EXCEPT !.failed = Plus(@, 1)]
        BY <2>3, <3>1, <3>3, OneMoreCounted DEF event
      <4>2. CASE event.succeeded
        BY <3>2, <3>4, <3>7, <4>1, <4>2
      <4>3. CASE ~event.succeeded
        BY <3>2, <3>4, <3>7, <4>1, <4>3
      <4> QED
        BY <3>5, <4>2, <4>3
    <3> QED
      BY <3>6, <3>7
  <2> QED
    BY <2>3, <2>5, <2>6
<1> HIDE DEF T
<1>5. \A n \in 0 .. L : n \in T
  BY <1>1, <1>3, <1>4, LevelByLevel
<1> QED
  BY <1>5 DEF T, L

\* A collection and a path are a key of an event exactly if the event is on the
\* collection and has the path.
LEMMA KeysOfEvents ==
    ASSUME NEW event, IsEvent(event), NEW paths
    PROVE  /\ \A key \in Range(event.collection) \X paths :
                 event.collection = <<key[1]>> /\ key[2] \in paths
           /\ \A key : /\ key = <<key[1], key[2]>>
                       /\ event.collection = <<key[1]>> /\ key[2] \in paths
                       => key \in Range(event.collection) \X paths
<1>1. CASE event.collection = <<>>
  <2>1. Range(event.collection) = {}
    BY <1>1 DEF Range
  <2>2. \A c : event.collection # <<c>>
    BY <1>1
  <2> QED
    BY <2>1, <2>2
<1>2. ASSUME NEW c, event.collection = <<c>>
      PROVE  /\ \A key \in Range(event.collection) \X paths :
                 event.collection = <<key[1]>> /\ key[2] \in paths
             /\ \A key : /\ key = <<key[1], key[2]>>
                         /\ event.collection = <<key[1]>> /\ key[2] \in paths
                         => key \in Range(event.collection) \X paths
  <2>1. Range(event.collection) = {c}
    BY <1>2 DEF Range
  <2>2. \A d : event.collection = <<d>> <=> d = c
    BY <1>2
  <2> QED
    BY <2>1, <2>2
<1> QED
  BY <1>1, <1>2 DEF IsEvent

\* The report after an event, counter by counter and table by table.
LEMMA FieldsOfReport ==
    ASSUME NEW report, NEW event
    PROVE  LET next == AnalyzeEvent(report, event) IN
           /\ next.total = Plus(report.total, 1)
           /\ next.successful = Plus(report.successful, One(event.succeeded))
           /\ next.failed = Plus(report.failed, One(~event.succeeded))
           /\ next.command_executions
                = Plus(report.command_executions, One(event.access[1] = "Command"))
           /\ next.collection_scans
                = Plus(report.collection_scans, One(event.access[1] = "CollectionScan"))
           /\ next.index_scans = Plus(report.index_scans, One(event.access[1] = "IndexScan"))
           /\ next.examined = Plus(report.examined, IF event.succeeded THEN event.examined ELSE 0)
           /\ next.returned = Plus(report.returned, IF event.succeeded THEN event.returned ELSE 0)
           /\ next.fingerprints
                = Counted(report.fingerprints, FingerprintKeys(event), NoStats, event)
           /\ next.predicate_paths
                = Counted(report.predicate_paths, PredicateKeys(event), NoStats, event)
           /\ next.index_candidates
                = Counted(report.index_candidates, CandidateKeys(event), NoCandidateStats, event)
BY DEF AnalyzeEvent

\* The counters of a report.
LEMMA CountersAreTrue ==
    ASSUME NEW observed, IsWorkload(observed)
    PROVE  LET report == analyze_workload(observed) IN
           /\ report.total = Number(DOMAIN observed)
           /\ report.successful = Number(Good(observed))
           /\ report.failed = Number(DOMAIN observed \ Good(observed))
           /\ report.command_executions = Number(Commands(observed))
           /\ report.collection_scans = Number(Scans(observed))
           /\ report.index_scans = Number(Lookups(observed))
           /\ report.examined = Saturated(Good(observed), Examined(observed))
           /\ report.returned = Saturated(Good(observed), Returned(observed))
<1> DEFINE L == Len(observed)
           G == Good(observed)
           B == DOMAIN observed \ Good(observed)
           D == DOMAIN observed
           C == Commands(observed)
           S == Scans(observed)
           X == Lookups(observed)
           E == Examined(observed)
           R == Returned(observed)
<1>1. L \in Nat /\ DOMAIN observed = 1 .. L /\ \A i \in 1 .. L : IsEvent(observed[i])
  BY DEF IsWorkload
<1>2. /\ E \in Seq(Nat) /\ R \in Seq(Nat) /\ DOMAIN E = 1 .. L /\ DOMAIN R = 1 .. L
      /\ \A i \in 1 .. L : E[i] = observed[i].examined /\ R[i] = observed[i].returned
  BY <1>1, AmountsOfEvents
<1>3. /\ \A i \in 1 .. L : /\ i \in G <=> observed[i].succeeded
                           /\ i \in B <=> ~observed[i].succeeded
                           /\ i \in D
                           /\ i \in C <=> observed[i].access[1] = "Command"
                           /\ i \in S <=> observed[i].access[1] = "CollectionScan"
                           /\ i \in X <=> observed[i].access[1] = "IndexScan"
      /\ G \cap (1 .. L) = G /\ B \cap (1 .. L) = B /\ D \cap (1 .. L) = D
      /\ C \cap (1 .. L) = C /\ S \cap (1 .. L) = S /\ X \cap (1 .. L) = X
  BY <1>1 DEF Good, Commands, Scans, Lookups
<1>4. PICK f : /\ f[0] = NoReport /\ analyze_workload(observed) = f[L]
               /\ \A n \in 1 .. L : f[n] = AnalyzeEvent(f[n - 1], observed[n])
  BY <1>1, ReportRecursion
<1> HIDE DEF L, G, B, D, C, S, X, E, R
<1> DEFINE Tallies(n) == /\ f[n].successful = Number(G \cap (1 .. n))
                         /\ f[n].failed = Number(B \cap (1 .. n))
                         /\ f[n].examined = Saturated(G \cap (1 .. n), E)
                         /\ f[n].returned = Saturated(G \cap (1 .. n), R)
           Kinds(n) == /\ f[n].total = Number(D \cap (1 .. n))
                       /\ f[n].command_executions = Number(C \cap (1 .. n))
                       /\ f[n].collection_scans = Number(S \cap (1 .. n))
                       /\ f[n].index_scans = Number(X \cap (1 .. n))
           T == {n \in 0 .. L : Tallies(n) /\ Kinds(n)}
<1>5. 0 \in T
  <2>1. /\ f[0].successful = 0 /\ f[0].failed = 0 /\ f[0].examined = 0 /\ f[0].returned = 0
        /\ f[0].total = 0 /\ f[0].command_executions = 0 /\ f[0].collection_scans = 0
        /\ f[0].index_scans = 0
    BY <1>4 DEF NoReport
  <2>2. /\ Number(G \cap (1 .. 0)) = 0 /\ Number(B \cap (1 .. 0)) = 0
        /\ Number(D \cap (1 .. 0)) = 0 /\ Number(C \cap (1 .. 0)) = 0
        /\ Number(S \cap (1 .. 0)) = 0 /\ Number(X \cap (1 .. 0)) = 0
        /\ Saturated(G \cap (1 .. 0), E) = 0 /\ Saturated(G \cap (1 .. 0), R) = 0
    <3>1. \A Y : Y \cap (1 .. 0) = {}
      OBVIOUS
    <3>2. Number({}) = 0
      BY FS_EmptySet, Numbers
    <3>3. Saturated({}, E) = 0 /\ Saturated({}, R) = 0
      BY <1>2, SaturatedSums
    <3> QED
      BY <3>1, <3>2, <3>3
  <2>3. Tallies(0)
    BY <2>1, <2>2
  <2>4. Kinds(0)
    BY <2>1, <2>2
  <2> QED
    BY <1>1, <2>3, <2>4
<1>6. ASSUME NEW k \in 1 .. L, k - 1 \in T
      PROVE  k \in T
  <2> DEFINE event == observed[k]
             old == f[k - 1]
             new == f[k]
  <2>1. new = AnalyzeEvent(old, event)
    BY <1>4
  <2>2. Tallies(k - 1) /\ Kinds(k - 1)
    BY <1>6
  <2>3. k \in Nat /\ k # 0 /\ k \in 0 .. L
    BY <1>1
  <2>5. /\ k \in G <=> event.succeeded
        /\ k \in B <=> ~event.succeeded
        /\ k \in D
        /\ k \in C <=> event.access[1] = "Command"
        /\ k \in S <=> event.access[1] = "CollectionScan"
        /\ k \in X <=> event.access[1] = "IndexScan"
        /\ E[k] = event.examined /\ R[k] = event.returned
    BY <1>2, <1>3
  <2> HIDE DEF Tallies, Kinds, event
  <2>6. Tallies(k)
    <3>1. /\ new.successful = Plus(old.successful, One(event.succeeded))
          /\ new.failed = Plus(old.failed, One(~event.succeeded))
          /\ new.examined = Plus(old.examined, IF event.succeeded THEN event.examined ELSE 0)
          /\ new.returned = Plus(old.returned, IF event.succeeded THEN event.returned ELSE 0)
      BY <2>1, FieldsOfReport
    <3>2. /\ Number(G \cap (1 .. k)) = Plus(Number(G \cap (1 .. k - 1)), One(k \in G))
          /\ Number(B \cap (1 .. k)) = Plus(Number(B \cap (1 .. k - 1)), One(k \in B))
      BY <2>3, NumberStep
    <3>3. ASSUME NEW amounts \in Seq(Nat), k \in DOMAIN amounts
          PROVE  /\ k \in G => Saturated(G \cap (1 .. k), amounts)
                                  = Plus(Saturated(G \cap (1 .. k - 1), amounts), amounts[k])
                 /\ k \notin G => Saturated(G \cap (1 .. k), amounts)
                                     = Plus(Saturated(G \cap (1 .. k - 1), amounts), 0)
      BY <3>3, SaturatedStep, Zenon
    <3>4. /\ k \in G => /\ Saturated(G \cap (1 .. k), E)
                             = Plus(Saturated(G \cap (1 .. k - 1), E), E[k])
                        /\ Saturated(G \cap (1 .. k), R)
                             = Plus(Saturated(G \cap (1 .. k - 1), R), R[k])
          /\ k \notin G => /\ Saturated(G \cap (1 .. k), E)
                                = Plus(Saturated(G \cap (1 .. k - 1), E), 0)
                           /\ Saturated(G \cap (1 .. k), R)
                                = Plus(Saturated(G \cap (1 .. k - 1), R), 0)
      BY <1>2, <3>3, Zenon
    <3> QED
      BY <2>2, <2>5, <3>1, <3>2, <3>4 DEF Tallies, One
  <2>7. Kinds(k)
    <3>1. /\ new.total = Plus(old.total, 1)
          /\ new.command_executions
               = Plus(old.command_executions, One(event.access[1] = "Command"))
          /\ new.collection_scans
               = Plus(old.collection_scans, One(event.access[1] = "CollectionScan"))
          /\ new.index_scans = Plus(old.index_scans, One(event.access[1] = "IndexScan"))
      BY <2>1, FieldsOfReport
    <3>2. /\ Number(D \cap (1 .. k)) = Plus(Number(D \cap (1 .. k - 1)), One(k \in D))
          /\ Number(C \cap (1 .. k)) = Plus(Number(C \cap (1 .. k - 1)), One(k \in C))
          /\ Number(S \cap (1 .. k)) = Plus(Number(S \cap (1 .. k - 1)), One(k \in S))
          /\ Number(X \cap (1 .. k)) = Plus(Number(X \cap (1 .. k - 1)), One(k \in X))
      BY <2>3, NumberStep
    <3> QED
      BY <2>2, <2>5, <3>1, <3>2 DEF Kinds, One
  <2> QED
    BY <2>3, <2>6, <2>7
<1> HIDE DEF T
<1>7. L \in T
  <2>1. L \in 0 .. L
    BY <1>1
  <2> QED
    BY <1>1, <1>5, <1>6, <2>1, LevelByLevel
<1> QED
  BY <1>3, <1>4, <1>7 DEF T, G, B, D, C, S, X, E, R

\* The tables of a report.
LEMMA TablesAreTrue ==
    ASSUME NEW observed, IsWorkload(observed)
    PROVE  LET report == analyze_workload(observed)
               All(keys) == UNION {keys[i] : i \in DOMAIN observed}
               Under(keys, key) == {i \in DOMAIN observed : key \in keys[i]}
               fingerprints == [i \in DOMAIN observed |-> FingerprintKeys(observed[i])]
               predicates == [i \in DOMAIN observed |-> PredicateKeys(observed[i])]
               candidates == [i \in DOMAIN observed |-> CandidateKeys(observed[i])]
           IN  /\ DOMAIN report.fingerprints = All(fingerprints)
               /\ \A key \in All(fingerprints) :
                    report.fingerprints[key] = StatsOf(observed, Under(fingerprints, key))
               /\ DOMAIN report.predicate_paths = All(predicates)
               /\ \A key \in All(predicates) :
                    report.predicate_paths[key] = StatsOf(observed, Under(predicates, key))
               /\ DOMAIN report.index_candidates = All(candidates)
               /\ \A key \in All(candidates) :
                    report.index_candidates[key]
                      = CandidateStatsOf(observed, Under(candidates, key))
<1> DEFINE L == Len(observed)
           report == analyze_workload(observed)
           All(keys) == UNION {keys[i] : i \in DOMAIN observed}
           Under(keys, key) == {i \in DOMAIN observed : key \in keys[i]}
           fingerprints == [i \in DOMAIN observed |-> FingerprintKeys(observed[i])]
           predicates == [i \in DOMAIN observed |-> PredicateKeys(observed[i])]
           candidates == [i \in DOMAIN observed |-> CandidateKeys(observed[i])]
<1>1. L \in Nat /\ DOMAIN observed = 1 .. L
  BY DEF IsWorkload
<1>2. PICK f : /\ f[0] = NoReport /\ report = f[L]
               /\ \A n \in 1 .. L : f[n] = AnalyzeEvent(f[n - 1], observed[n])
  BY <1>1, ReportRecursion
<1>3. ASSUME NEW none \in {NoStats, NoCandidateStats}, NEW keys, NEW tables,
             BuiltUp(none, observed, keys, tables)
      PROVE  /\ DOMAIN tables[L] = All(keys)
             /\ \A key \in All(keys) : tables[L][key] = TrueStats(none, observed, Under(keys, key))
  <2>1. \A n \in 0 .. L :
           /\ DOMAIN tables[n] = UNION {keys[i] : i \in 1 .. n}
           /\ \A key \in DOMAIN tables[n] :
                 tables[n][key] = TrueStats(none, observed, CountedUnder(keys, n, key))
    BY <1>3, TablesCount
  <2> HIDE DEF L
  <2>2. L \in 0 .. L
    BY <1>1
  <2>3. DOMAIN tables[L] = All(keys)
    BY <1>1, <2>1, <2>2
  <2>4. \A key : CountedUnder(keys, L, key) = Under(keys, key)
    BY <1>1 DEF CountedUnder
  <2> HIDE DEF Under, All
  <2> QED
    BY <2>1, <2>2, <2>3, <2>4
<1> HIDE DEF L, report
<1>4. \A n \in 1 .. L : n \in 0 .. L /\ n - 1 \in 0 .. L /\ n \in DOMAIN observed
  BY <1>1
<1>5. 0 \in 0 .. L /\ L \in 0 .. L
  BY <1>1
<1>6. /\ DOMAIN report.fingerprints = All(fingerprints)
      /\ \A key \in All(fingerprints) :
           report.fingerprints[key] = TrueStats(NoStats, observed, Under(fingerprints, key))
  <2> DEFINE tables == [n \in 0 .. L |-> f[n].fingerprints]
  <2>1. tables[0] = <<>> /\ tables[L] = report.fingerprints
    BY <1>2, <1>5 DEF NoReport
  <2>2. ASSUME NEW n \in 1 .. L
        PROVE  tables[n] = Counted(tables[n - 1], fingerprints[n], NoStats, observed[n])
    <3>1. f[n].fingerprints = Counted(f[n - 1].fingerprints, FingerprintKeys(observed[n]),
                                      NoStats, observed[n])
      BY <1>2, FieldsOfReport
    <3> QED
      BY <1>4, <3>1
  <2> HIDE DEF tables, fingerprints, All, Under
  <2>3. BuiltUp(NoStats, observed, fingerprints, tables)
    BY <2>1, <2>2 DEF BuiltUp, L
  <2> QED
    BY <1>3, <2>1, <2>3
<1>7. /\ DOMAIN report.predicate_paths = All(predicates)
      /\ \A key \in All(predicates) :
           report.predicate_paths[key] = TrueStats(NoStats, observed, Under(predicates, key))
  <2> DEFINE tables == [n \in 0 .. L |-> f[n].predicate_paths]
  <2>1. tables[0] = <<>> /\ tables[L] = report.predicate_paths
    BY <1>2, <1>5 DEF NoReport
  <2>2. ASSUME NEW n \in 1 .. L
        PROVE  tables[n] = Counted(tables[n - 1], predicates[n], NoStats, observed[n])
    <3>1. f[n].predicate_paths = Counted(f[n - 1].predicate_paths, PredicateKeys(observed[n]),
                                         NoStats, observed[n])
      BY <1>2, FieldsOfReport
    <3> QED
      BY <1>4, <3>1
  <2> HIDE DEF tables, predicates, All, Under
  <2>3. BuiltUp(NoStats, observed, predicates, tables)
    BY <2>1, <2>2 DEF BuiltUp, L
  <2> QED
    BY <1>3, <2>1, <2>3
<1>8. /\ DOMAIN report.index_candidates = All(candidates)
      /\ \A key \in All(candidates) :
           report.index_candidates[key]
             = TrueStats(NoCandidateStats, observed, Under(candidates, key))
  <2> DEFINE tables == [n \in 0 .. L |-> f[n].index_candidates]
  <2>1. tables[0] = <<>> /\ tables[L] = report.index_candidates
    BY <1>2, <1>5 DEF NoReport
  <2>2. ASSUME NEW n \in 1 .. L
        PROVE  tables[n] = Counted(tables[n - 1], candidates[n], NoCandidateStats, observed[n])
    <3>1. f[n].index_candidates = Counted(f[n - 1].index_candidates, CandidateKeys(observed[n]),
                                          NoCandidateStats, observed[n])
      BY <1>2, FieldsOfReport
    <3> QED
      BY <1>4, <3>1
  <2> HIDE DEF tables, candidates, All, Under
  <2>3. BuiltUp(NoCandidateStats, observed, candidates, tables)
    BY <2>1, <2>2 DEF BuiltUp, L
  <2> QED
    BY <1>3, <2>1, <2>3
<1> HIDE DEF fingerprints, predicates, candidates, All, Under
<1>9. \A S : /\ TrueStats(NoStats, observed, S) = StatsOf(observed, S)
             /\ TrueStats(NoCandidateStats, observed, S) = CandidateStatsOf(observed, S)
  BY KindsDiffer DEF TrueStats
<1>10. /\ DOMAIN report.fingerprints = All(fingerprints)
       /\ \A key \in All(fingerprints) :
            report.fingerprints[key] = StatsOf(observed, Under(fingerprints, key))
       /\ DOMAIN report.predicate_paths = All(predicates)
       /\ \A key \in All(predicates) :
            report.predicate_paths[key] = StatsOf(observed, Under(predicates, key))
       /\ DOMAIN report.index_candidates = All(candidates)
       /\ \A key \in All(candidates) :
            report.index_candidates[key] = CandidateStatsOf(observed, Under(candidates, key))
  BY <1>6, <1>7, <1>8, <1>9
<1> QED
  BY <1>10, Zenon DEF fingerprints, predicates, candidates, All, Under, report

\* Reports of the events held count what happened.
LEMMA ReportsAreTrue ==
    ASSUME IsWorkload(events)
    PROVE  ReportsCountWhatHappened
<1> DEFINE report == analyze_workload(events)
           All(keys) == UNION {keys[i] : i \in DOMAIN events}
           Under(keys, key) == {i \in DOMAIN events : key \in keys[i]}
           fingerprints == [i \in DOMAIN events |-> FingerprintKeys(events[i])]
           predicates == [i \in DOMAIN events |-> PredicateKeys(events[i])]
           candidates == [i \in DOMAIN events |-> CandidateKeys(events[i])]
<1>1. /\ DOMAIN report.fingerprints = All(fingerprints)
      /\ \A key \in All(fingerprints) :
           report.fingerprints[key] = StatsOf(events, Under(fingerprints, key))
      /\ DOMAIN report.predicate_paths = All(predicates)
      /\ \A key \in All(predicates) :
           report.predicate_paths[key] = StatsOf(events, Under(predicates, key))
      /\ DOMAIN report.index_candidates = All(candidates)
      /\ \A key \in All(candidates) :
           report.index_candidates[key] = CandidateStatsOf(events, Under(candidates, key))
  BY TablesAreTrue, Zenon
<1>2. /\ report.total = Number(DOMAIN events)
      /\ report.successful = Number(Good(events))
      /\ report.failed = Number(DOMAIN events \ Good(events))
      /\ report.command_executions = Number(Commands(events))
      /\ report.collection_scans = Number(Scans(events))
      /\ report.index_scans = Number(Lookups(events))
      /\ report.examined = Saturated(Good(events), Examined(events))
      /\ report.returned = Saturated(Good(events), Returned(events))
  BY CountersAreTrue
<1> HIDE DEF report
<1>3. /\ \A i \in DOMAIN events : IsEvent(events[i])
      /\ \A i \in DOMAIN events : /\ fingerprints[i] = FingerprintKeys(events[i])
                                  /\ predicates[i] = PredicateKeys(events[i])
                                  /\ candidates[i] = CandidateKeys(events[i])
  BY DEF IsWorkload
<1>4. \A i \in DOMAIN events :
         /\ FingerprintKeys(events[i]) \subseteq DOMAIN report.fingerprints
         /\ PredicateKeys(events[i]) \subseteq DOMAIN report.predicate_paths
         /\ CandidateKeys(events[i]) \subseteq DOMAIN report.index_candidates
  <2> HIDE DEF fingerprints, predicates, candidates
  <2> QED
    BY <1>1, <1>3
<1>5. \A key \in All(fingerprints) : Shaped(events, key) = Under(fingerprints, key)
  BY DEF Shaped, FingerprintKeys
<1>6. ASSUME NEW key \in All(predicates)
      PROVE  Concerning(events, key) = Under(predicates, key)
  <2>1. key = <<key[1], key[2]>>
    BY DEF PredicateKeys
  <2>2. \A i \in DOMAIN events : key \in PredicateKeys(events[i])
            <=> events[i].collection = <<key[1]>> /\ key[2] \in events[i].predicate_paths
    BY <1>3, <2>1, KeysOfEvents DEF PredicateKeys
  <2> HIDE DEF predicates
  <2> QED
    BY <1>3, <2>2 DEF Concerning
<1>7. ASSUME NEW key \in All(candidates)
      PROVE  /\ Serving(events, key) = Under(candidates, key)
             /\ Serving(events, key) \subseteq Concerning(events, key)
             /\ key \in All(predicates)
  <2>1. PICK i \in DOMAIN events : key \in CandidateKeys(events[i])
    OBVIOUS
  <2>2. key = <<key[1], key[2]>>
    BY <2>1 DEF CandidateKeys
  <2>3. \A j \in DOMAIN events : key \in CandidateKeys(events[j])
            <=> events[j].collection = <<key[1]>> /\ key[2] \in events[j].index_candidate_paths
    BY <1>3, <2>2, KeysOfEvents DEF CandidateKeys
  <2>4. \A j \in DOMAIN events :
           events[j].index_candidate_paths \subseteq events[j].predicate_paths
    BY <1>3 DEF IsEvent
  <2>5. key \in PredicateKeys(events[i])
    BY <2>1, <2>4 DEF CandidateKeys, PredicateKeys
  <2> HIDE DEF candidates, predicates
  <2>6. key \in All(predicates)
    BY <1>3, <2>5
  <2> QED
    BY <1>3, <2>3, <2>4, <2>6 DEF Serving, Concerning
<1> HIDE DEF fingerprints, predicates, candidates, All, Under
<1> QED
  BY <1>1, <1>2, <1>4, <1>5, <1>6, <1>7 DEF ReportsCountWhatHappened, report

-----------------------------------------------------------------------------
(* The events held *)

\* What telemetry records of a watched query is an event.
LEMMA RecordedEvents ==
    ASSUME NEW q \in Watched, NEW n \in Counts, NEW m \in Counts, NEW s \in BOOLEAN
    PROVE  IsEvent(EventWith(build_event(q, plan(q, definitions), 0, 0, TRUE), n, m, s))
<1> DEFINE built == build_event(q, plan(q, definitions), 0, 0, TRUE)
           event == EventWith(built, n, m, s)
<1>2. n \in Nat /\ m \in Nat /\ WellFormed(q)
  BY WorkloadAssumption, IntelligenceAssumption
<1>3. /\ built.collection = EventCollection(q.command)
      /\ built.predicate_paths = predicate_paths(q.stages)
      /\ built.index_candidate_paths = index_candidate_paths(q.stages)
      /\ built.access = IF plan(q, definitions)[1] = "IndexScan"
                        THEN <<plan(q, definitions)[1], plan(q, definitions)[2]>>
                        ELSE plan(q, definitions)
  BY DEF build_event
<1>4. \A f \in {"examined", "returned", "succeeded", "collection", "predicate_paths",
                "index_candidate_paths", "access"} : f \in DOMAIN built
  BY DEF build_event
<1> HIDE DEF built
<1>5. /\ event.examined = n /\ event.returned = m /\ event.succeeded = s
      /\ event.collection = built.collection
      /\ event.predicate_paths = built.predicate_paths
      /\ event.index_candidate_paths = built.index_candidate_paths
      /\ event.access = built.access
  BY <1>4 DEF EventWith
<1> HIDE DEF event
<1>6. event.access[1] \in {"Command", "CollectionScan", "IndexScan"}
  <2>1. plan(q, definitions)[1] \in {"Command", "CollectionScan", "IndexScan"}
    BY DEF plan
  <2> QED
    BY <1>3, <1>5, <2>1
<1>7. event.collection = <<>> \/ \E c : event.collection = <<c>>
  BY <1>3, <1>5 DEF EventCollection
<1>8. event.index_candidate_paths \subseteq event.predicate_paths
  <2>1. \A i \in Filters(q.stages) :
           collect_index_candidates(q.stages[i][2]) \subseteq collect_paths(q.stages[i][2])
    BY <1>2, FilterFormed, CandidatesAreNamed
  <2> QED
    BY <1>3, <1>5, <2>1 DEF predicate_paths, index_candidate_paths
<1>9. IsEvent(event)
  BY <1>2, <1>5, <1>6, <1>7, <1>8 DEF IsEvent
<1> QED
  BY <1>9 DEF event, built

\* Telemetry holds a sequence of events.
HoldsEvents == \E T : events \in Seq(T) /\ \A event \in T : IsEvent(event)

\* Which is what reports are made from.
LEMMA HeldEvents ==
    ASSUME HoldsEvents
    PROVE  IsWorkload(events)
<1>1. PICK T : events \in Seq(T) /\ \A event \in T : IsEvent(event)
  BY DEF HoldsEvents
<1> QED
  BY <1>1 DEF IsWorkload

\* An event of a watched query is appended, or all events are dropped.
LEMMA HoldsEventsStep ==
    ASSUME HoldsEvents, [Next]_vars
    PROVE  HoldsEvents'
<1>1. PICK T : events \in Seq(T) /\ \A event \in T : IsEvent(event)
  BY DEF HoldsEvents
<1>2. CASE UNCHANGED events
  BY <1>1, <1>2 DEF HoldsEvents
<1>3. ASSUME NEW event, IsEvent(event), events' = Append(events, event)
      PROVE  HoldsEvents'
  <2>2. events' \in Seq(T \cup {event})
    BY <1>1, <1>3
  <2>3. \A e \in T \cup {event} : IsEvent(e)
    BY <1>1, <1>3
  <2> QED
    BY <2>2, <2>3 DEF HoldsEvents
<1>4. CASE clear
  <2>1. events' \in Seq({})
    BY <1>4 DEF clear
  <2> QED
    BY <2>1 DEF HoldsEvents
<1>5. ASSUME NEW q \in Workload, Execute(q)
      PROVE  HoldsEvents'
  <2>1. CASE q \in Watched
    BY <1>3, <1>5, <2>1, RecordedEvents DEF Execute
  <2>2. CASE q \notin Watched
    BY <1>2, <1>5, <2>2 DEF Execute
  <2> QED
    BY <2>1, <2>2
<1>6. ASSUME NEW config \in Configs, from_recommendations(config)
      PROVE  HoldsEvents'
  BY <1>2, <1>6 DEF from_recommendations
<1>7. ASSUME NEW key \in DOMAIN records,
             \/ accept(key) \/ dismiss(key) \/ mark_applied(key)
             \/ \E threshold \in Thresholds : evaluate_impact(key, threshold)
      PROVE  HoldsEvents'
  BY <1>2, <1>7 DEF accept, dismiss, mark_applied, transition, evaluate_impact
<1> QED
  BY <1>2, <1>4, <1>5, <1>6, <1>7 DEF Next, Use, vars

\* In every state telemetry holds a sequence of events.
LEMMA AlwaysHoldsEvents == Spec => []HoldsEvents
<1>1. Init => HoldsEvents
  <2>1. <<>> \in Seq({})
    OBVIOUS
  <2> QED
    BY <2>1 DEF Init, HoldsEvents
<1> QED
  BY <1>1, HoldsEventsStep, PTL DEF Spec

\* Whatever was executed, however often telemetry was cleared, and wherever the
\* counters saturate: a report counts what happened (analyze_workload).
THEOREM AlwaysReportsCountWhatHappened == Spec => []ReportsCountWhatHappened
<1>1. HoldsEvents => ReportsCountWhatHappened
  BY HeldEvents, ReportsAreTrue
<1> QED
  BY <1>1, AlwaysHoldsEvents, PTL

-----------------------------------------------------------------------------
(* Advice *)

\* What a report says of a candidate.
LEMMA CandidateOfReport ==
    ASSUME IsWorkload(events), NEW key \in DOMAIN analyze_workload(events).index_candidates
    PROVE  /\ key = <<key[1], key[2]>>
           /\ analyze_workload(events).index_candidates[key]
                = CandidateStatsOf(events, Serving(events, key))
           /\ IsFiniteSet(Serving(events, key))
<1> DEFINE candidates == [i \in DOMAIN events |-> CandidateKeys(events[i])]
<1>1. DOMAIN analyze_workload(events).index_candidates
        = UNION {candidates[i] : i \in DOMAIN events}
  BY TablesAreTrue, Zenon
<1>2. PICK i \in DOMAIN events : key \in CandidateKeys(events[i])
  BY <1>1
<1>3. key = <<key[1], key[2]>>
  BY <1>2 DEF CandidateKeys
<1>4. analyze_workload(events).index_candidates[key]
        = CandidateStatsOf(events, Serving(events, key))
  BY ReportsAreTrue DEF ReportsCountWhatHappened
<1>5. IsFiniteSet(Serving(events, key))
  <2>1. IsFiniteSet(1 .. Len(events)) /\ Serving(events, key) \subseteq 1 .. Len(events)
    BY FS_Interval DEF IsWorkload, Serving
  <2> QED
    BY <2>1, FS_Subset
<1> QED
  BY <1>3, <1>4, <1>5

\* The advisor's ratio is within the limit when the part is, of any two sums.
LEMMA RatiosWithinLimit ==
    ASSUME NEW returned \in Nat, NEW examined \in Nat, NEW limit \in Nat, examined > 0,
           ratio_basis_points(returned, examined) <= limit
    PROVE  Selective(returned, examined, limit)
<1> DEFINE part == returned * BASIS_POINTS
           quotient == part \div examined
<1>1. part \in Nat /\ BASIS_POINTS = 10000
  BY DEF BASIS_POINTS
<1> HIDE DEF part
<1>2. /\ quotient \in Nat
      /\ part < (quotient + 1) * examined
  BY <1>1
<1>3. ratio_basis_points(returned, examined) = Min({quotient, BASIS_POINTS})
  BY DEF ratio_basis_points, part
<1> HIDE DEF quotient
<1> SUFFICES ASSUME limit < BASIS_POINTS
             PROVE  part < (limit + 1) * examined
  BY DEF Selective, part
<1>4. Min({quotient, BASIS_POINTS})
        = IF quotient <= BASIS_POINTS THEN quotient ELSE BASIS_POINTS
  BY <1>1, <1>2, MinOfTwo
<1>5. quotient <= limit
  BY <1>1, <1>2, <1>3, <1>4
<1>6. (quotient + 1) * examined <= (limit + 1) * examined
  BY <1>2, <1>5
<1>7. /\ (quotient + 1) * examined \in Nat
      /\ (limit + 1) * examined \in Nat
  BY <1>2
<1> QED
  BY <1>1, <1>2, <1>6, <1>7

\* What the advisor recommends of a report of the events held.
LEMMA RecommendationsHelp ==
    ASSUME IsWorkload(events)
    PROVE  RecommendationsWouldHelp
<1> DEFINE report == analyze_workload(events)
<1> SUFFICES ASSUME NEW config \in Configs, validate_config(config),
                    NEW key \in DOMAIN recommend_indexes(report, definitions, config)
             PROVE  LET scans == FullScans(events, key) IN
                    /\ \A n \in DOMAIN definitions :
                         ~(definitions[n].collection = key[1] /\ definitions[n].field = key[2])
                    /\ Cardinality(Serving(events, key) \cap Good(events))
                         >= config.min_successful
                    /\ Cardinality(scans) >= config.min_scans
                    /\ Total(scans, Examined(events)) >= config.min_examined
                    /\ Selective(Saturated(scans, Returned(events)),
                                 Saturated(scans, Examined(events)), config.max_ratio)
                    /\ \A q \in Workload :
                         /\ EventCollection(q.command) = <<key[1]>>
                         /\ key[2] \in index_candidate_paths(q.stages)
                         => plan(q, WithIndex(definitions, key))[1] = "IndexScan"
  BY DEF RecommendationsWouldHelp
<1> DEFINE good == Serving(events, key) \cap Good(events)
           scans == FullScans(events, key)
           stats == report.index_candidates[key]
<1>1. /\ key \in DOMAIN report.index_candidates /\ key \notin Existing(definitions)
      /\ Enough(stats, config)
  BY DEF recommend_indexes
<1>2. /\ key = <<key[1], key[2]>> /\ stats = CandidateStatsOf(events, Serving(events, key))
      /\ IsFiniteSet(Serving(events, key))
  BY <1>1, CandidateOfReport
<1> HIDE DEF report
<1>3. /\ stats.successful = Number(good)
      /\ stats.collection_scans = Number(scans)
      /\ stats.collection_scan_examined = Saturated(scans, Examined(events))
      /\ stats.collection_scan_returned = Saturated(scans, Returned(events))
  BY <1>2 DEF CandidateStatsOf, FullScans
<1>10. IsFiniteSet(good) /\ IsFiniteSet(scans)
  BY <1>2, FS_Subset DEF FullScans
<1>11. Examined(events) \in Seq(Nat) /\ Returned(events) \in Seq(Nat)
  BY AmountsOfEvents
<1> HIDE DEF stats, good, scans
<1>4. /\ config.min_successful \in Nat /\ config.min_scans \in Nat /\ config.max_ratio \in Nat
      /\ config.min_examined \in Nat /\ config.min_examined > 0
  BY IntelligenceAssumption DEF validate_config
<1>5. /\ stats.successful >= config.min_successful
      /\ stats.collection_scans >= config.min_scans
      /\ stats.collection_scan_examined >= config.min_examined
      /\ ratio_basis_points(stats.collection_scan_returned, stats.collection_scan_examined)
           <= config.max_ratio
  BY <1>1 DEF Enough, Ratio
<1>6. \A n \in DOMAIN definitions :
         ~(definitions[n].collection = key[1] /\ definitions[n].field = key[2])
  BY <1>1, <1>2 DEF Existing
<1>7. /\ Cardinality(good) >= config.min_successful
      /\ Cardinality(scans) >= config.min_scans
  <2>1. \A S : IsFiniteSet(S) => /\ Number(S) \in 0 .. MaxCount
                                 /\ Number(S) <= Cardinality(S) /\ Cardinality(S) \in Nat
    BY Numbers, FS_CardinalityType
  <2> QED
    BY <1>3, <1>10, <1>4, <1>5, <2>1, IntelligenceAssumption
<1>8. /\ Total(scans, Examined(events)) >= config.min_examined
      /\ Selective(Saturated(scans, Returned(events)), Saturated(scans, Examined(events)),
                   config.max_ratio)
  <2> DEFINE a == Saturated(scans, Examined(events))
             b == Total(scans, Examined(events))
             r == Saturated(scans, Returned(events))
  <2>1. a <= b /\ a \in 0 .. MaxCount /\ r \in 0 .. MaxCount
    BY <1>11, SaturatedSums
  <2>2. b \in Nat
    BY <1>11, Sums
  <2>3. a >= config.min_examined /\ ratio_basis_points(r, a) <= config.max_ratio
    BY <1>3, <1>5
  <2> HIDE DEF a, b, r
  <2>4. a \in Nat /\ r \in Nat /\ a > 0 /\ b >= config.min_examined
    BY <1>4, <2>1, <2>2, <2>3, IntelligenceAssumption
  <2>5. Selective(r, a, config.max_ratio)
    BY <1>4, <2>3, <2>4, RatiosWithinLimit
  <2> QED
    BY <2>4, <2>5 DEF a, b, r
<1>9. ASSUME NEW q \in Workload, EventCollection(q.command) = <<key[1]>>,
             key[2] \in index_candidate_paths(q.stages)
      PROVE  plan(q, WithIndex(definitions, key))[1] = "IndexScan"
  <2> DEFINE catalog == WithIndex(definitions, key)
             name == <<"nie">>
  <2>1. /\ name \in DOMAIN catalog
        /\ catalog[name].collection = key[1] /\ catalog[name].field = key[2]
    BY DEF WithIndex
  <2>2. WellFormed(q)
    BY WorkloadAssumption
  <2> HIDE DEF catalog, name
  <2>3. plan(q, catalog)[1] = "IndexScan"
    BY <1>9, <2>1, <2>2, PlanUsesIndex
  <2> QED
    BY <2>3 DEF catalog
<1> QED
  BY <1>6, <1>7, <1>8, <1>9 DEF good, scans

\* Whatever was observed and whichever indexes there are: what would be
\* recommended is not indexed, rests on the demanded executions, full scans and
\* examined documents, of which the scans returned as few as demanded, and would
\* be used by the planner (recommend_indexes and plan).
THEOREM AlwaysRecommendationsWouldHelp == Spec => []RecommendationsWouldHelp
<1>1. HoldsEvents => RecommendationsWouldHelp
  BY HeldEvents, RecommendationsHelp
<1> QED
  BY <1>1, AlwaysHoldsEvents, PTL

-----------------------------------------------------------------------------
(* Records *)

\* A reduction is at most all of the baseline.
LEMMA ReductionBounded ==
    ASSUME NEW baseline \in Nat, NEW observed \in Nat
    PROVE  reduction_basis_points(baseline, observed) <= BASIS_POINTS
<1>1. CASE baseline = 0
  BY <1>1 DEF reduction_basis_points, BASIS_POINTS
<1>2. CASE baseline > 0
  <2>1. Reduction(baseline, observed) \in Int /\ Reduction(baseline, observed) <= BASIS_POINTS
    <3>1. CASE observed <= baseline
      <4> DEFINE saved == (baseline - observed) * BASIS_POINTS
      <4>1. saved \in Nat /\ saved <= baseline * BASIS_POINTS
        BY <3>1 DEF BASIS_POINTS
      <4>2. \A x \in Nat : x <= baseline * BASIS_POINTS =>
               x \div baseline \in Int /\ x \div baseline <= BASIS_POINTS
        BY <1>2 DEF BASIS_POINTS
      <4> HIDE DEF saved
      <4>3. saved \div baseline \in Int /\ saved \div baseline <= BASIS_POINTS
        BY <4>1, <4>2
      <4> QED
        BY <3>1, <4>3 DEF Reduction, saved
    <3>2. CASE ~(observed <= baseline)
      <4> DEFINE more == (observed - baseline) * BASIS_POINTS
      <4>1. more \in Nat
        BY <3>2 DEF BASIS_POINTS
      <4>2. \A x \in Nat : x \div baseline \in Nat
        BY <1>2
      <4> HIDE DEF more
      <4>3. more \div baseline \in Nat
        BY <4>1, <4>2
      <4>4. Reduction(baseline, observed) = -(more \div baseline)
        BY <3>2 DEF Reduction, more
      <4> QED
        BY <4>3, <4>4 DEF BASIS_POINTS
    <3> QED
      BY <3>1, <3>2
  <2> DEFINE r == Reduction(baseline, observed)
  <2>2. r \in Int /\ r <= BASIS_POINTS
    BY <2>1
  <2> HIDE DEF r
  <2>3. Max({r, LowestReduction}) <= BASIS_POINTS
    BY <2>2, MaxOfTwo, IntelligenceAssumption DEF BASIS_POINTS
  <2> QED
    BY <1>2, <2>3 DEF reduction_basis_points, r
<1> QED
  BY <1>1, <1>2

\* Averages are numbers.
LEMMA Averages ==
    ASSUME NEW total \in Nat, NEW count \in Nat
    PROVE  average(total, count) \in Nat
<1>1. CASE count = 0
  BY <1>1 DEF average
<1>2. CASE count > 0
  BY <1>2 DEF average
<1> QED
  BY <1>1, <1>2

\* What is counted of a candidate are numbers.
LEMMA CandidateNumbers ==
    ASSUME IsWorkload(events), NEW key \in DOMAIN analyze_workload(events).index_candidates
    PROVE  LET stats == analyze_workload(events).index_candidates[key]
               lookups == Serving(events, key) \cap Good(events) \cap Lookups(events)
           IN  /\ stats.collection_scans \in Nat /\ stats.collection_scan_examined \in Nat
               /\ stats.index_scans \in Nat /\ stats.index_scan_examined \in Nat
               /\ stats.index_scans <= Cardinality(lookups)
<1> DEFINE stats == analyze_workload(events).index_candidates[key]
           scans == Serving(events, key) \cap Good(events) \cap Scans(events)
           lookups == Serving(events, key) \cap Good(events) \cap Lookups(events)
<1>1. stats = CandidateStatsOf(events, Serving(events, key)) /\ IsFiniteSet(Serving(events, key))
  BY CandidateOfReport
<1>2. IsFiniteSet(scans) /\ IsFiniteSet(lookups)
  BY <1>1, FS_Subset
<1> HIDE DEF stats
<1>3. /\ stats.collection_scans = Number(scans) /\ stats.index_scans = Number(lookups)
      /\ stats.collection_scan_examined = Saturated(scans, Examined(events))
      /\ stats.index_scan_examined = Saturated(lookups, Examined(events))
  BY <1>1 DEF CandidateStatsOf
<1>4. Examined(events) \in Seq(Nat)
  BY AmountsOfEvents
<1> HIDE DEF scans, lookups
<1>5. /\ Saturated(scans, Examined(events)) \in 0 .. MaxCount
      /\ Saturated(lookups, Examined(events)) \in 0 .. MaxCount
  BY <1>4, SaturatedSums
<1>6. /\ Number(scans) \in 0 .. MaxCount /\ Number(lookups) \in 0 .. MaxCount
      /\ Number(lookups) <= Cardinality(lookups)
  BY <1>2, Numbers
<1> QED
  BY <1>3, <1>5, <1>6, IntelligenceAssumption DEF stats, lookups

\* What a recommendation rests on are numbers.
IsEvidence(recommendation) ==
    /\ recommendation.stats.collection_scans \in Nat
    /\ recommendation.stats.collection_scan_examined \in Nat

\* A record has its fields, its evidence, and an evaluation exactly if it is Evaluated.
IsRecord(record) ==
    /\ record = [recommendation |-> record.recommendation, status |-> record.status,
                 evaluation |-> record.evaluation]
    /\ IsEvidence(record.recommendation)
    /\ record.evaluation # <<>> <=> record.status = "Evaluated"

\* The invariant of records.
RecordsInvariant ==
    /\ HoldsEvents
    /\ records = [key \in DOMAIN records |-> records[key]]
    /\ \A key \in DOMAIN records : IsRecord(records[key])

\* A transition changes the status of one record.
LEMMA TransitionsKeepRecords ==
    ASSUME RecordsInvariant, NEW key \in DOMAIN records, NEW expected, NEW next,
           <<expected, next>> \in Edges, next # "Evaluated", transition(key, expected, next)
    PROVE  /\ DOMAIN records' = DOMAIN records
           /\ \A other \in DOMAIN records :
                /\ IsRecord(records'[other])
                /\ records'[other].recommendation = records[other].recommendation
                /\ records'[other] # records[other] =>
                     /\ <<records[other].status, records'[other].status>> \in Edges
                     /\ records'[other].status # "Evaluated"
<1>1. /\ records[key].status = expected
      /\ records' = [records EXCEPT ![key].status = next]
  BY DEF transition
<1>2. \A other \in DOMAIN records : IsRecord(records[other])
  BY DEF RecordsInvariant
<1>3. DOMAIN records' = DOMAIN records
  BY <1>1
<1>4. ASSUME NEW other \in DOMAIN records, other # key
      PROVE  records'[other] = records[other]
  BY <1>1, <1>4
<1>5. records'[key] = [records[key] EXCEPT !.status = next]
  BY <1>1
<1>6. records'[key] = [recommendation |-> records[key].recommendation, status |-> next,
                       evaluation |-> records[key].evaluation]
  <2> DEFINE old == records[key]
  <2>1. old = [recommendation |-> old.recommendation, status |-> old.status,
               evaluation |-> old.evaluation]
    BY <1>2 DEF IsRecord
  <2> HIDE DEF old
  <2>2. [old EXCEPT !.status = next]
          = [recommendation |-> old.recommendation, status |-> next,
             evaluation |-> old.evaluation]
    BY <2>1
  <2> QED
    BY <1>5, <2>2 DEF old
<1>7. expected # "Evaluated"
  BY DEF Edges
<1>8. IsRecord(records'[key])
  BY <1>1, <1>2, <1>6, <1>7 DEF IsRecord
<1> QED
  BY <1>1, <1>2, <1>3, <1>4, <1>6, <1>8

\* An evaluation completes one record, by what was observed for its path.
LEMMA EvaluationsKeepRecords ==
    ASSUME RecordsInvariant, NEW key \in DOMAIN records, NEW threshold \in Thresholds,
           evaluate_impact(key, threshold)
    PROVE  LET lookups == Serving(events, key) \cap Good(events) \cap Lookups(events)
               old == records[key]
               new == records'[key]
           IN  /\ DOMAIN records' = DOMAIN records
               /\ \A other \in DOMAIN records : other # key => records'[other] = records[other]
               /\ IsRecord(new) /\ new.recommendation = old.recommendation
               /\ <<old.status, new.status>> \in Edges
               /\ \E t \in Thresholds \ {0} : Cardinality(lookups) >= t
               /\ new.evaluation[1].baseline_collection_scans
                    = old.recommendation.stats.collection_scans
               /\ new.evaluation[1].examined_reduction <= BASIS_POINTS
<1> DEFINE lookups == Serving(events, key) \cap Good(events) \cap Lookups(events)
           old == records[key]
           stats == analyze_workload(events).index_candidates[key]
           impact == Impact(old.recommendation, stats)
           marked == [records EXCEPT ![key].status = "Evaluated"]
<1>1. /\ old.status = "Applied"
      /\ key \in DOMAIN analyze_workload(events).index_candidates
      /\ Sufficient(stats, threshold)
  BY DEF evaluate_impact
<1>2. records' = [marked EXCEPT ![key].evaluation = <<impact>>]
  BY DEF evaluate_impact
<1>3. /\ DOMAIN marked = DOMAIN records
      /\ \A other \in DOMAIN records : other # key => marked[other] = records[other]
      /\ marked[key] = [old EXCEPT !.status = "Evaluated"]
  OBVIOUS
<1>4. IsRecord(old) /\ IsWorkload(events)
  BY HeldEvents DEF RecordsInvariant
<1>5. /\ stats.collection_scans \in Nat /\ stats.collection_scan_examined \in Nat
      /\ stats.index_scans \in Nat /\ stats.index_scan_examined \in Nat
      /\ stats.index_scans <= Cardinality(lookups)
  BY <1>1, <1>4, CandidateNumbers
<1>6. IsFiniteSet(lookups)
  BY <1>1, <1>4, CandidateOfReport, FS_Subset
<1>7. Cardinality(lookups) \in Nat
  BY <1>6, FS_CardinalityType
<1> HIDE DEF stats, impact, old, marked, lookups
<1>8. /\ DOMAIN records' = DOMAIN records
      /\ \A other \in DOMAIN records : other # key => records'[other] = records[other]
      /\ records'[key] = [marked[key] EXCEPT !.evaluation = <<impact>>]
  BY <1>2, <1>3
<1>9. marked[key] = [recommendation |-> old.recommendation, status |-> "Evaluated",
                     evaluation |-> old.evaluation]
  BY <1>3, <1>4 DEF IsRecord
<1>10. records'[key] = [recommendation |-> old.recommendation, status |-> "Evaluated",
                        evaluation |-> <<impact>>]
  BY <1>8, <1>9
<1>11. IsRecord(records'[key]) /\ records'[key].recommendation = old.recommendation
  <2>1. <<impact>> # <<>>
    OBVIOUS
  <2> QED
    BY <1>4, <1>10, <2>1 DEF IsRecord
<1>12. <<old.status, records'[key].status>> \in Edges
  BY <1>1, <1>10 DEF Edges
<1>13. \E t \in Thresholds \ {0} : Cardinality(lookups) >= t
  <2>1. threshold \in Nat /\ threshold > 0 /\ stats.index_scans >= threshold
    BY <1>1, IntelligenceAssumption DEF Sufficient
  <2>2. threshold \in Thresholds \ {0}
    BY <2>1
  <2>3. Cardinality(lookups) >= threshold
    BY <1>5, <1>7, <2>1
  <2> QED
    BY <2>2, <2>3
<1>14. /\ impact.baseline_collection_scans = old.recommendation.stats.collection_scans
       /\ impact.examined_reduction <= BASIS_POINTS
  <2> DEFINE b == average(old.recommendation.stats.collection_scan_examined,
                          old.recommendation.stats.collection_scans)
             o == average(stats.index_scan_examined, stats.index_scans)
  <2>1. b \in Nat /\ o \in Nat
    BY <1>4, <1>5, Averages DEF IsRecord, IsEvidence
  <2>2. /\ impact.baseline_collection_scans = old.recommendation.stats.collection_scans
        /\ impact.examined_reduction = reduction_basis_points(b, o)
    BY DEF impact, Impact
  <2> HIDE DEF b, o
  <2> QED
    BY <2>1, <2>2, ReductionBounded
<1> QED
  BY <1>8, <1>10, <1>11, <1>12, <1>13, <1>14 DEF lookups, old

\* Proposals are records with their evidence.
LEMMA ProposalsAreRecords ==
    ASSUME RecordsInvariant, NEW config \in Configs, from_recommendations(config)
    PROVE  /\ records = <<>>
           /\ records' = [key \in DOMAIN records' |-> records'[key]]
           /\ \A key \in DOMAIN records' : IsRecord(records'[key])
<1> DEFINE candidates == analyze_workload(events).index_candidates
           chosen == recommend_indexes(analyze_workload(events), definitions, config)
<1>1. /\ records = <<>>
      /\ records' = [key \in DOMAIN chosen |-> [recommendation |-> chosen[key],
                                                status |-> "Proposed", evaluation |-> <<>>]]
  BY DEF from_recommendations
<1>2. ASSUME NEW key \in DOMAIN chosen
      PROVE  IsEvidence(chosen[key])
  <2>1. key \in DOMAIN candidates /\ chosen[key].stats = candidates[key]
    BY DEF recommend_indexes
  <2>2. IsWorkload(events)
    BY HeldEvents DEF RecordsInvariant
  <2> HIDE DEF chosen
  <2> QED
    BY <2>1, <2>2, CandidateNumbers DEF IsEvidence
<1> HIDE DEF chosen
<1>3. ASSUME NEW key \in DOMAIN records'
      PROVE  IsRecord(records'[key])
  <2>1. /\ key \in DOMAIN chosen
        /\ records'[key] = [recommendation |-> chosen[key], status |-> "Proposed",
                            evaluation |-> <<>>]
    BY <1>1
  <2> QED
    BY <1>2, <2>1 DEF IsRecord
<1> QED
  BY <1>1, <1>3

\* Every step keeps the invariant of records and moves records forward.
LEMMA RecordsStep ==
    ASSUME RecordsInvariant, [Next]_vars
    PROVE  RecordsInvariant' /\ MovesForward
<1>1. HoldsEvents'
  BY HoldsEventsStep DEF RecordsInvariant
<1>2. \A key \in DOMAIN records : IsRecord(records[key])
  BY DEF RecordsInvariant
<1>3. CASE UNCHANGED records
  <2>1. RecordsInvariant'
    BY <1>1, <1>3 DEF RecordsInvariant, IsRecord, IsEvidence
  <2>2. MovesForward
    BY <1>2, <1>3 DEF MovesForward, IsRecord
  <2> QED
    BY <2>1, <2>2
<1>4. ASSUME NEW config \in Configs, from_recommendations(config)
      PROVE  RecordsInvariant' /\ MovesForward
  <2>1. /\ records = <<>>
        /\ records' = [key \in DOMAIN records' |-> records'[key]]
        /\ \A key \in DOMAIN records' : IsRecord(records'[key])
    BY <1>4, ProposalsAreRecords
  <2>2. RecordsInvariant'
    BY <1>1, <2>1 DEF RecordsInvariant, IsRecord, IsEvidence
  <2>3. MovesForward
    BY <2>1 DEF MovesForward
  <2> QED
    BY <2>2, <2>3
<1>5. ASSUME NEW key \in DOMAIN records, NEW expected, NEW next,
             <<expected, next>> \in Edges, next # "Evaluated", transition(key, expected, next)
      PROVE  RecordsInvariant' /\ MovesForward
  <2>1. /\ DOMAIN records' = DOMAIN records
        /\ \A other \in DOMAIN records :
             /\ IsRecord(records'[other])
             /\ records'[other].recommendation = records[other].recommendation
             /\ records'[other] # records[other] =>
                  /\ <<records[other].status, records'[other].status>> \in Edges
                  /\ records'[other].status # "Evaluated"
    BY <1>5, TransitionsKeepRecords
  <2>2. records' = [other \in DOMAIN records' |-> records'[other]]
    BY <1>5 DEF transition, RecordsInvariant
  <2>3. RecordsInvariant'
    BY <1>1, <2>1, <2>2 DEF RecordsInvariant, IsRecord, IsEvidence
  <2>4. MovesForward
    BY <2>1 DEF MovesForward, IsRecord
  <2> QED
    BY <2>3, <2>4
<1>6. ASSUME NEW key \in DOMAIN records, NEW threshold \in Thresholds,
             evaluate_impact(key, threshold)
      PROVE  RecordsInvariant' /\ MovesForward
  <2> DEFINE lookups == Serving(events, key) \cap Good(events) \cap Lookups(events)
  <2>1. /\ DOMAIN records' = DOMAIN records
        /\ \A other \in DOMAIN records : other # key => records'[other] = records[other]
        /\ IsRecord(records'[key])
        /\ records'[key].recommendation = records[key].recommendation
        /\ <<records[key].status, records'[key].status>> \in Edges
        /\ \E t \in Thresholds \ {0} : Cardinality(lookups) >= t
        /\ records'[key].evaluation[1].baseline_collection_scans
             = records[key].recommendation.stats.collection_scans
        /\ records'[key].evaluation[1].examined_reduction <= BASIS_POINTS
    BY <1>6, EvaluationsKeepRecords
  <2>2. records' = [other \in DOMAIN records' |-> records'[other]]
    BY <1>6 DEF evaluate_impact, RecordsInvariant
  <2>3. \A other \in DOMAIN records' : IsRecord(records'[other])
    BY <1>2, <2>1
  <2>4. RecordsInvariant'
    BY <1>1, <2>2, <2>3 DEF RecordsInvariant, IsRecord, IsEvidence
  <2>5. MovesForward
    BY <1>2, <2>1 DEF MovesForward, IsRecord
  <2> QED
    BY <2>4, <2>5
<1>7. ASSUME NEW q \in Workload, Execute(q)
      PROVE  UNCHANGED records
  BY <1>7 DEF Execute
<1>8. CASE clear
  BY <1>3, <1>8 DEF clear
<1>9. /\ <<"Proposed", "Accepted">> \in Edges /\ <<"Proposed", "Dismissed">> \in Edges
      /\ <<"Accepted", "Applied">> \in Edges
  BY DEF Edges
<1>10. ASSUME NEW key \in DOMAIN records, accept(key) \/ dismiss(key) \/ mark_applied(key)
       PROVE  RecordsInvariant' /\ MovesForward
  BY <1>5, <1>9, <1>10 DEF accept, dismiss, mark_applied
<1> QED
  BY <1>3, <1>4, <1>6, <1>7, <1>8, <1>10 DEF Next, Use, vars

\* Whatever callers do in whatever order, a recommendation goes its documented
\* way once, keeps its evidence, and is evaluated by what was observed for its
\* path (RecommendationLifecycle).
THEOREM AlwaysRecordsMoveForward == Spec => RecordsMoveForward
<1>1. Init => RecordsInvariant
  <2>1. Init => HoldsEvents
    <3>1. <<>> \in Seq({})
      OBVIOUS
    <3> QED
      BY <3>1 DEF Init, HoldsEvents
  <2>2. <<>> = [key \in DOMAIN <<>> |-> <<>>[key]] /\ DOMAIN <<>> = {}
    OBVIOUS
  <2> QED
    BY <2>1, <2>2 DEF Init, RecordsInvariant
<1>2. RecordsInvariant /\ [Next]_vars => RecordsInvariant'
  BY RecordsStep
<1>3. RecordsInvariant /\ [Next]_vars => [MovesForward]_vars
  BY RecordsStep
<1>4. Spec => [][MovesForward]_vars
  BY <1>1, <1>2, <1>3, PTL DEF Spec
<1> QED
  BY <1>4 DEF RecordsMoveForward

-----------------------------------------------------------------------------
(* Beside a store *)

\* The store is within the bounds, and its indexes are known to Intelligence.
ObservedInv == StoreTyped(Store, MaxId + 1) /\ definitions \in Catalogs

\* A command on the catalog leaves the indexes that it may leave.
LEMMA CatalogsFollow ==
    ASSUME NEW command, command[1] \in Cataloguing, NEW s, NEW next, StoreTyped(s, next),
           Catalogued(command, s) # <<>>
    PROVE  LET left == Catalogued(command, s)[1].definitions
           IN  left = s.definitions \/ left \in CatalogsAfter(command, s.definitions)
<1> DEFINE t == Catalogued(command, s)[1]
           name == command[2]
<1>1. s = [collections |-> s.collections, definitions |-> s.definitions]
  BY DEF StoreTyped
<1>2. CASE command[1] = "CreateCollection"
  <2> DEFINE more == With(s.collections, name, NoFields)
  <2>1. t = [s EXCEPT !.collections = more]
    BY <1>2 DEF Catalogued
  <2> HIDE DEF more, t
  <2>2. t.definitions = s.definitions
    BY <1>1, <2>1
  <2> QED
    BY <2>2 DEF t
<1>3. CASE command[1] = "DropCollection"
  <2> DEFINE rest == Without(s.definitions,
                             {n \in DOMAIN s.definitions : s.definitions[n].collection = name})
  <2>1. t = [collections |-> Without(s.collections, {name}), definitions |-> rest]
    BY <1>3 DEF Catalogued
  <2>2. CatalogsAfter(command, s.definitions) = {rest}
    BY <1>3 DEF CatalogsAfter
  <2> HIDE DEF rest, t
  <2>3. t.definitions = rest
    BY <2>1
  <2> QED
    BY <2>2, <2>3 DEF t
<1>4. CASE command[1] = "CreateIndex"
  <2> DEFINE more == With(s.definitions, name,
                          [collection |-> command[3], field |-> command[4][1]])
  <2>1. t = [s EXCEPT !.definitions = more]
    BY <1>4 DEF Catalogued
  <2>2. CatalogsAfter(command, s.definitions) = {more}
    BY <1>4 DEF CatalogsAfter
  <2> HIDE DEF more, t
  <2>3. t.definitions = more
    BY <1>1, <2>1
  <2> QED
    BY <2>2, <2>3 DEF t
<1>5. CASE command[1] = "DropIndex"
  <2> DEFINE rest == Without(s.definitions, {name})
  <2>1. t = [s EXCEPT !.definitions = rest]
    BY <1>5 DEF Catalogued
  <2>2. CatalogsAfter(command, s.definitions) = {rest}
    BY <1>5 DEF CatalogsAfter
  <2> HIDE DEF rest, t
  <2>3. t.definitions = rest
    BY <1>1, <2>1
  <2> QED
    BY <2>2, <2>3 DEF t
<1> QED
  BY <1>2, <1>3, <1>4, <1>5 DEF Cataloguing

\* An insertion leaves the indexes alone, and returns one document or none.
LEMMA InsertionObserved ==
    ASSUME NEW q, NEW s, NEW next, StoreTyped(s, next), NEW fresh
    PROVE  LET outcome == ExecuteInsert(q, s, fresh)
           IN  /\ outcome.store.definitions = s.definitions
               /\ outcome.examined = 0
               /\ result_count(outcome.reply) \in {0, 1}
<1> DEFINE c == q.command[2]
           value == evaluate(q.command[3], [id |-> 0, fields |-> NoFields])
           outcome == ExecuteInsert(q, s, fresh)
           more == With(s.collections[c], fresh, value[2])
           t == [s EXCEPT !.collections[c] = more]
<1>1. outcome = InsertValue(c, value, s, fresh)
  BY DEF ExecuteInsert
<1> HIDE DEF outcome, value
<1>2. outcome = Outcome(Error, s, 0) \/ outcome = Outcome(<<"Inserted", fresh>>, t, 0)
  BY <1>1 DEF InsertValue
<1>3. s = [collections |-> s.collections, definitions |-> s.definitions]
  BY DEF StoreTyped
<1> HIDE DEF more
<1>4. t.definitions = s.definitions
  BY <1>3
<1>5. result_count(Error) = 0 /\ result_count(<<"Inserted", fresh>>) = 1
  BY DEF result_count, Error
<1> HIDE DEF t
<1>6. \/ outcome.store = s /\ outcome.examined = 0 /\ outcome.reply = Error
      \/ outcome.store = t /\ outcome.examined = 0 /\ outcome.reply = <<"Inserted", fresh>>
  BY <1>2 DEF Outcome
<1>7. outcome.store.definitions = s.definitions /\ outcome.examined = 0
      /\ result_count(outcome.reply) \in {0, 1}
  BY <1>4, <1>5, <1>6
<1> QED
  BY <1>7 DEF outcome

\* What a query of the workload does to the store is within what Intelligence is
\* told of, and so are the numbers that its event gives.
LEMMA ExecutionObserved ==
    ASSUME NEW q \in Workload, NEW s, StoreTyped(s, MaxId + 1), s.definitions \in Catalogs,
           NEW access, NEW fresh \in 1 .. MaxId + 1,
           q.command[1] = "Insert" => fresh <= MaxId
    PROVE  LET outcome == execute_planned(q, s, access, fresh)
           IN  /\ StoreTyped(outcome.store, MaxId + 1)
               /\ outcome.store.definitions \in Catalogs
               /\ outcome.examined \in Counts /\ result_count(outcome.reply) \in Counts
<1> DEFINE kind == q.command[1]
           outcome == execute_planned(q, s, access, fresh)
           next == MaxId + 1
<1>1. /\ MaxId \in Nat /\ next \in Nat \ {0} /\ next - 1 = MaxId
      /\ \A n \in 0 .. MaxId : n \in Counts
      /\ 0 \in Counts /\ 1 \in Counts
  BY ObservedAssumption
<1>2. WellFormed(q) /\ (kind = "CreateIndex" => Rank(q.command[2]) \in Nat)
      /\ \A catalog \in CatalogsAfter(q.command, s.definitions) : catalog \in Catalogs
  BY WorkloadAssumption, ObservedAssumption
<1>3. kind \in Piped \cup Cataloguing \cup {"Insert"}
  BY <1>2 DEF WellFormed
<1> HIDE DEF next
<1>4. StoreTyped(outcome.store, next)
  <2>1. StoreTyped(s, next) /\ fresh \in 1 .. next
    BY DEF next
  <2>2. \/ StoreTyped(outcome.store, next)
        \/ q.command[1] = "Insert" /\ fresh = next
    <3>1. LET made == execute_planned(q, s, access, fresh)
          IN  \/ StoreTyped(made.store, next)
              \/ /\ q.command[1] = "Insert" /\ fresh = next
                 /\ made.reply = <<"Inserted", next>> /\ StoreTyped(made.store, next + 1)
      BY <1>1, <1>2, <2>1, ExecutionKeeps
    <3> QED
      BY <3>1
  <2>3. ~(q.command[1] = "Insert" /\ fresh = next)
    BY <1>1 DEF next
  <2> QED
    BY <2>2, <2>3
<1>5. /\ outcome.store.definitions \in Catalogs
      /\ outcome.examined \in Counts /\ result_count(outcome.reply) \in Counts
  <2>0. result_count(Error) = 0
    BY DEF result_count, Error
  <2>1. CASE q.explain
    <3>1. /\ outcome.store = s /\ outcome.examined = 0
          /\ outcome.reply = <<"Explained", access>>
      BY <2>1 DEF execute_planned, Outcome
    <3>2. result_count(outcome.reply) = 0
      BY <3>1 DEF result_count
    <3> HIDE DEF outcome
    <3> QED
      BY <1>1, <3>1, <3>2
  <2>2. CASE ~q.explain /\ kind = "Insert"
    <3>1. outcome = ExecuteInsert(q, s, fresh)
      BY <2>2 DEF execute_planned, Piped
    <3>2. LET inserted == ExecuteInsert(q, s, fresh)
          IN  /\ inserted.store.definitions = s.definitions
              /\ inserted.examined = 0
              /\ result_count(inserted.reply) \in {0, 1}
      BY InsertionObserved
    <3> HIDE DEF outcome
    <3> QED
      BY <1>1, <3>1, <3>2
  <2>3. CASE ~q.explain /\ kind \in Piped
    <3>1. outcome = ExecutePipeline(q, s, access)
      BY <2>3 DEF execute_planned, Piped
    <3>2. LET piped == ExecutePipeline(q, s, access)
          IN  /\ piped.store.definitions = s.definitions
              /\ piped.examined \in 0 .. next - 1
              /\ result_count(piped.reply) \in 0 .. next - 1
      <4>1. StoreTyped(s, next)
        BY DEF next
      <4> QED
        BY <1>1, <1>2, <2>3, <4>1, PipelineKeeps
    <3> HIDE DEF outcome
    <3> QED
      BY <1>1, <3>1, <3>2
  <2>4. CASE ~q.explain /\ kind \in Cataloguing
    <3> DEFINE catalogued == Catalogued(q.command, s)
               name == q.command[2]
    <3>1. outcome = IF catalogued = <<>> THEN Outcome(Error, s, 0)
                    ELSE Outcome(<<kind, name>>, catalogued[1], 0)
      BY <2>4 DEF execute_planned, Piped, Cataloguing
    <3>2. catalogued # <<>> => \/ catalogued[1].definitions = s.definitions
                               \/ catalogued[1].definitions
                                    \in CatalogsAfter(q.command, s.definitions)
      BY <2>4, CatalogsFollow
    <3> HIDE DEF catalogued, name
    <3>3. result_count(<<kind, name>>) = 0
      BY <2>4 DEF result_count, Cataloguing
    <3>4. /\ outcome.examined = 0
          /\ \/ outcome.reply = Error /\ outcome.store = s
             \/ /\ outcome.reply = <<kind, name>> /\ catalogued # <<>>
                /\ outcome.store = catalogued[1]
      BY <3>1 DEF Outcome
    <3> HIDE DEF outcome
    <3> QED
      BY <1>1, <1>2, <2>0, <3>2, <3>3, <3>4
  <2> QED
    BY <1>3, <2>1, <2>2, <2>3, <2>4
<1> QED
  BY <1>4, <1>5 DEF next

\* An event that is given its numbers later is the same as one built with them.
LEMMA EventsFilledIn ==
    ASSUME NEW q, NEW access, NEW n, NEW m, NEW good \in BOOLEAN
    PROVE  EventWith(build_event(q, access, 0, 0, TRUE), n, m, good)
             = build_event(q, access, n, m, good)
<1> DEFINE Fields == {"fingerprint", "collection", "predicate_paths", "index_candidate_paths",
                      "access", "examined", "returned", "succeeded"}
           shape == fingerprint(q)
           collection == EventCollection(q.command)
           paths == predicate_paths(q.stages)
           candidates == index_candidate_paths(q.stages)
           along == IF access[1] = "IndexScan" THEN <<access[1], access[2]>> ELSE access
           old == build_event(q, access, 0, 0, TRUE)
           full == EventWith(old, n, m, good)
           new == build_event(q, access, n, m, good)
<1>1. /\ DOMAIN old = Fields
      /\ old.fingerprint = shape /\ old.collection = collection /\ old.predicate_paths = paths
      /\ old.index_candidate_paths = candidates /\ old.access = along
  <2> HIDE DEF shape, collection, paths, candidates
  <2> QED
    BY DEF build_event, shape, collection, paths, candidates
<1>2. new = [fingerprint |-> shape, collection |-> collection, predicate_paths |-> paths,
             index_candidate_paths |-> candidates, access |-> along,
             examined |-> n, returned |-> m, succeeded |-> good]
  BY DEF build_event
<1> HIDE DEF shape, collection, paths, candidates, along, old, new
<1>3. /\ DOMAIN full = Fields /\ full = [f \in DOMAIN full |-> full[f]]
      /\ full.fingerprint = shape /\ full.collection = collection
      /\ full.predicate_paths = paths /\ full.index_candidate_paths = candidates
      /\ full.access = along
      /\ full.examined = n /\ full.returned = m /\ full.succeeded = good
  BY <1>1 DEF EventWith
<1> HIDE DEF full
<1>4. full = new
  BY <1>2, <1>3
<1> QED
  BY <1>4 DEF full, new, old

\* A query on the store is one of Intelligence's.
LEMMA ObservedQueryStep ==
    ASSUME ObservedInv, NEW q \in Workload, ExecuteOnStore(q)
    PROVE  ObservedInv' /\ Execute(q)
<1> DEFINE access == plan(q, definitions)
           outcome == execute_planned(q, Store, access, Fresh)
<1>1. StoreTyped(Store, MaxId + 1) /\ definitions \in Catalogs /\ Store.definitions = definitions
      /\ Store.collections = collections /\ MaxId \in Nat
  BY ObservedAssumption DEF ObservedInv, Store
<1>2. Fresh \in 1 .. MaxId + 1
  <2> DEFINE S == UNION {DOMAIN collections[c] : c \in DOMAIN collections}
  <2>1. S \in SUBSET (1 .. MaxId)
    <3>1. \A c \in DOMAIN collections : DOMAIN collections[c] \subseteq 1 .. (MaxId + 1) - 1
      BY <1>1 DEF StoreTyped
    <3>2. (MaxId + 1) - 1 = MaxId
      BY <1>1
    <3> QED
      BY <3>1, <3>2
  <2>2. Fresh = 1 + Max(S \cup {0})
    <3>1. {0} \cup S = S \cup {0}
      OBVIOUS
    <3> QED
      BY <3>1 DEF Fresh
  <2> HIDE DEF S
  <2>3. Max(S \cup {0}) \in 0 .. MaxId
    BY <1>1, <2>1, GreatestOf
  <2> QED
    BY <1>1, <2>2, <2>3
<1>3. /\ q.command[1] = "Insert" => Fresh <= MaxId
      /\ collections' = outcome.store.collections
      /\ definitions' = outcome.store.definitions
      /\ IF q \in Watched
         THEN /\ Len(events) < MaxEvents
              /\ events' = Append(events, observed_event(q, access, outcome))
         ELSE UNCHANGED events
      /\ UNCHANGED records
  BY DEF ExecuteOnStore
<1>4. /\ StoreTyped(outcome.store, MaxId + 1)
      /\ outcome.store.definitions \in Catalogs
      /\ outcome.examined \in Counts /\ result_count(outcome.reply) \in Counts
  <2> HIDE DEF access
  <2> QED
    BY <1>1, <1>2, <1>3, ExecutionObserved
<1> HIDE DEF outcome
<1>5. ObservedInv'
  <2>1. Store' = [collections |-> collections', definitions |-> definitions']
    BY DEF Store
  <2>2. outcome.store = [collections |-> outcome.store.collections,
                         definitions |-> outcome.store.definitions]
    BY <1>4 DEF StoreTyped
  <2>3. Store' = outcome.store
    BY <1>3, <2>1, <2>2
  <2>4. StoreTyped(Store, MaxId + 1)' <=> StoreTyped(Store', MaxId + 1)
    BY DEF StoreTyped
  <2> QED
    BY <1>3, <1>4, <2>3, <2>4 DEF ObservedInv
<1>6. Execute(q)
  <2>1. CASE q \notin Watched
    BY <1>3, <1>4, <2>1 DEF Execute
  <2>2. CASE q \in Watched
    <3> DEFINE n == outcome.examined
               m == result_count(outcome.reply)
               good == outcome.reply # Error
               event == build_event(q, access, 0, 0, TRUE)
    <3>1. observed_event(q, access, outcome) = EventWith(event, n, m, good)
      <4>1. observed_event(q, access, outcome) = build_event(q, access, n, m, good)
        BY DEF observed_event
      <4> HIDE DEF n, m, access
      <4>2. EventWith(event, n, m, good) = build_event(q, access, n, m, good)
        <5>1. good \in BOOLEAN
          BY DEF good
        <5> HIDE DEF good
        <5>2. EventWith(build_event(q, access, 0, 0, TRUE), n, m, good)
                = build_event(q, access, n, m, good)
          BY <5>1, EventsFilledIn
        <5> QED
          BY <5>2
      <4> QED
        BY <4>1, <4>2
    <3>2. n \in Counts /\ m \in Counts /\ good \in BOOLEAN
      BY <1>4
    <3> HIDE DEF n, m, good
    <3>3. events' = Append(events, EventWith(event, n, m, good))
      BY <1>3, <2>2, <3>1
    <3>4. Len(events) < MaxEvents /\ definitions' \in Catalogs /\ UNCHANGED records
      BY <1>3, <1>4, <2>2
    <3> HIDE DEF event
    <3>5. \E k \in Counts, l \in Counts, b \in BOOLEAN :
              events' = Append(events, EventWith(event, k, l, b))
      BY <3>2, <3>3
    <3> QED
      BY <2>2, <3>4, <3>5 DEF Execute, event
  <2> QED
    BY <2>1, <2>2
<1> QED
  BY <1>5, <1>6

\* A session on a store does to events, records and index definitions nothing that
\* Intelligence does not do: what is proved of Intelligence beside any database holds
\* beside this one (execute_with_telemetry).
THEOREM SessionImplementsIntelligence == Session => ObservesQueries
<1>1. SessionInit => Init /\ ObservedInv
  <2> SUFFICES ASSUME SessionInit PROVE Init /\ ObservedInv
    OBVIOUS
  <2>1. collections = StartStore.collections /\ definitions = StartStore.definitions
        /\ events = <<>> /\ records = <<>>
    BY DEF SessionInit
  <2>2. Store = StartStore
    BY <2>1, ObservedAssumption DEF Store
  <2>3. StoreTyped(StartStore, MaxId + 1)
    <3>1. (MaxId + 1) - 1 = MaxId
      BY ObservedAssumption
    <3> QED
      BY <3>1, ObservedAssumption DEF StoreTyped
  <2> QED
    BY <2>1, <2>2, <2>3, ObservedAssumption DEF Init, ObservedInv
<1>2. ObservedInv /\ [SessionNext]_<<vars, collections>> => ObservedInv' /\ [Next]_vars
  <2> SUFFICES ASSUME ObservedInv, [SessionNext]_<<vars, collections>>
               PROVE  ObservedInv' /\ [Next]_vars
    OBVIOUS
  <2>1. ASSUME NEW q \in Workload, ExecuteOnStore(q)
        PROVE  ObservedInv' /\ [Next]_vars
    BY <2>1, ObservedQueryStep DEF Next
  <2>2. CASE Use /\ UNCHANGED collections
    <3>1. UNCHANGED definitions
      BY <2>2 DEF Use, clear, from_recommendations, accept, dismiss, mark_applied, transition,
                  evaluate_impact
    <3>2. ObservedInv'
      BY <2>2, <3>1 DEF ObservedInv, Store, StoreTyped
    <3> QED
      BY <2>2, <3>2 DEF Next
  <2>3. CASE UNCHANGED <<vars, collections>>
    BY <2>3 DEF vars, ObservedInv, Store, StoreTyped
  <2> QED
    BY <2>1, <2>2, <2>3 DEF SessionNext
<1>3. Session => Spec
  BY <1>1, <1>2, PTL DEF Session, Spec
<1> QED
  BY <1>3 DEF ObservesQueries
====
