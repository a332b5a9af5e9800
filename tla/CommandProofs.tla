--------------------------- MODULE CommandProofs ----------------------------
(***************************************************************************)
(* The commands of hari-core, for every value of the constants.            *)
(*                                                                         *)
(* First the corpus command: the dual rule of its bootstrap asks for no    *)
(* more than the p-value does, no verdict is given on traces that were not *)
(* recorded, and none that passes is an artifact by the gate's own first   *)
(* clause.                                                                 *)
(*                                                                         *)
(* Then the commands that append to the ledgers: what they write has its   *)
(* type, what is resolved stays so and is resolved once, faults lose       *)
(* little, and the reports read off the ledgers are fair to signals and to *)
(* sources.                                                                *)
(***************************************************************************)
EXTENDS PairedCorpus, CommandLine, InductionFacts

\* The lower percentile cuts a whole number of resamples off each end, fewer
\* than half of them.
LEMMA PercentilePositions ==
    ASSUME BootstrapAssumption
    PROVE  \E m \in Nat :
              /\ LowIndex = m + 1
              /\ HighIndex = Resamples - m
              /\ 200 * m <= AlphaPercent * Resamples
              /\ AlphaPercent * Resamples < 200 * m + 200
              /\ 2 * m < Resamples
<1> DEFINE x == AlphaPercent * Resamples
           m == x \div 200
<1>1. /\ Resamples \in Nat /\ Resamples > 0
      /\ AlphaPercent \in Nat /\ AlphaPercent > 0 /\ AlphaPercent <= 99
    BY BootstrapAssumption DEF BootstrapAssumption
<1>2. x \in Nat /\ x <= 99 * Resamples
    BY <1>1
<1> HIDE DEF x
<1>3. m \in Nat /\ 200 * m <= x /\ x < 200 * m + 200
    BY <1>2
<1>4. 2 * m < Resamples
    BY <1>1, <1>2, <1>3
<1>5. LowIndex = m + 1 /\ HighIndex = Resamples - m
    BY DEF LowIndex, HighIndex, x
<1> QED BY <1>3, <1>4, <1>5 DEF x

\* A set of positions that holds a whole run of them has at least its length.
LEMMA RunIsCounted ==
    ASSUME NEW R \in Nat, NEW S \in SUBSET (1 .. R),
           NEW a \in 1 .. R, NEW b \in 1 .. R, a <= b, a .. b \subseteq S
    PROVE  Cardinality(S) \in Nat /\ Cardinality(S) >= b - a + 1
<1>1. IsFiniteSet(1 .. R) /\ IsFiniteSet(a .. b) /\ Cardinality(a .. b) = b - a + 1
    BY FS_Interval
<1>2. IsFiniteSet(S)
    BY <1>1, FS_Subset
<1>3. Cardinality(a .. b) <= Cardinality(S) /\ Cardinality(S) \in Nat
    BY <1>2, FS_Subset, FS_CardinalityType
<1> QED BY <1>1, <1>3

\* A tail of more resamples than a percentile cuts off is not below alpha.
LEMMA LargeTail ==
    ASSUME BootstrapAssumption, NEW m \in Nat,
           AlphaPercent * Resamples < 200 * m + 200,
           NEW tail, Cardinality(tail) \in Nat, Cardinality(tail) >= m + 1
    PROVE  ~TailBelowAlpha(tail)
<1>1. Resamples \in Nat /\ AlphaPercent \in Nat /\ AlphaPercent <= 99
    BY BootstrapAssumption DEF BootstrapAssumption
<1>2. AlphaPercent * (Resamples + 1) = AlphaPercent * Resamples + AlphaPercent
    BY <1>1
<1>3. AlphaPercent * Resamples \in Nat
    BY <1>1
<1> QED BY <1>1, <1>2, <1>3 DEF TailBelowAlpha

\* Sorted statistics with a p-value below alpha have an interval off zero.
LEMMA PValueImpliesInterval ==
    ASSUME BootstrapAssumption,
           NEW stats \in [1 .. Resamples -> Int], Sorted(stats),
           PBelowAlpha(stats)
    PROVE  CiExcludesZero(stats)
<1>0. Resamples \in Nat
    BY BootstrapAssumption DEF BootstrapAssumption
<1>1. PICK m \in Nat :
            /\ LowIndex = m + 1
            /\ HighIndex = Resamples - m
            /\ AlphaPercent * Resamples < 200 * m + 200
            /\ 2 * m < Resamples
    BY PercentilePositions
<1>2. /\ m + 1 \in 1 .. Resamples
      /\ Resamples - m \in 1 .. Resamples
      /\ m + 1 <= Resamples - m
    BY <1>0, <1>1
<1>3. stats[m + 1] <= stats[Resamples - m]
    BY <1>2 DEF Sorted
<1>4. CASE TailBelowAlpha(AtMostZero(stats))
    <2>1. ASSUME stats[m + 1] <= 0 PROVE FALSE
        <3>1. 1 .. m + 1 \subseteq AtMostZero(stats)
            BY <1>0, <1>2, <2>1 DEF Sorted, AtMostZero
        <3>2. AtMostZero(stats) \in SUBSET (1 .. Resamples)
            BY DEF AtMostZero
        <3>3. 1 \in 1 .. Resamples /\ 1 <= m + 1
            BY <1>0, <1>2
        <3>4. \A j, k \in 1 .. Resamples :
                j <= k /\ j .. k \subseteq AtMostZero(stats) =>
                    /\ Cardinality(AtMostZero(stats)) \in Nat
                    /\ Cardinality(AtMostZero(stats)) >= k - j + 1
            BY <1>0, <3>2, RunIsCounted
        <3>5. PICK k \in 1 .. Resamples : k = m + 1
            BY <1>2
        <3>6. 1 .. k \subseteq AtMostZero(stats) /\ 1 <= k
            BY <3>1, <3>5
        <3>7. /\ Cardinality(AtMostZero(stats)) \in Nat
              /\ Cardinality(AtMostZero(stats)) >= k - 1 + 1
            BY <3>3, <3>4, <3>6
        <3>8. k - 1 + 1 = m + 1
            BY <3>5
        <3> QED BY <1>1, <1>4, <3>7, <3>8, LargeTail
    <2>2. stats[m + 1] > 0 /\ stats[Resamples - m] > 0
        BY <1>2, <1>3, <2>1
    <2> QED BY <1>1, <2>2 DEF CiExcludesZero
<1>5. CASE TailBelowAlpha(AtLeastZero(stats))
    <2>1. ASSUME stats[Resamples - m] >= 0 PROVE FALSE
        <3>1. Resamples - m .. Resamples \subseteq AtLeastZero(stats)
            BY <1>0, <1>2, <2>1 DEF Sorted, AtLeastZero
        <3>2. AtLeastZero(stats) \in SUBSET (1 .. Resamples)
            BY DEF AtLeastZero
        <3>3. Resamples \in 1 .. Resamples /\ Resamples - m <= Resamples
            BY <1>0, <1>2
        <3>4. /\ Cardinality(AtLeastZero(stats)) \in Nat
              /\ Cardinality(AtLeastZero(stats)) >= Resamples - (Resamples - m) + 1
            BY <1>0, <1>2, <3>1, <3>2, <3>3, RunIsCounted
        <3> QED BY <1>0, <1>1, <1>5, <3>4, LargeTail
    <2>2. stats[m + 1] < 0 /\ stats[Resamples - m] < 0
        BY <1>2, <1>3, <2>1
    <2> QED BY <1>1, <2>2 DEF CiExcludesZero
<1> QED BY <1>4, <1>5 DEF PBelowAlpha

\* So it is for whatever the bootstrap of any clusters gives.
LEMMA BootstrapIsSignificant ==
    ASSUME BootstrapAssumption, NEW clusters, NEW result,
           Bootstrap(clusters, result)
    PROVE  \A b \in result : b.p_below_alpha => b.ci_excludes_zero
<1>1. CASE Usable(clusters) = {}
    BY <1>1 DEF Bootstrap
<1>2. CASE Usable(clusters) # {}
    <2>1. PICK stats \in [1 .. Resamples -> ReachableMeans(clusters)] :
                Sorted(stats) /\ result = {BootstrapOf(clusters, stats)}
        BY <1>2 DEF Bootstrap
    <2>2. ReachableMeans(clusters) \subseteq Int
        BY BootstrapAssumption DEF BootstrapAssumption, ReachableMeans, Means
    <2>3. stats \in [1 .. Resamples -> Int]
        BY <2>2
    <2>4. PBelowAlpha(stats) => CiExcludesZero(stats)
        BY <2>1, <2>3, PValueImpliesInterval
    <2> QED BY <2>1, <2>4 DEF BootstrapOf
<1> QED BY <1>1, <1>2

-----------------------------------------------------------------------------

\* On every corpus, with every number of resamples and at every level, a
\* p-value below alpha comes with an interval that excludes zero
\* (SignificanceNeedsTheInterval).
THEOREM TheDualRuleIsThePValue == Spec => []SignificanceNeedsTheInterval
<1>1. Init => SignificanceNeedsTheInterval
    BY DEF Init, SignificanceNeedsTheInterval
<1>2. SignificanceNeedsTheInterval /\ [Next]_vars => SignificanceNeedsTheInterval'
    <2> SUFFICES ASSUME SignificanceNeedsTheInterval, [Next]_vars
                 PROVE  SignificanceNeedsTheInterval'
        OBVIOUS
    <2>1. CASE BootstrapClause1
        BY <2>1, BootstrapAssumption, BootstrapIsSignificant
           DEF BootstrapClause1, SignificanceNeedsTheInterval
    <2>2. CASE BootstrapCheap
        BY <2>2, BootstrapAssumption, BootstrapIsSignificant
           DEF BootstrapCheap, SignificanceNeedsTheInterval
    <2>3. CASE UNCHANGED <<clause1, cheap>>
        BY <2>3 DEF SignificanceNeedsTheInterval
    <2> QED BY <2>1, <2>2, <2>3 DEF Next, vars, CheckCorpus, RefuseCorpus,
                LoadFixture, RefuseFixture, Publish, RefuseDeclaration, Refuse
<1> QED BY <1>1, <1>2, PTL DEF Spec

-----------------------------------------------------------------------------
(* What a verdict speaks of.                                               *)

Stages == {"checking", "loading", "comparing", "deciding", "published", "refused"}

TypeOK ==
    /\ \E n \in Nat : paths \in [1 .. n -> Fixtures]
    /\ declared \in SUBSET Provenances
    /\ stage \in Stages
    /\ loaded \in 0 .. Len(paths)
    /\ derived \in Provenances

\* The stamps read so far are the ones that were read without objection, and
\* a corpus counts as recorded only while every one of them matched.
StampsRead ==
    /\ \A i \in 1 .. loaded : paths[i].stamp \in {"none", "matches"}
    /\ derived = "recorded" => \A i \in 1 .. loaded : paths[i].stamp = "matches"

\* Nothing is compared before every fixture is graded, and nothing decided
\* before the declaration was weighed.
DecidedAtTheEnd ==
    /\ clause1 # {} => stage \in {"comparing", "deciding", "published", "refused"}
    /\ stage \in {"comparing", "deciding", "published"} => loaded = Len(paths)
    /\ decision # {} => stage = "published"
    /\ \A d \in decision :
        Declarable /\ d = ApplyKillKeep(clause1, {}, Reconciled)

ProvenanceInv == TypeOK /\ StampsRead /\ DecidedAtTheEnd

LEMMA LengthOfPaths ==
    ASSUME NEW n \in Nat, paths \in [1 .. n -> Fixtures]
    PROVE  Len(paths) = n /\ Len(paths) \in Nat /\ DOMAIN paths = 1 .. n
    OBVIOUS

LEMMA ProvenanceInit == Init => ProvenanceInv
<1> SUFFICES ASSUME Init PROVE ProvenanceInv
    OBVIOUS
<1>1. PICK n \in 0 .. MaxFixtures : paths \in [1 .. n -> Fixtures]
    BY DEF Init
<1>2. n \in Nat
    BY DEF Init
<1>3. TypeOK
    BY <1>1, <1>2, LengthOfPaths DEF Init, TypeOK, Stages, Provenances
<1>4. StampsRead /\ DecidedAtTheEnd
    BY DEF Init, StampsRead, DecidedAtTheEnd
<1> QED BY <1>3, <1>4 DEF ProvenanceInv

LEMMA ProvenanceStep == ProvenanceInv /\ [Next]_vars => ProvenanceInv'
<1> SUFFICES ASSUME ProvenanceInv, [Next]_vars PROVE ProvenanceInv'
    OBVIOUS
<1> USE DEF ProvenanceInv, TypeOK, StampsRead, DecidedAtTheEnd, Stages,
            Declarable, Reconciled
<1>1. CASE CheckCorpus
    BY <1>1 DEF CheckCorpus
<1>2. CASE RefuseCorpus
    BY <1>2 DEF RefuseCorpus, Refuse
<1>3. CASE LoadFixture
    <2>1. /\ stage = "loading" /\ loaded < Len(paths) /\ loaded' = loaded + 1
          /\ paths[loaded + 1].stamp \in {"none", "matches"}
          /\ derived' = Derived(paths[loaded + 1].stamp)
          /\ UNCHANGED <<paths, declared, stage, clause1, cheap, decision>>
        BY <1>3 DEF LoadFixture
    <2>2. loaded' \in 0 .. Len(paths) /\ 1 .. loaded' = 1 .. loaded \cup {loaded + 1}
        BY <2>1, LengthOfPaths
    <2>3. TypeOK'
        BY <2>1, <2>2 DEF Derived, Provenances
    <2>4. StampsRead'
        BY <2>1, <2>2 DEF Derived, Provenances
    <2>5. DecidedAtTheEnd'
        BY <2>1
    <2> QED BY <2>3, <2>4, <2>5
<1>4. CASE RefuseFixture
    BY <1>4 DEF RefuseFixture, Refuse
<1>5. CASE BootstrapClause1
    BY <1>5 DEF BootstrapClause1
<1>6. CASE BootstrapCheap
    BY <1>6 DEF BootstrapCheap
<1>7. CASE Publish
    <2>1. TypeOK' /\ StampsRead'
        BY <1>7 DEF Publish
    <2>2. DecidedAtTheEnd'
        BY <1>7 DEF Publish
    <2> QED BY <2>1, <2>2
<1>8. CASE RefuseDeclaration
    BY <1>8 DEF RefuseDeclaration, Refuse
<1>9. CASE UNCHANGED vars
    BY <1>9 DEF vars
<1> QED BY <1>1, <1>2, <1>3, <1>4, <1>5, <1>6, <1>7, <1>8, <1>9 DEF Next

\* Whatever was bootstrapped, an authored corpus gets its verdict withheld.
LEMMA AuthoredIsWithheld ==
    ASSUME NEW bootstrap
    PROVE  ApplyKillKeep(bootstrap, {}, "authored").verdict = "withheld"
    BY DEF ApplyKillKeep

\* On every corpus, a verdict that is not withheld speaks of traces whose
\* stamps were all read and all matched, and that nobody declared authored
\* (VerdictNeedsRecording).
THEOREM VerdictsNeedRecording == Spec => []VerdictNeedsRecording
<1>1. ProvenanceInv => VerdictNeedsRecording
    <2> SUFFICES ASSUME ProvenanceInv, NEW d \in decision, d.verdict # "withheld"
                 PROVE  /\ \A i \in DOMAIN paths : paths[i].stamp = "matches"
                        /\ declared # {"authored"}
        BY DEF VerdictNeedsRecording
    <2>1. d = ApplyKillKeep(clause1, {}, Reconciled)
        BY DEF ProvenanceInv, DecidedAtTheEnd
    <2>2. Reconciled # "authored"
        BY <2>1, AuthoredIsWithheld
    <2>3. declared # {"authored"} /\ derived = "recorded"
        BY <2>2 DEF Reconciled, ProvenanceInv, TypeOK, Provenances
    <2>4. DOMAIN paths = 1 .. loaded
        BY LengthOfPaths DEF ProvenanceInv, TypeOK, DecidedAtTheEnd
    <2> QED BY <2>3, <2>4 DEF ProvenanceInv, StampsRead
<1> QED BY <1>1, ProvenanceInit, ProvenanceStep, PTL DEF Spec

-----------------------------------------------------------------------------
(* What a resample can give.                                               *)

\* The sum of the deltas of a cluster, as a sum of a function of its pairs.
DeltaOf(c) == [pair \in DOMAIN c.pairs |-> Delta(c.pairs[pair])]

LEMMA DeltasAreSummed ==
    ASSUME NEW c, IsFiniteSet(DOMAIN c.pairs)
    PROVE  \E g : IsSum(g, DOMAIN c.pairs, DeltaOf(c)) /\ ClusterSum(c) = g[DOMAIN c.pairs]
<1> DEFINE S == DOMAIN c.pairs
           Body(f) ==
        [s \in SUBSET S |->
            IF s = {} THEN 0
            ELSE Delta(c.pairs[CHOOSE x \in s : TRUE]) + f[s \ {CHOOSE x \in s : TRUE}]]
           total == CHOOSE f : f = Body(f)
           w == DeltaOf(c)
<1>1. ClusterSum(c) = total[S]
    BY Zenon DEF ClusterSum, MapThenSumSet, MapThenFoldSet
<1>2. w \in [S -> Int]
    BY DEF DeltaOf, Delta, Count
<1>3. PICK g : IsSum(g, S, w)
    BY <1>2, SumExists
<1>4. \A f : IsSum(f, S, w) <=> f = Body(f)
    <2> SUFFICES ASSUME NEW f PROVE IsSum(f, S, w) <=> f = Body(f)
        OBVIOUS
    <2> DEFINE sums == [s \in SUBSET S |->
                            IF s = {} THEN 0
                            ELSE w[CHOOSE x \in s : TRUE]
                                    + f[s \ {CHOOSE x \in s : TRUE}]]
    <2>1. \A s \in SUBSET S : s # {} => (CHOOSE x \in s : TRUE) \in S
        OBVIOUS
    <2>2. \A s \in SUBSET S : s # {} =>
            w[CHOOSE x \in s : TRUE] = Delta(c.pairs[CHOOSE x \in s : TRUE])
        BY <2>1 DEF DeltaOf
    <2> HIDE DEF w
    <2>3. sums = Body(f)
        BY <2>2
    <2> QED BY <2>3, Zenon DEF IsSum
<1>5. total = Body(total)
    <2>1. g = Body(g)
        BY <1>3, <1>4
    <2> HIDE DEF Body
    <2> QED BY <2>1, Zenon
<1>6. IsSum(total, S, w)
    BY <1>4, <1>5
<1> QED BY <1>1, <1>6

\* So a cluster cannot be ahead by more pairs than it has.
LEMMA DeltasAreBounded ==
    ASSUME NEW c, IsFiniteSet(DOMAIN c.pairs)
    PROVE  /\ ClusterSize(c) \in Nat /\ ClusterSum(c) \in Int
           /\ -ClusterSize(c) <= ClusterSum(c) /\ ClusterSum(c) <= ClusterSize(c)
<1> DEFINE S == DOMAIN c.pairs
           w == DeltaOf(c)
<1>1. PICK g : IsSum(g, S, w) /\ ClusterSum(c) = g[S]
    BY DeltasAreSummed
<1>2. w \in [S -> Int] /\ \A x \in S : -1 <= w[x] /\ w[x] <= 1
    BY DEF DeltaOf, Delta, Count
<1>3. /\ Cardinality(S) \in Nat
      /\ (-1) * Cardinality(S) <= g[S] /\ g[S] <= 1 * Cardinality(S)
    <2> HIDE DEF S, w
    <2>1. -1 \in Int /\ 1 \in Int
        OBVIOUS
    <2> QED BY ONLY IsFiniteSet(S), <1>1, <1>2, <2>1, SumBounds DEF S
<1>4. g[S] \in Int
    <2> HIDE DEF S, w
    <2>1. IsFiniteSet(S)
        BY DEF S
    <2>2. \A s \in SUBSET S : g[s] \in Int
        BY ONLY <2>1, <1>1, <1>2, SumFacts
    <2> QED BY <2>2
<1> HIDE DEF S, w
<1>5. ClusterSize(c) = Cardinality(S)
    BY DEF ClusterSize, S
<1> QED BY <1>1, <1>3, <1>4, <1>5

\* Drawing one cluster all along sums one term as often as it is drawn.
Always(i, U) == [k \in U |-> i]

SumDrawn(clusters, drawn, D) ==
    MapThenSumSet(LAMBDA k : ClusterSum(clusters[drawn[k]]), D)
SizeDrawn(clusters, drawn, D) ==
    MapThenSumSet(LAMBDA k : ClusterSize(clusters[drawn[k]]), D)

LEMMA MeanOfDrawn ==
    ASSUME NEW mean, NEW clusters, NEW drawn
    PROVE  IsMean(mean, clusters, drawn) <=>
                mean * SizeDrawn(clusters, drawn, DOMAIN drawn)
                    = MeanScale * SumDrawn(clusters, drawn, DOMAIN drawn)
    BY Zenon DEF IsMean, SumDrawn, SizeDrawn

LEMMA OneSumAllAlong ==
    ASSUME NEW U, IsFiniteSet(U), NEW i \in U, NEW clusters,
           ClusterSum(clusters[i]) \in Int
    PROVE  SumDrawn(clusters, Always(i, U), U)
                = ClusterSum(clusters[i]) * Cardinality(U)
<1> DEFINE term == ClusterSum(clusters[i])
           drawn == Always(i, U)
           Body(f) ==
        [s \in SUBSET U |->
            IF s = {} THEN 0
            ELSE ClusterSum(clusters[drawn[CHOOSE x \in s : TRUE]])
                    + f[s \ {CHOOSE x \in s : TRUE}]]
           total == CHOOSE f : f = Body(f)
           w == [k \in U |-> term]
<1>1. SumDrawn(clusters, Always(i, U), U) = total[U]
    BY Zenon DEF SumDrawn, MapThenSumSet, MapThenFoldSet
<1>2. w \in [U -> Int]
    OBVIOUS
<1>3. PICK g : IsSum(g, U, w)
    BY <1>2, SumExists
<1>4. \A f : IsSum(f, U, w) <=> f = Body(f)
    <2> SUFFICES ASSUME NEW f PROVE IsSum(f, U, w) <=> f = Body(f)
        OBVIOUS
    <2> DEFINE sums == [s \in SUBSET U |->
                            IF s = {} THEN 0
                            ELSE w[CHOOSE x \in s : TRUE]
                                    + f[s \ {CHOOSE x \in s : TRUE}]]
    <2>1. \A s \in SUBSET U : s # {} => (CHOOSE x \in s : TRUE) \in U
        OBVIOUS
    <2>2. \A s \in SUBSET U : s # {} =>
            w[CHOOSE x \in s : TRUE]
                = ClusterSum(clusters[drawn[CHOOSE x \in s : TRUE]])
        BY <2>1 DEF Always
    <2> HIDE DEF w, drawn
    <2>3. sums = Body(f)
        BY <2>2
    <2> QED BY <2>3, Zenon DEF IsSum
<1>5. total = Body(total)
    <2>1. g = Body(g)
        BY <1>3, <1>4
    <2> HIDE DEF Body
    <2> QED BY <2>1, Zenon
<1>6. IsSum(total, U, w)
    BY <1>4, <1>5
<1> HIDE DEF total, Body, drawn
<1>7. \A x \in U : term <= w[x] /\ w[x] <= term
    OBVIOUS
<1>8. total[U] \in Int
    <2> HIDE DEF w, term
    <2>1. \A s \in SUBSET U : total[s] \in Int
        BY ONLY IsFiniteSet(U), <1>2, <1>6, SumFacts
    <2> QED BY <2>1
<1>9. /\ Cardinality(U) \in Nat
      /\ term * Cardinality(U) <= total[U] /\ total[U] <= term * Cardinality(U)
    <2> HIDE DEF w
    <2>1. term \in Int
        OBVIOUS
    <2> HIDE DEF term
    <2> QED BY ONLY IsFiniteSet(U), <1>2, <1>6, <1>7, <2>1, SumBounds
<1>10. total[U] = term * Cardinality(U)
    <2>1. term * Cardinality(U) \in Int
        BY <1>9
    <2> HIDE DEF term, w
    <2> QED BY <1>8, <1>9, <2>1
<1> QED BY <1>1, <1>10

LEMMA OneSizeAllAlong ==
    ASSUME NEW U, IsFiniteSet(U), NEW i \in U, NEW clusters,
           ClusterSize(clusters[i]) \in Int
    PROVE  SizeDrawn(clusters, Always(i, U), U)
                = ClusterSize(clusters[i]) * Cardinality(U)
<1> DEFINE term == ClusterSize(clusters[i])
           drawn == Always(i, U)
           Body(f) ==
        [s \in SUBSET U |->
            IF s = {} THEN 0
            ELSE ClusterSize(clusters[drawn[CHOOSE x \in s : TRUE]])
                    + f[s \ {CHOOSE x \in s : TRUE}]]
           total == CHOOSE f : f = Body(f)
           w == [k \in U |-> term]
<1>1. SizeDrawn(clusters, Always(i, U), U) = total[U]
    BY Zenon DEF SizeDrawn, MapThenSumSet, MapThenFoldSet
<1>2. w \in [U -> Int]
    OBVIOUS
<1>3. PICK g : IsSum(g, U, w)
    BY <1>2, SumExists
<1>4. \A f : IsSum(f, U, w) <=> f = Body(f)
    <2> SUFFICES ASSUME NEW f PROVE IsSum(f, U, w) <=> f = Body(f)
        OBVIOUS
    <2> DEFINE sums == [s \in SUBSET U |->
                            IF s = {} THEN 0
                            ELSE w[CHOOSE x \in s : TRUE]
                                    + f[s \ {CHOOSE x \in s : TRUE}]]
    <2>1. \A s \in SUBSET U : s # {} => (CHOOSE x \in s : TRUE) \in U
        OBVIOUS
    <2>2. \A s \in SUBSET U : s # {} =>
            w[CHOOSE x \in s : TRUE]
                = ClusterSize(clusters[drawn[CHOOSE x \in s : TRUE]])
        BY <2>1 DEF Always
    <2> HIDE DEF w, drawn
    <2>3. sums = Body(f)
        BY <2>2
    <2> QED BY <2>3, Zenon DEF IsSum
<1>5. total = Body(total)
    <2>1. g = Body(g)
        BY <1>3, <1>4
    <2> HIDE DEF Body
    <2> QED BY <2>1, Zenon
<1>6. IsSum(total, U, w)
    BY <1>4, <1>5
<1> HIDE DEF total, Body, drawn
<1>7. \A x \in U : term <= w[x] /\ w[x] <= term
    OBVIOUS
<1>8. total[U] \in Int
    <2> HIDE DEF w, term
    <2>1. \A s \in SUBSET U : total[s] \in Int
        BY ONLY IsFiniteSet(U), <1>2, <1>6, SumFacts
    <2> QED BY <2>1
<1>9. /\ Cardinality(U) \in Nat
      /\ term * Cardinality(U) <= total[U] /\ total[U] <= term * Cardinality(U)
    <2> HIDE DEF w
    <2>1. term \in Int
        OBVIOUS
    <2> HIDE DEF term
    <2> QED BY ONLY IsFiniteSet(U), <1>2, <1>6, <1>7, <2>1, SumBounds
<1>10. total[U] = term * Cardinality(U)
    <2>1. term * Cardinality(U) \in Int
        BY <1>9
    <2> HIDE DEF term, w
    <2> QED BY <1>8, <1>9, <2>1
<1> QED BY <1>1, <1>10

\* The mean of drawing one cluster all along, and that it is one.
LEMMA OneMeanAllAlong ==
    ASSUME BootstrapAssumption,
           NEW clusters, NEW U, U = Usable(clusters), IsFiniteSet(U), NEW i \in U,
           IsFiniteSet(DOMAIN clusters[i].pairs),
           NEW n \in Nat, MeanScale = n * ClusterSize(clusters[i])
    PROVE  n * ClusterSum(clusters[i]) \in ReachableMeans(clusters)
<1> DEFINE sum == ClusterSum(clusters[i])
           size == ClusterSize(clusters[i])
           m == Cardinality(U)
           drawn == Always(i, U)
<1>1. /\ size \in Nat /\ sum \in Int /\ -size <= sum /\ sum <= size
    BY DeltasAreBounded
<1>2. m \in Nat /\ MeanScale \in Nat
    BY FS_CardinalityType, BootstrapAssumption DEF BootstrapAssumption
<1>3. drawn \in [U -> U] /\ DOMAIN drawn = U
    BY DEF Always
<1>4. SumDrawn(clusters, Always(i, U), U) = sum * m
    BY <1>1, OneSumAllAlong
<1>5. SizeDrawn(clusters, Always(i, U), U) = size * m
    BY <1>1, OneSizeAllAlong
<1> HIDE DEF sum, size, m
<1>6. n * sum \in Int /\ -(n * size) <= n * sum /\ n * sum <= n * size
    <2>1. n * size - n * sum = n * (size - sum) /\ n * sum + n * size = n * (sum + size)
        BY <1>1
    <2>2. n * (size - sum) >= 0 /\ n * (sum + size) >= 0
        BY <1>1
    <2>3. n * size \in Int /\ n * sum \in Int
        BY <1>1
    <2> QED BY <2>1, <2>2, <2>3
<1>7. MeanScale = n * size
    BY DEF size
<1>8. n * sum \in Means
    BY <1>2, <1>6, <1>7 DEF Means
<1>9. (n * sum) * (size * m) = MeanScale * (sum * m)
    BY <1>1, <1>2, <1>7
<1>10. IsMean(n * sum, clusters, Always(i, U))
    <2>1. DOMAIN Always(i, U) = U
        BY DEF Always
    <2> QED BY <1>4, <1>5, <1>9, <2>1, MeanOfDrawn
<1>11. n * sum \in ReachableMeans(clusters)
    BY <1>3, <1>8, <1>10 DEF ReachableMeans
<1> QED BY <1>11 DEF sum

\* Clusters of different means give different statistics.
LEMMA DifferentClustersDiffer ==
    ASSUME BootstrapAssumption, NEW clusters, IsFiniteSet(Usable(clusters)),
           \A i \in Usable(clusters) :
                /\ IsFiniteSet(DOMAIN clusters[i].pairs)
                /\ \E n \in 1 .. MeanScale : MeanScale = n * ClusterSize(clusters[i]),
           ~EveryClusterHasTheSameMean(clusters)
    PROVE  Cardinality(ReachableMeans(clusters)) > 1
<1> DEFINE U == Usable(clusters)
           R == ReachableMeans(clusters)
<1>1. PICK i \in U, j \in U :
            ClusterSum(clusters[i]) * ClusterSize(clusters[j]) #
                ClusterSum(clusters[j]) * ClusterSize(clusters[i])
    BY DEF EveryClusterHasTheSameMean
<1> DEFINE si == ClusterSum(clusters[i])
           zi == ClusterSize(clusters[i])
           sj == ClusterSum(clusters[j])
           zj == ClusterSize(clusters[j])
<1>2. MeanScale \in Nat /\ MeanScale > 0
    BY BootstrapAssumption DEF BootstrapAssumption
<1>3. PICK a \in 1 .. MeanScale : MeanScale = a * zi
    OBVIOUS
<1>4. PICK b \in 1 .. MeanScale : MeanScale = b * zj
    OBVIOUS
<1>5. a \in Nat /\ b \in Nat
    BY <1>2
<1>6. a * si \in R
    BY <1>3, <1>5, OneMeanAllAlong
<1>7. b * sj \in R
    BY <1>4, <1>5, OneMeanAllAlong
<1>8. zi \in Nat /\ zj \in Nat /\ si \in Int /\ sj \in Int
    BY DeltasAreBounded
<1>9. a * si # b * sj
    <2> SUFFICES ASSUME a * si = b * sj PROVE FALSE
        OBVIOUS
    <2>1. si * zj # sj * zi
        BY <1>1
    <2> HIDE DEF si, zi, sj, zj
    <2>2. (a * si) * (zi * zj) = MeanScale * (si * zj)
        BY <1>2, <1>3, <1>5, <1>8
    <2>3. (b * sj) * (zi * zj) = MeanScale * (sj * zi)
        BY <1>2, <1>4, <1>5, <1>8
    <2>4. MeanScale * (si * zj) = MeanScale * (sj * zi)
        BY <2>2, <2>3
    <2>5. si * zj \in Int /\ sj * zi \in Int
        BY <1>8
    <2>6. \A x, y \in Int : MeanScale * x = MeanScale * y => x = y
        BY <1>2
    <2> QED BY <2>1, <2>4, <2>5, <2>6
<1>10. IsFiniteSet(R)
    <2>1. IsFiniteSet(Means)
        BY <1>2, FS_Interval DEF Means
    <2> QED BY <2>1, FS_Subset DEF ReachableMeans
<1> HIDE DEF R
<1>11. /\ IsFiniteSet({a * si, b * sj}) /\ Cardinality({a * si, b * sj}) = 2
    <2> HIDE DEF si, sj
    <2>1. IsFiniteSet({a * si}) /\ Cardinality({a * si}) = 1
        BY FS_Singleton
    <2>2. b * sj \notin {a * si} /\ {a * si} \cup {b * sj} = {a * si, b * sj}
        BY <1>9
    <2>3. /\ IsFiniteSet({a * si} \cup {b * sj})
          /\ Cardinality({a * si} \cup {b * sj}) = Cardinality({a * si}) + 1
        BY <2>1, <2>2, FS_AddElement
    <2> QED BY <2>1, <2>2, <2>3
<1>12. Cardinality({a * si, b * sj}) <= Cardinality(R) /\ Cardinality(R) \in Nat
    BY <1>6, <1>7, <1>10, FS_Subset, FS_CardinalityType
<1>13. Cardinality(R) > 1
    BY <1>11, <1>12
<1> QED BY <1>13 DEF R

-----------------------------------------------------------------------------
(* Clause 1 and the corpus it was bootstrapped from.                       *)

\* Every usable cluster of a comparison has pairs, finitely many, whose
\* number divides the scale.
LEMMA ClustersAreFixtures ==
    ASSUME TypeOK, NEW treatment, NEW baseline
    PROVE  /\ IsFiniteSet(Usable(Clusters(treatment, baseline)))
           /\ \A i \in Usable(Clusters(treatment, baseline)) :
                /\ IsFiniteSet(DOMAIN Clusters(treatment, baseline)[i].pairs)
                /\ \E n \in 1 .. MeanScale :
                    MeanScale = n * ClusterSize(Clusters(treatment, baseline)[i])
<1> DEFINE C == Clusters(treatment, baseline)
<1>1. PICK n \in Nat : paths \in [1 .. n -> Fixtures]
    BY DEF TypeOK
<1>2. loaded \in Nat /\ \A i \in 1 .. loaded : paths[i] \in Fixtures
    BY <1>1, LengthOfPaths DEF TypeOK
<1>3. Usable(C) \subseteq 1 .. loaded
    BY DEF Usable, Clusters
<1>4. IsFiniteSet(Usable(C))
    <2>1. IsFiniteSet(1 .. loaded)
        BY <1>2, FS_Interval
    <2> HIDE DEF C
    <2> QED BY <1>3, <2>1, FS_Subset
<1>5. ASSUME NEW i \in Usable(C)
      PROVE  DOMAIN C[i].pairs = DOMAIN paths[i].verdicts /\ DOMAIN C[i].pairs # {}
    BY <1>3 DEF Usable, Clusters, ClusterFromArms, VerdictsOf
<1> QED BY <1>2, <1>3, <1>4, <1>5, CorpusAssumption, ScaleAssumption
        DEF CorpusAssumption, ScaleAssumption, ClusterSize

\* The bootstrap of clause 1 says of the clusters of the whole corpus whether
\* they can tell one draw from another.
VarianceIsTheCorpus ==
    \A b \in clause1 :
        b.zero_between_cluster_variance <=> EveryClusterHasTheSameMean(Clause1Clusters)

VerdictInv == ProvenanceInv /\ VarianceIsTheCorpus

LEMMA VarianceStep ==
    ASSUME VerdictInv, [Next]_vars
    PROVE  VarianceIsTheCorpus'
<1>1. CASE BootstrapClause1
    <2>1. UNCHANGED <<paths, loaded>> /\ Bootstrap(Clause1Clusters, clause1')
        BY <1>1 DEF BootstrapClause1
    <2>2. Clause1Clusters' = Clause1Clusters
        BY <2>1 DEF Clause1Clusters, Clusters
    <2>3. ASSUME NEW b \in clause1'
          PROVE  b.zero_between_cluster_variance
                    = EveryClusterHasTheSameMean(Clause1Clusters)
        <3>1. PICK stats : clause1' = {BootstrapOf(Clause1Clusters, stats)}
            BY <2>1, <2>3 DEF Bootstrap
        <3>2. b = BootstrapOf(Clause1Clusters, stats)
            BY <2>3, <3>1
        <3> QED BY <3>2 DEF BootstrapOf
    <2>4. EveryClusterHasTheSameMean(Clause1Clusters')
            <=> EveryClusterHasTheSameMean(Clause1Clusters)
        BY <2>2
    <2> QED BY <2>3, <2>4 DEF VarianceIsTheCorpus
<1>2. CASE UNCHANGED <<paths, loaded, clause1>>
    <2>1. Clause1Clusters' = Clause1Clusters
        BY <1>2 DEF Clause1Clusters, Clusters
    <2> QED BY <1>2, <2>1 DEF VerdictInv, VarianceIsTheCorpus
<1>3. CASE LoadFixture
    <2>1. clause1 = {} /\ clause1' = {}
        BY <1>3 DEF LoadFixture, VerdictInv, ProvenanceInv, DecidedAtTheEnd
    <2> QED BY <2>1 DEF VarianceIsTheCorpus
<1> QED BY <1>1, <1>2, <1>3 DEF Next, vars, CheckCorpus, RefuseCorpus,
            RefuseFixture, BootstrapCheap, Publish, RefuseDeclaration, Refuse

\* A passed clause 1 rests on a bootstrap of clusters that differ.
LEMMA PassNeedsVariance ==
    ASSUME NEW bootstrap, Clause1(bootstrap) = "passes"
    PROVE  \E b \in bootstrap : ~b.zero_between_cluster_variance
<1> SUFFICES ASSUME ~ \E b \in bootstrap : ~b.zero_between_cluster_variance
             PROVE  Clause1(bootstrap) \in {"undefined", "fails"}
    OBVIOUS
<1>1. CASE bootstrap = {}
    BY <1>1 DEF Clause1
<1>2. CASE bootstrap # {}
    <2>1. \/ \E b \in bootstrap : DualRulePasses(b) /\ b.zero_between_cluster_variance
          \/ \E b \in bootstrap : ~DualRulePasses(b)
        BY <1>2
    <2>2. ~ \E b \in bootstrap : DualRulePasses(b) /\ ~b.zero_between_cluster_variance
        OBVIOUS
    <2> QED BY <1>2, <2>1, <2>2 DEF Clause1
<1> QED BY <1>1, <1>2

\* On every corpus, clause 1 is passed only where another draw could have
\* given another statistic: no pass is an artifact of the corpus's design
\* (PassIsNoArtifact).
THEOREM NoPassIsAnArtifact == Spec => []PassIsNoArtifact
<1>1. Init => VerdictInv
    BY ProvenanceInit DEF Init, VerdictInv, VarianceIsTheCorpus
<1>2. VerdictInv /\ [Next]_vars => VerdictInv'
    BY ProvenanceStep, VarianceStep DEF VerdictInv
<1>3. VerdictInv => PassIsNoArtifact
    <2> SUFFICES ASSUME VerdictInv, NEW d \in decision, d.clause1 = "passes"
                 PROVE  Cardinality(ReachableMeans(Clause1Clusters)) > 1
        BY DEF PassIsNoArtifact
    <2>1. d = ApplyKillKeep(clause1, {}, Reconciled)
        BY DEF VerdictInv, ProvenanceInv, DecidedAtTheEnd
    <2>2. Clause1(clause1) = "passes"
        BY <2>1 DEF ApplyKillKeep
    <2>3. PICK b \in clause1 : ~b.zero_between_cluster_variance
        BY <2>2, PassNeedsVariance
    <2>4. ~EveryClusterHasTheSameMean(Clause1Clusters)
        BY <2>3 DEF VerdictInv, VarianceIsTheCorpus
    <2>5. /\ IsFiniteSet(Usable(Clause1Clusters))
          /\ \A i \in Usable(Clause1Clusters) :
                /\ IsFiniteSet(DOMAIN Clause1Clusters[i].pairs)
                /\ \E n \in 1 .. MeanScale :
                    MeanScale = n * ClusterSize(Clause1Clusters[i])
        BY ClustersAreFixtures DEF VerdictInv, ProvenanceInv, Clause1Clusters
    <2> QED BY <2>4, <2>5, BootstrapAssumption, DifferentClustersDiffer
<1> QED BY <1>1, <1>2, <1>3, PTL DEF Spec

-----------------------------------------------------------------------------
(* The ledgers of the command line: what is written, and where.            *)

Resolutionses == {{}} \cup {{r} : r \in [resolved_at : Nat, outcome : Outcomes]}
ForecastRecords ==
    [id : Ids, horizon : Horizons, supersedes : SUBSET Ids, day : Days,
     emitted_at : Nat, resolution : Resolutionses]
OperatorRecords ==
    [event : {"surfaced", "acknowledged"}, signal : Signals, at : 0 .. MaxClock,
     ttl : Ttls \cup {{}}, day : Days]
ReliabilityRecords ==
    UNION {{Row(s, Tallies[s][i], day) : i \in DOMAIN Tallies[s], day \in Days} :
            s \in DOMAIN Tallies}
RecordsOf(l) ==
    IF l = "forecasts" THEN ForecastRecords
    ELSE IF l = "operator-model" THEN OperatorRecords
    ELSE ReliabilityRecords
ChunksOf(l) == {Newline, Torn} \cup {Line(r) : r \in RecordsOf(l)}

\* A process has nothing to write or records of one ledger.
WriterType(l) ==
    {x \in [ledger : {{l}}, queue : Seq(RecordsOf(l)), half : BOOLEAN] : x.queue # <<>>}
ProcessType == {Free} \cup UNION {WriterType(l) : l \in Ledgers}

CLTypeOK ==
    /\ clock \in 0 .. MaxClock
    /\ faults \in Nat
    /\ state = [l \in Ledgers |-> state[l]]
    /\ \A l \in Ledgers : state[l] \in [Days -> Seq(ChunksOf(l))]
    /\ process \in [Procs -> ProcessType]
    /\ overlapped \subseteq Ledgers /\ faulted \subseteq Ledgers

\* Later times are on no earlier day.
LEMMA QuotientsGrow ==
    ASSUME NEW x \in Nat, NEW y \in Nat, x <= y, NEW n \in Nat \ {0}
    PROVE  x \div n \in Nat /\ y \div n \in Nat /\ x \div n <= y \div n
<1> DEFINE a == x \div n
           b == y \div n
<1>1. /\ a \in Nat /\ a * n <= x
      /\ b \in Nat /\ y < (b + 1) * n
    OBVIOUS
<1>2. a <= b
    <2> HIDE DEF a, b
    <2> SUFFICES ASSUME b + 1 <= a PROVE FALSE
        BY <1>1
    <2>1. PICK d \in Nat : a = (b + 1) + d
        BY <1>1
    <2>2. a * n = (b + 1) * n + d * n /\ d * n >= 0
        BY <1>1, <2>1
    <2> QED BY <1>1, <2>1, <2>2
<1> QED BY <1>1, <1>2

\* The clock's day is one of the model's.
LEMMA TodayIsADay ==
    ASSUME clock \in 0 .. MaxClock
    PROVE  Today \in Days /\ Days \subseteq Nat /\ clock \in Nat
<1>1. MaxClock \in Nat /\ DayLength \in Nat \ {0} /\ clock \in Nat /\ clock <= MaxClock
    BY CommandLineAssumption
<1> QED BY <1>1, QuotientsGrow DEF Today, Days

LEMMA RecordsHaveDays ==
    ASSUME NEW l \in Ledgers, NEW r \in RecordsOf(l)
    PROVE  r.day \in Days
<1>1. CASE l = "forecasts"
    BY <1>1 DEF RecordsOf, ForecastRecords
<1>2. CASE l = "operator-model"
    BY <1>2 DEF RecordsOf, OperatorRecords
<1>3. CASE l = "source-reliability"
    <2>1. PICK s \in DOMAIN Tallies :
            r \in {Row(s, Tallies[s][i], day) : i \in DOMAIN Tallies[s], day \in Days}
        BY <1>3 DEF RecordsOf, ReliabilityRecords, Ledgers
    <2>2. \E i \in DOMAIN Tallies[s] : \E day \in Days : r = Row(s, Tallies[s][i], day)
        BY <2>1
    <2> QED BY <2>2 DEF Row
<1> QED BY <1>1, <1>2, <1>3 DEF Ledgers

LEMMA WriterIs ==
    ASSUME CLTypeOK, NEW p \in Procs, NEW l \in Ledgers, Writing(p, l)
    PROVE  process[p] \in WriterType(l)
<1>1. process[p] \in ProcessType
    BY DEF CLTypeOK
<1>2. process[p] # Free
    BY DEF Writing, Free
<1>3. PICK k \in Ledgers : process[p] \in WriterType(k)
    BY <1>1, <1>2 DEF ProcessType
<1>4. k = l
    BY <1>3 DEF WriterType, Writing
<1> QED BY <1>3, <1>4

LEMMA BusyIsWriting ==
    ASSUME CLTypeOK, NEW p \in Procs, Busy(p)
    PROVE  \E l \in Ledgers : Writing(p, l) /\ process[p] \in WriterType(l)
<1>1. process[p] \in ProcessType
    BY DEF CLTypeOK
<1>2. process[p] # Free
    BY DEF Busy, Free
<1>3. PICK l \in Ledgers : process[p] \in WriterType(l)
    BY <1>1, <1>2 DEF ProcessType
<1> QED BY <1>3 DEF WriterType, Writing

LEMMA HalfIsBusy ==
    ASSUME CLTypeOK, NEW p \in Procs, process[p].half
    PROVE  Busy(p)
<1>1. process[p] \in ProcessType
    BY DEF CLTypeOK
<1>2. process[p] # Free
    BY DEF Free
<1>3. PICK l \in Ledgers : process[p] \in WriterType(l)
    BY <1>1, <1>2 DEF ProcessType
<1> QED BY <1>3 DEF WriterType, Busy

-----------------------------------------------------------------------------
(* The order of the places of a ledger's records.                          *)

\* A place precedes another or is preceded by it, never both, nor itself.
LEMMA PrecedesIsAnOrder ==
    ASSUME NEW X \in SUBSET (Nat \X Nat)
    PROVE  /\ \A x \in X : ~Precedes(x, x)
           /\ \A x \in X, y \in X, z \in X :
                Precedes(x, y) /\ Precedes(y, z) => Precedes(x, z)
           /\ \A x \in X, y \in X : x # y => Precedes(x, y) \/ Precedes(y, x)
<1>1. \A x \in X : x[1] \in Nat /\ x[2] \in Nat /\ x = <<x[1], x[2]>>
    OBVIOUS
<1> QED BY <1>1 DEF Precedes

\* Of places that are finitely many, one comes last.
LEMMA LatestIsLast ==
    ASSUME NEW X \in SUBSET (Nat \X Nat), IsFiniteSet(X), X # {}
    PROVE  Latest(X) \in X /\ \A y \in X \ {Latest(X)} : Precedes(y, Latest(X))
<1>1. \A x \in X : x[1] \in Nat /\ x[2] \in Nat /\ x = <<x[1], x[2]>>
    OBVIOUS
<1> DEFINE dayOf == [x \in X |-> x[1]]
           days == {dayOf[x] : x \in X}
           last == Max(days)
           onLast == {x \in X : x[1] = last}
           lineOf == [x \in X |-> x[2]]
           lines == {lineOf[x] : x \in onLast}
<1>2. IsFiniteSet(days)
    <2> HIDE DEF dayOf
    <2> QED BY ImageIsFinite
<1>3. last \in days /\ \A d \in days : d <= last
    <2>1. days \in SUBSET Nat /\ days # {}
        BY <1>1
    <2> HIDE DEF days
    <2> QED BY <1>2, <2>1, GreatestOfFinite
<1>4. PICK z \in X : z[1] = last
    BY <1>3
<1>5. IsFiniteSet(onLast) /\ onLast \subseteq X
    BY FS_Subset
<1>6. IsFiniteSet(lines)
    <2> HIDE DEF onLast, lineOf
    <2> QED BY <1>5, ImageIsFinite
<1>7. Max(lines) \in lines /\ \A i \in lines : i <= Max(lines)
    <2>1. lines \in SUBSET Nat /\ lines # {}
        BY <1>1, <1>4
    <2> HIDE DEF lines
    <2> QED BY <1>6, <2>1, GreatestOfFinite
<1>8. PICK m \in X : m[1] = last /\ m[2] = Max(lines)
    BY <1>7
<1>9. \A y \in X \ {m} : Precedes(y, m)
    <2> SUFFICES ASSUME NEW y \in X, y # m PROVE Precedes(y, m)
        OBVIOUS
    <2>1. y[1] <= last
        BY <1>3
    <2>2. CASE y[1] = last
        <3>1. y[2] \in lines
            BY <2>2
        <3>2. y[2] <= m[2]
            BY <1>7, <1>8, <3>1
        <3> QED BY <1>1, <1>8, <2>2, <3>2 DEF Precedes
    <2> QED BY <1>1, <1>8, <2>1, <2>2 DEF Precedes
<1> QED BY <1>9 DEF Latest

\* The last of some places, whichever way it is known.
LEMMA LatestIs ==
    ASSUME NEW X \in SUBSET (Nat \X Nat), NEW m \in X,
           \A y \in X \ {m} : Precedes(y, m)
    PROVE  Latest(X) = m
<1>1. Latest(X) \in X /\ \A y \in X \ {Latest(X)} : Precedes(y, Latest(X))
    BY DEF Latest
<1> DEFINE n == Latest(X)
<1>2. n \in X /\ (n # m => Precedes(n, m) /\ Precedes(m, n))
    BY <1>1
<1>3. n[1] \in Nat /\ n[2] \in Nat /\ m[1] \in Nat /\ m[2] \in Nat
    BY <1>2
<1> HIDE DEF n
<1>4. n = m
    BY <1>2, <1>3 DEF Precedes
<1> QED BY <1>4 DEF n

\* Listed in order, places are all there, each once.
LEMMA InOrderLists ==
    ASSUME NEW X \in SUBSET (Nat \X Nat), IsFiniteSet(X)
    PROVE  /\ Cardinality(X) \in Nat
           /\ \A i \in 1 .. Cardinality(X) : InOrder(X)[i] \in X
           /\ \A i \in 1 .. Cardinality(X), j \in 1 .. Cardinality(X) :
                InOrder(X)[i] = InOrder(X)[j] => i = j
           /\ \A x \in X : \E i \in 1 .. Cardinality(X) : InOrder(X)[i] = x
<1> DEFINE before(x) == {y \in X : Precedes(y, x)}
           n == Cardinality(X)
           rank == [x \in X |-> Cardinality(before(x)) + 1]
<1>1. n \in Nat
    BY FS_CardinalityType
<1>2. \A x \in X : IsFiniteSet(before(x)) /\ Cardinality(before(x)) \in Nat
    BY FS_Subset, FS_CardinalityType
<1>3. \A x \in X : x \notin before(x)
    BY PrecedesIsAnOrder
<1>4. \A x \in X : rank[x] \in 1 .. n
    <2> SUFFICES ASSUME NEW x \in X PROVE rank[x] \in 1 .. n
        OBVIOUS
    <2> DEFINE b == before(x)
    <2>1. b \cup {x} \in SUBSET X /\ x \notin b
        BY <1>3
    <2>2. IsFiniteSet(b) /\ Cardinality(b) \in Nat /\ rank[x] = Cardinality(b) + 1
        BY <1>2
    <2> HIDE DEF b, rank
    <2>3. Cardinality(b \cup {x}) = Cardinality(b) + 1 /\ IsFiniteSet(b \cup {x})
        BY <2>1, <2>2, FS_AddElement
    <2>4. Cardinality(b \cup {x}) <= n
        BY ONLY <2>1, IsFiniteSet(X), FS_Subset
    <2> QED BY <1>1, <2>2, <2>3, <2>4
<1>5. \A x \in X, y \in X : Precedes(x, y) => rank[x] < rank[y]
    <2> SUFFICES ASSUME NEW x \in X, NEW y \in X, Precedes(x, y)
                 PROVE  rank[x] < rank[y]
        OBVIOUS
    <2> DEFINE b == before(x)
               c == before(y)
    <2>1. b \cup {x} \in SUBSET c /\ x \notin b
        BY <1>3, PrecedesIsAnOrder
    <2>2. IsFiniteSet(b) /\ Cardinality(b) \in Nat /\ rank[x] = Cardinality(b) + 1
          /\ IsFiniteSet(c) /\ Cardinality(c) \in Nat /\ rank[y] = Cardinality(c) + 1
        BY <1>2
    <2> HIDE DEF b, c, rank
    <2>3. Cardinality(b \cup {x}) = Cardinality(b) + 1 /\ IsFiniteSet(b \cup {x})
        BY <2>1, <2>2, FS_AddElement
    <2>4. Cardinality(b \cup {x}) <= Cardinality(c)
        BY ONLY <2>1, <2>2, FS_Subset
    <2> QED BY <2>2, <2>3, <2>4
<1>6. \A x \in X, y \in X : rank[x] = rank[y] => x = y
    <2> SUFFICES ASSUME NEW x \in X, NEW y \in X, rank[x] = rank[y], x # y
                 PROVE  FALSE
        OBVIOUS
    <2>1. Precedes(x, y) \/ Precedes(y, x)
        BY PrecedesIsAnOrder
    <2>2. rank[x] \in Nat /\ rank[y] \in Nat
        BY <1>4, <1>1
    <2> HIDE DEF rank
    <2> QED BY <1>5, <2>1, <2>2
<1>7. \A i \in 1 .. n : \E x \in X : rank[x] = i
    <2>1. rank \in Injection(X, 1 .. n)
        <3> HIDE DEF before, n
        <3>1. rank \in [X -> 1 .. n]
            BY <1>4
        <3> HIDE DEF rank
        <3> QED BY <3>1, <1>6 DEF Injection, IsInjective
    <2>2. IsFiniteSet(1 .. n) /\ Cardinality(1 .. n) = n
        BY <1>1, FS_Interval
    <2> HIDE DEF rank
    <2>3. rank \in Surjection(X, 1 .. n)
        BY <2>1, <2>2, FS_Injection
    <2> QED BY <2>3 DEF Surjection
<1>8. \A i \in 1 .. n, x \in X : InOrder(X)[i] = x <=> rank[x] = i
    <2> SUFFICES ASSUME NEW i \in 1 .. n, NEW x \in X
                 PROVE  InOrder(X)[i] = x <=> rank[x] = i
        OBVIOUS
    <2>1. InOrder(X)[i] = CHOOSE z \in X : Cardinality(before(z)) = i - 1
        BY DEF InOrder
    <2>2. \A z \in X : Cardinality(before(z)) = i - 1 <=> rank[z] = i
        BY <1>2, <1>1
    <2> HIDE DEF before, rank
    <2>3. PICK z \in X : rank[z] = i
        BY <1>7
    <2>4. Cardinality(before(z)) = i - 1
        BY <2>2, <2>3
    <2>5. InOrder(X)[i] \in X /\ Cardinality(before(InOrder(X)[i])) = i - 1
        BY <2>1, <2>4
    <2>6. rank[InOrder(X)[i]] = i
        BY <2>2, <2>5
    <2> QED BY <1>6, <2>5, <2>6
<1>9. \A i \in 1 .. n : InOrder(X)[i] \in X
    <2> HIDE DEF rank
    <2> QED BY <1>7, <1>8
<1> HIDE DEF rank, before
<1> QED BY <1>1, <1>4, <1>8, <1>9

\* A ledger holds finitely many records, each at a place of its own.
LEMMA EntriesAreFinite ==
    ASSUME NEW C, NEW dir \in [Days -> Seq(C)]
    PROVE  IsFiniteSet(Entries(dir)) /\ Entries(dir) \in SUBSET (Nat \X Nat)
<1>0. Days \subseteq Nat /\ IsFiniteSet(Days)
    <2>1. MaxClock \div DayLength \in Nat
        BY CommandLineAssumption
    <2> QED BY <2>1, FS_Interval DEF Days
<1> DEFINE places == [day \in Days |-> {<<day, i>> : i \in Readable(dir[day])}]
<1>1. Entries(dir) = UNION {places[day] : day \in Days}
    BY DEF Entries
<1>2. \A day \in Days : IsFiniteSet(places[day]) /\ places[day] \in SUBSET (Nat \X Nat)
    <2> SUFFICES ASSUME NEW day \in Days
                 PROVE  IsFiniteSet(places[day]) /\ places[day] \in SUBSET (Nat \X Nat)
        OBVIOUS
    <2> DEFINE R == Readable(dir[day])
               place == [i \in R |-> <<day, i>>]
    <2>1. R \in SUBSET (1 .. Len(dir[day])) /\ Len(dir[day]) \in Nat
        BY DEF Readable
    <2>2. IsFiniteSet(R)
        <3> DEFINE whole == 1 .. Len(dir[day])
        <3>1. IsFiniteSet(whole)
            BY <2>1, FS_Interval
        <3> HIDE DEF R, whole
        <3> QED BY <2>1, <3>1, FS_Subset DEF whole
    <2>3. places[day] = {place[i] : i \in R}
        OBVIOUS
    <2>4. \A i \in R : place[i] \in Nat \X Nat
        BY <1>0, <2>1
    <2> HIDE DEF place, R, places
    <2>5. IsFiniteSet({place[i] : i \in R})
        BY <2>2, ImageIsFinite
    <2> QED BY <2>3, <2>4, <2>5
<1> HIDE DEF places
<1>3. IsFiniteSet({places[day] : day \in Days})
    BY <1>0, ImageIsFinite
<1>4. IsFiniteSet(UNION {places[day] : day \in Days})
    BY <1>2, <1>3, FS_UNION
<1> QED BY <1>1, <1>2, <1>4

\* The records of a ledger that is well typed are.
LEMMA EntryIs ==
    ASSUME NEW l \in Ledgers, NEW dir \in [Days -> Seq(ChunksOf(l))],
           NEW x \in Entries(dir)
    PROVE  /\ x[1] \in Days /\ x[2] \in Readable(dir[x[1]]) /\ x = <<x[1], x[2]>>
           /\ RecordAt(dir, x) \in RecordsOf(l)
           /\ dir[x[1]][x[2]] = Line(RecordAt(dir, x))
<1>1. x[1] \in Days /\ x[2] \in Readable(dir[x[1]]) /\ x = <<x[1], x[2]>>
    BY DEF Entries
<1> DEFINE chunk == dir[x[1]][x[2]]
<1>2. chunk \in ChunksOf(l) /\ chunk.kind = "line"
    BY <1>1 DEF Readable
<1>3. PICK r \in RecordsOf(l) : chunk = Line(r)
    BY <1>2 DEF ChunksOf, Newline, Torn
<1>4. RecordAt(dir, x) = r
    <2>1. RecordAt(dir, x) = CHOOSE s \in chunk.record : TRUE
        BY DEF RecordAt
    <2> HIDE DEF chunk
    <2> QED BY <1>3, <2>1 DEF Line
<1> QED BY <1>1, <1>3, <1>4

\* The forecast that is loaded is the last version of it.
LEMMA LoadedIs ==
    ASSUME NEW dir \in [Days -> Seq(ChunksOf("forecasts"))], NEW id \in Recorded(dir)
    PROVE  LET x == Latest(Versions(dir, id))
           IN  /\ x \in Entries(dir) /\ RecordAt(dir, x) = Loaded(dir, id)
               /\ Loaded(dir, id) \in ForecastRecords /\ Loaded(dir, id).id = id
               /\ \A y \in Versions(dir, id) \ {x} : Precedes(y, x)
<1> DEFINE V == Versions(dir, id)
           x == Latest(V)
<1>0. "forecasts" \in Ledgers
    BY DEF Ledgers
<1>1. IsFiniteSet(Entries(dir)) /\ Entries(dir) \in SUBSET (Nat \X Nat)
    BY EntriesAreFinite
<1>2. V \in SUBSET Entries(dir) /\ V # {}
    BY DEF Versions, Recorded
<1>3. IsFiniteSet(V) /\ V \in SUBSET (Nat \X Nat)
    <2> HIDE DEF V
    <2> QED BY <1>1, <1>2, FS_Subset
<1>4. x \in V /\ \A y \in V \ {x} : Precedes(y, x)
    <2> HIDE DEF V
    <2> QED BY <1>2, <1>3, LatestIsLast
<1>5. x \in Entries(dir) /\ RecordAt(dir, x).id = id
    BY <1>4 DEF Versions
<1>6. RecordAt(dir, x) = Loaded(dir, id)
    BY DEF Loaded
<1>7. RecordAt(dir, x) \in ForecastRecords
    <2> HIDE DEF x
    <2>1. RecordAt(dir, x) \in RecordsOf("forecasts")
        BY <1>0, <1>5, EntryIs
    <2> QED BY <2>1 DEF RecordsOf
<1> QED BY <1>4, <1>5, <1>6, <1>7

\* What resolving appends: a resolution of each overdue forecast, once.
LEMMA ResolutionsAre ==
    ASSUME NEW dir \in [Days -> Seq(ChunksOf("forecasts"))],
           NEW outcome \in Outcomes, NEW now \in Nat
    PROVE  LET rs == Resolutions(dir, outcome, now)
           IN  /\ rs \in Seq(ForecastRecords)
               /\ \A i \in DOMAIN rs :
                    /\ rs[i].id \in Overdue(dir, now)
                    /\ rs[i] = Resolved(Loaded(dir, rs[i].id), outcome, now)
               /\ \A i \in DOMAIN rs, j \in DOMAIN rs : rs[i].id = rs[j].id => i = j
               /\ \A id \in Overdue(dir, now) : \E i \in DOMAIN rs : rs[i].id = id
<1> DEFINE due == {Latest(Versions(dir, id)) : id \in Overdue(dir, now)}
           n == Cardinality(due)
           place == InOrder(due)
           rs == Resolutions(dir, outcome, now)
<1>1. Overdue(dir, now) \subseteq Recorded(dir)
    BY DEF Overdue
<1>2. due \in SUBSET Entries(dir)
    BY <1>1, LoadedIs
<1>3. IsFiniteSet(due) /\ due \in SUBSET (Nat \X Nat)
    <2>1. IsFiniteSet(Entries(dir)) /\ Entries(dir) \in SUBSET (Nat \X Nat)
        BY EntriesAreFinite
    <2> HIDE DEF due
    <2> QED BY <1>2, <2>1, FS_Subset
<1>4. /\ n \in Nat
      /\ \A i \in 1 .. n : place[i] \in due
      /\ \A i \in 1 .. n, j \in 1 .. n : place[i] = place[j] => i = j
      /\ \A x \in due : \E i \in 1 .. n : place[i] = x
    <2> HIDE DEF due
    <2> QED BY <1>3, InOrderLists
<1>5. rs = [i \in 1 .. n |-> Resolved(RecordAt(dir, place[i]), outcome, now)]
    BY DEF Resolutions
<1>6. \A i \in 1 .. n : \E id \in Overdue(dir, now) :
        place[i] = Latest(Versions(dir, id))
    BY <1>4
<1> HIDE DEF rs, place, n, due
<1>7. \A i \in 1 .. n :
        /\ rs[i].id \in Overdue(dir, now)
        /\ place[i] = Latest(Versions(dir, rs[i].id))
        /\ rs[i] = Resolved(Loaded(dir, rs[i].id), outcome, now)
        /\ rs[i] \in ForecastRecords
    <2> SUFFICES ASSUME NEW i \in 1 .. n
                 PROVE  /\ rs[i].id \in Overdue(dir, now)
                        /\ place[i] = Latest(Versions(dir, rs[i].id))
                        /\ rs[i] = Resolved(Loaded(dir, rs[i].id), outcome, now)
                        /\ rs[i] \in ForecastRecords
        OBVIOUS
    <2>1. PICK id \in Overdue(dir, now) : place[i] = Latest(Versions(dir, id))
        BY <1>6
    <2> DEFINE r == Loaded(dir, id)
    <2>2. RecordAt(dir, place[i]) = r /\ r \in ForecastRecords /\ r.id = id
        BY <1>1, <2>1, LoadedIs
    <2> HIDE DEF r
    <2>3. rs[i] = Resolved(r, outcome, now)
        BY <1>5, <2>2
    <2>4. [resolved_at |-> now, outcome |-> outcome]
            \in [resolved_at : Nat, outcome : Outcomes]
        OBVIOUS
    <2>5. Resolved(r, outcome, now) \in ForecastRecords
          /\ Resolved(r, outcome, now).id = id
        <3> DEFINE resolution == {[resolved_at |-> now, outcome |-> outcome]}
        <3>1. resolution \in Resolutionses
            BY <2>4 DEF Resolutionses
        <3> HIDE DEF resolution
        <3>2. [r EXCEPT !.resolution = resolution] \in ForecastRecords
              /\ [r EXCEPT !.resolution = resolution].id = id
            BY <2>2, <3>1 DEF ForecastRecords
        <3> QED BY <3>2 DEF Resolved, resolution
    <2> QED BY <2>1, <2>3, <2>5 DEF r
<1>8. DOMAIN rs = 1 .. n /\ rs \in Seq(ForecastRecords)
    BY <1>4, <1>5, <1>7
<1>9. \A i \in 1 .. n, j \in 1 .. n : rs[i].id = rs[j].id => i = j
    BY <1>4, <1>7
<1>10. ASSUME NEW id \in Overdue(dir, now)
       PROVE  \E i \in 1 .. n : rs[i].id = id
    <2> DEFINE x == Latest(Versions(dir, id))
    <2>1. x \in due
        BY DEF due
    <2>2. PICK i \in 1 .. n : place[i] = x
        BY <1>4, <2>1
    <2> DEFINE other == rs[i].id
    <2>3. /\ other \in Overdue(dir, now)
          /\ Latest(Versions(dir, other)) = Latest(Versions(dir, id))
        BY <1>7, <2>2
    <2> HIDE DEF other
    <2>4. other = Loaded(dir, other).id /\ id = Loaded(dir, id).id
        BY <1>1, <2>3, LoadedIs
    <2>5. Loaded(dir, other) = Loaded(dir, id)
        BY <2>3 DEF Loaded
    <2> QED BY <2>4, <2>5 DEF other
<1> QED BY <1>7, <1>8, <1>9, <1>10 DEF rs

-----------------------------------------------------------------------------
(* The steps of the commands, each with all that it does.                  *)

Emits(records) ==
    \E id \in Ids, horizon \in Horizons, supersedes \in SUBSET Ids :
        id \notin Drawn /\ records = <<Emitted(id, horizon, supersedes, clock, Today)>>
Resolves(records) ==
    \E outcome \in Outcomes : records = Resolutions(Forecasts, outcome, clock)
Notes(records) ==
    \E r \in OperatorRecords : records = <<r>> /\ r.day = Today

\* The file of a day grows by what one write puts into it.
Appends(l, day, chunk) ==
    /\ state'[l] = [state[l] EXCEPT ![day] = Append(state[l][day], chunk)]
    /\ \A k \in Ledgers \ {l} : state'[k] = state[k]
    /\ state' = [k \in Ledgers |-> state'[k]]
Becomes(p, writer) ==
    /\ process'[p] = writer
    /\ \A q \in Procs \ {p} : process'[q] = process[q]
    /\ process' = [q \in Procs |-> process'[q]]

Record(p) == Head(process[p].queue)
Rest(p, l) ==
    IF Len(process[p].queue) = 1 THEN Free
    ELSE [ledger |-> {l}, queue |-> Tail(process[p].queue), half |-> FALSE]

Starts(p, l, records) ==
    /\ records \in Seq(RecordsOf(l)) /\ records # <<>>
    /\ l = "forecasts" => Emits(records) \/ Resolves(records)
    /\ l = "operator-model" => Notes(records)
    /\ ~Busy(p)
    /\ Becomes(p, [ledger |-> {l}, queue |-> records, half |-> FALSE])
    /\ overlapped' = overlapped \cup {k \in {l} : \E q \in Procs : Writing(q, l)}
    /\ UNCHANGED <<state, clock, faults, faulted>>
PutsLine(p, l) ==
    /\ ~process[p].half
    /\ Appends(l, Record(p).day, Line(Record(p)))
    /\ Becomes(p, [ledger |-> {l}, queue |-> process[p].queue, half |-> TRUE])
    /\ UNCHANGED <<clock, faults, overlapped, faulted>>
PutsNewline(p, l) ==
    /\ process[p].half
    /\ Appends(l, Record(p).day, Newline)
    /\ Becomes(p, Rest(p, l))
    /\ UNCHANGED <<clock, faults, overlapped, faulted>>
Dies(p, l) ==
    /\ Becomes(p, Free)
    /\ faults' = faults + 1
    /\ faulted' = faulted \cup {l}
    /\ UNCHANGED <<state, clock, overlapped>>
PutsPart(p, l) ==
    /\ ~process[p].half
    /\ Appends(l, Record(p).day, Torn)
    /\ Becomes(p, Free)
    /\ faults' = faults + 1
    /\ faulted' = faulted \cup {l}
    /\ UNCHANGED <<clock, overlapped>>

\* A process that writes has at least one more record to write.
Writer(p, l) ==
    /\ Writing(p, l)
    /\ process[p] \in WriterType(l)
    /\ process[p].queue \in Seq(RecordsOf(l)) /\ process[p].queue # <<>>
    /\ process[p].half \in BOOLEAN
    /\ Record(p) \in RecordsOf(l) /\ Record(p).day \in Days

Writes(p, l) ==
    Writer(p, l) /\ (PutsLine(p, l) \/ PutsNewline(p, l) \/ Dies(p, l) \/ PutsPart(p, l))

CLStep ==
    \/ Tick
    \/ \E p \in Procs, l \in Ledgers :
        (\E records : Starts(p, l, records)) \/ Writes(p, l)

LEMMA WriterHolds ==
    ASSUME CLTypeOK, NEW p \in Procs, NEW l \in Ledgers, Writing(p, l)
    PROVE  Writer(p, l)
<1>1. process[p] \in WriterType(l)
    BY WriterIs
<1> DEFINE q == process[p].queue
<1>2. q \in Seq(RecordsOf(l)) /\ q # <<>> /\ process[p].half \in BOOLEAN
    BY <1>1 DEF WriterType
<1>3. Head(q) \in RecordsOf(l)
    <2> HIDE DEF q
    <2> QED BY <1>2
<1>4. Head(q).day \in Days
    BY <1>3, RecordsHaveDays
<1> QED BY <1>1, <1>2, <1>3, <1>4 DEF Writer, Record

LEMMA PutAppendsOne ==
    ASSUME CLTypeOK, NEW p \in Procs, NEW l \in Ledgers, Writing(p, l),
           NEW chunk, Put(p, chunk)
    PROVE  Appends(l, Record(p).day, chunk)
<1>1. (CHOOSE k \in Ledgers : Writing(p, k)) = l
    BY DEF Writing
<1> DEFINE day == Record(p).day
           file == [state[l] EXCEPT ![day] = Append(state[l][day], chunk)]
<1>2. state' = [state EXCEPT ![l][day] = Append(@, chunk)]
    BY <1>1 DEF Put, Record
<1> HIDE DEF day
<1>3. state = [k \in Ledgers |-> state[k]]
    BY DEF CLTypeOK
<1>4. state' = [state EXCEPT ![l] = file]
    BY <1>2
<1> HIDE DEF file
<1>5. /\ state'[l] = file
      /\ \A k \in Ledgers : k # l => state'[k] = state[k]
      /\ state' = [k \in Ledgers |-> state'[k]]
    BY ONLY <1>3, <1>4, l \in Ledgers
<1> QED BY <1>5 DEF Appends, file, day

\* What a step of a process makes of the process.
LEMMA OneBecomes ==
    ASSUME process \in [Procs -> ProcessType], NEW p \in Procs, NEW writer,
           process' = [process EXCEPT ![p] = writer]
    PROVE  Becomes(p, writer)
BY DEF Becomes

\* What is started, command by command.
LEMMA StartsAre ==
    ASSUME CLTypeOK, NEW p \in Procs, NEW l \in Ledgers, NEW records,
           Start(p, l, records), records \in Seq(RecordsOf(l)),
           l = "forecasts" => Emits(records) \/ Resolves(records),
           l = "operator-model" => Notes(records)
    PROVE  Starts(p, l, records)
<1>1. Becomes(p, [ledger |-> {l}, queue |-> records, half |-> FALSE])
    BY OneBecomes DEF Start, CLTypeOK
<1> QED BY <1>1 DEF Start, Starts

LEMMA OneRecordIsASequence ==
    ASSUME NEW S, NEW r \in S
    PROVE  <<r>> \in Seq(S)
OBVIOUS

LEMMA CommandsStart ==
    ASSUME CLTypeOK, NEW p \in Procs,
           \/ \E id \in Ids, horizon \in Horizons,
                 supersedes \in {{}} \cup {{i} : i \in Ids} :
                    EmitForecast(p, id, horizon, supersedes)
           \/ \E outcome \in Outcomes : ResolveForecasts(p, outcome)
           \/ \E signal \in Signals :
                Ack(p, signal) \/ \E ttl \in Ttls : Surface(p, signal, ttl)
           \/ \E session \in DOMAIN Tallies : EmitOutcomes(p, session)
    PROVE  \E l \in Ledgers : \E records : Starts(p, l, records)
<1>0. Today \in Days /\ clock \in Nat /\ clock \in 0 .. MaxClock
    BY TodayIsADay DEF CLTypeOK
<1>1. ASSUME NEW id \in Ids, NEW horizon \in Horizons,
             NEW supersedes \in {{}} \cup {{i} : i \in Ids},
             EmitForecast(p, id, horizon, supersedes)
      PROVE  \E records : Starts(p, "forecasts", records)
    <2> DEFINE r == Emitted(id, horizon, supersedes, clock, Today)
    <2>1. supersedes \in SUBSET Ids
        OBVIOUS
    <2>2. r \in ForecastRecords
        BY <1>0, <2>1 DEF Emitted, ForecastRecords, Resolutionses
    <2>3. Start(p, "forecasts", <<r>>) /\ id \notin Drawn
        BY <1>1 DEF EmitForecast
    <2>4. Emits(<<r>>)
        BY <2>1, <2>3 DEF Emits
    <2> HIDE DEF r
    <2>5. <<r>> \in Seq(RecordsOf("forecasts"))
        BY <2>2 DEF RecordsOf
    <2> QED BY <2>3, <2>4, <2>5, StartsAre DEF Ledgers
<1>2. ASSUME NEW outcome \in Outcomes, ResolveForecasts(p, outcome)
      PROVE  \E records : Starts(p, "forecasts", records)
    <2> DEFINE rs == Resolutions(Forecasts, outcome, clock)
    <2>1. Forecasts \in [Days -> Seq(ChunksOf("forecasts"))]
        BY DEF CLTypeOK, Forecasts, Ledgers
    <2>2. rs \in Seq(ForecastRecords)
        BY <1>0, <2>1, ResolutionsAre
    <2>3. Start(p, "forecasts", rs) /\ Resolves(rs)
        BY <1>2 DEF ResolveForecasts, Resolves
    <2> HIDE DEF rs
    <2>4. rs \in Seq(RecordsOf("forecasts"))
        BY <2>2 DEF RecordsOf
    <2> QED BY <2>3, <2>4, StartsAre DEF Ledgers
<1>3. ASSUME NEW signal \in Signals, Ack(p, signal)
      PROVE  \E records : Starts(p, "operator-model", records)
    <2> DEFINE r == Acknowledged(signal, clock, Today)
    <2>1. r \in OperatorRecords /\ r.day = Today
        BY <1>0 DEF Acknowledged, OperatorRecords
    <2>2. Start(p, "operator-model", <<r>>)
        BY <1>3 DEF Ack
    <2> HIDE DEF r
    <2>3. <<r>> \in Seq(RecordsOf("operator-model"))
        BY <2>1 DEF RecordsOf
    <2>4. Notes(<<r>>)
        BY <2>1 DEF Notes
    <2> QED BY <2>2, <2>3, <2>4, StartsAre DEF Ledgers
<1>4. ASSUME NEW signal \in Signals, NEW ttl \in Ttls, Surface(p, signal, ttl)
      PROVE  \E records : Starts(p, "operator-model", records)
    <2> DEFINE r == Surfaced(signal, clock, ttl, Today)
    <2>1. r \in OperatorRecords /\ r.day = Today
        BY <1>0 DEF Surfaced, OperatorRecords
    <2>2. Start(p, "operator-model", <<r>>)
        BY <1>4 DEF Surface
    <2> HIDE DEF r
    <2>3. <<r>> \in Seq(RecordsOf("operator-model"))
        BY <2>1 DEF RecordsOf
    <2>4. Notes(<<r>>)
        BY <2>1 DEF Notes
    <2> QED BY <2>2, <2>3, <2>4, StartsAre DEF Ledgers
<1>5. ASSUME NEW session \in DOMAIN Tallies, EmitOutcomes(p, session)
      PROVE  \E records : Starts(p, "source-reliability", records)
    <2> DEFINE rows == [i \in DOMAIN Tallies[session] |->
                            Row(session, Tallies[session][i], Today)]
    <2>1. DOMAIN Tallies[session] = 1 .. Len(Tallies[session])
          /\ Len(Tallies[session]) \in Nat
        BY CommandLineAssumption
    <2>2. \A i \in DOMAIN Tallies[session] :
            Row(session, Tallies[session][i], Today) \in ReliabilityRecords
        BY <1>0 DEF ReliabilityRecords
    <2>3. rows \in Seq(ReliabilityRecords)
        BY <2>1, <2>2
    <2>4. Start(p, "source-reliability", rows)
        BY <1>5 DEF EmitOutcomes
    <2> HIDE DEF rows
    <2>5. rows \in Seq(RecordsOf("source-reliability"))
        BY <2>3 DEF RecordsOf
    <2> QED BY <2>4, <2>5, StartsAre DEF Ledgers
<1> QED BY <1>1, <1>2, <1>3, <1>4, <1>5 DEF Ledgers

LEMMA WriterChanges ==
    ASSUME NEW l, NEW w \in WriterType(l)
    PROVE  [w EXCEPT !.half = TRUE] = [ledger |-> {l}, queue |-> w.queue, half |-> TRUE]
<1> DEFINE S == Seq(RecordsOf(l))
<1>1. w \in [ledger : {{l}}, queue : S, half : BOOLEAN]
    BY DEF WriterType
<1> HIDE DEF S
<1> DEFINE u == [w EXCEPT !.half = TRUE]
<1>2. u \in [ledger : {{l}}, queue : S, half : BOOLEAN]
      /\ u.ledger = {l} /\ u.queue = w.queue /\ u.half = TRUE
    BY <1>1
<1> HIDE DEF u
<1>3. u = [ledger |-> u.ledger, queue |-> u.queue, half |-> u.half]
    BY <1>2
<1> QED BY ONLY <1>2, <1>3 DEF u

LEMMA WriteRecordPuts ==
    ASSUME CLTypeOK, NEW p \in Procs, WriteRecord(p)
    PROVE  \E l \in Ledgers : Writes(p, l)
<1>1. PICK l \in Ledgers : Writing(p, l)
    BY BusyIsWriting DEF WriteRecord
<1>2. Writer(p, l)
    BY <1>1, WriterHolds
<1>3. Appends(l, Record(p).day, Line(Record(p)))
    BY <1>1, PutAppendsOne DEF WriteRecord, Record
<1>4. [process[p] EXCEPT !.half = TRUE]
        = [ledger |-> {l}, queue |-> process[p].queue, half |-> TRUE]
    BY <1>2, WriterChanges DEF Writer
<1>5. process' = [process EXCEPT ![p] = [process[p] EXCEPT !.half = TRUE]]
    BY DEF WriteRecord
<1>6. Becomes(p, [ledger |-> {l}, queue |-> process[p].queue, half |-> TRUE])
    BY <1>4, <1>5, OneBecomes DEF CLTypeOK
<1> QED BY <1>2, <1>3, <1>6 DEF Writes, PutsLine, WriteRecord

LEMMA EndRecordPuts ==
    ASSUME CLTypeOK, NEW p \in Procs, EndRecord(p)
    PROVE  \E l \in Ledgers : Writes(p, l)
<1>1. PICK l \in Ledgers : Writing(p, l)
    BY BusyIsWriting, HalfIsBusy DEF EndRecord
<1>2. Writer(p, l)
    BY <1>1, WriterHolds
<1>3. Appends(l, Record(p).day, Newline)
    BY <1>1, PutAppendsOne DEF EndRecord
<1> DEFINE next == IF Len(process[p].queue) = 1 THEN Free
                   ELSE [ledger |-> process[p].ledger,
                         queue |-> Tail(process[p].queue), half |-> FALSE]
<1>4. next = Rest(p, l)
    BY <1>1 DEF Writing, Rest
<1>5. process' = [process EXCEPT ![p] = next]
    BY DEF EndRecord, Proceed
<1> HIDE DEF next
<1>6. Becomes(p, Rest(p, l))
    BY <1>4, <1>5, OneBecomes DEF CLTypeOK
<1> QED BY <1>2, <1>3, <1>6 DEF Writes, PutsNewline, EndRecord

LEMMA FaultsPut ==
    ASSUME CLTypeOK, NEW p \in Procs, Abort(p) \/ Tear(p)
    PROVE  \E l \in Ledgers : Writes(p, l)
<1>0. Fails(p)
    BY DEF Abort, Tear
<1>1. PICK l \in Ledgers : Writing(p, l)
    BY <1>0, BusyIsWriting DEF Fails
<1>2. Writer(p, l)
    BY <1>1, WriterHolds
<1>3. Becomes(p, Free) /\ faults' = faults + 1 /\ faulted' = faulted \cup {l}
      /\ UNCHANGED <<clock, overlapped>>
    BY <1>0, <1>1, OneBecomes DEF CLTypeOK, Fails, Writing
<1>4. CASE Abort(p)
    BY <1>2, <1>3, <1>4 DEF Writes, Dies, Abort
<1>5. CASE Tear(p)
    <2>1. Appends(l, Record(p).day, Torn) /\ ~process[p].half
        BY <1>1, <1>5, PutAppendsOne DEF Tear
    <2> QED BY <1>2, <1>3, <2>1 DEF Writes, PutsPart
<1> QED BY <1>4, <1>5

LEMMA StepIs == CLTypeOK /\ CLNext => CLStep
<1> SUFFICES ASSUME CLTypeOK, CLNext, ~Tick PROVE CLStep
    BY DEF CLStep
<1>1. PICK p \in Procs :
        \/ \/ \E id \in Ids, horizon \in Horizons,
                 supersedes \in {{}} \cup {{i} : i \in Ids} :
                    EmitForecast(p, id, horizon, supersedes)
           \/ \E outcome \in Outcomes : ResolveForecasts(p, outcome)
           \/ \E signal \in Signals :
                Ack(p, signal) \/ \E ttl \in Ttls : Surface(p, signal, ttl)
           \/ \E session \in DOMAIN Tallies : EmitOutcomes(p, session)
        \/ WriteRecord(p) \/ EndRecord(p) \/ Abort(p) \/ Tear(p)
    BY Zenon DEF CLNext
<1>2. \E l \in Ledgers : (\E records : Starts(p, l, records)) \/ Writes(p, l)
    BY ONLY CLTypeOK, <1>1, CommandsStart, WriteRecordPuts, EndRecordPuts, FaultsPut
<1> QED BY <1>2 DEF CLStep

-----------------------------------------------------------------------------
(* Type correctness.                                                       *)

LEMMA AppendsTypes ==
    ASSUME CLTypeOK, NEW l \in Ledgers, NEW day \in Days, NEW chunk \in ChunksOf(l),
           Appends(l, day, chunk)
    PROVE  /\ state' = [k \in Ledgers |-> state'[k]]
           /\ \A k \in Ledgers : state'[k] \in [Days -> Seq(ChunksOf(k))]
<1>1. state[l] \in [Days -> Seq(ChunksOf(l))]
    BY DEF CLTypeOK
<1>2. state'[l] \in [Days -> Seq(ChunksOf(l))]
    BY <1>1 DEF Appends
<1>3. \A k \in Ledgers \ {l} : state'[k] \in [Days -> Seq(ChunksOf(k))]
    BY DEF Appends, CLTypeOK
<1> QED BY <1>2, <1>3 DEF Appends

LEMMA BecomesTypes ==
    ASSUME process \in [Procs -> ProcessType], NEW p \in Procs,
           NEW writer \in ProcessType, Becomes(p, writer)
    PROVE  process' \in [Procs -> ProcessType]
<1>1. \A q \in Procs : process'[q] \in ProcessType
    BY DEF Becomes
<1> QED BY <1>1 DEF Becomes

LEMMA WritersHaveType ==
    ASSUME NEW l \in Ledgers, NEW queue \in Seq(RecordsOf(l)), queue # <<>>,
           NEW half \in BOOLEAN
    PROVE  [ledger |-> {l}, queue |-> queue, half |-> half] \in ProcessType
<1> DEFINE w == [ledger |-> {l}, queue |-> queue, half |-> half]
<1>1. w \in WriterType(l)
    BY DEF WriterType
<1> HIDE DEF w
<1>2. w \in ProcessType
    BY <1>1 DEF ProcessType
<1> QED BY <1>2 DEF w

LEMMA RestHasType ==
    ASSUME NEW p \in Procs, NEW l \in Ledgers, Writer(p, l)
    PROVE  Rest(p, l) \in ProcessType
<1> DEFINE q == process[p].queue
<1>1. q \in Seq(RecordsOf(l)) /\ q # <<>>
    BY DEF Writer
<1>2. CASE Len(q) = 1
    BY <1>2 DEF Rest, ProcessType
<1>3. CASE Len(q) # 1
    <2> HIDE DEF q
    <2>1. Tail(q) \in Seq(RecordsOf(l)) /\ Tail(q) # <<>>
        <3>1. Len(q) \in Nat /\ Len(q) # 0 /\ Tail(q) \in Seq(RecordsOf(l))
            BY <1>1
        <3>2. Len(Tail(q)) = Len(q) - 1
            BY <1>1
        <3>3. Len(Tail(q)) # 0
            BY <1>3, <3>1, <3>2
        <3>4. Tail(q) # <<>>
            <4>1. Len(<<>>) = 0
                OBVIOUS
            <4> QED BY ONLY <3>3, <4>1, Zenon
        <3> QED BY <3>1, <3>4
    <2>2. [ledger |-> {l}, queue |-> Tail(q), half |-> FALSE] \in ProcessType
        BY <2>1, WritersHaveType
    <2> QED BY <1>3, <2>2 DEF Rest, q
<1> QED BY <1>2, <1>3

LEMMA CLTypeOKInit == CLInit => CLTypeOK
<1> SUFFICES ASSUME CLInit PROVE CLTypeOK
    OBVIOUS
<1>1. clock \in 0 .. MaxClock
    BY CommandLineAssumption DEF CLInit
<1>2. \A l \in Ledgers : state[l] \in [Days -> Seq(ChunksOf(l))]
    BY DEF CLInit
<1>3. process \in [Procs -> ProcessType]
    BY DEF CLInit, ProcessType
<1> QED BY <1>1, <1>2, <1>3 DEF CLInit, CLTypeOK

LEMMA CLTypeOKStep == CLTypeOK /\ [CLNext]_clvars => CLTypeOK'
<1> SUFFICES ASSUME CLTypeOK, [CLNext]_clvars PROVE CLTypeOK'
    OBVIOUS
<1>1. CASE UNCHANGED clvars
    BY <1>1 DEF CLTypeOK, clvars
<1>2. CASE Tick
    BY <1>2, CommandLineAssumption DEF CLTypeOK, Tick
<1>3. ASSUME NEW p \in Procs, NEW l \in Ledgers, NEW records, Starts(p, l, records)
      PROVE  CLTypeOK'
    <2>1. process' \in [Procs -> ProcessType]
        BY <1>3, WritersHaveType, BecomesTypes DEF Starts, CLTypeOK
    <2>2. overlapped' \subseteq Ledgers
        BY <1>3 DEF Starts, CLTypeOK
    <2> QED BY <1>3, <2>1, <2>2 DEF Starts, CLTypeOK
<1>4. ASSUME NEW p \in Procs, NEW l \in Ledgers, Writes(p, l)
      PROVE  CLTypeOK'
    <2>0. Writer(p, l) /\ process \in [Procs -> ProcessType]
        BY <1>4 DEF Writes, CLTypeOK
    <2>1. CASE PutsLine(p, l)
        <3>1. process' \in [Procs -> ProcessType]
            BY <2>0, <2>1, WritersHaveType, BecomesTypes DEF PutsLine, Writer
        <3>2. Line(Record(p)) \in ChunksOf(l)
            BY <2>0 DEF Writer, ChunksOf
        <3>3. /\ state' = [k \in Ledgers |-> state'[k]]
              /\ \A k \in Ledgers : state'[k] \in [Days -> Seq(ChunksOf(k))]
            BY <2>0, <2>1, <3>2, AppendsTypes DEF PutsLine, Writer
        <3> QED BY <2>1, <3>1, <3>3 DEF PutsLine, CLTypeOK
    <2>2. CASE PutsNewline(p, l)
        <3>1. process' \in [Procs -> ProcessType]
            BY <2>0, <2>2, RestHasType, BecomesTypes DEF PutsNewline
        <3>2. Newline \in ChunksOf(l)
            BY DEF ChunksOf
        <3>3. /\ state' = [k \in Ledgers |-> state'[k]]
              /\ \A k \in Ledgers : state'[k] \in [Days -> Seq(ChunksOf(k))]
            BY <2>0, <2>2, <3>2, AppendsTypes DEF PutsNewline, Writer
        <3> QED BY <2>2, <3>1, <3>3 DEF PutsNewline, CLTypeOK
    <2>3. CASE Dies(p, l)
        <3>1. process' \in [Procs -> ProcessType]
            BY <2>0, <2>3, BecomesTypes DEF Dies, ProcessType
        <3> QED BY <2>3, <3>1 DEF Dies, CLTypeOK
    <2>4. CASE PutsPart(p, l)
        <3>1. process' \in [Procs -> ProcessType]
            BY <2>0, <2>4, BecomesTypes DEF PutsPart, ProcessType
        <3>2. Torn \in ChunksOf(l)
            BY DEF ChunksOf
        <3>3. /\ state' = [k \in Ledgers |-> state'[k]]
              /\ \A k \in Ledgers : state'[k] \in [Days -> Seq(ChunksOf(k))]
            BY <2>0, <2>4, <3>2, AppendsTypes DEF PutsPart, Writer
        <3> QED BY <2>4, <3>1, <3>3 DEF PutsPart, CLTypeOK
    <2> QED BY <1>4, <2>1, <2>2, <2>3, <2>4 DEF Writes
<1> QED BY <1>1, <1>2, <1>3, <1>4, StepIs DEF CLStep

\* Whatever the commands do, side by side or cut short, each day's file holds
\* records of its ledger, newlines and parts of records, and a process knows
\* whole records it has still to write.
THEOREM LedgersHaveType == CLSpec => []CLTypeOK
<1>1. CLInit => CLTypeOK
    BY CLTypeOKInit
<1>2. CLTypeOK /\ [CLNext]_clvars => CLTypeOK'
    BY CLTypeOKStep
<1> QED BY <1>1, <1>2, PTL DEF CLSpec

-----------------------------------------------------------------------------
(* Resolutions stick.                                                      *)

\* A line of a file, whether or not it can be read, and the record on it.
Holds(dir, day, i, r) ==
    /\ day \in Days /\ i \in 1 .. Len(dir[day])
    /\ r \in ForecastRecords /\ dir[day][i] = Line(r)
HasLine(dir, day, id) == \E i \in Nat, r \in ForecastRecords : Holds(dir, day, i, r) /\ r.id = id

\* What is written of one forecast stands in one file, and all of it but what
\* comes first has an outcome.
OneFileEach(dir) ==
    \A d \in Days, e \in Days, i \in Nat, j \in Nat :
        \A r \in ForecastRecords, s \in ForecastRecords :
            Holds(dir, d, i, r) /\ Holds(dir, e, j, s) /\ r.id = s.id =>
                d = e /\ (i < j => ~Pending(s))
DaysAreFiles(dir) ==
    \A d \in Days, i \in Nat, r \in ForecastRecords : Holds(dir, d, i, r) => r.day = d

\* A process that is to write a forecast is the only one to know it, and one
\* that is to write an outcome knows where the forecast stands.
QueueFits(p) ==
    \A i \in 1 .. Len(process[p].queue) :
        LET r == process[p].queue[i]
        IN  /\ ~Pending(r) => HasLine(Forecasts, r.day, r.id)
            /\ Pending(r) => /\ Len(process[p].queue) = 1
                             /\ process[p].half \/ \A d \in Days : ~HasLine(Forecasts, d, r.id)
OneEmitter ==
    \A p \in Procs, q \in Procs :
        /\ p # q /\ Writing(p, "forecasts") /\ Writing(q, "forecasts")
        /\ Pending(Record(p)) /\ Pending(Record(q))
        => Record(p).id # Record(q).id

ForecastInv ==
    /\ OneFileEach(Forecasts)
    /\ DaysAreFiles(Forecasts)
    /\ \A p \in Procs : Writing(p, "forecasts") => QueueFits(p)
    /\ OneEmitter

LEMMA ForecastsHaveType ==
    ASSUME CLTypeOK
    PROVE  /\ Forecasts \in [Days -> Seq(ChunksOf("forecasts"))]
           /\ "forecasts" \in Ledgers
           /\ RecordsOf("forecasts") = ForecastRecords
           /\ \A d \in Days : Forecasts[d] \in Seq(ChunksOf("forecasts"))
BY DEF CLTypeOK, Ledgers, Forecasts, RecordsOf

\* A file has after a write the lines it had, and the one that was written.
IsForecasts(dir) == dir \in [Days -> Seq(ChunksOf("forecasts"))]
Grows(dir, day, chunk, grown) == grown = [dir EXCEPT ![day] = Append(dir[day], chunk)]
LEMMA LinesGrow ==
    ASSUME NEW dir, IsForecasts(dir), NEW day \in Days,
           NEW chunk \in ChunksOf("forecasts"), NEW grown, Grows(dir, day, chunk, grown)
    PROVE  \A d \in Days, i \in Nat, r \in ForecastRecords :
                Holds(grown, d, i, r) <=>
                    \/ Holds(dir, d, i, r)
                    \/ d = day /\ i = Len(dir[day]) + 1 /\ chunk = Line(r)
<1> SUFFICES ASSUME NEW d \in Days, NEW i \in Nat, NEW r \in ForecastRecords
             PROVE  Holds(grown, d, i, r) <=>
                        \/ Holds(dir, d, i, r)
                        \/ d = day /\ i = Len(dir[day]) + 1 /\ chunk = Line(r)
    OBVIOUS
<1>0. dir \in [Days -> Seq(ChunksOf("forecasts"))]
      /\ grown = [dir EXCEPT ![day] = Append(dir[day], chunk)]
    BY DEF IsForecasts, Grows
<1> DEFINE f == dir[day]
           C == ChunksOf("forecasts")
<1>1. f \in Seq(C) /\ Len(f) \in Nat /\ chunk \in C
    BY <1>0
<1>2. CASE d # day
    <2>1. grown[d] = dir[d]
        BY <1>0, <1>2
    <2> QED BY <1>2, <2>1 DEF Holds
<1>3. CASE d = day
    <2>1. grown[d] = Append(f, chunk)
        BY <1>0, <1>3
    <2> HIDE DEF f, C
    <2>2. /\ Len(Append(f, chunk)) = Len(f) + 1
          /\ Append(f, chunk)[Len(f) + 1] = chunk
          /\ \A k \in 1 .. Len(f) : Append(f, chunk)[k] = f[k]
        BY <1>1
    <2>3. i \in 1 .. Len(f) + 1 <=> i \in 1 .. Len(f) \/ i = Len(f) + 1
        BY <1>1
    <2>4. i = Len(f) + 1 => i \notin 1 .. Len(f)
        BY <1>1
    <2>5. dir[d] = f
        BY <1>3 DEF f
    <2>6. Holds(grown, d, i, r) <=> i \in 1 .. Len(f) + 1 /\ Append(f, chunk)[i] = Line(r)
        BY <2>1, <2>2 DEF Holds
    <2>7. Holds(dir, d, i, r) <=> i \in 1 .. Len(f) /\ f[i] = Line(r)
        BY <2>5 DEF Holds
    <2>8. CASE i \in 1 .. Len(f)
        BY <2>2, <2>3, <2>4, <2>6, <2>7, <2>8 DEF f
    <2>9. CASE i = Len(f) + 1
        BY <1>3, <2>2, <2>3, <2>4, <2>6, <2>7, <2>9 DEF f
    <2> QED BY <2>3, <2>6, <2>7, <2>8, <2>9 DEF f
<1> QED BY <1>2, <1>3

LEMMA LinesAreRecords ==
    ASSUME NEW r, NEW s
    PROVE  /\ Line(r) = Line(s) => r = s
           /\ Line(r) # Newline /\ Line(r) # Torn
<1>1. Line(r) = Line(s) => {r} = {s}
    BY DEF Line
<1>2. Line(r).kind = "line" /\ Newline.kind = "newline" /\ Torn.kind = "torn"
    BY DEF Line, Newline, Torn
<1> QED BY <1>1, <1>2

\* A record that loads stands on a line, and so does all that was written.
LEMMA EntryHolds ==
    ASSUME CLTypeOK, NEW x \in Entries(Forecasts)
    PROVE  /\ x[1] \in Days /\ x[2] \in Nat /\ x = <<x[1], x[2]>>
           /\ RecordAt(Forecasts, x) \in ForecastRecords
           /\ Holds(Forecasts, x[1], x[2], RecordAt(Forecasts, x))
<1>1. /\ x[1] \in Days /\ x[2] \in Readable(Forecasts[x[1]]) /\ x = <<x[1], x[2]>>
      /\ RecordAt(Forecasts, x) \in ForecastRecords
      /\ Forecasts[x[1]][x[2]] = Line(RecordAt(Forecasts, x))
    BY ForecastsHaveType, EntryIs
<1>2. x[2] \in 1 .. Len(Forecasts[x[1]])
    BY <1>1, ForecastsHaveType DEF Readable
<1> QED BY <1>1, <1>2 DEF Holds

LEMMA HeldIsWritten ==
    ASSUME CLTypeOK, NEW d \in Days, NEW i \in Nat, NEW r \in ForecastRecords,
           Holds(Forecasts, d, i, r)
    PROVE  r \in Written(Forecasts)
<1>1. r \in Forecasts[d][i].record
    BY DEF Holds, Line
<1>2. i \in DOMAIN Forecasts[d] /\ d \in DOMAIN Forecasts
    BY ForecastsHaveType DEF Holds
<1> QED BY <1>1, <1>2 DEF Written

\* The invariant keeps resolutions.
LEMMA ForecastInvKeepsResolutions ==
    ASSUME CLTypeOK, OneFileEach(Forecasts)
    PROVE  ResolutionSticks
<1> SUFFICES ASSUME NEW x \in Ended(Forecasts), ~Pending(RecordAt(Forecasts, x))
             PROVE  ~Pending(Loaded(Forecasts, RecordAt(Forecasts, x).id))
    BY DEF ResolutionSticks
<1> DEFINE r == RecordAt(Forecasts, x)
           y == Latest(Versions(Forecasts, r.id))
           s == RecordAt(Forecasts, y)
<1>1. x \in Entries(Forecasts)
    BY DEF Ended
<1>2. x \in Versions(Forecasts, r.id) /\ r.id \in Recorded(Forecasts)
    BY <1>1 DEF Versions, Recorded
<1>3. /\ y \in Entries(Forecasts) /\ s = Loaded(Forecasts, r.id) /\ s.id = r.id
      /\ x # y => Precedes(x, y)
    <2>1. Forecasts \in [Days -> Seq(ChunksOf("forecasts"))]
        BY ForecastsHaveType
    <2> HIDE DEF r
    <2> QED BY <1>2, <2>1, LoadedIs
<1>4. /\ x[1] \in Days /\ x[2] \in Nat
      /\ r \in ForecastRecords /\ Holds(Forecasts, x[1], x[2], r)
    BY <1>1, EntryHolds
<1>5. /\ y[1] \in Days /\ y[2] \in Nat
      /\ s \in ForecastRecords /\ Holds(Forecasts, y[1], y[2], s)
    <2> HIDE DEF y
    <2> QED BY <1>3, EntryHolds
<1> HIDE DEF y, s, r
<1>6. x[1] = y[1] /\ (x[2] < y[2] => ~Pending(s))
    BY <1>3, <1>4, <1>5 DEF OneFileEach
<1>7. CASE x # y
    <2>0. Days \subseteq Nat
        BY TodayIsADay DEF CLTypeOK
    <2>1. x[2] < y[2]
        <3>1. Precedes(x, y)
            BY <1>3, <1>7
        <3>2. x[1] = y[1] /\ x[1] \in Nat
            BY <1>4, <1>6, <2>0
        <3> QED BY ONLY <3>1, <3>2 DEF Precedes
    <2> QED BY <1>3, <1>6, <2>1 DEF r
<1>8. CASE x = y
    BY <1>3, <1>8 DEF r, s
<1> QED BY <1>7, <1>8

\* As long as no line is added, the invariant asks of a process only that it
\* goes on, or has outcomes to write for forecasts that stand in their files.
SameLines ==
    \A d \in Days, i \in Nat, r \in ForecastRecords :
        Holds(Forecasts', d, i, r) <=> Holds(Forecasts, d, i, r)
GoesOn(q) == Writing(q, "forecasts") /\ process'[q] = process[q]
WritesOutcomes(q) ==
    /\ ~Pending(Head(process'[q].queue))
    /\ \A i \in 1 .. Len(process'[q].queue) :
        LET r == process'[q].queue[i]
        IN  ~Pending(r) /\ HasLine(Forecasts, r.day, r.id)

LEMMA SameLinesKeep ==
    ASSUME ForecastInv, SameLines,
           \A q \in Procs : process'[q].ledger = {"forecasts"} => GoesOn(q) \/ WritesOutcomes(q)
    PROVE  ForecastInv'
<1>1. \A d \in Days : \A id : HasLine(Forecasts', d, id) <=> HasLine(Forecasts, d, id)
    BY Zenon DEF SameLines, HasLine
<1>2. OneFileEach(Forecasts')
    <2> SUFFICES ASSUME NEW d \in Days, NEW e \in Days, NEW i \in Nat, NEW j \in Nat,
                        NEW r \in ForecastRecords, NEW s \in ForecastRecords,
                        Holds(Forecasts', d, i, r), Holds(Forecasts', e, j, s), r.id = s.id
                 PROVE  d = e /\ (i < j => ~Pending(s))
        BY Zenon DEF OneFileEach
    <2>1. Holds(Forecasts, d, i, r) /\ Holds(Forecasts, e, j, s)
        BY DEF SameLines
    <2> QED BY <2>1 DEF ForecastInv, OneFileEach
<1>3. DaysAreFiles(Forecasts')
    BY DEF ForecastInv, DaysAreFiles, SameLines
<1>4. ASSUME NEW q \in Procs, process'[q].ledger = {"forecasts"}
      PROVE  QueueFits(q)'
    <2> SUFFICES ASSUME NEW i \in 1 .. Len(process'[q].queue)
                 PROVE  LET r == process'[q].queue[i]
                        IN  /\ ~Pending(r) => HasLine(Forecasts', r.day, r.id)
                            /\ Pending(r) =>
                                 /\ Len(process'[q].queue) = 1
                                 /\ process'[q].half
                                      \/ \A d \in Days : ~HasLine(Forecasts', d, r.id)
        BY DEF QueueFits
    <2> DEFINE r == process'[q].queue[i]
    <2>0. HasLine(Forecasts, r.day, r.id) => HasLine(Forecasts', r.day, r.id)
        <3> HIDE DEF r
        <3> SUFFICES ASSUME HasLine(Forecasts, r.day, r.id)
                     PROVE  HasLine(Forecasts', r.day, r.id)
            OBVIOUS
        <3>1. r.day \in Days
            BY DEF HasLine, Holds
        <3> QED BY <1>1, <3>1
    <2>1. CASE GoesOn(q)
        <3>1. QueueFits(q) /\ process'[q] = process[q]
            BY <2>1 DEF ForecastInv, GoesOn
        <3>2. /\ ~Pending(r) => HasLine(Forecasts, r.day, r.id)
              /\ Pending(r) => /\ Len(process'[q].queue) = 1
                               /\ process'[q].half
                                    \/ \A d \in Days : ~HasLine(Forecasts, d, r.id)
            BY ONLY <3>1, i \in 1 .. Len(process'[q].queue) DEF QueueFits
        <3> QED BY <1>1, <2>0, <3>2
    <2>2. CASE WritesOutcomes(q)
        <3>1. ~Pending(r) /\ HasLine(Forecasts, r.day, r.id)
            BY <2>2 DEF WritesOutcomes
        <3> QED BY <2>0, <3>1
    <2> QED BY <1>4, <2>1, <2>2
<1>5. OneEmitter'
    <2> SUFFICES ASSUME NEW p \in Procs, NEW q \in Procs, p # q,
                        process'[p].ledger = {"forecasts"}, process'[q].ledger = {"forecasts"},
                        Pending(Head(process'[p].queue)), Pending(Head(process'[q].queue))
                 PROVE  Head(process'[p].queue).id # Head(process'[q].queue).id
        BY DEF OneEmitter, Writing, Record
    <2>1. GoesOn(p) /\ GoesOn(q)
        BY DEF WritesOutcomes
    <2> QED BY <2>1 DEF ForecastInv, OneEmitter, GoesOn, Record
<1>6. \A q \in Procs : Writing(q, "forecasts")' => QueueFits(q)'
    BY <1>4 DEF Writing
<1> QED BY <1>2, <1>3, <1>5, <1>6 DEF ForecastInv

LEMMA ForecastInvInit == CLInit => ForecastInv
<1> SUFFICES ASSUME CLInit PROVE ForecastInv
    OBVIOUS
<1>1. \A d \in Days : Len(Forecasts[d]) = 0
    BY DEF CLInit, Forecasts, Ledgers
<1>2. \A d \in Days, i \in Nat, r \in ForecastRecords : ~Holds(Forecasts, d, i, r)
    BY <1>1 DEF Holds
<1>3. \A p \in Procs : \A l : ~Writing(p, l)
    BY DEF CLInit, Writing, Free
<1> QED BY <1>2, <1>3 DEF ForecastInv, OneFileEach, DaysAreFiles, OneEmitter

\* A command starts: an emission is of a new forecast, resolutions are of
\* forecasts on record.
LEMMA ForecastInvStart ==
    ASSUME CLTypeOK, ForecastInv, NEW p \in Procs, NEW l \in Ledgers, NEW records,
           Starts(p, l, records)
    PROVE  ForecastInv'
<1>0. /\ process'[p] = [ledger |-> {l}, queue |-> records, half |-> FALSE]
      /\ \A q \in Procs \ {p} : process'[q] = process[q]
      /\ Forecasts' = Forecasts
    BY DEF Starts, Becomes, Forecasts
<1>1. SameLines
    BY <1>0 DEF SameLines
<1>2. \A q \in Procs \ {p} : process'[q].ledger = {"forecasts"} => GoesOn(q)
    BY <1>0 DEF GoesOn, Writing
<1>3. CASE l # "forecasts"
    <2>1. process'[p].ledger # {"forecasts"}
        BY <1>0, <1>3
    <2> QED BY <1>1, <1>2, <2>1, SameLinesKeep
<1>4. CASE l = "forecasts" /\ Resolves(records)
    <2>1. PICK outcome \in Outcomes : records = Resolutions(Forecasts, outcome, clock)
        BY <1>4 DEF Resolves
    <2>2. clock \in Nat
        BY TodayIsADay DEF CLTypeOK
    <2>3. /\ records \in Seq(ForecastRecords)
          /\ \A i \in DOMAIN records :
                /\ records[i].id \in Overdue(Forecasts, clock)
                /\ records[i] = Resolved(Loaded(Forecasts, records[i].id), outcome, clock)
        BY <2>1, <2>2, ResolutionsAre, ForecastsHaveType
    <2>4. \A i \in 1 .. Len(records) :
            ~Pending(records[i]) /\ HasLine(Forecasts, records[i].day, records[i].id)
        <3> SUFFICES ASSUME NEW i \in 1 .. Len(records)
                     PROVE  ~Pending(records[i])
                            /\ HasLine(Forecasts, records[i].day, records[i].id)
            OBVIOUS
        <3> DEFINE id == records[i].id
                   x == Latest(Versions(Forecasts, id))
                   r == Loaded(Forecasts, id)
        <3>1. id \in Overdue(Forecasts, clock) /\ records[i] = Resolved(r, outcome, clock)
            BY <2>3
        <3>2. id \in Recorded(Forecasts)
            BY <3>1 DEF Overdue
        <3>3. x \in Entries(Forecasts) /\ RecordAt(Forecasts, x) = r
              /\ r \in ForecastRecords /\ r.id = id
            <4> HIDE DEF id
            <4> QED BY <3>2, LoadedIs, ForecastsHaveType
        <3>4. x[1] \in Days /\ x[2] \in Nat /\ Holds(Forecasts, x[1], x[2], r)
            BY <3>3, EntryHolds
        <3> HIDE DEF x, r, id
        <3>5. r.day = x[1]
            BY <3>3, <3>4 DEF ForecastInv, DaysAreFiles
        <3>6. records[i].day = r.day /\ records[i].id = r.id
              /\ records[i].resolution = {[resolved_at |-> clock, outcome |-> outcome]}
            BY <3>1, <3>3 DEF Resolved, ForecastRecords
        <3>7. HasLine(Forecasts, r.day, r.id)
            BY <3>3, <3>4, <3>5 DEF HasLine
        <3> QED BY <3>6, <3>7 DEF Pending
    <2>5. Head(records) = records[1] /\ 1 \in 1 .. Len(records)
        BY <2>3 DEF Starts
    <2>6. process'[p].queue = records
        BY <1>0
    <2>7. WritesOutcomes(p)
        BY ONLY <2>4, <2>5, <2>6 DEF WritesOutcomes
    <2> QED BY <1>1, <1>2, <2>7, SameLinesKeep
<1>5. CASE l = "forecasts" /\ Emits(records)
    <2>1. PICK id \in Ids, horizon \in Horizons, supersedes \in SUBSET Ids :
            id \notin Drawn /\ records = <<Emitted(id, horizon, supersedes, clock, Today)>>
        BY <1>5 DEF Emits
    <2> DEFINE r == Emitted(id, horizon, supersedes, clock, Today)
    <2>2. r.id = id /\ Pending(r)
        BY DEF Emitted, Pending
    <2>3. \A d \in Days : ~HasLine(Forecasts, d, id)
        <3> SUFFICES ASSUME NEW d \in Days, HasLine(Forecasts, d, id) PROVE FALSE
            OBVIOUS
        <3>1. PICK i \in Nat, s \in ForecastRecords : Holds(Forecasts, d, i, s) /\ s.id = id
            BY DEF HasLine
        <3>2. s \in Written(Forecasts)
            BY <3>1, HeldIsWritten
        <3> QED BY <2>1, <3>1, <3>2 DEF Drawn
    <2>4. \A q \in Procs : Writing(q, "forecasts") => Record(q).id # id
        BY <2>1 DEF Drawn, Record
    <2> HIDE DEF r
    <2>5. /\ process'[p].queue = <<r>> /\ ~process'[p].half
          /\ process'[p].ledger = {"forecasts"}
        BY <1>0, <1>5, <2>1 DEF r
    <2>6. Len(<<r>>) = 1 /\ Head(<<r>>) = r /\ <<r>>[1] = r
        OBVIOUS
    <2>7. QueueFits(p)'
        <3>1. \A i \in 1 .. Len(process'[p].queue) : process'[p].queue[i] = r
            BY <2>5
        <3>2. Forecasts' = Forecasts
            BY <1>0
        <3> QED BY <2>2, <2>3, <2>5, <2>6, <3>1, <3>2 DEF QueueFits
    <2>8. ASSUME NEW q \in Procs, q # p, Writing(q, "forecasts")'
          PROVE  QueueFits(q)' /\ Writing(q, "forecasts") /\ process'[q] = process[q]
        <3>1. process'[q] = process[q] /\ Writing(q, "forecasts")
            BY <1>0, <2>8 DEF Writing
        <3>2. QueueFits(q)
            BY <3>1 DEF ForecastInv
        <3> QED BY <1>0, <3>1, <3>2 DEF QueueFits
    <2>9. OneEmitter'
        <3> SUFFICES ASSUME NEW q1 \in Procs, NEW q2 \in Procs, q1 # q2,
                            Writing(q1, "forecasts")', Writing(q2, "forecasts")',
                            Pending(Record(q1))', Pending(Record(q2))'
                     PROVE  (Record(q1).id # Record(q2).id)'
            BY DEF OneEmitter
        <3>1. Record(p)' = r
            BY <2>5, <2>6 DEF Record
        <3>2. \A q \in Procs : q # p /\ Writing(q, "forecasts")' =>
                Record(q)' = Record(q) /\ Writing(q, "forecasts")
            BY <2>8 DEF Record
        <3>3. CASE q1 = p
            BY <2>2, <2>4, <3>1, <3>2, <3>3
        <3>4. CASE q2 = p
            BY <2>2, <2>4, <3>1, <3>2, <3>4
        <3>5. CASE q1 # p /\ q2 # p
            <4>1. Pending(Record(q1)) /\ Pending(Record(q2))
                  /\ Writing(q1, "forecasts") /\ Writing(q2, "forecasts")
                BY <3>2, <3>5 DEF Pending
            <4>2. Record(q1).id # Record(q2).id
                BY <4>1 DEF ForecastInv, OneEmitter
            <4> QED BY <3>2, <3>5, <4>2
        <3> QED BY <3>3, <3>4, <3>5
    <2>10. OneFileEach(Forecasts') /\ DaysAreFiles(Forecasts')
        BY <1>0 DEF ForecastInv
    <2>11. \A q \in Procs : Writing(q, "forecasts")' => QueueFits(q)'
        BY <2>7, <2>8
    <2> QED BY <2>9, <2>10, <2>11 DEF ForecastInv
<1> QED BY <1>3, <1>4, <1>5 DEF Starts

\* A process writes something other than a line.
LEMMA NoLineAdded ==
    ASSUME CLTypeOK, NEW day \in Days, NEW chunk \in {Newline, Torn},
           Appends("forecasts", day, chunk)
    PROVE  SameLines
<1>1. Forecasts' = [Forecasts EXCEPT ![day] = Append(Forecasts[day], chunk)]
    BY DEF Appends, Forecasts
<1>2. chunk \in ChunksOf("forecasts")
    BY DEF ChunksOf
<1>3. \A r : chunk # Line(r)
    BY LinesAreRecords
<1> DEFINE grown == Forecasts'
<1>4. grown = [Forecasts EXCEPT ![day] = Append(Forecasts[day], chunk)]
    BY <1>1
<1> HIDE DEF grown
<1>5. \A d \in Days, i \in Nat, r \in ForecastRecords :
        Holds(grown, d, i, r) <=>
            \/ Holds(Forecasts, d, i, r)
            \/ d = day /\ i = Len(Forecasts[day]) + 1 /\ chunk = Line(r)
    <2>1. IsForecasts(Forecasts) /\ Grows(Forecasts, day, chunk, grown)
        BY <1>4, ForecastsHaveType DEF IsForecasts, Grows
    <2> QED BY ONLY <1>2, <2>1, day \in Days, LinesGrow
<1>6. \A d \in Days, i \in Nat, r \in ForecastRecords :
        Holds(grown, d, i, r) <=> Holds(Forecasts, d, i, r)
    BY <1>3, <1>5
<1> QED BY <1>6 DEF SameLines, grown

\* A record that was behind another one is an outcome.
LEMMA RestIsOutcomes ==
    ASSUME CLTypeOK, ForecastInv, NEW p \in Procs, Writer(p, "forecasts"),
           Becomes(p, Rest(p, "forecasts")), process'[p].ledger = {"forecasts"}
    PROVE  WritesOutcomes(p)
<1> DEFINE queue == process[p].queue
<1>1. queue \in Seq(ForecastRecords) /\ queue # <<>>
    BY ForecastsHaveType DEF Writer
<1>2. Len(queue) # 1 /\ process'[p].queue = Tail(queue)
    BY DEF Becomes, Rest, Free
<1>3. QueueFits(p)
    BY DEF Writer, ForecastInv
<1>4. \A i \in 1 .. Len(queue) :
        ~Pending(queue[i]) /\ HasLine(Forecasts, queue[i].day, queue[i].id)
    BY <1>2, <1>3 DEF QueueFits
<1> HIDE DEF queue
<1>5. /\ Len(queue) \in Nat /\ Len(Tail(queue)) = Len(queue) - 1
      /\ \A i \in 1 .. Len(Tail(queue)) : Tail(queue)[i] = queue[i + 1]
      /\ Len(queue) > 1
    <2>1. Len(queue) \in Nat /\ Len(queue) # 0
        BY <1>1
    <2>2. Len(queue) > 1
        <3> DEFINE n == Len(queue)
        <3>1. n \in Nat /\ n # 0 /\ n # 1
            BY <1>2, <2>1
        <3> HIDE DEF n
        <3>2. n > 1
            BY ONLY <3>1
        <3> QED BY <3>2 DEF n
    <2>3. \A i \in 1 .. Len(Tail(queue)) : Tail(queue)[i] = queue[i + 1]
        BY <1>1
    <2>4. Len(Tail(queue)) = Len(queue) - 1
        BY <1>1
    <2> QED BY <2>1, <2>2, <2>3, <2>4
<1>6. Head(Tail(queue)) = Tail(queue)[1] /\ 1 \in 1 .. Len(Tail(queue))
    <2>1. Tail(queue) \in Seq(ForecastRecords)
        BY <1>1
    <2> QED BY <1>5, <2>1
<1>7. \A i \in 1 .. Len(Tail(queue)) :
        LET r == Tail(queue)[i]
        IN  ~Pending(r) /\ HasLine(Forecasts, r.day, r.id)
    <2> SUFFICES ASSUME NEW i \in 1 .. Len(Tail(queue))
                 PROVE  LET r == Tail(queue)[i]
                        IN  ~Pending(r) /\ HasLine(Forecasts, r.day, r.id)
        OBVIOUS
    <2>1. i + 1 \in 1 .. Len(queue) /\ Tail(queue)[i] = queue[i + 1]
        BY <1>5
    <2> QED BY <1>4, <2>1
<1> QED BY ONLY <1>2, <1>6, <1>7 DEF WritesOutcomes

\* A record is written: a new forecast's, or an outcome in its own file.
LEMMA ForecastInvLine ==
    ASSUME CLTypeOK, ForecastInv, NEW p \in Procs,
           Writer(p, "forecasts"), PutsLine(p, "forecasts")
    PROVE  ForecastInv'
<1> DEFINE r == Record(p)
           day == r.day
           n == Len(Forecasts[day]) + 1
           grown == Forecasts'
<1>0. r \in ForecastRecords /\ day \in Days /\ n \in Nat
    BY ForecastsHaveType DEF Writer
<1>1. /\ process'[p] = [ledger |-> {"forecasts"}, queue |-> process[p].queue, half |-> TRUE]
      /\ \A q \in Procs \ {p} : process'[q] = process[q]
      /\ ~process[p].half
    BY DEF PutsLine, Becomes
<1>2. grown = [Forecasts EXCEPT ![day] = Append(Forecasts[day], Line(r))]
    BY DEF PutsLine, Appends, Forecasts
<1>3. QueueFits(p) /\ Writing(p, "forecasts")
    BY DEF Writer, ForecastInv
<1>4. /\ ~Pending(r) => HasLine(Forecasts, day, r.id)
      /\ Pending(r) => /\ Len(process[p].queue) = 1
                       /\ \A d \in Days : ~HasLine(Forecasts, d, r.id)
    <2>1. 1 \in 1 .. Len(process[p].queue) /\ process[p].queue[1] = r
        BY DEF Writer, Record
    <2> HIDE DEF r
    <2> QED BY <1>1, <1>3, <2>1 DEF QueueFits
<1>5. \A d \in Days, i \in Nat, s \in ForecastRecords :
        Holds(grown, d, i, s) <=>
            Holds(Forecasts, d, i, s) \/ (d = day /\ i = n /\ s = r)
    <2> HIDE DEF grown, r
    <2>1. Line(r) \in ChunksOf("forecasts")
        BY <1>0, ForecastsHaveType DEF ChunksOf
    <2>2. \A d \in Days, i \in Nat, s \in ForecastRecords :
            Holds(grown, d, i, s) <=>
                Holds(Forecasts, d, i, s) \/ (d = day /\ i = n /\ Line(r) = Line(s))
        <3>1. IsForecasts(Forecasts) /\ Grows(Forecasts, day, Line(r), grown)
            BY <1>2, ForecastsHaveType DEF IsForecasts, Grows
        <3>2. day \in Days
            BY <1>0
        <3> HIDE DEF day
        <3> QED BY ONLY <2>1, <3>1, <3>2, LinesGrow DEF n
    <2>3. \A s : Line(r) = Line(s) <=> r = s
        BY LinesAreRecords
    <2> HIDE DEF day, n
    <2> QED BY <2>2, <2>3
<1>6. \A i \in Nat, s \in ForecastRecords : Holds(Forecasts, day, i, s) => i < n
    BY <1>0 DEF Holds
<1> HIDE DEF r, day, n, grown
\* Older lines of the same forecast are in this file.
<1>7. \A d \in Days, i \in Nat, s \in ForecastRecords :
        Holds(Forecasts, d, i, s) /\ s.id = r.id => d = day /\ ~Pending(r)
    <2> SUFFICES ASSUME NEW d \in Days, NEW i \in Nat, NEW s \in ForecastRecords,
                        Holds(Forecasts, d, i, s), s.id = r.id
                 PROVE  d = day /\ ~Pending(r)
        OBVIOUS
    <2>1. HasLine(Forecasts, d, r.id)
        BY DEF HasLine
    <2>2. HasLine(Forecasts, day, r.id) /\ ~Pending(r)
        BY <1>4, <2>1
    <2>3. PICK j \in Nat, u \in ForecastRecords : Holds(Forecasts, day, j, u) /\ u.id = r.id
        BY <2>2 DEF HasLine
    <2> QED BY <1>0, <2>2, <2>3 DEF ForecastInv, OneFileEach
<1>8. OneFileEach(grown)
    <2> SUFFICES ASSUME NEW d \in Days, NEW e \in Days, NEW i \in Nat, NEW j \in Nat,
                        NEW s \in ForecastRecords, NEW u \in ForecastRecords,
                        Holds(grown, d, i, s), Holds(grown, e, j, u), s.id = u.id
                 PROVE  d = e /\ (i < j => ~Pending(u))
        BY Zenon DEF OneFileEach
    <2>1. CASE Holds(Forecasts, d, i, s) /\ Holds(Forecasts, e, j, u)
        BY <2>1 DEF ForecastInv, OneFileEach
    <2>2. CASE Holds(Forecasts, d, i, s) /\ e = day /\ j = n /\ u = r
        BY <1>7, <2>2
    <2>3. CASE d = day /\ i = n /\ s = r /\ Holds(Forecasts, e, j, u)
        <3>1. e = day
            BY <1>7, <2>3
        <3>2. j < n
            BY <1>6, <2>3, <3>1
        <3> QED BY <1>0, <2>3, <3>1, <3>2
    <2>4. CASE d = day /\ i = n /\ e = day /\ j = n
        BY <1>0, <2>4
    <2> QED BY <1>5, <2>1, <2>2, <2>3, <2>4
<1>9. DaysAreFiles(grown)
    BY <1>5 DEF ForecastInv, DaysAreFiles, day
<1>10. \A d \in Days : \A id :
        HasLine(grown, d, id) <=> HasLine(Forecasts, d, id) \/ (d = day /\ id = r.id)
    <2> SUFFICES ASSUME NEW d \in Days, NEW id
                 PROVE  HasLine(grown, d, id) <=>
                            HasLine(Forecasts, d, id) \/ (d = day /\ id = r.id)
        OBVIOUS
    <2>1. ASSUME HasLine(grown, d, id)
          PROVE  HasLine(Forecasts, d, id) \/ (d = day /\ id = r.id)
        <3>1. PICK i \in Nat, s \in ForecastRecords : Holds(grown, d, i, s) /\ s.id = id
            BY <2>1 DEF HasLine
        <3> QED BY <1>5, <3>1 DEF HasLine
    <2>2. ASSUME HasLine(Forecasts, d, id)
          PROVE  HasLine(grown, d, id)
        <3>1. PICK i \in Nat, s \in ForecastRecords : Holds(Forecasts, d, i, s) /\ s.id = id
            BY <2>2 DEF HasLine
        <3> QED BY <1>5, <3>1 DEF HasLine
    <2>3. ASSUME d = day, id = r.id
          PROVE  HasLine(grown, d, id)
        <3>1. Holds(grown, d, n, r)
            BY <1>0, <1>5, <2>3
        <3> QED BY <1>0, <2>3, <3>1 DEF HasLine
    <2> QED BY <2>1, <2>2, <2>3
<1>11. ASSUME NEW q \in Procs, Writing(q, "forecasts")'
       PROVE  QueueFits(q)'
    <2> SUFFICES ASSUME NEW i \in 1 .. Len(process'[q].queue)
                 PROVE  LET s == process'[q].queue[i]
                        IN  /\ ~Pending(s) => HasLine(grown, s.day, s.id)
                            /\ Pending(s) =>
                                 /\ Len(process'[q].queue) = 1
                                 /\ process'[q].half
                                      \/ \A d \in Days : ~HasLine(grown, d, s.id)
        BY DEF QueueFits, grown
    <2> DEFINE s == process'[q].queue[i]
    <2>1. process'[q].queue = process[q].queue /\ Writing(q, "forecasts")
        BY <1>1, <1>3, <1>11 DEF Writing
    <2>2. QueueFits(q)
        BY <2>1 DEF ForecastInv
    <2>3. /\ ~Pending(s) => HasLine(Forecasts, s.day, s.id)
          /\ Pending(s) => /\ Len(process[q].queue) = 1
                           /\ process[q].half \/ \A d \in Days : ~HasLine(Forecasts, d, s.id)
        BY <2>1, <2>2 DEF QueueFits
    <2>4. HasLine(Forecasts, s.day, s.id) => HasLine(grown, s.day, s.id)
        <3> HIDE DEF s
        <3> SUFFICES ASSUME HasLine(Forecasts, s.day, s.id)
                     PROVE  HasLine(grown, s.day, s.id)
            OBVIOUS
        <3>1. s.day \in Days
            BY DEF HasLine, Holds
        <3> QED BY <1>10, <3>1
    <2>5. CASE q = p
        BY <1>1, <2>1, <2>3, <2>4, <2>5
    <2>6. CASE q # p
        <3>1. process'[q] = process[q]
            BY <1>1, <2>6
        <3>2. ASSUME Pending(s), ~process[q].half
              PROVE  \A d \in Days : ~HasLine(grown, d, s.id)
            <4>1. \A d \in Days : ~HasLine(Forecasts, d, s.id)
                BY <2>3, <3>2
            <4>2. s = Record(q)
                <5>1. Len(process[q].queue) = 1 /\ i = 1
                    BY <2>1, <2>3, <3>2
                <5>2. Writer(q, "forecasts")
                    BY <2>1, WriterHolds, ForecastsHaveType
                <5>3. Record(q) = process[q].queue[1]
                    BY <5>2 DEF Writer, Record
                <5> QED BY <2>1, <5>1, <5>3
            <4>3. s.id # r.id
                <5>1. CASE Pending(r)
                    BY <1>3, <2>1, <2>6, <3>2, <4>2, <5>1 DEF ForecastInv, OneEmitter, r
                <5>2. CASE ~Pending(r)
                    BY <1>0, <1>4, <4>1, <5>2
                <5> QED BY <5>1, <5>2
            <4> HIDE DEF s
            <4> QED BY <1>10, <4>1, <4>3
        <3> QED BY <2>3, <2>4, <3>1, <3>2
    <2> QED BY <2>5, <2>6
<1>12. OneEmitter'
    <2>1. \A q \in Procs : Writing(q, "forecasts")' =>
            Writing(q, "forecasts") /\ Record(q)' = Record(q)
        BY <1>1, <1>3 DEF Writing, Record
    <2> SUFFICES ASSUME NEW q1 \in Procs, NEW q2 \in Procs, q1 # q2,
                        Writing(q1, "forecasts")', Writing(q2, "forecasts")',
                        Pending(Record(q1))', Pending(Record(q2))'
                 PROVE  (Record(q1).id # Record(q2).id)'
        BY DEF OneEmitter
    <2>2. Pending(Record(q1)) /\ Pending(Record(q2))
          /\ Writing(q1, "forecasts") /\ Writing(q2, "forecasts")
        BY <2>1 DEF Pending
    <2>3. Record(q1).id # Record(q2).id
        BY <2>2 DEF ForecastInv, OneEmitter
    <2> QED BY <2>1, <2>3
<1> QED BY <1>8, <1>9, <1>11, <1>12 DEF ForecastInv, grown

LEMMA ForecastInvStep == CLTypeOK /\ ForecastInv /\ [CLNext]_clvars => ForecastInv'
<1> SUFFICES ASSUME CLTypeOK, ForecastInv, [CLNext]_clvars PROVE ForecastInv'
    OBVIOUS
<1>1. CASE UNCHANGED clvars \/ Tick
    <2>1. Forecasts' = Forecasts /\ process' = process
        BY <1>1 DEF clvars, Tick, Forecasts
    <2>2. SameLines
        BY <2>1 DEF SameLines
    <2>3. \A q \in Procs : process'[q].ledger = {"forecasts"} => GoesOn(q)
        BY <2>1 DEF GoesOn, Writing
    <2> QED BY <2>2, <2>3, SameLinesKeep
<1>2. ASSUME NEW p \in Procs, NEW l \in Ledgers, Writes(p, l)
      PROVE  ForecastInv'
    <2>0. Writer(p, l)
        BY <1>2 DEF Writes
    <2>1. ASSUME \A q \in Procs \ {p} : process'[q] = process[q]
          PROVE  \A q \in Procs \ {p} : process'[q].ledger = {"forecasts"} => GoesOn(q)
        BY <2>1 DEF GoesOn, Writing
    <2>2. \A q \in Procs \ {p} : process'[q] = process[q]
        BY <1>2 DEF Writes, PutsLine, PutsNewline, Dies, PutsPart, Becomes
    <2>3. CASE l # "forecasts"
        <3>1. Forecasts' = Forecasts
            BY <1>2, <2>3, ForecastsHaveType
               DEF Writes, PutsLine, PutsNewline, Dies, PutsPart, Appends, Forecasts
        <3>2. process'[p].ledger # {"forecasts"}
            BY <1>2, <2>3 DEF Writes, PutsLine, PutsNewline, Dies, PutsPart, Becomes, Rest, Free
        <3>3. SameLines
            BY <3>1 DEF SameLines
        <3> QED BY <2>1, <2>2, <3>2, <3>3, SameLinesKeep
    <2>4. CASE l = "forecasts" /\ PutsLine(p, l)
        BY <2>0, <2>4, ForecastInvLine
    <2>5. CASE l = "forecasts" /\ PutsNewline(p, l)
        <3>1. SameLines
            BY <2>0, <2>5, NoLineAdded DEF PutsNewline, Writer
        <3>2. process'[p].ledger = {"forecasts"} => WritesOutcomes(p)
            BY <2>0, <2>5, RestIsOutcomes DEF PutsNewline
        <3> QED BY <2>1, <2>2, <3>1, <3>2, SameLinesKeep
    <2>6. CASE l = "forecasts" /\ Dies(p, l)
        <3>1. SameLines
            BY <2>6 DEF Dies, SameLines, Forecasts
        <3>2. process'[p].ledger # {"forecasts"}
            BY <2>6 DEF Dies, Becomes, Free
        <3> QED BY <2>1, <2>2, <3>1, <3>2, SameLinesKeep
    <2>7. CASE l = "forecasts" /\ PutsPart(p, l)
        <3>1. SameLines
            BY <2>0, <2>7, NoLineAdded DEF PutsPart, Writer
        <3>2. process'[p].ledger # {"forecasts"}
            BY <2>7 DEF PutsPart, Becomes, Free
        <3> QED BY <2>1, <2>2, <3>1, <3>2, SameLinesKeep
    <2> QED BY <1>2, <2>3, <2>4, <2>5, <2>6, <2>7 DEF Writes
<1> QED BY <1>1, <1>2, ForecastInvStart, StepIs DEF CLStep

\* Resolutions stick: whatever processes race, fail or die, a forecast whose
\* resolution is on record to its newline never loads as pending again.
THEOREM ResolutionsStick == CLSpec => []ResolutionSticks
<1>1. CLInit => CLTypeOK /\ ForecastInv
    BY CLTypeOKInit, ForecastInvInit
<1>2. CLTypeOK /\ ForecastInv /\ [CLNext]_clvars => (CLTypeOK /\ ForecastInv)'
    BY CLTypeOKStep, ForecastInvStep
<1>3. CLTypeOK /\ ForecastInv => ResolutionSticks
    BY ForecastInvKeepsResolutions DEF ForecastInv
<1> QED BY <1>1, <1>2, <1>3, PTL DEF CLSpec

-----------------------------------------------------------------------------
(* Stale signals have expired.                                             *)

LEMMA TypeMeansStale ==
    ASSUME CLTypeOK
    PROVE  StaleMeansExpired
<1> SUFFICES ASSUME NEW signal \in Signals, Known(Operator, signal),
                    NEW ttl \in RecordAt(Operator, Surfacing(Operator, signal)).ttl,
                    ttl <= MaxSigned
             PROVE  LET s == RecordAt(Operator, Surfacing(Operator, signal))
                    IN  IsStale(Operator, signal, clock) <=>
                            ShouldNotify(Operator, signal) /\ clock > s.at + ttl
    BY DEF StaleMeansExpired
<1> DEFINE X == EventsOf(Operator, "surfaced", signal)
           s == RecordAt(Operator, Surfacing(Operator, signal))
<1>1. "operator-model" \in Ledgers /\ Operator \in [Days -> Seq(ChunksOf("operator-model"))]
    BY DEF CLTypeOK, Operator, Ledgers
<1>2. X \in SUBSET Entries(Operator) /\ X # {}
    BY DEF EventsOf, Known
<1>3. IsFiniteSet(X) /\ X \in SUBSET (Nat \X Nat)
    <2>1. IsFiniteSet(Entries(Operator)) /\ Entries(Operator) \in SUBSET (Nat \X Nat)
        BY <1>1, EntriesAreFinite
    <2> HIDE DEF X
    <2> QED BY <1>2, <2>1, FS_Subset
<1>4. Surfacing(Operator, signal) \in X
    <2> HIDE DEF X
    <2>1. Latest(X) \in X
        BY <1>2, <1>3, LatestIsLast
    <2> QED BY <2>1 DEF Surfacing, X
<1>5. s \in OperatorRecords
    <2>1. s \in RecordsOf("operator-model")
        BY <1>1, <1>2, <1>4, EntryIs
    <2> QED BY <2>1 DEF RecordsOf
<1> HIDE DEF s
<1>6. s.at \in 0 .. MaxClock /\ s.ttl \in Ttls \cup {{}} /\ ttl \in s.ttl
    BY <1>5 DEF OperatorRecords, s
<1>7. s.ttl = {ttl} /\ ttl \in Nat
    BY <1>6, CommandLineAssumption
<1>8. clock \in Nat /\ clock <= MaxSigned /\ s.at \in Nat /\ MaxSigned \in Nat
    BY <1>6, CommandLineAssumption DEF CLTypeOK
<1>9. AsSigned(ttl) = ttl
    BY DEF AsSigned
<1>10. clock > SaturatingAdd(s.at, ttl) <=> clock > s.at + ttl
    <2> HIDE DEF s
    <2> QED BY <1>7, <1>8 DEF SaturatingAdd
<1>11. IsStale(Operator, signal, clock) <=>
        ~IsAcknowledged(Operator, signal) /\ clock > SaturatingAdd(s.at, ttl)
    BY <1>7, <1>9 DEF IsStale, s
<1> QED BY <1>10, <1>11 DEF ShouldNotify, s

\* A signal is reported stale when, and only when, its time to live has
\* passed, for every width of the integers that the clock fits into.
THEOREM StaleIsExpired == CLSpec => []StaleMeansExpired
<1>1. CLTypeOK => StaleMeansExpired
    BY TypeMeansStale
<1> QED BY <1>1, LedgersHaveType, PTL

-----------------------------------------------------------------------------
(* What a fault costs.                                                     *)

\* The lines of a file that cannot be read.
LostIn(file) == {j \in DOMAIN file \ Readable(file) : file[j].kind = "line"}

\* A file's end is loose if no newline closes it and nobody is about to.
Live(l, day) ==
    \E p \in Procs : Writing(p, l) /\ process[p].half /\ Record(p).day = day
Loose(l, day) ==
    LET file == state[l][day]
    IN  ~Live(l, day) /\ Len(file) > 0 /\ file[Len(file)] # Newline

\* Lost, or sure to be lost with the next write: the line at a loose end, and
\* the one that follows.
DoomedAt(l, day, i) ==
    LET file == state[l][day]
    IN  \/ i \in LostIn(file)
        \/ /\ Loose(l, day)
           /\ \/ i = Len(file) + 1
              \/ i = Len(file) /\ file[i].kind = "line"
Doomed(l) == {x \in Days \X Nat : DoomedAt(l, x[1], x[2])}

Alone(l) ==
    /\ \A p \in Procs, q \in Procs : Writing(p, l) /\ Writing(q, l) => p = q
    /\ \A p \in Procs : Writing(p, l) /\ process[p].half =>
        LET file == state[l][Record(p).day]
        IN  Len(file) > 0 /\ file[Len(file)] = Line(Record(p))
Paid(l) == IsFiniteSet(Doomed(l)) /\ Cardinality(Doomed(l)) <= 2 * faults
FaultInv == \A l \in Ledgers \ overlapped : Alone(l) /\ Paid(l)

\* What a write makes unreadable is the line before it and, behind a loose
\* end, the line it writes.
LEMMA LostGrows ==
    ASSUME NEW C, NEW f \in Seq(C), NEW c \in C, NEW i \in LostIn(Append(f, c))
    PROVE  \/ i \in LostIn(f)
           \/ /\ i = Len(f) /\ Len(f) > 0 /\ f[i].kind = "line" /\ c # Newline
           \/ /\ i = Len(f) + 1 /\ c.kind = "line" /\ Len(f) > 0 /\ f[Len(f)] # Newline
<1> DEFINE g == Append(f, c)
           n == Len(f)
<1>1. n \in Nat /\ Len(g) = n + 1 /\ DOMAIN g = 1 .. n + 1 /\ DOMAIN f = 1 .. n
      /\ g[n + 1] = c /\ \A k \in 1 .. n : g[k] = f[k]
    OBVIOUS
<1>2. /\ i \in 1 .. n + 1 /\ g[i].kind = "line"
      /\ \/ i > 1 /\ g[i - 1] # Newline
         \/ i < n + 1 /\ g[i + 1] # Newline
    BY <1>1 DEF LostIn, Readable
<1> HIDE DEF g
<1>3. CASE i = n + 1
    <2>1. i > 1 /\ g[i - 1] # Newline /\ i - 1 = n /\ n \in 1 .. n
        BY <1>1, <1>2, <1>3
    <2>2. c.kind = "line"
        BY <1>1, <1>2, <1>3
    <2>3. f[n] # Newline /\ n > 0
        BY <1>1, <2>1
    <2> QED BY <1>3, <2>2, <2>3
<1>4. CASE i \in 1 .. n - 1
    <2>1. /\ i \in 1 .. n /\ f[i].kind = "line"
          /\ \/ i > 1 /\ f[i - 1] # Newline
             \/ i < n /\ f[i + 1] # Newline
        BY <1>1, <1>2, <1>4
    <2> QED BY <1>1, <2>1 DEF LostIn, Readable
<1>5. CASE i = n
    <2>1. n > 0 /\ n \in 1 .. n /\ f[n].kind = "line"
        BY <1>1, <1>2, <1>5
    <2>2. CASE i > 1 /\ g[i - 1] # Newline
        <3>1. i - 1 \in 1 .. n
            BY <1>1, <1>5, <2>2
        <3>2. f[i - 1] # Newline
            BY <1>1, <2>2, <3>1
        <3> QED BY <1>1, <1>5, <2>1, <2>2, <3>2 DEF LostIn, Readable
    <2>3. CASE i < n + 1 /\ g[i + 1] # Newline
        BY <1>1, <1>5, <2>1, <2>3
    <2> QED BY <1>2, <2>2, <2>3
<1> QED BY <1>1, <1>2, <1>3, <1>4, <1>5

LEMMA LostIsDoomed ==
    ASSUME CLTypeOK, NEW l \in Ledgers
    PROVE  Lost(state[l]) \subseteq Doomed(l)
<1> SUFFICES ASSUME NEW x \in Lost(state[l]) PROVE x \in Doomed(l)
    OBVIOUS
<1>1. DOMAIN state[l] = Days /\ state[l] \in [Days -> Seq(ChunksOf(l))] /\ Days \subseteq Nat
    BY TodayIsADay DEF CLTypeOK
<1>2. PICK day \in Days : x \in {<<day, i>> : i \in LostIn(state[l][day])}
    BY <1>1 DEF Lost, LostIn
<1>3. PICK i \in LostIn(state[l][day]) : x = <<day, i>>
    BY <1>2
<1>4. i \in Nat
    BY <1>1, <1>3 DEF LostIn
<1>5. DoomedAt(l, day, i)
    BY <1>3 DEF DoomedAt
<1> QED BY <1>3, <1>4, <1>5 DEF Doomed

LEMMA FaultInvBounds ==
    ASSUME CLTypeOK, FaultInv
    PROVE  FaultCostsAtMostTwo
<1> SUFFICES ASSUME NEW l \in Ledgers \ overlapped
             PROVE  Cardinality(Lost(state[l])) <= 2 * faults
    BY DEF FaultCostsAtMostTwo
<1>1. IsFiniteSet(Doomed(l)) /\ Cardinality(Doomed(l)) <= 2 * faults
    BY DEF FaultInv, Paid
<1>2. Lost(state[l]) \in SUBSET Doomed(l)
    BY LostIsDoomed
<1>3. IsFiniteSet(Lost(state[l])) /\ Cardinality(Lost(state[l])) <= Cardinality(Doomed(l))
    BY <1>1, <1>2, FS_Subset
<1>4. /\ Cardinality(Lost(state[l])) \in Nat /\ Cardinality(Doomed(l)) \in Nat
      /\ 2 * faults \in Nat
    BY <1>1, <1>3, FS_CardinalityType DEF CLTypeOK
<1> QED BY <1>1, <1>3, <1>4

\* The account of a ledger stays paid as long as a step that is no fault dooms
\* nothing more, and a fault dooms two places more at most.
LEMMA StaysPaid ==
    ASSUME NEW l, Paid(l), faults \in Nat, faults' = faults,
           Doomed(l)' \subseteq Doomed(l)
    PROVE  Paid(l)'
<1>1. IsFiniteSet(Doomed(l)) /\ Cardinality(Doomed(l)) <= 2 * faults
    BY DEF Paid
<1> DEFINE D == Doomed(l)
           E == Doomed(l)'
<1>2. E \in SUBSET D /\ IsFiniteSet(D)
    BY <1>1
<1> HIDE DEF D, E
<1>3. IsFiniteSet(E) /\ Cardinality(E) <= Cardinality(D)
    BY <1>2, FS_Subset
<1>4. Cardinality(E) \in Nat /\ Cardinality(D) \in Nat
    BY <1>2, <1>3, FS_CardinalityType
<1>5. Cardinality(E) <= 2 * faults'
    BY <1>1, <1>3, <1>4 DEF D
<1> QED BY <1>3, <1>5 DEF Paid, E

LEMMA PaysTwo ==
    ASSUME NEW l, Paid(l), faults \in Nat, faults' = faults + 1, NEW a, NEW b,
           Doomed(l)' \subseteq Doomed(l) \cup {a, b}
    PROVE  Paid(l)'
<1>1. IsFiniteSet(Doomed(l)) /\ Cardinality(Doomed(l)) <= 2 * faults
    BY DEF Paid
<1> DEFINE D == Doomed(l)
           E == Doomed(l)'
           U == D \cup {a}
           T == U \cup {b}
<1>2. E \in SUBSET T /\ IsFiniteSet(D)
    BY <1>1
<1> HIDE DEF D, E
<1>3. IsFiniteSet(U) /\ Cardinality(D) \in Nat
      /\ Cardinality(U) <= Cardinality(D) + 1
    BY <1>2, FS_AddElement, FS_CardinalityType
<1> HIDE DEF U
<1>4. IsFiniteSet(T) /\ Cardinality(U) \in Nat
      /\ Cardinality(T) <= Cardinality(U) + 1
    <2>1. Cardinality(U) \in Nat
        BY <1>3, FS_CardinalityType
    <2> QED BY <1>3, <2>1, FS_AddElement
<1> HIDE DEF T
<1>5. IsFiniteSet(E) /\ Cardinality(E) <= Cardinality(T)
    BY <1>2, <1>4, FS_Subset
<1>6. Cardinality(E) \in Nat /\ Cardinality(T) \in Nat
    BY <1>4, <1>5, FS_CardinalityType
<1>7. Cardinality(E) <= 2 * faults'
    BY <1>1, <1>3, <1>4, <1>5, <1>6 DEF D
<1> QED BY <1>5, <1>7 DEF Paid, E

\* A ledger that a step leaves alone stays as it was, and so does its account.
LEMMA AccountUntouched ==
    ASSUME NEW k \in Ledgers, state'[k] = state[k],
           \A q \in Procs : process'[q].ledger = {k} <=> Writing(q, k),
           \A q \in Procs : Writing(q, k) => process'[q] = process[q]
    PROVE  /\ Alone(k) => Alone(k)'
           /\ Doomed(k)' \subseteq Doomed(k)
<1>1. \A q \in Procs : Writing(q, k)' <=> Writing(q, k)
    BY DEF Writing
<1>2. \A q \in Procs : Writing(q, k) =>
        (process[q].half' <=> process[q].half) /\ Record(q)' = Record(q)
    BY DEF Record
<1>3. ASSUME Alone(k) PROVE Alone(k)'
    <2>1. \A p \in Procs, q \in Procs : Writing(p, k)' /\ Writing(q, k)' => p = q
        BY <1>1, <1>3 DEF Alone
    <2>2. \A p \in Procs : Writing(p, k)' /\ process'[p].half =>
            LET file == state'[k][Record(p)'.day]
            IN  Len(file) > 0 /\ file[Len(file)] = Line(Record(p)')
        BY <1>1, <1>2, <1>3 DEF Alone
    <2> QED BY <2>1, <2>2 DEF Alone
<1>4. \A day : Live(k, day) => Live(k, day)'
    BY <1>1, <1>2 DEF Live
<1>5. \A day, i : DoomedAt(k, day, i)' => DoomedAt(k, day, i)
    BY <1>4 DEF DoomedAt, Loose
<1> QED BY <1>3, <1>5 DEF Doomed

\* A file whose end is live, or that no process is about to close, before the
\* step is as loose as it looks.
LEMMA UntouchedFile ==
    ASSUME NEW l, NEW d \in Days, NEW i \in Nat,
           state'[l][d] = state[l][d], ~Live(l, d), DoomedAt(l, d, i)'
    PROVE  DoomedAt(l, d, i)
BY DEF DoomedAt, Loose

\* The one writer of a ledger, about to write or in the middle of a record.
Sole(p, l) == \A q \in Procs : Writing(q, l) => q = p

LEMMA SoleIsLive ==
    ASSUME NEW p \in Procs, NEW l, Sole(p, l), NEW d, Live(l, d)
    PROVE  process[p].half /\ Record(p).day = d
BY DEF Sole, Live

LEMMA AppendFacts ==
    ASSUME CLTypeOK, NEW l \in Ledgers, NEW day \in Days, NEW chunk \in ChunksOf(l),
           Appends(l, day, chunk)
    PROVE  /\ state[l][day] \in Seq(ChunksOf(l)) /\ Len(state[l][day]) \in Nat
           /\ state'[l][day] = Append(state[l][day], chunk)
           /\ Len(state'[l][day]) = Len(state[l][day]) + 1
           /\ state'[l][day][Len(state[l][day]) + 1] = chunk
           /\ \A i \in 1 .. Len(state[l][day]) : state'[l][day][i] = state[l][day][i]
           /\ \A d \in Days : d # day => state'[l][d] = state[l][d]
<1>1. state[l] \in [Days -> Seq(ChunksOf(l))]
    BY DEF CLTypeOK
<1> DEFINE f == state[l][day]
<1>2. f \in Seq(ChunksOf(l)) /\ state'[l][day] = Append(f, chunk)
      /\ \A d \in Days : d # day => state'[l][d] = state[l][d]
    BY <1>1 DEF Appends
<1> HIDE DEF f
<1>3. /\ Len(f) \in Nat /\ Len(Append(f, chunk)) = Len(f) + 1
      /\ Append(f, chunk)[Len(f) + 1] = chunk
      /\ \A i \in 1 .. Len(f) : Append(f, chunk)[i] = f[i]
    BY <1>2
<1> QED BY <1>2, <1>3 DEF f

LEMMA LineDooms ==
    ASSUME CLTypeOK, NEW l \in Ledgers, NEW p \in Procs, Writer(p, l),
           Sole(p, l), PutsLine(p, l)
    PROVE  Alone(l)' /\ Doomed(l)' \subseteq Doomed(l)
<1> PICK r, day : r = Record(p) /\ day = r.day
    OBVIOUS
<1> PICK f : f = state[l][day]
    OBVIOUS
<1> DEFINE n == Len(f)
           g == state'[l][day]
<1>0. day \in Days /\ Line(r) \in ChunksOf(l) /\ ~process[p].half
    BY DEF Writer, ChunksOf, PutsLine
<1>1. /\ process'[p].ledger = {l} /\ process'[p].half /\ Record(p)' = r
      /\ \A q \in Procs \ {p} : process'[q] = process[q]
    BY DEF PutsLine, Becomes, Record
<1>2. Appends(l, day, Line(r))
    BY DEF PutsLine
<1>3. /\ f \in Seq(ChunksOf(l)) /\ n \in Nat
      /\ g = Append(f, Line(r)) /\ Len(g) = n + 1 /\ g[n + 1] = Line(r)
      /\ \A i \in 1 .. n : g[i] = f[i]
      /\ \A d \in Days : d # day => state'[l][d] = state[l][d]
    BY ONLY CLTypeOK, l \in Ledgers, <1>0, <1>2, AppendFacts, f = state[l][day]
<1>4. \A d : ~Live(l, d)
    BY <1>0, SoleIsLive
<1>5. \A q \in Procs : Writing(q, l)' => q = p
    BY <1>1 DEF Writing, Sole
<1>6. Alone(l)'
    <2>1. Len(state'[l][Record(p)'.day]) > 0
          /\ state'[l][Record(p)'.day][Len(state'[l][Record(p)'.day])] = Line(Record(p)')
        <3> HIDE DEF n
        <3> QED BY <1>1, <1>3
    <2> QED BY <1>5, <2>1 DEF Alone
<1>7. Live(l, day)'
    <2>1. Writing(p, l)' /\ process'[p].half /\ Record(p)'.day = day
        BY <1>1 DEF Writing
    <2> QED BY <2>1 DEF Live
<1> HIDE DEF g, n
<1>8. ASSUME NEW d \in Days, NEW i \in Nat, DoomedAt(l, d, i)'
      PROVE  DoomedAt(l, d, i)
    <2>1. CASE d # day
        BY <1>3, <1>4, <1>8, <2>1, UntouchedFile
    <2>2. CASE d = day
        <3>1. i \in LostIn(Append(f, Line(r)))
            BY <1>3, <1>7, <1>8, <2>2 DEF DoomedAt, Loose, g
        <3>2. \/ i \in LostIn(f)
              \/ i = n /\ n > 0 /\ f[i].kind = "line"
              \/ i = n + 1 /\ n > 0 /\ f[n] # Newline
            BY <1>0, <1>3, <3>1, LostGrows DEF n
        <3>3. f[n].kind = "line" => f[n] # Newline
            BY DEF Newline
        <3>4. n > 0 /\ f[n] # Newline => Loose(l, d)
            BY <1>4, <2>2 DEF Loose, n
        <3> QED BY <2>2, <3>2, <3>3, <3>4 DEF DoomedAt, n
    <2> QED BY <2>1, <2>2
<1> QED BY <1>6, <1>8 DEF Doomed

LEMMA NewlineDooms ==
    ASSUME CLTypeOK, NEW l \in Ledgers, NEW p \in Procs, Writer(p, l),
           Sole(p, l), Alone(l), PutsNewline(p, l)
    PROVE  Alone(l)' /\ Doomed(l)' \subseteq Doomed(l)
<1> PICK day : day = Record(p).day
    OBVIOUS
<1> PICK f : f = state[l][day]
    OBVIOUS
<1> DEFINE n == Len(f)
           g == state'[l][day]
<1>0. day \in Days /\ Newline \in ChunksOf(l) /\ process[p].half /\ Writing(p, l)
    BY DEF Writer, ChunksOf, PutsNewline
<1>1. /\ ~process'[p].half
      /\ \A q \in Procs \ {p} : process'[q] = process[q]
    BY DEF PutsNewline, Becomes, Rest, Free
<1>2. Appends(l, day, Newline)
    BY DEF PutsNewline
<1>3. /\ f \in Seq(ChunksOf(l)) /\ n \in Nat
      /\ g = Append(f, Newline) /\ Len(g) = n + 1 /\ g[n + 1] = Newline
      /\ \A d \in Days : d # day => state'[l][d] = state[l][d]
    BY ONLY CLTypeOK, l \in Ledgers, <1>0, <1>2, AppendFacts, f = state[l][day]
<1>4. \A d : d # day => ~Live(l, d)
    BY SoleIsLive
<1>5. \A q \in Procs : Writing(q, l)' => q = p
    BY <1>1 DEF Writing, Sole
<1>6. Alone(l)'
    BY <1>1, <1>5 DEF Alone
<1> HIDE DEF g, n
<1>8. ASSUME NEW d \in Days, NEW i \in Nat, DoomedAt(l, d, i)'
      PROVE  DoomedAt(l, d, i)
    <2>1. CASE d # day
        BY <1>3, <1>4, <1>8, <2>1, UntouchedFile
    <2>2. CASE d = day
        <3>1. ~Loose(l, d)'
            BY <1>3, <2>2 DEF Loose, g
        <3>2. i \in LostIn(Append(f, Newline))
            BY <1>3, <1>8, <2>2, <3>1 DEF DoomedAt, g
        <3>3. i \in LostIn(f)
            <4>1. Newline.kind = "newline"
                BY DEF Newline
            <4> QED BY <1>0, <1>3, <3>2, <4>1, LostGrows
        <3> QED BY <2>2, <3>3 DEF DoomedAt
    <2> QED BY <2>1, <2>2
<1> QED BY <1>6, <1>8 DEF Doomed

LEMMA DeathDooms ==
    ASSUME CLTypeOK, NEW l \in Ledgers, NEW p \in Procs, Writer(p, l),
           Sole(p, l), Alone(l), Dies(p, l)
    PROVE  Alone(l)' /\ \E a, b : Doomed(l)' \subseteq Doomed(l) \cup {a, b}
<1> PICK day : day = Record(p).day
    OBVIOUS
<1> PICK n : n = Len(state[l][day])
    OBVIOUS
<1>1. /\ process'[p] = Free /\ state' = state
      /\ \A q \in Procs \ {p} : process'[q] = process[q]
    BY DEF Dies, Becomes
<1>2. \A q \in Procs : ~Writing(q, l)'
    <2>1. process'[p].ledger # {l}
        BY <1>1 DEF Free
    <2> QED BY <1>1, <2>1 DEF Writing, Sole
<1>3. Alone(l)'
    BY <1>2 DEF Alone
<1>4. ASSUME NEW d \in Days, NEW i \in Nat, DoomedAt(l, d, i)'
      PROVE  DoomedAt(l, d, i) \/ (d = day /\ (i = n \/ i = n + 1))
    <2>1. CASE d # day
        BY <1>1, <1>4, <2>1, SoleIsLive, UntouchedFile
    <2>2. CASE d = day
        <3>1. i \in LostIn(state[l][d]) \/ i = n \/ i = n + 1
            BY <1>1, <1>4, <2>2 DEF DoomedAt
        <3> QED BY <2>2, <3>1 DEF DoomedAt
    <2> QED BY <2>1, <2>2
<1>5. Doomed(l)' \subseteq Doomed(l) \cup {<<day, n>>, <<day, n + 1>>}
    <2> SUFFICES ASSUME NEW x \in Days \X Nat, DoomedAt(l, x[1], x[2])'
                 PROVE  DoomedAt(l, x[1], x[2]) \/ x \in {<<day, n>>, <<day, n + 1>>}
        BY DEF Doomed
    <2>1. x[1] \in Days /\ x[2] \in Nat /\ x = <<x[1], x[2]>>
        OBVIOUS
    <2>2. DoomedAt(l, x[1], x[2]) \/ (x[1] = day /\ (x[2] = n \/ x[2] = n + 1))
        BY <1>4, <2>1
    <2> QED BY <2>1, <2>2
<1> QED BY <1>3, <1>5

LEMMA PartDooms ==
    ASSUME CLTypeOK, NEW l \in Ledgers, NEW p \in Procs, Writer(p, l),
           Sole(p, l), PutsPart(p, l)
    PROVE  Alone(l)' /\ \E a, b : Doomed(l)' \subseteq Doomed(l) \cup {a, b}
<1> PICK day : day = Record(p).day
    OBVIOUS
<1> PICK f : f = state[l][day]
    OBVIOUS
<1> DEFINE n == Len(f)
           g == state'[l][day]
<1>0. day \in Days /\ Torn \in ChunksOf(l) /\ ~process[p].half
    BY DEF Writer, ChunksOf, PutsPart
<1>1. /\ process'[p] = Free
      /\ \A q \in Procs \ {p} : process'[q] = process[q]
    BY DEF PutsPart, Becomes
<1>2. Appends(l, day, Torn)
    BY DEF PutsPart
<1>3. /\ f \in Seq(ChunksOf(l)) /\ n \in Nat
      /\ g = Append(f, Torn) /\ Len(g) = n + 1 /\ g[n + 1] = Torn
      /\ \A d \in Days : d # day => state'[l][d] = state[l][d]
    BY ONLY CLTypeOK, l \in Ledgers, <1>0, <1>2, AppendFacts, f = state[l][day]
<1>4. \A d : ~Live(l, d)
    BY <1>0, SoleIsLive
<1>5. \A q \in Procs : ~Writing(q, l)'
    <2>1. process'[p].ledger # {l}
        BY <1>1 DEF Free
    <2> QED BY <1>1, <2>1 DEF Writing, Sole
<1>6. Alone(l)'
    BY <1>5 DEF Alone
<1> HIDE DEF g, n
<1>7. Torn.kind = "torn"
    BY DEF Torn
<1>8. ASSUME NEW d \in Days, NEW i \in Nat, DoomedAt(l, d, i)'
      PROVE  DoomedAt(l, d, i) \/ (d = day /\ i = n + 2)
    <2>1. CASE d # day
        BY <1>3, <1>4, <1>8, <2>1, UntouchedFile
    <2>2. CASE d = day
        <3>1. \/ i \in LostIn(Append(f, Torn)) \/ i = n + 2
              \/ i = n + 1 /\ g[i].kind = "line"
            <4>1. state'[l][d] = g
                BY <2>2 DEF g
            <4>2. \/ i \in LostIn(state'[l][d]) \/ i = Len(state'[l][d]) + 1
                  \/ i = Len(state'[l][d]) /\ state'[l][d][i].kind = "line"
                BY <1>8 DEF DoomedAt
            <4>3. \/ i \in LostIn(g) \/ i = Len(g) + 1
                  \/ i = Len(g) /\ g[i].kind = "line"
                BY ONLY <4>1, <4>2
            <4> QED BY <1>3, <4>3
        <3>2. CASE i \in LostIn(Append(f, Torn))
            <4>1. i \in LostIn(f) \/ (i = n /\ n > 0 /\ f[i].kind = "line")
                BY <1>0, <1>3, <1>7, <3>2, LostGrows DEF n
            <4>2. f[n].kind = "line" => f[n] # Newline
                BY DEF Newline
            <4>3. n > 0 /\ f[n] # Newline => Loose(l, d)
                BY <1>4, <2>2 DEF Loose, n
            <4> QED BY <2>2, <4>1, <4>2, <4>3 DEF DoomedAt, n
        <3> QED BY <1>3, <1>7, <2>2, <3>1, <3>2
    <2> QED BY <2>1, <2>2
<1>9. Doomed(l)' \subseteq Doomed(l) \cup {<<day, n + 2>>, <<day, n + 2>>}
    <2> SUFFICES ASSUME NEW x \in Days \X Nat, DoomedAt(l, x[1], x[2])'
                 PROVE  DoomedAt(l, x[1], x[2]) \/ x = <<day, n + 2>>
        BY DEF Doomed
    <2>1. x[1] \in Days /\ x[2] \in Nat /\ x = <<x[1], x[2]>>
        OBVIOUS
    <2>2. DoomedAt(l, x[1], x[2]) \/ (x[1] = day /\ x[2] = n + 2)
        BY <1>8, <2>1
    <2> QED BY <2>1, <2>2
<1> QED BY <1>6, <1>9

LEMMA FaultInvInit == CLInit => FaultInv
<1> SUFFICES ASSUME CLInit, NEW l \in Ledgers PROVE Alone(l) /\ Paid(l)
    BY DEF FaultInv
<1>1. \A p \in Procs : ~Writing(p, l)
    BY DEF CLInit, Writing, Free
<1>2. \A d \in Days : state[l][d] = <<>>
    BY DEF CLInit
<1>3. \A d \in Days, i \in Nat : ~DoomedAt(l, d, i)
    <2>1. LostIn(<<>>) = {} /\ Len(<<>>) = 0
        BY DEF LostIn
    <2> QED BY <1>2, <2>1 DEF DoomedAt, Loose
<1>4. Doomed(l) = {}
    BY <1>3 DEF Doomed
<1>5. faults = 0
    BY DEF CLInit
<1> QED BY <1>1, <1>4, <1>5, FS_EmptySet DEF Alone, Paid

LEMMA FaultInvStep == CLTypeOK /\ FaultInv /\ [CLNext]_clvars => FaultInv'
<1> SUFFICES ASSUME CLTypeOK, FaultInv, [CLNext]_clvars,
                    NEW k \in Ledgers \ overlapped'
             PROVE  Alone(k)' /\ Paid(k)'
    BY DEF FaultInv
<1>0. faults \in Nat /\ process \in [Procs -> ProcessType]
    BY DEF CLTypeOK
<1>1. CASE UNCHANGED clvars \/ Tick
    <2>1. state' = state /\ process' = process /\ faults' = faults /\ overlapped' = overlapped
        BY <1>1 DEF clvars, Tick
    <2>2. Alone(k) /\ Paid(k)
        BY <2>1 DEF FaultInv
    <2>3. Alone(k)' /\ Doomed(k)' \subseteq Doomed(k)
        BY <2>1, <2>2, AccountUntouched DEF Writing
    <2> QED BY <1>0, <2>1, <2>2, <2>3, StaysPaid
<1>2. ASSUME NEW p \in Procs, NEW l \in Ledgers, NEW records, Starts(p, l, records)
      PROVE  Alone(k)' /\ Paid(k)'
    <2>1. /\ process'[p] = [ledger |-> {l}, queue |-> records, half |-> FALSE]
          /\ \A q \in Procs \ {p} : process'[q] = process[q]
          /\ state' = state /\ faults' = faults /\ k \notin overlapped
          /\ ~Busy(p) /\ (k = l => \A q \in Procs : ~Writing(q, l))
        BY <1>2 DEF Starts, Becomes
    <2>2. Alone(k) /\ Paid(k) /\ ~Writing(p, k)
        BY <2>1 DEF FaultInv, Busy, Writing
    <2>3. CASE k # l
        <3>1. process'[p].ledger # {k}
            BY <2>1, <2>3
        <3>2. Alone(k)' /\ Doomed(k)' \subseteq Doomed(k)
            BY <2>1, <2>2, <3>1, AccountUntouched DEF Writing
        <3> QED BY <1>0, <2>1, <2>2, <3>2, StaysPaid
    <2>4. CASE k = l
        <3>1. \A q \in Procs : Writing(q, k)' => q = p
            BY <2>1, <2>4 DEF Writing
        <3>2. Alone(k)'
            BY <2>1, <3>1 DEF Alone
        <3>3. \A d : ~Live(k, d)
            BY <2>1, <2>4 DEF Live
        <3>4. \A d \in Days, i \in Nat : DoomedAt(k, d, i)' => DoomedAt(k, d, i)
            BY <2>1, <3>3, UntouchedFile
        <3>5. Doomed(k)' \subseteq Doomed(k)
            BY <3>4 DEF Doomed
        <3> QED BY <1>0, <2>1, <2>2, <3>2, <3>5, StaysPaid
    <2> QED BY <2>3, <2>4
<1>3. ASSUME NEW p \in Procs, NEW l \in Ledgers, Writes(p, l)
      PROVE  Alone(k)' /\ Paid(k)'
    <2>0. Writer(p, l) /\ Writing(p, l) /\ overlapped' = overlapped
        BY <1>3 DEF Writes, Writer, PutsLine, PutsNewline, Dies, PutsPart
    <2>1. Alone(k) /\ Paid(k)
        BY <2>0 DEF FaultInv
    <2>2. /\ \A q \in Procs \ {p} : process'[q] = process[q]
          /\ process'[p].ledger = {l} \/ process'[p].ledger = {}
          /\ \A j \in Ledgers \ {l} : state'[j] = state[j]
        BY <1>3 DEF Writes, PutsLine, PutsNewline, Dies, PutsPart, Becomes, Rest, Free, Appends
    <2>3. CASE k # l
        <3>1. process'[p].ledger # {k} /\ ~Writing(p, k)
            BY <2>0, <2>2, <2>3 DEF Writing
        <3>2. Alone(k)' /\ Doomed(k)' \subseteq Doomed(k)
            BY <2>1, <2>2, <2>3, <3>1, AccountUntouched DEF Writing
        <3>3. faults' = faults \/ faults' = faults + 1
            BY <1>3 DEF Writes, PutsLine, PutsNewline, Dies, PutsPart
        <3>4. Doomed(k)' \subseteq Doomed(k) \cup {0, 0}
            BY <3>2
        <3> QED BY <1>0, <2>1, <3>2, <3>3, <3>4, StaysPaid, PaysTwo
    <2>4. CASE k = l
        <3>1. Sole(p, l) /\ Alone(l) /\ Paid(l)
            BY <2>0, <2>1, <2>4 DEF Alone, Sole
        <3>2. CASE PutsLine(p, l)
            BY <1>0, <2>0, <2>4, <3>1, <3>2, LineDooms, StaysPaid DEF PutsLine
        <3>3. CASE PutsNewline(p, l)
            BY <1>0, <2>0, <2>4, <3>1, <3>3, NewlineDooms, StaysPaid DEF PutsNewline
        <3>4. CASE Dies(p, l)
            BY <1>0, <2>0, <2>4, <3>1, <3>4, DeathDooms, PaysTwo DEF Dies
        <3>5. CASE PutsPart(p, l)
            BY <1>0, <2>0, <2>4, <3>1, <3>5, PartDooms, PaysTwo DEF PutsPart
        <3> QED BY <1>3, <3>2, <3>3, <3>4, <3>5 DEF Writes
    <2> QED BY <2>3, <2>4
<1> QED BY <1>1, <1>2, <1>3, StepIs DEF CLStep

\* On a ledger whose commands run one after the other, a fault costs the
\* record it interrupts and at most the next one, however many faults there
\* are and wherever they strike.
THEOREM FaultsCostAtMostTwo == CLSpec => []FaultCostsAtMostTwo
<1>1. CLInit => CLTypeOK /\ FaultInv
    BY CLTypeOKInit, FaultInvInit
<1>2. CLTypeOK /\ FaultInv /\ [CLNext]_clvars => (CLTypeOK /\ FaultInv)'
    BY CLTypeOKStep, FaultInvStep
<1>3. CLTypeOK /\ FaultInv => FaultCostsAtMostTwo
    BY FaultInvBounds
<1> QED BY <1>1, <1>2, <1>3, PTL DEF CLSpec

-----------------------------------------------------------------------------
(* A false acceptance earns nothing.                                       *)

\* The two totals of a report's entry, as sums.
LEMMA AcceptedIsSum ==
    ASSUME NEW dir, NEW S, IsFiniteSet(S), NEW u \in [S -> Int],
           \A x \in S : u[x] = RecordAt(dir, x).accepted
    PROVE  \E g : IsSum(g, S, u) /\ Entry(dir, S).accepted = g[S]
<1> DEFINE Body(f) ==
        [s \in SUBSET S |->
            IF s = {} THEN 0
            ELSE RecordAt(dir, CHOOSE x \in s : TRUE).accepted
                    + f[s \ {CHOOSE x \in s : TRUE}]]
           total == CHOOSE f : f = Body(f)
<1>1. Entry(dir, S).accepted = MapThenSumSet(LAMBDA x : RecordAt(dir, x).accepted, S)
    BY DEF Entry
<1>2. MapThenSumSet(LAMBDA x : RecordAt(dir, x).accepted, S) = total[S]
    BY Zenon DEF MapThenSumSet, MapThenFoldSet
<1>3. PICK g : IsSum(g, S, u)
    BY SumExists
<1>4. \A f : IsSum(f, S, u) <=> f = Body(f)
    <2> SUFFICES ASSUME NEW f PROVE IsSum(f, S, u) <=> f = Body(f)
        OBVIOUS
    <2> DEFINE sums == [s \in SUBSET S |->
                            IF s = {} THEN 0
                            ELSE u[CHOOSE x \in s : TRUE]
                                    + f[s \ {CHOOSE x \in s : TRUE}]]
    <2>1. \A s \in SUBSET S : s # {} =>
            u[CHOOSE x \in s : TRUE] = RecordAt(dir, CHOOSE x \in s : TRUE).accepted
        OBVIOUS
    <2>2. sums = Body(f)
        BY <2>1
    <2> QED BY <2>2, Zenon DEF IsSum
<1>5. total = Body(total)
    <2>1. g = Body(g)
        BY <1>3, <1>4
    <2> HIDE DEF Body
    <2> QED BY <2>1, Zenon
<1>6. IsSum(total, S, u)
    BY <1>4, <1>5
<1> HIDE DEF total
<1> QED BY <1>1, <1>2, <1>6, Zenon

LEMMA FalseIsSum ==
    ASSUME NEW dir, NEW S, IsFiniteSet(S), NEW u \in [S -> Int],
           \A x \in S : u[x] = RecordAt(dir, x).false_acceptances
    PROVE  \E g : IsSum(g, S, u) /\ Entry(dir, S).false_acceptances = g[S]
<1> DEFINE Body(f) ==
        [s \in SUBSET S |->
            IF s = {} THEN 0
            ELSE RecordAt(dir, CHOOSE x \in s : TRUE).false_acceptances
                    + f[s \ {CHOOSE x \in s : TRUE}]]
           total == CHOOSE f : f = Body(f)
<1>1. Entry(dir, S).false_acceptances
        = MapThenSumSet(LAMBDA x : RecordAt(dir, x).false_acceptances, S)
    BY DEF Entry
<1>2. MapThenSumSet(LAMBDA x : RecordAt(dir, x).false_acceptances, S) = total[S]
    BY Zenon DEF MapThenSumSet, MapThenFoldSet
<1>3. PICK g : IsSum(g, S, u)
    BY SumExists
<1>4. \A f : IsSum(f, S, u) <=> f = Body(f)
    <2> SUFFICES ASSUME NEW f PROVE IsSum(f, S, u) <=> f = Body(f)
        OBVIOUS
    <2> DEFINE sums == [s \in SUBSET S |->
                            IF s = {} THEN 0
                            ELSE u[CHOOSE x \in s : TRUE]
                                    + f[s \ {CHOOSE x \in s : TRUE}]]
    <2>1. \A s \in SUBSET S : s # {} =>
            u[CHOOSE x \in s : TRUE]
                = RecordAt(dir, CHOOSE x \in s : TRUE).false_acceptances
        OBVIOUS
    <2>2. sums = Body(f)
        BY <2>1
    <2> QED BY <2>2, Zenon DEF IsSum
<1>5. total = Body(total)
    <2>1. g = Body(g)
        BY <1>3, <1>4
    <2> HIDE DEF Body
    <2> QED BY <2>1, Zenon
<1>6. IsSum(total, S, u)
    BY <1>4, <1>5
<1> HIDE DEF total
<1> QED BY <1>1, <1>2, <1>6, Zenon

\* A row counts no more false acceptances than acceptances.
LEMMA RowsAreTallies ==
    ASSUME NEW r \in ReliabilityRecords
    PROVE  /\ r.accepted \in Nat /\ r.false_acceptances \in Nat
           /\ r.false_acceptances <= r.accepted
<1>1. PICK s \in DOMAIN Tallies :
        r \in {Row(s, Tallies[s][i], day) : i \in DOMAIN Tallies[s], day \in Days}
    BY DEF ReliabilityRecords
<1>2. PICK i \in DOMAIN Tallies[s] : \E day \in Days : r = Row(s, Tallies[s][i], day)
    BY <1>1
<1>3. /\ Tallies[s][i].accepted \in Nat
      /\ Tallies[s][i].false_acceptances \in 0 .. Tallies[s][i].accepted
    BY CommandLineAssumption
<1> QED BY <1>2, <1>3 DEF Row

\* What is known of a sum, as one predicate of its terms.
AddsUp(g, S, w) ==
    /\ g[{}] = 0
    /\ \A s \in SUBSET S : g[s] \in Int
    /\ \A s \in SUBSET S : \A x \in s : g[s] = w[x] + g[s \ {x}]

LEMMA SumsAddUp ==
    ASSUME NEW S, IsFiniteSet(S), NEW w \in [S -> Int], NEW g, IsSum(g, S, w)
    PROVE  AddsUp(g, S, w)
BY SumFacts DEF AddsUp

\* Of two weights, one nowhere above the other, the sums over a part differ by
\* no more than those over the whole.
LEMMA PartDiffersLess ==
    ASSUME NEW T, IsFiniteSet(T), NEW S \in SUBSET T,
           NEW big \in [T -> Int], NEW bigs, IsSum(bigs, T, big),
           NEW small \in [T -> Int], NEW smalls, IsSum(smalls, T, small),
           \A x \in T : big[x] \in Nat /\ small[x] \in Nat /\ small[x] <= big[x]
    PROVE  /\ bigs[S] \in Nat /\ smalls[S] \in Nat /\ bigs[T] \in Nat /\ smalls[T] \in Nat
           /\ smalls[S] <= bigs[S] /\ smalls[T] <= bigs[T]
           /\ bigs[S] - smalls[S] <= bigs[T] - smalls[T]
<1> DEFINE R == T \ S
           Below == {U \in SUBSET T : smalls[U] <= bigs[U]}
<1>1. big \in [T -> Nat] /\ small \in [T -> Nat]
    OBVIOUS
<1>2. /\ bigs[{}] = 0 /\ smalls[{}] = 0
      /\ \A s \in SUBSET T : bigs[s] \in Int /\ smalls[s] \in Int
      /\ \A s \in SUBSET T : \A x \in s :
            bigs[s] = big[x] + bigs[s \ {x}] /\ smalls[s] = small[x] + smalls[s \ {x}]
    <2>1. AddsUp(bigs, T, big)
        BY ONLY IsFiniteSet(T), big \in [T -> Int], IsSum(bigs, T, big), SumsAddUp
    <2>2. AddsUp(smalls, T, small)
        BY ONLY IsFiniteSet(T), small \in [T -> Int], IsSum(smalls, T, small), SumsAddUp
    <2> QED BY ONLY <2>1, <2>2 DEF AddsUp
<1>3. \A s \in SUBSET T : bigs[s] \in Nat
    BY ONLY <1>1, IsFiniteSet(T), IsSum(bigs, T, big), SumOfNaturals
<1>4. \A s \in SUBSET T : smalls[s] \in Nat
    BY ONLY <1>1, IsFiniteSet(T), IsSum(smalls, T, small), SumOfNaturals
<1>5. \A U \in SUBSET T : U \in Below
    <2>1. {} \in Below
        BY <1>2
    <2>2. ASSUME NEW U \in SUBSET T, NEW x \in T \ U, U \in Below
          PROVE  U \cup {x} \in Below
        <3> DEFINE V == U \cup {x}
        <3>1. V \in SUBSET T /\ x \in V /\ V \ {x} = U
            OBVIOUS
        <3> HIDE DEF V
        <3>2. bigs[V] = big[x] + bigs[U] /\ smalls[V] = small[x] + smalls[U]
            BY <1>2, <3>1
        <3>3. /\ big[x] \in Nat /\ small[x] \in Nat /\ small[x] <= big[x]
              /\ bigs[U] \in Nat /\ smalls[U] \in Nat /\ smalls[U] <= bigs[U]
            BY <1>3, <1>4, <2>2
        <3>4. smalls[V] <= bigs[V]
            BY <3>2, <3>3
        <3>5. V \in Below
            BY <3>1, <3>4
        <3> QED BY <3>5 DEF V
    <2> HIDE DEF Below
    <2> QED BY ONLY <2>1, <2>2, IsFiniteSet(T), InductionOnSubsets
<1>6. R \in SUBSET T /\ S \cap R = {} /\ S \cup R = T
    OBVIOUS
<1> HIDE DEF R
<1>7. \A A \in SUBSET T, B \in SUBSET T : A \cap B = {} =>
        bigs[A \cup B] = bigs[A] + bigs[B] /\ smalls[A \cup B] = smalls[A] + smalls[B]
    BY ONLY IsFiniteSet(T), big \in [T -> Int], small \in [T -> Int],
            IsSum(bigs, T, big), IsSum(smalls, T, small), SumOfUnion
<1>8. bigs[S \cup R] = bigs[S] + bigs[R] /\ smalls[S \cup R] = smalls[S] + smalls[R]
    BY ONLY S \in SUBSET T, <1>6, <1>7
<1>9. smalls[S] <= bigs[S] /\ smalls[T] <= bigs[T] /\ smalls[R] <= bigs[R]
    BY <1>5, <1>6
<1>10. bigs[T] = bigs[S] + bigs[R] /\ smalls[T] = smalls[S] + smalls[R]
    BY ONLY <1>6, <1>7, <1>8, Zenon
<1>11. /\ bigs[S] \in Nat /\ smalls[S] \in Nat /\ bigs[T] \in Nat /\ smalls[T] \in Nat
       /\ bigs[R] \in Nat /\ smalls[R] \in Nat
    BY <1>3, <1>4, <1>6
<1> QED BY ONLY <1>9, <1>10, <1>11

\* A part of the rows counts no more correct claims than all of them.
LEMMA PartIsNoMore ==
    ASSUME NEW dir, NEW T, IsFiniteSet(T), NEW S \in SUBSET T,
           \A x \in T : /\ RecordAt(dir, x).accepted \in Nat
                        /\ RecordAt(dir, x).false_acceptances \in Nat
                        /\ RecordAt(dir, x).false_acceptances <= RecordAt(dir, x).accepted
    PROVE  LET part == Entry(dir, S)
               whole == Entry(dir, T)
           IN  /\ part.accepted \in Nat /\ part.false_acceptances \in Nat
               /\ whole.accepted \in Nat /\ whole.false_acceptances \in Nat
               /\ part.false_acceptances <= part.accepted
               /\ whole.false_acceptances <= whole.accepted
               /\ part.accepted - part.false_acceptances
                    <= whole.accepted - whole.false_acceptances
<1> DEFINE a == [x \in T |-> RecordAt(dir, x).accepted]
           b == [x \in T |-> RecordAt(dir, x).false_acceptances]
           sa == [x \in S |-> RecordAt(dir, x).accepted]
           sb == [x \in S |-> RecordAt(dir, x).false_acceptances]
<1>1. a \in [T -> Int] /\ b \in [T -> Int]
    OBVIOUS
<1>2. \A x \in T : a[x] \in Nat /\ b[x] \in Nat /\ b[x] <= a[x]
    OBVIOUS
<1>3. sa \in [S -> Int] /\ sb \in [S -> Int]
    OBVIOUS
<1>4. \A x \in S : sa[x] = a[x]
    OBVIOUS
<1>5. \A x \in S : sb[x] = b[x]
    OBVIOUS
<1>6. \A x \in T : a[x] = RecordAt(dir, x).accepted
    OBVIOUS
<1>7. \A x \in T : b[x] = RecordAt(dir, x).false_acceptances
    OBVIOUS
<1>8. \A x \in S : sa[x] = RecordAt(dir, x).accepted
    OBVIOUS
<1>9. \A x \in S : sb[x] = RecordAt(dir, x).false_acceptances
    OBVIOUS
<1>10. IsFiniteSet(S)
    BY FS_Subset
<1> HIDE DEF a, b, sa, sb
<1>11. PICK ga : IsSum(ga, T, a) /\ Entry(dir, T).accepted = ga[T]
    BY ONLY <1>1, <1>6, IsFiniteSet(T), AcceptedIsSum
<1>12. PICK gb : IsSum(gb, T, b) /\ Entry(dir, T).false_acceptances = gb[T]
    BY ONLY <1>1, <1>7, IsFiniteSet(T), FalseIsSum
<1>13. PICK gas : IsSum(gas, S, sa) /\ Entry(dir, S).accepted = gas[S]
    BY ONLY <1>3, <1>8, <1>10, AcceptedIsSum
<1>14. PICK gbs : IsSum(gbs, S, sb) /\ Entry(dir, S).false_acceptances = gbs[S]
    BY ONLY <1>3, <1>9, <1>10, FalseIsSum
<1>15. gas[S] = ga[S]
    <2>1. IsSum(ga, T, a) /\ a \in [T -> Int]
        BY <1>1, <1>11
    <2>2. IsSum(gas, S, sa) /\ sa \in [S -> Int]
        BY <1>3, <1>13
    <2> QED BY ONLY <2>1, <2>2, <1>4, IsFiniteSet(T), S \in SUBSET T, SumOfPart
<1>16. gbs[S] = gb[S]
    <2>1. IsSum(gb, T, b) /\ b \in [T -> Int]
        BY <1>1, <1>12
    <2>2. IsSum(gbs, S, sb) /\ sb \in [S -> Int]
        BY <1>3, <1>14
    <2> QED BY ONLY <2>1, <2>2, <1>5, IsFiniteSet(T), S \in SUBSET T, SumOfPart
<1>17. /\ ga[S] \in Nat /\ gb[S] \in Nat /\ ga[T] \in Nat /\ gb[T] \in Nat
       /\ gb[S] <= ga[S] /\ gb[T] <= ga[T]
       /\ ga[S] - gb[S] <= ga[T] - gb[T]
    BY ONLY <1>1, <1>2, <1>11, <1>12, IsFiniteSet(T), S \in SUBSET T, PartDiffersLess
<1> QED BY <1>11, <1>12, <1>13, <1>14, <1>15, <1>16, <1>17

\* One more false acceptance moves the source's side of the comparison less
\* than the pool's.
LEMMA MarginShrinks ==
    ASSUME NEW A \in Nat, NEW c \in Nat, NEW P \in Nat, NEW C \in Nat, c <= C,
           20 * (c + 1) * (P + 2) < (20 * (C + 1) + (P + 2)) * (A + 2)
    PROVE  20 * (c + 1) * (P + 3) < (20 * (C + 1) + (P + 3)) * (A + 3)
<1> DEFINE u == 20 * (c + 1)
           v == 20 * (C + 1)
           m == u * (P + 2)
           w == v + (P + 2)
           k == w * (A + 2)
<1>1. u \in Nat /\ v \in Nat /\ u <= v
    OBVIOUS
<1>2. u * (P + 3) = m + u
    <2> HIDE DEF u
    <2> QED BY <1>1
<1>3. w \in Nat
    OBVIOUS
<1>4. (v + (P + 3)) * (A + 3) = k + w + (A + 3)
    <2>1. v + (P + 3) = w + 1
        BY <1>1
    <2> HIDE DEF w
    <2>2. (w + 1) * (A + 3) = w * (A + 2) + w + (A + 3)
        BY <1>3
    <2> QED BY <2>1, <2>2
<1>5. m \in Nat /\ k \in Nat /\ m < k
    <2>1. m < k
        OBVIOUS
    <2> HIDE DEF u, w
    <2> QED BY <1>1, <1>3, <2>1
<1> HIDE DEF m, k
<1>6. m + u < k + w + (A + 3)
    <2>1. w >= v
        BY <1>1
    <2> HIDE DEF u, v, w
    <2> QED BY <1>1, <1>3, <1>5, <2>1
<1> QED BY <1>2, <1>4, <1>6

LEMMA TypeMeansNothingEarned ==
    ASSUME CLTypeOK
    PROVE  FalseAcceptanceEarnsNothing
<1> SUFFICES ASSUME NEW source \in Reported(Sources),
                    EntryOf(Sources, source).accepted >= MinAcceptedForTrust,
                    ~BeatsPooledBaseline(EntryOf(Sources, source), Pooled(Sources))
             PROVE  ~BeatsPooledBaseline(WithFalseAcceptance(EntryOf(Sources, source)),
                                         WithFalseAcceptance(Pooled(Sources)))
    BY DEF FalseAcceptanceEarnsNothing
<1> DEFINE T == Entries(Sources)
           S == RowsOf(Sources, {source})
           e == EntryOf(Sources, source)
           o == Pooled(Sources)
<1>1. "source-reliability" \in Ledgers
      /\ Sources \in [Days -> Seq(ChunksOf("source-reliability"))]
    BY DEF CLTypeOK, Sources, Ledgers
<1>2. IsFiniteSet(T)
    BY <1>1, EntriesAreFinite
<1>3. S \in SUBSET T
    BY DEF RowsOf
<1>4. \A x \in T : RecordAt(Sources, x) \in ReliabilityRecords
    <2>1. \A x \in T : RecordAt(Sources, x) \in RecordsOf("source-reliability")
        BY <1>1, EntryIs
    <2> QED BY <2>1 DEF RecordsOf
<1>5. \A x \in T : /\ RecordAt(Sources, x).accepted \in Nat
                   /\ RecordAt(Sources, x).false_acceptances \in Nat
                   /\ RecordAt(Sources, x).false_acceptances <= RecordAt(Sources, x).accepted
    BY <1>4, RowsAreTallies
<1>6. e = Entry(Sources, S) /\ o = Entry(Sources, T)
    BY DEF EntryOf, Pooled
<1> HIDE DEF T, S, e, o
<1>7. /\ e.accepted \in Nat /\ e.false_acceptances \in Nat
      /\ o.accepted \in Nat /\ o.false_acceptances \in Nat
      /\ e.false_acceptances <= e.accepted
      /\ o.false_acceptances <= o.accepted
      /\ e.accepted - e.false_acceptances <= o.accepted - o.false_acceptances
    BY ONLY <1>2, <1>3, <1>5, <1>6, PartIsNoMore
<1> DEFINE A == e.accepted
           P == o.accepted
           c == e.accepted - e.false_acceptances
           C == o.accepted - o.false_acceptances
<1>8. A \in Nat /\ P \in Nat /\ c \in Nat /\ C \in Nat /\ c <= C
    BY <1>7
<1>9. \A n \in Nat : Max({0, n}) = n
    <2> SUFFICES ASSUME NEW n \in Nat PROVE Max({0, n}) = n
        OBVIOUS
    <2>1. Max({0, n}) = CHOOSE x \in {0, n} : \A y \in {0, n} : x >= y
        BY DEF Max
    <2>2. n \in {0, n} /\ \A y \in {0, n} : n >= y
        OBVIOUS
    <2>3. \A x \in {0, n} : (\A y \in {0, n} : x >= y) => x = n
        OBVIOUS
    <2> QED BY <2>1, <2>2, <2>3
<1>10. /\ SmoothedNumerator(e) = c + 1 /\ SmoothedDenominator(e) = A + 2
       /\ SmoothedNumerator(o) = C + 1 /\ SmoothedDenominator(o) = P + 2
    BY <1>8, <1>9 DEF SmoothedNumerator, SmoothedDenominator, Correct
<1>11. /\ WithFalseAcceptance(e).accepted = A + 1
       /\ WithFalseAcceptance(e).accepted - WithFalseAcceptance(e).false_acceptances = c
       /\ WithFalseAcceptance(o).accepted = P + 1
       /\ WithFalseAcceptance(o).accepted - WithFalseAcceptance(o).false_acceptances = C
    BY <1>7 DEF WithFalseAcceptance
<1>12. /\ SmoothedNumerator(WithFalseAcceptance(e)) = c + 1
       /\ SmoothedDenominator(WithFalseAcceptance(e)) = A + 3
       /\ SmoothedNumerator(WithFalseAcceptance(o)) = C + 1
       /\ SmoothedDenominator(WithFalseAcceptance(o)) = P + 3
    BY <1>8, <1>9, <1>11 DEF SmoothedNumerator, SmoothedDenominator, Correct
<1>13. A >= MinAcceptedForTrust /\ ~BeatsPooledBaseline(e, o)
    BY DEF e, o
<1> HIDE DEF A, P, c, C
<1>14. ~(20 * (c + 1) * (P + 2) >= (20 * (C + 1) + (P + 2)) * (A + 2))
    BY <1>10, <1>13 DEF BeatsPooledBaseline, A
<1>15. 20 * (c + 1) * (P + 2) < (20 * (C + 1) + (P + 2)) * (A + 2)
    BY <1>8, <1>14
<1>16. 20 * (c + 1) * (P + 3) < (20 * (C + 1) + (P + 3)) * (A + 3)
    BY ONLY <1>8, <1>15, MarginShrinks
<1>17. ~(20 * (c + 1) * (P + 3) >= (20 * (C + 1) + (P + 3)) * (A + 3))
    BY <1>8, <1>16
<1>18. ~BeatsPooledBaseline(WithFalseAcceptance(e), WithFalseAcceptance(o))
    BY <1>12, <1>17 DEF BeatsPooledBaseline
<1> QED BY <1>18 DEF e, o

\* A source that has not earned trust over the pool does not earn it by being
\* believed wrongly once more, whatever the rows that were recorded.
THEOREM FalseAcceptancesEarnNothing == CLSpec => []FalseAcceptanceEarnsNothing
<1>1. CLTypeOK => FalseAcceptanceEarnsNothing
    BY TypeMeansNothingEarned
<1> QED BY <1>1, LedgersHaveType, PTL

-----------------------------------------------------------------------------
(* One resolution for each forecast.                                       *)

\* Whatever is loaded after a write was loaded before, or is what it wrote.
LEMMA EntriesGrow ==
    ASSUME CLTypeOK, NEW l \in Ledgers, NEW day \in Days, NEW chunk \in ChunksOf(l),
           Appends(l, day, chunk), NEW x \in Entries(state'[l])
    PROVE  \/ /\ x \in Entries(state[l])
              /\ RecordAt(state'[l], x) = RecordAt(state[l], x)
           \/ /\ x = <<day, Len(state[l][day]) + 1>>
              /\ chunk = Line(RecordAt(state'[l], x))
<1> DEFINE f == state[l][day]
           n == Len(f)
           g == Append(f, chunk)
<1>1. /\ f \in Seq(ChunksOf(l)) /\ n \in Nat
      /\ state'[l][day] = g /\ Len(g) = n + 1 /\ g[n + 1] = chunk
      /\ \A i \in 1 .. n : g[i] = f[i]
      /\ \A d \in Days : d # day => state'[l][d] = state[l][d]
    <2>1. state'[l][day] = g /\ Len(state'[l][day]) = n + 1 /\ state'[l][day][n + 1] = chunk
        BY AppendFacts
    <2>2. \A i \in 1 .. n : state'[l][day][i] = f[i]
        BY AppendFacts
    <2>3. f \in Seq(ChunksOf(l)) /\ n \in Nat
          /\ \A d \in Days : d # day => state'[l][d] = state[l][d]
        BY AppendFacts
    <2> QED BY <2>1, <2>2, <2>3
<1>2. DOMAIN state[l] = Days /\ state'[l] \in [Days -> Seq(ChunksOf(l))]
    BY AppendsTypes DEF CLTypeOK
<1>3. /\ x[1] \in Days /\ x[2] \in Readable(state'[l][x[1]]) /\ x = <<x[1], x[2]>>
      /\ state'[l][x[1]][x[2]] = Line(RecordAt(state'[l], x))
    BY <1>2, EntryIs
<1> HIDE DEF f, n, g
<1>4. CASE x[1] # day
    <2>1. state'[l][x[1]] = state[l][x[1]]
        BY <1>1, <1>3, <1>4
    <2>2. x \in Entries(state[l])
        BY <1>2, <1>3, <2>1 DEF Entries
    <2>3. RecordAt(state'[l], x) = RecordAt(state[l], x)
        BY <2>1 DEF RecordAt
    <2> QED BY <2>2, <2>3
<1>5. CASE x[1] = day
    <2> PICK i : i = x[2]
        OBVIOUS
    <2>1. /\ i \in DOMAIN g /\ g[i].kind = "line"
          /\ i > 1 => g[i - 1] = Newline
          /\ i < n + 1 => g[i + 1] = Newline
        BY <1>1, <1>3, <1>5 DEF Readable
    <2>2. g \in Seq(ChunksOf(l))
        BY <1>1 DEF g
    <2>3. i \in 1 .. n + 1
        BY <1>1, <2>1, <2>2
    <2>4. CASE i = n + 1
        BY <1>1, <1>3, <1>5, <2>4 DEF n, f
    <2>5. CASE i \in 1 .. n
        <3>0. DOMAIN f = 1 .. n
            BY <1>1 DEF n
        <3>1. g[i] = f[i] /\ i \in DOMAIN f
            BY <1>1, <2>5, <3>0
        <3>2. i > 1 => f[i - 1] = Newline
            BY <1>1, <2>1, <2>5
        <3>3. i < Len(f) => f[i + 1] = Newline
            <4> SUFFICES ASSUME i < Len(f) PROVE f[i + 1] = Newline
                OBVIOUS
            <4>1. i + 1 \in 1 .. n /\ i < n + 1
                BY <1>1, <2>5 DEF n
            <4> QED BY <1>1, <2>1, <4>1
        <3>4. i \in Readable(f)
            BY <2>1, <3>1, <3>2, <3>3 DEF Readable
        <3>5. x = <<day, i>> /\ f = state[l][day] /\ day \in DOMAIN state[l]
            BY <1>2, <1>3, <1>5 DEF f
        <3>6. x \in Entries(state[l])
            BY <3>4, <3>5 DEF Entries
        <3>7. RecordAt(state'[l], x) = RecordAt(state[l], x)
            <4>1. state'[l][x[1]][x[2]] = state[l][x[1]][x[2]]
                BY <1>1, <1>5, <3>1 DEF f
            <4> QED BY <4>1 DEF RecordAt
        <3> QED BY <3>6, <3>7
    <2> QED BY <1>1, <2>3, <2>4, <2>5
<1> QED BY <1>4, <1>5

\* No forecast has two resolutions on record, and what a process is to write
\* are resolutions of different forecasts, none of which is on record.
Scores(dir, x, id) ==
    x \in Entries(dir) /\ RecordAt(dir, x).id = id /\ ~Pending(RecordAt(dir, x))
ScoredOnce(dir) == \A x, y, id : Scores(dir, x, id) /\ Scores(dir, y, id) => x = y
Unscored(writer, dir) ==
    \A i \in 1 .. Len(writer.queue) :
        /\ \A j \in 1 .. Len(writer.queue) :
            writer.queue[i].id = writer.queue[j].id => i = j
        /\ (i = 1 => ~writer.half) /\ ~Pending(writer.queue[i]) =>
            \A x : ~Scores(dir, x, writer.queue[i].id)
ScoreInv ==
    "forecasts" \notin overlapped =>
        /\ ScoredOnce(Forecasts)
        /\ \A p \in Procs : Writing(p, "forecasts") => Unscored(process[p], Forecasts)

\* An invariant of the ledger, as long as a step adds no resolution to it.
LEMMA ScoreInvKeeps ==
    ASSUME ScoreInv, overlapped \subseteq overlapped',
           \A x, id : Scores(Forecasts', x, id) => Scores(Forecasts, x, id),
           \A q \in Procs : process'[q].ledger = {"forecasts"} =>
                GoesOn(q) \/ Unscored(process'[q], Forecasts)
    PROVE  ScoreInv'
<1> SUFFICES ASSUME "forecasts" \notin overlapped
             PROVE  /\ ScoredOnce(Forecasts')
                    /\ \A p \in Procs : process'[p].ledger = {"forecasts"} =>
                            Unscored(process'[p], Forecasts')
    BY DEF ScoreInv, Writing
<1>1. ScoredOnce(Forecasts')
    BY DEF ScoreInv, ScoredOnce
<1>2. ASSUME NEW p \in Procs, process'[p].ledger = {"forecasts"}
      PROVE  Unscored(process'[p], Forecasts')
    <2>1. Unscored(process'[p], Forecasts)
        BY <1>2 DEF ScoreInv, GoesOn
    <2> QED BY <2>1 DEF Unscored
<1> QED BY <1>1, <1>2

\* An overdue forecast has no resolution on record.
LEMMA OverdueIsUnscored ==
    ASSUME CLTypeOK, OneFileEach(Forecasts), NEW now, NEW id \in Overdue(Forecasts, now),
           NEW x, Scores(Forecasts, x, id)
    PROVE  FALSE
<1> DEFINE y == Latest(Versions(Forecasts, id))
           r == RecordAt(Forecasts, x)
           s == RecordAt(Forecasts, y)
<1>1. id \in Recorded(Forecasts) /\ Pending(Loaded(Forecasts, id))
    BY DEF Overdue
<1>2. x \in Versions(Forecasts, id) /\ x \in Entries(Forecasts)
      /\ ~Pending(r) /\ r.id = id
    BY DEF Scores, Versions
<1>3. /\ y \in Entries(Forecasts) /\ s = Loaded(Forecasts, id) /\ s.id = id
      /\ x # y => Precedes(x, y)
    BY <1>1, <1>2, LoadedIs, ForecastsHaveType
<1>4. /\ x[1] \in Days /\ x[2] \in Nat
      /\ r \in ForecastRecords /\ Holds(Forecasts, x[1], x[2], r)
    BY <1>2, EntryHolds
<1>5. /\ y[1] \in Days /\ y[2] \in Nat
      /\ s \in ForecastRecords /\ Holds(Forecasts, y[1], y[2], s)
    <2> HIDE DEF y
    <2> QED BY <1>3, EntryHolds
<1>6. x # y
    BY <1>1, <1>2, <1>3
<1> HIDE DEF y, s, r
<1>7. x[1] = y[1] /\ (x[2] < y[2] => ~Pending(s))
    BY <1>2, <1>3, <1>4, <1>5 DEF OneFileEach
<1>8. x[2] < y[2]
    <2>0. Days \subseteq Nat
        BY TodayIsADay DEF CLTypeOK
    <2>1. Precedes(x, y)
        BY <1>3, <1>6
    <2>2. x[1] = y[1] /\ x[1] \in Nat
        BY <1>4, <1>7, <2>0
    <2> QED BY ONLY <2>1, <2>2 DEF Precedes
<1> QED BY <1>1, <1>3, <1>7, <1>8

LEMMA ScoreInvStart ==
    ASSUME CLTypeOK, ForecastInv, ScoreInv, NEW p \in Procs, NEW l \in Ledgers,
           NEW records, Starts(p, l, records)
    PROVE  ScoreInv'
<1>0. /\ process'[p] = [ledger |-> {l}, queue |-> records, half |-> FALSE]
      /\ \A q \in Procs \ {p} : process'[q] = process[q]
      /\ Forecasts' = Forecasts /\ overlapped \subseteq overlapped'
    BY DEF Starts, Becomes, Forecasts
<1>1. \A q \in Procs \ {p} : process'[q].ledger = {"forecasts"} => GoesOn(q)
    BY <1>0 DEF GoesOn, Writing
<1>2. \A x, id : Scores(Forecasts', x, id) => Scores(Forecasts, x, id)
    BY <1>0
<1>3. CASE l # "forecasts"
    <2>1. process'[p].ledger # {"forecasts"}
        BY <1>0, <1>3
    <2> QED BY <1>0, <1>1, <1>2, <2>1, ScoreInvKeeps
<1>4. CASE l = "forecasts" /\ Resolves(records)
    <2>1. PICK outcome \in Outcomes : records = Resolutions(Forecasts, outcome, clock)
        BY <1>4 DEF Resolves
    <2>2. clock \in Nat
        BY TodayIsADay DEF CLTypeOK
    <2>3. /\ records \in Seq(ForecastRecords)
          /\ \A i \in DOMAIN records : records[i].id \in Overdue(Forecasts, clock)
          /\ \A i \in DOMAIN records, j \in DOMAIN records :
                records[i].id = records[j].id => i = j
        BY <2>1, <2>2, ResolutionsAre, ForecastsHaveType
    <2>4. DOMAIN records = 1 .. Len(records)
        BY <2>3
    <2>5. \A i \in 1 .. Len(records) : \A x : ~Scores(Forecasts, x, records[i].id)
        BY <2>3, <2>4, OverdueIsUnscored DEF ForecastInv
    <2>6. process'[p].queue = records
        BY <1>0
    <2>7. Unscored(process'[p], Forecasts)
        BY <2>3, <2>4, <2>5, <2>6 DEF Unscored
    <2> QED BY <1>0, <1>1, <1>2, <2>7, ScoreInvKeeps
<1>5. CASE l = "forecasts" /\ Emits(records)
    <2>1. PICK r : records = <<r>> /\ Pending(r)
        BY <1>5 DEF Emits, Emitted, Pending
    <2>2. process'[p].queue = <<r>> /\ Len(<<r>>) = 1 /\ <<r>>[1] = r
        BY <1>0, <2>1
    <2>3. Unscored(process'[p], Forecasts)
        BY <2>1, <2>2 DEF Unscored
    <2> QED BY <1>0, <1>1, <1>2, <2>3, ScoreInvKeeps
<1> QED BY <1>3, <1>4, <1>5 DEF Starts

\* A record is written whose forecast had no resolution on record.
LEMMA ScoreInvLine ==
    ASSUME CLTypeOK, ScoreInv, NEW p \in Procs, "forecasts" \notin overlapped,
           Writer(p, "forecasts"), Sole(p, "forecasts"), PutsLine(p, "forecasts")
    PROVE  ScoreInv'
<1> DEFINE r == Record(p)
           w == process[p]
           v == process'[p]
           new == <<r.day, Len(Forecasts[r.day]) + 1>>
<1>1. /\ v = [ledger |-> {"forecasts"}, queue |-> w.queue, half |-> TRUE]
      /\ \A q \in Procs \ {p} : process'[q] = process[q]
      /\ ~w.half
    BY DEF PutsLine, Becomes
<1>2. w.queue \in Seq(ForecastRecords) /\ w.queue # <<>> /\ r = Head(w.queue)
    BY ForecastsHaveType DEF Writer, Record
<1>3. Len(w.queue) \in Nat /\ 1 \in 1 .. Len(w.queue) /\ r = w.queue[1]
    <2> HIDE DEF w, r
    <2> QED BY <1>2
<1>4. Unscored(w, Forecasts) /\ ScoredOnce(Forecasts)
    BY DEF ScoreInv, Writer
<1>5. \A x \in Entries(Forecasts') :
        \/ x \in Entries(Forecasts) /\ RecordAt(Forecasts', x) = RecordAt(Forecasts, x)
        \/ x = new /\ RecordAt(Forecasts', x) = r
    <2>1. Line(r) \in ChunksOf("forecasts") /\ r.day \in Days
        BY DEF Writer, ChunksOf
    <2>2. Appends("forecasts", r.day, Line(r))
        BY DEF PutsLine
    <2>3. Forecasts = state["forecasts"] /\ Forecasts' = state'["forecasts"]
          /\ "forecasts" \in Ledgers
        BY ForecastsHaveType DEF Forecasts
    <2> HIDE DEF r
    <2> SUFFICES ASSUME NEW x \in Entries(Forecasts')
                 PROVE  \/ x \in Entries(Forecasts)
                           /\ RecordAt(Forecasts', x) = RecordAt(Forecasts, x)
                        \/ x = new /\ RecordAt(Forecasts', x) = r
        OBVIOUS
    <2>4. \/ x \in Entries(Forecasts) /\ RecordAt(Forecasts', x) = RecordAt(Forecasts, x)
          \/ x = new /\ Line(r) = Line(RecordAt(Forecasts', x))
        BY <2>1, <2>2, <2>3, EntriesGrow
    <2> QED BY <2>4, LinesAreRecords
<1> HIDE DEF r, w, v, new
<1>6. \A x, id : Scores(Forecasts', x, id) =>
        Scores(Forecasts, x, id) \/ (x = new /\ id = r.id /\ ~Pending(r))
    BY <1>5 DEF Scores
<1>7. ~Pending(r) => \A x : ~Scores(Forecasts, x, r.id)
    BY <1>1, <1>3, <1>4 DEF Unscored
<1>8. ScoredOnce(Forecasts')
    BY <1>4, <1>6, <1>7 DEF ScoredOnce
<1>9. Unscored(v, Forecasts')
    <2>1. v.queue = w.queue /\ v.half
        BY <1>1
    <2> SUFFICES ASSUME NEW i \in 1 .. Len(w.queue)
                 PROVE  /\ \A j \in 1 .. Len(w.queue) : w.queue[i].id = w.queue[j].id => i = j
                        /\ i # 1 /\ ~Pending(w.queue[i]) =>
                            \A x : ~Scores(Forecasts', x, w.queue[i].id)
        BY <2>1 DEF Unscored
    <2>2. \A j \in 1 .. Len(w.queue) : w.queue[i].id = w.queue[j].id => i = j
        BY <1>4 DEF Unscored
    <2>3. ASSUME i # 1, ~Pending(w.queue[i]), NEW x, Scores(Forecasts', x, w.queue[i].id)
          PROVE  FALSE
        <3>1. ~Scores(Forecasts, x, w.queue[i].id)
            BY <1>4, <2>3 DEF Unscored
        <3>2. w.queue[i].id = w.queue[1].id
            BY <1>3, <1>6, <2>3, <3>1
        <3> QED BY <1>3, <2>2, <2>3, <3>2
    <2> QED BY <2>2, <2>3
<1>10. \A q \in Procs : process'[q].ledger = {"forecasts"} => q = p
    BY <1>1 DEF Sole, Writing
<1> QED BY <1>8, <1>9, <1>10 DEF ScoreInv, Writing, v

\* What is left of a queue is as new as all of it was.
LEMMA RestIsUnscored ==
    ASSUME NEW S, NEW w, w.queue \in Seq(S), Unscored(w, Forecasts), Len(w.queue) > 1,
           NEW v, v.queue = Tail(w.queue)
    PROVE  Unscored(v, Forecasts)
<1> DEFINE q == w.queue
           t == Tail(q)
<1>1. q \in Seq(S)
    OBVIOUS
<1> HIDE DEF q
<1>2. Len(q) \in Nat /\ Len(t) = Len(q) - 1 /\ \A i \in 1 .. Len(t) : t[i] = q[i + 1]
    BY <1>1 DEF q
<1> HIDE DEF t
<1>3. \A i \in 1 .. Len(t) : i + 1 \in 1 .. Len(q) /\ i + 1 # 1 /\ t[i] = q[i + 1]
    BY <1>2
<1>4. v.queue = t
    BY DEF t, q
<1>5. ASSUME NEW i \in 1 .. Len(t), NEW j \in 1 .. Len(t), t[i].id = t[j].id
      PROVE  i = j
    <2>0. \A a \in 1 .. Len(q), b \in 1 .. Len(q) : q[a].id = q[b].id => a = b
        BY DEF Unscored, q
    <2>1. i + 1 = j + 1
        BY ONLY <1>3, <1>5, <2>0
    <2> QED BY <2>1
<1>6. ASSUME NEW i \in 1 .. Len(t), ~Pending(t[i]), NEW x
      PROVE  ~Scores(Forecasts, x, t[i].id)
    BY <1>3, <1>6 DEF Unscored, q
<1> QED BY <1>4, <1>5, <1>6 DEF Unscored

LEMMA ScoreInvStep ==
    CLTypeOK /\ ForecastInv /\ FaultInv /\ ScoreInv /\ [CLNext]_clvars => ScoreInv'
<1> SUFFICES ASSUME CLTypeOK, ForecastInv, FaultInv, ScoreInv, [CLNext]_clvars
             PROVE  ScoreInv'
    OBVIOUS
<1>1. CASE UNCHANGED clvars \/ Tick
    <2>1. Forecasts' = Forecasts /\ process' = process /\ overlapped' = overlapped
        BY <1>1 DEF clvars, Tick, Forecasts
    <2>2. \A q \in Procs : process'[q].ledger = {"forecasts"} => GoesOn(q)
        BY <2>1 DEF GoesOn, Writing
    <2>3. \A x, id : Scores(Forecasts', x, id) => Scores(Forecasts, x, id)
        BY <2>1
    <2> QED BY <2>1, <2>2, <2>3, ScoreInvKeeps
<1>2. ASSUME NEW p \in Procs, NEW l \in Ledgers, Writes(p, l)
      PROVE  ScoreInv'
    <2>0. Writer(p, l) /\ overlapped' = overlapped
        BY <1>2 DEF Writes, PutsLine, PutsNewline, Dies, PutsPart
    <2>1. \A q \in Procs \ {p} : process'[q] = process[q]
        BY <1>2 DEF Writes, PutsLine, PutsNewline, Dies, PutsPart, Becomes
    <2>2. \A q \in Procs \ {p} : process'[q].ledger = {"forecasts"} => GoesOn(q)
        BY <2>1 DEF GoesOn, Writing
    <2>3. CASE l # "forecasts"
        <3>1. Forecasts' = Forecasts
            BY <1>2, <2>3, ForecastsHaveType
               DEF Writes, PutsLine, PutsNewline, Dies, PutsPart, Appends, Forecasts
        <3>2. process'[p].ledger # {"forecasts"}
            BY <1>2, <2>3 DEF Writes, PutsLine, PutsNewline, Dies, PutsPart, Becomes, Rest, Free
        <3>3. \A x, id : Scores(Forecasts', x, id) => Scores(Forecasts, x, id)
            BY <3>1
        <3> QED BY <2>0, <2>2, <3>2, <3>3, ScoreInvKeeps
    <2>4. CASE "forecasts" \in overlapped
        BY <2>0, <2>4 DEF ScoreInv
    <2>5. CASE l = "forecasts" /\ "forecasts" \notin overlapped
        <3>0. Sole(p, "forecasts") /\ Writer(p, "forecasts")
              /\ Unscored(process[p], Forecasts)
            BY <2>0, <2>5 DEF FaultInv, Alone, Sole, Writer, ScoreInv
        <3>1. CASE PutsLine(p, l)
            BY <2>5, <3>0, <3>1, ScoreInvLine
        <3>2. ASSUME NEW chunk \in {Newline, Torn}, NEW day \in Days,
                     Appends("forecasts", day, chunk)
              PROVE  \A x, id : Scores(Forecasts', x, id) => Scores(Forecasts, x, id)
            <4>1. chunk \in ChunksOf("forecasts") /\ \A r : chunk # Line(r)
                BY LinesAreRecords DEF ChunksOf
            <4>2. Forecasts = state["forecasts"] /\ Forecasts' = state'["forecasts"]
                  /\ "forecasts" \in Ledgers
                BY ForecastsHaveType DEF Forecasts
            <4>3. \A x \in Entries(Forecasts') :
                    x \in Entries(Forecasts) /\ RecordAt(Forecasts', x) = RecordAt(Forecasts, x)
                BY <3>2, <4>1, <4>2, EntriesGrow
            <4> QED BY <4>3 DEF Scores
        <3>3. CASE PutsNewline(p, l)
            <4>1. \A x, id : Scores(Forecasts', x, id) => Scores(Forecasts, x, id)
                BY <2>5, <3>0, <3>2, <3>3 DEF PutsNewline, Writer
            <4>2. ASSUME process'[p].ledger = {"forecasts"}
                  PROVE  Unscored(process'[p], Forecasts)
                <5>1. /\ Len(process[p].queue) # 1
                      /\ process'[p].queue = Tail(process[p].queue)
                    BY <2>5, <3>3, <4>2 DEF PutsNewline, Becomes, Rest, Free
                <5> DEFINE q == process[p].queue
                <5>2. q \in Seq(RecordsOf("forecasts")) /\ q # <<>>
                    BY <3>0 DEF Writer
                <5>3. Len(q) # 1
                    BY <5>1
                <5> HIDE DEF q
                <5>4. Len(q) > 1
                    <6>1. PICK n \in Nat : n = Len(q)
                        BY <5>2
                    <6>2. n # 0 /\ n # 1
                        BY <5>2, <5>3, <6>1
                    <6>3. n > 1
                        BY ONLY <6>2, n \in Nat
                    <6> QED BY <6>1, <6>3
                <5> QED BY <3>0, <5>1, <5>2, <5>4, RestIsUnscored DEF q
            <4> QED BY <2>0, <2>2, <4>1, <4>2, ScoreInvKeeps
        <3>4. CASE Dies(p, l)
            <4>1. Forecasts' = Forecasts /\ process'[p].ledger # {"forecasts"}
                BY <2>5, <3>4 DEF Dies, Becomes, Free, Forecasts
            <4>2. \A x, id : Scores(Forecasts', x, id) => Scores(Forecasts, x, id)
                BY <4>1
            <4> QED BY <2>0, <2>2, <4>1, <4>2, ScoreInvKeeps
        <3>5. CASE PutsPart(p, l)
            <4>1. process'[p].ledger # {"forecasts"}
                BY <2>5, <3>5 DEF PutsPart, Becomes, Free
            <4>2. \A x, id : Scores(Forecasts', x, id) => Scores(Forecasts, x, id)
                BY <2>5, <3>0, <3>2, <3>5 DEF PutsPart, Writer
            <4> QED BY <2>0, <2>2, <4>1, <4>2, ScoreInvKeeps
        <3> QED BY <1>2, <3>1, <3>3, <3>4, <3>5 DEF Writes
    <2> QED BY <2>3, <2>4, <2>5
<1> QED BY <1>1, <1>2, ScoreInvStart, StepIs DEF CLStep

LEMMA ScoreInvCounts ==
    ASSUME CLTypeOK, ScoreInv
    PROVE  OneResolution
<1> SUFFICES ASSUME "forecasts" \notin overlapped, NEW id \in Recorded(Forecasts)
             PROVE  Cardinality({x \in Versions(Forecasts, id) :
                                    ~Pending(RecordAt(Forecasts, x))}) <= 1
    BY DEF OneResolution
<1> DEFINE X == {x \in Versions(Forecasts, id) : ~Pending(RecordAt(Forecasts, x))}
<1>1. \A x \in X, y \in X : x = y
    BY DEF ScoreInv, ScoredOnce, Scores, Versions
<1> HIDE DEF X
<1>2. CASE X = {}
    <2>1. Cardinality(X) = 0
        BY <1>2, FS_EmptySet
    <2> QED BY <2>1 DEF X
<1>3. CASE X # {}
    <2>1. PICK x : X = {x}
        BY <1>1, <1>3
    <2>2. Cardinality(X) = 1
        BY <2>1, FS_Singleton
    <2> QED BY <2>2 DEF X
<1> QED BY <1>2, <1>3

\* As long as no two of them overlap, the commands resolve no forecast twice,
\* not even after one that was cut short.
THEOREM ForecastsResolveOnce == CLSpec => []OneResolution
<1>1. CLInit => CLTypeOK /\ ForecastInv /\ FaultInv /\ ScoreInv
    <2> SUFFICES ASSUME CLInit PROVE ScoreInv
        BY CLTypeOKInit, ForecastInvInit, FaultInvInit
    <2>1. Entries(Forecasts) = {}
        <3>1. \A d \in Days : Forecasts[d] = <<>>
            BY DEF CLInit, Forecasts, Ledgers
        <3>2. DOMAIN Forecasts = Days
            BY CLTypeOKInit, ForecastsHaveType
        <3> QED BY <3>1, <3>2 DEF Entries, Readable
    <2>2. \A p \in Procs : ~Writing(p, "forecasts")
        BY DEF CLInit, Writing, Free
    <2> QED BY <2>1, <2>2 DEF ScoreInv, ScoredOnce, Scores
<1>2. CLTypeOK /\ ForecastInv /\ FaultInv /\ ScoreInv /\ [CLNext]_clvars
        => (CLTypeOK /\ ForecastInv /\ FaultInv /\ ScoreInv)'
    BY CLTypeOKStep, ForecastInvStep, FaultInvStep, ScoreInvStep
<1>3. CLTypeOK /\ ScoreInv => OneResolution
    BY ScoreInvCounts
<1> QED BY <1>1, <1>2, <1>3, PTL DEF CLSpec

-----------------------------------------------------------------------------
(* Ledgers nothing has disturbed.                                          *)

\* Undisturbed, a ledger has no line that cannot be read, nor a loose end.
NeatInv == \A l \in Ledgers : Undisturbed(l) => Doomed(l) = {}

LEMMA NeatInvInit == CLInit => NeatInv
<1> SUFFICES ASSUME CLInit, NEW l \in Ledgers, NEW x \in Doomed(l) PROVE FALSE
    BY DEF NeatInv
<1>1. state[l][x[1]] = <<>>
    BY DEF CLInit, Doomed
<1>2. Len(<<>>) = 0 /\ DOMAIN <<>> = {}
    OBVIOUS
<1> QED BY <1>1, <1>2 DEF Doomed, DoomedAt, Loose, LostIn

LEMMA NeatInvStep == CLTypeOK /\ FaultInv /\ NeatInv /\ [CLNext]_clvars => NeatInv'
<1> SUFFICES ASSUME CLTypeOK, FaultInv, NeatInv, [CLNext]_clvars,
                    NEW k \in Ledgers, Undisturbed(k)'
             PROVE  Doomed(k)' \subseteq Doomed(k) /\ Undisturbed(k)
    BY DEF NeatInv
<1>0. process \in [Procs -> ProcessType]
    BY DEF CLTypeOK
<1>1. CASE UNCHANGED clvars \/ Tick
    <2>1. /\ state' = state /\ process' = process
          /\ overlapped' = overlapped /\ faulted' = faulted
        BY <1>1 DEF clvars, Tick
    <2> QED BY <2>1, AccountUntouched DEF Writing, Undisturbed
<1>2. ASSUME NEW p \in Procs, NEW l \in Ledgers, NEW records, Starts(p, l, records)
      PROVE  Doomed(k)' \subseteq Doomed(k) /\ Undisturbed(k)
    <2>1. /\ process'[p] = [ledger |-> {l}, queue |-> records, half |-> FALSE]
          /\ \A q \in Procs \ {p} : process'[q] = process[q]
          /\ state' = state /\ Undisturbed(k)
          /\ ~Busy(p) /\ (k = l => \A q \in Procs : ~Writing(q, l))
        BY <1>2 DEF Starts, Becomes, Undisturbed
    <2>2. CASE k # l
        <3>1. process'[p].ledger # {k} /\ ~Writing(p, k)
            BY <2>1, <2>2 DEF Busy, Writing
        <3> QED BY <2>1, <3>1, AccountUntouched DEF Writing
    <2>3. CASE k = l
        <3>1. \A d : ~Live(k, d)
            BY <2>1, <2>3 DEF Live
        <3>2. \A d \in Days, i \in Nat : DoomedAt(k, d, i)' => DoomedAt(k, d, i)
            BY <2>1, <3>1, UntouchedFile
        <3> QED BY <2>1, <3>2 DEF Doomed
    <2> QED BY <2>2, <2>3
<1>3. ASSUME NEW p \in Procs, NEW l \in Ledgers, Writes(p, l)
      PROVE  Doomed(k)' \subseteq Doomed(k) /\ Undisturbed(k)
    <2>0. Writer(p, l) /\ Writing(p, l) /\ overlapped' = overlapped /\ Undisturbed(k)
        BY <1>3 DEF Writes, Writer, PutsLine, PutsNewline, Dies, PutsPart, Undisturbed
    <2>1. Alone(k)
        BY <2>0 DEF FaultInv, Undisturbed
    <2>2. /\ \A q \in Procs \ {p} : process'[q] = process[q]
          /\ process'[p].ledger = {l} \/ process'[p].ledger = {}
          /\ \A j \in Ledgers \ {l} : state'[j] = state[j]
        BY <1>3 DEF Writes, PutsLine, PutsNewline, Dies, PutsPart, Becomes, Rest, Free, Appends
    <2>3. CASE k # l
        <3>1. process'[p].ledger # {k} /\ ~Writing(p, k)
            BY <2>0, <2>2, <2>3 DEF Writing
        <3> QED BY <2>0, <2>2, <2>3, <3>1, AccountUntouched DEF Writing
    <2>4. CASE k = l
        <3>1. Sole(p, l) /\ Alone(l)
            BY <2>0, <2>1, <2>4 DEF Alone, Sole
        <3>2. PutsLine(p, l) \/ PutsNewline(p, l)
            BY <1>3, <2>4 DEF Writes, Dies, PutsPart, Undisturbed
        <3> QED BY <2>0, <2>4, <3>1, <3>2, LineDooms, NewlineDooms
    <2> QED BY <2>3, <2>4
<1> QED BY <1>1, <1>2, <1>3, StepIs DEF CLStep

\* Undisturbed, a write takes nothing away and adds the record that it writes.
LEMMA NeatEntriesStay ==
    ASSUME CLTypeOK, CLTypeOK', NEW l \in Ledgers, Doomed(l)' = {},
           NEW day \in Days, NEW chunk \in ChunksOf(l), Appends(l, day, chunk)
    PROVE  /\ Entries(state[l]) \subseteq Entries(state'[l])
           /\ \A x \in Entries(state[l]) : RecordAt(state'[l], x) = RecordAt(state[l], x)
           /\ chunk.kind = "line" =>
                <<day, Len(state[l][day]) + 1>> \in Entries(state'[l])
<1>1. /\ state[l] \in [Days -> Seq(ChunksOf(l))]
      /\ state'[l] \in [Days -> Seq(ChunksOf(l))]
    BY DEF CLTypeOK
<1>2. \A d \in Days : \A i \in DOMAIN state'[l][d] :
        state'[l][d][i].kind = "line" => <<d, i>> \in Entries(state'[l])
    <2> SUFFICES ASSUME NEW d \in Days, NEW i \in DOMAIN state'[l][d],
                        state'[l][d][i].kind = "line"
                 PROVE  i \in Readable(state'[l][d])
        BY <1>1 DEF Entries
    <2> SUFFICES ASSUME i \in LostIn(state'[l][d]) PROVE FALSE
        BY DEF LostIn
    <2>1. state'[l][d] \in Seq(ChunksOf(l)) /\ Days \subseteq Nat
        BY <1>1, TodayIsADay DEF CLTypeOK
    <2>2. i \in Nat
        <3> DEFINE f == state'[l][d]
        <3>1. f \in Seq(ChunksOf(l)) /\ i \in DOMAIN f
            BY <2>1
        <3> HIDE DEF f
        <3> QED BY <3>1
    <2>3. DoomedAt(l, d, i)'
        BY DEF DoomedAt
    <2>4. <<d, i>> \in Doomed(l)'
        BY <2>2, <2>3 DEF Doomed
    <2> QED BY <2>4
<1>3. ASSUME NEW x \in Entries(state[l])
      PROVE  x \in Entries(state'[l]) /\ RecordAt(state'[l], x) = RecordAt(state[l], x)
    <2>1. /\ x[1] \in Days /\ x[2] \in Readable(state[l][x[1]]) /\ x = <<x[1], x[2]>>
        BY <1>1, EntryIs
    <2>2. /\ x[2] \in 1 .. Len(state[l][x[1]])
          /\ state[l][x[1]][x[2]].kind = "line"
        BY <1>1, <2>1 DEF Readable
    <2>3. /\ x[2] \in DOMAIN state'[l][x[1]]
          /\ state'[l][x[1]][x[2]] = state[l][x[1]][x[2]]
        <3>1. CASE x[1] # day
            <4>1. state'[l][x[1]] = state[l][x[1]]
                BY <2>1, <3>1, AppendFacts
            <4> QED BY <4>1, <2>1 DEF Readable
        <3>2. CASE x[1] = day
            <4>1. /\ Len(state'[l][day]) = Len(state[l][day]) + 1
                  /\ Len(state[l][day]) \in Nat
                  /\ \A i \in 1 .. Len(state[l][day]) : state'[l][day][i] = state[l][day][i]
                BY AppendFacts
            <4>2. DOMAIN state'[l][day] = 1 .. Len(state'[l][day])
                BY <1>1
            <4> QED BY <2>2, <3>2, <4>1, <4>2
        <3> QED BY <3>1, <3>2
    <2>4. <<x[1], x[2]>> \in Entries(state'[l])
        BY <1>2, <2>1, <2>2, <2>3
    <2> QED BY <2>1, <2>3, <2>4 DEF RecordAt
<1>4. ASSUME chunk.kind = "line"
      PROVE  <<day, Len(state[l][day]) + 1>> \in Entries(state'[l])
    <2>1. /\ Len(state'[l][day]) = Len(state[l][day]) + 1
          /\ Len(state[l][day]) \in Nat
          /\ state'[l][day][Len(state[l][day]) + 1] = chunk
        BY AppendFacts
    <2>2. DOMAIN state'[l][day] = 1 .. Len(state'[l][day])
        BY <1>1
    <2>3. Len(state[l][day]) + 1 \in DOMAIN state'[l][day]
        BY <2>1, <2>2
    <2> QED BY <1>2, <1>4, <2>1, <2>3
<1> QED BY <1>3, <1>4

-----------------------------------------------------------------------------
(* Superseding is no escape.                                               *)

\* Two ledgers that hold the same records of a forecast agree on whether it is
\* overdue.
SameVersions(dir, grown, id) ==
    /\ Versions(grown, id) = Versions(dir, id)
    /\ \A x \in Versions(dir, id) : RecordAt(grown, x) = RecordAt(dir, x)

LEMMA SameVersionsAreDue ==
    ASSUME NEW dir, IsForecasts(dir), NEW grown, NEW id, NEW now,
           SameVersions(dir, grown, id), id \in Overdue(grown, now)
    PROVE  id \in Overdue(dir, now)
<1>1. PICK y \in Entries(grown) : RecordAt(grown, y).id = id
    BY DEF Overdue, Recorded
<1>2. y \in Versions(dir, id)
    BY <1>1 DEF SameVersions, Versions
<1>3. id \in Recorded(dir)
    BY <1>2 DEF Versions, Recorded
<1>4. Latest(Versions(dir, id)) \in Versions(dir, id)
    <2> DEFINE x == Latest(Versions(dir, id))
    <2>1. x \in Entries(dir) /\ RecordAt(dir, x).id = id
        <3>1. x \in Entries(dir) /\ RecordAt(dir, x) = Loaded(dir, id) /\ Loaded(dir, id).id = id
            BY <1>3, LoadedIs DEF IsForecasts
        <3> QED BY <3>1
    <2> HIDE DEF x
    <2>2. x \in Versions(dir, id)
        BY <2>1 DEF Versions
    <2> QED BY <2>2 DEF x
<1>5. Loaded(grown, id) = Loaded(dir, id)
    BY <1>4 DEF SameVersions, Loaded
<1> QED BY <1>3, <1>5 DEF Overdue

\* Whatever was overdue when a process set out to resolve, and is still, is
\* among what the process has to write.
Dues(writer, dir) ==
    \A i \in 1 .. Len(writer.queue) : \A o \in writer.queue[i].resolution :
        \A id \in Overdue(dir, o.resolved_at) :
            \E j \in 1 .. Len(writer.queue) :
                writer.queue[j].id = id /\ (writer.half => j # 1)
DueInv ==
    Undisturbed("forecasts") =>
        \A p \in Procs : Writing(p, "forecasts") => Dues(process[p], Forecasts)

\* An invariant of the ledger, as long as a step makes no forecast overdue.
NothingFallsDue(dir, grown) ==
    \A now, id : id \in Overdue(grown, now) => id \in Overdue(dir, now)

LEMMA DuesKeep ==
    ASSUME NEW writer, NEW dir, NEW grown, Dues(writer, dir), NothingFallsDue(dir, grown)
    PROVE  Dues(writer, grown)
BY DEF Dues, NothingFallsDue

LEMMA DueInvKeeps ==
    ASSUME DueInv, Undisturbed("forecasts")' => Undisturbed("forecasts"),
           NothingFallsDue(Forecasts, Forecasts'),
           \A q \in Procs : process'[q].ledger = {"forecasts"} =>
                GoesOn(q) \/ Dues(process'[q], Forecasts)
    PROVE  DueInv'
<1> SUFFICES ASSUME Undisturbed("forecasts")', NEW q \in Procs,
                    process'[q].ledger = {"forecasts"}
             PROVE  Dues(process'[q], Forecasts')
    BY DEF DueInv, Writing
<1>1. Dues(process'[q], Forecasts)
    BY DEF DueInv, GoesOn
<1> QED BY <1>1, DuesKeep

LEMMA DueInvStart ==
    ASSUME CLTypeOK, DueInv, NEW p \in Procs, NEW l \in Ledgers,
           NEW records, Starts(p, l, records)
    PROVE  DueInv'
<1>0. /\ process'[p] = [ledger |-> {l}, queue |-> records, half |-> FALSE]
      /\ \A q \in Procs \ {p} : process'[q] = process[q]
      /\ Forecasts' = Forecasts
      /\ Undisturbed("forecasts")' => Undisturbed("forecasts")
    BY DEF Starts, Becomes, Forecasts, Undisturbed
<1>1. \A q \in Procs \ {p} : process'[q].ledger = {"forecasts"} => GoesOn(q)
    BY <1>0 DEF GoesOn, Writing
<1>2. NothingFallsDue(Forecasts, Forecasts')
    BY <1>0 DEF NothingFallsDue
<1>3. CASE l # "forecasts"
    <2>1. process'[p].ledger # {"forecasts"}
        BY <1>0, <1>3
    <2> QED BY <1>0, <1>1, <1>2, <2>1, DueInvKeeps
<1>4. CASE l = "forecasts" /\ Resolves(records)
    <2>1. PICK outcome \in Outcomes : records = Resolutions(Forecasts, outcome, clock)
        BY <1>4 DEF Resolves
    <2>2. clock \in Nat
        BY TodayIsADay DEF CLTypeOK
    <2>3. /\ records \in Seq(ForecastRecords)
          /\ \A i \in DOMAIN records :
                /\ records[i].id \in Overdue(Forecasts, clock)
                /\ records[i] = Resolved(Loaded(Forecasts, records[i].id), outcome, clock)
          /\ \A id \in Overdue(Forecasts, clock) : \E i \in DOMAIN records : records[i].id = id
        <3>1. Forecasts \in [Days -> Seq(ChunksOf("forecasts"))]
            BY ForecastsHaveType
        <3> DEFINE rs == Resolutions(Forecasts, outcome, clock)
        <3>2. /\ rs \in Seq(ForecastRecords)
              /\ \A i \in DOMAIN rs :
                    /\ rs[i].id \in Overdue(Forecasts, clock)
                    /\ rs[i] = Resolved(Loaded(Forecasts, rs[i].id), outcome, clock)
              /\ \A id \in Overdue(Forecasts, clock) : \E i \in DOMAIN rs : rs[i].id = id
            BY <2>2, <3>1, ResolutionsAre, Zenon
        <3> HIDE DEF rs
        <3>3. records = rs
            BY <2>1 DEF rs
        <3> QED BY <3>2, <3>3, Zenon
    <2>4. DOMAIN records = 1 .. Len(records)
        BY <2>3
    <2>5. ASSUME NEW i \in DOMAIN records, NEW o \in records[i].resolution
          PROVE  o.resolved_at = clock
        <3>1. Loaded(Forecasts, records[i].id) \in ForecastRecords
            BY <2>3, LoadedIs, ForecastsHaveType DEF Overdue
        <3>2. PICK v \in ForecastRecords : records[i] = Resolved(v, outcome, clock)
            BY <2>3, <3>1
        <3>3. records[i].resolution = {[resolved_at |-> clock, outcome |-> outcome]}
            BY <3>2 DEF Resolved, ForecastRecords
        <3> QED BY <2>5, <3>3
    <2>6. process'[p].queue = records /\ ~process'[p].half
        BY <1>0
    <2>7. Dues(process'[p], Forecasts)
        BY <2>3, <2>4, <2>5, <2>6 DEF Dues
    <2> QED BY <1>0, <1>1, <1>2, <2>7, DueInvKeeps
<1>5. CASE l = "forecasts" /\ Emits(records)
    <2>1. PICK r : records = <<r>> /\ r.resolution = {}
        BY <1>5 DEF Emits, Emitted
    <2>2. process'[p].queue = <<r>> /\ Len(<<r>>) = 1 /\ <<r>>[1] = r
        BY <1>0, <2>1
    <2>3. Dues(process'[p], Forecasts)
        BY <2>1, <2>2 DEF Dues
    <2> QED BY <1>0, <1>1, <1>2, <2>3, DueInvKeeps
<1> QED BY <1>3, <1>4, <1>5 DEF Starts

\* A newline changes nothing of what is loaded.
LEMMA NewlineLoadsNothing ==
    ASSUME CLTypeOK, CLTypeOK', NEW l \in Ledgers, Doomed(l)' = {},
           NEW p \in Procs, Writer(p, l), PutsNewline(p, l)
    PROVE  /\ Entries(state'[l]) = Entries(state[l])
           /\ \A x \in Entries(state[l]) : RecordAt(state'[l], x) = RecordAt(state[l], x)
<1>1. Newline \in ChunksOf(l) /\ Record(p).day \in Days
    BY DEF ChunksOf, Writer
<1>2. Appends(l, Record(p).day, Newline)
    BY DEF PutsNewline
<1>3. Entries(state[l]) \subseteq Entries(state'[l])
      /\ \A x \in Entries(state[l]) : RecordAt(state'[l], x) = RecordAt(state[l], x)
    BY <1>1, <1>2, NeatEntriesStay
<1>4. \A x \in Entries(state'[l]) : x \in Entries(state[l])
    <2> SUFFICES ASSUME NEW x \in Entries(state'[l]) PROVE x \in Entries(state[l])
        OBVIOUS
    <2>1. Newline # Line(RecordAt(state'[l], x))
        BY LinesAreRecords
    <2> QED BY <1>1, <1>2, <2>1, EntriesGrow
<1> QED BY <1>3, <1>4

LEMMA NewlineMakesNothingDue ==
    ASSUME CLTypeOK, CLTypeOK', Doomed("forecasts")' = {},
           NEW p \in Procs, Writer(p, "forecasts"), PutsNewline(p, "forecasts")
    PROVE  NothingFallsDue(Forecasts, Forecasts')
<1>1. /\ Entries(Forecasts') = Entries(Forecasts)
      /\ \A x \in Entries(Forecasts) : RecordAt(Forecasts', x) = RecordAt(Forecasts, x)
    BY NewlineLoadsNothing, ForecastsHaveType DEF Forecasts
<1>2. \A id : SameVersions(Forecasts, Forecasts', id)
    BY <1>1 DEF SameVersions, Versions
<1>3. IsForecasts(Forecasts)
    BY ForecastsHaveType DEF IsForecasts
<1> QED BY <1>2, <1>3, SameVersionsAreDue DEF NothingFallsDue

\* The record that is written is the last of its forecast.
LEMMA WrittenIsLoaded ==
    ASSUME CLTypeOK, CLTypeOK', OneFileEach(Forecasts)', DaysAreFiles(Forecasts)',
           NEW x \in Entries(Forecasts'), NEW r, r = RecordAt(Forecasts', x),
           x[2] = Len(Forecasts'[x[1]])
    PROVE  Loaded(Forecasts', r.id) = r
<1> DEFINE V == Versions(Forecasts', r.id)
<1>1. IsForecasts(Forecasts')
    BY DEF CLTypeOK, Ledgers, Forecasts, IsForecasts
<1>2. \A y \in V : /\ y[1] \in Days /\ y[2] \in 1 .. Len(Forecasts'[y[1]])
                   /\ y = <<y[1], y[2]>> /\ y \in Entries(Forecasts')
                   /\ Holds(Forecasts', y[1], y[2], RecordAt(Forecasts', y))
                   /\ RecordAt(Forecasts', y).id = r.id
                   /\ RecordAt(Forecasts', y) \in ForecastRecords
    <2> SUFFICES ASSUME NEW y \in V
                 PROVE  /\ y[1] \in Days /\ y[2] \in 1 .. Len(Forecasts'[y[1]])
                        /\ y = <<y[1], y[2]>> /\ y \in Entries(Forecasts')
                        /\ Holds(Forecasts', y[1], y[2], RecordAt(Forecasts', y))
                        /\ RecordAt(Forecasts', y).id = r.id
                        /\ RecordAt(Forecasts', y) \in ForecastRecords
        OBVIOUS
    <2>1. y \in Entries(Forecasts') /\ RecordAt(Forecasts', y).id = r.id
        BY DEF Versions
    <2>2. /\ y[1] \in Days /\ y[2] \in Readable(Forecasts'[y[1]]) /\ y = <<y[1], y[2]>>
          /\ RecordAt(Forecasts', y) \in ForecastRecords
          /\ Forecasts'[y[1]][y[2]] = Line(RecordAt(Forecasts', y))
        BY <1>1, <2>1, EntryIs DEF IsForecasts, Ledgers, RecordsOf
    <2>3. y[2] \in 1 .. Len(Forecasts'[y[1]])
        BY <1>1, <2>2 DEF IsForecasts, Readable
    <2> QED BY <2>1, <2>2, <2>3 DEF Holds
<1>3. x \in V
    BY DEF Versions
<1> HIDE DEF V
<1>4. Days \subseteq Nat
    BY TodayIsADay DEF CLTypeOK
<1>5. \A y \in V \ {x} : Precedes(y, x)
    <2> SUFFICES ASSUME NEW y \in V, y # x PROVE Precedes(y, x)
        OBVIOUS
    <2>1. y[2] \in Nat /\ x[2] \in Nat
        BY <1>2, <1>3
    <2>2. y[1] = x[1]
        BY <1>2, <1>3, <2>1 DEF OneFileEach
    <2>3. y[2] \in 1 .. Len(Forecasts'[x[1]])
        BY <1>2, <2>2
    <2>4. y[2] # x[2]
        BY <1>2, <1>3, <2>2
    <2>5. y[2] < x[2]
        BY ONLY x[2] = Len(Forecasts'[x[1]]), <2>1, <2>3, <2>4
    <2> QED BY <2>2, <2>5 DEF Precedes
<1>6. V \in SUBSET (Nat \X Nat)
    BY <1>2, <1>4
<1>7. Latest(V) = x
    BY <1>3, <1>5, <1>6, LatestIs
<1> QED BY <1>7 DEF Loaded, V

LEMMA DueInvLine ==
    ASSUME CLTypeOK, CLTypeOK', ForecastInv, ForecastInv', DueInv,
           Undisturbed("forecasts"), Doomed("forecasts")' = {},
           NEW p \in Procs, Writer(p, "forecasts"), Sole(p, "forecasts"),
           PutsLine(p, "forecasts")
    PROVE  DueInv'
<1> DEFINE r == Record(p)
           w == process[p]
           v == process'[p]
           new == <<r.day, Len(Forecasts[r.day]) + 1>>
<1>1. /\ v = [ledger |-> {"forecasts"}, queue |-> w.queue, half |-> TRUE]
      /\ \A q \in Procs \ {p} : process'[q] = process[q]
      /\ ~w.half
    BY DEF PutsLine, Becomes
<1>2. w.queue \in Seq(ForecastRecords) /\ w.queue # <<>> /\ r = Head(w.queue)
      /\ r \in ForecastRecords /\ r.day \in Days
    BY ForecastsHaveType DEF Writer, Record
<1>3. Len(w.queue) \in Nat /\ 1 \in 1 .. Len(w.queue) /\ r = w.queue[1]
    <2> HIDE DEF w, r
    <2> QED BY <1>2
<1>4. Dues(w, Forecasts) /\ QueueFits(p)
    BY DEF DueInv, Writer, ForecastInv
<1>5. /\ Line(r) \in ChunksOf("forecasts") /\ r.day \in Days
      /\ Appends("forecasts", r.day, Line(r))
      /\ Forecasts = state["forecasts"] /\ Forecasts' = state'["forecasts"]
      /\ "forecasts" \in Ledgers
    BY ForecastsHaveType DEF PutsLine, Writer, ChunksOf, Forecasts
<1> HIDE DEF r
<1>6. \A x \in Entries(Forecasts') :
        \/ x \in Entries(Forecasts) /\ RecordAt(Forecasts', x) = RecordAt(Forecasts, x)
        \/ x = new /\ RecordAt(Forecasts', x) = r
    <2> SUFFICES ASSUME NEW x \in Entries(Forecasts')
                 PROVE  \/ x \in Entries(Forecasts)
                           /\ RecordAt(Forecasts', x) = RecordAt(Forecasts, x)
                        \/ x = new /\ RecordAt(Forecasts', x) = r
        OBVIOUS
    <2>1. \/ x \in Entries(Forecasts) /\ RecordAt(Forecasts', x) = RecordAt(Forecasts, x)
          \/ x = new /\ Line(r) = Line(RecordAt(Forecasts', x))
        BY <1>5, EntriesGrow
    <2> QED BY <2>1, LinesAreRecords
<1>7. /\ Entries(Forecasts) \subseteq Entries(Forecasts')
      /\ \A x \in Entries(Forecasts) : RecordAt(Forecasts', x) = RecordAt(Forecasts, x)
      /\ new \in Entries(Forecasts')
    <2>1. Line(r).kind = "line"
        BY DEF Line
    <2> QED BY <1>5, <2>1, NeatEntriesStay
<1>8. new \notin Entries(Forecasts) /\ Len(Forecasts'[r.day]) = Len(Forecasts[r.day]) + 1
    <2>1. Len(Forecasts'[r.day]) = Len(Forecasts[r.day]) + 1 /\ Len(Forecasts[r.day]) \in Nat
        BY <1>5, AppendFacts
    <2>2. ASSUME new \in Entries(Forecasts) PROVE FALSE
        <3>1. Holds(Forecasts, new[1], new[2], RecordAt(Forecasts, new))
            BY <2>2, EntryHolds
        <3>2. new[1] = r.day /\ new[2] = Len(Forecasts[r.day]) + 1
            OBVIOUS
        <3> HIDE DEF new
        <3>3. new[2] \in 1 .. Len(Forecasts[r.day])
            BY <3>1, <3>2 DEF Holds
        <3> QED BY ONLY <2>1, <3>2, <3>3
    <2> QED BY <2>1, <2>2
<1>9. RecordAt(Forecasts', new) = r
    BY <1>6, <1>7, <1>8
<1>10. Loaded(Forecasts', r.id) = r
    <2>1. new[2] = Len(Forecasts'[new[1]])
        BY <1>8
    <2>2. OneFileEach(Forecasts)' /\ DaysAreFiles(Forecasts)'
        BY DEF ForecastInv
    <2> HIDE DEF new
    <2> QED BY <1>7, <1>9, <2>1, <2>2, WrittenIsLoaded
<1> HIDE DEF w, v, new
<1>11. ASSUME NEW now, NEW id \in Overdue(Forecasts', now), id # r.id
       PROVE  id \in Overdue(Forecasts, now)
    <2>1. SameVersions(Forecasts, Forecasts', id)
        BY <1>6, <1>7, <1>11 DEF SameVersions, Versions
    <2> QED BY <1>11, <2>1, SameVersionsAreDue, ForecastsHaveType DEF IsForecasts
<1>12. Dues(v, Forecasts')
    <2>1. v.queue = w.queue /\ v.half
        BY <1>1
    <2> SUFFICES ASSUME NEW i \in 1 .. Len(w.queue), NEW o \in w.queue[i].resolution,
                        NEW id \in Overdue(Forecasts', o.resolved_at)
                 PROVE  \E j \in 1 .. Len(w.queue) : w.queue[j].id = id /\ j # 1
        BY <2>1 DEF Dues
    <2>2. ~Pending(r)
        <3> SUFFICES ASSUME Pending(r) PROVE FALSE
            OBVIOUS
        <3>1. Len(w.queue) = 1
            BY <1>3, <1>4 DEF QueueFits, w
        <3>2. i = 1
            BY <3>1
        <3> QED BY <1>3, <3>2 DEF Pending
    <2>3. id # r.id
        BY <1>10, <2>2 DEF Overdue
    <2>4. PICK j \in 1 .. Len(w.queue) : w.queue[j].id = id
        BY <1>4, <1>11, <2>3 DEF Dues
    <2> QED BY <1>3, <2>3, <2>4
<1>13. \A q \in Procs : process'[q].ledger = {"forecasts"} => q = p
    BY <1>1 DEF Sole, Writing
<1> QED BY <1>12, <1>13 DEF DueInv, Writing, v

\* What is left of a queue still has all that is due.
LEMMA RestIsDue ==
    ASSUME NEW S, NEW w, w.queue \in Seq(S), Dues(w, Forecasts), w.half,
           Len(w.queue) > 1, NEW v, v.queue = Tail(w.queue), ~v.half
    PROVE  Dues(v, Forecasts)
<1> DEFINE q == w.queue
           t == Tail(q)
<1>1. q \in Seq(S)
    OBVIOUS
<1> HIDE DEF q
<1>2. Len(q) \in Nat /\ Len(t) = Len(q) - 1 /\ \A i \in 1 .. Len(t) : t[i] = q[i + 1]
    BY <1>1 DEF q
<1> HIDE DEF t
<1>3. \A i \in 1 .. Len(t) : i + 1 \in 1 .. Len(q) /\ t[i] = q[i + 1]
    BY <1>2
<1>4. v.queue = t
    BY DEF t, q
<1>5. ASSUME NEW i \in 1 .. Len(t), NEW o \in t[i].resolution,
             NEW id \in Overdue(Forecasts, o.resolved_at)
      PROVE  \E j \in 1 .. Len(t) : t[j].id = id
    <2>0. i + 1 \in 1 .. Len(w.queue) /\ o \in w.queue[i + 1].resolution
        BY <1>3, <1>5 DEF q
    <2>1. PICK k \in 1 .. Len(q) : q[k].id = id /\ k # 1
        BY <1>5, <2>0 DEF Dues, q
    <2>2. PICK j \in 1 .. Len(t) : k = j + 1
        <3>1. k - 1 \in 1 .. Len(t) /\ k = (k - 1) + 1
            BY <1>2, <2>1
        <3> QED BY <3>1
    <2>3. t[j].id = id
        BY <1>3, <2>1, <2>2
    <2> QED BY <2>3
<1> QED BY <1>4, <1>5 DEF Dues

LEMMA DueInvStep ==
    ASSUME CLTypeOK, CLTypeOK', ForecastInv, ForecastInv', FaultInv, NeatInv', DueInv,
           [CLNext]_clvars
    PROVE  DueInv'
<1>1. CASE UNCHANGED clvars \/ Tick
    <2>1. /\ Forecasts' = Forecasts /\ process' = process
          /\ overlapped' = overlapped /\ faulted' = faulted
        BY <1>1 DEF clvars, Tick, Forecasts
    <2>2. \A q \in Procs : process'[q].ledger = {"forecasts"} => GoesOn(q)
        BY <2>1 DEF GoesOn, Writing
    <2>3. NothingFallsDue(Forecasts, Forecasts')
        BY <2>1 DEF NothingFallsDue
    <2>4. Undisturbed("forecasts")' => Undisturbed("forecasts")
        BY <2>1 DEF Undisturbed
    <2> QED BY <2>2, <2>3, <2>4, DueInvKeeps
<1>2. ASSUME NEW p \in Procs, NEW l \in Ledgers, Writes(p, l)
      PROVE  DueInv'
    <2>0. Writer(p, l) /\ (Undisturbed("forecasts")' => Undisturbed("forecasts"))
        BY <1>2 DEF Writes, PutsLine, PutsNewline, Dies, PutsPart, Undisturbed
    <2>1. \A q \in Procs \ {p} : process'[q] = process[q]
        BY <1>2 DEF Writes, PutsLine, PutsNewline, Dies, PutsPart, Becomes
    <2>2. \A q \in Procs \ {p} : process'[q].ledger = {"forecasts"} => GoesOn(q)
        BY <2>1 DEF GoesOn, Writing
    <2>3. CASE l # "forecasts"
        <3>1. Forecasts' = Forecasts
            BY <1>2, <2>3, ForecastsHaveType
               DEF Writes, PutsLine, PutsNewline, Dies, PutsPart, Appends, Forecasts
        <3>2. process'[p].ledger # {"forecasts"}
            BY <1>2, <2>3 DEF Writes, PutsLine, PutsNewline, Dies, PutsPart, Becomes, Rest, Free
        <3>3. NothingFallsDue(Forecasts, Forecasts')
            BY <3>1 DEF NothingFallsDue
        <3> QED BY <2>0, <2>2, <3>2, <3>3, DueInvKeeps
    <2>4. CASE ~Undisturbed("forecasts")'
        BY <2>4 DEF DueInv
    <2>5. CASE l = "forecasts" /\ Undisturbed("forecasts")'
        <3>0. /\ Writer(p, "forecasts") /\ Sole(p, "forecasts") /\ Undisturbed("forecasts")
              /\ Doomed("forecasts")' = {} /\ Dues(process[p], Forecasts)
            BY <2>0, <2>5, ForecastsHaveType
               DEF FaultInv, Alone, Sole, Writer, NeatInv, DueInv, Undisturbed
        <3>1. CASE PutsLine(p, l)
            BY <2>5, <3>0, <3>1, DueInvLine
        <3>2. CASE PutsNewline(p, l)
            <4>1. NothingFallsDue(Forecasts, Forecasts')
                BY <2>5, <3>0, <3>2, NewlineMakesNothingDue
            <4>2. ASSUME process'[p].ledger = {"forecasts"}
                  PROVE  Dues(process'[p], Forecasts)
                <5>1. /\ Len(process[p].queue) # 1
                      /\ process'[p].queue = Tail(process[p].queue)
                      /\ process[p].half /\ ~process'[p].half
                    BY <2>5, <3>2, <4>2 DEF PutsNewline, Becomes, Rest, Free
                <5> DEFINE q == process[p].queue
                <5>2. q \in Seq(RecordsOf("forecasts")) /\ q # <<>>
                    BY <3>0 DEF Writer
                <5>3. Len(q) # 1
                    BY <5>1
                <5> HIDE DEF q
                <5>4. Len(q) > 1
                    <6>1. PICK n \in Nat : n = Len(q)
                        BY <5>2
                    <6>2. n # 0 /\ n # 1
                        BY <5>2, <5>3, <6>1
                    <6>3. n > 1
                        BY ONLY <6>2, n \in Nat
                    <6> QED BY <6>1, <6>3
                <5> QED BY <3>0, <5>1, <5>2, <5>4, RestIsDue DEF q
            <4> QED BY <2>0, <2>2, <4>1, <4>2, DueInvKeeps
        <3>3. CASE Dies(p, l) \/ PutsPart(p, l)
            BY <2>5, <3>3 DEF Dies, PutsPart, Undisturbed
        <3> QED BY <1>2, <3>1, <3>2, <3>3 DEF Writes
    <2> QED BY <2>3, <2>4, <2>5
<1> QED BY <1>1, <1>2, DueInvStart, StepIs DEF CLStep

\* The step that ends a resolve writes the newline behind its last record.
LEMMA EndsWithNewline ==
    ASSUME CLTypeOK, [CLNext]_clvars, NEW p \in Procs, NEW l \in Ledgers,
           Writing(p, l), ~Busy(p)', Undisturbed(l)'
    PROVE  Writer(p, l) /\ PutsNewline(p, l) /\ Len(process[p].queue) = 1
<1>0. process'[p].ledger = {} /\ process[p].ledger = {l}
    BY DEF Busy, Writing
<1>1. ~(UNCHANGED clvars \/ Tick)
    BY <1>0 DEF clvars, Tick
<1>2. \A q \in Procs, k \in Ledgers : \A records : ~Starts(q, k, records)
    BY <1>0 DEF Starts, Becomes, Busy
<1>3. PICK q \in Procs, k \in Ledgers : Writes(q, k)
    BY <1>1, <1>2, StepIs DEF CLStep
<1>4. q = p
    BY <1>0, <1>3 DEF Writes, PutsLine, PutsNewline, Dies, PutsPart, Becomes
<1>5. k = l
    BY <1>0, <1>3, <1>4 DEF Writes, Writer, Writing
<1>6. PutsNewline(p, l)
    BY <1>0, <1>3, <1>4, <1>5 DEF Writes, PutsLine, Dies, PutsPart, Becomes, Undisturbed
<1>7. Len(process[p].queue) = 1
    BY <1>0, <1>6 DEF PutsNewline, Becomes, Rest
<1> QED BY <1>3, <1>4, <1>5, <1>6, <1>7 DEF Writes

LEMMA NothingEscapes ==
    ASSUME CLTypeOK, CLTypeOK', FaultInv, NeatInv', DueInv, [CLNext]_clvars,
           NEW p \in Procs, Writing(p, "forecasts"), ~Busy(p)', Undisturbed("forecasts")',
           NEW r \in Head(process[p].queue).resolution
    PROVE  Overdue(Forecasts', r.resolved_at) = {}
<1>0. Writer(p, "forecasts") /\ PutsNewline(p, "forecasts") /\ Len(process[p].queue) = 1
    BY EndsWithNewline, ForecastsHaveType
<1>1. Undisturbed("forecasts") /\ process[p].half
    BY <1>0 DEF PutsNewline, Undisturbed
<1>2. Doomed("forecasts")' = {} /\ Dues(process[p], Forecasts)
    BY <1>1, ForecastsHaveType DEF NeatInv, DueInv
<1>3. NothingFallsDue(Forecasts, Forecasts')
    BY <1>0, <1>2, NewlineMakesNothingDue
<1>4. r \in process[p].queue[1].resolution
    <2> DEFINE q == process[p].queue
    <2>1. q \in Seq(RecordsOf("forecasts")) /\ q # <<>> /\ r \in Head(q).resolution
        BY <1>0 DEF Writer
    <2> HIDE DEF q
    <2>2. r \in q[1].resolution
        BY <2>1
    <2> QED BY <2>2 DEF q
<1>5. ASSUME NEW id \in Overdue(Forecasts', r.resolved_at)
      PROVE  FALSE
    <2>1. id \in Overdue(Forecasts, r.resolved_at)
        BY <1>3, <1>5 DEF NothingFallsDue
    <2>2. \E j \in 1 .. 1 : j # 1
        BY <1>0, <1>1, <1>2, <1>4, <2>1 DEF Dues
    <2> QED BY <2>2
<1> QED BY <1>5

\* A resolve that ends undisturbed leaves no forecast overdue as of its start,
\* whether or not another forecast supersedes it.
THEOREM ResolveLeavesNothingDue == CLSpec => SupersedingIsNoEscape
<1> DEFINE IInv == CLTypeOK /\ ForecastInv /\ FaultInv /\ NeatInv /\ DueInv
<1>1. CLInit => IInv
    <2>1. ASSUME CLInit, NEW p \in Procs
          PROVE  ~Writing(p, "forecasts")
        <3>1. process[p] = Free
            BY <2>1 DEF CLInit
        <3>2. process[p].ledger = {}
            BY <3>1 DEF Free
        <3>3. {} # {"forecasts"}
            OBVIOUS
        <3> QED BY <3>2, <3>3 DEF Writing
    <2>2. CLInit => DueInv
        BY <2>1, Zenon DEF DueInv
    <2> QED BY <2>2, CLTypeOKInit, ForecastInvInit, FaultInvInit, NeatInvInit
<1>2. IInv /\ [CLNext]_clvars => IInv'
    BY CLTypeOKStep, ForecastInvStep, FaultInvStep, NeatInvStep, DueInvStep
<1>3. IInv /\ IInv' /\ [CLNext]_clvars =>
        [\A p \in Procs :
            Writing(p, "forecasts") /\ ~Busy(p)' /\ Undisturbed("forecasts")' =>
                \A r \in Head(process[p].queue).resolution :
                    Overdue(Forecasts', r.resolved_at) = {}]_clvars
    BY NothingEscapes
<1> QED BY <1>1, <1>2, <1>3, PTL DEF CLSpec, SupersedingIsNoEscape

-----------------------------------------------------------------------------
(* Acknowledgements silence one surfacing.                                 *)

\* Undisturbed, the operator's ledger ends with the file of the day it is
\* written on, and a command writes one record.
LastFile(day) == \A d \in Days : d > day => Operator[d] = <<>>
OneNote(p) ==
    Len(process[p].queue) = 1 /\ Record(p).day <= Today /\ LastFile(Record(p).day)
OperatorInv ==
    Undisturbed("operator-model") =>
        /\ LastFile(Today)
        /\ \A p \in Procs : Writing(p, "operator-model") => OneNote(p)

LEMMA OperatorHasType ==
    ASSUME CLTypeOK
    PROVE  /\ Operator \in [Days -> Seq(ChunksOf("operator-model"))]
           /\ "operator-model" \in Ledgers
           /\ RecordsOf("operator-model") = OperatorRecords
           /\ Days \subseteq Nat /\ Today \in Nat
<1>1. "operator-model" \in Ledgers
    BY DEF Ledgers
<1>2. Days \subseteq Nat /\ Today \in Days
    BY TodayIsADay DEF CLTypeOK
<1> QED BY <1>1, <1>2 DEF CLTypeOK, Operator, RecordsOf

LEMMA OperatorInvStep ==
    ASSUME CLTypeOK, CLTypeOK', FaultInv, OperatorInv, [CLNext]_clvars
    PROVE  OperatorInv'
<1> SUFFICES ASSUME Undisturbed("operator-model")'
             PROVE  /\ LastFile(Today)'
                    /\ \A p \in Procs : Writing(p, "operator-model")' => OneNote(p)'
    BY DEF OperatorInv
<1>0. /\ Undisturbed("operator-model") => 
            /\ LastFile(Today)
            /\ \A p \in Procs : Writing(p, "operator-model") => OneNote(p)
      /\ Days \subseteq Nat /\ Today \in Nat /\ Today' \in Nat
    <2>1. Today' \in Nat
        <3>1. PICK now \in Nat : now = clock'
            BY CommandLineAssumption DEF CLTypeOK
        <3>2. now \div DayLength \in Nat
            BY CommandLineAssumption, QuotientsGrow
        <3> QED BY <3>1, <3>2 DEF Today
    <2> QED BY <2>1, OperatorHasType DEF OperatorInv
<1>1. CASE UNCHANGED clvars \/ Tick
    <2>1. /\ Operator' = Operator /\ process' = process
          /\ Undisturbed("operator-model")
          /\ clock' = clock \/ clock' = clock + 1
        BY <1>1 DEF clvars, Tick, Operator, Undisturbed
    <2>2. Today <= Today'
        <3>1. clock \in Nat /\ clock' \in Nat /\ clock <= clock'
            BY <2>1 DEF CLTypeOK
        <3>2. DayLength \in Nat \ {0}
            BY CommandLineAssumption
        <3> QED BY ONLY <3>1, <3>2, QuotientsGrow DEF Today
    <2>3. LastFile(Today)'
        <3> SUFFICES ASSUME NEW d \in Days, d > Today' PROVE Operator'[d] = <<>>
            BY DEF LastFile
        <3>1. d > Today
            BY <1>0, <2>2
        <3> QED BY <1>0, <2>1, <3>1 DEF LastFile
    <2>4. ASSUME NEW p \in Procs, Writing(p, "operator-model")'
          PROVE  OneNote(p)'
        <3>1. OneNote(p) /\ Record(p)' = Record(p)
            BY <1>0, <2>1, <2>4 DEF Writing, Record
        <3>2. Record(p).day \in Nat
            BY <1>0, <2>1, <2>4, WriterHolds, OperatorHasType DEF Writing, Writer
        <3> QED BY <1>0, <2>1, <2>2, <3>1, <3>2 DEF OneNote, LastFile
    <2> QED BY <2>3, <2>4
<1>2. ASSUME NEW p \in Procs, NEW l \in Ledgers, NEW records, Starts(p, l, records)
      PROVE  /\ LastFile(Today)'
             /\ \A q \in Procs : Writing(q, "operator-model")' => OneNote(q)'
    <2>1. /\ process'[p] = [ledger |-> {l}, queue |-> records, half |-> FALSE]
          /\ \A q \in Procs \ {p} : process'[q] = process[q]
          /\ Operator' = Operator /\ Today' = Today
          /\ Undisturbed("operator-model")
          /\ l = "operator-model" => Notes(records)
        BY <1>2 DEF Starts, Becomes, Operator, Today, Undisturbed
    <2>2. LastFile(Today)'
        BY <1>0, <2>1 DEF LastFile
    <2>3. ASSUME NEW q \in Procs, Writing(q, "operator-model")', q # p
          PROVE  OneNote(q)'
        BY <1>0, <2>1, <2>3 DEF Writing, OneNote, Record, LastFile
    <2>4. ASSUME Writing(p, "operator-model")'
          PROVE  OneNote(p)'
        <3>1. l = "operator-model"
            BY <2>1, <2>4 DEF Writing
        <3>2. PICK r \in OperatorRecords : records = <<r>> /\ r.day = Today
            BY <2>1, <3>1 DEF Notes
        <3>3. Record(p)' = r /\ Len(process'[p].queue) = 1
            BY <2>1, <3>2 DEF Record
        <3> QED BY <1>0, <2>1, <3>2, <3>3 DEF OneNote, LastFile
    <2> QED BY <2>2, <2>3, <2>4
<1>3. ASSUME NEW p \in Procs, NEW l \in Ledgers, Writes(p, l)
      PROVE  /\ LastFile(Today)'
             /\ \A q \in Procs : Writing(q, "operator-model")' => OneNote(q)'
    <2>1. Writer(p, l) /\ Today' = Today /\ Undisturbed("operator-model")
          /\ \A q \in Procs \ {p} : process'[q] = process[q]
        BY <1>3 DEF Writes, PutsLine, PutsNewline, Dies, PutsPart, Today, Undisturbed, Becomes
    <2>2. CASE l # "operator-model"
        <3>1. Operator' = Operator
            BY <1>3, <2>2, OperatorHasType
               DEF Writes, PutsLine, PutsNewline, Dies, PutsPart, Appends, Operator
        <3>2. process'[p].ledger # {"operator-model"}
            BY <1>3, <2>2 DEF Writes, PutsLine, PutsNewline, Dies, PutsPart, Becomes, Rest, Free
        <3>3. LastFile(Today)'
            BY <1>0, <2>1, <3>1 DEF LastFile
        <3>4. ASSUME NEW q \in Procs, Writing(q, "operator-model")'
              PROVE  OneNote(q)'
            BY <1>0, <2>1, <3>1, <3>2, <3>4 DEF Writing, OneNote, Record, LastFile
        <3> QED BY <3>3, <3>4
    <2>3. CASE l = "operator-model"
        <3>0. /\ OneNote(p) /\ LastFile(Today)
              /\ Record(p).day \in Days /\ Record(p).day \in Nat
              /\ PutsLine(p, l) \/ PutsNewline(p, l)
            BY <1>0, <1>3, <2>1, <2>3 DEF Writes, Writer, Dies, PutsPart, Undisturbed
        <3>1. PICK chunk : Appends("operator-model", Record(p).day, chunk)
            BY <2>3, <3>0 DEF PutsLine, PutsNewline
        <3>2. \A d \in Days : d # Record(p).day => Operator'[d] = Operator[d]
            BY <3>1, OperatorHasType DEF Appends, Operator
        <3>3. \A d \in Days : d > Record(p).day => Operator'[d] = <<>>
            BY <1>0, <3>0, <3>2 DEF OneNote, LastFile
        <3>4. \A d \in Days : d > Today => Operator'[d] = <<>>
            BY <1>0, <3>0, <3>3 DEF OneNote
        <3>5. LastFile(Today)'
            BY <2>1, <3>4 DEF LastFile
        <3>6. ASSUME Writing(p, "operator-model")'
              PROVE  OneNote(p)'
            <4>1. process'[p].queue = process[p].queue
                <5>1. PutsNewline(p, l) => process'[p].ledger = {}
                    BY <3>0 DEF PutsNewline, Becomes, Rest, Free, OneNote
                <5>2. PutsLine(p, l)
                    BY <3>0, <3>6, <5>1 DEF Writing
                <5> QED BY <5>2 DEF PutsLine, Becomes
            <4>2. Record(p)' = Record(p)
                BY <4>1 DEF Record
            <4> QED BY <2>1, <3>0, <3>3, <4>1, <4>2 DEF OneNote, LastFile
        <3>7. ASSUME NEW q \in Procs, Writing(q, "operator-model")', q # p
              PROVE  OneNote(q)'
            <4>1. Writing(q, "operator-model") /\ Writing(p, "operator-model")
                BY <2>1, <2>3, <3>7 DEF Writing, Writer
            <4>2. Alone("operator-model")
                BY <2>1, OperatorHasType DEF FaultInv, Undisturbed
            <4> QED BY <3>7, <4>1, <4>2 DEF Alone
        <3> QED BY <3>5, <3>6, <3>7
    <2> QED BY <2>2, <2>3
<1> QED BY <1>1, <1>2, <1>3, StepIs DEF CLStep

\* A note that is written is the last one on record.
LEMMA NoteIsLast ==
    ASSUME CLTypeOK, FaultInv, OperatorInv, Undisturbed("operator-model"),
           NEW p \in Procs, Writer(p, "operator-model"), process[p].half,
           NEW y \in Entries(Operator),
           NEW x, x = <<Record(p).day, Len(Operator[Record(p).day])>>, y # x
    PROVE  Precedes(y, x)
<1>1. OneNote(p) /\ Record(p).day \in Days /\ Record(p).day \in Nat
    BY OperatorHasType DEF OperatorInv, Writer
<1>2. /\ y[1] \in Days /\ y[1] \in Nat /\ y = <<y[1], y[2]>>
      /\ y[2] \in Readable(Operator[y[1]])
    BY OperatorHasType, EntryIs
<1> PICK d, f : d = y[1] /\ f = Operator[d]
    OBVIOUS
<1>3. f \in Seq(ChunksOf("operator-model")) /\ y[2] \in 1 .. Len(f) /\ f # <<>>
    <2>1. f \in Seq(ChunksOf("operator-model")) /\ y[2] \in DOMAIN f
        BY <1>2, OperatorHasType DEF Readable
    <2> QED BY <2>1
<1>4. y[1] <= Record(p).day
    BY <1>1, <1>2, <1>3 DEF OneNote, LastFile
<1>5. x[1] = Record(p).day /\ x[2] = Len(Operator[Record(p).day])
    OBVIOUS
<1>6. CASE y[1] < Record(p).day
    BY <1>5, <1>6 DEF Precedes
<1>7. CASE y[1] = Record(p).day
    <2>1. x[2] = Len(f) /\ Len(f) \in Nat
        BY <1>3, <1>5, <1>7
    <2>2. y[2] # x[2]
        BY <1>2, <1>5, <1>7
    <2>3. y[2] < x[2]
        BY <1>3, <2>1, <2>2
    <2> QED BY <1>5, <1>7, <2>3 DEF Precedes
<1> QED BY <1>1, <1>2, <1>4, <1>6, <1>7

\* Of what an event does to a signal only its own signal can tell, and only by
\* what kind of event it is, if it is the last of the ledger.
LEMMA LastEventDecides ==
    ASSUME NEW dir \in [Days -> Seq(ChunksOf("operator-model"))],
           NEW x \in Entries(dir), \A y \in Entries(dir) \ {x} : Precedes(y, x),
           NEW e \in OperatorRecords, e = RecordAt(dir, x)
    PROVE  Known(dir, e.signal) /\ ShouldNotify(dir, e.signal) <=> e.event = "surfaced"
<1> DEFINE S == EventsOf(dir, "surfaced", e.signal)
           A == EventsOf(dir, "acknowledged", e.signal)
<1>1. /\ S \subseteq Entries(dir) /\ A \subseteq Entries(dir)
      /\ IsFiniteSet(Entries(dir)) /\ Entries(dir) \in SUBSET (Nat \X Nat)
    BY EntriesAreFinite DEF EventsOf
<1>2. e.event \in {"surfaced", "acknowledged"}
    BY DEF OperatorRecords
<1>3. CASE e.event = "surfaced"
    <2>1. x \in S /\ S # {}
        BY <1>3 DEF EventsOf
    <2> HIDE DEF S
    <2>2. Latest(S) = x
        <3>1. S \in SUBSET (Nat \X Nat) /\ \A y \in S \ {x} : Precedes(y, x)
            BY <1>1
        <3> QED BY <2>1, <3>1, LatestIs
    <2>3. ASSUME NEW y \in A, Precedes(x, y) PROVE FALSE
        <3>1. y \in Entries(dir) /\ x \in Entries(dir)
            BY <1>1
        <3>2. ~Precedes(x, x) /\ (y # x => Precedes(y, x))
            BY <1>1, <3>1, PrecedesIsAnOrder
        <3>3. Precedes(x, x)
            BY <1>1, <2>3, <3>1, <3>2, PrecedesIsAnOrder
        <3> QED BY <3>2, <3>3
    <2>4. ~IsAcknowledged(dir, e.signal)
        BY <2>2, <2>3 DEF IsAcknowledged, Surfacing, S
    <2> QED BY <1>3, <2>1, <2>4 DEF Known, ShouldNotify, S
<1>4. CASE e.event = "acknowledged"
    <2>1. x \in A /\ x \notin S
        BY <1>4 DEF EventsOf
    <2>2. SUFFICES ASSUME S # {} PROVE IsAcknowledged(dir, e.signal)
        BY <1>4 DEF Known, ShouldNotify
    <2> HIDE DEF S
    <2>3. Latest(S) \in S
        <3>1. IsFiniteSet(S) /\ S \in SUBSET (Nat \X Nat)
            BY <1>1, FS_Subset
        <3> QED BY <2>2, <3>1, LatestIsLast
    <2>4. Precedes(Latest(S), x)
        BY <1>1, <2>1, <2>3
    <2> QED BY <2>1, <2>4 DEF IsAcknowledged, Surfacing, S
<1> QED BY <1>2, <1>3, <1>4

\* A newline changes nothing of what the operator is notified of.
LEMMA SameEntriesNotify ==
    ASSUME NEW dir \in [Days -> Seq(ChunksOf("operator-model"))], NEW grown,
           Entries(grown) = Entries(dir),
           \A x \in Entries(dir) : RecordAt(grown, x) = RecordAt(dir, x),
           NEW signal
    PROVE  Known(grown, signal) /\ ShouldNotify(grown, signal) <=>
                Known(dir, signal) /\ ShouldNotify(dir, signal)
<1>1. \A event : EventsOf(grown, event, signal) = EventsOf(dir, event, signal)
    BY DEF EventsOf
<1> QED BY <1>1 DEF Known, ShouldNotify, IsAcknowledged, Surfacing

LEMMA AckSilences ==
    ASSUME CLTypeOK, CLTypeOK', FaultInv, NeatInv, NeatInv', OperatorInv,
           [CLNext]_clvars, NEW p \in Procs, Writing(p, "operator-model"), ~Busy(p)',
           Undisturbed("operator-model")', NEW signal \in Signals
    PROVE  LET e == Head(process[p].queue)
           IN  Notifies(signal)' <=>
                    IF signal = e.signal THEN e.event = "surfaced"
                    ELSE Notifies(signal)
<1> DEFINE x == <<Record(p).day, Len(Operator[Record(p).day])>>
<1>0. Writer(p, "operator-model") /\ PutsNewline(p, "operator-model")
    BY EndsWithNewline, OperatorHasType
<1>1. Undisturbed("operator-model") /\ process[p].half /\ Doomed("operator-model")' = {}
      /\ Doomed("operator-model") = {}
    BY <1>0, OperatorHasType DEF PutsNewline, Undisturbed, NeatInv
<1>2. /\ Entries(Operator') = Entries(Operator)
      /\ \A y \in Entries(Operator) : RecordAt(Operator', y) = RecordAt(Operator, y)
    BY <1>0, <1>1, NewlineLoadsNothing, OperatorHasType DEF Operator
<1>3. Notifies(signal)' <=> Notifies(signal)
    BY <1>2, OperatorHasType, SameEntriesNotify DEF Notifies
<1>4. x \in Entries(Operator) /\ RecordAt(Operator, x) = Record(p)
    <2> PICK r, d, f : r = Record(p) /\ d = r.day /\ f = Operator[d]
        OBVIOUS
    <2>1. d \in Days /\ Writing(p, "operator-model") /\ f \in Seq(ChunksOf("operator-model"))
        BY <1>0, OperatorHasType DEF Writer
    <2>2. Len(f) > 0 /\ f[Len(f)] = Line(r)
        BY <1>1, <2>1, OperatorHasType DEF FaultInv, Alone, Undisturbed, Operator
    <2>3. Len(f) \in DOMAIN f /\ Line(r).kind = "line"
        BY <2>1, <2>2 DEF Line
    <2>4. <<d, Len(f)>> \in Entries(Operator)
        <3>1. Lost(Operator) = {} /\ DOMAIN Operator = Days
            BY <1>1, LostIsDoomed, OperatorHasType DEF Operator
        <3>2. Len(f) \in Readable(f)
            <4> SUFFICES ASSUME Len(f) \notin Readable(f) PROVE FALSE
                OBVIOUS
            <4>1. <<d, Len(f)>> \in Lost(Operator)
                BY <2>1, <2>2, <2>3, <3>1 DEF Lost
            <4> QED BY <3>1, <4>1
        <3> QED BY <2>1, <3>1, <3>2 DEF Entries
    <2>5. RecordAt(Operator, <<d, Len(f)>>) = r
        BY <2>2 DEF RecordAt, Line
    <2> QED BY <2>4, <2>5
<1>5. \A y \in Entries(Operator) \ {x} : Precedes(y, x)
    BY <1>0, <1>1, NoteIsLast
<1>6. Record(p) \in OperatorRecords
    BY <1>0, OperatorHasType DEF Writer
<1> HIDE DEF x
<1>7. Notifies(Record(p).signal) <=> Record(p).event = "surfaced"
    BY <1>4, <1>5, <1>6, OperatorHasType, LastEventDecides DEF Notifies
<1> QED BY <1>3, <1>7 DEF Record

\* Undisturbed, a signal that is surfaced notifies, an acknowledgement silences
\* what came before it, on whatever days the two were written, and neither
\* touches another signal.
THEOREM AcksSilenceOneSurfacing == CLSpec => AckSilencesOneSurfacing
<1> DEFINE IInv == CLTypeOK /\ FaultInv /\ NeatInv /\ OperatorInv
<1>1. CLInit => IInv
    <2>1. CLInit => OperatorInv
        <3> SUFFICES ASSUME CLInit PROVE OperatorInv
            OBVIOUS
        <3>1. \A d \in Days : Operator[d] = <<>>
            BY DEF CLInit, Operator, Ledgers
        <3>2. \A p \in Procs : ~Writing(p, "operator-model")
            BY DEF CLInit, Writing, Free
        <3> QED BY <3>1, <3>2 DEF OperatorInv, LastFile
    <2> QED BY <2>1, CLTypeOKInit, FaultInvInit, NeatInvInit
<1>2. IInv /\ [CLNext]_clvars => IInv'
    BY CLTypeOKStep, FaultInvStep, NeatInvStep, OperatorInvStep
<1>3. IInv /\ IInv' /\ [CLNext]_clvars =>
        [\A p \in Procs :
            Writing(p, "operator-model") /\ ~Busy(p)' /\ Undisturbed("operator-model")' =>
                LET e == Head(process[p].queue)
                IN  \A signal \in Signals :
                        Notifies(signal)' <=>
                            IF signal = e.signal THEN e.event = "surfaced"
                            ELSE Notifies(signal)]_clvars
    BY AckSilences
<1> QED BY <1>1, <1>2, <1>3, PTL DEF CLSpec, AckSilencesOneSurfacing
=============================================================================
