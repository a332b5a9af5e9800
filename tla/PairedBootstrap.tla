-------------------------- MODULE PairedBootstrap --------------------------
(***************************************************************************)
(* hari-core's paired evaluation, from the clusters of a corpus to its     *)
(* verdict: the trace-clustered bootstrap of the difference between two    *)
(* arms, its interval and p-value, and the kill or keep rule applied to    *)
(* them.  Means are integers in units of 1 / MeanScale and alpha is in     *)
(* percent; the intra-class correlation is left out.                       *)
(***************************************************************************)
EXTENDS PairedGrading

CONSTANTS
    Resamples,      \* resamples drawn for one interval
    AlphaPercent,   \* the level of the test, in percent
    MeanScale       \* a multiple of every number of pairs a resample may hold

ASSUME BootstrapAssumption ==
    /\ Resamples \in Nat \ {0}
    /\ AlphaPercent \in 1 .. 99
    /\ MeanScale \in Nat \ {0}

-----------------------------------------------------------------------------
(* Clusters.                                                               *)

Count(b) == IF b THEN 1 ELSE 0
Delta(pair) == Count(pair.treatment_correct) - Count(pair.baseline_correct)

ClusterSize(c) == Cardinality(DOMAIN c.pairs)
ClusterSum(c) == MapThenSumSet(LAMBDA pair : Delta(c.pairs[pair]), DOMAIN c.pairs)

Usable(clusters) == {i \in DOMAIN clusters : DOMAIN clusters[i].pairs # {}}

\* No interval is computed from clusters of different, same or unnamed arms.
BindArms(clusters) ==
    \A i, j \in Usable(clusters) :
        /\ clusters[i].treatment = clusters[j].treatment
        /\ clusters[i].baseline = clusters[j].baseline
        /\ clusters[i].treatment # clusters[i].baseline
        /\ "" \notin {clusters[i].treatment, clusters[i].baseline}

\* The mean delta of all pairs of the clusters drawn.
IsMean(mean, clusters, drawn) ==
    LET total == MapThenSumSet(LAMBDA i : ClusterSum(clusters[drawn[i]]), DOMAIN drawn)
        size == MapThenSumSet(LAMBDA i : ClusterSize(clusters[drawn[i]]), DOMAIN drawn)
    IN  mean * size = MeanScale * total

Means == -MeanScale .. MeanScale
Difference(clusters) ==
    CHOOSE mean \in Means : IsMean(mean, clusters, [i \in Usable(clusters) |-> i])

\* As many clusters as there are, drawn with replacement.
ReachableMeans(clusters) ==
    {mean \in Means :
        \E drawn \in [Usable(clusters) -> Usable(clusters)] :
            IsMean(mean, clusters, drawn)}

Sorted(stats) ==
    \A i, j \in DOMAIN stats : i <= j => stats[i] <= stats[j]

\* Slip: clusters are the same if they hold the same deltas.
SameDeltas(clusters) ==
    \A i, j \in Usable(clusters) : clusters[i].pairs = clusters[j].pairs

\* Then every resample has the same mean.
EveryClusterHasTheSameMean(clusters) ==
    \A i, j \in Usable(clusters) :
        ClusterSum(clusters[i]) * ClusterSize(clusters[j]) =
            ClusterSum(clusters[j]) * ClusterSize(clusters[i])

-----------------------------------------------------------------------------
(* The interval and the p-value of sorted statistics.                      *)

\* Positions of the percentiles, from 1: the floor of alpha / 2 of the
\* resamples, and the ceiling of the rest.
LowIndex == (AlphaPercent * Resamples) \div 200 + 1

\* Slip: the upper percentile is one resample too far.
HighIndexPastIt ==
    Min({Resamples, Resamples - (AlphaPercent * Resamples) \div 200 + 1})

HighIndex == Resamples - (AlphaPercent * Resamples) \div 200

AtMostZero(stats) == {i \in DOMAIN stats : stats[i] <= 0}
AtLeastZero(stats) == {i \in DOMAIN stats : stats[i] >= 0}

CiExcludesZero(stats) ==
    \/ stats[LowIndex] > 0 /\ stats[HighIndex] > 0
    \/ stats[LowIndex] < 0 /\ stats[HighIndex] < 0

\* Twice the smaller tail, each with one resample added, against alpha.
TailBelowAlpha(tail) ==
    200 * (Cardinality(tail) + 1) < AlphaPercent * (Resamples + 1)
PBelowAlpha(stats) ==
    TailBelowAlpha(AtMostZero(stats)) \/ TailBelowAlpha(AtLeastZero(stats))

BootstrapOf(clusters, stats) ==
    [difference |-> Difference(clusters),
     ci_excludes_zero |-> CiExcludesZero(stats),
     p_below_alpha |-> PBelowAlpha(stats),
     zero_between_cluster_variance |-> EveryClusterHasTheSameMean(clusters)]

\* Either tail counts: the rule does not ask which arm is ahead.
DualRulePasses(b) == b.ci_excludes_zero /\ b.p_below_alpha

-----------------------------------------------------------------------------
(* The verdict.                                                            *)

Clause1(bootstrap) ==
    CASE bootstrap = {} -> "undefined"
      [] \E b \in bootstrap : DualRulePasses(b) /\ b.zero_between_cluster_variance ->
            "undefined"
      [] \E b \in bootstrap : DualRulePasses(b) /\ ~b.zero_between_cluster_variance ->
            "passes"
      [] \E b \in bootstrap : ~DualRulePasses(b) -> "fails"

\* The experimental arm's calibration must not be worse than the cheap one's.
Clause2(calibration) ==
    CASE calibration = {} -> "undefined"
      [] \E m \in calibration : m.experimental <= m.subjective_logic -> "passes"
      [] \E m \in calibration : m.experimental > m.subjective_logic -> "fails"

ApplyKillKeep(bootstrap, calibration, provenance) ==
    [clause1 |-> Clause1(bootstrap), clause2 |-> Clause2(calibration),
     verdict |->
        CASE provenance = "authored" -> "withheld"
          [] provenance = "recorded" ->
                IF Clause1(bootstrap) = "passes" /\ Clause2(calibration) = "passes"
                THEN "keep" ELSE "kill"]
=============================================================================
