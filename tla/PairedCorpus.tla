---------------------------- MODULE PairedCorpus ---------------------------
(***************************************************************************)
(* The corpus command of hari-core's paired evaluation: check the names of *)
(* the fixtures, load and grade them one by one, bootstrap two comparisons *)
(* of the arms, reconcile the corpus's provenance with the one declared on *)
(* the command line, and publish intervals and verdict, or refuse.         *)
(*                                                                         *)
(* A fixture is what grading makes of it: its name and the corpus its name *)
(* ends in, its provenance stamp, and the pairs that could be graded with  *)
(* each arm's verdict on them (PairedReplay shows that the arms grade the  *)
(* same pairs).  The generator of the bootstrap is any sequence of draws.  *)
(***************************************************************************)
EXTENDS PairedBootstrap

CONSTANTS
    Fixtures,       \* the fixture files there are
    MaxFixtures     \* bound of the model: fixtures named on the command line

ASSUME CorpusAssumption ==
    \A f \in Fixtures :
        /\ f.corpus \in {"isolation", "task", "undeclared"}
        /\ f.stamp \in {"none", "matches", "differs", "unreadable"}
        /\ IsFiniteSet(DOMAIN f.verdicts)

\* Wide enough a scale for the mean of each fixture to be a whole number.
ASSUME ScaleAssumption ==
    \A f \in Fixtures : DOMAIN f.verdicts # {} =>
        \E n \in 1 .. MeanScale : MeanScale = n * Cardinality(DOMAIN f.verdicts)

Provenances == {"authored", "recorded"}

VARIABLES
    paths,          \* the fixtures named, in order
    declared,       \* the provenance declared, if any
    stage,          \* how far the command has come
    loaded,         \* how many fixtures have been graded
    derived,        \* the provenance the stamps give so far
    clause1,        \* the bootstrap of decay against no policy, if it was had
    cheap,          \* the bootstrap of subjective logic against decay, likewise
    decision        \* the published decision, if any

vars == <<paths, declared, stage, loaded, derived, clause1, cheap, decision>>

Init ==
    /\ paths \in UNION {[1 .. n -> Fixtures] : n \in 0 .. MaxFixtures}
    /\ declared \in {{}} \cup {{provenance} : provenance \in Provenances}
    /\ stage = "checking"
    /\ loaded = 0
    /\ derived = "recorded"
    /\ clause1 = {}
    /\ cheap = {}
    /\ decision = {}

Refuse ==
    /\ stage' = "refused"
    /\ UNCHANGED <<paths, declared, loaded, derived, clause1, cheap, decision>>

-----------------------------------------------------------------------------
(* The names, and the fixtures.                                            *)

Corpora == {paths[i].corpus : i \in DOMAIN paths}

CorpusIsSound ==
    /\ paths # <<>>
    /\ "undeclared" \notin Corpora
    /\ ~({"isolation", "task"} \subseteq Corpora)
    /\ \A i, j \in DOMAIN paths : i # j => paths[i].trace # paths[j].trace

CheckCorpus ==
    /\ stage = "checking"
    /\ CorpusIsSound
    /\ stage' = "loading"
    /\ UNCHANGED <<paths, declared, loaded, derived, clause1, cheap, decision>>

RefuseCorpus ==
    /\ stage = "checking"
    /\ ~CorpusIsSound
    /\ Refuse

\* Slip: the last fixture's stamp speaks for the corpus.
DerivedFromLast(stamp) == IF stamp = "none" THEN "authored" ELSE "recorded"

\* One unstamped fixture makes the corpus an authored one.
Derived(stamp) == IF stamp = "none" THEN "authored" ELSE derived

LoadFixture ==
    /\ stage = "loading"
    /\ loaded < Len(paths)
    /\ LET stamp == paths[loaded + 1].stamp
       IN  /\ stamp \in {"none", "matches"}
           /\ derived' = Derived(stamp)
    /\ loaded' = loaded + 1
    /\ UNCHANGED <<paths, declared, stage, clause1, cheap, decision>>

\* A file that cannot be read, or whose trace is not the one stamped.
RefuseFixture ==
    /\ stage = "loading"
    /\ loaded < Len(paths)
    /\ paths[loaded + 1].stamp \in {"unreadable", "differs"}
    /\ Refuse

-----------------------------------------------------------------------------
(* The intervals, and the verdict.                                         *)

VerdictsOf(f, arm) == [pair \in DOMAIN f.verdicts |-> f.verdicts[pair][arm]]

Clusters(treatment, baseline) ==
    [i \in 1 .. loaded |->
        ClusterFromArms(paths[i].trace,
                        treatment, VerdictsOf(paths[i], treatment),
                        baseline, VerdictsOf(paths[i], baseline))]
Clause1Clusters == Clusters("recency_decay", "ix_unassisted")
CheapClusters == Clusters("subjective_logic", "recency_decay")

\* Without a usable cluster there is no interval.
Bootstrap(clusters, result) ==
    IF Usable(clusters) = {} THEN result = {}
    ELSE /\ BindArms(clusters)
         /\ \E stats \in [1 .. Resamples -> ReachableMeans(clusters)] :
                Sorted(stats) /\ result = {BootstrapOf(clusters, stats)}

BootstrapClause1 ==
    /\ stage = "loading"
    /\ loaded = Len(paths)
    /\ Bootstrap(Clause1Clusters, clause1')
    /\ stage' = "comparing"
    /\ UNCHANGED <<paths, declared, loaded, derived, cheap, decision>>

BootstrapCheap ==
    /\ stage = "comparing"
    /\ Bootstrap(CheapClusters, cheap')
    /\ stage' = "deciding"
    /\ UNCHANGED <<paths, declared, loaded, derived, clause1, decision>>

\* A declaration may only agree with the stamps, or decline downward.
Declarable == declared = {"recorded"} => derived = "recorded"
Reconciled == IF declared = {"authored"} THEN "authored" ELSE derived

\* No arm's calibration is known, so clause 2 has nothing to read.
Publish ==
    /\ stage = "deciding"
    /\ Declarable
    /\ decision' = {ApplyKillKeep(clause1, {}, Reconciled)}
    /\ stage' = "published"
    /\ UNCHANGED <<paths, declared, loaded, derived, clause1, cheap>>

RefuseDeclaration ==
    /\ stage = "deciding"
    /\ ~Declarable
    /\ Refuse

Next ==
    \/ CheckCorpus \/ RefuseCorpus
    \/ LoadFixture \/ RefuseFixture
    \/ BootstrapClause1 \/ BootstrapCheap
    \/ Publish \/ RefuseDeclaration

Spec == Init /\ [][Next]_vars

-----------------------------------------------------------------------------

\* A verdict other than a withheld one speaks of recorded traces only: every
\* fixture carried a stamp that its trace agrees with, and nobody declared the
\* corpus authored.
VerdictNeedsRecording ==
    \A d \in decision :
        d.verdict # "withheld" =>
            /\ \A i \in DOMAIN paths : paths[i].stamp = "matches"
            /\ declared # {"authored"}

\* The p-value never claims what the interval does not: whatever was drawn,
\* a p-value below alpha comes with an interval that excludes zero.
SignificanceNeedsTheInterval ==
    \A b \in clause1 \cup cheap : b.p_below_alpha => b.ci_excludes_zero

\* Clause 1 is never passed by the design of the corpus: had the generator
\* drawn otherwise, the statistic could have been another.
PassIsNoArtifact ==
    \A d \in decision :
        d.clause1 = "passes" => Cardinality(ReachableMeans(Clause1Clusters)) > 1

\* What the evaluation's rules say of clause 1: it is passed by an arm that
\* beats the baseline.
ClauseOneNeedsAWin ==
    \A d \in decision :
        d.clause1 = "passes" => \A b \in clause1 : b.difference > 0
=============================================================================
