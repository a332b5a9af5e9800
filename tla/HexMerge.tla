------------------------------ MODULE HexMerge ------------------------------
(***************************************************************************)
(* hari-lattice's merge of hexavalent observations as functions of a set   *)
(* of observations: deduplication by key, staleness, synthesis of          *)
(* contradictions, and the escalation test on the resulting masses.        *)
(*                                                                         *)
(* An observation's evidence string plays no part in any of these and is   *)
(* left out.  Weights are integers, in hundredths of the code's floating   *)
(* point unit and multiples of ten, so that the Belnap multipliers (tenths)*)
(* stay exact.                                                             *)
(***************************************************************************)
EXTENDS HexLattice, FiniteSets, FiniteSetsExt

\* A claim key is an action and an aspect of it; keys are compared
\* lexicographically in the code, here by their position in this order.
CONSTANT ClaimOrder

MergeSource == "demerzel-merge"
MetaConflictAspect == "meta_conflict"

\* The diagnosis an agent emits under.  Distinct diagnoses of one agent only
\* matter as distinct dedup keys, which distinct ordinals already give.
EmittedDiagnosis == [kind |-> "emitted", claim |-> <<>>, parents |-> {}]

DedupKey(o) == <<o.source, o.diagnosis, o.round, o.ordinal>>
DedupKeys(S) == {DedupKey(o) : o \in S}

-----------------------------------------------------------------------------

\* Several versions of one observation slot collapse to one: the least claim
\* key, the least weight, and Contradictory when the variants diverge.
LeastClaim(S) ==
    CHOOSE c \in S : \A d \in S : ClaimOrder[c] <= ClaimOrder[d]

ResolveKeyVersions(versions) ==
    LET variants == {o.variant : o \in versions}
        any == CHOOSE o \in versions : TRUE
    IN  [any EXCEPT
            !.claim = LeastClaim({o.claim : o \in versions}),
            !.weight = Min({o.weight : o \in versions}),
            !.variant = IF Cardinality(variants) = 1 THEN @
                        ELSE Contradictory]

\* Slip: what an earlier merge synthesised is carried in.
BaseEvidenceAndCache(S) == S

\* Synthesised observations are derived cache: they are never carried in.
BaseEvidence(S) == {o \in S : o.source # MergeSource}

Deduplicated(S) ==
    {ResolveKeyVersions({o \in BaseEvidence(S) : DedupKey(o) = k}) :
        k \in DedupKeys(BaseEvidence(S))}

InWindow(S, current, k) ==
    {o \in S : o.round >= Max({0, current - k})}

-----------------------------------------------------------------------------

\* Slip: Probable against False is left out of the table.
BelnapWeightWithoutPF(a, b) ==
    CASE {a, b} = {True, False} -> 10
      [] {a, b} = {True, Doubtful} -> 8
      [] {a, b} = {Probable, Doubtful} -> 5
      [] OTHER -> 0

\* The Belnap-extended table in tenths; 0 where no contradiction arises.
BelnapWeight(a, b) ==
    CASE {a, b} = {True, False} -> 10
      [] {a, b} \in {{True, Doubtful}, {Probable, False}} -> 8
      [] {a, b} = {Probable, Doubtful} -> 5
      [] OTHER -> 0

Synthesis(kind, claim, a, b, weight) ==
    [source |-> MergeSource,
     diagnosis |-> [kind |-> kind, claim |-> claim,
                    parents |-> DedupKeys({a, b})],
     round |-> Min({a.round, b.round}),
     ordinal |-> 0,
     claim |-> claim,
     variant |-> Contradictory,
     weight |-> weight]

ClashDirectly(a, b) ==
    /\ a.source # b.source
    /\ a.claim = b.claim
    /\ a.claim.aspect # MetaConflictAspect
    /\ BelnapWeight(a.variant, b.variant) > 0

DirectContradictions(S) ==
    {Synthesis("direct", p[1].claim, p[1], p[2],
               (BelnapWeight(p[1].variant, p[2].variant)
                    * Min({p[1].weight, p[2].weight})) \div 10) :
        p \in {q \in S \X S : ClashDirectly(q[1], q[2])}}

\* Opposite leanings of two sources on two aspects of one action.
ClashAcrossAspects(pos, neg) ==
    /\ pos.variant \in Positive
    /\ neg.variant \in Negative
    /\ pos.source # neg.source
    /\ pos.claim.action = neg.claim.action
    /\ pos.claim.aspect # neg.claim.aspect

MetaConflicts(S) ==
    {Synthesis("meta",
               [action |-> p[1].claim.action, aspect |-> MetaConflictAspect],
               p[1], p[2], Min({p[1].weight, p[2].weight})) :
        p \in {q \in S \X S : ClashAcrossAspects(q[1], q[2])}}

WithContradictions(S) == S \cup DirectContradictions(S) \cup MetaConflicts(S)

Merge(S, current, k) ==
    WithContradictions(InWindow(Deduplicated(S), current, k))

\* Without a current round the staleness step is skipped: a cutoff of 0.
MergeAll(S) == Merge(S, 0, 0)

\* The observations whose key is tombstoned are dropped before the pipeline.
Surviving(S, tombstoned) == {o \in S : DedupKey(o) \notin tombstoned}
\* Slip: tombstones filter the merged state, after synthesis.
MergeThenFilter(S, tombstoned, current, k) ==
    Surviving(Merge(S, current, k), tombstoned)

MergeWithTombstones(S, tombstoned, current, k) ==
    Merge(Surviving(S, tombstoned), current, k)

-----------------------------------------------------------------------------

WeightOf(o) == o.weight

\* Mass before normalisation: the escalation test is a ratio of two masses.
Mass(S, variants) ==
    MapThenSumSet(WeightOf, {o \in S : o.variant \in variants})

\* Slip: abstentions count in the denominator.
EscalationOfTotal(S) ==
    10 * Mass(S, {Contradictory}) > 3 * Mass(S, HexValues)

\* More than 0.3 of the informative mass is contradictory.  Abstentions are
\* not informative.
EscalationTriggered(S) ==
    10 * Mass(S, {Contradictory}) > 3 * Mass(S, HexValues \ {Unknown})
=============================================================================
