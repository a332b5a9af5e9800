--------------------------- MODULE PairedGrading ---------------------------
(***************************************************************************)
(* How hari-core grades the report of one replayed trace: the metrics that *)
(* judge a recommendation by what came later, and the score of a fixture's *)
(* labelled decisions, half by half and pair by pair.  A report holds one  *)
(* outcome per event and the final value of each proposition.  Action      *)
(* counts, stability, goal completion and the declared fates of claims are *)
(* left out.                                                               *)
(***************************************************************************)
EXTENDS Recommendations, Sequences, FiniteSets, FiniteSetsExt

Assertions == {"belief_update", "agent_vote"}
Withdrawals == {"retraction", "correction"}

\* claim holds the one proposition the event is about, if it has one; value
\* the one it asserts, if any.
Event(kind, cycle, claim, value) ==
    [kind |-> kind, cycle |-> cycle, claim |-> claim, value |-> value]

\* The outcomes of the events about a proposition.
OutcomesOf(p, outcomes) == {i \in DOMAIN outcomes : outcomes[i].event.claim = {p}}

-----------------------------------------------------------------------------
(* The metrics.                                                            *)

\* Slip: a withdrawal of the same cycle counts.
WithdrawnSince(p, cycle, outcomes) ==
    \E i \in OutcomesOf(p, outcomes) :
        /\ outcomes[i].event.cycle >= cycle
        /\ outcomes[i].event.kind \in Withdrawals

\* Later is what carries a later cycle, wherever it stands in the trace.
WithdrawnAfter(p, cycle, outcomes) ==
    \E i \in OutcomesOf(p, outcomes) :
        /\ outcomes[i].event.cycle > cycle
        /\ outcomes[i].event.kind \in Withdrawals

AcceptWasInvalidated(p, value, cycle, report) ==
    \/ WithdrawnAfter(p, cycle, report.outcomes)
    \/ report.final[p] = Contradictory
    \/ InConflict({value, report.final[p]})

\* The acceptances of one outcome that the report counts as false.
FalseAccepts(i, report) ==
    LET o == report.outcomes[i]
    IN  {a \in Accepts(o.actions) :
            AcceptWasInvalidated(a.topic, a.value, o.event.cycle, report)}

\* Contradictory escalations are laid to the claim of their event.
Escalates(o) == \E a \in o.actions : a.kind = "escalate"
Contradicts(o) ==
    \/ Escalates(o)
    \/ o.event.kind \in Assertions /\ Contradictory \in o.event.value

Contradicted(outcomes) ==
    {p \in UNION {o.event.claim : o \in {outcomes[i] : i \in DOMAIN outcomes}} :
        \E i \in OutcomesOf(p, outcomes) : Contradicts(outcomes[i])}

FirstContradictory(p, outcomes) ==
    outcomes[Min({i \in OutcomesOf(p, outcomes) :
                    Contradicts(outcomes[i])})].event.cycle

\* Slip: only a retraction clears a contradiction.
RecoversByRetraction(o) == o.event.kind = "retraction"

\* A retraction, whatever it leaves, or the absence of an escalation.
Recovers(o) == o.event.kind = "retraction" \/ ~Escalates(o)

RecoveredAt(p, outcomes) ==
    {i \in OutcomesOf(p, outcomes) :
        /\ outcomes[i].event.cycle > FirstContradictory(p, outcomes)
        /\ Recovers(outcomes[i])}

\* The fewest cycles any claim took to recover, if one has.
ContradictionRecoveryCycles(outcomes) ==
    LET recovered == {p \in Contradicted(outcomes) : RecoveredAt(p, outcomes) # {}}
    IN  IF recovered = {} THEN {}
        ELSE {Min({outcomes[Min(RecoveredAt(p, outcomes))].event.cycle
                        - FirstContradictory(p, outcomes) : p \in recovered})}

-----------------------------------------------------------------------------
(* The labelled decisions of a fixture.                                    *)

Halves == {"act", "abstain"}

Label(index, pair, expect) == [index |-> index, pair |-> pair, expect |-> expect]

LabelledPairs(labels) == {labels[i].pair : i \in DOMAIN labels}
Places(labels, pair, half) ==
    {i \in DOMAIN labels : labels[i].pair = pair /\ labels[i].expect = half}
LabelsOf(labels, pair, half) == {labels[i] : i \in Places(labels, pair, half)}
Repeated(labels, pair, half) == Cardinality(Places(labels, pair, half)) > 1

Defect(kind, pair, at) == [kind |-> kind, pair |-> pair, at |-> at]

\* Slip: a pair with one half is skipped without a word.
DefectsOfWholePairs(outcomes, labels, pair) ==
    {Defect("duplicate_half", pair, half) :
        half \in {h \in Halves : Repeated(labels, pair, h)}}
    \cup
    {Defect("event_index_out_of_range", pair, l.expect) :
        l \in {m \in UNION {LabelsOf(labels, pair, h) : h \in Halves} :
                    m.index \notin DOMAIN outcomes}}

\* A pair has one label of each half, and both point into the replay; each
\* check is made of what passed the one before.
PairDefects(outcomes, labels, pair) ==
    LET duplicated == {h \in Halves : Repeated(labels, pair, h)}
        missing == {h \in Halves : LabelsOf(labels, pair, h) = {}}
        astray == {l \in UNION {LabelsOf(labels, pair, h) : h \in Halves} :
                        l.index \notin DOMAIN outcomes}
    IN  IF duplicated # {}
        THEN {Defect("duplicate_half", pair, half) : half \in duplicated}
        ELSE IF missing # {}
        THEN {Defect("missing_half", pair, half) : half \in Halves \ missing}
        ELSE {Defect("event_index_out_of_range", pair, l.expect) : l \in astray}

GradedPairs(outcomes, labels) ==
    {pair \in LabelledPairs(labels) :
        /\ PairDefects(outcomes, labels, pair) = {}
        /\ \A h \in Halves : LabelsOf(labels, pair, h) # {}}

PairOutcome(outcomes, labels, pair) ==
    LET ActedAt(half) ==
            \E l \in LabelsOf(labels, pair, half) : Acted(outcomes[l.index].actions)
    IN  [act_correct |-> ActedAt("act"), abstain_correct |-> ~ActedAt("abstain")]

\* Half credit is not credit.
BothCorrect(outcome) == outcome.act_correct /\ outcome.abstain_correct

ScorePaired(outcomes, labels) ==
    [per_pair |-> [pair \in GradedPairs(outcomes, labels) |->
                        BothCorrect(PairOutcome(outcomes, labels, pair))],
     defects |-> UNION {PairDefects(outcomes, labels, pair) :
                            pair \in LabelledPairs(labels)}]

\* One trace's verdicts under two arms, pair by pair.
ClusterFromArms(trace, treatment, t, baseline, b) ==
    [trace |-> trace, treatment |-> treatment, baseline |-> baseline,
     pairs |-> [pair \in DOMAIN t \cap DOMAIN b |->
                    [treatment_correct |-> t[pair], baseline_correct |-> b[pair]]],
     unmatched |-> (DOMAIN t \cup DOMAIN b) \ (DOMAIN t \cap DOMAIN b)]
=============================================================================
