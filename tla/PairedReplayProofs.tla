------------------------- MODULE PairedReplayProofs ------------------------
(***************************************************************************)
(* Proofs about the pipelines that the paired evaluation replays a trace   *)
(* under.  Of subjective logic, for every set of propositions and every    *)
(* sequence of events: its opinions, its acceptances and what is reported. *)
(* Of the replay: that each arm behaves as it does alone, and what the     *)
(* grading may take from the arms' answers.                                *)
(***************************************************************************)
EXTENDS PairedReplay, BeliefRevisionProofs

-----------------------------------------------------------------------------
(* Subjective logic.                                                       *)

Weights == [for : Nat, against : Nat]

\* A value on the positive side, direct or voted, brings at least seven parts
\* for it to three against.
LEMMA PositiveEvidence ==
    ASSUME NEW v \in Positive, NEW fresh \in {FromHex(v), Discounted(v)}
    PROVE  fresh \in Weights /\ 30 * fresh.for >= 70 * fresh.against
<1>1. v = True \/ v = Probable
    BY DEF Positive
<1>2. CASE v = True
    BY <1>2 DEF FromHex, Discounted, Opinion, Weights, Unit, True, Probable,
                Unknown, Doubtful, False, Contradictory
<1>3. CASE v = Probable
    BY <1>3 DEF FromHex, Discounted, Opinion, Weights, Unit, True, Probable,
                Unknown, Doubtful, False, Contradictory
<1> QED BY <1>1, <1>2, <1>3

\* And one on the negative side the other way round.
LEMMA NegativeEvidence ==
    ASSUME NEW v \in Negative, NEW fresh \in {FromHex(v), Discounted(v)}
    PROVE  fresh \in Weights /\ 30 * fresh.against >= 70 * fresh.for
<1>1. v = False \/ v = Doubtful
    BY DEF Negative
<1>2. CASE v = False
    BY <1>2 DEF FromHex, Discounted, Opinion, Weights, Unit, True, Probable,
                Unknown, Doubtful, False, Contradictory
<1>3. CASE v = Doubtful
    BY <1>3 DEF FromHex, Discounted, Opinion, Weights, Unit, True, Probable,
                Unknown, Doubtful, False, Contradictory
<1> QED BY <1>1, <1>2, <1>3

\* Whatever is heard is evidence.
LEMMA AnyEvidence ==
    ASSUME NEW v \in HexValues, NEW fresh \in {FromHex(v), Discounted(v)}
    PROVE  fresh \in Weights
<1>1. CASE v \in Positive
    BY <1>1, PositiveEvidence
<1>2. CASE v \in Negative
    BY <1>2, NegativeEvidence
<1>3. CASE v = Unknown
    BY <1>3 DEF FromHex, Discounted, Opinion, Weights, Unit, True, Probable,
                Unknown, Doubtful, False, Contradictory
<1>4. CASE v = Contradictory
    BY <1>4 DEF FromHex, Discounted, Opinion, Weights, Unit, True, Probable,
                Unknown, Doubtful, False, Contradictory
<1> QED BY <1>1, <1>2, <1>3, <1>4 DEF HexValues, Positive, Negative

\* Fusing evidence gives evidence.
LEMMA FusionIsEvidence ==
    ASSUME NEW o \in Weights, NEW fresh \in Weights
    PROVE  /\ CumulativeFuse(o, fresh) \in Weights
           /\ CumulativeFuse(o, fresh).for = o.for + fresh.for
           /\ CumulativeFuse(o, fresh).against = o.against + fresh.against
BY DEF CumulativeFuse, Opinion, Weights

\* A claim is accepted on the positive side exactly if its belief is above
\* seven tenths, and on the negative side if its disbelief is.
LEMMA AcceptanceThresholds ==
    ASSUME NEW p, NEW o \in Weights
    PROVE  LET advised == RecommendFromOpinion(p, o)
           IN  /\ (advised.kind = "accept" /\ advised.value \in Positive) <=> Above(o.for, 70, o)
               /\ (advised.kind = "accept" /\ advised.value \in Negative)
                        <=> Above(o.against, 70, o)
<1> DEFINE advised == RecommendFromOpinion(p, o)
<1>0. o.for \in Nat /\ o.against \in Nat
    BY DEF Weights
<1>1. /\ Conflicting(o) => ~Above(o.for, 70, o) /\ ~Above(o.against, 70, o)
      /\ Conflicting(o) => ~Above(PriorWeight, 70, o)
      /\ Above(o.for, 70, o) => ~Above(o.against, 70, o)
      /\ Above(o.for, 70, o) => ~Above(PriorWeight, 70, o)
    BY <1>0 DEF Conflicting, Above, Total, PriorWeight, Unit
<1>2. CASE Conflicting(o)
    <2>1. advised = Action("escalate", p, Contradictory)
        BY <1>1, <1>2 DEF RecommendFromOpinion
    <2> QED BY <2>1, <1>1, <1>2 DEF Action
<1>3. CASE Above(o.for, 70, o)
    <2>1. advised = Action("accept", p, IF AtLeast(o.for, 85, o) THEN True ELSE Probable)
        BY <1>1, <1>3 DEF RecommendFromOpinion
    <2> QED BY <2>1, <1>1, <1>3 DEF Action, Positive, Negative, True, Probable,
                                    False, Doubtful
<1>4. CASE ~Conflicting(o) /\ ~Above(o.for, 70, o) /\ Above(o.against, 70, o)
    <2>1. advised = Action("accept", p, IF AtLeast(o.against, 85, o) THEN False ELSE Doubtful)
        BY <1>4, <1>0 DEF RecommendFromOpinion, Above, Total, PriorWeight, Unit
    <2> QED BY <2>1, <1>4 DEF Action, Positive, Negative, True, Probable,
                              False, Doubtful
<1>5. CASE ~Conflicting(o) /\ ~Above(o.for, 70, o) /\ ~Above(o.against, 70, o)
    <2>1. advised = Action("investigate", p, Unknown) \/ advised = Waiting
        BY <1>5 DEF RecommendFromOpinion
    <2> QED BY <2>1, <1>5 DEF Action, Waiting
<1> QED BY <1>2, <1>3, <1>4, <1>5

\* A claim above a threshold of belief is reported as believed, and one above
\* a threshold of disbelief as disbelieved.
LEMMA ReportFollowsBelief ==
    ASSUME NEW o \in Weights
    PROVE  /\ Above(o.for, 70, o) => HexValueForOpinion(o) \in Positive
           /\ Above(o.against, 70, o) => HexValueForOpinion(o) \in Negative
<1>0. o.for \in Nat /\ o.against \in Nat
    BY DEF Weights
<1>1. CASE Above(o.for, 70, o)
    <2>1. /\ ~Conflicting(o)
          /\ ~Above(PriorWeight, 70, o)
          /\ AtLeast(Projected(o), 55, o)
          /\ ~Above(o.against, 70, o)
        BY <1>0, <1>1 DEF Conflicting, Above, AtLeast, Projected, Total,
                          PriorWeight, Unit
    <2>2. HexValueForOpinion(o) \in {True, Probable}
        BY <2>1 DEF HexValueForOpinion
    <2> QED BY <2>1, <2>2 DEF Positive
<1>2. CASE Above(o.against, 70, o)
    <2>1. /\ ~Conflicting(o)
          /\ ~Above(PriorWeight, 70, o)
          /\ ~AtLeast(Projected(o), 85, o)
          /\ ~AtLeast(Projected(o), 55, o)
          /\ ~AtLeast(Projected(o), 45, o)
          /\ ~Above(o.for, 70, o)
        BY <1>0, <1>2 DEF Conflicting, Above, AtLeast, Projected, Total,
                          PriorWeight, Unit
    <2>2. HexValueForOpinion(o) \in {Doubtful, False}
        BY <2>1 DEF HexValueForOpinion
    <2> QED BY <2>1, <2>2 DEF Negative
<1> QED BY <1>1, <1>2

\* Evidence of the accepted side keeps the share above the threshold.
LEMMA SupportKeepsShare ==
    ASSUME NEW o \in Weights, NEW fresh \in Weights
    PROVE  LET fused == CumulativeFuse(o, fresh)
           IN  /\ Above(o.for, 70, o) /\ 30 * fresh.for >= 70 * fresh.against
                    => Above(fused.for, 70, fused)
               /\ Above(o.against, 70, o) /\ 30 * fresh.against >= 70 * fresh.for
                    => Above(fused.against, 70, fused)
<1>1. /\ o.for \in Nat /\ o.against \in Nat
      /\ fresh.for \in Nat /\ fresh.against \in Nat
    BY DEF Weights
<1> QED BY <1>1, FusionIsEvidence DEF Above, Total, PriorWeight, Unit

-----------------------------------------------------------------------------

LEMMA InitTyped == SLInit => OpinionsTyped
BY DEF SLInit, OpinionsTyped, Vacuous

\* What a fusion or a reset of one proposition leaves typed.
LEMMA UpdateKeepsTypes ==
    ASSUME OpinionsTyped, NEW p \in Claims, NEW o \in Weights,
           opinion' = [opinion EXCEPT ![p] = o], held' = held \cup {p}
    PROVE  OpinionsTyped'
BY DEF OpinionsTyped, Weights

LEMMA NextTyped == OpinionsTyped /\ [SLNext]_slvars => OpinionsTyped'
<1> SUFFICES ASSUME OpinionsTyped, [SLNext]_slvars PROVE OpinionsTyped'
    OBVIOUS
<1>1. ASSUME NEW p \in Claims, NEW v \in HexValues, AssertClaim(p, v) \/ Vote(p, v)
      PROVE  OpinionsTyped'
    <2>1. PICK fresh \in {FromHex(v), Discounted(v)} : Fuse(p, v, fresh)
        BY <1>1 DEF AssertClaim, Vote
    <2>2. opinion[p] \in Weights /\ fresh \in Weights
        BY AnyEvidence DEF OpinionsTyped, Weights
    <2>3. CumulativeFuse(opinion[p], fresh) \in Weights
        BY <2>2, FusionIsEvidence
    <2> QED BY <2>1, <2>3, UpdateKeepsTypes DEF Fuse
<1>2. ASSUME NEW p \in Claims, Retract(p) \/ Correct(p)
      PROVE  OpinionsTyped'
    <2>1. Vacuous \in Weights
        BY DEF Vacuous, Weights
    <2> QED BY <1>2, <2>1, UpdateKeepsTypes DEF Retract, Correct, Reset
<1>3. CASE Ignore \/ UNCHANGED slvars
    BY <1>3 DEF Ignore, slvars, OpinionsTyped
<1> QED BY <1>1, <1>2, <1>3 DEF SLNext

\* Opinions are natural weights, for every set of propositions, and what was
\* never heard of has none (OpinionsTyped).
THEOREM OpinionsAreTyped == SLSpec => []OpinionsTyped
BY InitTyped, NextTyped, PTL DEF SLSpec

\* What is accepted is reported so, whatever the opinions.
LEMMA AcceptanceIsReported == OpinionsTyped => AcceptAgreesWithReport
<1> SUFFICES ASSUME OpinionsTyped, NEW p \in Claims
             PROVE  /\ AcceptedSide(p, Positive) =>
                            HexValueForOpinion(opinion[p]) \in Positive
                    /\ AcceptedSide(p, Negative) =>
                            HexValueForOpinion(opinion[p]) \in Negative
    BY DEF AcceptAgreesWithReport
<1>1. opinion[p] \in Weights
    BY DEF OpinionsTyped, Weights
<1> QED BY <1>1, AcceptanceThresholds, ReportFollowsBelief DEF AcceptedSide

\* A claim that is accepted is reported as of the accepted side, after every
\* sequence of events (AcceptAgreesWithReport).
THEOREM AcceptanceMatchesReport == SLSpec => []AcceptAgreesWithReport
BY AcceptanceIsReported, OpinionsAreTyped, PTL

\* The step behind SupportNeverUnaccepts.
LEMMA SupportStep ==
    ASSUME OpinionsTyped, SLNext,
           NEW p \in Claims, NEW side \in {Positive, Negative},
           AcceptedSide(p, side), heard'.about = {p}, heard'.value \in side
    PROVE  AcceptedSide(p, side)'
<1>0. PICK v \in HexValues :
            \E fresh \in {FromHex(v), Discounted(v)} : Fuse(p, v, fresh)
    <2>1. ASSUME NEW q \in Claims, NEW w \in HexValues, AssertClaim(q, w) \/ Vote(q, w)
          PROVE  q = p /\ \E f \in {FromHex(w), Discounted(w)} : Fuse(p, w, f)
        BY <2>1 DEF AssertClaim, Vote, Fuse
    <2>2. ASSUME NEW q \in Claims, Retract(q) \/ Correct(q)
          PROVE  FALSE
        BY <2>2 DEF Retract, Correct, Reset
    <2>3. CASE Ignore
        BY <2>3 DEF Ignore
    <2> QED BY <2>1, <2>2, <2>3 DEF SLNext
<1>1. PICK fresh \in {FromHex(v), Discounted(v)} : Fuse(p, v, fresh)
    BY <1>0
<1>2. v \in side
    BY <1>1 DEF Fuse
<1>3. opinion[p] \in Weights /\ fresh \in Weights
    BY AnyEvidence DEF OpinionsTyped, Weights
<1> DEFINE fused == CumulativeFuse(opinion[p], fresh)
<1>4. opinion'[p] = fused /\ fused \in Weights
    BY <1>1, <1>3, FusionIsEvidence DEF Fuse, OpinionsTyped
<1>5. CASE side = Positive
    <2>1. Above(opinion[p].for, 70, opinion[p])
        BY <1>3, <1>5, AcceptanceThresholds DEF AcceptedSide
    <2>2. 30 * fresh.for >= 70 * fresh.against
        BY <1>2, <1>5, PositiveEvidence
    <2>3. Above(fused.for, 70, fused)
        BY <2>1, <2>2, <1>3, SupportKeepsShare
    <2> QED BY <2>3, <1>4, <1>5, AcceptanceThresholds DEF AcceptedSide
<1>6. CASE side = Negative
    <2>1. Above(opinion[p].against, 70, opinion[p])
        BY <1>3, <1>6, AcceptanceThresholds DEF AcceptedSide
    <2>2. 30 * fresh.against >= 70 * fresh.for
        BY <1>2, <1>6, NegativeEvidence
    <2>3. Above(fused.against, 70, fused)
        BY <2>1, <2>2, <1>3, SupportKeepsShare
    <2> QED BY <2>3, <1>4, <1>6, AcceptanceThresholds DEF AcceptedSide
<1> QED BY <1>5, <1>6

\* No assertion or vote on the accepted side costs a claim its acceptance,
\* whatever was fused before and in whatever order (SupportNeverUnaccepts).
THEOREM SupportKeepsAcceptance == SLSpec => SupportNeverUnaccepts
<1>1. OpinionsTyped /\ [SLNext]_slvars =>
        [\A p \in Claims, side \in {Positive, Negative} :
            /\ AcceptedSide(p, side)
            /\ heard'.about = {p}
            /\ heard'.value \in side
            => AcceptedSide(p, side)']_slvars
    BY SupportStep
<1> QED BY <1>1, OpinionsAreTyped, PTL DEF SLSpec, SupportNeverUnaccepts

-----------------------------------------------------------------------------
(* Each arm on its own.                                                    *)

\* An event of the trace is an event of the loop.
LEMMA ReplayStepsTheLoop == ReplayNext => Next
<1> SUFFICES ASSUME ReplayNext PROVE Next
    OBVIOUS
<1>0. /\ Claims \subseteq Props
      /\ TraceSelectors \subseteq Selectors
      /\ TraceStatuses \subseteq Optional(Values)
    BY ReplayAssumption
<1>1. ASSUME NEW cycle \in Cycles, ReplayAssertion(cycle) PROVE Next
    <2>1. PICK source \in Sources, p \in Claims, v \in Values :
            \/ BeliefUpdate(source, cycle, p, v)
            \/ source \in Voters /\ AgentVote(source, cycle, p, v)
        BY <1>1, Zenon DEF ReplayAssertion
    <2>2. p \in Props
        BY <1>0
    <2> QED BY <2>1, <2>2, Zenon DEF Next, EvidenceEvent
<1>2. ASSUME NEW cycle \in Cycles, ReplayRevision(cycle) PROVE Next
    <2>1. PICK p \in Claims :
            \/ WholeRetraction(p)
            \/ \E selector \in TraceSelectors :
                  \/ SelectiveRetraction(p, selector)
                  \/ \E source \in Sources, v \in Values :
                        Correction(source, cycle, p, selector, v)
            \/ \E successor \in Props :
                  <<p, successor>> \in Successions /\ Supersession(p, successor)
        BY <1>2, Zenon DEF ReplayRevision
    <2>2. p \in Props /\ \A selector \in TraceSelectors : selector \in Selectors
        BY <1>0
    <2> QED BY <2>1, <2>2, Zenon DEF Next, RevisionEvent
<1>3. ASSUME NEW cycle \in OtherCycles, ReplayStructure(cycle) PROVE Next
    <2>1. \/ \E e \in Edges :
                DeclareRelation(e) \/ RelationWithdrawal(e) \/ UnmatchedWithdrawal(e)
          \/ \E g \in Goals, priority \in Priorities, status \in TraceStatuses :
                GoalUpdate(g, priority, status)
        BY <1>3, Zenon DEF ReplayStructure
    <2>2. \A status \in TraceStatuses : status \in Optional(Values)
        BY <1>0
    <2> QED BY <2>1, <2>2, Zenon DEF Next, RelationEvent, GoalEvent
<1> QED BY <1>1, <1>2, <1>3, Zenon DEF ReplayNext

\* And one of the subjective-logic pipeline.
LEMMA ReplayStepsTheOpinions == ReplayNext => SLNext
<1> SUFFICES ASSUME ReplayNext PROVE SLNext
    OBVIOUS
<1>1. ASSUME NEW cycle \in Cycles, ReplayAssertion(cycle) PROVE SLNext
    <2>1. PICK p \in Claims, v \in Values : AssertClaim(p, v) \/ Vote(p, v)
        BY <1>1, Zenon DEF ReplayAssertion
    <2>2. v \in HexValues
        BY RevisionAssumption
    <2> QED BY <2>1, <2>2, Zenon DEF SLNext
<1>2. ASSUME NEW cycle \in Cycles, ReplayRevision(cycle) PROVE SLNext
    BY <1>2, Zenon DEF ReplayRevision, SLNext
<1>3. ASSUME NEW cycle \in OtherCycles, ReplayStructure(cycle) PROVE SLNext
    BY <1>3, Zenon DEF ReplayStructure, SLNext
<1> QED BY <1>1, <1>2, <1>3, Zenon DEF ReplayNext

\* To be replayed beside others changes nothing for the cognitive loop
\* (paired_eval.rs, every policy on fresh state): whatever is proved of it
\* alone holds of the recency-decay arm.
THEOREM ReplayRunsTheLoop == ReplaySpec => Spec
<1>1. ReplayInit => Init
    BY DEF ReplayInit
<1>2. [ReplayNext]_<<vars, armvars>> => [Next]_vars
    BY ReplayStepsTheLoop
<1> QED BY <1>1, <1>2, PTL DEF ReplaySpec, Spec

\* Nor for the subjective-logic pipeline.
THEOREM ReplayRunsTheOpinions == ReplaySpec => SLSpec
<1>1. ReplayInit => SLInit
    BY DEF ReplayInit
<1>2. [ReplayNext]_<<vars, armvars>> => [SLNext]_slvars
    BY ReplayStepsTheOpinions DEF armvars
<1> QED BY <1>1, <1>2, PTL DEF ReplaySpec, SLSpec

\* So what the arm accepts is what its report says, in every trace.
THEOREM ReplayedAcceptanceMatchesReport ==
    ReplaySpec => []AcceptAgreesWithReport /\ SupportNeverUnaccepts
BY ReplayRunsTheOpinions, AcceptanceMatchesReport, SupportKeepsAcceptance

-----------------------------------------------------------------------------
(* The events of the trace, and what the loop answers them.                *)

\* What the three kinds of events are to the arms: an assertion is perceived
\* and fused, a withdrawal makes the loop recompute and the opinions start
\* again, and everything else is ignored by all arms but the loop.
Asserted(event) ==
    \E source \in Sources, p \in Claims, v \in Values :
        \/ /\ event = Event("belief_update", event.cycle, {p}, {v})
           /\ BeliefUpdate(source, event.cycle, p, v)
           /\ AssertClaim(p, v)
        \/ /\ event = Event("agent_vote", event.cycle, {p}, {v})
           /\ AgentVote(source, event.cycle, p, v)
           /\ Vote(p, v)

Withdrawn(event) ==
    \E p \in Claims :
        /\ \/ /\ event = Event("retraction", event.cycle, {p}, {})
              /\ Retract(p)
              /\ \/ WholeRetraction(p)
                 \/ \E selector \in Selectors : SelectiveRetraction(p, selector)
           \/ \E source \in Sources, selector \in Selectors, v \in Values :
                /\ event = Event("correction", event.cycle, {p}, {v})
                /\ Correct(p)
                /\ Correction(source, event.cycle, p, selector, v)

Unasserted(event) ==
    /\ Ignore
    /\ \/ \E p \in Claims, successor \in Props :
            /\ event = Event("supersession", event.cycle, {p}, {})
            /\ Supersession(p, successor)
       \/ /\ event.kind \in {"relation_declaration", "relation_withdrawal", "goal_update"}
          /\ event.claim = {} /\ event.value = {}
          /\ RelationEvent \/ GoalEvent

Replayed(event) ==
    /\ Replay(event)
    /\ event.cycle \in Nat
    /\ Asserted(event) \/ Withdrawn(event) \/ Unasserted(event)

LEMMA StepReplaysAnEvent == ReplayNext => \E event : Replayed(event)
<1> SUFFICES ASSUME ReplayNext PROVE \E event : Replayed(event)
    OBVIOUS
<1>0. /\ TraceSelectors \subseteq Selectors
      /\ TraceStatuses \subseteq Optional(Values)
      /\ Cycles \subseteq Nat /\ OtherCycles \subseteq Nat
    BY ReplayAssumption
<1>1. \A kind, cycle, claim, value :
        LET event == Event(kind, cycle, claim, value)
        IN  /\ event.kind = kind /\ event.cycle = cycle
            /\ event.claim = claim /\ event.value = value
    BY DEF Event
<1>2. ASSUME NEW cycle \in Cycles, ReplayAssertion(cycle)
      PROVE  \E event : Replayed(event)
    <2>1. PICK source \in Sources, p \in Claims, v \in Values :
            \/ /\ BeliefUpdate(source, cycle, p, v)
               /\ AssertClaim(p, v)
               /\ Replay(Event("belief_update", cycle, {p}, {v}))
            \/ /\ AgentVote(source, cycle, p, v)
               /\ Vote(p, v)
               /\ Replay(Event("agent_vote", cycle, {p}, {v}))
        BY <1>2, Zenon DEF ReplayAssertion
    <2>2. CASE /\ BeliefUpdate(source, cycle, p, v)
               /\ AssertClaim(p, v)
               /\ Replay(Event("belief_update", cycle, {p}, {v}))
        <3> DEFINE event == Event("belief_update", cycle, {p}, {v})
        <3>1. event.cycle = cycle /\ cycle \in Nat
            BY <1>0, <1>1
        <3> HIDE DEF event
        <3>2. Replayed(event)
            BY <2>2, <3>1, Zenon DEF Replayed, Asserted, event
        <3> QED BY <3>2
    <2>3. CASE /\ AgentVote(source, cycle, p, v)
               /\ Vote(p, v)
               /\ Replay(Event("agent_vote", cycle, {p}, {v}))
        <3> DEFINE event == Event("agent_vote", cycle, {p}, {v})
        <3>1. event.cycle = cycle /\ cycle \in Nat
            BY <1>0, <1>1
        <3> HIDE DEF event
        <3>2. Replayed(event)
            BY <2>3, <3>1, Zenon DEF Replayed, Asserted, event
        <3> QED BY <3>2
    <2> QED BY <2>1, <2>2, <2>3
<1>3. ASSUME NEW cycle \in Cycles, ReplayRevision(cycle)
      PROVE  \E event : Replayed(event)
    <2>1. PICK p \in Claims :
            \/ /\ \/ WholeRetraction(p)
                  \/ \E selector \in TraceSelectors : SelectiveRetraction(p, selector)
               /\ Retract(p)
               /\ Replay(Event("retraction", cycle, {p}, {}))
            \/ \E selector \in TraceSelectors, source \in Sources, v \in Values :
                  /\ Correction(source, cycle, p, selector, v)
                  /\ Correct(p)
                  /\ Replay(Event("correction", cycle, {p}, {v}))
            \/ \E successor \in Props :
                  /\ Supersession(p, successor)
                  /\ Ignore
                  /\ Replay(Event("supersession", cycle, {p}, {}))
        BY <1>3, Zenon DEF ReplayRevision
    <2>2. CASE /\ \/ WholeRetraction(p)
                  \/ \E selector \in TraceSelectors : SelectiveRetraction(p, selector)
               /\ Retract(p)
               /\ Replay(Event("retraction", cycle, {p}, {}))
        <3> DEFINE event == Event("retraction", cycle, {p}, {})
        <3>1. event.cycle = cycle /\ cycle \in Nat
            BY <1>0, <1>1
        <3>2. \A selector \in TraceSelectors : selector \in Selectors
            BY <1>0
        <3> HIDE DEF event
        <3>3. Replayed(event)
            BY <2>2, <3>1, <3>2, Zenon DEF Replayed, Withdrawn, event
        <3> QED BY <3>3
    <2>3. ASSUME NEW selector \in TraceSelectors, NEW source \in Sources,
                 NEW v \in Values,
                 Correction(source, cycle, p, selector, v), Correct(p),
                 Replay(Event("correction", cycle, {p}, {v}))
          PROVE  \E event : Replayed(event)
        <3> DEFINE event == Event("correction", cycle, {p}, {v})
        <3>1. event.cycle = cycle /\ cycle \in Nat /\ selector \in Selectors
            BY <1>0, <1>1
        <3> HIDE DEF event
        <3>2. Replayed(event)
            BY <2>3, <3>1, Zenon DEF Replayed, Withdrawn, event
        <3> QED BY <3>2
    <2>4. ASSUME NEW successor \in Props, Supersession(p, successor), Ignore,
                 Replay(Event("supersession", cycle, {p}, {}))
          PROVE  \E event : Replayed(event)
        <3> DEFINE event == Event("supersession", cycle, {p}, {})
        <3>1. event.cycle = cycle /\ cycle \in Nat
            BY <1>0, <1>1
        <3> HIDE DEF event
        <3>2. Replayed(event)
            BY <2>4, <3>1, Zenon DEF Replayed, Unasserted, event
        <3> QED BY <3>2
    <2> QED BY <2>1, <2>2, <2>3, <2>4
<1>4. ASSUME NEW cycle \in OtherCycles, ReplayStructure(cycle)
      PROVE  \E event : Replayed(event)
    <2>1. \A status \in TraceStatuses : status \in Optional(Values)
        BY <1>0
    <2>2. PICK kind \in {"relation_declaration", "relation_withdrawal", "goal_update"} :
            /\ Replay(Event(kind, cycle, {}, {}))
            /\ Ignore
            /\ RelationEvent \/ GoalEvent
        BY <1>4, <2>1, Zenon DEF ReplayStructure, RelationEvent, GoalEvent
    <2> DEFINE event == Event(kind, cycle, {}, {})
    <2>3. /\ event.cycle = cycle /\ cycle \in Nat /\ event.kind = kind
          /\ event.claim = {} /\ event.value = {}
        BY <1>0, <1>1
    <2> HIDE DEF event
    <2>4. Replayed(event)
        BY <2>2, <2>3, Zenon DEF Replayed, Unasserted, event
    <2> QED BY <2>4
<1> QED BY <1>2, <1>3, <1>4, Zenon DEF ReplayNext

LEMMA RecommendationIsNoWait ==
    ASSUME NEW p, NEW v
    PROVE  /\ RecommendForClaim(p, v) # Waiting
           /\ RecommendForClaim(p, v).topic = p
           /\ RecommendForClaim(p, v).value = v
           /\ RecommendForClaim(p, v).kind \in {"investigate", "escalate", "accept"}
           /\ RecommendForClaim(p, v).kind = "accept" => v # Contradictory
           /\ RecommendForClaim(p, v).kind = "escalate" => v = Contradictory
BY DEF RecommendForClaim, Waiting, Action, Unknown, Contradictory

\* The loop answers every assertion and every withdrawal by an action, and
\* never by waiting.
LEMMA LoopAnswers ==
    ASSUME NEW event, Asserted(event) \/ Withdrawn(event)
    PROVE  outcome'.actions # {} /\ Waiting \notin outcome'.actions
<1>1. ASSUME NEW kind, NEW p, NEW v, PerceiveAndCycle(kind, p, v)
      PROVE  outcome'.actions # {} /\ Waiting \notin outcome'.actions
    <2> DEFINE seen == Perceived(p, v)
    <2>1. PICK top : outcome' = Outcome(kind, {p},
                GoalActions(seen, top) \cup {RecommendForClaim(p, seen[p])}, {})
        BY <1>1, Zenon DEF PerceiveAndCycle
    <2>2. outcome'.actions = GoalActions(seen, top) \cup {RecommendForClaim(p, seen[p])}
        BY <2>1 DEF Outcome
    <2> HIDE DEF seen
    <2>3. Waiting \notin GoalActions(seen, top)
        BY RecommendationIsNoWait DEF GoalActions
    <2> QED BY <2>2, <2>3, RecommendationIsNoWait
<1>2. CASE Asserted(event)
    <2>1. \E kind, p, v : PerceiveAndCycle(kind, p, v)
        BY <1>2, Zenon DEF Asserted, BeliefUpdate, AgentVote
    <2> QED BY <1>1, <2>1
<1>3. CASE Withdrawn(event)
    <2>1. PICK p : \/ WholeRetraction(p)
                   \/ \E selector : SelectiveRetraction(p, selector)
                   \/ \E source, selector, v :
                        Correction(source, event.cycle, p, selector, v)
        BY <1>3, Zenon DEF Withdrawn
    <2>2. \E v : \/ outcome'.actions = {Action("retry", p, v)}
                 \/ outcome'.actions = {RecommendForClaim(p, v)}
        <3> DEFINE Answers == \E v : \/ outcome'.actions = {Action("retry", p, v)}
                                     \/ outcome'.actions = {RecommendForClaim(p, v)}
        <3>1. ASSUME WholeRetraction(p) PROVE Answers
            BY <3>1 DEF WholeRetraction, Outcome
        <3>2. ASSUME NEW selector, SelectiveRetraction(p, selector) PROVE Answers
            BY <3>2 DEF SelectiveRetraction, Outcome
        <3>3. ASSUME NEW source, NEW selector, NEW v,
                     Correction(source, event.cycle, p, selector, v)
              PROVE  Answers
            BY <3>3 DEF Correction, Outcome
        <3> HIDE DEF Answers
        <3>4. Answers
            BY <2>1, <3>1, <3>2, <3>3, Zenon
        <3> QED BY <3>4 DEF Answers
    <2>3. \A v : Action("retry", p, v) # Waiting
        BY DEF Action, Waiting
    <2> QED BY <2>2, <2>3, RecommendationIsNoWait
<1> QED BY <1>2, <1>3

\* What a step adds to the trace.
IsTrace == \E S : trace \in Seq(S)

LEMMA StepAppends ==
    ASSUME NEW event, Replay(event), IsTrace
    PROVE  /\ IsTrace'
           /\ Len(trace) \in Nat /\ Len(trace') = Len(trace) + 1
           /\ DOMAIN trace = 1 .. Len(trace)
           /\ DOMAIN trace' = 1 .. Len(trace) + 1
           /\ \A i \in DOMAIN trace : trace'[i] = trace[i]
           /\ trace'[Len(trace) + 1] =
                [event |-> event, belief |-> belief',
                 actions |-> [ix_unassisted |-> UnassistedActions(event),
                              recency_decay |-> Scored(outcome'.actions, event.cycle),
                              subjective_logic |-> advice']]
<1> DEFINE e == [event |-> event, belief |-> belief',
                 actions |-> [ix_unassisted |-> UnassistedActions(event),
                              recency_decay |-> Scored(outcome'.actions, event.cycle),
                              subjective_logic |-> advice']]
<1>1. trace' = Append(trace, e)
    BY DEF Replay
<1> HIDE DEF e
<1>2. PICK S : trace \in Seq(S)
    BY DEF IsTrace
<1>3. trace \in Seq(S \cup {e}) /\ e \in S \cup {e}
    BY <1>2
<1>4. trace' \in Seq(S \cup {e})
    BY <1>1, <1>3
<1>5. IsTrace'
    BY <1>4 DEF IsTrace
<1>6. /\ Len(trace) \in Nat /\ Len(trace') = Len(trace) + 1
      /\ DOMAIN trace = 1 .. Len(trace)
      /\ DOMAIN trace' = 1 .. Len(trace) + 1
      /\ \A i \in DOMAIN trace : trace'[i] = trace[i]
      /\ trace'[Len(trace) + 1] = e
    BY <1>1, <1>3
<1> QED BY <1>5, <1>6 DEF e

-----------------------------------------------------------------------------
(* Silence.                                                                *)

\* The loop's counter is ahead of every event it answered with silence by the
\* age at which a score is too low, and never falls back.
Heard(kind) == kind \in Assertions \cup Withdrawals
SilenceInv ==
    /\ IsTrace
    /\ loopCycle \in Nat
    /\ \A i \in DOMAIN trace :
          /\ trace[i].event.cycle \in Nat
          /\ Heard(trace[i].event.kind) /\ Withholds(trace[i].actions.recency_decay)
                => loopCycle - trace[i].event.cycle >= StaleAge
    /\ SilenceIsForGood

LEMMA SilenceStep ==
    ASSUME SilenceInv, NEW event, Replayed(event)
    PROVE  SilenceInv'
<1> DEFINE n == Len(trace)
<1>1. /\ IsTrace'
      /\ n \in Nat
      /\ DOMAIN trace = 1 .. n
      /\ DOMAIN trace' = 1 .. n + 1
      /\ \A i \in DOMAIN trace : trace'[i] = trace[i]
      /\ trace'[n + 1].event = event
      /\ trace'[n + 1].actions.recency_decay = Scored(outcome'.actions, event.cycle)
    <2>1. Replay(event) /\ IsTrace
        BY DEF SilenceInv, Replayed
    <2>2. trace'[n + 1] =
            [event |-> event, belief |-> belief',
             actions |-> [ix_unassisted |-> UnassistedActions(event),
                          recency_decay |-> Scored(outcome'.actions, event.cycle),
                          subjective_logic |-> advice']]
        BY ONLY <2>1, StepAppends
    <2>3. /\ trace'[n + 1].event = event
          /\ trace'[n + 1].actions.recency_decay = Scored(outcome'.actions, event.cycle)
        BY ONLY <2>2
    <2> QED BY <2>1, <2>3, StepAppends
<1> HIDE DEF n
<1>2. loopCycle \in Nat /\ loopCycle' \in Nat /\ loopCycle' >= loopCycle
    BY DEF SilenceInv, Replayed, Replay, Tick
<1>3. event.cycle \in Nat /\ StaleAge \in Nat \ {0}
    BY ReplayAssumption DEF Replayed
<1>4. Heard(event.kind) => Waiting \notin outcome'.actions /\ outcome'.actions # {}
    <2>1. Unasserted(event) => ~Heard(event.kind)
        BY DEF Unasserted, Event, Heard, Assertions, Withdrawals
    <2> QED BY <2>1, LoopAnswers DEF Replayed
<1>5. Heard(event.kind) /\ Withholds(trace'[n + 1].actions.recency_decay)
            => loopCycle' - event.cycle >= StaleAge
    BY <1>1, <1>2, <1>3, <1>4 DEF Withholds, Scored, Withheld
<1>6. loopCycle' - event.cycle >= StaleAge
            => Withholds(trace'[n + 1].actions.recency_decay)
    <2>1. loopCycle' - event.cycle >= StaleAge => loopCycle' > event.cycle
        BY <1>2, <1>3
    <2> QED BY <1>1, <2>1 DEF Withholds, Scored, Withheld
<1>7. ASSUME NEW i \in DOMAIN trace'
      PROVE  /\ trace'[i].event.cycle \in Nat
             /\ Heard(trace'[i].event.kind)
                 /\ Withholds(trace'[i].actions.recency_decay)
                    => loopCycle' - trace'[i].event.cycle >= StaleAge
    <2>1. CASE i = n + 1
        BY <1>1, <1>3, <1>5, <2>1
    <2>2. CASE i \in DOMAIN trace
        <3>1. trace'[i] = trace[i]
            BY <1>1, <2>2
        <3>2. trace[i].event.cycle \in Nat
            BY <2>2 DEF SilenceInv
        <3>3. Heard(trace[i].event.kind) /\ Withholds(trace[i].actions.recency_decay)
                => loopCycle - trace[i].event.cycle >= StaleAge
            BY <2>2 DEF SilenceInv
        <3>4. loopCycle - trace[i].event.cycle >= StaleAge
                => loopCycle' - trace[i].event.cycle >= StaleAge
            BY <1>2, <1>3, <3>2
        <3> QED BY <3>1, <3>2, <3>3, <3>4
    <2> QED BY <1>1, <2>1, <2>2
<1>8. ASSUME NEW i \in DOMAIN trace', NEW j \in DOMAIN trace',
             i < j, Heard(trace'[i].event.kind),
             Withholds(trace'[i].actions.recency_decay),
             trace'[j].event.cycle <= trace'[i].event.cycle
      PROVE  Withholds(trace'[j].actions.recency_decay)
    <2>1. i \in DOMAIN trace /\ trace'[i] = trace[i]
        BY <1>1, <1>8
    <2>2. CASE j \in DOMAIN trace
        <3>1. trace'[j] = trace[j]
            BY <1>1, <2>2
        <3> QED BY <1>8, <2>1, <2>2, <3>1 DEF SilenceInv, SilenceIsForGood, Heard
    <2>3. CASE j = n + 1
        <3>1. /\ trace'[i].event.cycle \in Nat
              /\ loopCycle' - trace'[i].event.cycle >= StaleAge
              /\ event.cycle <= trace'[i].event.cycle
            BY <1>1, <1>7, <1>8, <2>3
        <3>2. loopCycle' - event.cycle >= StaleAge
            BY <1>2, <1>3, <3>1
        <3> QED BY <1>6, <2>3, <3>2
    <2> QED BY <1>1, <2>2, <2>3
<1> QED BY <1>1, <1>2, <1>7, <1>8 DEF SilenceInv, SilenceIsForGood, Heard

\* Once a stamp is too old to be heard, recency decay answers no event with it
\* or an older one again, whatever the trace: the counter a score ages by only
\* grows.
THEOREM SilenceLasts == ReplaySpec => []SilenceIsForGood
<1>1. ReplayInit => SilenceInv
    <2> SUFFICES ASSUME ReplayInit PROVE SilenceInv
        OBVIOUS
    <2>1. trace = <<>> /\ trace \in Seq({}) /\ loopCycle = 0
        BY DEF ReplayInit
    <2>2. IsTrace /\ DOMAIN trace = {}
        BY <2>1 DEF IsTrace
    <2> QED BY <2>1, <2>2 DEF SilenceInv, SilenceIsForGood
<1>2. SilenceInv /\ [ReplayNext]_<<vars, armvars>> => SilenceInv'
    <2>1. SilenceInv /\ ReplayNext => SilenceInv'
        BY StepReplaysAnEvent, SilenceStep
    <2>2. SilenceInv /\ UNCHANGED <<vars, armvars>> => SilenceInv'
        BY DEF armvars, SilenceInv, IsTrace, SilenceIsForGood
    <2> QED BY <2>1, <2>2
<1>3. SilenceInv => SilenceIsForGood
    BY DEF SilenceInv
<1> QED BY <1>1, <1>2, <1>3, PTL DEF ReplaySpec

-----------------------------------------------------------------------------
(* Labelled pairs.                                                         *)

\* A defect names the pair it is a defect of.
LEMMA DefectsNameTheirPair ==
    ASSUME NEW outcomes, NEW labels, NEW pair,
           NEW d \in PairDefects(outcomes, labels, pair)
    PROVE  d.pair = pair
<1>1. \E kind, at : d = Defect(kind, pair, at)
    BY Zenon DEF PairDefects
<1> QED BY <1>1 DEF Defect

\* A pair of which a half is missing, or there twice, has a defect.
LEMMA HalvesOrDefects ==
    ASSUME NEW outcomes, NEW labels, NEW pair \in LabelledPairs(labels),
           \A i \in DOMAIN labels : labels[i].expect \in Halves,
           PairDefects(outcomes, labels, pair) = {}
    PROVE  \A h \in Halves : LabelsOf(labels, pair, h) # {}
<1> DEFINE duplicated == {h \in Halves : Repeated(labels, pair, h)}
           missing == {h \in Halves : LabelsOf(labels, pair, h) = {}}
<1>1. PICK i \in DOMAIN labels : labels[i].pair = pair
    BY DEF LabelledPairs
<1>2. labels[i].expect \in Halves \ missing
    BY <1>1 DEF LabelsOf, Places
<1>3. CASE duplicated # {}
    <2>1. PairDefects(outcomes, labels, pair) =
            {Defect("duplicate_half", pair, half) : half \in duplicated}
        BY <1>3, Zenon DEF PairDefects
    <2> QED BY <1>3, <2>1
<1>4. CASE duplicated = {} /\ missing # {}
    <2>1. PairDefects(outcomes, labels, pair) =
            {Defect("missing_half", pair, half) : half \in Halves \ missing}
        BY <1>4, Zenon DEF PairDefects
    <2> HIDE DEF missing
    <2> QED BY <1>2, <2>1
<1>5. CASE missing = {}
    BY <1>5
<1> QED BY <1>3, <1>4, <1>5

\* A score has a verdict or a defect of every labelled pair, never both.
LEMMA ScoresAccount ==
    ASSUME NEW outcomes, NEW labels,
           \A i \in DOMAIN labels : labels[i].expect \in Halves
    PROVE  /\ Accounted(labels, ScorePaired(outcomes, labels))
           /\ DOMAIN ScorePaired(outcomes, labels).per_pair = GradedPairs(outcomes, labels)
<1> DEFINE score == ScorePaired(outcomes, labels)
<1>1. /\ DOMAIN score.per_pair = GradedPairs(outcomes, labels)
      /\ score.defects = UNION {PairDefects(outcomes, labels, pair) :
                                    pair \in LabelledPairs(labels)}
    BY DEF ScorePaired
<1> HIDE DEF score
<1>2. ASSUME NEW pair \in GradedPairs(outcomes, labels), NEW d \in score.defects
      PROVE  d.pair # pair
    <2>1. PICK q \in LabelledPairs(labels) : d \in PairDefects(outcomes, labels, q)
        BY <1>1
    <2>2. d.pair = q
        BY <2>1, DefectsNameTheirPair
    <2>3. PairDefects(outcomes, labels, pair) = {}
        BY Zenon DEF GradedPairs
    <2> QED BY <2>1, <2>2, <2>3
<1>3. ASSUME NEW pair \in LabelledPairs(labels), pair \notin GradedPairs(outcomes, labels)
      PROVE  \E d \in score.defects : d.pair = pair
    <2>1. PairDefects(outcomes, labels, pair) # {}
        <3>1. \/ PairDefects(outcomes, labels, pair) # {}
              \/ \E h \in Halves : LabelsOf(labels, pair, h) = {}
            BY <1>3, Zenon DEF GradedPairs
        <3> QED BY <3>1, HalvesOrDefects
    <2>2. PICK d : d \in PairDefects(outcomes, labels, pair)
        BY <2>1
    <2> QED BY <1>1, <2>2, DefectsNameTheirPair
<1>4. Accounted(labels, score)
    BY <1>1, <1>2, <1>3 DEF Accounted
<1> QED BY <1>1, <1>4 DEF score

\* Which pairs are graded depends on how many events were replayed, not on
\* what they were answered.
LEMMA GradingIgnoresAnswers ==
    ASSUME NEW o1, NEW o2, NEW labels, DOMAIN o1 = DOMAIN o2
    PROVE  GradedPairs(o1, labels) = GradedPairs(o2, labels)
<1>1. \A pair : PairDefects(o1, labels, pair) = PairDefects(o2, labels, pair)
    BY Zenon DEF PairDefects
<1> QED BY <1>1, Zenon DEF GradedPairs

\* Whatever trace was replayed and however its labels pair up, every labelled
\* pair is graded or named among the defects, and the same pairs are graded in
\* every arm, so that no comparison drops one (paired_eval.rs, score_paired and
\* cluster_from_arms).
THEOREM PairsAreAccountedFor == ReplaySpec => []EveryPairIsAccountedFor
<1>1. EveryPairIsAccountedFor
    <2> SUFFICES ASSUME NEW labels \in Labelings
                 PROVE
            LET unassisted == ScorePaired(Outcomes("ix_unassisted"), labels)
                decay == ScorePaired(Outcomes("recency_decay"), labels)
                sl == ScorePaired(Outcomes("subjective_logic"), labels)
                clause1 == ClusterFromArms("trace", "recency_decay", decay.per_pair,
                                "ix_unassisted", unassisted.per_pair)
                cheap == ClusterFromArms("trace", "subjective_logic", sl.per_pair,
                                "recency_decay", decay.per_pair)
            IN  /\ Accounted(labels, unassisted)
                /\ Accounted(labels, decay)
                /\ Accounted(labels, sl)
                /\ clause1.unmatched = {}
                /\ cheap.unmatched = {}
        BY Zenon DEF EveryPairIsAccountedFor
    <2> DEFINE unassisted == ScorePaired(Outcomes("ix_unassisted"), labels)
               decay == ScorePaired(Outcomes("recency_decay"), labels)
               sl == ScorePaired(Outcomes("subjective_logic"), labels)
    <2>1. \A i \in DOMAIN labels : labels[i].expect \in Halves
        BY ReplayAssumption
    <2>2. \A arm : Accounted(labels, ScorePaired(Outcomes(arm), labels))
        BY <2>1, ScoresAccount
    <2>3. \A arm : DOMAIN Outcomes(arm) = DOMAIN trace
        BY DEF Outcomes
    <2>4. \A arm, other : GradedPairs(Outcomes(arm), labels)
                            = GradedPairs(Outcomes(other), labels)
        BY <2>3, GradingIgnoresAnswers
    <2>5. \A arm : DOMAIN ScorePaired(Outcomes(arm), labels).per_pair
                    = GradedPairs(Outcomes(arm), labels)
        BY <2>1, ScoresAccount
    <2>6. /\ DOMAIN decay.per_pair = DOMAIN unassisted.per_pair
          /\ DOMAIN sl.per_pair = DOMAIN decay.per_pair
        BY <2>4, <2>5
    <2>7. Accounted(labels, unassisted) /\ Accounted(labels, decay) /\ Accounted(labels, sl)
        BY <2>2
    <2> HIDE DEF unassisted, decay, sl
    <2>8. \A t, b, trace_, treatment, baseline :
            DOMAIN t = DOMAIN b
                => ClusterFromArms(trace_, treatment, t, baseline, b).unmatched = {}
        BY DEF ClusterFromArms
    <2> QED BY <2>6, <2>7, <2>8, Zenon DEF unassisted, decay, sl
<1> QED BY <1>1, PTL

-----------------------------------------------------------------------------
(* What the loop recommends.                                               *)

\* The ledger's next value is typed in every step of the replay.
LEMMA ReplayKeepsType ==
    ASSUME TypeOK, ReplayNext
    PROVE  TypeOK' /\ Ledger!LedgerTypeOK'
<1>1. TypeOK'
    BY ReplayStepsTheLoop, NextTypeOK
<1>2. Ledger!LedgerTypeOK'
    BY ReplayStepsTheLoop, LedgerTypeKept DEF TypeOK
<1> QED BY <1>1, <1>2

\* What an assertion makes the loop perceive: the value asserted or, of a vote,
\* the consensus.
LEMMA AssertionIsPerceived ==
    ASSUME NEW event, Asserted(event)
    PROVE  \E p \in Props, w \in HexValues :
              /\ event.claim = {p}
              /\ event.kind \in Assertions
              /\ PerceiveAndCycle(event.kind, p, w)
              /\ \/ event.value = {w}
                 \/ event.kind = "agent_vote" /\ UseSwarmConsensus
<1>1. PICK source \in Sources, p \in Claims, v \in Values :
        \/ event = Event("belief_update", event.cycle, {p}, {v})
           /\ BeliefUpdate(source, event.cycle, p, v)
        \/ event = Event("agent_vote", event.cycle, {p}, {v})
           /\ AgentVote(source, event.cycle, p, v)
    BY Zenon DEF Asserted
<1>2. p \in Props /\ v \in HexValues
    BY RevisionAssumption, ReplayAssumption
<1>3. CASE /\ event = Event("belief_update", event.cycle, {p}, {v})
           /\ BeliefUpdate(source, event.cycle, p, v)
    <2>1. /\ event.claim = {p} /\ event.value = {v}
          /\ event.kind = "belief_update" /\ event.kind \in Assertions
        BY <1>3 DEF Event, Assertions
    <2>2. PerceiveAndCycle(event.kind, p, v)
        BY <1>3, <2>1 DEF BeliefUpdate
    <2> QED BY <1>2, <2>1, <2>2
<1>4. CASE /\ event = Event("agent_vote", event.cycle, {p}, {v})
           /\ AgentVote(source, event.cycle, p, v)
    <2> DEFINE w == IF UseSwarmConsensus THEN SwarmValue(p, votes', agents') ELSE v
    <2>1. /\ event.claim = {p} /\ event.value = {v}
          /\ event.kind = "agent_vote" /\ event.kind \in Assertions
        BY <1>4 DEF Event, Assertions
    <2>2. SwarmValue(p, votes', agents') \in HexValues
        BY ConsensusType, Zenon DEF SwarmValue
    <2>3. PerceiveAndCycle("agent_vote", p, w)
        BY <1>4, Zenon DEF AgentVote
    <2>4. w \in HexValues /\ (UseSwarmConsensus \/ w = v)
        BY <1>2, <2>2
    <2> HIDE DEF w
    <2> QED BY <1>2, <2>1, <2>3, <2>4
<1> QED BY <1>1, <1>3, <1>4

\* One perceived value changes one proposition before the pass, and every
\* recommendation reads a value that goes into the pass.
LEMMA CycleRecommends ==
    ASSUME TypeOK, NEW kind, NEW p \in Props, NEW w \in HexValues,
           PerceiveAndCycle(kind, p, w)
    PROVE  \E b :
              /\ Anchored(b, live) /\ belief' = Settle(b, live)
              /\ b[p] \in {w, CombineEvidence(belief[p], w)}
              /\ belief[p] = Absent => b[p] = w
              /\ belief[p] # Absent => b[p] = CombineEvidence(belief[p], w)
              /\ \A q \in Props \ {p} : b[q] = belief[q]
              /\ \A a \in outcome'.actions :
                    /\ a.topic \in Props /\ b[a.topic] \in HexValues
                    /\ a = RecommendForClaim(a.topic, b[a.topic])
<1> DEFINE seen == Perceived(p, w)
<1>1. Anchored(seen, live) /\ seen[p] # Absent
    BY PerceivedRaises
<1>2. PICK top \in Optional(TopGoals) :
        /\ belief' = Settle(seen, live)
        /\ outcome' = Outcome(kind, {p},
                GoalActions(seen, top) \cup {RecommendForClaim(p, seen[p])}, {})
    BY Zenon DEF PerceiveAndCycle
<1>3. outcome'.actions = GoalActions(seen, top) \cup {RecommendForClaim(p, seen[p])}
    BY <1>2 DEF Outcome
<1>4. belief \in [Props -> HexValues \cup {Absent}]
    BY DEF TypeOK
<1>5. /\ belief[p] = Absent => seen[p] = w
      /\ belief[p] # Absent => seen[p] = CombineEvidence(belief[p], w)
      /\ \A q \in Props \ {p} : seen[q] = belief[q]
    BY <1>4 DEF Perceived
<1>6. top \subseteq Goals /\ Goals \subseteq Props
    BY RevisionAssumption DEF Optional, TopGoals, OpenGoals
<1> HIDE DEF seen
<1>7. ASSUME NEW a \in outcome'.actions
      PROVE  /\ a.topic \in Props /\ seen[a.topic] \in HexValues
             /\ a = RecommendForClaim(a.topic, seen[a.topic])
    <2>1. PICK q \in Props : seen[q] \in HexValues /\ a = RecommendForClaim(q, seen[q])
        <3>1. seen[p] \in HexValues
            BY <1>1 DEF Anchored
        <3>2. ASSUME a \in GoalActions(seen, top)
              PROVE  \E q \in Props : seen[q] \in HexValues /\ a = RecommendForClaim(q, seen[q])
            <4>1. PICK q \in top : /\ seen[q] \in {Unknown, Contradictory}
                                   /\ a = RecommendForClaim(q, seen[q])
                BY <3>2 DEF GoalActions
            <4> QED BY <1>6, <4>1 DEF HexValues
        <3> QED BY <1>3, <3>1, <3>2
    <2>2. a.topic = q
        BY <2>1, RecommendationIsNoWait
    <2> QED BY <2>1, <2>2
<1> QED BY <1>1, <1>2, <1>5, <1>7

\* A withdrawal replaces the value of its proposition, and recommends on what
\* replaces it or not at all.
LEMMA WithdrawalRecommends ==
    ASSUME TypeOK, Ledger!LedgerTypeOK', NEW event, Withdrawn(event)
    PROVE  \E p \in Props : \E b :
              /\ event.claim = {p} /\ event.kind \in Withdrawals
              /\ Anchored(b, live) /\ belief' = Settle(b, live)
              /\ \A q \in Props \ {p} : b[q] = belief[q]
              /\ \A a \in outcome'.actions :
                    \/ a.kind = "retry"
                    \/ /\ a.topic \in Props /\ b[a.topic] \in HexValues
                       /\ a = RecommendForClaim(a.topic, b[a.topic])
<1>1. PICK p \in Claims :
        /\ event.claim = {p} /\ event.kind \in Withdrawals
        /\ \/ WholeRetraction(p)
           \/ \E selector : SelectiveRetraction(p, selector)
           \/ \E source, selector, v : Correction(source, event.cycle, p, selector, v)
    <2>1. PICK p \in Claims :
            \/ /\ event = Event("retraction", event.cycle, {p}, {})
               /\ WholeRetraction(p) \/ \E selector : SelectiveRetraction(p, selector)
            \/ \E source, selector, v :
                  /\ event = Event("correction", event.cycle, {p}, {v})
                  /\ Correction(source, event.cycle, p, selector, v)
        BY Zenon DEF Withdrawn
    <2>2. event.claim = {p} /\ event.kind \in Withdrawals
        BY <2>1 DEF Event, Withdrawals
    <2> QED BY <2>1, <2>2, Zenon
<1>2. p \in Props
    BY ReplayAssumption
<1>3. \E entries :
        /\ ledger' = [ledger EXCEPT ![p] = entries]
        /\ belief' = Settle([belief EXCEPT ![p] = RecomputeFromLedger(entries)], live)
        /\ \/ outcome'.actions = {Action("retry", p, RecomputeFromLedger(entries))}
           \/ outcome'.actions = {RecommendForClaim(p, RecomputeFromLedger(entries))}
    <2> DEFINE Replaces(entries) ==
            /\ ledger' = [ledger EXCEPT ![p] = entries]
            /\ belief' = Settle([belief EXCEPT ![p] = RecomputeFromLedger(entries)], live)
            /\ \/ outcome'.actions = {Action("retry", p, RecomputeFromLedger(entries))}
               \/ outcome'.actions = {RecommendForClaim(p, RecomputeFromLedger(entries))}
    <2>1. ASSUME WholeRetraction(p) PROVE \E entries : Replaces(entries)
        BY <2>1 DEF WholeRetraction, Outcome
    <2>2. ASSUME NEW selector, SelectiveRetraction(p, selector)
          PROVE  \E entries : Replaces(entries)
        BY <2>2 DEF SelectiveRetraction, Outcome
    <2>3. ASSUME NEW source, NEW selector, NEW v,
                 Correction(source, event.cycle, p, selector, v)
          PROVE  \E entries : Replaces(entries)
        BY <2>3 DEF Correction, Outcome
    <2> HIDE DEF Replaces
    <2>4. \E entries : Replaces(entries)
        BY <1>1, <2>1, <2>2, <2>3, Zenon
    <2> QED BY <2>4 DEF Replaces
<1>4. PICK v \in HexValues :
        /\ belief' = Settle([belief EXCEPT ![p] = v], live)
        /\ \/ outcome'.actions = {Action("retry", p, v)}
           \/ outcome'.actions = {RecommendForClaim(p, v)}
    BY <1>2, <1>3, LedgerValues
<1> DEFINE b == [belief EXCEPT ![p] = v]
<1>5. /\ Anchored(b, live)
      /\ b[p] = v
      /\ \A q \in Props \ {p} : b[q] = belief[q]
    BY <1>2, ReplacedAnchored
<1>6. belief' = Settle(b, live)
    BY <1>4
<1> HIDE DEF b
<1>7. ASSUME NEW a \in outcome'.actions
      PROVE  \/ a.kind = "retry"
             \/ /\ a.topic \in Props /\ b[a.topic] \in HexValues
                /\ a = RecommendForClaim(a.topic, b[a.topic])
    <2>1. CASE a = Action("retry", p, v)
        BY <2>1 DEF Action
    <2>2. CASE a = RecommendForClaim(p, v)
        BY <1>2, <1>5, <2>2, RecommendationIsNoWait
    <2> QED BY <1>4, <2>1, <2>2
<1> QED BY <1>1, <1>2, <1>5, <1>6, <1>7

\* Of what it does not assert or withdraw, the loop recommends nothing.
LEMMA StructureRecommendsNothing ==
    ASSUME NEW event, Unasserted(event)
    PROVE  outcome'.actions = {}
<1>1. \A kind, p, revisions : Outcome(kind, p, {}, revisions).actions = {}
    BY DEF Outcome
<1>2. \E kind, p, revisions : outcome' = Outcome(kind, p, {}, revisions)
    <2>1. ASSUME NEW p, NEW successor, Supersession(p, successor)
          PROVE  \E kind, q, revisions : outcome' = Outcome(kind, q, {}, revisions)
        BY <2>1, Zenon DEF Supersession
    <2>2. ASSUME NEW e, DeclareRelation(e) \/ RelationWithdrawal(e) \/ UnmatchedWithdrawal(e)
          PROVE  \E kind, q, revisions : outcome' = Outcome(kind, q, {}, revisions)
        BY <2>2, Zenon DEF DeclareRelation, RelationWithdrawal, UnmatchedWithdrawal
    <2>3. ASSUME NEW g, NEW priority, NEW status, GoalUpdate(g, priority, status)
          PROVE  \E kind, q, revisions : outcome' = Outcome(kind, q, {}, revisions)
        BY <2>3, Zenon DEF GoalUpdate
    <2> QED BY <2>1, <2>2, <2>3, Zenon DEF Unasserted, RelationEvent, GoalEvent
<1> QED BY <1>1, <1>2, Zenon

\* What the loop accepts or escalates it holds when the pass begins.
LEMMA AnswerIsHeld ==
    ASSUME TypeOK, Ledger!LedgerTypeOK', NEW event, Replayed(event),
           NEW a \in Scored(outcome'.actions, event.cycle),
           a.kind \in {"accept", "escalate"}
    PROVE  \E b : /\ Anchored(b, live) /\ belief' = Settle(b, live)
                  /\ a.topic \in Props /\ a.value \in HexValues
                  /\ b[a.topic] = a.value
                  /\ a.kind = "accept" => a.value # Contradictory
                  /\ a.kind = "escalate" => a.value = Contradictory
<1>1. a \in outcome'.actions
    <2>1. Waiting.kind \notin {"accept", "escalate"}
        BY DEF Waiting, Action
    <2>2. a # Waiting
        BY <2>1
    <2> QED BY <2>2, Zenon DEF Scored
<1>2. \E b : /\ Anchored(b, live) /\ belief' = Settle(b, live)
             /\ a.topic \in Props /\ b[a.topic] \in HexValues
             /\ a = RecommendForClaim(a.topic, b[a.topic])
    <2>1. CASE Asserted(event)
        <3>1. PICK p \in Props, w \in HexValues : PerceiveAndCycle(event.kind, p, w)
            BY <2>1, AssertionIsPerceived
        <3> QED BY <1>1, <3>1, CycleRecommends
    <2>2. CASE Withdrawn(event)
        BY <1>1, <2>2, WithdrawalRecommends
    <2>3. CASE Unasserted(event)
        BY <1>1, <2>3, StructureRecommendsNothing
    <2> QED BY <2>1, <2>2, <2>3 DEF Replayed
<1>3. PICK b : /\ Anchored(b, live) /\ belief' = Settle(b, live)
               /\ a.topic \in Props /\ b[a.topic] \in HexValues
               /\ a = RecommendForClaim(a.topic, b[a.topic])
    BY <1>2
<1>4. /\ a.value = b[a.topic]
      /\ a.kind = "accept" => b[a.topic] # Contradictory
      /\ a.kind = "escalate" => b[a.topic] = Contradictory
    BY <1>3, RecommendationIsNoWait
<1> QED BY <1>3, <1>4

-----------------------------------------------------------------------------
(* Contradictions that are not recovered from.                             *)

\* What is contradictory stays so in a pass.
LEMMA ContradictionStands ==
    ASSUME NEW b, NEW edges, Anchored(b, edges), NEW p \in Props,
           b[p] = Contradictory
    PROVE  Settle(b, edges)[p] = Contradictory
<1> DEFINE c == Settle(b, edges)
<1>1. Raised(b, c)
    BY SettleRaises
<1> HIDE DEF c
<1>2. Contradictory # Absent /\ Contradictory \in HexValues
    BY AbsentIsNoValue DEF HexValues
<1>3. c[p] \in HexValues /\ Rank(Contradictory) <= Rank(c[p])
    BY <1>1, <1>2 DEF Raised
<1>4. c[p] = Contradictory
    BY <1>3 DEF Rank, HexValues, True, Probable, Unknown, Doubtful, False,
        Contradictory
<1> QED BY <1>4 DEF c

EscalationInv ==
    /\ IsTrace
    /\ \A i \in DOMAIN trace : \A a \in trace[i].actions.recency_decay :
            a.kind = "escalate" => trace[i].belief[a.topic] = Contradictory

LEMMA EscalationStep ==
    ASSUME EscalationInv, TypeOK, Ledger!LedgerTypeOK', NEW event, Replayed(event)
    PROVE  EscalationInv'
<1> DEFINE n == Len(trace)
<1>0. Replay(event) /\ IsTrace
    BY DEF EscalationInv, Replayed
<1>1. trace'[n + 1] =
        [event |-> event, belief |-> belief',
         actions |-> [ix_unassisted |-> UnassistedActions(event),
                      recency_decay |-> Scored(outcome'.actions, event.cycle),
                      subjective_logic |-> advice']]
    BY ONLY <1>0, StepAppends
<1>2. /\ trace'[n + 1].belief = belief'
      /\ trace'[n + 1].actions.recency_decay = Scored(outcome'.actions, event.cycle)
    BY ONLY <1>1
<1>3. /\ IsTrace'
      /\ n \in Nat
      /\ DOMAIN trace = 1 .. n
      /\ DOMAIN trace' = 1 .. n + 1
      /\ \A i \in DOMAIN trace : trace'[i] = trace[i]
    BY ONLY <1>0, StepAppends
<1> HIDE DEF n
<1>4. ASSUME NEW i \in DOMAIN trace', NEW a \in trace'[i].actions.recency_decay,
             a.kind = "escalate"
      PROVE  trace'[i].belief[a.topic] = Contradictory
    <2>1. CASE i = n + 1
        <3>1. a \in Scored(outcome'.actions, event.cycle)
            BY <1>2, <1>4, <2>1
        <3>2. PICK b : /\ Anchored(b, live) /\ belief' = Settle(b, live)
                       /\ a.topic \in Props /\ b[a.topic] = Contradictory
            BY <1>4, <3>1, AnswerIsHeld
        <3>3. belief'[a.topic] = Contradictory
            BY <3>2, ContradictionStands
        <3> QED BY <1>2, <2>1, <3>3
    <2>2. CASE i \in DOMAIN trace
        BY <1>3, <1>4, <2>2 DEF EscalationInv
    <2> QED BY <1>3, <2>1, <2>2
<1> QED BY <1>3, <1>4 DEF EscalationInv

\* Without a recovery, every later outcome about a claim escalates.
LEMMA NoRecoveryEscalates ==
    ASSUME NEW outcomes, ContradictionRecoveryCycles(outcomes) = {},
           NEW p \in Contradicted(outcomes), NEW i \in OutcomesOf(p, outcomes),
           outcomes[i].event.cycle > FirstContradictory(p, outcomes)
    PROVE  Escalates(outcomes[i])
<1> DEFINE recovered == {q \in Contradicted(outcomes) : RecoveredAt(q, outcomes) # {}}
<1>1. recovered = {}
    BY Zenon DEF ContradictionRecoveryCycles
<1>2. RecoveredAt(p, outcomes) = {}
    BY <1>1
<1>3. ~Recovers(outcomes[i])
    BY <1>2, Zenon DEF RecoveredAt
<1> QED BY <1>3 DEF Recovers

\* The metrics infer from actions that a contradiction was left standing, and
\* where only the claim itself escalates it was: after every later event about
\* it the loop still held it contradictory.
THEOREM UnrecoveredIsHeld == ReplaySpec => []UnrecoveredIsContradictory
<1>1. ReplayInit => TypeOK /\ EscalationInv
    <2> SUFFICES ASSUME ReplayInit PROVE TypeOK /\ EscalationInv
        OBVIOUS
    <2>1. trace = <<>> /\ trace \in Seq({})
        BY DEF ReplayInit
    <2>2. IsTrace /\ DOMAIN trace = {}
        BY <2>1 DEF IsTrace
    <2> QED BY <2>2, InitTypeOK DEF EscalationInv, ReplayInit
<1>2. TypeOK /\ EscalationInv /\ [ReplayNext]_<<vars, armvars>>
            => TypeOK' /\ EscalationInv'
    <2>1. TypeOK /\ EscalationInv /\ ReplayNext => TypeOK' /\ EscalationInv'
        BY StepReplaysAnEvent, ReplayKeepsType, EscalationStep
    <2>2. TypeOK /\ UNCHANGED vars => TypeOK'
        BY NextTypeOK
    <2>3. EscalationInv /\ UNCHANGED <<vars, armvars>> => EscalationInv'
        BY DEF armvars, EscalationInv, IsTrace
    <2> QED BY <2>1, <2>2, <2>3
<1>3. EscalationInv => UnrecoveredIsContradictory
    <2> DEFINE outcomes == Outcomes("recency_decay")
    <2> SUFFICES ASSUME EscalationInv, OwnEscalationsOnly,
                        ContradictionRecoveryCycles(outcomes) = {},
                        NEW p \in Contradicted(outcomes),
                        NEW i \in OutcomesOf(p, outcomes),
                        trace[i].event.cycle > FirstContradictory(p, outcomes)
                 PROVE  trace[i].belief[p] = Contradictory
        BY Zenon DEF UnrecoveredIsContradictory
    <2>1. i \in DOMAIN outcomes /\ outcomes[i].event.claim = {p}
        BY Zenon DEF OutcomesOf
    <2>2. /\ i \in DOMAIN trace
          /\ outcomes[i].event = trace[i].event
          /\ outcomes[i].actions = trace[i].actions.recency_decay
        BY <2>1 DEF Outcomes
    <2> HIDE DEF outcomes
    <2>3. Escalates(outcomes[i])
        BY <2>2, NoRecoveryEscalates
    <2>4. PICK a \in trace[i].actions.recency_decay : a.kind = "escalate"
        BY <2>2, <2>3 DEF Escalates
    <2>5. {a.topic} = {p}
        BY <2>1, <2>2, <2>4 DEF OwnEscalationsOnly
    <2> QED BY <2>2, <2>4, <2>5 DEF EscalationInv
<1> QED BY <1>1, <1>2, <1>3, PTL DEF ReplaySpec

-----------------------------------------------------------------------------
(* Charges.                                                                *)

Led(a) == \E e \in Edges : e.to = a.topic
Refuted(i, a) == \E j \in DOMAIN trace : i < j /\ Refutes(trace[j].event, a)

\* What each arm still makes of something it accepted, if nothing refutes it:
\* it may have been forgotten, but not turned over.
StandsUnassisted(a) ==
    a.topic \in Props /\ accepted[a.topic] \in {a.value, Unknown}
StandsInLoop(a) ==
    /\ a.topic \in Props /\ a.value \in HexValues \ {Contradictory}
    /\ belief[a.topic] \in {a.value, Unknown, Absent}
StandsAsOpinion(a) ==
    /\ a.topic \in Claims
    /\ \E side \in {Positive, Negative} :
            a.value \in side /\ AcceptedSide(a.topic, side)
Stands(arm, a) ==
    /\ arm = "ix_unassisted" => StandsUnassisted(a)
    /\ arm = "recency_decay" => StandsInLoop(a)
    /\ arm = "subjective_logic" => StandsAsOpinion(a)

\* What the events are about.
LEMMA AssertedShape ==
    ASSUME NEW event, Asserted(event)
    PROVE  \E p \in Claims, v \in HexValues :
              /\ event.kind \in Assertions
              /\ event.claim = {p} /\ event.value = {v}
              /\ AssertClaim(p, v) \/ Vote(p, v)
<1>1. PICK p \in Claims, v \in Values, kind \in {"belief_update", "agent_vote"} :
        /\ event = Event(kind, event.cycle, {p}, {v})
        /\ AssertClaim(p, v) \/ Vote(p, v)
    BY Zenon DEF Asserted
<1>2. v \in HexValues
    BY RevisionAssumption
<1>3. event.kind \in Assertions /\ event.claim = {p} /\ event.value = {v}
    BY <1>1 DEF Event, Assertions
<1> QED BY <1>1, <1>2, <1>3

LEMMA WithdrawnShape ==
    ASSUME NEW event, Withdrawn(event)
    PROVE  \E p \in Claims :
              /\ event.kind \in Withdrawals /\ event.claim = {p}
              /\ \/ event.kind = "retraction" /\ event.value = {}
                 \/ event.kind = "correction" /\ \E v : event.value = {v}
              /\ Retract(p) \/ Correct(p)
<1>1. PICK p \in Claims :
        \/ event = Event("retraction", event.cycle, {p}, {}) /\ Retract(p)
        \/ /\ \E v : event = Event("correction", event.cycle, {p}, {v})
           /\ Correct(p)
    BY Zenon DEF Withdrawn
<1>2. /\ event.kind \in Withdrawals /\ event.claim = {p}
      /\ \/ event.kind = "retraction" /\ event.value = {}
         \/ event.kind = "correction" /\ \E v : event.value = {v}
    BY <1>1 DEF Event, Withdrawals
<1> QED BY <1>1, <1>2

LEMMA UnassertedShape ==
    ASSUME NEW event, Unasserted(event)
    PROVE  /\ event.kind \notin Assertions \cup Withdrawals
           /\ event.kind # "correction" /\ event.kind # "retraction"
           /\ Ignore
<1>1. event.kind \in {"supersession", "relation_declaration", "relation_withdrawal",
                      "goal_update"}
    BY DEF Unasserted, Event
<1> QED BY <1>1 DEF Unasserted, Assertions, Withdrawals

\* The arm without a policy takes every claim at face value until it is told
\* otherwise.
LEMMA FaceValueStands ==
    ASSUME NEW event, Replayed(event)
    PROVE  /\ \A a \in Accepts(UnassistedActions(event)) : StandsUnassisted(a)'
           /\ \A a : StandsUnassisted(a) /\ ~Refutes(event, a) => StandsUnassisted(a)'
<1>1. accepted' = FaceValues(event)
    BY DEF Replayed, Replay
<1>2. /\ Claims \subseteq Props
      /\ \A v : (CHOOSE w \in {v} : TRUE) = v
    BY ReplayAssumption
<1>3. ASSUME event.kind \in TakesAtFaceValue,
             NEW p \in Claims, NEW v, event.claim = {p}, event.value = {v}
      PROVE  /\ accepted'[p] = v
             /\ \A q \in Props \ {p} : accepted'[q] = accepted[q]
             /\ UnassistedActions(event) = {Action("accept", p, v)}
    <2>1. accepted' = [q \in Props |-> IF q \in event.claim
                                       THEN CHOOSE w \in event.value : TRUE
                                       ELSE accepted[q]]
        <3>1. event.kind \notin {"retraction", "supersession"}
            BY <1>3 DEF TakesAtFaceValue, Assertions
        <3> QED BY <1>1, <1>3, <3>1, Zenon DEF FaceValues
    <2>2. UnassistedActions(event) = {Action("accept", p, v)}
        BY <1>3 DEF UnassistedActions
    <2> QED BY <1>2, <1>3, <2>1, <2>2
<1>4. ASSUME event.kind \in TakesAtFaceValue,
             NEW p \in Claims, NEW v, event.claim = {p}, event.value = {v},
             \A a : ~Refutes(event, a) /\ a.topic = p => a.value = v
      PROVE  /\ \A a \in Accepts(UnassistedActions(event)) : StandsUnassisted(a)'
             /\ \A a : StandsUnassisted(a) /\ ~Refutes(event, a) => StandsUnassisted(a)'
    <2>1. /\ accepted'[p] = v
          /\ \A q \in Props \ {p} : accepted'[q] = accepted[q]
          /\ UnassistedActions(event) = {Action("accept", p, v)}
        BY <1>3, <1>4
    <2>2. Action("accept", p, v).topic = p /\ Action("accept", p, v).value = v
        BY DEF Action
    <2>3. ASSUME NEW a \in Accepts(UnassistedActions(event))
          PROVE  StandsUnassisted(a)'
        BY <1>2, <2>1, <2>2 DEF Accepts, StandsUnassisted
    <2>4. ASSUME NEW a, StandsUnassisted(a), ~Refutes(event, a)
          PROVE  StandsUnassisted(a)'
        BY <1>4, <2>1, <2>4 DEF StandsUnassisted
    <2> QED BY <2>3, <2>4
<1>5. CASE Asserted(event)
    <2>1. PICK p \in Claims, v \in HexValues :
            event.kind \in Assertions /\ event.claim = {p} /\ event.value = {v}
        BY <1>5, AssertedShape
    <2>2. \A a : ~Refutes(event, a) /\ a.topic = p => a.value = v
        BY <2>1 DEF Refutes
    <2>3. event.kind \in TakesAtFaceValue
        BY <2>1 DEF TakesAtFaceValue
    <2> QED BY <1>4, <2>1, <2>2, <2>3
<1>6. CASE Withdrawn(event)
    <2>1. PICK p \in Claims :
            /\ event.kind \in Withdrawals /\ event.claim = {p}
            /\ \/ event.kind = "retraction" /\ event.value = {}
               \/ event.kind = "correction" /\ \E v : event.value = {v}
        BY <1>6, WithdrawnShape
    <2>2. \A a : a.topic = p => Refutes(event, a)
        BY <2>1 DEF Refutes
    <2>3. CASE event.kind = "correction"
        <3>1. event.kind \in TakesAtFaceValue
            BY <2>3 DEF TakesAtFaceValue
        <3>2. PICK v : event.value = {v}
            BY <2>1, <2>3
        <3> QED BY <1>4, <2>1, <2>2, <3>1, <3>2
    <2>4. CASE event.kind = "retraction"
        <3>1. event.kind \notin TakesAtFaceValue
            BY <2>4 DEF TakesAtFaceValue, Assertions
        <3>2. accepted' = [q \in Props |-> IF q \in event.claim THEN Unknown
                                           ELSE accepted[q]]
            BY <1>1, <2>4, <3>1 DEF FaceValues
        <3>3. UnassistedActions(event) = {}
            BY <3>1 DEF UnassistedActions
        <3> QED BY <2>1, <2>2, <3>2, <3>3 DEF Accepts, StandsUnassisted
    <2> QED BY <2>1, <2>3, <2>4
<1>7. CASE Unasserted(event)
    <2>1. event.kind \notin TakesAtFaceValue
        BY <1>7, UnassertedShape DEF TakesAtFaceValue
    <2>2. UnassistedActions(event) = {}
        BY <2>1 DEF UnassistedActions
    <2>3. \A q \in Props : accepted'[q] \in {accepted[q], Unknown}
        <3>1. \/ accepted' = [q \in Props |-> IF q \in event.claim THEN Unknown
                                              ELSE accepted[q]]
              \/ accepted' = accepted
            BY <1>1, <2>1, Zenon DEF FaceValues
        <3> QED BY <3>1
    <2> QED BY <2>2, <2>3 DEF Accepts, StandsUnassisted
<1> QED BY <1>5, <1>6, <1>7 DEF Replayed

\* What a proposition holds is what it held, or nothing definite.
LEMMA CombineWithSame ==
    ASSUME NEW v \in HexValues, NEW u \in {v, Unknown}
    PROVE  CombineEvidence(u, v) \in {v, Unknown}
<1>1. ~InConflict({u, v})
    BY DEF InConflict, Positive, Negative, True, Probable, Unknown, Doubtful, False
<1>2. Join(u, v) \in {u, v}
    BY DEF Join
<1> QED BY <1>1, <1>2 DEF CombineEvidence

\* A step that changes a proposition to Unknown at most, and settles, leaves
\* what no relation leads to standing.
LEMMA SettledStands ==
    ASSUME NEW b, NEW edges, Anchored(b, edges), belief' = Settle(b, edges),
           NEW a, StandsInLoop(a), ~Led(a),
           b[a.topic] \in {a.value, belief[a.topic], Unknown}
    PROVE  StandsInLoop(a)'
<1>1. a.topic \in Props /\ \A e \in Edges : e.to # a.topic
    BY DEF StandsInLoop, Led
<1>2. belief'[a.topic] = b[a.topic]
    BY <1>1, UnfedStays
<1> QED BY <1>2 DEF StandsInLoop

\* A structural event settles on beliefs of which some were made Unknown.
LEMMA StructureSettles ==
    ASSUME TypeOK, NEW event, Unasserted(event)
    PROVE  \E b, edges :
              /\ Anchored(b, edges) /\ belief' = Settle(b, edges)
              /\ \A q \in Props : b[q] \in {belief[q], Unknown}
<1>1. Anchored(belief, live)
    BY TypeGivesAnchored
<1>2. ASSUME belief' = Settle(belief, live)
      PROVE  \E b, edges :
              /\ Anchored(b, edges) /\ belief' = Settle(b, edges)
              /\ \A q \in Props : b[q] \in {belief[q], Unknown}
    BY <1>1, <1>2
<1>3. ASSUME NEW p, NEW successor, Supersession(p, successor)
      PROVE  belief' = Settle(belief, live)
    BY <1>3 DEF Supersession
<1>4. ASSUME GoalEvent PROVE belief' = Settle(belief, live)
    BY <1>4, Zenon DEF GoalEvent, GoalUpdate
<1>5. ASSUME RelationEvent
      PROVE  \E b, edges :
              /\ Anchored(b, edges) /\ belief' = Settle(b, edges)
              /\ \A q \in Props : b[q] \in {belief[q], Unknown}
    <2>1. PICK e \in Edges :
            DeclareRelation(e) \/ RelationWithdrawal(e) \/ UnmatchedWithdrawal(e)
        BY <1>5 DEF RelationEvent
    <2>2. CASE DeclareRelation(e)
        BY <2>2, DeclarationSettles
    <2>3. CASE RelationWithdrawal(e)
        <3>1. belief' = Settle(WithoutDerived, live') /\ Anchored(WithoutDerived, live')
            BY <2>3, WithdrawalSettles DEF RelationWithdrawal
        <3>2. \A q \in Props : WithoutDerived[q] \in {belief[q], Unknown}
            BY DEF WithoutDerived
        <3> QED BY <3>1, <3>2
    <2>4. CASE UnmatchedWithdrawal(e)
        BY <1>2, <2>4 DEF UnmatchedWithdrawal
    <2> QED BY <2>1, <2>2, <2>3, <2>4
<1> QED BY <1>2, <1>3, <1>4, <1>5, Zenon DEF Unasserted

\* What the loop accepted it goes on to hold, unless it is refuted, a relation
\* leads to it, or it is forgotten.
LEMMA LoopStands ==
    ASSUME TypeOK, Ledger!LedgerTypeOK', NEW event, Replayed(event)
    PROVE  /\ \A a \in Accepts(Scored(outcome'.actions, event.cycle)) :
                    Led(a) \/ StandsInLoop(a)'
           /\ \A a : StandsInLoop(a) /\ ~Led(a) /\ ~Refutes(event, a) => StandsInLoop(a)'
<1>1. ASSUME NEW a \in Accepts(Scored(outcome'.actions, event.cycle)), ~Led(a)
      PROVE  StandsInLoop(a)'
    <2>1. a \in Scored(outcome'.actions, event.cycle) /\ a.kind = "accept"
        BY DEF Accepts
    <2>2. PICK b : /\ Anchored(b, live) /\ belief' = Settle(b, live)
                   /\ a.topic \in Props /\ a.value \in HexValues
                   /\ b[a.topic] = a.value /\ a.value # Contradictory
        BY <2>1, AnswerIsHeld
    <2>3. belief'[a.topic] = a.value
        BY <1>1, <2>2, UnfedStays DEF Led
    <2> QED BY <2>2, <2>3 DEF StandsInLoop
<1>2. ASSUME NEW a, StandsInLoop(a), ~Led(a), ~Refutes(event, a)
      PROVE  StandsInLoop(a)'
    <2>1. CASE Asserted(event)
        <3>1. PICK p \in Props, w \in HexValues :
                /\ event.claim = {p} /\ event.kind \in Assertions
                /\ PerceiveAndCycle(event.kind, p, w)
                /\ \/ event.value = {w}
                   \/ event.kind = "agent_vote" /\ UseSwarmConsensus
            BY <2>1, AssertionIsPerceived
        <3>2. PICK b :
                /\ Anchored(b, live) /\ belief' = Settle(b, live)
                /\ belief[p] = Absent => b[p] = w
                /\ belief[p] # Absent => b[p] = CombineEvidence(belief[p], w)
                /\ \A q \in Props \ {p} : b[q] = belief[q]
            BY <3>1, CycleRecommends
        <3>3. CASE a.topic = p
            <4>1. a.value = w
                BY <1>2, <3>1, <3>3 DEF Refutes
            <4>2. b[p] \in {w, Unknown}
                BY <1>2, <3>2, <3>3, <4>1, CombineWithSame DEF StandsInLoop
            <4> QED BY <1>2, <3>2, <3>3, <4>1, <4>2, SettledStands
        <3>4. CASE a.topic # p
            <4>1. b[a.topic] = belief[a.topic]
                BY <1>2, <3>2, <3>4 DEF StandsInLoop
            <4> QED BY <1>2, <3>2, <4>1, SettledStands
        <3> QED BY <3>3, <3>4
    <2>2. CASE Withdrawn(event)
        <3>1. PICK p \in Props : \E b :
                /\ event.claim = {p} /\ event.kind \in Withdrawals
                /\ Anchored(b, live) /\ belief' = Settle(b, live)
                /\ \A q \in Props \ {p} : b[q] = belief[q]
            BY <2>2, WithdrawalRecommends
        <3>2. PICK b :
                /\ Anchored(b, live) /\ belief' = Settle(b, live)
                /\ \A q \in Props \ {p} : b[q] = belief[q]
            BY <3>1
        <3>3. a.topic # p
            BY <1>2, <3>1 DEF Refutes
        <3>4. b[a.topic] = belief[a.topic]
            BY <1>2, <3>2, <3>3 DEF StandsInLoop
        <3> QED BY <1>2, <3>2, <3>4, SettledStands
    <2>3. CASE Unasserted(event)
        <3>1. PICK b, edges :
                /\ Anchored(b, edges) /\ belief' = Settle(b, edges)
                /\ \A q \in Props : b[q] \in {belief[q], Unknown}
            BY <2>3, StructureSettles
        <3>2. b[a.topic] \in {belief[a.topic], Unknown}
            BY <1>2, <3>1 DEF StandsInLoop
        <3> QED BY <1>2, <3>1, <3>2, SettledStands
    <2> QED BY <2>1, <2>2, <2>3 DEF Replayed
<1> QED BY <1>1, <1>2

\* So does the other pipeline, in which no relation leads anywhere.
LEMMA OpinionStands ==
    ASSUME OpinionsTyped, ReplayNext, NEW event, Replayed(event)
    PROVE  /\ \A a \in Accepts(advice') : StandsAsOpinion(a)'
           /\ \A a : StandsAsOpinion(a) /\ ~Refutes(event, a) => StandsAsOpinion(a)'
<1>0. SLNext
    BY ReplayStepsTheOpinions
<1>1. CASE Asserted(event)
    <2>1. PICK p \in Claims, v \in HexValues :
            /\ event.kind \in Assertions
            /\ event.claim = {p} /\ event.value = {v}
            /\ AssertClaim(p, v) \/ Vote(p, v)
        BY <1>1, AssertedShape
    <2>2. PICK fresh : Fuse(p, v, fresh)
        BY <2>1 DEF AssertClaim, Vote
    <2>3. /\ opinion' = [opinion EXCEPT ![p] = CumulativeFuse(opinion[p], fresh)]
          /\ heard' = [about |-> {p}, value |-> v]
          /\ advice' = {RecommendFromOpinion(p, CumulativeFuse(opinion[p], fresh))}
        BY <2>2 DEF Fuse
    <2>4. /\ opinion'[p] = CumulativeFuse(opinion[p], fresh)
          /\ \A q \in Claims \ {p} : opinion'[q] = opinion[q]
        BY <2>3 DEF OpinionsTyped
    <2>5. ASSUME NEW a \in Accepts(advice') PROVE StandsAsOpinion(a)'
        <3>1. a = RecommendFromOpinion(p, opinion'[p]) /\ a.kind = "accept"
            BY <2>3, <2>4 DEF Accepts
        <3>2. a.topic = p /\ a.value \in {True, Probable, False, Doubtful}
            BY <3>1 DEF RecommendFromOpinion, Action, Waiting
        <3>3. PICK side \in {Positive, Negative} : a.value \in side
            BY <3>2 DEF Positive, Negative
        <3> QED BY <3>1, <3>2, <3>3 DEF StandsAsOpinion, AcceptedSide
    <2>6. ASSUME NEW a, StandsAsOpinion(a), ~Refutes(event, a)
          PROVE  StandsAsOpinion(a)'
        <3>1. PICK side \in {Positive, Negative} :
                a.value \in side /\ AcceptedSide(a.topic, side)
            BY <2>6 DEF StandsAsOpinion
        <3>2. CASE a.topic = p
            <4>1. a.value = v
                BY <2>1, <2>6, <3>2 DEF Refutes
            <4>2. heard'.about = {a.topic} /\ heard'.value \in side
                BY <2>3, <3>1, <3>2, <4>1
            <4>3. AcceptedSide(a.topic, side)'
                BY <1>0, <3>1, <3>2, <4>2, SupportStep
            <4> QED BY <3>1, <3>2, <4>3 DEF StandsAsOpinion
        <3>3. CASE a.topic # p
            <4>1. a.topic \in Claims /\ opinion'[a.topic] = opinion[a.topic]
                BY <2>4, <2>6, <3>3 DEF StandsAsOpinion
            <4>2. AcceptedSide(a.topic, side)'
                BY <3>1, <4>1 DEF AcceptedSide
            <4> QED BY <3>1, <4>1, <4>2 DEF StandsAsOpinion
        <3> QED BY <3>2, <3>3
    <2> QED BY <2>5, <2>6
<1>2. CASE Withdrawn(event)
    <2>1. PICK p \in Claims :
            /\ event.kind \in Withdrawals /\ event.claim = {p}
            /\ Retract(p) \/ Correct(p)
        BY <1>2, WithdrawnShape
    <2>2. /\ opinion' = [opinion EXCEPT ![p] = Vacuous]
          /\ advice' = {Action("retry", p, Unknown)} \/ advice' = {}
        BY <2>1 DEF Retract, Correct, Reset
    <2>3. Accepts(advice') = {}
        BY <2>2 DEF Accepts, Action
    <2>4. ASSUME NEW a, StandsAsOpinion(a), ~Refutes(event, a)
          PROVE  StandsAsOpinion(a)'
        <3>1. a.topic # p
            BY <2>1, <2>4 DEF Refutes
        <3>2. opinion'[a.topic] = opinion[a.topic]
            BY <2>2, <2>4, <3>1 DEF StandsAsOpinion, OpinionsTyped
        <3> QED BY <2>4, <3>2 DEF StandsAsOpinion, AcceptedSide
    <2> QED BY <2>3, <2>4
<1>3. CASE Unasserted(event)
    <2>1. opinion' = opinion /\ advice' = {}
        BY <1>3, UnassertedShape DEF Ignore
    <2> QED BY <2>1 DEF Accepts, StandsAsOpinion, AcceptedSide
<1> QED BY <1>1, <1>2, <1>3 DEF Replayed

\* Everything an arm accepted stands, unless a relation leads to it or a later
\* event refutes it.
ChargeInv ==
    /\ IsTrace
    /\ \A i \in DOMAIN trace : trace[i].event.cycle \in Nat
    /\ \A i \in DOMAIN trace : \A arm \in Arms :
            \A a \in Accepts(trace[i].actions[arm]) :
                Led(a) \/ Refuted(i, a) \/ Stands(arm, a)

LEMMA ArmsStand ==
    ASSUME TypeOK, Ledger!LedgerTypeOK', OpinionsTyped, ReplayNext,
           NEW event, Replayed(event), NEW arm \in Arms,
           NEW actions,
           actions = [ix_unassisted |-> UnassistedActions(event),
                      recency_decay |-> Scored(outcome'.actions, event.cycle),
                      subjective_logic |-> advice']
    PROVE  /\ \A a \in Accepts(actions[arm]) : Led(a) \/ Stands(arm, a)'
           /\ \A a : Stands(arm, a) /\ ~Led(a) /\ ~Refutes(event, a) => Stands(arm, a)'
<1>1. CASE arm = "ix_unassisted"
    <2>1. actions[arm] = UnassistedActions(event)
        BY <1>1
    <2>2. \A a : /\ Stands(arm, a) <=> StandsUnassisted(a)
                 /\ Stands(arm, a)' <=> StandsUnassisted(a)'
        BY <1>1 DEF Stands
    <2> QED BY ONLY <2>1, <2>2, FaceValueStands, Replayed(event)
<1>2. CASE arm = "recency_decay"
    <2>1. actions[arm] = Scored(outcome'.actions, event.cycle)
        BY <1>2
    <2>2. \A a : /\ Stands(arm, a) <=> StandsInLoop(a)
                 /\ Stands(arm, a)' <=> StandsInLoop(a)'
        BY <1>2 DEF Stands
    <2> QED BY <2>1, <2>2, LoopStands
<1>3. CASE arm = "subjective_logic"
    <2>1. actions[arm] = advice'
        BY <1>3
    <2>2. \A a : /\ Stands(arm, a) <=> StandsAsOpinion(a)
                 /\ Stands(arm, a)' <=> StandsAsOpinion(a)'
        BY <1>3 DEF Stands
    <2> QED BY <2>1, <2>2, OpinionStands
<1> QED BY <1>1, <1>2, <1>3 DEF Arms

LEMMA ChargeStep ==
    ASSUME TypeOK, Ledger!LedgerTypeOK', OpinionsTyped, ChargeInv, ReplayNext,
           NEW event, Replayed(event)
    PROVE  ChargeInv'
<1> DEFINE n == Len(trace)
           actions == [ix_unassisted |-> UnassistedActions(event),
                       recency_decay |-> Scored(outcome'.actions, event.cycle),
                       subjective_logic |-> advice']
<1>0. Replay(event) /\ IsTrace
    BY DEF ChargeInv, Replayed
<1>1. trace'[n + 1] = [event |-> event, belief |-> belief', actions |-> actions]
    BY ONLY <1>0, StepAppends
<1> HIDE DEF actions
<1>2. trace'[n + 1].event = event /\ trace'[n + 1].actions = actions
    BY ONLY <1>1
<1>3. /\ IsTrace'
      /\ n \in Nat
      /\ DOMAIN trace = 1 .. n
      /\ DOMAIN trace' = 1 .. n + 1
      /\ \A i \in DOMAIN trace : trace'[i] = trace[i]
    BY ONLY <1>0, StepAppends
<1> HIDE DEF n
<1>4. ASSUME NEW arm \in Arms
      PROVE  /\ \A a \in Accepts(actions[arm]) : Led(a) \/ Stands(arm, a)'
             /\ \A a : Stands(arm, a) /\ ~Led(a) /\ ~Refutes(event, a)
                            => Stands(arm, a)'
    BY ArmsStand DEF actions
<1>5. ASSUME NEW i \in DOMAIN trace', NEW arm \in Arms,
             NEW a \in Accepts(trace'[i].actions[arm])
      PROVE  Led(a) \/ Refuted(i, a)' \/ Stands(arm, a)'
    <2>1. CASE i = n + 1
        BY <1>2, <1>4, <1>5, <2>1
    <2>2. CASE i \in DOMAIN trace
        <3>1. Led(a) \/ Refuted(i, a) \/ Stands(arm, a)
            BY <1>3, <1>5, <2>2 DEF ChargeInv
        <3>2. Refuted(i, a) => Refuted(i, a)'
            BY <1>3 DEF Refuted, Refutes
        <3>3. Refutes(event, a) => Refuted(i, a)'
            <4>1. i < n + 1 /\ n + 1 \in DOMAIN trace'
                BY <1>3, <2>2
            <4>2. Refutes(event, a) => Refutes(trace'[n + 1].event, a)
                BY <1>2
            <4> QED BY <4>1, <4>2 DEF Refuted, Refutes
        <3> QED BY <1>4, <3>1, <3>2, <3>3
    <2> QED BY <1>3, <2>1, <2>2
<1>6. ASSUME NEW i \in DOMAIN trace' PROVE trace'[i].event.cycle \in Nat
    <2>1. event.cycle \in Nat
        BY DEF Replayed
    <2> QED BY <1>2, <1>3, <2>1 DEF ChargeInv
<1>7. \A a : Led(a)' <=> Led(a)
    BY DEF Led
<1> QED BY <1>3, <1>5, <1>6, <1>7 DEF ChargeInv

\* What stands is reported so: neither as contradictory nor as of the other
\* side.
LEMMA ReportStands ==
    ASSUME OpinionsTyped, NEW arm \in Arms, NEW a, Stands(arm, a),
           a.value # Contradictory
    PROVE  /\ FinalBeliefs[arm][a.topic] # Contradictory
           /\ ~InConflict({a.value, FinalBeliefs[arm][a.topic]})
<1> DEFINE final == FinalBeliefs[arm][a.topic]
<1>0. /\ Absent \notin Positive \cup Negative /\ Unknown \notin Positive \cup Negative
      /\ Contradictory \notin Positive \cup Negative
      /\ Positive \cap Negative = {}
      /\ Absent # Contradictory /\ Unknown # Contradictory
    BY DEF Absent, Positive, Negative, True, Probable, Unknown, Doubtful, False,
        Contradictory
<1>1. ASSUME final \in {a.value, Unknown, Absent}
      PROVE  final # Contradictory /\ ~InConflict({a.value, final})
    <2> HIDE DEF final
    <2> QED BY <1>0, <1>1 DEF InConflict
<1>2. CASE arm = "ix_unassisted"
    <2>1. final = accepted[a.topic]
        BY <1>2 DEF FinalBeliefs
    <2>2. StandsUnassisted(a)
        BY <1>2 DEF Stands
    <2> QED BY <1>1, <2>1, <2>2 DEF StandsUnassisted
<1>3. CASE arm = "recency_decay"
    <2>1. StandsInLoop(a)
        BY <1>3 DEF Stands
    <2>2. final \in {belief[a.topic], Absent}
        BY <1>3, <2>1 DEF FinalBeliefs, StandsInLoop
    <2> QED BY <1>1, <2>1, <2>2 DEF StandsInLoop
<1>4. CASE arm = "subjective_logic"
    <2>1. StandsAsOpinion(a)
        BY <1>4 DEF Stands
    <2>2. PICK side \in {Positive, Negative} :
            a.value \in side /\ AcceptedSide(a.topic, side)
        BY <2>1 DEF StandsAsOpinion
    <2>3. HexValueForOpinion(opinion[a.topic]) \in side
        BY <2>1, <2>2, AcceptanceIsReported DEF StandsAsOpinion, AcceptAgreesWithReport
    <2>4. final \in {HexValueForOpinion(opinion[a.topic]), Absent}
        <3>1. a.topic \in Props
            BY <2>1, ReplayAssumption DEF StandsAsOpinion
        <3> QED BY <1>4, <3>1 DEF FinalBeliefs
    <2> HIDE DEF final
    <2>5. CASE final = Absent
        BY <1>1, <2>5 DEF final
    <2>6. CASE final \in side
        <3>1. final # Contradictory
            BY <1>0, <2>6
        <3>2. {a.value, final} \subseteq side
            BY <2>2, <2>6
        <3>3. ~InConflict({a.value, final})
            BY <1>0, <3>2, Zenon DEF InConflict
        <3> QED BY <3>1, <3>3 DEF final
    <2> QED BY <2>3, <2>4, <2>5, <2>6 DEF final
<1> QED BY <1>2, <1>3, <1>4 DEF Arms

\* No arm is charged with a false acceptance that no later event refuted, in
\* any trace whose stamps never go back (paired_eval.rs,
\* false_acceptance_count): what an arm accepts it never turns over by itself.
THEOREM ChargesHaveCauses == ReplaySpec => []ChargeHasCause
<1>1. ReplayInit => TypeOK /\ OpinionsTyped /\ ChargeInv
    <2> SUFFICES ASSUME ReplayInit PROVE TypeOK /\ OpinionsTyped /\ ChargeInv
        OBVIOUS
    <2>1. trace = <<>> /\ trace \in Seq({})
        BY DEF ReplayInit
    <2>2. IsTrace /\ DOMAIN trace = {}
        BY <2>1 DEF IsTrace
    <2>3. TypeOK /\ OpinionsTyped
        BY InitTypeOK, InitTyped DEF ReplayInit
    <2> QED BY <2>2, <2>3 DEF ChargeInv
<1>2. TypeOK /\ OpinionsTyped /\ ChargeInv /\ [ReplayNext]_<<vars, armvars>>
            => TypeOK' /\ OpinionsTyped' /\ ChargeInv'
    <2>1. TypeOK /\ OpinionsTyped /\ ChargeInv /\ ReplayNext
            => TypeOK' /\ OpinionsTyped' /\ ChargeInv'
        BY StepReplaysAnEvent, ReplayKeepsType, ChargeStep, ReplayStepsTheOpinions,
           NextTyped
    <2>2. TypeOK /\ UNCHANGED vars => TypeOK'
        BY NextTypeOK
    <2>3. OpinionsTyped /\ UNCHANGED armvars => OpinionsTyped'
        BY NextTyped DEF armvars
    <2>4. ChargeInv /\ UNCHANGED <<vars, armvars>> => ChargeInv'
        <3> SUFFICES ASSUME ChargeInv, UNCHANGED <<vars, armvars>> PROVE ChargeInv'
            OBVIOUS
        <3>1. /\ trace' = trace /\ accepted' = accepted /\ belief' = belief
              /\ opinion' = opinion
            BY DEF vars, armvars, slvars
        <3>2. \A i, a : Refuted(i, a)' <=> Refuted(i, a)
            BY <3>1 DEF Refuted, Refutes
        <3>3. \A arm, a : Stands(arm, a)' <=> Stands(arm, a)
            BY <3>1 DEF Stands, StandsUnassisted, StandsInLoop, StandsAsOpinion,
                AcceptedSide
        <3> QED BY <3>1, <3>2, <3>3 DEF ChargeInv, IsTrace, Led
    <2> QED BY <2>1, <2>2, <2>3, <2>4
<1>3. OpinionsTyped /\ ChargeInv => ChargeHasCause
    <2> SUFFICES ASSUME OpinionsTyped, ChargeInv, InStampOrder,
                        NEW arm \in Arms, NEW i \in DOMAIN trace,
                        NEW a \in FalseAccepts(i, Report(arm)),
                        a.value # Contradictory, ~Led(a)
                 PROVE  Refuted(i, a)
        BY Zenon DEF ChargeHasCause, Led, Refuted
    <2>1. /\ Report(arm).outcomes = Outcomes(arm)
          /\ Report(arm).final = FinalBeliefs[arm]
        BY DEF Report
    <2>2. /\ DOMAIN Outcomes(arm) = DOMAIN trace
          /\ \A j \in DOMAIN trace : /\ Outcomes(arm)[j].event = trace[j].event
                                     /\ Outcomes(arm)[j].actions = trace[j].actions[arm]
        BY DEF Outcomes
    <2>3. /\ a \in Accepts(trace[i].actions[arm])
          /\ \/ WithdrawnAfter(a.topic, trace[i].event.cycle, Outcomes(arm))
             \/ FinalBeliefs[arm][a.topic] = Contradictory
             \/ InConflict({a.value, FinalBeliefs[arm][a.topic]})
        <3>1. /\ a \in Accepts(Outcomes(arm)[i].actions)
              /\ AcceptWasInvalidated(a.topic, a.value, Outcomes(arm)[i].event.cycle,
                                      Report(arm))
            BY <2>1, Zenon DEF FalseAccepts
        <3> QED BY <2>1, <2>2, <3>1, Zenon DEF AcceptWasInvalidated
    <2>4. Refuted(i, a) \/ Stands(arm, a)
        BY <2>3 DEF ChargeInv
    <2>5. CASE WithdrawnAfter(a.topic, trace[i].event.cycle, Outcomes(arm))
        <3>1. PICK j \in DOMAIN trace :
                /\ trace[j].event.claim = {a.topic}
                /\ trace[j].event.cycle > trace[i].event.cycle
                /\ trace[j].event.kind \in Withdrawals
            BY <2>2, <2>5 DEF WithdrawnAfter, OutcomesOf
        <3>2. trace[i].event.cycle \in Nat /\ trace[j].event.cycle \in Nat
            BY DEF ChargeInv
        <3>3. i \in Nat /\ j \in Nat
            BY DEF ChargeInv, IsTrace
        <3>4. i < j
            <4>1. i # j
                BY <3>1, <3>2
            <4>2. ~(j < i)
                BY <3>1, <3>2 DEF InStampOrder
            <4> QED BY <3>3, <4>1, <4>2
        <3> QED BY <3>1, <3>4 DEF Refuted, Refutes
    <2> QED BY <2>3, <2>4, <2>5, ReportStands
<1> QED BY <1>1, <1>2, <1>3, PTL DEF ReplaySpec
=============================================================================
