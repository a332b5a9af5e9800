---------------------------- MODULE PairedReplay ---------------------------
(***************************************************************************)
(* hari-core's paired evaluation replays one trace under several policies  *)
(* on fresh state and grades their reports by the same labels.  Here the   *)
(* arms run side by side, one event of the trace per step:                 *)
(*   - recency_decay: BeliefRevision, whose actions are then scored by the *)
(*     age of their event and withheld when they are too old;              *)
(*   - subjective_logic: SubjectiveLogic;                                  *)
(*   - ix_unassisted: no policy, every claim is accepted at face value.    *)
(* The Lie arm projects its scores on a floating-point state and is left   *)
(* out, as are the goals the last two arms only record.                    *)
(***************************************************************************)
EXTENDS BeliefRevision, SubjectiveLogic, PairedGrading

CONSTANTS
    TraceSelectors, \* the selectors its revisions carry
    TraceStatuses,  \* the statuses its goal updates state, if any
    OtherCycles,    \* the stamps of its events about no claim
    StaleAge,       \* the age from which a recency-decayed score is too low
    Labelings,      \* label lists that fixtures may carry
    MaxEvents       \* bound of the model: events of the trace

ASSUME ReplayAssumption ==
    /\ Claims \subseteq Props
    /\ TraceSelectors \subseteq Selectors
    /\ TraceStatuses \subseteq Optional(Values)
    /\ Cycles \subseteq Nat
    /\ OtherCycles \subseteq Cycles
    /\ StaleAge \in Nat \ {0}
    /\ \A labels \in Labelings : \A i \in DOMAIN labels : labels[i].expect \in Halves

VARIABLES
    loopCycle,      \* the loop's own cycle counter
    accepted,       \* what ix_unassisted took at face value
    trace           \* history: each event, with every arm's answer to it

armvars == <<loopCycle, accepted, trace, slvars>>

Arms == {"ix_unassisted", "recency_decay", "subjective_logic"}

-----------------------------------------------------------------------------
(* The arms' answers.                                                      *)

TakesAtFaceValue == Assertions \cup {"correction"}

FaceValues(event) ==
    CASE event.kind \in TakesAtFaceValue ->
            [p \in Props |-> IF p \in event.claim
                             THEN CHOOSE v \in event.value : TRUE
                             ELSE accepted[p]]
      [] event.kind \in {"retraction", "supersession"} ->
            [p \in Props |-> IF p \in event.claim THEN Unknown ELSE accepted[p]]
      [] OTHER -> accepted

UnassistedActions(event) ==
    IF event.kind \in TakesAtFaceValue
    THEN {Action("accept", p, v) : p \in event.claim, v \in event.value}
    ELSE {}

\* Every action of an event carries the event's cycle, and a score that decays
\* with its age on the loop's counter; log actions alone are too weak as well.
Withheld(actions, cycle) ==
    \/ actions = {}
    \/ loopCycle' > cycle /\ loopCycle' - cycle >= StaleAge

Scored(actions, cycle) == IF Withheld(actions, cycle) THEN {Waiting} ELSE actions

\* Slip: a revision starts the count again.
TickFromRevision(event) ==
    loopCycle' = (IF event.kind \in Assertions THEN loopCycle + 1 ELSE 0)

\* Only an assertion runs a cognitive cycle.
Tick(event) ==
    loopCycle' = loopCycle + (IF event.kind \in Assertions THEN 1 ELSE 0)

\* What remains of an event once the pipelines have seen it.
Replay(event) ==
    /\ Tick(event)
    /\ accepted' = FaceValues(event)
    /\ trace' = Append(trace,
            [event |-> event, belief |-> belief',
             actions |-> [ix_unassisted |-> UnassistedActions(event),
                          recency_decay |-> Scored(outcome'.actions, event.cycle),
                          subjective_logic |-> advice']])

-----------------------------------------------------------------------------
(* The events of the trace.                                                *)

ReplayInit ==
    /\ Init
    /\ SLInit
    /\ loopCycle = 0
    /\ accepted = [p \in Props |-> Absent]
    /\ trace = <<>>

ReplayAssertion(cycle) ==
    \E source \in Sources, p \in Claims, v \in Values :
        \/ /\ BeliefUpdate(source, cycle, p, v)
           /\ AssertClaim(p, v)
           /\ Replay(Event("belief_update", cycle, {p}, {v}))
        \/ /\ source \in Voters
           /\ AgentVote(source, cycle, p, v)
           /\ Vote(p, v)
           /\ Replay(Event("agent_vote", cycle, {p}, {v}))

ReplayRevision(cycle) ==
    \E p \in Claims :
        \/ /\ WholeRetraction(p)
           /\ Retract(p)
           /\ Replay(Event("retraction", cycle, {p}, {}))
        \/ \E selector \in TraceSelectors :
              \/ /\ SelectiveRetraction(p, selector)
                 /\ Retract(p)
                 /\ Replay(Event("retraction", cycle, {p}, {}))
              \/ \E source \in Sources, v \in Values :
                    /\ Correction(source, cycle, p, selector, v)
                    /\ Correct(p)
                    /\ Replay(Event("correction", cycle, {p}, {v}))
        \/ \E successor \in Props :
              /\ <<p, successor>> \in Successions
              /\ Supersession(p, successor)
              /\ Ignore
              /\ Replay(Event("supersession", cycle, {p}, {}))

ReplayStructure(cycle) ==
    /\ Ignore
    /\ \/ /\ \E e \in Edges : DeclareRelation(e)
          /\ Replay(Event("relation_declaration", cycle, {}, {}))
       \/ /\ \E e \in Edges : RelationWithdrawal(e) \/ UnmatchedWithdrawal(e)
          /\ Replay(Event("relation_withdrawal", cycle, {}, {}))
       \/ /\ \E g \in Goals, priority \in Priorities, status \in TraceStatuses :
                GoalUpdate(g, priority, status)
          /\ Replay(Event("goal_update", cycle, {}, {}))

ReplayNext ==
    /\ Len(trace) < MaxEvents
    /\ \/ \E cycle \in Cycles : ReplayAssertion(cycle) \/ ReplayRevision(cycle)
       \/ \E cycle \in OtherCycles : ReplayStructure(cycle)

ReplaySpec == ReplayInit /\ [][ReplayNext]_<<vars, armvars>>

-----------------------------------------------------------------------------
(* The reports.                                                            *)

Outcomes(arm) ==
    [i \in DOMAIN trace |->
        [event |-> trace[i].event, actions |-> trace[i].actions[arm]]]

Touched == UNION {trace[i].event.claim : i \in DOMAIN trace}

FinalBeliefs ==
    [ix_unassisted |-> accepted,
     recency_decay |-> [p \in Props |-> IF p \in Touched THEN belief[p] ELSE Absent],
     subjective_logic |->
        [p \in Props |-> IF p \in Touched \cap held
                         THEN HexValueForOpinion(opinion[p]) ELSE Absent]]

Report(arm) == [outcomes |-> Outcomes(arm), final |-> FinalBeliefs[arm]]

-----------------------------------------------------------------------------

\* What recency decay withholds for its age stays withheld: the loop's counter
\* never falls back, so once a stamp is too old to be heard, no event with it
\* or an older one gets an answer again, be it a retraction or an escalation.
SilenceIsForGood ==
    \A i, j \in DOMAIN trace :
        /\ i < j
        /\ trace[i].event.kind \in Assertions \cup Withdrawals
        /\ Withholds(trace[i].actions.recency_decay)
        /\ trace[j].event.cycle <= trace[i].event.cycle
        => Withholds(trace[j].actions.recency_decay)

\* No arm is charged with a false acceptance that nothing since has refuted:
\* in a trace whose stamps never go back, a claim no relation leads to was
\* withdrawn, corrected, asserted otherwise or voted on by the swarm after it
\* was accepted, unless it was accepted as contradictory.
InStampOrder ==
    \A i, j \in DOMAIN trace :
        i < j => trace[i].event.cycle <= trace[j].event.cycle
Refutes(event, a) ==
    /\ event.claim = {a.topic}
    /\ \/ event.kind \in Withdrawals
       \/ event.kind \in Assertions /\ a.value \notin event.value
       \/ event.kind = "agent_vote" /\ UseSwarmConsensus
ChargeHasCause ==
    InStampOrder =>
        \A arm \in Arms :
            LET report == Report(arm)
            IN  \A i \in DOMAIN trace : \A a \in FalseAccepts(i, report) :
                    \/ a.value = Contradictory
                    \/ \E e \in Edges : e.to = a.topic
                    \/ \E j \in DOMAIN trace : i < j /\ Refutes(trace[j].event, a)

\* The metrics read beliefs off actions, and a contradiction they call
\* unrecovered is one: where no other claim escalates, recency decay still
\* held it contradictory after every later event about it.
OwnEscalationsOnly ==
    \A i \in DOMAIN trace : \A a \in trace[i].actions.recency_decay :
        a.kind = "escalate" => trace[i].event.claim = {a.topic}
UnrecoveredIsContradictory ==
    LET outcomes == Outcomes("recency_decay")
    IN  /\ OwnEscalationsOnly
        /\ Contradicted(outcomes) # {}
        /\ ContradictionRecoveryCycles(outcomes) = {}
        => \A p \in Contradicted(outcomes) : \A i \in OutcomesOf(p, outcomes) :
                trace[i].event.cycle > FirstContradictory(p, outcomes)
                    => trace[i].belief[p] = Contradictory

\* Every labelled pair is graded or named among the defects, never both, and
\* alike in the arms that are compared, so that no comparison drops a pair.
Accounted(labels, score) ==
    \A pair \in LabelledPairs(labels) :
        pair \in DOMAIN score.per_pair <=> \A d \in score.defects : d.pair # pair
EveryPairIsAccountedFor ==
    \A labels \in Labelings :
        LET unassisted == ScorePaired(Outcomes("ix_unassisted"), labels)
            decay == ScorePaired(Outcomes("recency_decay"), labels)
            sl == ScorePaired(Outcomes("subjective_logic"), labels)
            clause1 == ClusterFromArms("trace", "recency_decay", decay.per_pair,
                            "ix_unassisted", unassisted.per_pair)
            cheap == ClusterFromArms("trace", "subjective_logic", sl.per_pair,
                            "recency_decay", decay.per_pair)
        IN  /\ Accounted(labels, unassisted)
            /\ Accounted(labels, decay)
            /\ Accounted(labels, sl)
            /\ clause1.unmatched = {}
            /\ cheap.unmatched = {}
=============================================================================
