--------------------------- MODULE BeliefRevision ---------------------------
(***************************************************************************)
(* hari-core's cognitive loop at the research-event boundary.  One event   *)
(* is one atomic step: evidence goes to the ledger, the event's handler    *)
(* revises beliefs, goals, relations and votes, and a propagation pass     *)
(* ends the event.                                                         *)
(*                                                                         *)
(* Modelled for the default pipeline, up to the actions it hands to        *)
(* scoring, without log actions.  Scoring only reorders or suppresses what *)
(* is reported: what the default recency decay suppresses is in            *)
(* PairedReplay.  PriorityModel::SubjectiveLogic bypasses this pipeline    *)
(* altogether and is in SubjectiveLogic.                                   *)
(***************************************************************************)
EXTENDS Propagation, HexMerge, SwarmConsensus, Recommendations, SequencesExt

CONSTANTS
    Sources,        \* sources of events
    Voters,         \* the sources that also vote
    Cycles,         \* cycle stamps events may carry
    Values,         \* values events may assert
    Edges,          \* the relation triples that may be declared
    Successions,    \* pairs of a claim and the claim that may succeed it
    Goals,          \* goal keys; a goal is about the proposition of its key
    Priorities,     \* priorities a goal may be given
    SourceWeight,   \* weight of each source's evidence, in hundredths
    SelfTrust,      \* trust of each voter in itself, in tenths
    InitialAgents,  \* voters declared when the session opened
    RoleWeighted,   \* whether consensus weighs voters by SelfTrust
    UseSwarmConsensus,  \* whether a vote is perceived as the consensus
    MaxRounds,      \* the propagation budget of one event
    MaxEvidence,    \* bound of the model: ledger entries in all
    MaxParallel     \* bound of the model: edges of one triple, live or not

ASSUME RevisionAssumption ==
    /\ Values \subseteq HexValues
    /\ Edges \subseteq EdgeTriples
    /\ Successions \subseteq Props \X Props
    /\ Goals \subseteq Props
    /\ Priorities \subseteq Nat
    /\ Voters \subseteq Sources
    /\ InitialAgents \subseteq Voters
    /\ MaxRounds \in Nat \ {0}
    /\ MaxEvidence \in Nat
    /\ MaxParallel \in Nat

\* An optional value is the set of at most one element that holds it.
Optional(S) == {{}} \cup {{x} : x \in S}

NoGoal == [priority |-> 0, status |-> Absent]

VARIABLES
    belief,         \* value of each proposition, Absent without a node
    live,           \* number of live edges of each triple
    withdrawn,      \* number of withdrawn edges of each triple
    ledger,         \* evidence recorded for each proposition
    superseded,     \* the claim each proposition was last retired for
    goals,          \* priority and status of each goal
    votes,          \* each voter's latest position on each proposition
    agents,         \* the voters the swarm knows
    outcome         \* what the last event reported

vars == <<belief, live, withdrawn, ledger, superseded, goals, votes, agents,
          outcome>>

\* The ledger alone, as the abstract specification sees it.
Ledger == INSTANCE EvidenceLedger
            WITH Props <- Props, Sources <- Sources, Cycles <- Cycles,
                 ledger <- ledger
LedgerSpec == Ledger!Spec

-----------------------------------------------------------------------------
(* The ledger and the recomputation of a belief from it.                   *)

Entry(source, cycle, value) ==
    [source |-> source, cycle |-> cycle, value |-> value, retracted |-> FALSE]

EvidenceSize == MapThenSumSet(LAMBDA p : Len(ledger[p]), Props)

\* A selector constrains the source, the cycle, both or neither.
Selectors == [source : Optional(Sources), cycle : Optional(Cycles)]
IsTargeted(selector) == selector.source # {} \/ selector.cycle # {}
Matches(selector, e) ==
    /\ selector.source # {} => e.source \in selector.source
    /\ selector.cycle # {} => e.cycle \in selector.cycle

Standing(entries) == {i \in DOMAIN entries : ~entries[i].retracted}
MatchedBy(selector, entries) ==
    {i \in Standing(entries) : Matches(selector, entries[i])}
\* Slip: the retracted flag is overwritten, which lifts older tombstones.
TombstoneOverwriting(entries, which) ==
    [i \in DOMAIN entries |->
        [entries[i] EXCEPT !.retracted = i \in which]]

Tombstone(entries, which) ==
    [i \in DOMAIN entries |->
        [entries[i] EXCEPT !.retracted = @ \/ i \in which]]

BeliefClaim == [action |-> "belief", aspect |-> "valuable"]

\* A cycle is an unsigned number and a weight a positive one; claims have an
\* order.
ASSUME EvidenceAssumption ==
    /\ Cycles \subseteq Nat
    /\ SourceWeight \in [Sources -> Nat]
    /\ ClaimOrder[BeliefClaim] \in Nat

\* Slip: every entry is the first of its round.
EvidenceObsWithoutOrdinal(entries, i) ==
    [source |-> entries[i].source, diagnosis |-> EmittedDiagnosis,
     round |-> entries[i].cycle, ordinal |-> 0, claim |-> BeliefClaim,
     variant |-> entries[i].value,
     weight |-> SourceWeight[entries[i].source]]

\* The position in the ledger is the ordinal, so no two entries share a key.
EvidenceObs(entries, i) ==
    [source |-> entries[i].source, diagnosis |-> EmittedDiagnosis,
     round |-> entries[i].cycle, ordinal |-> i, claim |-> BeliefClaim,
     variant |-> entries[i].value,
     weight |-> SourceWeight[entries[i].source]]

\* Slip: observations are counted, not their sources.
CorroboratedByCount(primaries, side, strong, weak) ==
    IF Cardinality({o \in primaries : o.variant \in side}) > 1
    THEN strong ELSE weak

\* A strong pole needs two distinct sources on its side.
Corroborated(primaries, side, strong, weak) ==
    IF Cardinality({o.source : o \in {q \in primaries : q.variant \in side}}) > 1
    THEN strong ELSE weak

ProjectBelief(merged) ==
    LET primaries == BaseEvidence(merged)
        base == Highest({o.variant : o \in primaries})
    IN  CASE EscalationTriggered(merged) -> Contradictory
          [] primaries = {} -> Unknown
          [] OTHER ->
                CASE base = True -> Corroborated(primaries, Positive, True, Probable)
                  [] base = False -> Corroborated(primaries, Negative, False, Doubtful)
                  [] OTHER -> base

RecomputeFromLedger(entries) ==
    LET observations == {EvidenceObs(entries, i) : i \in DOMAIN entries}
        tombstoned == {DedupKey(EvidenceObs(entries, i)) :
                            i \in DOMAIN entries \ Standing(entries)}
    IN  ProjectBelief(MergeWithTombstones(observations, tombstoned, 0, 0))

\* The fidelity oracle: the same evidence, had only the survivors been sent.
RecomputeBelief(survivors) ==
    ProjectBelief(MergeAll(
        {[EvidenceObs(survivors, i) EXCEPT !.round = i] :
            i \in DOMAIN survivors}))

-----------------------------------------------------------------------------
(* What the handlers share.                                                *)

Present == {p \in Props : belief[p] # Absent}

\* Slip: a single round stands for the pass.
SettleOnce(b, edges) == Pass(b, {e \in Edges : edges[e] > 0}, 1)

Settle(b, edges) == Pass(b, {e \in Edges : edges[e] > 0}, MaxRounds)

\* Slip: the last write wins.
PerceivedLast(p, v) == [belief EXCEPT ![p] = v]

Perceived(p, v) ==
    [belief EXCEPT ![p] = IF @ = Absent THEN v ELSE CombineEvidence(@, v)]

\* Slip: a likely belief is written over an achieved goal.
RefreshedGoalsDowngrading(b) ==
    [g \in Goals |->
        IF goals[g] # NoGoal /\ b[g] \in Positive
        THEN [goals[g] EXCEPT !.status = b[g]]
        ELSE goals[g]]

\* Every goal follows its belief up to likely achieved or achieved; evidence
\* that collapses later takes no credit back.
RefreshedGoals(b) ==
    [g \in Goals |->
        IF /\ goals[g] # NoGoal
           /\ b[g] \in Positive
           /\ goals[g].status = True => b[g] = True
        THEN [goals[g] EXCEPT !.status = b[g]]
        ELSE goals[g]]

\* Goals not yet achieved, of the highest priority; the code breaks a tie by
\* the order of the keys.
OpenGoals == {g \in Goals : goals[g] # NoGoal /\ goals[g].status # True}
TopGoals ==
    {g \in OpenGoals : \A h \in OpenGoals : goals[h].priority <= goals[g].priority}

\* The goals are looked at before their statuses are refreshed.
GoalActions(b, top) ==
    {RecommendForClaim(g, b[g]) :
        g \in {h \in top : b[h] \in {Unknown, Contradictory}}}

Delta(p, previous, current, cause, successor) ==
    [proposition |-> p, previous |-> previous, current |-> current,
     cause |-> cause, superseded_by |-> successor]

\* A delta is reported only for a proposition that already had a value.
DeltaIfKnown(p, current, cause, successor) ==
    IF belief[p] = Absent THEN {}
    ELSE {Delta(p, belief[p], current, cause, successor)}

Outcome(event, p, actions, revisions) ==
    [event |-> event, about |-> p, tombstoned |-> 0,
     actions |-> actions, revisions |-> revisions]

-----------------------------------------------------------------------------
(* The events.                                                             *)

Init ==
    /\ belief = [p \in Props |-> Absent]
    /\ live = [e \in Edges |-> 0]
    /\ withdrawn = [e \in Edges |-> 0]
    /\ ledger = [p \in Props |-> <<>>]
    /\ superseded = [p \in Props |-> {}]
    /\ goals = [g \in Goals |-> NoGoal]
    /\ votes = [a \in Voters |-> [p \in Props |-> Absent]]
    /\ agents = InitialAgents
    /\ outcome = Outcome("none", {}, {}, {})

Record(p, e) ==
    /\ EvidenceSize < MaxEvidence
    /\ ledger' = [ledger EXCEPT ![p] = Append(@, e)]

\* Perceive the value, run one cognitive cycle and recommend on the result.
PerceiveAndCycle(event, p, v) ==
    LET seen == Perceived(p, v)
    IN  \E top \in Optional(TopGoals) :
            /\ (top = {}) <=> (TopGoals = {})
            /\ goals' = RefreshedGoals(seen)
            /\ belief' = Settle(seen, live)
            /\ outcome' = Outcome(event, {p},
                    GoalActions(seen, top) \cup {RecommendForClaim(p, seen[p])}, {})

\* An experiment result is handled alike, under another perception label.
BeliefUpdate(source, cycle, p, v) ==
    /\ Record(p, Entry(source, cycle, v))
    /\ PerceiveAndCycle("belief_update", p, v)
    /\ UNCHANGED <<live, withdrawn, superseded, votes, agents>>

\* A voter not declared beforehand joins with neutral trust.
NeutralTrust == 5
VoteWeight(a) ==
    CASE ~RoleWeighted -> 1
      [] RoleWeighted /\ a \in InitialAgents -> SelfTrust[a]
      [] OTHER -> NeutralTrust

\* Every agent of the swarm counts, one without a position as Unknown.
SwarmValue(p, positions, voters) ==
    Consensus([a \in voters |->
                    IF positions[a][p] = Absent THEN Unknown
                    ELSE positions[a][p]],
              [a \in voters |-> VoteWeight(a)])

\* The ledger keeps the vote as cast, the beliefs may follow the consensus.
AgentVote(source, cycle, p, v) ==
    /\ Record(p, Entry(source, cycle, v))
    /\ votes' = [votes EXCEPT ![source][p] = v]
    /\ agents' = agents \cup {source}
    /\ PerceiveAndCycle("agent_vote", p,
            IF UseSwarmConsensus THEN SwarmValue(p, votes', agents') ELSE v)
    /\ UNCHANGED <<live, withdrawn, superseded>>

\* Tombstone what the selector matches and replace the value by what the
\* survivors give, whether or not anything matched.
SelectiveRetraction(p, selector) ==
    LET which == MatchedBy(selector, ledger[p])
        entries == Tombstone(ledger[p], which)
        recomputed == RecomputeFromLedger(entries)
    IN  /\ IsTargeted(selector)
        /\ ledger' = [ledger EXCEPT ![p] = entries]
        /\ belief' = Settle([belief EXCEPT ![p] = recomputed], live)
        /\ outcome' =
            [Outcome("retraction", {p}, {RecommendForClaim(p, recomputed)},
                     DeltaIfKnown(p, recomputed, "retraction", {}))
                EXCEPT !.tombstoned = Cardinality(which)]
        /\ UNCHANGED <<live, withdrawn, superseded, goals, votes, agents>>

\* Slip: the proposition goes with its evidence.
WholeRetractionErasing(p) ==
    /\ ledger' = [ledger EXCEPT ![p] = Tombstone(@, DOMAIN @)]
    /\ belief' = [belief EXCEPT ![p] = Absent]
    /\ outcome' = Outcome("retraction", {p}, {}, {})
    /\ UNCHANGED <<live, withdrawn, superseded, goals, votes, agents>>

\* Without a selector all evidence goes, and no delta is reported.
WholeRetraction(p) ==
    LET entries == Tombstone(ledger[p], DOMAIN ledger[p])
        recomputed == RecomputeFromLedger(entries)
    IN  /\ ledger' = [ledger EXCEPT ![p] = entries]
        /\ belief' = Settle([belief EXCEPT ![p] = recomputed], live)
        /\ outcome' = Outcome("retraction", {p},
                {Action("retry", p, recomputed)}, {})
        /\ UNCHANGED <<live, withdrawn, superseded, goals, votes, agents>>

\* Tombstone and replacement are one step; an empty selector corrects all.
Correction(source, cycle, p, selector, v) ==
    LET entries == Append(Tombstone(ledger[p], MatchedBy(selector, ledger[p])),
                          Entry(source, cycle, v))
        recomputed == RecomputeFromLedger(entries)
    IN  /\ EvidenceSize < MaxEvidence
        /\ ledger' = [ledger EXCEPT ![p] = entries]
        /\ belief' = Settle([belief EXCEPT ![p] = recomputed], live)
        /\ outcome' =
            Outcome("correction", {p}, {RecommendForClaim(p, recomputed)},
                    DeltaIfKnown(p, recomputed, "correction", {}))
        /\ UNCHANGED <<live, withdrawn, superseded, goals, votes, agents>>

\* The retired claim keeps its value and its place in the network.
Supersession(p, successor) ==
    /\ superseded' = [superseded EXCEPT ![p] = {successor}]
    /\ belief' = Settle(belief, live)
    /\ outcome' = Outcome("supersession", {p}, {},
            DeltaIfKnown(p, belief[p], "supersession", {successor}))
    /\ UNCHANGED <<live, withdrawn, ledger, goals, votes, agents>>

DeclareRelation(e) ==
    /\ live[e] + withdrawn[e] < MaxParallel
    /\ live' = [live EXCEPT ![e] = @ + 1]
    /\ belief' = Settle([p \in Props |->
                            IF p \in {e.from, e.to} \ Present THEN Unknown
                            ELSE belief[p]], live')
    /\ outcome' = Outcome("relation_declaration", {e.from, e.to}, {}, {})
    /\ UNCHANGED <<withdrawn, ledger, superseded, goals, votes, agents>>

HasEvidence(p) == Standing(ledger[p]) # {}

\* Slip: retracted evidence still anchors a proposition.
WithoutNeverObserved ==
    [p \in Props |->
        IF p \in Present /\ ledger[p] = <<>> THEN Unknown ELSE belief[p]]

\* Propositions without surviving evidence start again from Unknown.
WithoutDerived ==
    [p \in Props |->
        IF p \in Present /\ ~HasEvidence(p) THEN Unknown ELSE belief[p]]

RelationWithdrawal(e) ==
    /\ live[e] > 0
    /\ live' = [live EXCEPT ![e] = @ - 1]
    /\ withdrawn' = [withdrawn EXCEPT ![e] = @ + 1]
    /\ belief' = Settle(WithoutDerived, live')
    /\ outcome' = Outcome("relation_withdrawal", {e.from, e.to}, {},
            {Delta(p, belief[p], belief'[p], "relation_withdrawal", {}) :
                p \in {q \in Present : belief'[q] # belief[q]}})
    /\ UNCHANGED <<ledger, superseded, goals, votes, agents>>

\* Without a live edge to withdraw the event is logged, and propagation runs.
UnmatchedWithdrawal(e) ==
    /\ live[e] = 0
    /\ belief' = Settle(belief, live)
    /\ outcome' = Outcome("relation_withdrawal", {e.from, e.to}, {}, {})
    /\ UNCHANGED <<live, withdrawn, ledger, superseded, goals, votes, agents>>

\* A goal is created in progress; declaring it again revises its priority
\* only, unless the event states a status.
GoalUpdate(g, priority, status) ==
    LET known == IF goals[g] = NoGoal THEN Unknown ELSE goals[g].status
        new == IF status = {} THEN known ELSE CHOOSE v \in status : TRUE
    IN  /\ goals' = [goals EXCEPT ![g] = [priority |-> priority, status |-> new]]
        /\ belief' = Settle(belief, live)
        /\ outcome' = Outcome("goal_update", {g}, {}, {})
        /\ UNCHANGED <<live, withdrawn, ledger, superseded, votes, agents>>

EvidenceEvent ==
    \E source \in Sources, cycle \in Cycles, p \in Props, v \in Values :
        \/ BeliefUpdate(source, cycle, p, v)
        \/ source \in Voters /\ AgentVote(source, cycle, p, v)

RevisionEvent ==
    \E p \in Props :
        \/ WholeRetraction(p)
        \/ \E selector \in Selectors :
              \/ SelectiveRetraction(p, selector)
              \/ \E source \in Sources, cycle \in Cycles, v \in Values :
                    Correction(source, cycle, p, selector, v)
        \/ \E successor \in Props :
              <<p, successor>> \in Successions /\ Supersession(p, successor)

RelationEvent ==
    \E e \in Edges :
        DeclareRelation(e) \/ RelationWithdrawal(e) \/ UnmatchedWithdrawal(e)

GoalEvent ==
    \E g \in Goals, priority \in Priorities, status \in Optional(Values) :
        GoalUpdate(g, priority, status)

Next == EvidenceEvent \/ RevisionEvent \/ RelationEvent \/ GoalEvent

Spec == Init /\ [][Next]_vars

-----------------------------------------------------------------------------

DeltaType ==
    [proposition : Props, previous : HexValues, current : HexValues,
     cause : {"retraction", "correction", "relation_withdrawal", "supersession"},
     superseded_by : Optional(Props)]

\* Every variable has its type; the endpoints of declared edges and every
\* proposition with evidence have nodes, and whoever holds a position is an
\* agent of the swarm.
TypeOK ==
    /\ belief \in [Props -> HexValues \cup {Absent}]
    /\ live \in [Edges -> 0 .. MaxParallel]
    /\ withdrawn \in [Edges -> 0 .. MaxParallel]
    /\ Ledger!LedgerTypeOK
    /\ superseded \in [Props -> Optional(Props)]
    /\ goals \in [Goals -> {NoGoal} \cup [priority : Nat, status : HexValues]]
    /\ votes \in [Voters -> [Props -> HexValues \cup {Absent}]]
    /\ agents \subseteq Voters
    /\ outcome.revisions \subseteq DeltaType
    /\ \A e \in Edges :
          /\ live[e] + withdrawn[e] <= MaxParallel
          /\ live[e] + withdrawn[e] > 0 => {e.from, e.to} \subseteq Present
    /\ \A p \in Props : ledger[p] # <<>> => p \in Present
    /\ \A a \in Voters \ agents, p \in Props : votes[a][p] = Absent

\* Retraction is faithful: recomputing over a ledger that carries tombstones
\* gives what the survivors alone would give, had nothing else ever been sent.
Survivors(entries) ==
    FoldLeft(LAMBDA kept, e : IF e.retracted THEN kept ELSE Append(kept, e),
             <<>>, entries)
RecomputeMatchesOracle ==
    \A p \in Props :
        RecomputeFromLedger(ledger[p]) = RecomputeBelief(Survivors(ledger[p]))

\* A belief moves down the chain F < D < U < P < T, or out of contradiction,
\* only in an event that revises that very proposition, or, when it rests on
\* no surviving evidence, in the withdrawal of a relation.  Moves up the chain
\* are free, and not all of them say more: Unknown outranks a denial, so
\* evidence of Unknown, or a relation from a source at Unknown, lifts False
\* or Doubtful to Unknown without a revision.
Revises(p) ==
    \/ outcome'.event \in {"retraction", "correction"} /\ outcome'.about = {p}
    \/ outcome'.event = "relation_withdrawal" /\ ~HasEvidence(p)
OnlyRevisionLowers ==
    [][\A p \in Present : Outranks(belief[p], belief'[p]) => Revises(p)]_vars

\* A belief revised by its evidence alone is earned: a strong pole has two
\* sources behind it, and a contradiction has two sources against each other,
\* or a source that reported it.
Leaning(p, side) ==
    {ledger[p][i].source :
        i \in {j \in Standing(ledger[p]) : ledger[p][j].value \in side}}
Earned(p) ==
    /\ belief[p] = True => Cardinality(Leaning(p, Positive)) > 1
    /\ belief[p] = False => Cardinality(Leaning(p, Negative)) > 1
    /\ belief[p] = Contradictory =>
          \/ Leaning(p, {Contradictory}) # {}
          \/ \E s \in Leaning(p, Positive), t \in Leaning(p, Negative) : s # t
RevisedBeliefIsEarned ==
    \A p \in Props :
        /\ outcome.event \in {"retraction", "correction"}
        /\ outcome.about = {p}
        /\ \A e \in Edges : e.to = p => live[e] = 0
        => Earned(p)

\* A goal once achieved is never un-achieved by what is later perceived, only
\* by an event that states its status.
GoalNeverUndone ==
    [][\A g \in Goals : goals[g].status = True /\ goals'[g].status # True
            => outcome'.event = "goal_update"]_vars

\* No event leaves a derivation undone: one more round changes nothing.
Quiescent == Settle(belief, live) = belief

\* Every belief is founded on evidence: outside any set of propositions that
\* holds all those with surviving evidence and is closed under the live
\* relations, nothing is believed.
FoundedOnEvidence ==
    \A S \in SUBSET Props :
        /\ {p \in Props : HasEvidence(p)} \subseteq S
        /\ \A e \in Edges : live[e] > 0 /\ e.from \in S => e.to \in S
        => \A p \in Props \ S : belief[p] \in {Unknown, Absent}

\* Withdrawing a relation restores that, whatever retractions have left
\* behind: only founded beliefs are standing when the event returns.
WithdrawalLeavesOnlyFounded ==
    [][outcome'.event = "relation_withdrawal" /\ withdrawn' # withdrawn
            => FoundedOnEvidence']_vars
=============================================================================
