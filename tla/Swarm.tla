------------------------------- MODULE Swarm -------------------------------
(***************************************************************************)
(* hari-swarm: agents with beliefs of their own, who send each other       *)
(* messages directly or to everyone, work off their inboxes with or        *)
(* without regard to trust, and are asked for a consensus.                 *)
(***************************************************************************)
EXTENDS SwarmConsensus, Sequences, SequencesExt

CONSTANTS
    Ids,            \* agent identifiers
    Propositions,
    Initial,        \* values an agent may bring for a proposition, or Absent
    Messages,       \* [from, to, kind, proposition, value]
    SelfTrust,      \* tenths, by agent
    MessageTrust,   \* tenths, by agent
    MaxAdded,       \* bound of the model: agents added
    MaxSent         \* bound of the model: messages sent

Absent == "absent"
Everyone == "*"
Models == {"Equal", "RoleWeighted"}
BeliefBearing == {"update", "response"}
MessageTrustThreshold == 5

ASSUME SwarmAssumption ==
    /\ Initial \subseteq HexValues \cup {Absent}
    /\ SelfTrust \in [Ids -> 0 .. 10] /\ MessageTrust \in [Ids -> 0 .. 10]
    /\ MaxAdded \in Nat /\ MaxSent \in Nat
    /\ \A m \in Messages :
          /\ {"from", "to", "kind", "proposition", "value"} \subseteq DOMAIN m
          /\ m.kind \in BeliefBearing \cup {"other"}
          /\ m.proposition \in Propositions /\ m.value \in HexValues

VARIABLES
    members,        \* the agents of the swarm
    belief,         \* agent -> proposition -> value or Absent
    inbox,          \* agent -> messages received
    report,         \* what the last processing of inboxes returned
    added,          \* number of agents added
    sent,           \* number of messages sent
    heard           \* history: agent -> proposition -> the values its belief
                    \* has been made of

swarmvars == <<members, belief, inbox, report, added, sent, heard>>

Blank == [p \in Propositions |-> Absent]
NoStats == [applied |-> 0, filtered |-> 0]

SwarmInit ==
    /\ members = {}
    /\ belief = [a \in Ids |-> Blank]
    /\ inbox = [a \in Ids |-> <<>>]
    /\ report = NoStats
    /\ added = 0
    /\ sent = 0
    /\ heard = [a \in Ids |-> [p \in Propositions |-> {}]]

\* An agent comes with its beliefs, and replaces the one that has its name.
AddAgent(a, brings) ==
    /\ added < MaxAdded
    /\ added' = added + 1
    /\ members' = members \cup {a}
    /\ belief' = [belief EXCEPT ![a] = brings]
    /\ inbox' = [inbox EXCEPT ![a] = <<>>]
    /\ heard' = [heard EXCEPT ![a] =
                    [p \in Propositions |-> {brings[p]} \ {Absent}]]
    /\ UNCHANGED <<report, sent>>

\* Everyone is all members of the moment but the sender; a message to someone
\* who is not a member is lost.
Recipients(m) ==
    IF m.to = Everyone THEN members \ {m.from} ELSE members \cap {m.to}

Send(m) ==
    /\ sent < MaxSent
    /\ sent' = sent + 1
    /\ inbox' = [a \in Ids |-> IF a \in Recipients(m)
                               THEN Append(inbox[a], [m EXCEPT !.to = a])
                               ELSE inbox[a]]
    /\ UNCHANGED <<members, belief, report, added, heard>>

Mind(a) ==
    [belief |-> belief[a], heard |-> heard[a], stats |-> NoStats]

\* An update may introduce a proposition, a response only revises one.
Lands(mind, m) ==
    \/ m.kind = "update"
    \/ m.kind = "response" /\ mind.belief[m.proposition] # Absent

Combined(held, value) ==
    IF held = Absent THEN value ELSE CombineEvidence(held, value)

\* Slip: what does not conflict with the belief replaces it.
IntegratedLast(mind, m) ==
    LET p == m.proposition
        held == mind.belief[p]
        value == IF held # Absent /\ InConflict({held, m.value})
                 THEN Contradictory ELSE m.value
    IN  IF ~Lands(mind, m) THEN mind
        ELSE [belief |-> [mind.belief EXCEPT ![p] = value],
              heard |-> [mind.heard EXCEPT ![p] = @ \cup {m.value}],
              stats |-> [mind.stats EXCEPT
                            !.applied = @ + (IF value = held THEN 0 ELSE 1)]]

Integrated(mind, m) ==
    LET p == m.proposition
        held == mind.belief[p]
        value == Combined(held, m.value)
    IN  IF ~Lands(mind, m) THEN mind
        ELSE [belief |-> [mind.belief EXCEPT ![p] = value],
              heard |-> [mind.heard EXCEPT ![p] = @ \cup {m.value}],
              stats |-> [mind.stats EXCEPT
                            !.applied = @ + (IF value = held THEN 0 ELSE 1)]]

Gated(a, model) ==
    model = "RoleWeighted" /\ MessageTrust[a] < MessageTrustThreshold

\* What an agent thinks, and counts, after its whole inbox, in order.
Processed(a, model) ==
    IF Gated(a, model)
    THEN [Mind(a) EXCEPT !.stats.filtered =
            Len(SelectSeq(inbox[a], LAMBDA m : m.kind \in BeliefBearing))]
    ELSE FoldLeft(Integrated, Mind(a), inbox[a])

\* The inboxes of the agents in A are worked off, in any order.
Process(A, model) ==
    LET mind == [a \in A |-> Processed(a, model)]
    IN  /\ belief' = [a \in Ids |->
                        IF a \in A THEN mind[a].belief ELSE belief[a]]
        /\ heard' = [a \in Ids |->
                        IF a \in A THEN mind[a].heard ELSE heard[a]]
        /\ inbox' = [a \in Ids |-> IF a \in A THEN <<>> ELSE inbox[a]]
        /\ report' =
            [applied |-> MapThenSumSet(LAMBDA a : mind[a].stats.applied, A),
             filtered |-> MapThenSumSet(LAMBDA a : mind[a].stats.filtered, A)]
        /\ UNCHANGED <<members, added, sent>>

ProcessInbox(a, model) == a \in members /\ Process({a}, model)
ProcessAll(model) == Process(members, model)

Vote(a, p) == IF belief[a][p] = Absent THEN Unknown ELSE belief[a][p]
Votes(p) == [a \in members |-> Vote(a, p)]
ConsensusWith(p, model) ==
    IF model = "Equal" /\ members # {} THEN EqualConsensus(Votes(p))
    ELSE Consensus(Votes(p), SelfTrust)

SwarmNext ==
    \/ \E a \in Ids, brings \in [Propositions -> Initial] : AddAgent(a, brings)
    \/ \E m \in Messages : Send(m)
    \/ \E model \in Models :
        ProcessAll(model) \/ \E a \in Ids : ProcessInbox(a, model)

SwarmSpec == SwarmInit /\ [][SwarmNext]_swarmvars

-----------------------------------------------------------------------------

\* The order in which an agent hears things makes a difference for Unknown
\* only: unless that came between two sides, its belief is the
\* order-independent combination of all that it was made of.
OrderMattersOnlyForUnknown ==
    \A a \in members : \A p \in Propositions :
        LET all == heard[a][p]
        IN  /\ belief[a][p] = Absent <=> all = {}
            /\ \/ all = {}
               \/ belief[a][p] = CombineEvidenceSet(all)
               \/ Unknown \in all /\ InConflict(all)

\* A consensus that is not Contradictory lies between the votes: it is not
\* above all of them, nor below.
ConsensusBetweenVotes ==
    \A p \in Propositions, model \in Models :
        LET c == ConsensusWith(p, model)
            definite == {Vote(a, p) : a \in members} \ {Contradictory}
        IN  members # {} /\ c # Contradictory =>
                /\ \E v \in definite : Rank(v) <= Rank(c)
                /\ \E v \in definite : Rank(v) >= Rank(c)
=============================================================================
