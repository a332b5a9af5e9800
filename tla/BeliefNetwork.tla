--------------------------- MODULE BeliefNetwork ----------------------------
(***************************************************************************)
(* hari-lattice's BeliefNetwork: propositions with hexavalent values, a    *)
(* multigraph of relation edges that are withdrawn but never deleted, and  *)
(* the propagation pass that runs round by round until nothing changes or  *)
(* the round budget is spent.                                              *)
(*                                                                         *)
(* The network is owned by one thread and a pass holds it exclusively, so  *)
(* no other operation happens between two rounds of a pass.                *)
(***************************************************************************)
EXTENDS Propagation

CONSTANTS
    Edges,          \* the relation triples that may be declared
    MaxParallel,    \* bound of the model: edges of one triple, live or not
    MaxRounds       \* the iteration budget of a pass (hari-core passes 10)

ASSUME NetworkAssumption ==
    /\ Edges \subseteq EdgeTriples
    /\ MaxParallel \in Nat
    /\ MaxRounds \in Nat \ {0}

VARIABLES
    belief,         \* value of each proposition, Absent without a node
    live,           \* number of live edges of each triple
    withdrawn,      \* number of withdrawn edges of each triple
    round,          \* the round about to run, 0 when no pass is running
    derivations,    \* what the current or last pass has recorded so far
    asserted        \* history: propositions a caller ever assigned a value

vars == <<belief, live, withdrawn, round, derivations, asserted>>

-----------------------------------------------------------------------------

Idle == round = 0
Present == {p \in Props : belief[p] # Absent}
LiveEdges == {e \in Edges : live[e] > 0}
DeclaredEdges == {e \in Edges : live[e] + withdrawn[e] > 0}

\* Slip: the sources are read after the round's updates were applied.
ContributionsAfterRound(p) ==
    {[source |-> e.from,
      source_value |-> RoundValue(belief, LiveEdges, e.from),
      relation |-> e.relation,
      contributed_value |-> Contributed(belief[e.from], e.relation)] :
        e \in FiringInto(belief, LiveEdges, p)}

Contributions(p) ==
    {[source |-> e.from, source_value |-> belief[e.from],
      relation |-> e.relation,
      contributed_value |-> Contributed(belief[e.from], e.relation)] :
        e \in FiringInto(belief, LiveEdges, p)}

ContributionType ==
    [source : Props, source_value : HexValues,
     relation : Relations, contributed_value : HexValues]

DerivationType ==
    [proposition : Props, previous_value : HexValues, new_value : HexValues,
     contributions : SUBSET ContributionType, round : 1 .. MaxRounds]

Changed == {p \in Props : RoundValue(belief, LiveEdges, p) # belief[p]}

Derivation(p) ==
    [proposition |-> p,
     previous_value |-> belief[p],
     new_value |-> RoundValue(belief, LiveEdges, p),
     contributions |-> Contributions(p),
     round |-> round]

\* Slip: one change in a round is taken for none.
PassOverEarly == (\A p, q \in Changed : p = q) \/ round = MaxRounds

\* The pass returns after a round that changed nothing, or out of budget.
PassOver == Changed = {} \/ round = MaxRounds

-----------------------------------------------------------------------------

Init ==
    /\ belief = [p \in Props |-> Absent]
    /\ live = [e \in Edges |-> 0]
    /\ withdrawn = [e \in Edges |-> 0]
    /\ round = 0
    /\ derivations = {}
    /\ asserted = {}

\* A caller assigns a value; a label seen for the first time gets a node.
SetBelief(p, v) ==
    /\ Idle
    /\ belief' = [belief EXCEPT ![p] = v]
    /\ asserted' = asserted \cup {p}
    /\ derivations' = {}
    /\ UNCHANGED <<live, withdrawn, round>>

\* Slip: only the source of an edge gets a node.
DeclareRelationHalf(e) ==
    /\ Idle
    /\ live[e] + withdrawn[e] < MaxParallel
    /\ belief' = [belief EXCEPT ![e.from] = IF @ = Absent THEN Unknown ELSE @]
    /\ live' = [live EXCEPT ![e] = @ + 1]
    /\ derivations' = {}
    /\ UNCHANGED <<withdrawn, round, asserted>>

\* Endpoints without a node are created as Unknown; declaring a triple again
\* adds a parallel edge.
DeclareRelation(e) ==
    /\ Idle
    /\ live[e] + withdrawn[e] < MaxParallel
    /\ belief' = [p \in Props |->
                    IF p \in {e.from, e.to} \ Present THEN Unknown
                    ELSE belief[p]]
    /\ live' = [live EXCEPT ![e] = @ + 1]
    /\ derivations' = {}
    /\ UNCHANGED <<withdrawn, round, asserted>>

\* One live edge of the triple is marked withdrawn.  An unmatched triple
\* returns false and changes nothing.
WithdrawRelation(e) ==
    /\ Idle
    /\ live[e] > 0
    /\ live' = [live EXCEPT ![e] = @ - 1]
    /\ withdrawn' = [withdrawn EXCEPT ![e] = @ + 1]
    /\ derivations' = {}
    /\ UNCHANGED <<belief, round, asserted>>

StartPass ==
    /\ Idle
    /\ round' = 1
    /\ derivations' = {}
    /\ UNCHANGED <<belief, live, withdrawn, asserted>>

PropagateRound ==
    /\ ~Idle
    /\ belief' = Round(belief, LiveEdges)
    /\ derivations' = derivations \cup {Derivation(p) : p \in Changed}
    /\ round' = IF PassOver THEN 0 ELSE round + 1
    /\ UNCHANGED <<live, withdrawn, asserted>>

Next ==
    \/ \E p \in Props, v \in HexValues : SetBelief(p, v)
    \/ \E e \in Edges : DeclareRelation(e) \/ WithdrawRelation(e)
    \/ StartPass
    \/ PropagateRound

Spec == Init /\ [][Next]_vars

-----------------------------------------------------------------------------

\* Every variable has its type, and a declared edge, withdrawn or not, never
\* dangles: both its endpoints have nodes.
TypeOK ==
    /\ belief \in [Props -> HexValues \cup {Absent}]
    /\ live \in [Edges -> Nat]
    /\ withdrawn \in [Edges -> Nat]
    /\ round \in 0 .. MaxRounds
    /\ derivations \subseteq DerivationType
    /\ asserted \subseteq Props
    /\ \A e \in DeclaredEdges : {e.from, e.to} \subseteq Present

\* A round never moves a belief down the chain F < D < U < P < T nor out of C,
\* whatever mix of relations feeds the node.  Upwards lies Unknown above a
\* denial: a source at Unknown lifts False or Doubtful to Unknown, and only
\* such a source does.  But no round turns a denial into an affirmation: where
\* the two meet, with or without an Unknown between, they make Contradictory.
FedByUnknown(p) ==
    \E e \in FiringInto(belief, LiveEdges, p) : belief[e.from] = Unknown
NeverLoweredNorFlipped ==
    [][~Idle => \A p \in Present :
            /\ ~Outranks(belief[p], belief'[p])
            /\ belief[p] \in Negative => belief'[p] \notin Positive
            /\ belief[p] \in Negative /\ belief'[p] = Unknown
                    => FedByUnknown(p)]_vars

\* No belief appears from nowhere.  For every set of propositions that holds
\* all the asserted ones and is closed under the declared edges, everything
\* outside it is still Unknown: cycles of edges, complements of Unknown and
\* implications never start a belief of their own.
ClosedUnderEdges(S) == \A e \in DeclaredEdges : e.from \in S => e.to \in S
Founded ==
    \A S \in SUBSET Props :
        asserted \subseteq S /\ ClosedUnderEdges(S) =>
            \A p \in Props \ S : belief[p] \in {Unknown, Absent}

\* The audit trail of a pass reads as a chain: rounds count from 1, and a
\* change recorded in a later round cites a source that changed in the round
\* before, with the value that change gave it.
DerivationChain ==
    \A d \in derivations :
        \/ d.round = 1
        \/ \E c \in d.contributions, parent \in derivations :
              /\ parent.round = d.round - 1
              /\ parent.proposition = c.source
              /\ parent.new_value = c.source_value

\* A pass that returns within its budget has really settled: the next round
\* would change nothing.  On a network whose longest escalation fits in
\* MaxRounds the budget is never what ends it.
EndsAtFixpoint ==
    [][round # 0 /\ round' = 0
        => Round(belief', LiveEdges) = belief']_vars
=============================================================================
