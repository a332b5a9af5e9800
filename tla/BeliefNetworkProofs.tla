------------------------ MODULE BeliefNetworkProofs -------------------------
(***************************************************************************)
(* Proofs about BeliefNetwork, for every set of propositions, every set of *)
(* relation triples and every round budget.                                *)
(***************************************************************************)
EXTENDS BeliefNetwork, PropagationProofs

\* The part of the type invariant that a round of propagation reads.
LinkedBeliefs == Linked(belief, LiveEdges)

LEMMA TypeGivesLinked == TypeOK => LinkedBeliefs
<1> SUFFICES ASSUME TypeOK, NEW e \in LiveEdges
             PROVE  belief[e.from] # Absent /\ belief[e.to] # Absent
    BY NetworkAssumption DEF TypeOK, LinkedBeliefs, Linked, LiveEdges
<1>1. e \in DeclaredEdges
    BY DEF TypeOK, LiveEdges, DeclaredEdges
<1> QED BY <1>1 DEF TypeOK, Present

LEMMA LinkedAfterStep == TypeOK' => LinkedBeliefs'
BY TypeGivesLinked, PTL

\* An edge endpoint is a proposition.
LEMMA EdgeEnds ==
    ASSUME NEW e \in Edges
    PROVE  e.from \in Props /\ e.to \in Props /\ e.relation \in Relations
BY NetworkAssumption DEF EdgeTriples

\* What a round does to a proposition of the network.
LEMMA NetworkRound ==
    ASSUME LinkedBeliefs, NEW p \in Props
    PROVE  /\ Incoming(belief, LiveEdges, p) \in SUBSET HexValues
           /\ belief[p] = Absent => Incoming(belief, LiveEdges, p) = {}
           /\ RoundValue(belief, LiveEdges, p) \in HexValues \cup {Absent}
           /\ RoundValue(belief, LiveEdges, p) = Absent <=> belief[p] = Absent
           /\ belief[p] # Absent =>
                Rank(belief[p]) <= Rank(RoundValue(belief, LiveEdges, p))
BY IncomingType, RoundType, RoundNeverLowers DEF LinkedBeliefs

-----------------------------------------------------------------------------

LEMMA DerivationHasType ==
    ASSUME TypeOK, ~Idle, NEW p \in Changed
    PROVE  Derivation(p) \in DerivationType
<1>1. p \in Props /\ LinkedBeliefs
    BY TypeGivesLinked DEF Changed
<1>2. belief[p] \in HexValues
    <2>1. RoundValue(belief, LiveEdges, p) # belief[p]
        BY DEF Changed
    <2> QED BY <1>1, <2>1, NetworkRound DEF LinkedBeliefs, Linked
<1>3. RoundValue(belief, LiveEdges, p) \in HexValues
    BY <1>1, <1>2, NetworkRound, AbsentIsNoValue
<1>4. Contributions(p) \subseteq ContributionType
    <2> SUFFICES ASSUME NEW e \in FiringInto(belief, LiveEdges, p)
                 PROVE  [source |-> e.from, source_value |-> belief[e.from],
                         relation |-> e.relation,
                         contributed_value |->
                            Contributed(belief[e.from], e.relation)]
                            \in ContributionType
        BY DEF Contributions
    <2>1. e \in LiveEdges /\ e \in Edges
        BY DEF FiringInto, LiveEdges
    <2>2. belief[e.from] \in HexValues
        BY <1>1, <2>1, EdgeEnds DEF LinkedBeliefs, Linked
    <2> QED BY <2>1, <2>2, EdgeEnds, NotType DEF Contributed, ContributionType
<1>5. round \in 1 .. MaxRounds
    BY NetworkAssumption DEF TypeOK, Idle
<1> QED BY <1>1, <1>2, <1>3, <1>4, <1>5 DEF Derivation, DerivationType

LEMMA InitTypeOK == Init => TypeOK
BY NetworkAssumption DEF Init, TypeOK, DeclaredEdges

LEMMA SetBeliefTypeOK ==
    ASSUME TypeOK, NEW p \in Props, NEW v \in HexValues, SetBelief(p, v)
    PROVE  TypeOK'
<1>1. DeclaredEdges' = DeclaredEdges
    BY DEF SetBelief, DeclaredEdges
<1>2. Present \subseteq Present'
    BY AbsentIsNoValue DEF SetBelief, Present, TypeOK
<1> QED BY <1>1, <1>2 DEF SetBelief, TypeOK

LEMMA DeclareRelationTypeOK ==
    ASSUME TypeOK, NEW e \in Edges, DeclareRelation(e)
    PROVE  TypeOK'
<1>1. belief' \in [Props -> HexValues \cup {Absent}]
    BY DEF DeclareRelation, TypeOK, HexValues
<1>2. live' \in [Edges -> Nat]
    BY DEF DeclareRelation, TypeOK
<1>3. DeclaredEdges' \subseteq DeclaredEdges \cup {e}
    BY DEF DeclareRelation, TypeOK, DeclaredEdges
<1>4. Unknown # Absent
    BY DEF Unknown, Absent
<1>5. Present \cup {e.from, e.to} \subseteq Present'
    BY <1>4, EdgeEnds DEF DeclareRelation, Present, TypeOK
<1> QED BY <1>1, <1>2, <1>3, <1>5 DEF DeclareRelation, TypeOK

LEMMA WithdrawRelationTypeOK ==
    ASSUME TypeOK, NEW e \in Edges, WithdrawRelation(e)
    PROVE  TypeOK'
<1>1. live' \in [Edges -> Nat] /\ withdrawn' \in [Edges -> Nat]
    BY DEF WithdrawRelation, TypeOK
<1>2. DeclaredEdges' \subseteq DeclaredEdges
    BY DEF WithdrawRelation, TypeOK, DeclaredEdges
<1>3. Present' = Present
    BY DEF WithdrawRelation, Present
<1> QED BY <1>1, <1>2, <1>3 DEF WithdrawRelation, TypeOK

LEMMA StartPassTypeOK ==
    ASSUME TypeOK, StartPass
    PROVE  TypeOK'
BY NetworkAssumption DEF StartPass, TypeOK, Present, DeclaredEdges

LEMMA PropagateRoundTypeOK ==
    ASSUME TypeOK, PropagateRound
    PROVE  TypeOK'
<1>1. LinkedBeliefs
    BY TypeGivesLinked
<1>2. belief' = [p \in Props |-> RoundValue(belief, LiveEdges, p)]
    BY DEF PropagateRound, Round
<1>3. belief' \in [Props -> HexValues \cup {Absent}]
    BY <1>1, <1>2, NetworkRound
<1>4. Present' = Present
    BY <1>1, <1>2, NetworkRound DEF Present
<1>5. derivations' \subseteq DerivationType
    BY DerivationHasType DEF PropagateRound, TypeOK
<1>6. round' \in 0 .. MaxRounds
    BY NetworkAssumption DEF PropagateRound, TypeOK, Idle, PassOver
<1>7. DeclaredEdges' = DeclaredEdges
    BY DEF PropagateRound, DeclaredEdges
<1> QED BY <1>3, <1>4, <1>5, <1>6, <1>7 DEF PropagateRound, TypeOK

LEMMA NextTypeOK == TypeOK /\ [Next]_vars => TypeOK'
<1> SUFFICES ASSUME TypeOK, [Next]_vars PROVE TypeOK'
    OBVIOUS
<1>1. CASE \E p \in Props, v \in HexValues : SetBelief(p, v)
    BY <1>1, SetBeliefTypeOK
<1>2. CASE \E e \in Edges : DeclareRelation(e) \/ WithdrawRelation(e)
    BY <1>2, DeclareRelationTypeOK, WithdrawRelationTypeOK
<1>3. CASE StartPass
    BY <1>3, StartPassTypeOK
<1>4. CASE PropagateRound
    BY <1>4, PropagateRoundTypeOK
<1>5. CASE UNCHANGED vars
    BY <1>5 DEF vars, TypeOK, Present, DeclaredEdges
<1> QED BY <1>1, <1>2, <1>3, <1>4, <1>5 DEF Next

\* Type correctness: in particular an edge, once declared, never dangles.
THEOREM TypeCorrect == Spec => []TypeOK
BY InitTypeOK, NextTypeOK, PTL DEF Spec

-----------------------------------------------------------------------------

\* A round of propagation never moves a belief down the chain nor out of
\* contradiction, never affirms what was denied, and lifts a denial to Unknown
\* only where a source is Unknown, on any network.
THEOREM RoundsNeverLowerNorFlip == Spec => NeverLoweredNorFlipped
<1>1. TypeOK /\ [Next]_vars =>
        [~Idle => \A p \in Present :
            /\ ~Outranks(belief[p], belief'[p])
            /\ belief[p] \in Negative => belief'[p] \notin Positive
            /\ belief[p] \in Negative /\ belief'[p] = Unknown
                    => FedByUnknown(p)]_vars
    <2> SUFFICES ASSUME TypeOK, Next, ~Idle, NEW p \in Present
                 PROVE  /\ ~Outranks(belief[p], belief'[p])
                        /\ belief[p] \in Negative => belief'[p] \notin Positive
                        /\ belief[p] \in Negative /\ belief'[p] = Unknown
                                => FedByUnknown(p)
        OBVIOUS
    <2>1. PropagateRound
        BY DEF Next, SetBelief, DeclareRelation, WithdrawRelation, StartPass
    <2>2. LinkedBeliefs /\ p \in Props /\ belief[p] # Absent
        BY TypeGivesLinked DEF Present
    <2>3. belief'[p] = RoundValue(belief, LiveEdges, p)
        BY <2>1, <2>2 DEF PropagateRound, Round
    <2>4. belief[p] \in HexValues /\ belief'[p] \in HexValues
        BY <2>2, <2>3, NetworkRound, AbsentIsNoValue DEF LinkedBeliefs, Linked
    <2>5. ~Outranks(belief[p], belief'[p])
        BY <2>2, <2>3, <2>4, NetworkRound, RankType DEF Outranks
    <2>6. belief[p] \in Negative => belief'[p] \notin Positive
        BY <2>2, <2>3, RoundKeepsDenials DEF LinkedBeliefs
    <2>7. belief[p] \in Negative /\ belief'[p] = Unknown => FedByUnknown(p)
        BY <2>2, <2>3, UnknownComesFromUnknown DEF LinkedBeliefs, FedByUnknown
    <2> QED BY <2>5, <2>6, <2>7
<1> QED BY <1>1, TypeCorrect, PTL DEF Spec, NeverLoweredNorFlipped

-----------------------------------------------------------------------------

LEMMA ClosedInherited ==
    ASSUME NEW S \in SUBSET Props, DeclaredEdges \subseteq DeclaredEdges',
           ClosedUnderEdges(S)'
    PROVE  ClosedUnderEdges(S)
BY DEF ClosedUnderEdges

LEMMA InitFounded == Init => Founded
BY DEF Init, Founded

\* Declared edges include the live ones, so a round changes nothing outside.
LEMMA RoundStaysFounded ==
    ASSUME TypeOK, NEW S \in SUBSET Props, ClosedUnderEdges(S),
           Unbelieved(belief, S), NEW p \in Props \ S
    PROVE  RoundValue(belief, LiveEdges, p) \in {Unknown, Absent}
<1>1. Linked(belief, LiveEdges)
    BY TypeGivesLinked DEF LinkedBeliefs, Linked
<1>2. \A e \in LiveEdges : e.from \in S => e.to \in S
    BY DEF TypeOK, LiveEdges, DeclaredEdges, ClosedUnderEdges
<1> QED BY <1>1, <1>2, RoundFounded

LEMMA NextFounded == TypeOK /\ Founded /\ [Next]_vars => Founded'
<1> SUFFICES ASSUME TypeOK, Founded, [Next]_vars,
                    NEW S \in SUBSET Props, asserted' \subseteq S,
                    ClosedUnderEdges(S)', NEW p \in Props \ S
             PROVE  belief'[p] \in {Unknown, Absent}
    BY DEF Founded
<1>1. DeclaredEdges \subseteq DeclaredEdges' /\ asserted \subseteq asserted'
    <2>1. ASSUME NEW q \in Props, NEW v \in HexValues, SetBelief(q, v)
          PROVE  /\ DeclaredEdges \subseteq DeclaredEdges'
                 /\ asserted \subseteq asserted'
        BY <2>1 DEF SetBelief, DeclaredEdges
    <2>2. ASSUME NEW e \in Edges, DeclareRelation(e)
          PROVE  /\ DeclaredEdges \subseteq DeclaredEdges'
                 /\ asserted \subseteq asserted'
        BY <2>2 DEF DeclareRelation, DeclaredEdges, TypeOK
    <2>3. ASSUME NEW e \in Edges, WithdrawRelation(e)
          PROVE  /\ DeclaredEdges \subseteq DeclaredEdges'
                 /\ asserted \subseteq asserted'
        BY <2>3 DEF WithdrawRelation, DeclaredEdges, TypeOK
    <2>4. CASE StartPass \/ PropagateRound \/ UNCHANGED vars
        BY <2>4 DEF StartPass, PropagateRound, vars, DeclaredEdges
    <2> QED BY <2>1, <2>2, <2>3, <2>4 DEF Next
<1>2. ClosedUnderEdges(S) /\ asserted \subseteq S
    BY <1>1, ClosedInherited
<1>3. Unbelieved(belief, S)
    BY <1>2 DEF Founded, Unbelieved
<1>4. ASSUME NEW q \in Props, NEW v \in HexValues, SetBelief(q, v)
      PROVE  belief'[p] \in {Unknown, Absent}
    BY <1>3, <1>4 DEF SetBelief, TypeOK, Unbelieved
<1>5. ASSUME NEW e \in Edges, DeclareRelation(e)
      PROVE  belief'[p] \in {Unknown, Absent}
    BY <1>3, <1>5 DEF DeclareRelation, Unbelieved
<1>6. CASE PropagateRound
    <2>1. belief'[p] = RoundValue(belief, LiveEdges, p)
        BY <1>6 DEF PropagateRound, Round
    <2> QED BY <1>2, <1>3, <2>1, RoundStaysFounded
<1>7. ASSUME NEW e \in Edges, WithdrawRelation(e)
      PROVE  belief'[p] \in {Unknown, Absent}
    BY <1>3, <1>7 DEF WithdrawRelation, Unbelieved
<1>8. CASE StartPass \/ UNCHANGED vars
    BY <1>3, <1>8 DEF StartPass, vars, Unbelieved
<1> QED BY <1>4, <1>5, <1>6, <1>7, <1>8 DEF Next

\* No belief appears from nowhere: a value other than Unknown is reachable,
\* along declared edges, from a proposition a caller assigned.
THEOREM BeliefsAreFounded == Spec => []Founded
<1>1. Init => Founded
    BY InitFounded
<1>2. TypeOK /\ Founded /\ [Next]_vars => Founded'
    BY NextFounded
<1> QED BY <1>1, <1>2, TypeCorrect, PTL DEF Spec

-----------------------------------------------------------------------------

\* What makes the audit trail a chain: between two rounds of a pass, the
\* records of the round just run hold the current values, and a proposition
\* can only be about to change through an edge whose source is among them.
JustChanged == {d \in derivations : d.round = round - 1}

ChainInv ==
    /\ DerivationChain
    /\ ~Idle => \A d \in derivations : d.round < round
    /\ round > 1 =>
        /\ \A d \in JustChanged : belief[d.proposition] = d.new_value
        /\ \A p \in Changed :
              \E e \in FiringInto(belief, LiveEdges, p), d \in JustChanged :
                  d.proposition = e.from

LEMMA NoPassNoChain ==
    ASSUME derivations' = {}, round' = 0 \/ round' = 1
    PROVE  ChainInv'
BY DEF ChainInv, DerivationChain, Idle, JustChanged

\* A record of the round being run cites a parent in the round before.
LEMMA RoundKeepsChain ==
    ASSUME TypeOK, ChainInv, PropagateRound
    PROVE  DerivationChain'
<1> SUFFICES ASSUME NEW d \in derivations'
             PROVE  \/ d.round = 1
                    \/ \E c \in d.contributions, parent \in derivations' :
                          /\ parent.round = d.round - 1
                          /\ parent.proposition = c.source
                          /\ parent.new_value = c.source_value
    BY DEF DerivationChain
<1>1. CASE d \in derivations
    BY <1>1 DEF ChainInv, DerivationChain, PropagateRound
<1>2. CASE d \notin derivations /\ round # 1
    <2>1. PICK p \in Changed : d = Derivation(p)
        BY <1>2 DEF PropagateRound
    <2>2. round > 1
        BY <1>2 DEF PropagateRound, Idle, TypeOK
    <2>3. PICK e \in FiringInto(belief, LiveEdges, p), k \in JustChanged :
              k.proposition = e.from
        BY <2>2 DEF ChainInv
    <2>4. belief[k.proposition] = k.new_value
        BY <2>2 DEF ChainInv
    <2> DEFINE c == [source |-> e.from, source_value |-> belief[e.from],
                     relation |-> e.relation,
                     contributed_value |->
                         Contributed(belief[e.from], e.relation)]
    <2>5. c \in d.contributions
        BY <2>1 DEF Derivation, Contributions
    <2>6. k \in derivations' /\ k.round = d.round - 1
        BY <2>1 DEF PropagateRound, JustChanged, Derivation
    <2> QED BY <2>3, <2>4, <2>5, <2>6
<1>3. CASE d \notin derivations /\ round = 1
    BY <1>3 DEF PropagateRound, Derivation
<1> QED BY <1>1, <1>2, <1>3

\* After a round, a proposition none of whose firing sources has just changed
\* has already absorbed everything that flows into it.
LEMMA OnlyChangesPropagate ==
    ASSUME LinkedBeliefs, LinkedBeliefs',
           belief' = Round(belief, LiveEdges), LiveEdges' = LiveEdges,
           NEW p \in Props,
           \A e \in FiringInto(belief', LiveEdges, p) : e.from \notin Changed
    PROVE  RoundValue(belief', LiveEdges, p) = belief'[p]
<1> DEFINE Old == Incoming(belief, LiveEdges, p)
<1> DEFINE New == Incoming(belief', LiveEdges, p)
<1>1. belief'[p] = RoundValue(belief, LiveEdges, p)
    BY DEF Round
<1>2. ASSUME NEW e \in FiringInto(belief', LiveEdges, p)
      PROVE  /\ e \in FiringInto(belief, LiveEdges, p)
             /\ belief'[e.from] = belief[e.from]
    <2>1. e \in LiveEdges /\ e.from \in Props
        BY EdgeEnds DEF FiringInto, LiveEdges
    <2>2. belief'[e.from] = belief[e.from]
        BY <2>1 DEF Round, Changed
    <2> QED BY <2>1, <2>2 DEF FiringInto
<1>3. New \subseteq Old
    BY <1>2 DEF Incoming
<1>4. CASE New = {}
    BY <1>4 DEF RoundValue
<1>5. CASE New # {}
    <2> DEFINE S == {belief[p]} \cup Old
    <2>1. belief[p] \in HexValues /\ Old \in SUBSET HexValues
        BY <1>3, <1>5, NetworkRound DEF LinkedBeliefs, Linked
    <2>2. belief'[p] = CombineEvidenceSet(S)
        BY <1>1, <1>3, <1>5 DEF RoundValue
    <2>3. CombineEvidenceSet({CombineEvidenceSet(S)} \cup New)
            = CombineEvidenceSet(S)
        BY <1>3, <2>1, CombineAbsorbs
    <2> QED BY <1>5, <2>2, <2>3 DEF RoundValue
<1> QED BY <1>4, <1>5

LEMMA RoundChainInv ==
    ASSUME TypeOK, TypeOK', ChainInv, PropagateRound
    PROVE  ChainInv'
<1>1. LinkedBeliefs /\ LinkedBeliefs'
    BY TypeGivesLinked, LinkedAfterStep
<1>2. LiveEdges' = LiveEdges /\ belief' = Round(belief, LiveEdges)
    BY DEF PropagateRound, LiveEdges
<1>3. \A d \in derivations' : d.round <= round
    BY DEF PropagateRound, ChainInv, Derivation, TypeOK, DerivationType
<1>4. ~Idle' => round' = round + 1
    BY DEF PropagateRound, Idle, TypeOK
<1>5. \A d \in derivations' : d.round \in Nat
    BY DEF TypeOK, DerivationType
<1>6. ~Idle' => \A d \in derivations' : d.round < round'
    BY <1>3, <1>4, <1>5 DEF TypeOK
<1>7. ASSUME round' > 1, NEW d \in JustChanged'
      PROVE  belief'[d.proposition] = d.new_value
    <2>1. d \in derivations' /\ d.round = round
        BY <1>4, <1>7 DEF JustChanged, Idle, TypeOK
    <2>2. d \notin derivations
        BY <2>1 DEF ChainInv, PropagateRound, TypeOK
    <2>3. PICK p \in Changed : d = Derivation(p)
        BY <2>1, <2>2 DEF PropagateRound
    <2> QED BY <1>2, <2>3 DEF Derivation, Round, Changed
<1>8. ASSUME round' > 1, NEW p \in Changed'
      PROVE  \E e \in FiringInto(belief', LiveEdges', p), d \in JustChanged' :
                 d.proposition = e.from
    <2>1. p \in Props /\ RoundValue(belief', LiveEdges, p) # belief'[p]
        BY <1>2 DEF Changed
    <2>2. PICK e \in FiringInto(belief', LiveEdges, p) : e.from \in Changed
        BY <1>1, <1>2, <2>1, OnlyChangesPropagate
    <2>3. Derivation(e.from) \in derivations'
        BY <2>2 DEF PropagateRound
    <2>4. Derivation(e.from) \in JustChanged'
        BY <1>4, <1>8, <2>3 DEF JustChanged, Derivation, Idle, TypeOK
    <2> QED BY <1>2, <2>2, <2>4 DEF Derivation
<1>9. DerivationChain'
    BY RoundKeepsChain
<1> QED BY <1>6, <1>7, <1>8, <1>9 DEF ChainInv

LEMMA NextChainInv == TypeOK /\ TypeOK' /\ ChainInv /\ [Next]_vars => ChainInv'
<1> SUFFICES ASSUME TypeOK, TypeOK', ChainInv, [Next]_vars PROVE ChainInv'
    OBVIOUS
<1>1. ASSUME NEW p \in Props, NEW v \in HexValues, SetBelief(p, v)
      PROVE  ChainInv'
    BY <1>1, NoPassNoChain DEF SetBelief, Idle
<1>2. ASSUME NEW e \in Edges, DeclareRelation(e) \/ WithdrawRelation(e)
      PROVE  ChainInv'
    BY <1>2, NoPassNoChain DEF DeclareRelation, WithdrawRelation, Idle
<1>3. CASE StartPass
    BY <1>3, NoPassNoChain DEF StartPass
<1>4. CASE PropagateRound
    BY <1>4, RoundChainInv
<1>5. CASE UNCHANGED vars
    BY <1>5 DEF vars, ChainInv, DerivationChain, Idle, JustChanged, Changed,
        LiveEdges
<1> QED BY <1>1, <1>2, <1>3, <1>4, <1>5 DEF Next

\* The derivations a pass reports always read as a chain from round 1.
THEOREM DerivationsFormAChain == Spec => []DerivationChain
<1>1. Init => ChainInv
    BY DEF Init, ChainInv, DerivationChain, Idle
<1>2. TypeOK /\ TypeOK' /\ ChainInv /\ [Next]_vars => ChainInv'
    BY NextChainInv
<1>3. ChainInv => DerivationChain
    BY DEF ChainInv
<1> QED BY <1>1, <1>2, <1>3, TypeCorrect, PTL DEF Spec

-----------------------------------------------------------------------------

\* Between two rounds of a pass the beliefs are what the rounds run so far
\* have made of the beliefs at its start, over edges that have not changed.
PassIsUnderWay ==
    round > 0 =>
        \E start, after :
            /\ Linked(start, LiveEdges)
            /\ AreRounds(after, start, LiveEdges, round - 1)
            /\ belief = after[round - 1]

LEMMA PassBegins ==
    ASSUME TypeOK, StartPass
    PROVE  PassIsUnderWay'
<1>1. round' - 1 = 0 /\ belief' = belief /\ LiveEdges' = LiveEdges
    BY DEF StartPass, LiveEdges
<1>2. LinkedBeliefs
    BY TypeGivesLinked
<1> DEFINE after == [i \in 0 .. 0 |-> belief]
<1>3. AreRounds(after, belief, LiveEdges, 0) /\ after[0] = belief
    BY DEF AreRounds
<1> HIDE DEF after
<1> QED BY <1>1, <1>2, <1>3 DEF PassIsUnderWay, LinkedBeliefs

\* What the round being run adds to the rounds of the pass.
LEMMA OneMoreRound ==
    ASSUME TypeOK, PassIsUnderWay, PropagateRound
    PROVE  \E start, after :
                /\ Linked(start, LiveEdges)
                /\ AreRounds(after, start, LiveEdges, round)
                /\ after[round - 1] = belief
                /\ after[round] = belief'
<1>1. round \in Nat /\ round > 0
    BY DEF TypeOK, PropagateRound, Idle
<1>2. PICK start, after : /\ Linked(start, LiveEdges)
                          /\ AreRounds(after, start, LiveEdges, round - 1)
                          /\ belief = after[round - 1]
    BY <1>1 DEF PassIsUnderWay
<1>3. round - 1 \in Nat /\ (round - 1) + 1 = round
    BY <1>1
<1>4. PICK more : /\ AreRounds(more, start, LiveEdges, (round - 1) + 1)
                  /\ more[round - 1] = after[round - 1]
                  /\ more[(round - 1) + 1] = Round(after[round - 1], LiveEdges)
    BY <1>2, <1>3, RoundsContinue
<1>5. belief' = Round(belief, LiveEdges)
    BY DEF PropagateRound
<1> QED BY <1>2, <1>3, <1>4, <1>5

LEMMA NextPassIsUnderWay ==
    TypeOK /\ PassIsUnderWay /\ [Next]_vars => PassIsUnderWay'
<1> SUFFICES ASSUME TypeOK, PassIsUnderWay, [Next]_vars
             PROVE  PassIsUnderWay'
    OBVIOUS
<1>1. CASE \/ \E p \in Props, v \in HexValues : SetBelief(p, v)
           \/ \E e \in Edges : DeclareRelation(e) \/ WithdrawRelation(e)
    <2>1. round' = 0
        BY <1>1 DEF SetBelief, DeclareRelation, WithdrawRelation, Idle
    <2> QED BY <2>1 DEF PassIsUnderWay
<1>2. CASE StartPass
    BY <1>2, PassBegins
<1>3. CASE PropagateRound
    <2>1. PICK start, after : /\ Linked(start, LiveEdges)
                              /\ AreRounds(after, start, LiveEdges, round)
                              /\ after[round] = belief'
        BY <1>3, OneMoreRound
    <2>2. LiveEdges' = LiveEdges
        BY <1>3 DEF PropagateRound, LiveEdges
    <2>3. round' = 0 \/ round' - 1 = round
        BY <1>3 DEF PropagateRound, TypeOK
    <2> QED BY <2>1, <2>2, <2>3 DEF PassIsUnderWay
<1>4. CASE UNCHANGED vars
    BY <1>4 DEF vars, PassIsUnderWay, LiveEdges
<1> QED BY <1>1, <1>2, <1>3, <1>4 DEF Next

\* With three rounds for every proposition the budget is never what ends a
\* pass: when it returns, another round would change nothing, whatever the
\* edges and wherever it started.
THEOREM PassesSettle ==
    IsFiniteSet(Props) /\ MaxRounds >= 3 * Cardinality(Props)
        => (Spec => EndsAtFixpoint)
<1> SUFFICES ASSUME IsFiniteSet(Props), MaxRounds >= 3 * Cardinality(Props)
             PROVE  Spec => EndsAtFixpoint
    OBVIOUS
<1>1. Init => PassIsUnderWay
    BY DEF Init, PassIsUnderWay
<1>2. TypeOK /\ PassIsUnderWay /\ [Next]_vars => PassIsUnderWay'
    BY NextPassIsUnderWay
<1>3. TypeOK /\ PassIsUnderWay /\ [Next]_vars
        => [round # 0 /\ round' = 0 => Round(belief', LiveEdges) = belief']_vars
    <2> SUFFICES ASSUME TypeOK, PassIsUnderWay, Next, round # 0, round' = 0
                 PROVE  Round(belief', LiveEdges) = belief'
        OBVIOUS
    <2>1. PropagateRound /\ PassOver
        BY DEF Next, SetBelief, DeclareRelation, WithdrawRelation, StartPass,
            Idle, PropagateRound, TypeOK
    <2>2. PICK start, after : /\ Linked(start, LiveEdges)
                              /\ AreRounds(after, start, LiveEdges, round)
                              /\ after[round - 1] = belief
                              /\ after[round] = belief'
        BY <2>1, OneMoreRound
    <2>3. CASE Changed = {}
        <3>1. belief' = Round(belief, LiveEdges)
            BY <2>1 DEF PropagateRound
        <3>2. belief' = belief
            BY <2>3, <3>1 DEF Changed, Round, TypeOK
        <3> QED BY <3>1, <3>2
    <2>4. CASE round = MaxRounds
        <3>1. PICK more : /\ AreRounds(more, start, LiveEdges, round + 1)
                          /\ more[round] = after[round]
                          /\ more[round + 1] = Round(after[round], LiveEdges)
            BY <2>2, RoundsContinue DEF TypeOK
        <3>2. Cardinality(Props) \in Nat
            BY FS_CardinalityType
        <3>3. /\ round + 1 \in Nat /\ (round + 1) - 1 = round
              /\ round + 1 > 3 * Cardinality(Props)
            BY <2>4, <3>2, NetworkAssumption
        <3>4. more[round + 1] = more[round]
            BY <2>2, <3>1, <3>3, RoundsSettle
        <3> QED BY <2>2, <3>1, <3>4
    <2> QED BY <2>1, <2>3, <2>4 DEF PassOver
<1> QED BY <1>1, <1>2, <1>3, TypeCorrect, PTL DEF Spec, EndsAtFixpoint
=============================================================================
