------------------------- MODULE PropagationProofs --------------------------
(***************************************************************************)
(* Facts about the six-valued logic, about one round of propagation and,   *)
(* by induction on its rounds, about a whole pass.                         *)
(***************************************************************************)
EXTENDS Propagation, InductionFacts

\* A rank is a natural number, so any two values are comparable.
LEMMA RankType ==
    ASSUME NEW v \in HexValues
    PROVE  Rank(v) \in 0 .. 5
BY DEF HexValues, Rank, True, Probable, Unknown, Doubtful, False, Contradictory

\* The complement stays inside the logic and fixes exactly U and C.
LEMMA NotType ==
    ASSUME NEW v \in HexValues
    PROVE  Not(v) \in HexValues
BY DEF HexValues, Not, True, Probable, Unknown, Doubtful, False, Contradictory

\* A non-empty set of values has a greatest member.
LEMMA HighestExists ==
    ASSUME NEW S \in SUBSET HexValues, S # {}
    PROVE  \E v \in S : \A w \in S : Rank(w) <= Rank(v)
<1> DEFINE Top(v) == \A w \in S : Rank(w) <= Rank(v)
<1>1. CASE Contradictory \in S
    BY <1>1 DEF HexValues, Rank, True, Probable, Unknown, Doubtful, False,
        Contradictory
<1>2. CASE Contradictory \notin S /\ True \in S
    BY <1>2 DEF HexValues, Rank, True, Probable, Unknown, Doubtful, False,
        Contradictory
<1>3. CASE S \cap {Contradictory, True} = {} /\ Probable \in S
    BY <1>3 DEF HexValues, Rank, True, Probable, Unknown, Doubtful, False,
        Contradictory
<1>4. CASE S \cap {Contradictory, True, Probable} = {} /\ Unknown \in S
    BY <1>4 DEF HexValues, Rank, True, Probable, Unknown, Doubtful, False,
        Contradictory
<1>5. CASE /\ S \cap {Contradictory, True, Probable, Unknown} = {}
           /\ Doubtful \in S
    BY <1>5 DEF HexValues, Rank, True, Probable, Unknown, Doubtful, False,
        Contradictory
<1>6. CASE S \cap (HexValues \ {False}) = {}
    BY <1>6 DEF HexValues, Rank, True, Probable, Unknown, Doubtful, False,
        Contradictory
<1> QED
    BY <1>1, <1>2, <1>3, <1>4, <1>5, <1>6 DEF HexValues

\* Highest picks a member that no member outranks.
LEMMA HighestIsTop ==
    ASSUME NEW S \in SUBSET HexValues, S # {}
    PROVE  /\ Highest(S) \in S
           /\ \A w \in S : Rank(w) <= Rank(Highest(S))
BY HighestExists DEF Highest

\* The n-ary combination never leaves the logic.
LEMMA CombineType ==
    ASSUME NEW S \in SUBSET HexValues
    PROVE  CombineEvidenceSet(S) \in HexValues
<1>1. CASE InConflict(S) \/ S = {}
    BY <1>1 DEF CombineEvidenceSet, HexValues
<1>2. CASE ~InConflict(S) /\ S # {}
    BY <1>2, HighestIsTop DEF CombineEvidenceSet
<1> QED BY <1>1, <1>2

\* The combination of a set is an upper bound of the set: no member outranks
\* it, and so adding evidence never lowers a value.
LEMMA CombineIsUpperBound ==
    ASSUME NEW S \in SUBSET HexValues, NEW v \in S
    PROVE  Rank(v) <= Rank(CombineEvidenceSet(S))
<1>1. CASE InConflict(S)
    <2>1. CombineEvidenceSet(S) = Contradictory
        BY <1>1 DEF CombineEvidenceSet
    <2>2. Rank(Contradictory) = 5
        BY DEF Rank, True, Probable, Unknown, Doubtful, False, Contradictory
    <2> QED BY <2>1, <2>2, RankType
<1>2. CASE ~InConflict(S)
    BY <1>2, HighestIsTop DEF CombineEvidenceSet
<1> QED BY <1>1, <1>2

\* Unknown alone combines to Unknown: abstention is not evidence.
LEMMA CombineUnknown == CombineEvidenceSet({Unknown}) = Unknown
<1>1. ~InConflict({Unknown})
    BY DEF InConflict, Positive, Negative, True, Probable, Unknown, Doubtful,
        False
<1>2. Highest({Unknown}) = Unknown
    BY HighestIsTop, {Unknown} \in SUBSET HexValues DEF HexValues
<1> QED BY <1>1, <1>2 DEF CombineEvidenceSet

\* No two values share a rank.
LEMMA RankInjective ==
    ASSUME NEW v \in HexValues, NEW w \in HexValues, Rank(v) = Rank(w)
    PROVE  v = w
BY DEF HexValues, Rank, True, Probable, Unknown, Doubtful, False, Contradictory

\* Evidence that has been combined adds nothing when it is offered again:
\* combining a result with any part of what produced it returns the result.
LEMMA CombineAbsorbs ==
    ASSUME NEW S \in SUBSET HexValues, S # {}, NEW R \in SUBSET S
    PROVE  CombineEvidenceSet({CombineEvidenceSet(S)} \cup R)
                = CombineEvidenceSet(S)
<1> DEFINE x == CombineEvidenceSet(S)
<1> DEFINE Q == {x} \cup R
<1>1. x \in HexValues /\ Q \in SUBSET HexValues /\ Q # {}
    BY CombineType
<1>2. CombineEvidenceSet(Q) \in HexValues
    BY <1>1, CombineType
<1>3. CASE InConflict(S)
    <2>1. x = Contradictory
        BY <1>3 DEF CombineEvidenceSet
    <2>2. Rank(x) = 5
        BY <2>1 DEF Rank, True, Probable, Unknown, Doubtful, False,
            Contradictory
    <2>3. Rank(x) <= Rank(CombineEvidenceSet(Q))
        BY <1>1, CombineIsUpperBound
    <2>4. Rank(CombineEvidenceSet(Q)) = Rank(x)
        BY <1>2, <2>2, <2>3, RankType
    <2> QED BY <1>1, <1>2, <2>4, RankInjective
<1>4. CASE ~InConflict(S)
    <2>1. x = Highest(S) /\ x \in S /\ \A w \in S : Rank(w) <= Rank(x)
        BY <1>4, HighestIsTop DEF CombineEvidenceSet
    <2>2. Q \subseteq S /\ ~InConflict(Q)
        BY <1>4, <2>1 DEF InConflict
    <2>3. /\ CombineEvidenceSet(Q) = Highest(Q)
          /\ Highest(Q) \in Q
          /\ \A w \in Q : Rank(w) <= Rank(Highest(Q))
        BY <1>1, <2>2, HighestIsTop DEF CombineEvidenceSet
    <2>4. Rank(x) <= Rank(Highest(Q)) /\ Rank(Highest(Q)) <= Rank(x)
        BY <2>1, <2>2, <2>3
    <2>5. Rank(Highest(Q)) = Rank(x)
        BY <1>1, <1>2, <2>3, <2>4, RankType
    <2> QED BY <1>1, <1>2, <2>3, <2>5, RankInjective
<1> QED BY <1>3, <1>4

-----------------------------------------------------------------------------
(* One round.                                                              *)

\* Beliefs and live edges as the network keeps them: no edge dangles.
Linked(b, live) ==
    /\ b \in [Props -> HexValues \cup {Absent}]
    /\ live \in SUBSET EdgeTriples
    /\ \A e \in live : b[e.from] # Absent /\ b[e.to] # Absent

LEMMA AbsentIsNoValue == Absent \notin HexValues
BY DEF Absent, HexValues, True, Probable, Unknown, Doubtful, False,
    Contradictory

\* What flows into a node is a set of hexavalent values, and a node without a
\* value is not the target of any live edge.
LEMMA IncomingType ==
    ASSUME NEW b, NEW live, Linked(b, live), NEW p \in Props
    PROVE  /\ Incoming(b, live, p) \in SUBSET HexValues
           /\ b[p] = Absent => Incoming(b, live, p) = {}
<1>1. ASSUME NEW e \in FiringInto(b, live, p)
      PROVE  /\ Contributed(b[e.from], e.relation) \in HexValues
             /\ b[p] # Absent
    <2>1. e \in live /\ e.from \in Props /\ e.to = p
        BY DEF FiringInto, Linked, EdgeTriples
    <2>2. b[e.from] \in HexValues /\ b[p] # Absent
        BY <2>1 DEF Linked
    <2> QED BY <2>2, NotType DEF Contributed
<1> QED BY <1>1 DEF Incoming

\* A round keeps a value a value and an absent node absent.
LEMMA RoundType ==
    ASSUME NEW b, NEW live, Linked(b, live), NEW p \in Props
    PROVE  /\ RoundValue(b, live, p) \in HexValues \cup {Absent}
           /\ RoundValue(b, live, p) = Absent <=> b[p] = Absent
<1> DEFINE Inc == Incoming(b, live, p)
<1>1. CASE Inc = {}
    BY <1>1 DEF RoundValue, Linked
<1>2. CASE Inc # {}
    <2>1. b[p] \in HexValues
        BY <1>2, IncomingType DEF Linked
    <2>2. {b[p]} \cup Inc \in SUBSET HexValues
        BY <2>1, IncomingType
    <2>3. CombineEvidenceSet({b[p]} \cup Inc) \in HexValues
        BY <2>2, CombineType
    <2> QED BY <1>2, <2>1, <2>3, AbsentIsNoValue DEF RoundValue
<1> QED BY <1>1, <1>2

\* A round never lowers a value.
LEMMA RoundNeverLowers ==
    ASSUME NEW b, NEW live, Linked(b, live), NEW p \in Props, b[p] # Absent
    PROVE  Rank(b[p]) <= Rank(RoundValue(b, live, p))
<1> DEFINE Inc == Incoming(b, live, p)
<1>1. b[p] \in HexValues
    BY DEF Linked
<1>2. CASE Inc = {}
    BY <1>1, <1>2, RankType DEF RoundValue
<1>3. CASE Inc # {}
    <2>1. {b[p]} \cup Inc \in SUBSET HexValues
        BY <1>1, IncomingType
    <2>2. Rank(b[p]) <= Rank(CombineEvidenceSet({b[p]} \cup Inc))
        BY <2>1, CombineIsUpperBound
    <2> QED BY <1>3, <2>2 DEF RoundValue
<1> QED BY <1>2, <1>3

\* What a round combines is one set, with the node's own value in it, so a
\* denial that meets an affirmation is never overruled by it.
LEMMA RoundKeepsDenials ==
    ASSUME NEW b, NEW live, Linked(b, live), NEW p \in Props, b[p] \in Negative
    PROVE  RoundValue(b, live, p) \notin Positive
<1> DEFINE S == {b[p]} \cup Incoming(b, live, p)
<1>1. b[p] \in S /\ b[p] \in HexValues /\ b[p] \notin Positive
    BY DEF Negative, Positive, HexValues, True, Probable, Unknown, Doubtful,
        False, Contradictory
<1>2. S \in SUBSET HexValues /\ S # {}
    BY <1>1, IncomingType
<1>3. CombineEvidenceSet(S) \notin Positive
    <2>1. CASE InConflict(S)
        BY <2>1 DEF CombineEvidenceSet, Positive, True, Probable, Contradictory
    <2>2. CASE ~InConflict(S)
        <3>1. S \cap Positive = {}
            BY <1>1, <2>2 DEF InConflict
        <3>2. CombineEvidenceSet(S) \in S
            BY <1>2, <2>2, HighestIsTop DEF CombineEvidenceSet
        <3> QED BY <3>1, <3>2
    <2> QED BY <2>1, <2>2
<1> QED BY <1>1, <1>3 DEF RoundValue

\* A value that a round lifts to Unknown was fed by a source at Unknown.
LEMMA UnknownComesFromUnknown ==
    ASSUME NEW b, NEW live, Linked(b, live), NEW p \in Props,
           b[p] \in Negative, RoundValue(b, live, p) = Unknown
    PROVE  \E e \in FiringInto(b, live, p) : b[e.from] = Unknown
<1> DEFINE S == {b[p]} \cup Incoming(b, live, p)
<1>1. b[p] \in HexValues /\ b[p] # Unknown
    BY DEF Negative, HexValues, True, Probable, Unknown, Doubtful, False,
        Contradictory
<1>2. S \in SUBSET HexValues /\ S # {}
    BY <1>1, IncomingType
<1>3. CombineEvidenceSet(S) = Unknown
    BY <1>1 DEF RoundValue
<1>4. ~InConflict(S)
    BY <1>3 DEF CombineEvidenceSet, Unknown, Contradictory
<1>5. Unknown \in S
    BY <1>2, <1>3, <1>4, HighestIsTop DEF CombineEvidenceSet
<1>6. PICK e \in FiringInto(b, live, p) :
            Contributed(b[e.from], e.relation) = Unknown
    BY <1>1, <1>5 DEF Incoming
<1>7. b[e.from] \in HexValues
    BY DEF FiringInto, Linked, EdgeTriples
<1>8. b[e.from] = Unknown
    BY <1>6, <1>7 DEF Contributed, Not, HexValues, True, Probable, Unknown,
        Doubtful, False, Contradictory
<1> QED BY <1>8

\* Outside a set that is closed under the live edges nothing but Unknown
\* flows, so nothing changes there.
Unbelieved(b, S) == \A p \in Props \ S : b[p] \in {Unknown, Absent}

LEMMA RoundFounded ==
    ASSUME NEW b, NEW live, Linked(b, live), NEW S \in SUBSET Props,
           \A e \in live : e.from \in S => e.to \in S,
           Unbelieved(b, S)
    PROVE  \A p \in Props \ S : RoundValue(b, live, p) \in {Unknown, Absent}
<1> SUFFICES ASSUME NEW p \in Props \ S
             PROVE  RoundValue(b, live, p) \in {Unknown, Absent}
    OBVIOUS
<1> DEFINE Inc == Incoming(b, live, p)
<1>1. ASSUME NEW e \in FiringInto(b, live, p)
      PROVE  Contributed(b[e.from], e.relation) = Unknown
    <2>1. e \in live /\ e.from \in Props \ S
        BY DEF FiringInto, Linked, EdgeTriples
    <2>2. b[e.from] = Unknown
        BY <2>1 DEF Linked, Unbelieved
    <2>3. Not(Unknown) = Unknown
        BY DEF Not, True, Probable, Unknown, Doubtful, False, Contradictory
    <2> QED BY <2>2, <2>3 DEF Contributed
<1>2. CASE Inc = {}
    BY <1>2 DEF RoundValue, Unbelieved
<1>3. CASE Inc # {}
    <2>1. Inc = {Unknown}
        BY <1>1, <1>3 DEF Incoming
    <2>2. b[p] = Unknown
        BY <1>3, IncomingType DEF Unbelieved
    <2>3. {b[p]} \cup Inc = {Unknown}
        BY <2>1, <2>2
    <2> QED BY <1>3, <2>3, CombineUnknown DEF RoundValue
<1> QED BY <1>2, <1>3

-----------------------------------------------------------------------------
(* A pass.                                                                 *)

\* The rounds of a pass that starts at b.
AreRounds(after, b, live, n) ==
    after = [i \in 0 .. n |->
                IF i = 0 THEN b ELSE Round(after[i - 1], live)]

LEMMA RoundsExist ==
    ASSUME NEW b, NEW live, NEW cap \in Nat
    PROVE  \E after : AreRounds(after, b, live, cap)
<1> DEFINE T == {n \in Nat : \E after : AreRounds(after, b, live, n)}
<1>1. 0 \in T
    <2>1. AreRounds([i \in 0 .. 0 |-> b], b, live, 0)
        BY DEF AreRounds
    <2> QED BY <2>1
<1>2. ASSUME NEW n \in T PROVE n + 1 \in T
    <2>1. PICK f : AreRounds(f, b, live, n)
        OBVIOUS
    <2> DEFINE g == [i \in 0 .. n + 1 |->
                        IF i = n + 1 THEN Round(f[n], live) ELSE f[i]]
    <2>2. \A i \in 0 .. n : f[i] = IF i = 0 THEN b ELSE Round(f[i - 1], live)
        BY <2>1 DEF AreRounds
    <2>3. \A i \in 0 .. n + 1 :
            g[i] = IF i = 0 THEN b ELSE Round(g[i - 1], live)
        BY <2>2
    <2>4. AreRounds(g, b, live, n + 1)
        BY <2>3 DEF AreRounds
    <2> HIDE DEF g
    <2> QED BY <2>4
<1> HIDE DEF T
<1>3. T \in SUBSET Nat
    BY DEF T
<1>4. T = Nat
    BY <1>1, <1>2, <1>3, InductionOnNat
<1> QED BY <1>4 DEF T

\* A pass is its last round; stopping early makes no difference.
LEMMA PassIsLastRound ==
    ASSUME NEW b, NEW live, NEW cap \in Nat
    PROVE  \E after : /\ AreRounds(after, b, live, cap)
                      /\ Pass(b, live, cap) = after[cap]
<1> DEFINE Body(f) ==
        [i \in 0 .. cap |->
            IF i = 0 THEN b
            ELSE LET before == f[i - 1]
                     next == Round(before, live)
                 IN  IF next = before THEN before ELSE next]
<1> DEFINE pass == CHOOSE f : f = Body(f)
<1>1. Pass(b, live, cap) = pass[cap]
    BY Zenon DEF Pass
<1>2. \A f : f = Body(f) <=> AreRounds(f, b, live, cap)
    BY DEF AreRounds
<1>3. pass = Body(pass)
    <2>1. \E f : f = Body(f)
        BY <1>2, RoundsExist
    <2> HIDE DEF Body
    <2> QED BY <2>1, Zenon
<1> QED BY <1>1, <1>2, <1>3

\* What holds at the start of a pass, and after a round whenever before it,
\* holds at its end.
LEMMA PassInduction ==
    ASSUME NEW b, NEW live, NEW cap \in Nat, NEW Q,
           b \in Q, \A c \in Q : Round(c, live) \in Q
    PROVE  Pass(b, live, cap) \in Q
<1>1. PICK after : /\ AreRounds(after, b, live, cap)
                   /\ Pass(b, live, cap) = after[cap]
    BY PassIsLastRound
<1>2. \A i \in 0 .. cap :
        after[i] = IF i = 0 THEN b ELSE Round(after[i - 1], live)
    BY <1>1 DEF AreRounds
<1> DEFINE T == {i \in Nat : i <= cap => after[i] \in Q}
<1>3. 0 \in T
    BY <1>2
<1>4. ASSUME NEW i \in T PROVE i + 1 \in T
    <2> SUFFICES ASSUME i + 1 <= cap PROVE after[i + 1] \in Q
        OBVIOUS
    <2>1. after[i] \in Q /\ after[i + 1] = Round(after[i], live)
        BY <1>2
    <2> QED BY <2>1
<1>5. T = Nat
    BY <1>3, <1>4, InductionOnNat
<1> QED BY <1>1, <1>5

\* A pass creates and removes no node, keeps values values, and lowers none.
LEMMA PassKeeps ==
    ASSUME NEW b, NEW live, Linked(b, live), NEW cap \in Nat
    PROVE  LET c == Pass(b, live, cap)
           IN  /\ c \in [Props -> HexValues \cup {Absent}]
               /\ \A p \in Props : c[p] = Absent <=> b[p] = Absent
               /\ \A p \in Props :
                    b[p] # Absent => Rank(b[p]) <= Rank(c[p])
<1> DEFINE Q == {c \in [Props -> HexValues \cup {Absent}] :
                    \A p \in Props :
                        /\ c[p] = Absent <=> b[p] = Absent
                        /\ b[p] # Absent => Rank(b[p]) <= Rank(c[p])}
<1>1. b \in Q
    BY RankType DEF Linked
<1>2. ASSUME NEW c \in Q PROVE Round(c, live) \in Q
    <2>1. Linked(c, live)
        BY DEF Linked, EdgeTriples
    <2>2. Round(c, live) \in [Props -> HexValues \cup {Absent}]
        BY <2>1, RoundType DEF Round
    <2>3. ASSUME NEW p \in Props
          PROVE  /\ Round(c, live)[p] = Absent <=> b[p] = Absent
                 /\ b[p] # Absent => Rank(b[p]) <= Rank(Round(c, live)[p])
        <3>1. Round(c, live)[p] = RoundValue(c, live, p)
            BY DEF Round
        <3>2. Round(c, live)[p] = Absent <=> b[p] = Absent
            BY <2>1, <3>1, RoundType
        <3>3. ASSUME b[p] # Absent
              PROVE  Rank(b[p]) <= Rank(Round(c, live)[p])
            <4>1. /\ b[p] \in HexValues
                  /\ c[p] \in HexValues
                  /\ Round(c, live)[p] \in HexValues
                BY <2>2, <3>2, <3>3 DEF Linked
            <4>2. Rank(c[p]) <= Rank(Round(c, live)[p])
                BY <2>1, <3>1, <4>1, RoundNeverLowers, AbsentIsNoValue
            <4>3. Rank(b[p]) <= Rank(c[p])
                BY <3>3
            <4> QED BY <4>1, <4>2, <4>3, RankType
        <3> QED BY <3>2, <3>3
    <2> QED BY <2>2, <2>3
<1> HIDE DEF Q
<1>3. Pass(b, live, cap) \in Q
    BY <1>1, <1>2, PassInduction
<1> QED BY <1>3 DEF Q

\* Nor does a pass start a belief of its own.
LEMMA PassFounded ==
    ASSUME NEW b, NEW live, Linked(b, live), NEW cap \in Nat,
           NEW S \in SUBSET Props,
           \A e \in live : e.from \in S => e.to \in S,
           Unbelieved(b, S)
    PROVE  Unbelieved(Pass(b, live, cap), S)
<1> DEFINE Q == {c \in [Props -> HexValues \cup {Absent}] :
                    Linked(c, live) /\ Unbelieved(c, S)}
<1>1. b \in Q
    BY DEF Linked
<1>2. ASSUME NEW c \in Q PROVE Round(c, live) \in Q
    <2>1. Linked(c, live) /\ Unbelieved(c, S)
        OBVIOUS
    <2>2. Round(c, live) \in [Props -> HexValues \cup {Absent}]
        BY <2>1, RoundType DEF Round
    <2>3. Unbelieved(Round(c, live), S)
        BY <2>1, RoundFounded DEF Round, Unbelieved
    <2>4. \A p \in Props : Round(c, live)[p] = Absent <=> c[p] = Absent
        BY <2>1, RoundType DEF Round
    <2>5. Linked(Round(c, live), live)
        BY <2>1, <2>2, <2>4 DEF Linked, EdgeTriples
    <2> QED BY <2>2, <2>3, <2>5
<1> HIDE DEF Q
<1>3. Pass(b, live, cap) \in Q
    BY <1>1, <1>2, PassInduction
<1> QED BY <1>3 DEF Q

-----------------------------------------------------------------------------
(* How soon a pass settles.  What propagates is one kind of value at a     *)
(* time: an implication or a support hands on the value it has, and a      *)
(* contradiction turns Probable and Doubtful into each other; no value     *)
(* ever rises to False.  A proposition rises at most once to each value,   *)
(* so the rounds that change something are counted by pairs of a           *)
(* proposition and a value of one kind, or Contradictory.                  *)

Kinds == {{True}, {Unknown}, {Probable, Doubtful}}
Marked(W) == W \cup {Contradictory}

\* The proposition changed in round k to a value of S.
RoseTo(after, k, p, S) ==
    p \in Props /\ after[k][p] # after[k - 1][p] /\ after[k][p] \in S

LEMMA RoundKeepsLinks ==
    ASSUME NEW b, NEW live, Linked(b, live)
    PROVE  Linked(Round(b, live), live)
<1>1. Round(b, live) \in [Props -> HexValues \cup {Absent}]
    BY RoundType DEF Round
<1>2. \A p \in Props : Round(b, live)[p] = Absent <=> b[p] = Absent
    BY RoundType DEF Round
<1> QED BY <1>1, <1>2 DEF Linked, EdgeTriples

LEMMA RoundsKeepLinks ==
    ASSUME NEW n \in Nat, NEW b, NEW live, Linked(b, live),
           NEW after, AreRounds(after, b, live, n)
    PROVE  /\ after[0] = b
           /\ \A i \in 0 .. n : Linked(after[i], live)
           /\ \A i \in 1 .. n : after[i] = Round(after[i - 1], live)
<1>1. /\ after[0] = b
      /\ \A i \in 1 .. n : after[i] = Round(after[i - 1], live)
    BY DEF AreRounds
<1> DEFINE T == {i \in Nat : i <= n => Linked(after[i], live)}
<1>2. ASSUME NEW i \in T PROVE i + 1 \in T
    <2> SUFFICES ASSUME i + 1 <= n PROVE Linked(after[i + 1], live)
        OBVIOUS
    <2>1. Linked(after[i], live) /\ after[i + 1] = Round(after[i], live)
        BY <1>1
    <2> QED BY <2>1, RoundKeepsLinks
<1>3. T = Nat
    BY <1>1, <1>2, InductionOnNat
<1> QED BY <1>1, <1>3

\* A change raises a value, and never to False.
LEMMA ChangeRaises ==
    ASSUME NEW b, NEW live, Linked(b, live), NEW p \in Props,
           Round(b, live)[p] # b[p]
    PROVE  /\ b[p] \in HexValues /\ Round(b, live)[p] \in HexValues
           /\ Rank(b[p]) < Rank(Round(b, live)[p])
           /\ Round(b, live)[p] # False
<1> DEFINE v == RoundValue(b, live, p)
<1>1. Round(b, live)[p] = v
    BY DEF Round
<1>2. b[p] \in HexValues /\ v \in HexValues
    BY <1>1, RoundType DEF Linked
<1>3. Rank(b[p]) <= Rank(v)
    BY <1>2, RoundNeverLowers, AbsentIsNoValue
<1>4. Rank(b[p]) # Rank(v)
    BY <1>1, <1>2, RankInjective
<1>5. Rank(b[p]) < Rank(v) /\ Rank(v) > 0
    BY <1>2, <1>3, <1>4, RankType
<1>6. Rank(False) = 0
    BY DEF Rank, True, Probable, Unknown, Doubtful, False, Contradictory
<1> HIDE DEF v
<1> QED BY <1>1, <1>2, <1>5, <1>6

\* A change to an uncontradicted value hands on a change of the round before,
\* and one of the same kind.
LEMMA ChangeHasParent ==
    ASSUME NEW a, NEW c, NEW live, Linked(a, live), c = Round(a, live),
           NEW p \in Props, Round(c, live)[p] # c[p],
           NEW W \in Kinds, Round(c, live)[p] \in W
    PROVE  \E q \in Props : c[q] # a[q] /\ c[q] \in W
<1> DEFINE v == Round(c, live)[p]
           Old == Incoming(a, live, p)
           New == Incoming(c, live, p)
<1>1. Linked(c, live) /\ v = RoundValue(c, live, p)
    BY RoundKeepsLinks DEF Round
<1>2. New # {} /\ c[p] \in HexValues /\ v \in HexValues
    BY <1>1, ChangeRaises DEF RoundValue
<1>3. v = CombineEvidenceSet({c[p]} \cup New) /\ v # Contradictory
    BY <1>1, <1>2 DEF RoundValue, Kinds, True, Unknown, Probable, Doubtful,
        Contradictory
<1>4. v \in New
    <2>1. {c[p]} \cup New \in SUBSET HexValues
        BY <1>1, <1>2, IncomingType
    <2>2. v \in {c[p]} \cup New
        BY <1>3, <2>1, HighestIsTop DEF CombineEvidenceSet
    <2> QED BY <2>2
<1>5. PICK e \in FiringInto(c, live, p) :
            v = Contributed(c[e.from], e.relation)
    BY <1>4 DEF Incoming
<1>6. e \in live /\ e.from \in Props /\ e.to = p
    BY <1>1 DEF FiringInto, Linked, EdgeTriples
<1>7. c[e.from] # a[e.from]
    <2> SUFFICES ASSUME c[e.from] = a[e.from] PROVE FALSE
        OBVIOUS
    <2>1. v \in Old
        BY <1>5, <1>6 DEF Incoming, FiringInto
    <2>2. a[p] \in HexValues /\ Old \in SUBSET HexValues
        BY <2>1, IncomingType DEF Linked
    <2>3. c[p] = CombineEvidenceSet({a[p]} \cup Old)
        BY <2>1 DEF Round, RoundValue
    <2>4. {a[p]} \cup Old \in SUBSET HexValues /\ v \in {a[p]} \cup Old
        BY <2>1, <2>2
    <2>5. Rank(v) <= Rank(c[p])
        BY <2>3, <2>4, CombineIsUpperBound
    <2>6. Rank(c[p]) < Rank(v)
        BY <1>1, ChangeRaises
    <2> QED BY <1>2, <2>5, <2>6, RankType
<1>8. c[e.from] \in HexValues /\ c[e.from] # False
    BY <1>6, <1>7, ChangeRaises
<1>9. c[e.from] \in W
    <2>1. v \in W
        OBVIOUS
    <2>2. v = c[e.from] \/ v = Not(c[e.from])
        BY <1>5 DEF Contributed
    <2> HIDE DEF v
    <2> QED BY <1>8, <2>1, <2>2 DEF Kinds, HexValues, Not, True, Unknown,
            Probable, Doubtful, False, Contradictory
<1> QED BY <1>6, <1>7, <1>9

\* Along the rounds a value never falls.
LEMMA RoundsRaise ==
    ASSUME NEW n \in Nat, NEW b, NEW live, Linked(b, live),
           NEW after, AreRounds(after, b, live, n),
           NEW p \in Props, b[p] # Absent, NEW i \in 0 .. n, NEW j \in i .. n
    PROVE  Rank(after[i][p]) <= Rank(after[j][p])
<1>1. /\ \A k \in 0 .. n : Linked(after[k], live)
      /\ \A k \in 1 .. n : after[k] = Round(after[k - 1], live)
      /\ after[0] = b
    BY RoundsKeepLinks
<1> DEFINE T == {k \in Nat : k <= n => after[k][p] \in HexValues}
<1>2. ASSUME NEW k \in T PROVE k + 1 \in T
    <2> SUFFICES ASSUME k + 1 <= n PROVE after[k + 1][p] \in HexValues
        OBVIOUS
    <2>1. after[k + 1] = Round(after[k], live)
        BY <1>1
    <2>2. after[k][p] \in HexValues /\ Linked(after[k], live)
        BY <1>1
    <2>3. RoundValue(after[k], live, p) \in HexValues
        BY <2>2, RoundType, AbsentIsNoValue
    <2> QED BY <2>1, <2>3 DEF Round
<1>3. b[p] \in HexValues
    BY DEF Linked
<1>4. T = Nat
    BY <1>1, <1>2, <1>3, InductionOnNat
<1> DEFINE S == {k \in Nat :
                    k \in i .. n => Rank(after[i][p]) <= Rank(after[k][p])}
<1>5. \A k \in 0 .. n : Rank(after[k][p]) \in Nat
    BY <1>4, RankType
<1>6. ASSUME NEW k \in S PROVE k + 1 \in S
    <2> SUFFICES ASSUME k + 1 \in i .. n
                 PROVE  Rank(after[i][p]) <= Rank(after[k + 1][p])
        OBVIOUS
    <2>1. CASE k + 1 = i
        BY <1>5, <2>1
    <2>2. CASE k + 1 # i
        <3>1. /\ k \in i .. n /\ k \in 0 .. n /\ k + 1 \in 1 .. n
              /\ k + 1 \in 0 .. n
            BY <2>2
        <3>2. after[k + 1] = Round(after[k], live)
            BY <1>1, <3>1
        <3>3. Linked(after[k], live) /\ after[k][p] # Absent
            BY <1>1, <1>4, <3>1, AbsentIsNoValue
        <3>4. Rank(after[k][p]) <= Rank(after[k + 1][p])
            BY <3>2, <3>3, RoundNeverLowers DEF Round
        <3>5. Rank(after[i][p]) <= Rank(after[k][p])
            BY <3>1
        <3> QED BY <1>5, <3>1, <3>4, <3>5
    <2> QED BY <2>1, <2>2
<1>7. 0 \in S
    BY <1>5
<1>8. S = Nat
    BY <1>6, <1>7, InductionOnNat
<1> QED BY <1>8

\* A change in round k has a change of one kind, or a new contradiction, in
\* every round up to k.
TracedBy(after, k, p, W) ==
    /\ after[k][p] \in Marked(W)
    /\ \A j \in 1 .. k : \E q \in Props : RoseTo(after, j, q, Marked(W))

LEMMA ChangesAreTraced ==
    ASSUME NEW n \in Nat, NEW b, NEW live, Linked(b, live),
           NEW after, AreRounds(after, b, live, n),
           NEW k \in 1 .. n, NEW p \in Props, after[k][p] # after[k - 1][p]
    PROVE  \E W \in Kinds : TracedBy(after, k, p, W)
<1>1. /\ \A i \in 0 .. n : Linked(after[i], live)
      /\ \A i \in 1 .. n : after[i] = Round(after[i - 1], live)
    BY RoundsKeepLinks
<1> DEFINE Traced(i) == \A q \in Props : after[i][q] # after[i - 1][q] =>
                            \E W \in Kinds : TracedBy(after, i, q, W)
           T == {i \in Nat : i + 1 \in 1 .. n => Traced(i + 1)}
<1>2. ASSUME NEW i \in 1 .. n, NEW q \in Props, after[i][q] # after[i - 1][q]
      PROVE  /\ after[i][q] \in HexValues
             /\ \E W \in Kinds : after[i][q] \in Marked(W)
             /\ after[i][q] # Contradictory
                    => \E W \in Kinds : after[i][q] \in W
    <2>1. Linked(after[i - 1], live) /\ after[i] = Round(after[i - 1], live)
        BY <1>1
    <2>2. after[i][q] \in HexValues /\ after[i][q] # False
        BY <1>2, <2>1, ChangeRaises
    <2> DEFINE v == after[i][q]
    <2>3. v \in HexValues /\ v # False
        BY <2>2
    <2> HIDE DEF v
    <2>4. /\ \E W \in Kinds : v \in Marked(W)
          /\ v # Contradictory => \E W \in Kinds : v \in W
        BY <2>3 DEF HexValues, Kinds, Marked
    <2> QED BY <2>2, <2>4 DEF v
<1>3. 0 \in T
    <2> SUFFICES ASSUME 1 \in 1 .. n, NEW q \in Props,
                        after[1][q] # after[0][q]
                 PROVE  \E W \in Kinds : TracedBy(after, 1, q, W)
        OBVIOUS
    <2>1. PICK W \in Kinds : after[1][q] \in Marked(W)
        BY <1>2
    <2>2. RoseTo(after, 1, q, Marked(W))
        BY <2>1 DEF RoseTo
    <2>3. TracedBy(after, 1, q, W)
        BY <2>1, <2>2 DEF TracedBy
    <2> QED BY <2>3
<1>4. ASSUME NEW i \in T PROVE i + 1 \in T
    <2> SUFFICES ASSUME (i + 1) + 1 \in 1 .. n, NEW q \in Props,
                        after[(i + 1) + 1][q] # after[(i + 1) + 1 - 1][q]
                 PROVE  \E W \in Kinds : TracedBy(after, (i + 1) + 1, q, W)
        OBVIOUS
    <2> DEFINE m == i + 1
    <2>1. /\ m \in 1 .. n /\ m + 1 \in 1 .. n /\ m - 1 \in 0 .. n
          /\ m \in 0 .. n
          /\ (m + 1) - 1 = m /\ i \in Nat
        OBVIOUS
    <2>2. Traced(m)
        BY <2>1
    <2> HIDE DEF T, Traced
    <2>3. after[m + 1][q] # after[m][q]
        BY <2>1
    <2> HIDE DEF m
    <2>4. /\ Linked(after[m - 1], live)
          /\ after[m] = Round(after[m - 1], live)
          /\ after[m + 1] = Round(after[m], live)
        BY <1>1, <2>1
    <2>5. PICK V \in Kinds : after[m + 1][q] \in Marked(V)
        BY <1>2, <2>1, <2>3
    <2>6. \E r \in Props, W \in Kinds :
            /\ TracedBy(after, m, r, W)
            /\ after[m + 1][q] \in Marked(W)
        <3>1. CASE after[m + 1][q] = Contradictory
            <4>1. after[m] # after[m - 1]
                BY <2>3, <2>4
            <4>2. PICK r \in Props : after[m][r] # after[m - 1][r]
                <5>1. /\ after[m] \in [Props -> HexValues \cup {Absent}]
                      /\ after[m - 1] \in [Props -> HexValues \cup {Absent}]
                    BY <1>1, <2>1 DEF Linked
                <5> QED BY <4>1, <5>1
            <4>3. PICK W \in Kinds : TracedBy(after, m, r, W)
                BY <2>2, <4>2 DEF Traced
            <4> QED BY <3>1, <4>3 DEF Marked
        <3>2. CASE after[m + 1][q] # Contradictory
            <4>1. PICK U \in Kinds : after[m + 1][q] \in U
                BY <1>2, <2>1, <2>3, <3>2
            <4>2. PICK r \in Props :
                    after[m][r] # after[m - 1][r] /\ after[m][r] \in U
                <5>1. /\ Round(after[m], live)[q] # after[m][q]
                      /\ Round(after[m], live)[q] \in U
                    BY <2>3, <2>4, <4>1
                <5> QED BY <2>4, <5>1, ChangeHasParent
            <4>3. PICK W \in Kinds : TracedBy(after, m, r, W)
                BY <2>2, <4>2 DEF Traced
            <4>4. after[m][r] \in Marked(W)
                BY <4>3 DEF TracedBy
            <4>5. W = U
                <5> DEFINE w == after[m][r]
                <5>1. w \in Marked(W) /\ w \in U
                    BY <4>2, <4>4
                <5> HIDE DEF w
                <5> QED BY <5>1 DEF Kinds, Marked, True, Unknown, Probable,
                        Doubtful, Contradictory
            <4> QED BY <4>1, <4>3, <4>5 DEF Marked
        <3> QED BY <3>1, <3>2
    <2>7. PICK W \in Kinds : /\ \E r \in Props : TracedBy(after, m, r, W)
                             /\ after[m + 1][q] \in Marked(W)
        BY <2>6
    <2>8. RoseTo(after, m + 1, q, Marked(W))
        BY <2>1, <2>3, <2>7 DEF RoseTo
    <2>9. \A j \in 1 .. m : \E r \in Props : RoseTo(after, j, r, Marked(W))
        BY <2>7 DEF TracedBy
    <2>10. \A j \in 1 .. m + 1 : j \in 1 .. m \/ j = m + 1
        BY <2>1
    <2>11. TracedBy(after, m + 1, q, W)
        BY <2>7, <2>8, <2>9, <2>10 DEF TracedBy
    <2> QED BY <2>11 DEF m
<1>5. T = Nat
    <2> HIDE DEF Traced
    <2>1. T \in SUBSET Nat
        OBVIOUS
    <2> HIDE DEF T
    <2> QED BY <1>3, <1>4, <2>1, InductionOnNat
<1>6. k - 1 \in Nat /\ (k - 1) + 1 = k
    OBVIOUS
<1>7. Traced(k)
    <2> HIDE DEF Traced
    <2> QED BY <1>5, <1>6
<1> QED BY <1>7

\* So no more rounds change anything than there are propositions and marks.
LEMMA RoundsSettle ==
    ASSUME NEW n \in Nat, NEW b, NEW live, Linked(b, live),
           NEW after, AreRounds(after, b, live, n),
           IsFiniteSet(Props), n > 3 * Cardinality(Props)
    PROVE  after[n] = after[n - 1]
<1> SUFFICES ASSUME after[n] # after[n - 1] PROVE FALSE
    OBVIOUS
<1> DEFINE size == Cardinality(Props)
<1>1. size \in Nat
    BY FS_CardinalityType
<1>2. /\ \A i \in 0 .. n : Linked(after[i], live)
      /\ \A i \in 1 .. n : after[i] = Round(after[i - 1], live)
      /\ n \in 1 .. n
    BY <1>1, RoundsKeepLinks
<1>3. PICK p \in Props : after[n][p] # after[n - 1][p]
    <2>1. n \in 0 .. n /\ n - 1 \in 0 .. n
        BY <1>2
    <2>2. /\ after[n] \in [Props -> HexValues \cup {Absent}]
          /\ after[n - 1] \in [Props -> HexValues \cup {Absent}]
        BY <1>2, <2>1 DEF Linked
    <2> QED BY <2>2
<1>4. PICK W \in Kinds : TracedBy(after, n, p, W)
    BY <1>2, <1>3, ChangesAreTraced
<1> DEFINE M == Marked(W)
           who(j) == CHOOSE q \in Props : RoseTo(after, j, q, M)
           f == [j \in 1 .. n |-> <<who(j), after[j][who(j)]>>]
<1>5. \A j \in 1 .. n : who(j) \in Props /\ RoseTo(after, j, who(j), M)
    BY <1>4 DEF TracedBy
<1> HIDE DEF M, who
<1>6. f \in [1 .. n -> Props \X M]
    BY <1>5 DEF RoseTo
<1>7. ASSUME NEW i \in 1 .. n, NEW j \in 1 .. n, i < j, f[i] = f[j]
      PROVE  FALSE
    <2> DEFINE q == who(j)
    <2>1. who(i) = q /\ after[i][q] = after[j][q] /\ q \in Props
        BY <1>5, <1>7
    <2>2. after[j][q] # after[j - 1][q]
        BY <1>5 DEF RoseTo
    <2> HIDE DEF q
    <2>3. /\ Linked(after[j - 1], live) /\ after[j] = Round(after[j - 1], live)
          /\ i \in 0 .. n /\ j - 1 \in i .. n /\ j - 1 \in 0 .. n
        BY <1>2, <1>7
    <2>4. /\ after[j - 1][q] \in HexValues /\ after[j][q] \in HexValues
          /\ Rank(after[j - 1][q]) < Rank(after[j][q])
        BY <2>1, <2>2, <2>3, ChangeRaises
    <2>5. b[q] # Absent
        <3> DEFINE T == {k \in Nat : k <= n /\ b[q] = Absent
                                        => after[k][q] = Absent}
        <3>1. ASSUME NEW k \in T PROVE k + 1 \in T
            <4> SUFFICES ASSUME k + 1 <= n, b[q] = Absent
                         PROVE  after[k + 1][q] = Absent
                OBVIOUS
            <4>1. /\ after[k + 1] = Round(after[k], live)
                  /\ Linked(after[k], live) /\ after[k][q] = Absent
                BY <1>2
            <4>2. RoundValue(after[k], live, q) = Absent
                BY <2>1, <4>1, RoundType
            <4> QED BY <2>1, <4>1, <4>2 DEF Round
        <3>2. 0 \in T
            BY RoundsKeepLinks
        <3>3. T = Nat
            BY <3>1, <3>2, InductionOnNat
        <3> QED BY <2>4, <3>3, AbsentIsNoValue
    <2>6. Rank(after[i][q]) <= Rank(after[j - 1][q])
        BY <2>1, <2>3, <2>5, RoundsRaise
    <2> QED BY <2>1, <2>4, <2>6, RankType
<1>8. \A i, j \in 1 .. n : f[i] = f[j] => i = j
    <2> HIDE DEF f
    <2>1. \A i, j \in 1 .. n : i < j \/ j < i \/ i = j
        OBVIOUS
    <2> QED BY <1>7, <2>1
<1>9. f \in Injection(1 .. n, Props \X M)
    <2> HIDE DEF f
    <2> QED BY <1>6, <1>8 DEF Injection, IsInjective
<1>10. IsFiniteSet(M) /\ Cardinality(M) \in Nat /\ Cardinality(M) <= 3
    <2>1. M \in {{True, Contradictory}, {Unknown, Contradictory},
                 {Probable, Doubtful, Contradictory}}
        BY DEF M, Kinds, Marked
    <2>2. \A x, y, z : /\ IsFiniteSet({x, y, z})
                       /\ Cardinality({x, y, z}) \in Nat
                       /\ Cardinality({x, y, z}) <= 3
        <3> TAKE x, y, z
        <3>1. \A k \in Nat : \A S, e : IsFiniteSet(S) /\ Cardinality(S) \in 0 .. k
                    => /\ IsFiniteSet(S \cup {e})
                       /\ Cardinality(S \cup {e}) \in 0 .. k + 1
            <4> SUFFICES ASSUME NEW k \in Nat, NEW S, NEW e, IsFiniteSet(S),
                                Cardinality(S) \in 0 .. k
                         PROVE  /\ IsFiniteSet(S \cup {e})
                                /\ Cardinality(S \cup {e}) \in 0 .. k + 1
                OBVIOUS
            <4>1. /\ IsFiniteSet(S \cup {e})
                  /\ \/ Cardinality(S \cup {e}) = Cardinality(S)
                     \/ Cardinality(S \cup {e}) = Cardinality(S) + 1
                BY FS_AddElement
            <4> QED BY <4>1
        <3>2. IsFiniteSet({}) /\ Cardinality({}) \in 0 .. 0
            BY FS_EmptySet
        <3>3. IsFiniteSet({x}) /\ Cardinality({x}) \in 0 .. 1
            <4>1. {x} = {} \cup {x}
                OBVIOUS
            <4>2. /\ IsFiniteSet({} \cup {x})
                  /\ Cardinality({} \cup {x}) \in 0 .. 0 + 1
                BY <3>1, <3>2, Zenon
            <4>3. 0 + 1 = 1
                OBVIOUS
            <4> QED BY ONLY <4>1, <4>2, <4>3
        <3>4. IsFiniteSet({x, y}) /\ Cardinality({x, y}) \in 0 .. 2
            <4>1. {x, y} = {x} \cup {y}
                OBVIOUS
            <4>2. /\ IsFiniteSet({x} \cup {y})
                  /\ Cardinality({x} \cup {y}) \in 0 .. 1 + 1
                BY <3>1, <3>3
            <4>3. 1 + 1 = 2
                OBVIOUS
            <4> QED BY ONLY <4>1, <4>2, <4>3
        <3>5. IsFiniteSet({x, y, z}) /\ Cardinality({x, y, z}) \in 0 .. 3
            <4>1. {x, y, z} = {x, y} \cup {z}
                OBVIOUS
            <4>2. /\ IsFiniteSet({x, y} \cup {z})
                  /\ Cardinality({x, y} \cup {z}) \in 0 .. 2 + 1
                BY <3>1, <3>4
            <4>3. 2 + 1 = 3
                OBVIOUS
            <4> QED BY ONLY <4>1, <4>2, <4>3
        <3> QED BY <3>5
    <2>3. PICK x, y, z : M = {x, y, z}
        <3>1. CASE M = {True, Contradictory}
            <4>1. M = {True, True, Contradictory}
                BY <3>1
            <4> QED BY <4>1
        <3>2. CASE M = {Unknown, Contradictory}
            <4>1. M = {Unknown, Unknown, Contradictory}
                BY <3>2
            <4> QED BY <4>1
        <3>3. CASE M = {Probable, Doubtful, Contradictory}
            BY <3>3
        <3> QED BY <2>1, <3>1, <3>2, <3>3
    <2>4. /\ IsFiniteSet({x, y, z})
          /\ Cardinality({x, y, z}) \in Nat
          /\ Cardinality({x, y, z}) <= 3
        BY <2>2, Zenon
    <2> QED BY <2>3, <2>4
<1>11. /\ IsFiniteSet(Props \X M)
       /\ Cardinality(Props \X M) = size * Cardinality(M)
    BY <1>10, FS_Product
<1>12. Cardinality(1 .. n) = n
    BY <1>2, FS_Interval
<1>13. n <= Cardinality(Props \X M)
    <2> HIDE DEF f
    <2> QED BY <1>9, <1>11, <1>12, FS_Injection
<1>14. ASSUME NEW x \in Nat, NEW y \in Nat, y <= 3 PROVE x * y <= 3 * x
    <2>1. y = 0 \/ y = 1 \/ y = 2 \/ y = 3
        BY <1>14
    <2> QED BY <2>1
<1>15. size * Cardinality(M) <= 3 * size
    BY <1>1, <1>10, <1>14
<1>16. size * Cardinality(M) \in Nat
    BY <1>1, <1>10
<1> QED BY <1>1, <1>11, <1>13, <1>15, <1>16

\* The rounds of a pass can be continued.
LEMMA RoundsContinue ==
    ASSUME NEW n \in Nat, NEW b, NEW live,
           NEW after, AreRounds(after, b, live, n)
    PROVE  \E more : /\ AreRounds(more, b, live, n + 1)
                     /\ more[n] = after[n]
                     /\ more[n + 1] = Round(after[n], live)
<1> DEFINE g == [i \in 0 .. n + 1 |->
                    IF i = n + 1 THEN Round(after[n], live) ELSE after[i]]
<1>1. \A i \in 0 .. n :
        after[i] = IF i = 0 THEN b ELSE Round(after[i - 1], live)
    BY DEF AreRounds
<1>2. \A i \in 0 .. n + 1 : g[i] = IF i = 0 THEN b ELSE Round(g[i - 1], live)
    BY <1>1
<1>3. AreRounds(g, b, live, n + 1)
    BY <1>2 DEF AreRounds
<1>4. g[n] = after[n] /\ g[n + 1] = Round(after[n], live)
    OBVIOUS
<1> HIDE DEF g
<1> QED BY <1>3, <1>4

\* With three rounds for every proposition a pass ends where nothing changes.
LEMMA PassSettles ==
    ASSUME NEW b, NEW live, Linked(b, live), NEW cap \in Nat,
           IsFiniteSet(Props), cap >= 3 * Cardinality(Props)
    PROVE  Round(Pass(b, live, cap), live) = Pass(b, live, cap)
<1>1. PICK after : /\ AreRounds(after, b, live, cap)
                   /\ Pass(b, live, cap) = after[cap]
    BY PassIsLastRound
<1>2. PICK more : /\ AreRounds(more, b, live, cap + 1)
                  /\ more[cap] = after[cap]
                  /\ more[cap + 1] = Round(after[cap], live)
    BY <1>1, RoundsContinue
<1>3. Cardinality(Props) \in Nat
    BY FS_CardinalityType
<1>4. cap + 1 \in Nat /\ (cap + 1) - 1 = cap /\ cap + 1 > 3 * Cardinality(Props)
    BY <1>3
<1>5. more[cap + 1] = more[cap]
    BY <1>2, <1>4, RoundsSettle
<1> QED BY <1>1, <1>2, <1>5

\* A pass that starts there changes nothing.
LEMMA SettledPassIsIdle ==
    ASSUME NEW b, NEW live, NEW cap \in Nat, Round(b, live) = b
    PROVE  Pass(b, live, cap) = b
<1> DEFINE Q == {b}
<1>1. b \in Q /\ \A c \in Q : Round(c, live) \in Q
    OBVIOUS
<1>2. Pass(b, live, cap) \in Q
    <2> HIDE DEF Q
    <2> QED BY <1>1, PassInduction
<1> QED BY <1>2
=============================================================================
