------------------------ MODULE BeliefRevisionProofs ------------------------
(***************************************************************************)
(* Theorems about the belief-revision loop: it implements the abstract     *)
(* evidence ledger, its state keeps its type, only a revision moves a      *)
(* belief down the chain, a goal once achieved stays achieved, what is     *)
(* left standing after a withdrawal is founded on surviving evidence, a    *)
(* recomputation agrees with its declarative oracle, and a revised belief  *)
(* is earned by sources that survive.                                      *)
(***************************************************************************)
EXTENDS BeliefRevision, PropagationProofs

-----------------------------------------------------------------------------
(* The loop implements the ledger.                                         *)

\* The ledger's values are the loop's.
LEMMA ValuesOfTheLedger == Ledger!HexValues = HexValues
BY DEF HexValues, True, Probable, Unknown, Doubtful, False, Contradictory,
    Ledger!HexValues, Ledger!True, Ledger!Probable, Ledger!Unknown,
    Ledger!Doubtful, Ledger!False, Ledger!Contradictory

\* What any event does to the ledger is one step of the abstract ledger.
LEMMA EntryIsFresh ==
    ASSUME NEW source \in Sources, NEW cycle \in Cycles, NEW v \in Values
    PROVE  Entry(source, cycle, v) \in Ledger!FreshEvidence
<1>1. v \in HexValues
    BY RevisionAssumption
<1>2. Entry(source, cycle, v) \in Ledger!Evidence
    BY <1>1, ValuesOfTheLedger DEF Entry, Ledger!Evidence
<1> QED BY <1>2 DEF Entry, Ledger!FreshEvidence

LEMMA TombstoneIsRetract ==
    ASSUME NEW entries, NEW which
    PROVE  Tombstone(entries, which) = Ledger!Retract(entries, which)
BY DEF Tombstone, Ledger!Retract

LEMMA EvidenceEventRecords ==
    EvidenceEvent => \E p \in Props : \E e \in Ledger!FreshEvidence :
                        Ledger!Append1(p, e)
<1> SUFFICES ASSUME NEW source \in Sources, NEW cycle \in Cycles,
                    NEW p \in Props, NEW v \in Values,
                    \/ BeliefUpdate(source, cycle, p, v)
                    \/ AgentVote(source, cycle, p, v)
             PROVE  \E e \in Ledger!FreshEvidence : Ledger!Append1(p, e)
    BY DEF EvidenceEvent
<1>1. ledger' = [ledger EXCEPT ![p] = Append(@, Entry(source, cycle, v))]
    BY DEF BeliefUpdate, AgentVote, Record
<1> QED BY <1>1, EntryIsFresh DEF Ledger!Append1

LEMMA RevisionEventRevises ==
    RevisionEvent => Ledger!Next \/ UNCHANGED ledger
<1> SUFFICES ASSUME NEW p \in Props, RevisionEvent,
                    \/ WholeRetraction(p)
                    \/ \E selector \in Selectors :
                          \/ SelectiveRetraction(p, selector)
                          \/ \E source \in Sources, cycle \in Cycles, v \in Values :
                                Correction(source, cycle, p, selector, v)
                    \/ \E successor \in Props : Supersession(p, successor)
             PROVE  Ledger!Next \/ UNCHANGED ledger
    BY DEF RevisionEvent
<1>1. CASE WholeRetraction(p)
    <2>1. Ledger!RetractSome(p, DOMAIN ledger[p])
        BY <1>1, TombstoneIsRetract DEF WholeRetraction, Ledger!RetractSome
    <2> QED BY <2>1 DEF Ledger!Next
<1>2. ASSUME NEW selector \in Selectors, SelectiveRetraction(p, selector)
      PROVE  Ledger!Next
    <2> DEFINE which == MatchedBy(selector, ledger[p])
    <2>1. which \in SUBSET DOMAIN ledger[p]
        BY DEF MatchedBy, Standing
    <2>2. Ledger!RetractSome(p, which)
        BY <1>2, TombstoneIsRetract DEF SelectiveRetraction, Ledger!RetractSome
    <2> QED BY <2>1, <2>2 DEF Ledger!Next
<1>3. ASSUME NEW selector \in Selectors, NEW source \in Sources,
             NEW cycle \in Cycles, NEW v \in Values,
             Correction(source, cycle, p, selector, v)
      PROVE  Ledger!Next
    <2> DEFINE which == MatchedBy(selector, ledger[p])
               e == Entry(source, cycle, v)
    <2>1. which \in SUBSET DOMAIN ledger[p]
        BY DEF MatchedBy, Standing
    <2>2. e \in Ledger!FreshEvidence
        BY EntryIsFresh
    <2>3. Ledger!Replace(p, which, e)
        BY <1>3, TombstoneIsRetract DEF Correction, Ledger!Replace
    <2> HIDE DEF which, e
    <2> QED BY <2>1, <2>2, <2>3 DEF Ledger!Next
<1>4. ASSUME NEW successor \in Props, Supersession(p, successor)
      PROVE  UNCHANGED ledger
    BY <1>4 DEF Supersession
<1> QED BY <1>1, <1>2, <1>3, <1>4

LEMMA StepOfTheLedger == [Next]_vars => [Ledger!Next]_ledger
<1> SUFFICES ASSUME [Next]_vars PROVE Ledger!Next \/ UNCHANGED ledger
    OBVIOUS
<1>1. CASE EvidenceEvent
    BY <1>1, EvidenceEventRecords DEF Ledger!Next
<1>2. CASE RevisionEvent
    BY <1>2, RevisionEventRevises
<1>3. CASE RelationEvent
    BY <1>3 DEF RelationEvent, DeclareRelation, RelationWithdrawal,
        UnmatchedWithdrawal
<1>4. CASE GoalEvent
    BY <1>4 DEF GoalEvent, GoalUpdate
<1>5. CASE UNCHANGED vars
    BY <1>5 DEF vars
<1> QED BY <1>1, <1>2, <1>3, <1>4, <1>5 DEF Next

\* Whatever the events and their order, the evidence is only ever appended to
\* and tombstoned: the loop implements the abstract ledger.
THEOREM LoopImplementsLedger == Spec => LedgerSpec
<1>1. Init => Ledger!Init
    BY DEF Init, Ledger!Init
<1> QED BY <1>1, StepOfTheLedger, PTL DEF Spec, LedgerSpec, Ledger!Spec

-----------------------------------------------------------------------------
(* What the handlers compute is hexavalent.                                *)

LEMMA JoinType ==
    ASSUME NEW v \in HexValues, NEW w \in HexValues
    PROVE  /\ CombineEvidence(v, w) \in HexValues
           /\ Rank(v) <= Rank(CombineEvidence(v, w))
<1>1. Rank(v) \in 0 .. 5 /\ Rank(w) \in 0 .. 5
    BY RankType
<1>2. Contradictory \in HexValues /\ Rank(Contradictory) = 5
    BY DEF HexValues, Rank, True, Probable, Unknown, Doubtful, False,
        Contradictory
<1>3. CASE InConflict({v, w})
    BY <1>1, <1>2, <1>3 DEF CombineEvidence
<1>4. CASE ~InConflict({v, w})
    BY <1>1, <1>4 DEF CombineEvidence, Join
<1> QED BY <1>3, <1>4

\* A nearest value, and so the consensus, is always a value.
LEMMA NearestType ==
    ASSUME NEW sum, NEW weight
    PROVE  NearestValue(sum, weight) \in HexValues
BY Zenon DEF NearestValue, HexValues

LEMMA ConsensusType ==
    ASSUME NEW positions, NEW weight
    PROVE  Consensus(positions, weight) \in HexValues
<1>1. WeightedConsensus(positions, weight) \in HexValues
    BY NearestType, Zenon DEF WeightedConsensus, HexValues
<1>2. EqualConsensus(positions) \in HexValues
    BY NearestType, Zenon DEF EqualConsensus, HexValues
<1> QED BY <1>1, <1>2, Zenon DEF Consensus, HexValues

\* An observation that carries a value.
Valued(o) == "variant" \in DOMAIN o /\ o.variant \in HexValues

\* The versions of one slot collapse to one that carries a value.
LEMMA ResolvedIsValued ==
    ASSUME NEW versions, versions # {}, \A o \in versions : Valued(o)
    PROVE  Valued(ResolveKeyVersions(versions))
<1> DEFINE any == CHOOSE o \in versions : TRUE
           divergent == Cardinality({o.variant : o \in versions}) # 1
           claim == LeastClaim({o.claim : o \in versions})
           weight == Min({o.weight : o \in versions})
           settled == IF divergent THEN Contradictory ELSE any.variant
<1>1. any \in versions
    OBVIOUS
<1>2. ResolveKeyVersions(versions) =
        [any EXCEPT !.claim = claim, !.weight = weight, !.variant = settled]
    BY Zenon DEF ResolveKeyVersions
<1>3. settled \in HexValues /\ "variant" \in DOMAIN any
    BY <1>1 DEF Valued, HexValues
<1> HIDE DEF any, claim, weight, settled
<1> QED BY <1>2, <1>3 DEF Valued

LEMMA SynthesisIsOwned ==
    ASSUME NEW W, NEW o \in DirectContradictions(W) \cup MetaConflicts(W)
    PROVE  o.source = MergeSource
<1>1. CASE o \in DirectContradictions(W)
    <2>1. PICK p \in {q \in W \X W : ClashDirectly(q[1], q[2])} :
            o = Synthesis("direct", p[1].claim, p[1], p[2],
                    (BelnapWeight(p[1].variant, p[2].variant)
                        * Min({p[1].weight, p[2].weight})) \div 10)
        BY <1>1, Zenon DEF DirectContradictions
    <2> QED BY <2>1, Zenon DEF Synthesis
<1>2. CASE o \in MetaConflicts(W)
    <2>1. PICK p \in {q \in W \X W : ClashAcrossAspects(q[1], q[2])} :
            o = Synthesis("meta",
                    [action |-> p[1].claim.action, aspect |-> MetaConflictAspect],
                    p[1], p[2], Min({p[1].weight, p[2].weight}))
        BY <1>2, Zenon DEF MetaConflicts
    <2> QED BY <2>1, Zenon DEF Synthesis
<1> QED BY <1>1, <1>2

\* A merge synthesises under its own name only, so what it reports from others
\* carries the values they observed.
LEMMA MergeIsValued ==
    ASSUME NEW S, \A o \in S : Valued(o), NEW current, NEW k
    PROVE  \A o \in BaseEvidence(Merge(S, current, k)) : o.variant \in HexValues
<1> SUFFICES ASSUME NEW o \in BaseEvidence(Merge(S, current, k))
             PROVE  o.variant \in HexValues
    OBVIOUS
<1> DEFINE W == InWindow(Deduplicated(S), current, k)
<1>1. o.source # MergeSource /\ o \in WithContradictions(W)
    BY DEF BaseEvidence, Merge
<1>2. o \notin DirectContradictions(W) \cup MetaConflicts(W)
    BY <1>1, SynthesisIsOwned
<1>3. o \in Deduplicated(S)
    BY <1>1, <1>2 DEF WithContradictions, InWindow
<1>4. PICK key \in DedupKeys(BaseEvidence(S)) :
        o = ResolveKeyVersions({q \in BaseEvidence(S) : DedupKey(q) = key})
    BY <1>3 DEF Deduplicated
<1> DEFINE versions == {q \in BaseEvidence(S) : DedupKey(q) = key}
<1>5. versions # {} /\ \A q \in versions : Valued(q)
    BY DEF DedupKeys, BaseEvidence
<1> QED BY <1>4, <1>5, ResolvedIsValued DEF Valued

\* The projection of valued evidence is a value.
LEMMA ProjectionType ==
    ASSUME NEW merged,
           \A o \in BaseEvidence(merged) : o.variant \in HexValues
    PROVE  ProjectBelief(merged) \in HexValues
<1> DEFINE primaries == BaseEvidence(merged)
           variants == {o.variant : o \in primaries}
           base == Highest(variants)
<1>1. CASE primaries = {}
    BY <1>1, Zenon DEF ProjectBelief, HexValues
<1>2. CASE primaries # {}
    <2>1. base \in HexValues
        <3>1. variants \in SUBSET HexValues /\ variants # {}
            BY <1>2
        <3> QED BY <3>1, HighestIsTop
    <2>2. /\ Corroborated(primaries, Positive, True, Probable) \in HexValues
          /\ Corroborated(primaries, Negative, False, Doubtful) \in HexValues
        BY Zenon DEF Corroborated, HexValues
    <2>3. Contradictory \in HexValues /\ Unknown \in HexValues
        BY DEF HexValues
    <2> QED BY <2>1, <2>2, <2>3, Zenon DEF ProjectBelief
<1> QED BY <1>1, <1>2

\* Whatever is tombstoned, the recomputed belief is a value.
LEMMA RecomputedType ==
    ASSUME NEW entries, \A i \in DOMAIN entries : entries[i].value \in HexValues
    PROVE  RecomputeFromLedger(entries) \in HexValues
<1> DEFINE observations == {EvidenceObs(entries, i) : i \in DOMAIN entries}
           tombstoned == {DedupKey(EvidenceObs(entries, i)) :
                                i \in DOMAIN entries \ Standing(entries)}
           S == Surviving(observations, tombstoned)
<1>1. \A o \in S : Valued(o)
    BY DEF Surviving, EvidenceObs, Valued
<1>2. RecomputeFromLedger(entries) = ProjectBelief(Merge(S, 0, 0))
    BY Zenon DEF RecomputeFromLedger, MergeWithTombstones
<1> QED BY <1>1, <1>2, MergeIsValued, ProjectionType

-----------------------------------------------------------------------------
(* What the abstract ledger promises, and so the loop's.                   *)

\* Retracting entries keeps their number and their places, and each entry is
\* the same record as before (recompute and tombstone loops of hari-core).
LEMMA RetractKeeps ==
    ASSUME NEW entries \in Seq(Ledger!Evidence), NEW which
    PROVE  /\ Ledger!Retract(entries, which) \in Seq(Ledger!Evidence)
           /\ DOMAIN Ledger!Retract(entries, which) = DOMAIN entries
           /\ Len(Ledger!Retract(entries, which)) = Len(entries)
           /\ \A i \in DOMAIN entries :
                Ledger!SameRecord(entries[i], Ledger!Retract(entries, which)[i])
<1> DEFINE kept == Ledger!Retract(entries, which)
<1>1. \A i \in DOMAIN entries :
        /\ entries[i] \in Ledger!Evidence
        /\ kept[i] = [entries[i] EXCEPT
                        !.retracted = entries[i].retracted \/ i \in which]
  BY DEF Ledger!Retract
<1>2. \A i \in DOMAIN entries : kept[i] \in Ledger!Evidence
  BY <1>1 DEF Ledger!Evidence
<1>3. \A i \in DOMAIN entries : Ledger!SameRecord(entries[i], kept[i])
  BY <1>1 DEF Ledger!Evidence, Ledger!SameRecord
<1>4. kept \in [1 .. Len(entries) -> Ledger!Evidence]
  BY <1>2 DEF Ledger!Retract
<1>5. kept \in Seq(Ledger!Evidence) /\ Len(kept) = Len(entries)
  BY <1>4
<1> QED
  BY <1>3, <1>5 DEF Ledger!Retract

\* Appending an entry leaves those before it alone.
LEMMA AppendKeeps ==
    ASSUME NEW entries \in Seq(Ledger!Evidence), NEW e \in Ledger!Evidence
    PROVE  /\ Append(entries, e) \in Seq(Ledger!Evidence)
           /\ \A i \in DOMAIN entries :
                /\ i \in DOMAIN Append(entries, e)
                /\ Append(entries, e)[i] = entries[i]
OBVIOUS

\* A record is the same as itself.
LEMMA SameRecordReflexive ==
    ASSUME NEW e PROVE Ledger!SameRecord(e, e)
BY DEF Ledger!SameRecord

\* What every step does to the ledger: its type is kept, and each entry is
\* still the same record in the same place.
LEMMA LedgerStepKeeps ==
    ASSUME Ledger!LedgerTypeOK, Ledger!Next
    PROVE  /\ Ledger!LedgerTypeOK'
           /\ \A p \in Props : \A i \in DOMAIN ledger[p] :
                /\ i \in DOMAIN ledger'[p]
                /\ Ledger!SameRecord(ledger[p][i], ledger'[p][i])
<1> DEFINE KeepsAll(q, new) ==
        /\ new \in Seq(Ledger!Evidence)
        /\ \A i \in DOMAIN ledger[q] :
              i \in DOMAIN new /\ Ledger!SameRecord(ledger[q][i], new[i])
<1>1. PICK q \in Props :
        \/ \E e \in Ledger!FreshEvidence : Ledger!Append1(q, e)
        \/ \E which \in SUBSET DOMAIN ledger[q] :
              \/ Ledger!RetractSome(q, which)
              \/ \E e \in Ledger!FreshEvidence : Ledger!Replace(q, which, e)
  BY DEF Ledger!Next
<1>2. ledger[q] \in Seq(Ledger!Evidence)
  BY DEF Ledger!LedgerTypeOK
<1>3. \E new : ledger' = [ledger EXCEPT ![q] = new] /\ KeepsAll(q, new)
  <2>1. CASE \E e \in Ledger!FreshEvidence : Ledger!Append1(q, e)
    <3>1. PICK e \in Ledger!FreshEvidence : Ledger!Append1(q, e)
      BY <2>1
    <3>2. KeepsAll(q, Append(ledger[q], e))
      BY <1>2, AppendKeeps, SameRecordReflexive DEF Ledger!FreshEvidence
    <3> QED
      BY <3>1, <3>2 DEF Ledger!Append1
  <2>2. ASSUME NEW which \in SUBSET DOMAIN ledger[q], Ledger!RetractSome(q, which)
        PROVE  \E new : ledger' = [ledger EXCEPT ![q] = new] /\ KeepsAll(q, new)
    <3>1. KeepsAll(q, Ledger!Retract(ledger[q], which))
      BY <1>2, RetractKeeps
    <3> QED
      BY <2>2, <3>1 DEF Ledger!RetractSome
  <2>3. ASSUME NEW which \in SUBSET DOMAIN ledger[q],
               NEW e \in Ledger!FreshEvidence, Ledger!Replace(q, which, e)
        PROVE  \E new : ledger' = [ledger EXCEPT ![q] = new] /\ KeepsAll(q, new)
    <3> DEFINE retracted == Ledger!Retract(ledger[q], which)
    <3>1. /\ retracted \in Seq(Ledger!Evidence)
          /\ DOMAIN retracted = DOMAIN ledger[q]
          /\ \A i \in DOMAIN ledger[q] : Ledger!SameRecord(ledger[q][i], retracted[i])
      BY <1>2, RetractKeeps
    <3>2. /\ Append(retracted, e) \in Seq(Ledger!Evidence)
          /\ \A i \in DOMAIN retracted :
                /\ i \in DOMAIN Append(retracted, e)
                /\ Append(retracted, e)[i] = retracted[i]
      <4> HIDE DEF retracted
      <4> QED
        BY <3>1, AppendKeeps DEF Ledger!FreshEvidence
    <3>3. KeepsAll(q, Append(retracted, e))
      <4> HIDE DEF retracted
      <4> QED
        BY <3>1, <3>2
    <3> QED
      BY <2>3, <3>3 DEF Ledger!Replace
  <2> QED
    BY <1>1, <2>1, <2>2, <2>3
<1>4. PICK new : ledger' = [ledger EXCEPT ![q] = new] /\ KeepsAll(q, new)
  BY <1>3
<1>5. Ledger!LedgerTypeOK'
  BY <1>4 DEF Ledger!LedgerTypeOK
<1>6. ASSUME NEW p \in Props, NEW i \in DOMAIN ledger[p]
      PROVE  i \in DOMAIN ledger'[p] /\ Ledger!SameRecord(ledger[p][i], ledger'[p][i])
  <2>1. CASE p = q
    BY <1>4, <2>1 DEF Ledger!LedgerTypeOK
  <2>2. CASE p # q
    <3>1. ledger'[p] = ledger[p]
      BY <1>4, <2>2 DEF Ledger!LedgerTypeOK
    <3> QED
      BY <3>1, SameRecordReflexive
  <2> QED
    BY <2>1, <2>2
<1> QED
  BY <1>5, <1>6

\* The ledger only ever holds evidence.
THEOREM LedgerTypeCorrect == Ledger!Spec => []Ledger!LedgerTypeOK
<1>1. Ledger!Init => Ledger!LedgerTypeOK
  BY DEF Ledger!Init, Ledger!LedgerTypeOK
<1>2. Ledger!LedgerTypeOK /\ [Ledger!Next]_ledger => Ledger!LedgerTypeOK'
  <2>1. Ledger!LedgerTypeOK /\ Ledger!Next => Ledger!LedgerTypeOK'
    BY LedgerStepKeeps
  <2>2. Ledger!LedgerTypeOK /\ UNCHANGED ledger => Ledger!LedgerTypeOK'
    BY DEF Ledger!LedgerTypeOK
  <2> QED
    BY <2>1, <2>2
<1> QED
  BY <1>1, <1>2, PTL DEF Ledger!Spec

\* Whatever implements this specification, as the belief-revision loop does,
\* never loses, moves, alters or reinstates evidence once recorded.
THEOREM NoHistoryIsLost == Ledger!Spec => Ledger!HistorySurvives
<1>1. Ledger!LedgerTypeOK /\ [Ledger!Next]_ledger =>
        [\A p \in Props : \A i \in DOMAIN ledger[p] :
            /\ i \in DOMAIN ledger'[p]
            /\ Ledger!SameRecord(ledger[p][i], ledger'[p][i])]_ledger
  BY LedgerStepKeeps
<1> QED
  BY <1>1, LedgerTypeCorrect, PTL DEF Ledger!Spec, Ledger!HistorySurvives

LEMMA LedgerTypeKept ==
    Ledger!LedgerTypeOK /\ [Next]_vars => Ledger!LedgerTypeOK'
<1> SUFFICES ASSUME Ledger!LedgerTypeOK, [Next]_vars
             PROVE  Ledger!LedgerTypeOK'
    OBVIOUS
<1>1. CASE Ledger!Next
    BY <1>1, LedgerStepKeeps
<1>2. CASE UNCHANGED ledger
    BY <1>2 DEF Ledger!LedgerTypeOK
<1> QED BY <1>1, <1>2, StepOfTheLedger

\* An entry keeps its place, source, cycle and value through every retraction
\* and correction, and is never reinstated.
THEOREM NoEvidenceIsLost == Spec => Ledger!HistorySurvives
BY LoopImplementsLedger, NoHistoryIsLost DEF LedgerSpec

-----------------------------------------------------------------------------
(* Types.                                                                  *)

\* Beliefs and edges as a handler passes them on: no live edge dangles.
Anchored(b, edges) ==
    /\ b \in [Props -> HexValues \cup {Absent}]
    /\ edges \in [Edges -> Nat]
    /\ \A e \in Edges : edges[e] > 0 => b[e.from] # Absent /\ b[e.to] # Absent

LiveIn(edges) == {e \in Edges : edges[e] > 0}

LEMMA AnchoredIsLinked ==
    ASSUME NEW b, NEW edges, Anchored(b, edges)
    PROVE  Linked(b, LiveIn(edges)) /\ Settle(b, edges) = Pass(b, LiveIn(edges), MaxRounds)
BY RevisionAssumption DEF Anchored, Linked, LiveIn, Settle

\* What b is to the beliefs c that a handler leaves: the same nodes, and no
\* value lowered.
Raised(b, c) ==
    /\ c \in [Props -> HexValues \cup {Absent}]
    /\ \A p \in Props : c[p] = Absent <=> b[p] = Absent
    /\ \A p \in Props : b[p] # Absent => Rank(b[p]) <= Rank(c[p])

LEMMA SettleRaises ==
    ASSUME NEW b, NEW edges, Anchored(b, edges)
    PROVE  Raised(b, Settle(b, edges))
<1>1. MaxRounds \in Nat
    BY RevisionAssumption
<1> QED BY <1>1, AnchoredIsLinked, PassKeeps DEF Raised

\* Between events the beliefs are anchored.
LEMMA TypeGivesAnchored == TypeOK => Anchored(belief, live)
<1> SUFFICES ASSUME TypeOK PROVE Anchored(belief, live)
    OBVIOUS
<1>1. live \in [Edges -> 0 .. MaxParallel] /\ withdrawn \in [Edges -> 0 .. MaxParallel]
    BY DEF TypeOK
<1>2. ASSUME NEW e \in Edges, live[e] > 0
      PROVE  belief[e.from] # Absent /\ belief[e.to] # Absent
    <2>1. live[e] + withdrawn[e] > 0
        BY <1>1, <1>2
    <2>2. {e.from, e.to} \subseteq Present
        BY <2>1 DEF TypeOK
    <2> QED BY <2>2 DEF Present
<1> QED BY <1>1, <1>2 DEF Anchored, TypeOK

\* To perceive never lowers a belief nor forgets a node.
LEMMA PerceivedRaises ==
    ASSUME TypeOK, NEW p \in Props, NEW v \in HexValues
    PROVE  /\ Anchored(Perceived(p, v), live)
           /\ Perceived(p, v)[p] # Absent
           /\ \A q \in Present :
                /\ Perceived(p, v)[q] # Absent
                /\ Rank(belief[q]) <= Rank(Perceived(p, v)[q])
<1> DEFINE seen == Perceived(p, v)
           new == IF belief[p] = Absent THEN v ELSE CombineEvidence(belief[p], v)
<1>1. belief \in [Props -> HexValues \cup {Absent}]
    BY DEF TypeOK
<1>2. new \in HexValues /\ (belief[p] # Absent => Rank(belief[p]) <= Rank(new))
    BY <1>1, JoinType
<1>3. seen = [belief EXCEPT ![p] = new]
    BY DEF Perceived
<1> HIDE DEF seen, new
<1>4. seen \in [Props -> HexValues \cup {Absent}] /\ seen[p] # Absent
    BY <1>1, <1>2, <1>3, AbsentIsNoValue
<1>5. ASSUME NEW q \in Present
      PROVE  seen[q] # Absent /\ Rank(belief[q]) <= Rank(seen[q])
    <2>1. q \in Props /\ belief[q] \in HexValues
        BY <1>1 DEF Present
    <2>2. CASE q = p
        BY <1>1, <1>2, <1>3, <1>4, <2>1, <2>2, AbsentIsNoValue
    <2>3. CASE q # p
        <3>1. seen[q] = belief[q]
            BY <1>1, <1>3, <2>1, <2>3
        <3> QED BY <2>1, <3>1, RankType, AbsentIsNoValue
    <2> QED BY <2>2, <2>3
<1>6. Anchored(seen, live)
    <2>1. Anchored(belief, live)
        BY TypeGivesAnchored
    <2>2. \A e \in Edges : e.from \in Props /\ e.to \in Props
        BY RevisionAssumption DEF EdgeTriples
    <2> QED BY <1>4, <1>5, <2>1, <2>2 DEF Anchored, Present
<1> QED BY <1>4, <1>5, <1>6 DEF seen

\* One perceived value, and the cycle after it, as far as types and the order
\* of values go.
LEMMA CycleKeeps ==
    ASSUME TypeOK, NEW event, NEW p \in Props, NEW v \in HexValues,
           PerceiveAndCycle(event, p, v)
    PROVE  /\ belief' \in [Props -> HexValues \cup {Absent}]
           /\ belief'[p] # Absent
           /\ \A q \in Present :
                /\ belief'[q] # Absent
                /\ Rank(belief[q]) <= Rank(belief'[q])
           /\ goals' \in [Goals -> {NoGoal} \cup [priority : Nat, status : HexValues]]
           /\ outcome'.revisions = {}
<1> DEFINE seen == Perceived(p, v)
<1>1. /\ Anchored(seen, live)
      /\ seen[p] # Absent
      /\ \A q \in Present : seen[q] # Absent /\ Rank(belief[q]) <= Rank(seen[q])
    BY PerceivedRaises
<1>2. /\ goals' = RefreshedGoals(seen)
      /\ belief' = Settle(seen, live)
      /\ outcome'.revisions = {}
    BY DEF PerceiveAndCycle, Outcome
<1>3. Raised(seen, belief')
    BY <1>1, <1>2, SettleRaises
<1>4. ASSUME NEW q \in Present
      PROVE  belief'[q] # Absent /\ Rank(belief[q]) <= Rank(belief'[q])
    <2>1. q \in Props /\ belief[q] \in HexValues
        BY DEF Present, TypeOK
    <2>2. seen[q] # Absent /\ Rank(belief[q]) <= Rank(seen[q])
        BY <1>1
    <2>3. /\ belief'[q] # Absent
          /\ Rank(seen[q]) <= Rank(belief'[q])
          /\ belief'[q] \in HexValues /\ seen[q] \in HexValues
        BY <1>1, <1>3, <2>1, <2>2 DEF Raised, Anchored
    <2> HIDE DEF seen
    <2> QED BY <2>1, <2>2, <2>3, RankType
<1>5. goals' \in [Goals -> {NoGoal} \cup [priority : Nat, status : HexValues]]
    <2>1. goals \in [Goals -> {NoGoal} \cup [priority : Nat, status : HexValues]]
        BY DEF TypeOK
    <2>2. Positive \subseteq HexValues
        BY DEF Positive, HexValues
    <2> HIDE DEF seen
    <2> QED BY <1>2, <2>1, <2>2 DEF RefreshedGoals
<1>6. belief' \in [Props -> HexValues \cup {Absent}] /\ belief'[p] # Absent
    BY <1>1, <1>3 DEF Raised
<1> QED BY <1>2, <1>4, <1>5, <1>6

\* Whatever is recorded, what is perceived is a value: the vote or, under
\* consensus, what the swarm makes of it.
LEMMA EvidenceIsPerceived ==
    ASSUME NEW source, NEW cycle, NEW p, NEW v \in Values,
           BeliefUpdate(source, cycle, p, v) \/ AgentVote(source, cycle, p, v)
    PROVE  \E event \in {"belief_update", "agent_vote"}, w \in HexValues :
                PerceiveAndCycle(event, p, w)
<1> DEFINE w == IF UseSwarmConsensus THEN SwarmValue(p, votes', agents') ELSE v
<1>1. v \in HexValues
    BY RevisionAssumption
<1>2. SwarmValue(p, votes', agents') \in HexValues
    BY ConsensusType, Zenon DEF SwarmValue
<1>3. w \in HexValues
    BY <1>1, <1>2
<1>4. CASE BeliefUpdate(source, cycle, p, v)
    <2>1. PerceiveAndCycle("belief_update", p, v)
        BY <1>4 DEF BeliefUpdate
    <2> QED BY <1>1, <2>1
<1>5. CASE AgentVote(source, cycle, p, v)
    <2>1. PerceiveAndCycle("agent_vote", p, w)
        BY <1>5, Zenon DEF AgentVote
    <2> HIDE DEF w
    <2> QED BY <1>3, <2>1
<1> QED BY <1>4, <1>5

LEMMA EvidenceKeepsType ==
    ASSUME TypeOK, Ledger!LedgerTypeOK', EvidenceEvent
    PROVE  TypeOK'
<1>1. PICK source \in Sources, cycle \in Cycles, p \in Props, v \in Values :
        \/ BeliefUpdate(source, cycle, p, v)
        \/ source \in Voters /\ AgentVote(source, cycle, p, v)
    BY DEF EvidenceEvent
<1>2. ledger' = [ledger EXCEPT ![p] = Append(@, Entry(source, cycle, v))]
    BY <1>1 DEF BeliefUpdate, AgentVote, Record
<1>3. UNCHANGED <<live, withdrawn, superseded>>
    BY <1>1 DEF BeliefUpdate, AgentVote
<1>4. v \in HexValues
    BY RevisionAssumption
<1>5. \E event \in {"belief_update", "agent_vote"}, w \in HexValues :
        PerceiveAndCycle(event, p, w)
    BY <1>1, EvidenceIsPerceived
<1>6. /\ belief' \in [Props -> HexValues \cup {Absent}]
      /\ belief'[p] # Absent
      /\ \A q \in Present : belief'[q] # Absent
      /\ goals' \in [Goals -> {NoGoal} \cup [priority : Nat, status : HexValues]]
      /\ outcome'.revisions = {}
    BY <1>5, CycleKeeps
<1>7. /\ votes' \in [Voters -> [Props -> HexValues \cup {Absent}]]
      /\ agents' \subseteq Voters
      /\ \A a \in Voters \ agents', q \in Props : votes'[a][q] = Absent
    <2>1. CASE BeliefUpdate(source, cycle, p, v)
        BY <2>1 DEF BeliefUpdate, TypeOK
    <2>2. CASE source \in Voters /\ AgentVote(source, cycle, p, v)
        <3>1. /\ votes' = [votes EXCEPT ![source][p] = v]
              /\ agents' = agents \cup {source}
            BY <2>2 DEF AgentVote
        <3>2. /\ votes \in [Voters -> [Props -> HexValues \cup {Absent}]]
              /\ agents \subseteq Voters
              /\ \A a \in Voters \ agents, q \in Props : votes[a][q] = Absent
            BY DEF TypeOK
        <3>3. votes' \in [Voters -> [Props -> HexValues \cup {Absent}]]
            BY <1>4, <2>2, <3>1, <3>2
        <3>4. \A a \in Voters \ {source} : votes'[a] = votes[a]
            BY <3>1, <3>2
        <3> QED BY <2>2, <3>1, <3>2, <3>3, <3>4
    <2> QED BY <1>1, <2>1, <2>2
<1>8. \A e \in Edges : live'[e] + withdrawn'[e] > 0 => {e.from, e.to} \subseteq Present'
    BY <1>3, <1>6 DEF TypeOK, Present
<1>9. \A q \in Props : ledger'[q] # <<>> => q \in Present'
    <2> SUFFICES ASSUME NEW q \in Props, ledger'[q] # <<>> PROVE belief'[q] # Absent
        BY DEF Present
    <2>1. CASE q = p
        BY <1>6, <2>1
    <2>2. CASE q # p
        <3>1. ledger'[q] = ledger[q]
            BY <1>2, <2>2 DEF TypeOK, Ledger!LedgerTypeOK
        <3> QED BY <1>6, <3>1 DEF TypeOK
    <2> QED BY <2>1, <2>2
<1> QED BY <1>3, <1>6, <1>7, <1>8, <1>9 DEF TypeOK

\* A handler that replaces one value and settles, as the revisions do.
LEMMA ReplacedAnchored ==
    ASSUME TypeOK, NEW p \in Props, NEW v \in HexValues
    PROVE  /\ Anchored([belief EXCEPT ![p] = v], live)
           /\ [belief EXCEPT ![p] = v][p] = v
           /\ \A q \in Props \ {p} : [belief EXCEPT ![p] = v][q] = belief[q]
<1> DEFINE b == [belief EXCEPT ![p] = v]
<1>1. /\ b \in [Props -> HexValues \cup {Absent}]
      /\ b[p] = v /\ v # Absent
      /\ \A q \in Props \ {p} : b[q] = belief[q]
    BY AbsentIsNoValue DEF TypeOK
<1>2. Anchored(belief, live)
    BY TypeGivesAnchored
<1>3. \A e \in Edges : e.from \in Props /\ e.to \in Props
    BY RevisionAssumption DEF EdgeTriples
<1> HIDE DEF b
<1>4. Anchored(b, live)
    BY <1>1, <1>2, <1>3 DEF Anchored
<1> QED BY <1>1, <1>4 DEF b

LEMMA ReplaceKeeps ==
    ASSUME TypeOK, NEW p \in Props, NEW v \in HexValues,
           belief' = Settle([belief EXCEPT ![p] = v], live)
    PROVE  /\ belief' \in [Props -> HexValues \cup {Absent}]
           /\ belief'[p] # Absent
           /\ \A q \in Present : belief'[q] # Absent
           /\ \A q \in Present \ {p} : Rank(belief[q]) <= Rank(belief'[q])
<1> DEFINE b == [belief EXCEPT ![p] = v]
<1>1. /\ Anchored(b, live)
      /\ b[p] = v /\ v # Absent
      /\ \A q \in Props \ {p} : b[q] = belief[q]
    BY ReplacedAnchored, AbsentIsNoValue
<1> HIDE DEF b
<1>2. Raised(b, belief')
    BY <1>1, SettleRaises DEF b
<1> QED BY <1>1, <1>2 DEF Raised, Present

\* What is recomputed from a ledger that keeps its type is a value.
LEMMA LedgerValues ==
    ASSUME TypeOK, Ledger!LedgerTypeOK', NEW p \in Props, NEW entries,
           ledger' = [ledger EXCEPT ![p] = entries]
    PROVE  RecomputeFromLedger(entries) \in HexValues
<1>1. entries \in Seq(Ledger!Evidence)
    BY DEF TypeOK, Ledger!LedgerTypeOK
<1>2. \A i \in DOMAIN entries : entries[i] \in Ledger!Evidence
    BY <1>1
<1>3. \A i \in DOMAIN entries : entries[i].value \in HexValues
    BY <1>2, ValuesOfTheLedger DEF Ledger!Evidence
<1> QED BY <1>3, RecomputedType

LEMMA RevisionKeepsType ==
    ASSUME TypeOK, Ledger!LedgerTypeOK', RevisionEvent
    PROVE  TypeOK'
<1> DEFINE Revised(p) ==
        \E v \in HexValues :
            /\ belief' = Settle([belief EXCEPT ![p] = v], live)
            /\ \E entries : ledger' = [ledger EXCEPT ![p] = entries]
            /\ UNCHANGED <<live, withdrawn, superseded, goals, votes, agents>>
            /\ \/ outcome'.revisions = {}
               \/ \E cause \in {"retraction", "correction"} :
                    outcome'.revisions = DeltaIfKnown(p, v, cause, {})
<1>1. /\ belief \in [Props -> HexValues \cup {Absent}]
      /\ ledger \in [Props -> Seq(Ledger!Evidence)]
      /\ ledger' \in [Props -> Seq(Ledger!Evidence)]
    BY DEF TypeOK, Ledger!LedgerTypeOK
<1>2. ASSUME NEW p \in Props, NEW entries, ledger' = [ledger EXCEPT ![p] = entries]
      PROVE  RecomputeFromLedger(entries) \in HexValues
    BY <1>2, LedgerValues
<1>3. ASSUME NEW p \in Props, NEW selector, SelectiveRetraction(p, selector)
      PROVE  Revised(p)
    <2> DEFINE entries == Tombstone(ledger[p], MatchedBy(selector, ledger[p]))
               v == RecomputeFromLedger(entries)
    <2>1. /\ ledger' = [ledger EXCEPT ![p] = entries]
          /\ belief' = Settle([belief EXCEPT ![p] = v], live)
          /\ outcome'.revisions = DeltaIfKnown(p, v, "retraction", {})
          /\ UNCHANGED <<live, withdrawn, superseded, goals, votes, agents>>
        BY <1>3 DEF SelectiveRetraction, Outcome
    <2> HIDE DEF entries
    <2>2. v \in HexValues
        BY <1>2, <2>1
    <2> HIDE DEF v
    <2> QED BY <2>1, <2>2
<1>4. ASSUME NEW p \in Props, WholeRetraction(p)
      PROVE  Revised(p)
    <2> DEFINE entries == Tombstone(ledger[p], DOMAIN ledger[p])
               v == RecomputeFromLedger(entries)
    <2>1. /\ ledger' = [ledger EXCEPT ![p] = entries]
          /\ belief' = Settle([belief EXCEPT ![p] = v], live)
          /\ outcome'.revisions = {}
          /\ UNCHANGED <<live, withdrawn, superseded, goals, votes, agents>>
        BY <1>4 DEF WholeRetraction, Outcome
    <2> HIDE DEF entries
    <2>2. v \in HexValues
        BY <1>2, <2>1
    <2> HIDE DEF v
    <2> QED BY <2>1, <2>2
<1>5. ASSUME NEW p \in Props, NEW source, NEW cycle, NEW selector, NEW w,
             Correction(source, cycle, p, selector, w)
      PROVE  Revised(p)
    <2> DEFINE entries == Append(Tombstone(ledger[p], MatchedBy(selector, ledger[p])),
                                 Entry(source, cycle, w))
               v == RecomputeFromLedger(entries)
    <2>1. /\ ledger' = [ledger EXCEPT ![p] = entries]
          /\ belief' = Settle([belief EXCEPT ![p] = v], live)
          /\ outcome'.revisions = DeltaIfKnown(p, v, "correction", {})
          /\ UNCHANGED <<live, withdrawn, superseded, goals, votes, agents>>
        BY <1>5 DEF Correction, Outcome
    <2> HIDE DEF entries
    <2>2. v \in HexValues
        BY <1>2, <2>1
    <2> HIDE DEF v
    <2> QED BY <2>1, <2>2
<1>6. ASSUME NEW p \in Props, Revised(p) PROVE TypeOK'
    <2>1. PICK v \in HexValues :
            /\ belief' = Settle([belief EXCEPT ![p] = v], live)
            /\ \E entries : ledger' = [ledger EXCEPT ![p] = entries]
            /\ UNCHANGED <<live, withdrawn, superseded, goals, votes, agents>>
            /\ \/ outcome'.revisions = {}
               \/ \E cause \in {"retraction", "correction"} :
                    outcome'.revisions = DeltaIfKnown(p, v, cause, {})
        BY <1>6
    <2>2. /\ belief' \in [Props -> HexValues \cup {Absent}]
          /\ belief'[p] # Absent
          /\ \A q \in Present : belief'[q] # Absent
        BY <2>1, ReplaceKeeps
    <2>3. outcome'.revisions \subseteq DeltaType
        BY <1>1, <2>1 DEF DeltaIfKnown, Delta, DeltaType, Optional
    <2>4. \A q \in Props : ledger'[q] # <<>> => q \in Present'
        BY <1>1, <2>1, <2>2 DEF TypeOK, Present
    <2>5. \A e \in Edges : live'[e] + withdrawn'[e] > 0 => {e.from, e.to} \subseteq Present'
        BY <2>1, <2>2 DEF TypeOK, Present
    <2> QED BY <2>1, <2>2, <2>3, <2>4, <2>5 DEF TypeOK
<1>7. ASSUME NEW p \in Props, NEW successor \in Props, Supersession(p, successor)
      PROVE  TypeOK'
    <2>1. Raised(belief, belief')
        BY <1>7, TypeGivesAnchored, SettleRaises DEF Supersession
    <2>2. /\ superseded' = [superseded EXCEPT ![p] = {successor}]
          /\ outcome'.revisions = DeltaIfKnown(p, belief[p], "supersession", {successor})
          /\ UNCHANGED <<live, withdrawn, ledger, goals, votes, agents>>
        BY <1>7 DEF Supersession, Outcome
    <2>3. outcome'.revisions \subseteq DeltaType
        BY <1>1, <2>2 DEF DeltaIfKnown, Delta, DeltaType, Optional
    <2>4. superseded' \in [Props -> Optional(Props)]
        BY <2>2 DEF TypeOK, Optional
    <2> QED BY <2>1, <2>2, <2>3, <2>4 DEF TypeOK, Raised, Present
<1> QED BY <1>3, <1>4, <1>5, <1>6, <1>7 DEF RevisionEvent

\* A withdrawal lowers only what has no surviving evidence, before it settles.
LEMMA WithoutDerivedAnchored ==
    ASSUME TypeOK, NEW edges \in [Edges -> Nat],
           \A e \in Edges : edges[e] > 0 => {e.from, e.to} \subseteq Present
    PROVE  /\ Anchored(WithoutDerived, edges)
           /\ \A q \in Props : WithoutDerived[q] = Absent <=> belief[q] = Absent
           /\ \A q \in Props : HasEvidence(q) => WithoutDerived[q] = belief[q]
<1>1. belief \in [Props -> HexValues \cup {Absent}]
    BY DEF TypeOK
<1>2. Unknown \in HexValues /\ Unknown # Absent
    BY AbsentIsNoValue DEF HexValues
<1>3. \A q \in Props :
        /\ WithoutDerived[q] \in HexValues \cup {Absent}
        /\ WithoutDerived[q] = Absent <=> belief[q] = Absent
        /\ HasEvidence(q) => WithoutDerived[q] = belief[q]
    BY <1>1, <1>2 DEF WithoutDerived, Present
<1>4. WithoutDerived \in [Props -> HexValues \cup {Absent}]
    BY <1>3 DEF WithoutDerived
<1> QED BY <1>3, <1>4 DEF Anchored, Present

\* What is left of a withdrawal's settling: the nodes there were.
LEMMA WithdrawalSettles ==
    ASSUME TypeOK, NEW e \in Edges, RelationWithdrawal(e)
    PROVE  /\ live' \in [Edges -> 0 .. MaxParallel]
           /\ withdrawn' \in [Edges -> 0 .. MaxParallel]
           /\ \A f \in Edges : live'[f] + withdrawn'[f] = live[f] + withdrawn[f]
           /\ Anchored(WithoutDerived, live')
           /\ Raised(WithoutDerived, belief')
<1>1. /\ live \in [Edges -> 0 .. MaxParallel]
      /\ withdrawn \in [Edges -> 0 .. MaxParallel]
      /\ \A f \in Edges :
            /\ live[f] + withdrawn[f] <= MaxParallel
            /\ live[f] + withdrawn[f] > 0 => {f.from, f.to} \subseteq Present
    BY DEF TypeOK
<1>2. /\ live[e] > 0
      /\ live' = [live EXCEPT ![e] = @ - 1]
      /\ withdrawn' = [withdrawn EXCEPT ![e] = @ + 1]
      /\ belief' = Settle(WithoutDerived, live')
    BY DEF RelationWithdrawal
<1>3. MaxParallel \in Nat
    BY RevisionAssumption
<1>4. /\ live' \in [Edges -> 0 .. MaxParallel]
      /\ withdrawn' \in [Edges -> 0 .. MaxParallel]
      /\ \A f \in Edges : live'[f] + withdrawn'[f] = live[f] + withdrawn[f]
    <2>1. /\ live[e] - 1 \in 0 .. MaxParallel
          /\ withdrawn[e] + 1 \in 0 .. MaxParallel
          /\ (live[e] - 1) + (withdrawn[e] + 1) = live[e] + withdrawn[e]
        BY <1>1, <1>2, <1>3
    <2> QED BY <1>1, <1>2, <2>1
<1>5. Anchored(WithoutDerived, live')
    <2>1. live' \in [Edges -> Nat]
        BY <1>3, <1>4
    <2>2. \A f \in Edges : live'[f] > 0 => {f.from, f.to} \subseteq Present
        <3> SUFFICES ASSUME NEW f \in Edges, live'[f] > 0
                     PROVE  {f.from, f.to} \subseteq Present
            OBVIOUS
        <3>1. live[f] + withdrawn[f] > 0
            BY <1>1, <1>3, <1>4
        <3> QED BY <1>1, <3>1
    <2> QED BY <2>1, <2>2, WithoutDerivedAnchored
<1> QED BY <1>2, <1>4, <1>5, SettleRaises

\* A declaration gives its endpoints nodes, and lowers nothing.
LEMMA DeclarationSettles ==
    ASSUME TypeOK, NEW e \in Edges, DeclareRelation(e)
    PROVE  /\ live' \in [Edges -> 0 .. MaxParallel]
           /\ \A f \in Edges : live'[f] + withdrawn'[f] <= MaxParallel
           /\ belief' \in [Props -> HexValues \cup {Absent}]
           /\ \A f \in Edges :
                live'[f] + withdrawn'[f] > 0 => belief'[f.from] # Absent /\ belief'[f.to] # Absent
           /\ \A q \in Present :
                belief'[q] # Absent /\ Rank(belief[q]) <= Rank(belief'[q])
           /\ \E b : /\ Anchored(b, live') /\ belief' = Settle(b, live')
                     /\ \A q \in Props : b[q] \in {belief[q], Unknown}
<1> DEFINE b == [p \in Props |->
                    IF p \in {e.from, e.to} \ Present THEN Unknown ELSE belief[p]]
<1>1. /\ live \in [Edges -> 0 .. MaxParallel]
      /\ withdrawn \in [Edges -> 0 .. MaxParallel]
      /\ \A f \in Edges :
            /\ live[f] + withdrawn[f] <= MaxParallel
            /\ live[f] + withdrawn[f] > 0 => {f.from, f.to} \subseteq Present
      /\ belief \in [Props -> HexValues \cup {Absent}]
    BY DEF TypeOK
<1>2. /\ live[e] + withdrawn[e] < MaxParallel
      /\ live' = [live EXCEPT ![e] = @ + 1]
      /\ withdrawn' = withdrawn
      /\ belief' = Settle(b, live')
    BY DEF DeclareRelation
<1>3. MaxParallel \in Nat
    BY RevisionAssumption
<1>4. /\ live' \in [Edges -> 0 .. MaxParallel]
      /\ \A f \in Edges : live'[f] + withdrawn'[f] <= MaxParallel
      /\ \A f \in Edges \ {e} : live'[f] = live[f]
    <2>1. live[e] + 1 \in 0 .. MaxParallel /\ live[e] + 1 + withdrawn[e] <= MaxParallel
        BY <1>1, <1>2, <1>3
    <2> HIDE DEF b
    <2> QED BY <1>1, <1>2, <2>1
<1>5. /\ b \in [Props -> HexValues \cup {Absent}]
      /\ b[e.from] # Absent /\ b[e.to] # Absent
      /\ \A q \in Present : b[q] = belief[q]
      /\ \A q \in Props : b[q] \in {belief[q], Unknown}
    <2>1. e.from \in Props /\ e.to \in Props
        BY RevisionAssumption DEF EdgeTriples
    <2>2. Unknown \in HexValues /\ Unknown # Absent
        BY AbsentIsNoValue DEF HexValues
    <2> QED BY <1>1, <2>1, <2>2 DEF Present
<1> HIDE DEF b
<1>6. \A f \in Edges : live'[f] + withdrawn'[f] > 0
                            => b[f.from] # Absent /\ b[f.to] # Absent
    <2> SUFFICES ASSUME NEW f \in Edges, live'[f] + withdrawn'[f] > 0
                 PROVE  b[f.from] # Absent /\ b[f.to] # Absent
        OBVIOUS
    <2>1. CASE f = e
        BY <1>5, <2>1
    <2>2. CASE f # e
        <3>1. {f.from, f.to} \subseteq Present
            BY <1>1, <1>2, <1>4, <2>2
        <3> QED BY <1>5, <3>1 DEF Present
    <2> QED BY <2>1, <2>2
<1>7. Anchored(b, live')
    <2>1. live' \in [Edges -> Nat]
        BY <1>3, <1>4
    <2>2. \A f \in Edges : live'[f] > 0 => live'[f] + withdrawn'[f] > 0
        BY <1>1, <1>2, <1>3, <1>4
    <2> QED BY <1>5, <1>6, <2>1, <2>2 DEF Anchored
<1>8. Raised(b, belief')
    BY <1>2, <1>7, SettleRaises
<1>9. \A q \in Present : belief'[q] # Absent /\ Rank(belief[q]) <= Rank(belief'[q])
    BY <1>5, <1>8 DEF Raised, Present
<1>10. \A f \in Edges :
        live'[f] + withdrawn'[f] > 0 => belief'[f.from] # Absent /\ belief'[f.to] # Absent
    <2>1. \A f \in Edges : f.from \in Props /\ f.to \in Props
        BY RevisionAssumption DEF EdgeTriples
    <2> QED BY <1>6, <1>8, <2>1 DEF Raised
<1> QED BY <1>2, <1>4, <1>5, <1>7, <1>8, <1>9, <1>10 DEF Raised

LEMMA RelationKeepsType ==
    ASSUME TypeOK, Ledger!LedgerTypeOK', RelationEvent
    PROVE  TypeOK'
<1>1. PICK e \in Edges :
        DeclareRelation(e) \/ RelationWithdrawal(e) \/ UnmatchedWithdrawal(e)
    BY DEF RelationEvent
<1>2. /\ e.from \in Props /\ e.to \in Props
      /\ \A f \in Edges : f.from \in Props /\ f.to \in Props
    BY RevisionAssumption DEF EdgeTriples
<1>3. CASE DeclareRelation(e)
    <2>1. /\ UNCHANGED <<withdrawn, ledger, superseded, goals, votes, agents>>
          /\ outcome'.revisions = {}
        BY <1>3 DEF DeclareRelation, Outcome
    <2>2. \A f \in Edges :
            live'[f] + withdrawn'[f] > 0 => {f.from, f.to} \subseteq Present'
        BY <1>2, <1>3, DeclarationSettles DEF Present
    <2>3. \A q \in Props : ledger'[q] # <<>> => q \in Present'
        BY <1>3, <2>1, DeclarationSettles DEF TypeOK, Present
    <2> QED BY <1>3, <2>1, <2>2, <2>3, DeclarationSettles DEF TypeOK
<1>4. CASE RelationWithdrawal(e)
    <2>1. /\ live' \in [Edges -> 0 .. MaxParallel]
          /\ withdrawn' \in [Edges -> 0 .. MaxParallel]
          /\ \A f \in Edges : live'[f] + withdrawn'[f] = live[f] + withdrawn[f]
          /\ Raised(WithoutDerived, belief')
        BY <1>4, WithdrawalSettles
    <2>2. /\ UNCHANGED <<ledger, superseded, goals, votes, agents>>
          /\ outcome'.revisions =
                {Delta(p, belief[p], belief'[p], "relation_withdrawal", {}) :
                    p \in {q \in Present : belief'[q] # belief[q]}}
        BY <1>4 DEF RelationWithdrawal, Outcome
    <2>3. \A q \in Props : belief'[q] = Absent <=> belief[q] = Absent
        <3>1. \A q \in Props : WithoutDerived[q] = Absent <=> belief[q] = Absent
            BY AbsentIsNoValue DEF WithoutDerived, Present, HexValues
        <3> QED BY <2>1, <3>1 DEF Raised
    <2>4. outcome'.revisions \subseteq DeltaType
        <3>1. \A p \in Present : p \in Props /\ belief[p] \in HexValues
                                    /\ belief'[p] \in HexValues
            BY <2>1, <2>3 DEF Present, TypeOK, Raised
        <3> QED BY <2>2, <3>1 DEF Delta, DeltaType, Optional
    <2>5. Present' = Present
        BY <2>3 DEF Present
    <2> QED BY <2>1, <2>2, <2>4, <2>5 DEF TypeOK, Raised
<1>5. CASE UnmatchedWithdrawal(e)
    <2>1. Raised(belief, belief')
        BY <1>5, TypeGivesAnchored, SettleRaises DEF UnmatchedWithdrawal
    <2>2. /\ UNCHANGED <<live, withdrawn, ledger, superseded, goals, votes, agents>>
          /\ outcome'.revisions = {}
        BY <1>5 DEF UnmatchedWithdrawal, Outcome
    <2>3. Present' = Present
        BY <2>1 DEF Present, Raised
    <2> QED BY <2>1, <2>2, <2>3 DEF TypeOK, Raised
<1> QED BY <1>1, <1>3, <1>4, <1>5

LEMMA GoalKeepsType ==
    ASSUME TypeOK, Ledger!LedgerTypeOK', GoalEvent
    PROVE  TypeOK'
<1>1. PICK g \in Goals, priority \in Priorities, status \in Optional(Values) :
        GoalUpdate(g, priority, status)
    BY DEF GoalEvent
<1> DEFINE known == IF goals[g] = NoGoal THEN Unknown ELSE goals[g].status
           new == IF status = {} THEN known ELSE CHOOSE v \in status : TRUE
<1>2. /\ goals' = [goals EXCEPT ![g] = [priority |-> priority, status |-> new]]
      /\ belief' = Settle(belief, live)
      /\ outcome'.revisions = {}
      /\ UNCHANGED <<live, withdrawn, ledger, superseded, votes, agents>>
    BY <1>1 DEF GoalUpdate, Outcome
<1>3. goals \in [Goals -> {NoGoal} \cup [priority : Nat, status : HexValues]]
    BY DEF TypeOK
<1>4. new \in HexValues /\ priority \in Nat
    <2>1. known \in HexValues
        BY <1>3 DEF HexValues
    <2>2. status # {} => (CHOOSE v \in status : TRUE) \in Values
        BY DEF Optional
    <2> HIDE DEF known
    <2> QED BY <2>1, <2>2, RevisionAssumption
<1> HIDE DEF new
<1>5. goals' \in [Goals -> {NoGoal} \cup [priority : Nat, status : HexValues]]
    BY <1>2, <1>3, <1>4
<1>6. Raised(belief, belief')
    BY <1>2, TypeGivesAnchored, SettleRaises
<1>7. Present' = Present
    BY <1>6 DEF Present, Raised
<1> QED BY <1>2, <1>5, <1>6, <1>7 DEF TypeOK, Raised

LEMMA InitTypeOK == Init => TypeOK
<1> SUFFICES ASSUME Init PROVE TypeOK
    OBVIOUS
<1>1. Ledger!LedgerTypeOK
    BY DEF Init, Ledger!LedgerTypeOK
<1>2. MaxParallel \in Nat /\ InitialAgents \subseteq Voters
    BY RevisionAssumption
<1>3. /\ belief \in [Props -> HexValues \cup {Absent}]
      /\ superseded \in [Props -> Optional(Props)]
      /\ goals \in [Goals -> {NoGoal} \cup [priority : Nat, status : HexValues]]
      /\ votes \in [Voters -> [Props -> HexValues \cup {Absent}]]
      /\ agents \subseteq Voters
      /\ outcome.revisions = {}
      /\ \A p \in Props : ledger[p] = <<>>
      /\ \A a \in Voters \ agents, p \in Props : votes[a][p] = Absent
    BY <1>2 DEF Init, Optional, Outcome
<1>4. /\ live \in [Edges -> 0 .. MaxParallel]
      /\ withdrawn \in [Edges -> 0 .. MaxParallel]
      /\ \A e \in Edges : live[e] + withdrawn[e] = 0
    BY <1>2 DEF Init
<1> QED BY <1>1, <1>2, <1>3, <1>4 DEF TypeOK

LEMMA NextTypeOK == TypeOK /\ [Next]_vars => TypeOK'
<1> SUFFICES ASSUME TypeOK, [Next]_vars PROVE TypeOK'
    OBVIOUS
<1>1. Ledger!LedgerTypeOK'
    BY LedgerTypeKept DEF TypeOK
<1>2. CASE UNCHANGED vars
    BY <1>1, <1>2 DEF vars, TypeOK, Present
<1> QED BY <1>1, <1>2, EvidenceKeepsType, RevisionKeepsType, RelationKeepsType,
           GoalKeepsType DEF Next

\* Every event leaves beliefs, edges, evidence, goals, votes and reports in
\* their types: recomputed and combined values are values, no live or withdrawn
\* edge dangles, evidence has a node, and voters are agents.
THEOREM LoopTypeCorrect == Spec => []TypeOK
BY InitTypeOK, NextTypeOK, PTL DEF Spec

-----------------------------------------------------------------------------
(* What an event may do to a belief and to a goal.                         *)

LEMMA RaisedIsNotLowered ==
    ASSUME NEW v \in HexValues, NEW w \in HexValues, Rank(v) <= Rank(w)
    PROVE  ~Outranks(v, w)
BY RankType DEF Outranks

\* The step behind OnlyRevisionLowers.
LEMMA StepLowersOnlyByRevision ==
    ASSUME TypeOK, TypeOK', [Next]_vars, NEW p \in Present,
           Outranks(belief[p], belief'[p])
    PROVE  Revises(p)
<1>1. p \in Props /\ belief[p] \in HexValues
    BY DEF Present, TypeOK
<1>2. ASSUME belief'[p] # Absent, Rank(belief[p]) <= Rank(belief'[p])
      PROVE  FALSE
    <2>1. belief'[p] \in HexValues
        BY <1>1, <1>2 DEF TypeOK
    <2> QED BY <1>1, <1>2, <2>1, RaisedIsNotLowered
<1>3. ASSUME Raised(belief, belief') PROVE FALSE
    BY <1>1, <1>2, <1>3, AbsentIsNoValue DEF Raised
<1>4. ASSUME EvidenceEvent PROVE FALSE
    <2>1. PICK source \in Sources, cycle \in Cycles, q \in Props, v \in Values :
            BeliefUpdate(source, cycle, q, v) \/ AgentVote(source, cycle, q, v)
        BY <1>4 DEF EvidenceEvent
    <2>2. \E event \in {"belief_update", "agent_vote"}, w \in HexValues :
            PerceiveAndCycle(event, q, w)
        BY <2>1, EvidenceIsPerceived
    <2> QED BY <1>2, <2>2, CycleKeeps
<1>5. ASSUME RevisionEvent PROVE Revises(p)
    <2>1. PICK q \in Props :
            \/ /\ \E v \in HexValues : belief' = Settle([belief EXCEPT ![q] = v], live)
               /\ outcome'.event \in {"retraction", "correction"}
               /\ outcome'.about = {q}
            \/ \E successor \in Props : Supersession(q, successor)
        <3>1. PICK q \in Props :
                \/ WholeRetraction(q)
                \/ \E selector \in Selectors :
                      \/ SelectiveRetraction(q, selector)
                      \/ \E source \in Sources, cycle \in Cycles, v \in Values :
                            Correction(source, cycle, q, selector, v)
                \/ \E successor \in Props : Supersession(q, successor)
            BY <1>5 DEF RevisionEvent
        <3>2. ASSUME NEW entries, ledger' = [ledger EXCEPT ![q] = entries]
              PROVE  RecomputeFromLedger(entries) \in HexValues
            BY <3>2, LedgerValues DEF TypeOK
        <3>3. CASE WholeRetraction(q)
            BY <3>2, <3>3 DEF WholeRetraction, Outcome
        <3>4. ASSUME NEW selector, SelectiveRetraction(q, selector)
              PROVE  /\ \E v \in HexValues :
                            belief' = Settle([belief EXCEPT ![q] = v], live)
                     /\ outcome'.event \in {"retraction", "correction"}
                     /\ outcome'.about = {q}
            BY <3>2, <3>4 DEF SelectiveRetraction, Outcome
        <3>5. ASSUME NEW source, NEW cycle, NEW selector, NEW w,
                     Correction(source, cycle, q, selector, w)
              PROVE  /\ \E v \in HexValues :
                            belief' = Settle([belief EXCEPT ![q] = v], live)
                     /\ outcome'.event \in {"retraction", "correction"}
                     /\ outcome'.about = {q}
            BY <3>2, <3>5 DEF Correction, Outcome
        <3> QED BY <3>1, <3>3, <3>4, <3>5
    <2>2. CASE p = q
        <3>1. ASSUME NEW successor, Supersession(q, successor) PROVE FALSE
            BY <1>3, <3>1, TypeGivesAnchored, SettleRaises DEF Supersession
        <3> QED BY <2>1, <2>2, <3>1 DEF Revises
    <2>3. CASE p # q
        <3>1. ASSUME NEW successor, Supersession(q, successor) PROVE FALSE
            BY <1>3, <3>1, TypeGivesAnchored, SettleRaises DEF Supersession
        <3>2. ASSUME NEW v \in HexValues, belief' = Settle([belief EXCEPT ![q] = v], live)
              PROVE  FALSE
            BY <1>2, <2>3, <3>2, ReplaceKeeps
        <3> QED BY <2>1, <3>1, <3>2
    <2> QED BY <2>2, <2>3
<1>6. ASSUME RelationEvent PROVE Revises(p)
    <2>1. PICK e \in Edges :
            DeclareRelation(e) \/ RelationWithdrawal(e) \/ UnmatchedWithdrawal(e)
        BY <1>6 DEF RelationEvent
    <2>2. CASE DeclareRelation(e)
        BY <1>2, <2>2, DeclarationSettles
    <2>3. CASE RelationWithdrawal(e)
        <3>1. outcome'.event = "relation_withdrawal"
            BY <2>3 DEF RelationWithdrawal, Outcome
        <3>2. CASE ~HasEvidence(p)
            BY <3>1, <3>2 DEF Revises
        <3>3. CASE HasEvidence(p)
            <4>1. WithoutDerived[p] = belief[p]
                BY <1>1, <3>3 DEF WithoutDerived
            <4>2. Raised(WithoutDerived, belief')
                BY <2>3, WithdrawalSettles
            <4> QED BY <1>1, <1>2, <4>1, <4>2, AbsentIsNoValue DEF Raised
        <3> QED BY <3>2, <3>3
    <2>4. CASE UnmatchedWithdrawal(e)
        BY <1>3, <2>4, TypeGivesAnchored, SettleRaises DEF UnmatchedWithdrawal
    <2> QED BY <2>1, <2>2, <2>3, <2>4
<1>7. ASSUME GoalEvent PROVE FALSE
    BY <1>3, <1>7, TypeGivesAnchored, SettleRaises DEF GoalEvent, GoalUpdate
<1>8. ASSUME UNCHANGED vars PROVE FALSE
    BY <1>1, <1>2, <1>8, RankType, AbsentIsNoValue DEF vars
<1> QED BY <1>4, <1>5, <1>6, <1>7, <1>8 DEF Next

\* Evidence, votes, goals, declarations and supersessions never move a belief
\* down the chain or out of contradiction, however the propagation they trigger
\* runs: only a retraction or a correction of that very proposition does, or a
\* withdrawal if it has no evidence left.  That they may lift a denial to
\* Unknown, which is up the chain, is not excluded.
THEOREM RevisionAloneLowers == Spec => OnlyRevisionLowers
<1>1. TypeOK /\ TypeOK' /\ [Next]_vars =>
        [\A p \in Present : Outranks(belief[p], belief'[p]) => Revises(p)]_vars
    BY StepLowersOnlyByRevision
<1> QED BY <1>1, LoopTypeCorrect, PTL DEF Spec, OnlyRevisionLowers

LEMMA RevisionLeavesGoals == RevisionEvent => UNCHANGED <<live, withdrawn, goals>>
<1>1. ASSUME NEW p, WholeRetraction(p) PROVE UNCHANGED <<live, withdrawn, goals>>
    BY <1>1 DEF WholeRetraction
<1>2. ASSUME NEW p, NEW selector, SelectiveRetraction(p, selector)
      PROVE  UNCHANGED <<live, withdrawn, goals>>
    BY <1>2 DEF SelectiveRetraction
<1>3. ASSUME NEW p, NEW source, NEW cycle, NEW selector, NEW v,
             Correction(source, cycle, p, selector, v)
      PROVE  UNCHANGED <<live, withdrawn, goals>>
    BY <1>3 DEF Correction
<1>4. ASSUME NEW p, NEW successor, Supersession(p, successor)
      PROVE  UNCHANGED <<live, withdrawn, goals>>
    BY <1>4 DEF Supersession
<1> QED BY <1>1, <1>2, <1>3, <1>4 DEF RevisionEvent

\* A goal's status follows its belief upwards only: once achieved it is not
\* taken back by any evidence, retraction or withdrawal.
THEOREM AchievedGoalsStay == Spec => GoalNeverUndone
<1>1. ASSUME TypeOK, [Next]_vars, NEW g \in Goals,
             goals[g].status = True, goals'[g].status # True
      PROVE  outcome'.event = "goal_update"
    <2>1. CASE GoalEvent
        BY <2>1 DEF GoalEvent, GoalUpdate, Outcome
    <2>2. ASSUME UNCHANGED goals PROVE FALSE
        BY <1>1, <2>2
    <2>3. ASSUME NEW b, goals' = RefreshedGoals(b) PROVE FALSE
        <3>1. goals[g] \in {NoGoal} \cup [priority : Nat, status : HexValues]
            <4>1. goals \in [Goals -> {NoGoal} \cup [priority : Nat, status : HexValues]]
                BY <1>1 DEF TypeOK
            <4> QED BY <4>1
        <3>2. goals'[g] = IF /\ goals[g] # NoGoal
                             /\ b[g] \in Positive
                             /\ goals[g].status = True => b[g] = True
                          THEN [goals[g] EXCEPT !.status = b[g]]
                          ELSE goals[g]
            BY <2>3 DEF RefreshedGoals
        <3> QED BY <1>1, <3>1, <3>2
    <2>4. CASE EvidenceEvent
        <3>1. PICK source \in Sources, cycle \in Cycles, p \in Props, v \in Values :
                BeliefUpdate(source, cycle, p, v) \/ AgentVote(source, cycle, p, v)
            BY <2>4 DEF EvidenceEvent
        <3>2. PICK event \in {"belief_update", "agent_vote"}, w \in HexValues :
                PerceiveAndCycle(event, p, w)
            BY <3>1, EvidenceIsPerceived
        <3>3. goals' = RefreshedGoals(Perceived(p, w))
            BY <3>2 DEF PerceiveAndCycle
        <3> QED BY <2>3, <3>3
    <2>5. CASE RevisionEvent
        BY <2>2, <2>5, RevisionLeavesGoals
    <2>6. CASE RelationEvent \/ UNCHANGED vars
        <3>1. RelationEvent => UNCHANGED goals
            BY DEF RelationEvent, DeclareRelation, RelationWithdrawal,
                UnmatchedWithdrawal
        <3>2. UNCHANGED vars => UNCHANGED goals
            BY DEF vars
        <3> QED BY <2>2, <2>6, <3>1, <3>2
    <2> QED BY <1>1, <2>1, <2>4, <2>5, <2>6 DEF Next
<1>2. TypeOK /\ [Next]_vars =>
        [\A g \in Goals : goals[g].status = True /\ goals'[g].status # True
            => outcome'.event = "goal_update"]_vars
    BY <1>1
<1> QED BY <1>2, LoopTypeCorrect, PTL DEF Spec, GoalNeverUndone

\* The step behind WithdrawalLeavesOnlyFounded.
LEMMA WithdrawalFounds ==
    ASSUME TypeOK, NEW e \in Edges, RelationWithdrawal(e)
    PROVE  FoundedOnEvidence'
<1> SUFFICES ASSUME NEW S \in SUBSET Props,
                    {p \in Props : HasEvidence(p)'} \subseteq S,
                    \A f \in Edges : live'[f] > 0 /\ f.from \in S => f.to \in S
             PROVE  \A p \in Props \ S : belief'[p] \in {Unknown, Absent}
    BY DEF FoundedOnEvidence
<1>1. /\ belief' = Settle(WithoutDerived, live')
      /\ Anchored(WithoutDerived, live')
      /\ ledger' = ledger
    BY WithdrawalSettles DEF RelationWithdrawal
<1>2. \A p \in Props : HasEvidence(p)' <=> HasEvidence(p)
    BY <1>1 DEF HasEvidence, Standing
<1>3. Unbelieved(WithoutDerived, S)
    <2> SUFFICES ASSUME NEW p \in Props \ S
                 PROVE  WithoutDerived[p] \in {Unknown, Absent}
        BY DEF Unbelieved
    <2>1. ~HasEvidence(p)
        BY <1>2
    <2> QED BY <2>1 DEF WithoutDerived, Present
<1>4. \A f \in LiveIn(live') : f.from \in S => f.to \in S
    BY DEF LiveIn
<1>5. MaxRounds \in Nat
    BY RevisionAssumption
<1>6. Unbelieved(belief', S)
    BY <1>1, <1>3, <1>4, <1>5, AnchoredIsLinked, PassFounded
<1> QED BY <1>6 DEF Unbelieved

\* A withdrawal undoes every derivation that hung on the relation: when it
\* returns, nothing is believed that surviving evidence does not reach.
THEOREM WithdrawalUndoesDerivations == Spec => WithdrawalLeavesOnlyFounded
<1>1. ASSUME TypeOK, [Next]_vars, withdrawn' # withdrawn
      PROVE  FoundedOnEvidence'
    <2>1. CASE EvidenceEvent \/ UNCHANGED vars
        <3>1. CASE EvidenceEvent
            BY <1>1, <3>1 DEF EvidenceEvent, BeliefUpdate, AgentVote
        <3> QED BY <1>1, <2>1, <3>1 DEF vars
    <2>3. CASE RevisionEvent
        <3>1. UNCHANGED withdrawn
            BY <2>3, RevisionLeavesGoals
        <3> QED BY <1>1, <3>1
    <2>4. CASE GoalEvent
        <3>1. UNCHANGED withdrawn
            BY <2>4, Zenon DEF GoalEvent, GoalUpdate
        <3> QED BY <1>1, <3>1
    <2>2. CASE RelationEvent
        BY <1>1, <2>2, WithdrawalFounds DEF RelationEvent, DeclareRelation,
            UnmatchedWithdrawal
    <2> QED BY <1>1, <2>1, <2>2, <2>3, <2>4 DEF Next
<1>2. TypeOK /\ [Next]_vars =>
        [outcome'.event = "relation_withdrawal" /\ withdrawn' # withdrawn
            => FoundedOnEvidence']_vars
    BY <1>1
<1> QED BY <1>2, LoopTypeCorrect, PTL DEF Spec, WithdrawalLeavesOnlyFounded

-----------------------------------------------------------------------------
(* What a recomputed belief rests on.                                      *)

\* The mass of a finite set of weighed observations is the sum of its weights.
LEMMA MassIsSum ==
    ASSUME NEW S, IsFiniteSet(S), \A o \in S : o.weight \in Int
    PROVE  \E g : /\ IsSum(g, S, [o \in S |-> o.weight])
                  /\ MapThenSumSet(WeightOf, S) = g[S]
<1>1. MapThenSumSet(WeightOf, S) = WeightSum(S)
    BY Zenon DEF WeightSum, WeightOf, MapThenSumSet, MapThenFoldSet
<1>2. WeightsOf(S) = [o \in S |-> o.weight]
    BY DEF WeightsOf
<1> QED BY <1>1, <1>2, WeightSumIsSum

\* The observations that recomputation makes of a ledger's entries.
BeliefObs ==
    [source : Sources, diagnosis : {EmittedDiagnosis}, round : Nat,
     ordinal : Nat, claim : {BeliefClaim}, variant : HexValues, weight : Nat]

Distinct(S) == \A o \in S, q \in S : DedupKey(o) = DedupKey(q) => o = q

LEMMA LeastOfTwo ==
    ASSUME NEW m \in Nat, NEW n \in Nat
    PROVE  Min({m, n}) \in Nat /\ Min({m, n}) = IF m <= n THEN m ELSE n
<1>1. \E x \in {m, n} : \A y \in {m, n} : x =< y
    OBVIOUS
<1>2. Min({m, n}) \in {m, n} /\ \A y \in {m, n} : Min({m, n}) =< y
    BY <1>1 DEF Min
<1> QED BY <1>2

\* A slot of a single version resolves to it.
LEMMA ResolveOne ==
    ASSUME NEW o \in BeliefObs
    PROVE  ResolveKeyVersions({o}) = o
<1> DEFINE any == CHOOSE q \in {o} : TRUE
           claim == LeastClaim({q.claim : q \in {o}})
           weight == Min({q.weight : q \in {o}})
           single == Cardinality({q.variant : q \in {o}}) = 1
<1>1. ResolveKeyVersions({o}) =
        [any EXCEPT !.claim = claim, !.weight = weight,
                    !.variant = IF single THEN any.variant ELSE Contradictory]
    BY Zenon DEF ResolveKeyVersions
<1>2. any = o
    OBVIOUS
<1>3. claim = o.claim
    <2>1. {q.claim : q \in {o}} = {BeliefClaim} /\ o.claim = BeliefClaim
        BY DEF BeliefObs
    <2>2. ClaimOrder[BeliefClaim] <= ClaimOrder[BeliefClaim]
        BY EvidenceAssumption
    <2>3. LeastClaim({BeliefClaim}) = BeliefClaim
        BY <2>2 DEF LeastClaim
    <2> QED BY <2>1, <2>3
<1>4. weight = o.weight
    <2>1. {q.weight : q \in {o}} = {o.weight, o.weight} /\ o.weight \in Nat
        BY DEF BeliefObs
    <2> QED BY <2>1, LeastOfTwo
<1>5. single
    <2>1. {q.variant : q \in {o}} = {o.variant}
        OBVIOUS
    <2> QED BY <2>1, FS_Singleton
<1> HIDE DEF any, claim, weight, single
<1> QED BY <1>1, <1>2, <1>3, <1>4, <1>5 DEF BeliefObs

\* Distinct observations are merged as they are, but for what would pass for
\* the merge's own.
LEMMA MergeOfDistinct ==
    ASSUME NEW S \in SUBSET BeliefObs, Distinct(S)
    PROVE  Merge(S, 0, 0) = WithContradictions(BaseEvidence(S))
<1> DEFINE base == BaseEvidence(S)
           Versions(k) == {o \in base : DedupKey(o) = k}
<1>1. base \in SUBSET S
    BY DEF BaseEvidence
<1>2. \A o \in base : Versions(DedupKey(o)) = {o}
    BY <1>1 DEF Distinct
<1>3. Deduplicated(S) = {ResolveKeyVersions(Versions(k)) : k \in DedupKeys(base)}
    BY DEF Deduplicated
<1>4. \A o \in base : ResolveKeyVersions(Versions(DedupKey(o))) = o
    BY <1>1, <1>2, ResolveOne
<1>5. DedupKeys(base) = {DedupKey(o) : o \in base}
    BY DEF DedupKeys
<1> HIDE DEF base, Versions
<1>6. Deduplicated(S) = base
    BY <1>3, <1>4, <1>5
<1>7. InWindow(base, 0, 0) = base
    <2>1. Max({0, 0 - 0}) = 0
        <3>1. {0, 0 - 0} = {0}
            OBVIOUS
        <3>2. Max({0}) = 0
            BY DEF Max
        <3> QED BY <3>1, <3>2
    <2>2. \A o \in base : o.round >= 0
        BY <1>1 DEF BeliefObs
    <2> QED BY <2>1, <2>2 DEF InWindow
<1> QED BY <1>6, <1>7 DEF Merge, base

\* What is synthesised of finitely many observations is finite and weighs a
\* natural number; all that others observed is still there.
LEMMA Synthesised ==
    ASSUME NEW S \in SUBSET BeliefObs, IsFiniteSet(S)
    PROVE  /\ IsFiniteSet(WithContradictions(S))
           /\ \A o \in WithContradictions(S) : o.weight \in Nat
<1> DEFINE D == {q \in S \X S : ClashDirectly(q[1], q[2])}
           M == {q \in S \X S : ClashAcrossAspects(q[1], q[2])}
           DirectWeight(p) == (BelnapWeight(p[1].variant, p[2].variant)
                                * Min({p[1].weight, p[2].weight})) \div 10
           direct == [p \in S \X S |->
                        Synthesis("direct", p[1].claim, p[1], p[2], DirectWeight(p))]
           meta == [p \in S \X S |->
                        Synthesis("meta",
                            [action |-> p[1].claim.action,
                             aspect |-> MetaConflictAspect],
                            p[1], p[2], Min({p[1].weight, p[2].weight}))]
<1>1. IsFiniteSet(D) /\ IsFiniteSet(M)
    <2>1. IsFiniteSet(S \X S)
        BY FS_Product
    <2> QED BY <2>1, FS_Subset
<1>2. DirectContradictions(S) = {direct[p] : p \in D}
    BY Zenon DEF DirectContradictions
<1>3. MetaConflicts(S) = {meta[p] : p \in M}
    BY Zenon DEF MetaConflicts
<1>4. \A p \in S \X S : Min({p[1].weight, p[2].weight}) \in Nat
    BY LeastOfTwo DEF BeliefObs
<1>5. \A p \in S \X S : DirectWeight(p) \in Nat
    <2> SUFFICES ASSUME NEW p \in S \X S PROVE DirectWeight(p) \in Nat
        OBVIOUS
    <2>1. BelnapWeight(p[1].variant, p[2].variant) \in Nat
        BY DEF BelnapWeight
    <2>2. \A m \in Nat, n \in Nat : (m * n) \div 10 \in Nat
        OBVIOUS
    <2> QED BY <1>4, <2>1, <2>2
<1>6. \A p \in S \X S : direct[p].weight = DirectWeight(p)
    BY Zenon DEF Synthesis
<1>7. \A p \in S \X S : meta[p].weight = Min({p[1].weight, p[2].weight})
    BY Zenon DEF Synthesis
<1>8. D \subseteq S \X S /\ M \subseteq S \X S
    OBVIOUS
<1> HIDE DEF direct, meta, DirectWeight, D, M
<1>9. /\ IsFiniteSet(DirectContradictions(S))
      /\ \A o \in DirectContradictions(S) : o.weight \in Nat
    <2>1. IsFiniteSet({direct[p] : p \in D})
        BY <1>1, ImageIsFinite
    <2>2. \A p \in D : direct[p].weight \in Nat
        BY <1>5, <1>6, <1>8
    <2> QED BY <1>2, <2>1, <2>2
<1>11. /\ IsFiniteSet(MetaConflicts(S))
       /\ \A o \in MetaConflicts(S) : o.weight \in Nat
    <2>1. IsFiniteSet({meta[p] : p \in M})
        BY <1>1, ImageIsFinite
    <2>2. \A p \in M : meta[p].weight \in Nat
        BY <1>4, <1>7, <1>8
    <2> QED BY <1>3, <2>1, <2>2
<1>12. IsFiniteSet(WithContradictions(S))
    BY <1>9, <1>11, FS_Union DEF WithContradictions
<1>10. \A o \in S : o.weight \in Nat
    BY DEF BeliefObs
<1> QED BY <1>9, <1>10, <1>11, <1>12 DEF WithContradictions

\* Only values on opposite sides make a contradiction.
LEMMA BelnapOpposes ==
    ASSUME NEW v, NEW w, BelnapWeight(v, w) > 0
    PROVE  \/ v \in Positive /\ w \in Negative
           \/ w \in Positive /\ v \in Negative
<1>1. \/ {v, w} = {True, False} \/ {v, w} = {True, Doubtful}
      \/ {v, w} = {Probable, False} \/ {v, w} = {Probable, Doubtful}
    <2>1. BelnapWeight(v, w) # 0
        BY DEF BelnapWeight
    <2> QED BY <2>1, Zenon DEF BelnapWeight
<1> QED BY <1>1 DEF Positive, Negative

\* Without a contradictory observation there is nothing to escalate.
LEMMA NothingToEscalate ==
    ASSUME NEW S, IsFiniteSet(S), \A o \in S : o.weight \in Nat,
           \A o \in S : o.variant # Contradictory
    PROVE  ~EscalationTriggered(S)
<1> DEFINE T == {o \in S : o.variant \in HexValues \ {Unknown}}
           w == [o \in T |-> o.weight]
<1>1. Mass(S, {Contradictory}) = 0
    <2>1. {o \in S : o.variant \in {Contradictory}} = {}
        OBVIOUS
    <2>2. PICK g : /\ IsSum(g, {}, [o \in {} |-> o.weight])
                   /\ MapThenSumSet(WeightOf, {}) = g[{}]
        BY FS_EmptySet, MassIsSum
    <2>3. g[{}] = 0
        BY <2>2, FS_EmptySet, SumFacts
    <2> QED BY <2>1, <2>2, <2>3 DEF Mass
<1>2. Mass(S, HexValues \ {Unknown}) \in Nat
    <2>1. IsFiniteSet(T) /\ w \in [T -> Nat] /\ \A o \in T : o.weight \in Int
        BY FS_Subset
    <2>2. PICK g : /\ IsSum(g, T, w)
                   /\ MapThenSumSet(WeightOf, T) = g[T]
        <3> HIDE DEF T
        <3> QED BY <2>1, MassIsSum, Zenon
    <2> HIDE DEF w
    <2>3. g[T] \in Nat
        <3> HIDE DEF T
        <3> QED BY <2>1, <2>2, SumOfNaturals
    <2> QED BY <2>2, <2>3 DEF Mass
<1> QED BY <1>1, <1>2 DEF EscalationTriggered

\* What stands of a ledger, as recomputation observes it.
Observed(entries) == {EvidenceObs(entries, i) : i \in Standing(entries)}

LEMMA ObsType ==
    ASSUME NEW entries \in Seq(Ledger!Evidence), NEW i \in DOMAIN entries
    PROVE  /\ EvidenceObs(entries, i) \in BeliefObs
           /\ EvidenceObs(entries, i).source = entries[i].source
           /\ EvidenceObs(entries, i).variant = entries[i].value
           /\ DedupKey(EvidenceObs(entries, i))[4] = i
<1>1. entries[i] \in Ledger!Evidence /\ i \in Nat
    OBVIOUS
<1>2. /\ entries[i].source \in Sources /\ entries[i].cycle \in Nat
      /\ entries[i].value \in HexValues
    BY <1>1, ValuesOfTheLedger, EvidenceAssumption DEF Ledger!Evidence
<1>3. SourceWeight[entries[i].source] \in Nat
    BY <1>2, EvidenceAssumption
<1> QED BY <1>1, <1>2, <1>3 DEF EvidenceObs, BeliefObs, DedupKey

\* Tombstones leave exactly the standing entries, each in a slot of its own.
LEMMA StandingIsObserved ==
    ASSUME NEW entries \in Seq(Ledger!Evidence)
    PROVE  /\ Observed(entries) \in SUBSET BeliefObs
           /\ IsFiniteSet(Observed(entries))
           /\ RecomputeFromLedger(entries) =
                ProjectBelief(WithContradictions(BaseEvidence(Observed(entries))))
<1> DEFINE all == {EvidenceObs(entries, i) : i \in DOMAIN entries}
           tombstoned == {DedupKey(EvidenceObs(entries, i)) :
                                i \in DOMAIN entries \ Standing(entries)}
           Key(i) == DedupKey(EvidenceObs(entries, i))
<1>1. Standing(entries) \in SUBSET DOMAIN entries
    BY DEF Standing
<1>2. \A i \in DOMAIN entries, j \in DOMAIN entries : Key(i) = Key(j) => i = j
    <2> SUFFICES ASSUME NEW i \in DOMAIN entries, NEW j \in DOMAIN entries,
                        Key(i) = Key(j)
                 PROVE  i = j
        OBVIOUS
    <2>1. Key(i)[4] = i /\ Key(j)[4] = j
        BY ObsType
    <2> HIDE DEF Key
    <2> QED BY <2>1
<1>3. Surviving(all, tombstoned) = Observed(entries)
    <2>1. \A i \in DOMAIN entries : Key(i) \in tombstoned <=> i \notin Standing(entries)
        BY <1>1, <1>2
    <2> QED BY <1>1, <2>1 DEF Surviving, Observed
<1>4. Observed(entries) \in SUBSET BeliefObs
    BY <1>1, ObsType DEF Observed
<1>5. Distinct(Observed(entries))
    BY <1>1, <1>2 DEF Distinct, Observed
<1>6. IsFiniteSet(Observed(entries))
    <2> DEFINE f == [i \in DOMAIN entries |-> EvidenceObs(entries, i)]
    <2>1. IsFiniteSet(DOMAIN entries)
        <3>1. DOMAIN entries = 1 .. Len(entries) /\ Len(entries) \in Nat
            OBVIOUS
        <3> QED BY <3>1, FS_Interval
    <2>2. IsFiniteSet(Standing(entries))
        BY <1>1, <2>1, FS_Subset
    <2>3. Observed(entries) = {f[i] : i \in Standing(entries)}
        BY <1>1 DEF Observed
    <2> HIDE DEF f
    <2> QED BY <2>2, <2>3, ImageIsFinite
<1>7. RecomputeFromLedger(entries) = ProjectBelief(Merge(Surviving(all, tombstoned), 0, 0))
    BY Zenon DEF RecomputeFromLedger, MergeWithTombstones
<1> HIDE DEF all, tombstoned
<1> QED BY <1>3, <1>4, <1>5, <1>6, <1>7, MergeOfDistinct

\* The sources of the standing entries on one side.
Lean(entries, side) ==
    {entries[i].source : i \in {j \in Standing(entries) : entries[j].value \in side}}

LEMMA LeanFinite ==
    ASSUME NEW entries \in Seq(Ledger!Evidence), NEW side
    PROVE  IsFiniteSet(Lean(entries, side))
<1> DEFINE J == {j \in Standing(entries) : entries[j].value \in side}
           f == [i \in DOMAIN entries |-> entries[i].source]
<1>1. DOMAIN entries = 1 .. Len(entries) /\ Len(entries) \in Nat
    OBVIOUS
<1>2. IsFiniteSet(DOMAIN entries)
    BY <1>1, FS_Interval
<1>3. J \in SUBSET DOMAIN entries
    BY DEF Standing
<1>4. IsFiniteSet(J)
    BY <1>2, <1>3, FS_Subset
<1>5. Lean(entries, side) = {f[i] : i \in J}
    BY <1>3 DEF Lean
<1> HIDE DEF f, J
<1> QED BY <1>4, <1>5, ImageIsFinite

\* A value is earned by the entries that stand: two sources behind a strong
\* pole; two sources in opposition, or one that said so, behind a contradiction.
EarnedBy(entries, v) ==
    /\ v = True => Cardinality(Lean(entries, Positive)) > 1
    /\ v = False => Cardinality(Lean(entries, Negative)) > 1
    /\ v = Contradictory =>
          \/ Lean(entries, {Contradictory}) # {}
          \/ \E s \in Lean(entries, Positive), t \in Lean(entries, Negative) : s # t

LEMMA RecomputedIsEarned ==
    ASSUME NEW entries \in Seq(Ledger!Evidence)
    PROVE  EarnedBy(entries, RecomputeFromLedger(entries))
<1> DEFINE P == BaseEvidence(Observed(entries))
           W == WithContradictions(P)
           base == Highest({o.variant : o \in P})
           Side(side) == {o.source : o \in {q \in P : q.variant \in side}}
<1>1. /\ P \in SUBSET Observed(entries)
      /\ P \in SUBSET BeliefObs
      /\ IsFiniteSet(P)
      /\ RecomputeFromLedger(entries) = ProjectBelief(W)
    <2>1. P \in SUBSET Observed(entries)
        BY DEF BaseEvidence
    <2> QED BY <2>1, StandingIsObserved, FS_Subset
<1>2. \A o \in P : \E i \in Standing(entries) :
        o.source = entries[i].source /\ o.variant = entries[i].value
    <2>1. Standing(entries) \in SUBSET DOMAIN entries
        BY DEF Standing
    <2> HIDE DEF P
    <2> QED BY <1>1, <2>1, ObsType DEF Observed
<1>3. BaseEvidence(W) = P
    <2>1. \A o \in P : o.source # MergeSource
        BY DEF BaseEvidence
    <2> HIDE DEF P
    <2> QED BY <2>1, SynthesisIsOwned DEF WithContradictions, BaseEvidence
<1> HIDE DEF P
<1>4. ASSUME NEW o \in P, NEW side, o.variant \in side
      PROVE  o.source \in Lean(entries, side)
    BY <1>2, <1>4 DEF Lean
<1>5. ASSUME NEW side, Cardinality(Side(side)) > 1
      PROVE  Cardinality(Lean(entries, side)) > 1
    <2>1. Side(side) \in SUBSET Lean(entries, side)
        BY <1>4
    <2>2. IsFiniteSet(Lean(entries, side))
        BY LeanFinite
    <2>3. Cardinality(Side(side)) <= Cardinality(Lean(entries, side))
        BY <2>1, <2>2, FS_Subset
    <2>4. Cardinality(Side(side)) \in Nat /\ Cardinality(Lean(entries, side)) \in Nat
        BY <2>1, <2>2, FS_Subset, FS_CardinalityType
    <2> HIDE DEF Side
    <2> QED BY <1>5, <2>3, <2>4
<1>6. ASSUME EscalationTriggered(W)
      PROVE  \/ Lean(entries, {Contradictory}) # {}
             \/ \E s \in Lean(entries, Positive), t \in Lean(entries, Negative) : s # t
    <2>1. PICK o \in W : o.variant = Contradictory
        BY <1>1, <1>6, Synthesised, NothingToEscalate
    <2>2. CASE o \in P
        BY <1>4, <2>1, <2>2
    <2>3. ASSUME NEW q \in P, NEW r \in P, q.source # r.source,
                 q.variant \in Positive, r.variant \in Negative
          PROVE  \E s \in Lean(entries, Positive), t \in Lean(entries, Negative) : s # t
        BY <1>4, <2>3
    <2>4. CASE o \in DirectContradictions(P)
        <3>1. PICK p \in P \X P : ClashDirectly(p[1], p[2])
            BY <2>4 DEF DirectContradictions
        <3>2. /\ p[1] \in P /\ p[2] \in P /\ p[1].source # p[2].source
              /\ BelnapWeight(p[1].variant, p[2].variant) > 0
            BY <3>1 DEF ClashDirectly
        <3>3. \/ p[1].variant \in Positive /\ p[2].variant \in Negative
              \/ p[2].variant \in Positive /\ p[1].variant \in Negative
            BY <3>2, BelnapOpposes
        <3> QED BY <2>3, <3>2, <3>3
    <2>5. CASE o \in MetaConflicts(P)
        <3>1. PICK p \in P \X P : ClashAcrossAspects(p[1], p[2])
            BY <2>5 DEF MetaConflicts
        <3> QED BY <2>3, <3>1 DEF ClashAcrossAspects
    <2> QED BY <2>1, <2>2, <2>4, <2>5 DEF WithContradictions
<1>7. ASSUME P # {}, base = Contradictory
      PROVE  Lean(entries, {Contradictory}) # {}
    <2>1. {o.variant : o \in P} \in SUBSET HexValues /\ {o.variant : o \in P} # {}
        BY <1>1, <1>7 DEF BeliefObs
    <2>2. PICK o \in P : o.variant = Contradictory
        BY <1>7, <2>1, HighestIsTop
    <2> QED BY <1>4, <2>2
<1>8. /\ True # False /\ True # Contradictory /\ True # Unknown /\ True # Probable
      /\ True # Doubtful /\ False # Contradictory /\ False # Unknown
      /\ False # Probable /\ False # Doubtful /\ Contradictory # Unknown
      /\ Contradictory # Probable /\ Contradictory # Doubtful
    BY DEF True, False, Contradictory, Unknown, Probable, Doubtful
<1> DEFINE v == ProjectBelief(W)
<1>9. v = CASE EscalationTriggered(W) -> Contradictory
            [] P = {} -> Unknown
            [] OTHER ->
                 CASE base = True -> Corroborated(P, Positive, True, Probable)
                   [] base = False -> Corroborated(P, Negative, False, Doubtful)
                   [] OTHER -> base
    BY <1>3, Zenon DEF ProjectBelief
<1>10. Corroborated(P, Positive, True, Probable) =
            IF Cardinality(Side(Positive)) > 1 THEN True ELSE Probable
    BY Zenon DEF Corroborated
<1>11. Corroborated(P, Negative, False, Doubtful) =
            IF Cardinality(Side(Negative)) > 1 THEN False ELSE Doubtful
    BY Zenon DEF Corroborated
<1> HIDE DEF v, W, base, Side
<1>12. v = True => Cardinality(Lean(entries, Positive)) > 1
    BY <1>5, <1>8, <1>9, <1>10, <1>11
<1>13. v = False => Cardinality(Lean(entries, Negative)) > 1
    BY <1>5, <1>8, <1>9, <1>10, <1>11
<1>14. v = Contradictory =>
          \/ Lean(entries, {Contradictory}) # {}
          \/ \E s \in Lean(entries, Positive), t \in Lean(entries, Negative) : s # t
    BY <1>6, <1>7, <1>8, <1>9, <1>10, <1>11
<1> QED BY <1>1, <1>12, <1>13, <1>14 DEF v, EarnedBy

\* A retraction or correction replaces a belief by what its ledger now gives.
LEMMA RevisionReplaces ==
    ASSUME TypeOK, RevisionEvent
    PROVE  \E p \in Props :
              \/ /\ belief' = Settle([belief EXCEPT ![p] =
                                        RecomputeFromLedger(ledger'[p])], live)
                 /\ outcome'.about = {p}
              \/ outcome'.event = "supersession" /\ belief' = Settle(belief, live)
<1>1. \A p \in Props : p \in DOMAIN ledger
    BY DEF TypeOK, Ledger!LedgerTypeOK
<1>2. ASSUME NEW p \in Props, NEW entries, ledger' = [ledger EXCEPT ![p] = entries]
      PROVE  ledger'[p] = entries
    BY <1>1, <1>2
<1>3. ASSUME NEW p \in Props, WholeRetraction(p)
      PROVE  /\ belief' = Settle([belief EXCEPT ![p] =
                                    RecomputeFromLedger(ledger'[p])], live)
             /\ outcome'.about = {p}
    BY <1>2, <1>3 DEF WholeRetraction, Outcome
<1>4. ASSUME NEW p \in Props, NEW selector, SelectiveRetraction(p, selector)
      PROVE  /\ belief' = Settle([belief EXCEPT ![p] =
                                    RecomputeFromLedger(ledger'[p])], live)
             /\ outcome'.about = {p}
    BY <1>2, <1>4 DEF SelectiveRetraction, Outcome
<1>5. ASSUME NEW p \in Props, NEW source, NEW cycle, NEW selector, NEW v,
             Correction(source, cycle, p, selector, v)
      PROVE  /\ belief' = Settle([belief EXCEPT ![p] =
                                    RecomputeFromLedger(ledger'[p])], live)
             /\ outcome'.about = {p}
    BY <1>2, <1>5 DEF Correction, Outcome
<1>6. ASSUME NEW p, NEW successor, Supersession(p, successor)
      PROVE  outcome'.event = "supersession" /\ belief' = Settle(belief, live)
    BY <1>6 DEF Supersession, Outcome
<1> QED BY <1>3, <1>4, <1>5, <1>6 DEF RevisionEvent

\* No pass moves a node that no live edge points to.
LEMMA UnfedStays ==
    ASSUME NEW b, NEW edges, Anchored(b, edges), NEW p \in Props,
           \A e \in Edges : e.to = p => edges[e] = 0
    PROVE  Settle(b, edges)[p] = b[p]
<1> DEFINE on == LiveIn(edges)
<1>1. Settle(b, edges) = Pass(b, on, MaxRounds) /\ Linked(b, on)
    BY AnchoredIsLinked
<1>2. MaxRounds \in Nat
    BY RevisionAssumption
<1>3. \A c : FiringInto(c, on, p) = {}
    <2>1. \A e \in on : e.to # p
        BY DEF LiveIn, Anchored
    <2> QED BY <2>1 DEF FiringInto
<1> HIDE DEF on
<1> DEFINE R == {c \in [Props -> HexValues \cup {Absent}] :
                    Linked(c, on) /\ c[p] = b[p]}
<1>4. b \in R
    BY <1>1 DEF Linked
<1>5. ASSUME NEW c \in R PROVE Round(c, on) \in R
    <2>1. Linked(c, on) /\ c[p] = b[p]
        OBVIOUS
    <2>2. Round(c, on) \in [Props -> HexValues \cup {Absent}]
        BY <2>1, RoundType DEF Round
    <2>3. \A q \in Props : Round(c, on)[q] = Absent <=> c[q] = Absent
        BY <2>1, RoundType DEF Round
    <2>4. Linked(Round(c, on), on)
        BY <2>1, <2>2, <2>3 DEF Linked, EdgeTriples
    <2>5. Round(c, on)[p] = c[p]
        BY <1>3 DEF Round, RoundValue, Incoming
    <2> QED BY <2>1, <2>2, <2>4, <2>5
<1> HIDE DEF R
<1>6. Pass(b, on, MaxRounds) \in R
    BY <1>2, <1>4, <1>5, PassInduction
<1> QED BY <1>1, <1>6 DEF R

LEMMA LeanIsLeaning ==
    ASSUME NEW p, NEW side PROVE Leaning(p, side) = Lean(ledger[p], side)
BY DEF Leaning, Lean

LEMMA EarnedIsEarnedBy ==
    ASSUME NEW p PROVE Earned(p) <=> EarnedBy(ledger[p], belief[p])
BY LeanIsLeaning DEF Earned, EarnedBy

LEMMA StepKeepsEarned ==
    ASSUME TypeOK, TypeOK', [Next]_vars, RevisedBeliefIsEarned
    PROVE  RevisedBeliefIsEarned'
<1> SUFFICES ASSUME NEW p \in Props,
                    outcome'.event \in {"retraction", "correction"},
                    outcome'.about = {p},
                    \A e \in Edges : e.to = p => live'[e] = 0
             PROVE  Earned(p)'
    BY DEF RevisedBeliefIsEarned
<1>1. CASE UNCHANGED vars
    <2>1. UNCHANGED <<outcome, live, belief, ledger>>
        BY <1>1 DEF vars
    <2>2. Earned(p)
        BY <2>1 DEF RevisedBeliefIsEarned
    <2> QED BY <2>1, <2>2 DEF Earned, Leaning, Standing
<1>2. ASSUME EvidenceEvent \/ RelationEvent \/ GoalEvent PROVE FALSE
    <2>1. ASSUME EvidenceEvent PROVE FALSE
        <3>1. PICK source \in Sources, cycle \in Cycles, q \in Props, v \in Values :
                BeliefUpdate(source, cycle, q, v) \/ AgentVote(source, cycle, q, v)
            BY <2>1 DEF EvidenceEvent
        <3>2. PICK event \in {"belief_update", "agent_vote"}, w \in HexValues :
                PerceiveAndCycle(event, q, w)
            BY <3>1, EvidenceIsPerceived
        <3>3. outcome'.event = event
            BY <3>2 DEF PerceiveAndCycle, Outcome
        <3> QED BY <3>3
    <2>2. ASSUME RelationEvent PROVE FALSE
        BY <2>2 DEF RelationEvent, DeclareRelation, RelationWithdrawal,
            UnmatchedWithdrawal, Outcome
    <2>3. ASSUME GoalEvent PROVE FALSE
        BY <2>3 DEF GoalEvent, GoalUpdate, Outcome
    <2> QED BY <1>2, <2>1, <2>2, <2>3
<1>3. CASE RevisionEvent
    <2>1. belief' = Settle([belief EXCEPT ![p] = RecomputeFromLedger(ledger'[p])], live)
        <3>1. PICK q \in Props :
                \/ /\ belief' = Settle([belief EXCEPT ![q] =
                                        RecomputeFromLedger(ledger'[q])], live)
                   /\ outcome'.about = {q}
                \/ outcome'.event = "supersession"
            BY <1>3, RevisionReplaces
        <3>2. q = p
            BY <3>1
        <3> QED BY <3>1, <3>2
    <2> DEFINE v == RecomputeFromLedger(ledger'[p])
               b == [belief EXCEPT ![p] = v]
    <2>2. live' = live
        BY <1>3, RevisionLeavesGoals
    <2>3. ledger'[p] \in Seq(Ledger!Evidence)
        BY DEF TypeOK, Ledger!LedgerTypeOK
    <2>4. v \in HexValues
        <3>1. \A i \in DOMAIN ledger'[p] : ledger'[p][i] \in Ledger!Evidence
            BY <2>3
        <3>2. \A i \in DOMAIN ledger'[p] : ledger'[p][i].value \in HexValues
            BY <3>1, ValuesOfTheLedger DEF Ledger!Evidence
        <3> QED BY <3>2, RecomputedType
    <2> HIDE DEF v
    <2>5. b[p] = v /\ Anchored(b, live) /\ belief' = Settle(b, live)
        BY <2>1, <2>4, ReplacedAnchored DEF v
    <2> HIDE DEF b
    <2>6. belief'[p] = v
        BY <2>2, <2>5, UnfedStays
    <2>7. EarnedBy(ledger'[p], v)
        BY <2>3, RecomputedIsEarned DEF v
    <2> QED BY <2>6, <2>7 DEF Earned, EarnedBy, Leaning, Lean, Standing
<1> QED BY <1>1, <1>2, <1>3 DEF Next

\* Just after a retraction or a correction, a belief no live relation feeds has
\* no more conviction than its surviving evidence gives it.
THEOREM RevisionsAreEarned == Spec => []RevisedBeliefIsEarned
<1>1. Init => RevisedBeliefIsEarned
    BY DEF Init, Outcome, RevisedBeliefIsEarned
<1>2. TypeOK /\ TypeOK' /\ RevisedBeliefIsEarned /\ [Next]_vars
        => RevisedBeliefIsEarned'
    BY StepKeepsEarned
<1> QED BY <1>1, <1>2, LoopTypeCorrect, PTL DEF Spec

-----------------------------------------------------------------------------
(* What an event leaves to be derived.                                     *)

\* Every event ends in a pass over beliefs and edges that fit together.
Settles == \E b : Anchored(b, live') /\ belief' = Settle(b, live')

LEMMA EveryEventSettles ==
    ASSUME TypeOK, TypeOK', Next
    PROVE  Settles
<1>1. CASE EvidenceEvent
    <2>1. PICK source \in Sources, cycle \in Cycles, p \in Props, v \in Values :
            \/ BeliefUpdate(source, cycle, p, v)
            \/ source \in Voters /\ AgentVote(source, cycle, p, v)
        BY <1>1 DEF EvidenceEvent
    <2>2. PICK event \in {"belief_update", "agent_vote"}, w \in HexValues :
            PerceiveAndCycle(event, p, w)
        BY <2>1, EvidenceIsPerceived
    <2>3. Anchored(Perceived(p, w), live)
        BY PerceivedRaises
    <2>4. belief' = Settle(Perceived(p, w), live)
        BY <2>2 DEF PerceiveAndCycle
    <2>5. live' = live
        BY <2>1 DEF BeliefUpdate, AgentVote
    <2> QED BY <2>3, <2>4, <2>5 DEF Settles
<1>2. CASE RevisionEvent
    <2>1. live' = live
        BY <1>2, RevisionLeavesGoals
    <2>2. PICK p \in Props :
            \/ belief' = Settle([belief EXCEPT ![p] =
                                    RecomputeFromLedger(ledger'[p])], live)
            \/ belief' = Settle(belief, live)
        BY <1>2, RevisionReplaces
    <2> DEFINE v == RecomputeFromLedger(ledger'[p])
    <2>3. v \in HexValues
        <3>1. ledger'[p] \in Seq(Ledger!Evidence)
            BY DEF TypeOK, Ledger!LedgerTypeOK
        <3>2. \A i \in DOMAIN ledger'[p] : ledger'[p][i] \in Ledger!Evidence
            BY <3>1
        <3>3. \A i \in DOMAIN ledger'[p] : ledger'[p][i].value \in HexValues
            BY <3>2, ValuesOfTheLedger DEF Ledger!Evidence
        <3> QED BY <3>3, RecomputedType
    <2> HIDE DEF v
    <2>4. Anchored([belief EXCEPT ![p] = v], live) /\ Anchored(belief, live)
        BY <2>3, ReplacedAnchored, TypeGivesAnchored
    <2> QED BY <2>1, <2>2, <2>4 DEF Settles, v
<1>3. CASE RelationEvent
    <2>1. PICK e \in Edges :
            DeclareRelation(e) \/ RelationWithdrawal(e) \/ UnmatchedWithdrawal(e)
        BY <1>3 DEF RelationEvent
    <2>2. CASE DeclareRelation(e)
        BY <2>2, DeclarationSettles DEF Settles
    <2>3. CASE RelationWithdrawal(e)
        <3>1. belief' = Settle(WithoutDerived, live')
            BY <2>3 DEF RelationWithdrawal
        <3> QED BY <2>3, <3>1, WithdrawalSettles DEF Settles
    <2>4. CASE UnmatchedWithdrawal(e)
        <3>1. belief' = Settle(belief, live) /\ live' = live
            BY <2>4 DEF UnmatchedWithdrawal
        <3> QED BY <3>1, TypeGivesAnchored DEF Settles
    <2> QED BY <2>1, <2>2, <2>3, <2>4
<1>4. CASE GoalEvent
    <2>1. belief' = Settle(belief, live) /\ live' = live
        BY <1>4, Zenon DEF GoalEvent, GoalUpdate
    <2> QED BY <2>1, TypeGivesAnchored DEF Settles
<1> QED BY <1>1, <1>2, <1>3, <1>4 DEF Next

\* With three rounds for every proposition, what a pass has settled another
\* pass leaves alone.
LEMMA SettledOnce ==
    ASSUME NEW b, NEW edges, Anchored(b, edges),
           IsFiniteSet(Props), MaxRounds >= 3 * Cardinality(Props)
    PROVE  Settle(Settle(b, edges), edges) = Settle(b, edges)
<1> DEFINE on == LiveIn(edges)
           c == Settle(b, edges)
<1>1. MaxRounds \in Nat
    BY RevisionAssumption
<1>2. Linked(b, on) /\ \A a : Settle(a, edges) = Pass(a, on, MaxRounds)
    BY AnchoredIsLinked DEF Settle, LiveIn
<1> HIDE DEF on
<1>3. c = Pass(b, on, MaxRounds)
    BY <1>2
<1>4. Round(c, on) = c
    BY <1>1, <1>2, <1>3, PassSettles
<1> HIDE DEF c
<1>5. Pass(c, on, MaxRounds) = c
    BY <1>1, <1>4, SettledPassIsIdle
<1>6. Settle(c, edges) = c
    BY <1>2, <1>5
<1> QED BY <1>6 DEF c

\* No event leaves a derivation undone, whatever was retracted, withdrawn or
\* voted before, as long as the budget has three rounds for every proposition.
THEOREM EventsLeaveNothingToDerive ==
    IsFiniteSet(Props) /\ MaxRounds >= 3 * Cardinality(Props)
        => (Spec => []Quiescent)
<1> SUFFICES ASSUME IsFiniteSet(Props), MaxRounds >= 3 * Cardinality(Props)
             PROVE  Spec => []Quiescent
    OBVIOUS
<1>1. Init => Quiescent
    <2> SUFFICES ASSUME Init PROVE Settle(belief, live) = belief
        BY DEF Quiescent
    <2>1. LiveIn(live) = {}
        BY DEF Init, LiveIn
    <2>2. Round(belief, {}) = belief
        BY DEF Init, Round, RoundValue, Incoming, FiringInto
    <2>3. Anchored(belief, live)
        BY InitTypeOK, TypeGivesAnchored
    <2>4. Settle(belief, live) = Pass(belief, {}, MaxRounds)
        BY <2>1, <2>3, AnchoredIsLinked
    <2> QED BY <2>2, <2>4, SettledPassIsIdle, RevisionAssumption
<1>2. TypeOK /\ TypeOK' /\ Quiescent /\ [Next]_vars => Quiescent'
    <2> SUFFICES ASSUME TypeOK, TypeOK', Quiescent, [Next]_vars
                 PROVE  Quiescent'
        OBVIOUS
    <2>1. CASE Next
        <3>1. PICK b : Anchored(b, live') /\ belief' = Settle(b, live')
            BY <2>1, EveryEventSettles DEF Settles
        <3>2. Settle(Settle(b, live'), live') = Settle(b, live')
            BY <3>1, SettledOnce
        <3> QED BY <3>1, <3>2 DEF Quiescent
    <2>2. CASE UNCHANGED vars
        BY <2>2 DEF vars, Quiescent, Settle
    <2> QED BY <2>1, <2>2
<1> QED BY <1>1, <1>2, LoopTypeCorrect, PTL DEF Spec

-----------------------------------------------------------------------------
(* Recomputing over tombstones gives what the survivors alone would give.  *)

\* What an entry makes of the survivors before it.
Kept(kept, e) == IF e.retracted THEN kept ELSE Append(kept, e)

KeepsEach(entries) ==
    [i \in DOMAIN entries |->
        [kept \in Seq(Ledger!Evidence) |-> Kept(kept, entries[i])]]

LEMMA KeptType ==
    ASSUME NEW kept \in Seq(Ledger!Evidence), NEW e \in Ledger!Evidence
    PROVE  Kept(kept, e) \in Seq(Ledger!Evidence)
BY DEF Kept

\* The survivors are gathered position by position, the last one outermost.
LEMMA SurvivorsFold ==
    ASSUME NEW entries \in Seq(Ledger!Evidence)
    PROVE  \E g : /\ Survivors(entries) = g[DOMAIN entries]
                  /\ \A s \in SUBSET DOMAIN entries :
                        g[s] = IF s = {} THEN <<>>
                               ELSE Kept(g[s \ {Max(s)}], entries[Max(s)])
<1> DEFINE D == DOMAIN entries
           Body(f) ==
        [s \in SUBSET D |->
            IF s = {} THEN <<>>
            ELSE IF entries[Max(s)].retracted
                 THEN f[s \ {Max(s)}]
                 ELSE Append(f[s \ {Max(s)}], entries[Max(s)])]
           total == CHOOSE f : f = Body(f)
           pick == LastOf(entries)
           effect == KeepsEach(entries)
<1>1. Survivors(entries) = total[D]
    BY Zenon DEF Survivors, FoldLeft, MapThenFoldSet
<1>2. /\ IsFiniteSet(D) /\ IsPick(pick, D)
      /\ \A s \in SUBSET D : pick[s] = Max(s)
      /\ \A s \in SUBSET D : s # {} => Max(s) \in D /\ Max(s) \in s
    <2>1. Len(entries) \in Nat /\ D = 1 .. Len(entries)
        OBVIOUS
    <2>2. IsFiniteSet(D)
        BY <2>1, FS_Interval
    <2>3. \A s \in SUBSET D : s # {} => Max(s) \in s
        BY <2>1, LastPosition
    <2>4. \A s \in SUBSET D : pick[s] = Max(s)
        BY DEF LastOf
    <2> HIDE DEF D, pick
    <2> QED BY <2>2, <2>3, <2>4 DEF IsPick
<1>3. \A i \in D : \A kept \in Seq(Ledger!Evidence) :
        /\ effect[i][kept] = Kept(kept, entries[i])
        /\ effect[i][kept] \in Seq(Ledger!Evidence)
    <2>1. \A i \in D : entries[i] \in Ledger!Evidence
        OBVIOUS
    <2> QED BY <2>1, KeptType DEF KeepsEach
<1> HIDE DEF D, pick, effect
<1>4. PICK g : IsFold(g, D, pick, <<>>, effect)
    BY <1>2, FoldExists
<1>5. \A s \in SUBSET D : g[s] \in Seq(Ledger!Evidence)
    <2>1. <<>> \in Seq(Ledger!Evidence)
        OBVIOUS
    <2>2. Keeps(Seq(Ledger!Evidence), D, <<>>, effect)
        BY <1>3, <2>1 DEF Keeps
    <2> QED BY <1>2, <1>4, <2>2, FoldType
<1>6. \A s \in SUBSET D :
        g[s] = IF s = {} THEN <<>> ELSE Kept(g[s \ {Max(s)}], entries[Max(s)])
    <2> SUFFICES ASSUME NEW s \in SUBSET D
                 PROVE  g[s] = IF s = {} THEN <<>>
                               ELSE Kept(g[s \ {Max(s)}], entries[Max(s)])
        OBVIOUS
    <2>1. g[s] = IF s = {} THEN <<>> ELSE effect[pick[s]][g[s \ {pick[s]}]]
        BY <1>4 DEF IsFold
    <2>2. s # {} => Max(s) \in D /\ g[s \ {Max(s)}] \in Seq(Ledger!Evidence)
        BY <1>2, <1>5
    <2> QED BY <1>2, <1>3, <2>1, <2>2
<1>7. g = Body(g)
    <2>1. \A s \in SUBSET D : Body(g)[s] = g[s]
        BY <1>6 DEF Kept
    <2>2. g = [s \in SUBSET D |-> g[s]]
        BY <1>4 DEF IsFold
    <2>3. Body(g) = [s \in SUBSET D |-> Body(g)[s]]
        OBVIOUS
    <2> HIDE DEF Body
    <2> QED BY <2>1, <2>2, <2>3
<1>8. total = Body(total)
    <2> HIDE DEF Body
    <2> QED BY <1>7, Zenon
<1>9. \A s \in SUBSET D :
        total[s] = IF s = {} THEN <<>>
                   ELSE Kept(total[s \ {Max(s)}], entries[Max(s)])
    <2> HIDE DEF total
    <2> QED BY <1>8 DEF Kept
<1> HIDE DEF total, Body
<1> QED BY <1>1, <1>9 DEF D

\* f takes the positions in s that stand to the places of their entries in
\* the list kept, one to one and onto.
Placing(f, s, entries, kept) ==
    /\ f \in [s \cap Standing(entries) -> DOMAIN kept]
    /\ \A i \in DOMAIN f, j \in DOMAIN f : f[i] = f[j] => i = j
    /\ \A k \in DOMAIN kept : \E i \in DOMAIN f : f[i] = k
    /\ \A i \in DOMAIN f : kept[f[i]] = entries[i]

LEMMA OneMorePlaced ==
    ASSUME NEW entries \in Seq(Ledger!Evidence), NEW s \in SUBSET DOMAIN entries,
           NEW m \in s, NEW kept \in Seq(Ledger!Evidence),
           NEW f, Placing(f, s \ {m}, entries, kept)
    PROVE  \E h : Placing(h, s, entries, Kept(kept, entries[m]))
<1>1. entries[m] \in Ledger!Evidence
    OBVIOUS
<1>2. CASE entries[m].retracted
    <2>1. s \cap Standing(entries) = (s \ {m}) \cap Standing(entries)
        BY <1>2 DEF Standing
    <2>2. Kept(kept, entries[m]) = kept
        BY <1>2 DEF Kept
    <2>3. Placing(f, s, entries, kept)
        BY <2>1, Zenon DEF Placing
    <2> QED BY <2>2, <2>3
<1>3. CASE ~entries[m].retracted
    <2> DEFINE n == Len(kept)
               longer == Append(kept, entries[m])
               T == (s \ {m}) \cap Standing(entries)
               h == [i \in s \cap Standing(entries) |-> IF i = m THEN n + 1 ELSE f[i]]
    <2>1. s \cap Standing(entries) = T \cup {m} /\ m \notin T
        BY <1>3 DEF Standing
    <2>2. /\ n \in Nat /\ DOMAIN kept = 1 .. n /\ DOMAIN longer = 1 .. n + 1
          /\ longer[n + 1] = entries[m] /\ \A k \in 1 .. n : longer[k] = kept[k]
        BY <1>1
    <2>3. /\ f \in [T -> 1 .. n]
          /\ \A i \in T, j \in T : f[i] = f[j] => i = j
          /\ \A k \in 1 .. n : \E i \in T : f[i] = k
          /\ \A i \in T : kept[f[i]] = entries[i]
        BY <2>2 DEF Placing
    <2>4. DOMAIN h = T \cup {m} /\ h[m] = n + 1 /\ \A i \in T : h[i] = f[i]
        BY <2>1
    <2> HIDE DEF n, longer, T
    <2>5. h \in [s \cap Standing(entries) -> 1 .. n + 1]
        BY <2>1, <2>2, <2>3
    <2> HIDE DEF h
    <2>6. \A i \in DOMAIN h, j \in DOMAIN h : h[i] = h[j] => i = j
        <3>1. \A i \in T : h[i] # n + 1
            BY <2>2, <2>3, <2>4
        <3> QED BY <2>3, <2>4, <3>1
    <2>7. \A k \in 1 .. n + 1 : \E i \in DOMAIN h : h[i] = k
        <3>1. \A k \in 1 .. n + 1 : k = n + 1 \/ k \in 1 .. n
            BY <2>2
        <3> QED BY <2>3, <2>4, <3>1
    <2>8. \A i \in DOMAIN h : longer[h[i]] = entries[i]
        BY <2>2, <2>3, <2>4
    <2>9. Kept(kept, entries[m]) = longer
        BY <1>3 DEF Kept, longer
    <2> QED BY <2>2, <2>5, <2>6, <2>7, <2>8, <2>9 DEF Placing
<1> QED BY <1>2, <1>3

\* The survivors are the standing entries, each in one place.
LEMMA SurvivorsArePlaced ==
    ASSUME NEW entries \in Seq(Ledger!Evidence)
    PROVE  /\ Survivors(entries) \in Seq(Ledger!Evidence)
           /\ \E f : Placing(f, DOMAIN entries, entries, Survivors(entries))
<1> DEFINE D == DOMAIN entries
<1>1. PICK g : /\ Survivors(entries) = g[D]
               /\ \A s \in SUBSET D :
                        g[s] = IF s = {} THEN <<>>
                               ELSE Kept(g[s \ {Max(s)}], entries[Max(s)])
    BY SurvivorsFold
<1>2. /\ IsFiniteSet(D)
      /\ \A s \in SUBSET D : s # {} => Max(s) \in s
    <2>1. Len(entries) \in Nat /\ D = 1 .. Len(entries)
        OBVIOUS
    <2>2. \A s \in SUBSET (1 .. Len(entries)) : s # {} => Max(s) \in s
        BY <2>1, LastPosition
    <2>3. IsFiniteSet(1 .. Len(entries))
        BY <2>1, FS_Interval
    <2> QED BY <2>1, <2>2, <2>3
<1>3. \A i \in D : entries[i] \in Ledger!Evidence
    OBVIOUS
<1> DEFINE good == {s \in SUBSET D : /\ g[s] \in Seq(Ledger!Evidence)
                                     /\ \E f : Placing(f, s, entries, g[s])}
           bad == (SUBSET D) \ good
<1>4. bad = {}
    <2> SUFFICES ASSUME bad # {} PROVE FALSE
        OBVIOUS
    <2>1. PICK U \in bad : \A V \in bad : V \subseteq U => V = U
        <3>1. bad \in SUBSET SUBSET D
            OBVIOUS
        <3> HIDE DEF bad, D
        <3> QED BY <1>2, <3>1, LeastSubset
    <2>2. CASE U = {}
        <3> DEFINE f == [i \in {} |-> 0]
        <3>1. g[U] = <<>> /\ <<>> \in Seq(Ledger!Evidence) /\ DOMAIN <<>> = {}
            <4>1. U \in SUBSET D
                BY <2>2
            <4>2. g[U] = <<>>
                BY <1>1, <2>2, <4>1
            <4> QED BY <4>2
        <3>2. U \cap Standing(entries) = {}
            BY <2>2
        <3>3. f \in [{} -> {}] /\ DOMAIN f = {}
            OBVIOUS
        <3> HIDE DEF f
        <3>4. Placing(f, U, entries, g[U])
            BY <3>1, <3>2, <3>3 DEF Placing
        <3> QED BY <2>1, <3>1, <3>4
    <2>3. CASE U # {}
        <3> DEFINE m == Max(U)
                   W == U \ {m}
        <3>1. U \in SUBSET D /\ m \in U /\ entries[m] \in Ledger!Evidence
            BY <1>2, <1>3, <2>1, <2>3
        <3>2. W \in good
            BY <2>1, <3>1
        <3>3. g[U] = Kept(g[W], entries[m])
            BY <1>1, <2>3, <3>1
        <3>4. g[W] \in Seq(Ledger!Evidence)
            BY <3>2
        <3>5. PICK f : Placing(f, W, entries, g[W])
            BY <3>2
        <3> HIDE DEF m, W, good, bad
        <3>6. \E h : Placing(h, U, entries, Kept(g[W], entries[m]))
            BY <3>1, <3>4, <3>5, OneMorePlaced DEF D, W
        <3>7. Kept(g[W], entries[m]) \in Seq(Ledger!Evidence)
            BY <3>1, <3>4, KeptType
        <3>8. U \in good
            BY <3>1, <3>3, <3>6, <3>7 DEF good
        <3> QED BY <2>1, <3>8 DEF bad
    <2> QED BY <2>2, <2>3
<1>5. D \in good
    BY <1>4
<1> QED BY <1>1, <1>5

\* The contradiction that two opposed observations make.
DirectOf(a, b) ==
    Synthesis("direct", a.claim, a, b,
              (BelnapWeight(a.variant, b.variant) * Min({a.weight, b.weight})) \div 10)

LEMMA DirectFields ==
    ASSUME NEW a, NEW b
    PROVE  /\ DirectOf(a, b).source = MergeSource
           /\ DirectOf(a, b).variant = Contradictory
           /\ DirectOf(a, b).diagnosis.parents = DedupKeys({a, b})
BY Zenon DEF DirectOf, Synthesis

LEMMA DirectWeighs ==
    ASSUME NEW a, NEW b
    PROVE  DirectOf(a, b).weight =
                (BelnapWeight(a.variant, b.variant) * Min({a.weight, b.weight})) \div 10
BY Zenon DEF DirectOf, Synthesis

\* It does not matter which of the two comes first.
LEMMA DirectIsSymmetric ==
    ASSUME NEW a \in BeliefObs, NEW b \in BeliefObs
    PROVE  DirectOf(a, b) = DirectOf(b, a)
<1>1. {a, b} = {b, a} /\ {a.round, b.round} = {b.round, a.round}
      /\ {a.weight, b.weight} = {b.weight, a.weight}
    OBVIOUS
<1>2. a.claim = b.claim
    BY DEF BeliefObs
<1>3. BelnapWeight(a.variant, b.variant) = BelnapWeight(b.variant, a.variant)
    <2>1. {a.variant, b.variant} = {b.variant, a.variant}
        OBVIOUS
    <2> QED BY <2>1, Zenon DEF BelnapWeight
<1> QED BY <1>1, <1>2, <1>3, Zenon DEF DirectOf, Synthesis

\* A contradiction names the observations it was derived from.
LEMMA DirectTells ==
    ASSUME NEW S \in SUBSET BeliefObs, Distinct(S),
           NEW a \in S, NEW b \in S, NEW c \in S, NEW d \in S,
           DirectOf(a, b) = DirectOf(c, d)
    PROVE  {a, b} = {c, d}
<1>1. DedupKeys({a, b}) = DedupKeys({c, d})
    BY DirectFields
<1>2. /\ DedupKeys({a, b}) = {DedupKey(a), DedupKey(b)}
      /\ DedupKeys({c, d}) = {DedupKey(c), DedupKey(d)}
    BY DEF DedupKeys
<1>3. \A x \in S, y \in S : DedupKey(x) = DedupKey(y) => x = y
    BY DEF Distinct
<1> QED BY <1>1, <1>2, <1>3

\* Twins differ at most in their slots.
Twin(o, q) ==
    o.source = q.source /\ o.variant = q.variant /\ o.weight = q.weight
IsTwinning(h, S, T) ==
    /\ h \in [S -> T]
    /\ \A o \in S, q \in S : h[o] = h[q] => o = q
    /\ \A t \in T : \E o \in S : h[o] = t
    /\ \A o \in S : Twin(o, h[o])

LEMMA TwinsClashAlike ==
    ASSUME NEW a \in BeliefObs, NEW b \in BeliefObs,
           NEW c \in BeliefObs, NEW d \in BeliefObs, Twin(a, c), Twin(b, d)
    PROVE  /\ ClashDirectly(a, b) <=> ClashDirectly(c, d)
           /\ DirectOf(a, b).weight = DirectOf(c, d).weight
<1>1. a.claim = c.claim /\ b.claim = d.claim
    BY DEF BeliefObs
<1>2. a.variant = c.variant /\ b.variant = d.variant /\ a.source = c.source
      /\ b.source = d.source /\ a.weight = c.weight /\ b.weight = d.weight
    BY DEF Twin
<1>3. ClashDirectly(a, b) <=> ClashDirectly(c, d)
    BY <1>1, <1>2, Zenon DEF ClashDirectly
<1>4. DirectOf(a, b).weight = DirectOf(c, d).weight
    <2> DEFINE Weight(v, w, i, j) == (BelnapWeight(v, w) * Min({i, j})) \div 10
    <2>1. DirectOf(a, b).weight = Weight(a.variant, b.variant, a.weight, b.weight)
        BY DirectWeighs, Zenon
    <2>2. DirectOf(c, d).weight = Weight(c.variant, d.variant, c.weight, d.weight)
        BY DirectWeighs, Zenon
    <2> HIDE DEF Weight
    <2> QED BY <1>2, <2>1, <2>2
<1> QED BY <1>3, <1>4

\* One claim has no aspects to conflict.
LEMMA MergedBeliefs ==
    ASSUME NEW S \in SUBSET BeliefObs
    PROVE  /\ \A a \in S, b \in S :
                ClashDirectly(a, b) => DirectOf(a, b) \in WithContradictions(S)
           /\ \A o \in WithContradictions(S) \ S : \E a \in S, b \in S :
                ClashDirectly(a, b) /\ o = DirectOf(a, b)
           /\ S \subseteq WithContradictions(S)
<1> DEFINE D == {q \in S \X S : ClashDirectly(q[1], q[2])}
<1>1. MetaConflicts(S) = {}
    <2>1. \A q \in S \X S : ~ClashAcrossAspects(q[1], q[2])
        BY DEF ClashAcrossAspects, BeliefObs
    <2>2. {q \in S \X S : ClashAcrossAspects(q[1], q[2])} = {}
        BY <2>1
    <2> QED BY <2>2, Zenon DEF MetaConflicts
<1>2. DirectContradictions(S) = {DirectOf(q[1], q[2]) : q \in D}
    BY Zenon DEF DirectContradictions, DirectOf
<1>3. ASSUME NEW a \in S, NEW b \in S, ClashDirectly(a, b)
      PROVE  DirectOf(a, b) \in DirectContradictions(S)
    <2>1. <<a, b>> \in D /\ <<a, b>>[1] = a /\ <<a, b>>[2] = b
        BY <1>3
    <2> HIDE DEF D
    <2> QED BY <1>2, <2>1
<1>4. ASSUME NEW o \in DirectContradictions(S)
      PROVE  \E a \in S, b \in S : ClashDirectly(a, b) /\ o = DirectOf(a, b)
    <2>1. PICK q \in D : o = DirectOf(q[1], q[2])
        BY <1>2, Zenon
    <2> QED BY <2>1
<1> QED BY <1>1, <1>3, <1>4 DEF WithContradictions

\* A map of one merged state onto another that keeps what is counted.
IsLikeness(h, S, T) ==
    /\ h \in [S -> T]
    /\ \A o \in S, q \in S : h[o] = h[q] => o = q
    /\ \A t \in T : \E o \in S : h[o] = t
    /\ \A o \in S : h[o].variant = o.variant /\ h[o].weight = o.weight

IsBeliefBase(S) ==
    /\ S \in SUBSET BeliefObs
    /\ Distinct(S)
    /\ \A o \in S : o.source # MergeSource

\* Twins are contradicted alike, and the contradictions are alike too.
LEMMA TwinsMergeAlike ==
    ASSUME NEW S, IsBeliefBase(S), NEW T, IsBeliefBase(T),
           NEW h, IsTwinning(h, S, T)
    PROVE  \E m : IsLikeness(m, WithContradictions(S), WithContradictions(T))
<1> DEFINE V == WithContradictions(S)
           W == WithContradictions(T)
           Parents(o) == CHOOSE p \in S \X S :
                            ClashDirectly(p[1], p[2]) /\ o = DirectOf(p[1], p[2])
           Derived(o) == DirectOf(h[Parents(o)[1]], h[Parents(o)[2]])
           m == [o \in V |-> IF o \in S THEN h[o] ELSE Derived(o)]
<1>1. /\ S \in SUBSET BeliefObs /\ T \in SUBSET BeliefObs
      /\ S \subseteq V /\ T \subseteq W
      /\ \A o \in S : h[o] \in T /\ Twin(o, h[o])
    BY MergedBeliefs DEF IsBeliefBase, IsTwinning
<1>2. \A a \in S, b \in S :
        /\ ClashDirectly(a, b) <=> ClashDirectly(h[a], h[b])
        /\ DirectOf(a, b).weight = DirectOf(h[a], h[b]).weight
    BY <1>1, TwinsClashAlike
<1>3. \A o \in V \ S :
        /\ Parents(o) \in S \X S
        /\ ClashDirectly(Parents(o)[1], Parents(o)[2])
        /\ o = DirectOf(Parents(o)[1], Parents(o)[2])
    <2> SUFFICES ASSUME NEW o \in V \ S
                 PROVE  \E p \in S \X S :
                            ClashDirectly(p[1], p[2]) /\ o = DirectOf(p[1], p[2])
        BY Zenon
    <2>1. PICK a \in S, b \in S : ClashDirectly(a, b) /\ o = DirectOf(a, b)
        BY <1>1, MergedBeliefs
    <2>2. <<a, b>> \in S \X S /\ <<a, b>>[1] = a /\ <<a, b>>[2] = b
        OBVIOUS
    <2> QED BY <2>1, <2>2
<1> HIDE DEF V, W, Parents
\* What a pair of twins derives does not depend on the pair chosen.
<1>4. ASSUME NEW o \in V \ S, NEW a \in S, NEW b \in S, o = DirectOf(a, b)
      PROVE  Derived(o) = DirectOf(h[a], h[b])
    <2> DEFINE c == Parents(o)[1]
               d == Parents(o)[2]
    <2>1. c \in S /\ d \in S /\ DirectOf(c, d) = DirectOf(a, b)
        BY <1>3, <1>4
    <2> HIDE DEF c, d
    <2>2. {c, d} = {a, b}
        <3>1. Distinct(S)
            BY DEF IsBeliefBase
        <3> QED BY ONLY <1>1, <1>4, <2>1, <3>1, DirectTells
    <2>3. \/ c = a /\ d = b
          \/ c = b /\ d = a
        BY <2>2
    <2>4. DirectOf(h[b], h[a]) = DirectOf(h[a], h[b])
        BY <1>1, DirectIsSymmetric
    <2> QED BY <2>3, <2>4 DEF c, d
<1>5. \A o \in V \ S : /\ Derived(o) \in W
                       /\ Derived(o).source = MergeSource
                       /\ Derived(o).variant = o.variant
                       /\ Derived(o).weight = o.weight
    <2> SUFFICES ASSUME NEW o \in V \ S
                 PROVE  /\ Derived(o) \in W
                        /\ Derived(o).source = MergeSource
                        /\ Derived(o).variant = o.variant
                        /\ Derived(o).weight = o.weight
        OBVIOUS
    <2>1. PICK a \in S, b \in S : ClashDirectly(a, b) /\ o = DirectOf(a, b)
        BY <1>3
    <2>2. Derived(o) = DirectOf(h[a], h[b])
        BY <1>4, <2>1
    <2>3. DirectOf(h[a], h[b]) \in W
        BY <1>1, <1>2, <2>1, MergedBeliefs DEF W
    <2>4. /\ DirectOf(h[a], h[b]).source = MergeSource
          /\ DirectOf(h[a], h[b]).variant = Contradictory
          /\ DirectOf(a, b).variant = Contradictory
        BY DirectFields, Zenon
    <2>5. DirectOf(h[a], h[b]).weight = DirectOf(a, b).weight
        BY <1>2
    <2> HIDE DEF Derived
    <2> QED BY <2>1, <2>2, <2>3, <2>4, <2>5
<1> HIDE DEF Derived
<1>6. m \in [V -> W]
    BY <1>1, <1>5
<1>7. /\ \A o \in S : m[o] = h[o] /\ o \in V
      /\ \A o \in V \ S : m[o] = Derived(o)
    BY <1>1
<1> HIDE DEF m
<1>8. \A o \in V : m[o].variant = o.variant /\ m[o].weight = o.weight
    BY <1>1, <1>5, <1>7 DEF Twin
<1>9. ASSUME NEW o \in V, NEW q \in V, m[o] = m[q]
      PROVE  o = q
    <2>1. \A x \in S : m[x].source # MergeSource
        BY <1>1, <1>7 DEF IsBeliefBase
    <2>2. \A x \in V \ S : m[x].source = MergeSource
        BY <1>5, <1>7
    <2>3. CASE o \in S /\ q \in S
        BY <1>7, <1>9, <2>3 DEF IsTwinning
    <2>4. CASE o \notin S /\ q \notin S
        <3>1. PICK a \in S, b \in S : ClashDirectly(a, b) /\ o = DirectOf(a, b)
            BY <1>3, <2>4
        <3>2. PICK c \in S, d \in S : ClashDirectly(c, d) /\ q = DirectOf(c, d)
            BY <1>3, <2>4
        <3>3. DirectOf(h[a], h[b]) = DirectOf(h[c], h[d])
            BY <1>4, <1>7, <1>9, <2>4, <3>1, <3>2
        <3>4. {h[a], h[b]} = {h[c], h[d]}
            <4>1. Distinct(T)
                BY DEF IsBeliefBase
            <4>2. PICK x \in T, y \in T, z \in T, t \in T :
                    x = h[a] /\ y = h[b] /\ z = h[c] /\ t = h[d]
                BY <1>1
            <4>3. DirectOf(x, y) = DirectOf(z, t)
                BY <3>3, <4>2
            <4>4. {x, y} = {z, t}
                <5>1. T \in SUBSET BeliefObs
                    BY <1>1
                <5> QED BY ONLY <4>1, <4>3, <5>1, DirectTells
            <4> QED BY <4>2, <4>4
        <3>5. \/ h[a] = h[c] /\ h[b] = h[d]
              \/ h[a] = h[d] /\ h[b] = h[c]
            BY <3>4
        <3>6. \/ a = c /\ b = d
              \/ a = d /\ b = c
            BY <3>5 DEF IsTwinning
        <3>7. DirectOf(a, b) = DirectOf(b, a)
            BY <1>1, DirectIsSymmetric
        <3> QED BY <3>1, <3>2, <3>6, <3>7
    <2> QED BY <1>9, <2>1, <2>2, <2>3, <2>4
<1>10. ASSUME NEW t \in W PROVE \E o \in V : m[o] = t
    <2>1. CASE t \in T
        <3>1. PICK o \in S : h[o] = t
            BY <2>1 DEF IsTwinning
        <3> QED BY <1>7, <3>1
    <2>2. CASE t \notin T
        <3>1. PICK c \in T, d \in T : ClashDirectly(c, d) /\ t = DirectOf(c, d)
            BY <1>1, <1>10, <2>2, MergedBeliefs DEF W
        <3>2. PICK a \in S, b \in S : h[a] = c /\ h[b] = d
            BY DEF IsTwinning
        <3>3. ClashDirectly(a, b)
            BY <1>2, <3>1, <3>2
        <3>4. DirectOf(a, b) \in V
            BY <1>1, <3>3, MergedBeliefs DEF V
        <3>5. DirectOf(a, b) \notin S
            BY DirectFields DEF IsBeliefBase
        <3>6. m[DirectOf(a, b)] = t
            BY <1>4, <1>7, <3>1, <3>2, <3>4, <3>5
        <3> QED BY <3>4, <3>6
    <2> QED BY <2>1, <2>2
<1> QED BY <1>6, <1>8, <1>9, <1>10 DEF IsLikeness, V, W

\* Alike states weigh alike.
LEMMA LikenessKeepsMass ==
    ASSUME NEW S, IsFiniteSet(S), \A o \in S : o.weight \in Nat,
           NEW T, IsFiniteSet(T), \A o \in T : o.weight \in Nat,
           NEW m, IsLikeness(m, S, T), NEW side
    PROVE  Mass(S, side) = Mass(T, side)
<1> DEFINE A == {o \in S : o.variant \in side}
           B == {o \in T : o.variant \in side}
           w == [o \in A |-> o.weight]
           u == [o \in B |-> o.weight]
           f == [o \in A |-> m[o]]
<1>1. /\ IsFiniteSet(A) /\ IsFiniteSet(B)
      /\ \A o \in A : o.weight \in Int
      /\ \A o \in B : o.weight \in Int
    BY FS_Subset
<1>2. w \in [A -> Int] /\ u \in [B -> Int]
    BY <1>1
<1>3. f \in [A -> B] /\ \A o \in A : f[o] = m[o]
    BY DEF IsLikeness
<1>4. \A x \in A, y \in A : f[x] = f[y] => x = y
    BY <1>3 DEF IsLikeness
<1>5. \A x \in A : u[f[x]] = w[x]
    BY <1>3 DEF IsLikeness
<1>6. {f[x] : x \in A} = B
    <2>1. \A x \in A : f[x] \in B
        BY <1>3
    <2>2. \A y \in B : \E x \in A : f[x] = y
        <3> SUFFICES ASSUME NEW y \in B PROVE \E x \in A : f[x] = y
            OBVIOUS
        <3>1. PICK x \in S : m[x] = y
            BY DEF IsLikeness
        <3>2. x \in A
            BY <3>1 DEF IsLikeness
        <3> QED BY <1>3, <3>1, <3>2
    <2> HIDE DEF A, B, f
    <2> QED BY <2>1, <2>2
<1>7. Mass(S, side) = MapThenSumSet(WeightOf, A) /\ Mass(T, side) = MapThenSumSet(WeightOf, B)
    BY Zenon DEF Mass
<1> HIDE DEF A, B
<1>8. PICK g : IsSum(g, A, w) /\ MapThenSumSet(WeightOf, A) = g[A]
    BY <1>1, MassIsSum
<1>9. PICK k : IsSum(k, B, u) /\ MapThenSumSet(WeightOf, B) = k[B]
    BY <1>1, MassIsSum
<1> HIDE DEF w, u, f
<1>10. \A s \in SUBSET A : k[{f[x] : x \in s}] = g[s]
    BY <1>1, <1>2, <1>3, <1>4, <1>5, <1>8, <1>9, SumOfImage
<1>11. k[B] = g[A]
    <2>1. A \in SUBSET A
        OBVIOUS
    <2> QED BY <1>6, <1>10, <2>1
<1> QED BY <1>7, <1>8, <1>9, <1>11

\* What is projected of twins is the same.
LEMMA TwinsProjectAlike ==
    ASSUME NEW S, IsBeliefBase(S), IsFiniteSet(S),
           NEW T, IsBeliefBase(T), IsFiniteSet(T),
           NEW h, IsTwinning(h, S, T)
    PROVE  ProjectBelief(WithContradictions(S)) = ProjectBelief(WithContradictions(T))
<1> DEFINE V == WithContradictions(S)
           W == WithContradictions(T)
<1>1. S \in SUBSET BeliefObs /\ T \in SUBSET BeliefObs
    BY DEF IsBeliefBase
<1>2. /\ IsFiniteSet(V) /\ \A o \in V : o.weight \in Nat
      /\ IsFiniteSet(W) /\ \A o \in W : o.weight \in Nat
    BY <1>1, Synthesised
<1>3. PICK m : IsLikeness(m, V, W)
    BY TwinsMergeAlike
<1>4. BaseEvidence(V) = S /\ BaseEvidence(W) = T
    <2>1. \A X : IsBeliefBase(X) => BaseEvidence(WithContradictions(X)) = X
        <3> SUFFICES ASSUME NEW X, IsBeliefBase(X)
                     PROVE  BaseEvidence(WithContradictions(X)) = X
            OBVIOUS
        <3>1. X \in SUBSET BeliefObs
            BY DEF IsBeliefBase
        <3>2. \A o \in WithContradictions(X) \ X : o.source = MergeSource
            <4>1. \A o \in WithContradictions(X) \ X :
                    \E a \in X, b \in X : o = DirectOf(a, b)
                BY <3>1, MergedBeliefs
            <4>2. \A a, b : DirectOf(a, b).source = MergeSource
                BY DirectFields, Zenon
            <4> QED BY <4>1, <4>2
        <3>3. X \subseteq WithContradictions(X)
            BY <3>1, MergedBeliefs
        <3> QED BY <3>2, <3>3 DEF BaseEvidence, IsBeliefBase
    <2> QED BY <2>1
<1>5. EscalationTriggered(V) <=> EscalationTriggered(W)
    <2> HIDE DEF V, W
    <2>1. \A side : Mass(V, side) = Mass(W, side)
        BY <1>2, <1>3, LikenessKeepsMass
    <2> QED BY <2>1 DEF EscalationTriggered
<1>6. (S = {}) <=> (T = {})
    BY DEF IsTwinning
<1>7. {o.variant : o \in S} = {o.variant : o \in T}
    BY DEF IsTwinning, Twin
<1>8. \A side : {o.source : o \in {q \in S : q.variant \in side}} =
                {o.source : o \in {q \in T : q.variant \in side}}
    BY DEF IsTwinning, Twin
<1>9. \A side, strong, weak :
        Corroborated(S, side, strong, weak) = Corroborated(T, side, strong, weak)
    BY <1>8, Zenon DEF Corroborated
<1> DEFINE Projected(X, escalated, base) ==
        CASE escalated -> Contradictory
          [] X = {} -> Unknown
          [] OTHER ->
                CASE base = True -> Corroborated(X, Positive, True, Probable)
                  [] base = False -> Corroborated(X, Negative, False, Doubtful)
                  [] OTHER -> base
<1>10. \A X : ProjectBelief(X) =
            Projected(BaseEvidence(X), EscalationTriggered(X),
                      Highest({o.variant : o \in BaseEvidence(X)}))
    BY Zenon DEF ProjectBelief
<1>11. \A escalated, base : Projected(S, escalated, base) = Projected(T, escalated, base)
    BY <1>6, <1>9
<1> HIDE DEF V, W, Projected
<1>12. \A base : Projected(T, EscalationTriggered(V), base) =
                Projected(T, EscalationTriggered(W), base)
    BY <1>5 DEF Projected
<1>13. /\ ProjectBelief(V) = Projected(S, EscalationTriggered(V),
                                      Highest({o.variant : o \in S}))
       /\ ProjectBelief(W) = Projected(T, EscalationTriggered(W),
                                      Highest({o.variant : o \in T}))
    BY <1>4, <1>10, Zenon
<1> QED BY <1>7, <1>11, <1>12, <1>13, Zenon DEF V, W

\* A list of entries as the oracle observes it: numbered by its places.
OracleObs(entries, k) == [EvidenceObs(entries, k) EXCEPT !.round = k]
OracleView(entries) == {OracleObs(entries, k) : k \in DOMAIN entries}

LEMMA OracleObsType ==
    ASSUME NEW entries \in Seq(Ledger!Evidence), NEW k \in DOMAIN entries
    PROVE  /\ OracleObs(entries, k) \in BeliefObs
           /\ OracleObs(entries, k).source = entries[k].source
           /\ OracleObs(entries, k).variant = entries[k].value
           /\ OracleObs(entries, k).weight = SourceWeight[entries[k].source]
           /\ DedupKey(OracleObs(entries, k))[4] = k
<1>1. /\ EvidenceObs(entries, k) \in BeliefObs
      /\ EvidenceObs(entries, k).source = entries[k].source
      /\ EvidenceObs(entries, k).variant = entries[k].value
    BY ObsType
<1>2. EvidenceObs(entries, k).weight = SourceWeight[entries[k].source]
      /\ EvidenceObs(entries, k).ordinal = k
    BY Zenon DEF EvidenceObs
<1>3. k \in Nat
    OBVIOUS
<1>4. OracleObs(entries, k) \in BeliefObs
    BY <1>1, <1>3 DEF OracleObs, BeliefObs
<1>5. /\ OracleObs(entries, k).source = entries[k].source
      /\ OracleObs(entries, k).variant = entries[k].value
      /\ OracleObs(entries, k).weight = SourceWeight[entries[k].source]
      /\ OracleObs(entries, k).ordinal = k
    BY <1>1, <1>2 DEF OracleObs, BeliefObs
<1>6. DedupKey(OracleObs(entries, k))[4] = OracleObs(entries, k).ordinal
    BY DEF DedupKey
<1> QED BY <1>4, <1>5, <1>6

\* What the oracle makes of a list.
LEMMA OracleMerges ==
    ASSUME NEW entries \in Seq(Ledger!Evidence)
    PROVE  /\ IsBeliefBase(BaseEvidence(OracleView(entries)))
           /\ IsFiniteSet(BaseEvidence(OracleView(entries)))
           /\ RecomputeBelief(entries) = ProjectBelief(
                    WithContradictions(BaseEvidence(OracleView(entries))))
<1> DEFINE all == OracleView(entries)
           f == [k \in DOMAIN entries |-> OracleObs(entries, k)]
<1>1. all \in SUBSET BeliefObs
    BY OracleObsType DEF OracleView
<1>2. Distinct(all)
    <2> SUFFICES ASSUME NEW i \in DOMAIN entries, NEW j \in DOMAIN entries,
                        DedupKey(OracleObs(entries, i)) = DedupKey(OracleObs(entries, j))
                 PROVE  OracleObs(entries, i) = OracleObs(entries, j)
        BY DEF Distinct, OracleView
    <2>1. DedupKey(OracleObs(entries, i))[4] = i /\ DedupKey(OracleObs(entries, j))[4] = j
        BY OracleObsType
    <2> QED BY <2>1
<1>3. IsFiniteSet(all)
    <2>1. IsFiniteSet(DOMAIN entries)
        <3>1. DOMAIN entries = 1 .. Len(entries) /\ Len(entries) \in Nat
            OBVIOUS
        <3> QED BY <3>1, FS_Interval
    <2>2. all = {f[k] : k \in DOMAIN entries}
        BY DEF OracleView
    <2> HIDE DEF f
    <2> QED BY <2>1, <2>2, ImageIsFinite
<1>4. RecomputeBelief(entries) = ProjectBelief(Merge(all, 0, 0))
    BY Zenon DEF RecomputeBelief, MergeAll, OracleView, OracleObs
<1> HIDE DEF all
<1>5. BaseEvidence(all) \in SUBSET all
    BY DEF BaseEvidence
<1>6. IsFiniteSet(BaseEvidence(all))
    BY <1>3, <1>5, FS_Subset
<1>7. IsBeliefBase(BaseEvidence(all))
    BY <1>1, <1>2, <1>5 DEF IsBeliefBase, Distinct, BaseEvidence
<1>8. Merge(all, 0, 0) = WithContradictions(BaseEvidence(all))
    BY <1>1, <1>2, MergeOfDistinct
<1> QED BY <1>4, <1>6, <1>7, <1>8 DEF all

LEMMA RecomputationIsFaithful ==
    ASSUME NEW entries \in Seq(Ledger!Evidence)
    PROVE  RecomputeFromLedger(entries) = RecomputeBelief(Survivors(entries))
<1> DEFINE kept == Survivors(entries)
           S == BaseEvidence(Observed(entries))
           T == BaseEvidence(OracleView(kept))
<1>1. kept \in Seq(Ledger!Evidence)
    BY SurvivorsArePlaced
<1>2. PICK f : Placing(f, DOMAIN entries, entries, kept)
    BY SurvivorsArePlaced
<1>3. /\ IsBeliefBase(T) /\ IsFiniteSet(T)
      /\ RecomputeBelief(kept) = ProjectBelief(WithContradictions(T))
    <2> HIDE DEF kept
    <2> QED BY <1>1, OracleMerges
<1>4. /\ IsBeliefBase(S) /\ IsFiniteSet(S)
      /\ RecomputeFromLedger(entries) = ProjectBelief(WithContradictions(S))
    <2>1. /\ Observed(entries) \in SUBSET BeliefObs /\ IsFiniteSet(Observed(entries))
          /\ RecomputeFromLedger(entries) = ProjectBelief(WithContradictions(S))
        BY StandingIsObserved
    <2>2. S \in SUBSET Observed(entries)
        BY DEF BaseEvidence
    <2>3. Distinct(S)
        <3> SUFFICES ASSUME NEW i \in Standing(entries), NEW j \in Standing(entries),
                            DedupKey(EvidenceObs(entries, i)) = DedupKey(EvidenceObs(entries, j))
                     PROVE  EvidenceObs(entries, i) = EvidenceObs(entries, j)
            BY <2>2 DEF Distinct, Observed
        <3>1. i \in DOMAIN entries /\ j \in DOMAIN entries
            BY DEF Standing
        <3>2. DedupKey(EvidenceObs(entries, i))[4] = i /\ DedupKey(EvidenceObs(entries, j))[4] = j
            BY <3>1, ObsType
        <3> QED BY <3>2
    <2>4. \A o \in S : o.source # MergeSource
        BY DEF BaseEvidence
    <2>5. IsFiniteSet(S)
        BY <2>1, <2>2, FS_Subset
    <2> HIDE DEF S
    <2> QED BY <2>1, <2>2, <2>3, <2>4, <2>5 DEF IsBeliefBase
\* An observation's ordinal is its position.
<1> DEFINE h == [o \in S |-> OracleObs(kept, f[o.ordinal])]
<1>5. /\ \A i \in Standing(entries) : i \in DOMAIN entries
      /\ \A i \in Standing(entries) : f[i] \in DOMAIN kept /\ kept[f[i]] = entries[i]
      /\ \A i \in Standing(entries), j \in Standing(entries) : f[i] = f[j] => i = j
      /\ \A k \in DOMAIN kept : \E i \in Standing(entries) : f[i] = k
    <2>1. DOMAIN entries \cap Standing(entries) = Standing(entries)
        BY DEF Standing
    <2> HIDE DEF kept
    <2> QED BY <1>2, <2>1 DEF Placing
<1>6. \A i \in Standing(entries) :
        /\ EvidenceObs(entries, i).source = entries[i].source
        /\ EvidenceObs(entries, i).variant = entries[i].value
        /\ EvidenceObs(entries, i).weight = SourceWeight[entries[i].source]
        /\ EvidenceObs(entries, i).ordinal = i
    BY Zenon DEF EvidenceObs
<1> HIDE DEF kept
<1>7. \A k \in DOMAIN kept :
        /\ OracleObs(kept, k).source = kept[k].source
        /\ OracleObs(kept, k).variant = kept[k].value
        /\ OracleObs(kept, k).weight = SourceWeight[kept[k].source]
        /\ DedupKey(OracleObs(kept, k))[4] = k
    BY <1>1, OracleObsType
<1>8. \A i \in Standing(entries) : Twin(EvidenceObs(entries, i), OracleObs(kept, f[i]))
    BY <1>5, <1>6, <1>7 DEF Twin
<1>9. \A o \in S : \E i \in Standing(entries) :
        o = EvidenceObs(entries, i) /\ h[o] = OracleObs(kept, f[i])
    <2> SUFFICES ASSUME NEW o \in S
                 PROVE  \E i \in Standing(entries) :
                            o = EvidenceObs(entries, i) /\ h[o] = OracleObs(kept, f[i])
        OBVIOUS
    <2>1. PICK i \in Standing(entries) : o = EvidenceObs(entries, i)
        BY DEF BaseEvidence, Observed
    <2>2. o.ordinal = i
        BY <1>6, <2>1
    <2>3. h[o] = OracleObs(kept, f[o.ordinal])
        OBVIOUS
    <2> QED BY <2>1, <2>2, <2>3
<1>10. DOMAIN h = S /\ h = [o \in S |-> h[o]]
    OBVIOUS
<1>11. /\ \A o \in Observed(entries) : o.source # MergeSource => o \in S
       /\ \A q \in OracleView(kept) : q.source # MergeSource <=> q \in T
    BY DEF BaseEvidence
<1> HIDE DEF h, S, T
<1>12. \A o \in S : h[o] \in T /\ Twin(o, h[o])
    <2> SUFFICES ASSUME NEW o \in S PROVE h[o] \in T /\ Twin(o, h[o])
        OBVIOUS
    <2>1. PICK i \in Standing(entries) :
            o = EvidenceObs(entries, i) /\ h[o] = OracleObs(kept, f[i])
        BY <1>9
    <2>2. Twin(o, h[o])
        BY <1>8, <2>1
    <2>3. h[o].source # MergeSource
        BY <1>4, <2>2 DEF IsBeliefBase, Twin
    <2>4. h[o] \in OracleView(kept)
        BY <1>5, <2>1 DEF OracleView
    <2> QED BY <1>11, <2>2, <2>3, <2>4
<1>13. \A o \in S, q \in S : h[o] = h[q] => o = q
    <2> SUFFICES ASSUME NEW o \in S, NEW q \in S, h[o] = h[q] PROVE o = q
        OBVIOUS
    <2>1. PICK i \in Standing(entries) :
            o = EvidenceObs(entries, i) /\ h[o] = OracleObs(kept, f[i])
        BY <1>9
    <2>2. PICK j \in Standing(entries) :
            q = EvidenceObs(entries, j) /\ h[q] = OracleObs(kept, f[j])
        BY <1>9
    <2>3. f[i] = f[j]
        BY <1>5, <1>7, <2>1, <2>2
    <2> QED BY <1>5, <2>1, <2>2, <2>3
<1>14. \A t \in T : \E o \in S : h[o] = t
    <2> SUFFICES ASSUME NEW t \in T PROVE \E o \in S : h[o] = t
        OBVIOUS
    <2>1. t \in OracleView(kept) /\ t.source # MergeSource
        BY DEF T, BaseEvidence
    <2>2. PICK k \in DOMAIN kept : t = OracleObs(kept, k)
        BY <2>1 DEF OracleView
    <2>3. PICK i \in Standing(entries) : f[i] = k
        BY <1>5
    <2>4. EvidenceObs(entries, i).source # MergeSource
        BY <1>8, <2>1, <2>2, <2>3 DEF Twin
    <2>5. EvidenceObs(entries, i) \in S
        BY <1>11, <2>4 DEF Observed
    <2>6. PICK j \in Standing(entries) :
            /\ EvidenceObs(entries, i) = EvidenceObs(entries, j)
            /\ h[EvidenceObs(entries, i)] = OracleObs(kept, f[j])
        BY <1>9, <2>5
    <2>7. i = j
        BY <1>6, <2>6
    <2> QED BY <2>2, <2>3, <2>5, <2>6, <2>7
<1>15. IsTwinning(h, S, T)
    BY <1>10, <1>12, <1>13, <1>14 DEF IsTwinning
<1> QED BY <1>3, <1>4, <1>15, TwinsProjectAlike DEF kept

\* Retraction is faithful: whatever was reported, retracted and corrected, in
\* whatever order, a recomputation gives what the survivors alone would give.
THEOREM RetractionIsFaithful == Spec => []RecomputeMatchesOracle
<1>1. TypeOK => RecomputeMatchesOracle
    <2> SUFFICES ASSUME TypeOK, NEW p \in Props
                 PROVE  RecomputeFromLedger(ledger[p]) =
                            RecomputeBelief(Survivors(ledger[p]))
        BY DEF RecomputeMatchesOracle
    <2>1. ledger[p] \in Seq(Ledger!Evidence)
        BY DEF TypeOK, Ledger!LedgerTypeOK
    <2> QED BY <2>1, RecomputationIsFaithful
<1> QED BY <1>1, LoopTypeCorrect, PTL
=============================================================================
