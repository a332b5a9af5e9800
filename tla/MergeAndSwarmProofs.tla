------------------------ MODULE MergeAndSwarmProofs -------------------------
(***************************************************************************)
(* Theorems about those who tell each other what they hold.                *)
(*                                                                         *)
(* Replicas that carry, exchange and re-merge observations, for any        *)
(* replicas, agents, emissions, staleness budget and number of rounds:     *)
(* what is carried is as good as all the evidence ever received, with and  *)
(* without what was retracted, and neither an abstention nor a voice that  *)
(* opposes an agent's own mutes an escalation.                             *)
(*                                                                         *)
(* Agents of a swarm, for any agents, messages, trust and weights: the     *)
(* order in which they hear matters for Unknown only, and what they agree  *)
(* on lies between their votes.                                            *)
(***************************************************************************)
EXTENDS EvidenceMerge, Swarm, InductionFacts

-----------------------------------------------------------------------------
(* The versions of one slot.                                               *)

LEMMA LeastOfSet ==
    ASSUME NEW T \in SUBSET Nat, T # {}
    PROVE  Min(T) \in T /\ \A n \in T : Min(T) <= n
<1>1. \E m \in T : \A n \in T : m =< n
    BY LeastNatural
<1> QED BY <1>1 DEF Min

\* r is what the versions V of one slot resolve to.
IsResolution(r, V) ==
    /\ r \in EmissionType
    /\ \A o \in V : DedupKey(o) = DedupKey(r)
    /\ \A o \in V : ClaimOrder[r.claim] <= ClaimOrder[o.claim]
    /\ \E o \in V : r.claim = o.claim
    /\ \A o \in V : r.weight <= o.weight
    /\ \E o \in V : r.weight = o.weight
    /\ \/ \A o \in V : o.variant = r.variant
       \/ r.variant = Contradictory /\ \E o \in V, q \in V : o.variant # q.variant

LEMMA SameKey ==
    ASSUME NEW o, NEW q, DedupKey(o) = DedupKey(q)
    PROVE  /\ o.source = q.source /\ o.diagnosis = q.diagnosis
           /\ o.round = q.round /\ o.ordinal = q.ordinal
BY DEF DedupKey

LEMMA ResolutionIsUnique ==
    ASSUME NEW V \in SUBSET EmissionType,
           NEW r, IsResolution(r, V), NEW q, IsResolution(q, V)
    PROVE  r = q
<1>1. r \in EmissionType /\ q \in EmissionType
    BY DEF IsResolution
<1>2. DedupKey(r) = DedupKey(q)
    BY DEF IsResolution
<1>3. r.claim = q.claim
    <2>1. /\ ClaimOrder[r.claim] <= ClaimOrder[q.claim]
          /\ ClaimOrder[q.claim] <= ClaimOrder[r.claim]
        BY DEF IsResolution
    <2>2. r.claim \in DOMAIN ClaimOrder /\ q.claim \in DOMAIN ClaimOrder
        BY <1>1 DEF EmissionType
    <2>3. ClaimOrder[r.claim] \in Nat /\ ClaimOrder[q.claim] \in Nat
        BY <2>2, ClaimAssumption
    <2>4. ClaimOrder[r.claim] = ClaimOrder[q.claim]
        BY <2>1, <2>3
    <2> QED BY <2>2, <2>4, ClaimAssumption
<1>4. r.weight = q.weight
    <2>1. r.weight <= q.weight /\ q.weight <= r.weight
        BY DEF IsResolution
    <2>2. r.weight \in Nat /\ q.weight \in Nat
        BY <1>1 DEF EmissionType
    <2> QED BY <2>1, <2>2
<1>5. r.variant = q.variant
    BY DEF IsResolution
<1>6. /\ r.source = q.source /\ r.diagnosis = q.diagnosis
      /\ r.round = q.round /\ r.ordinal = q.ordinal
    BY <1>2, SameKey
<1> QED BY <1>1, <1>3, <1>4, <1>5, <1>6 DEF EmissionType

LEMMA ResolveIsResolution ==
    ASSUME NEW V \in SUBSET EmissionType, V # {},
           \A o \in V, q \in V : DedupKey(o) = DedupKey(q)
    PROVE  IsResolution(ResolveKeyVersions(V), V)
<1> DEFINE any == CHOOSE o \in V : TRUE
           claims == {o.claim : o \in V}
           weights == {o.weight : o \in V}
           variants == {o.variant : o \in V}
           single == Cardinality(variants) = 1
           r == ResolveKeyVersions(V)
<1>1. r = [any EXCEPT !.claim = LeastClaim(claims), !.weight = Min(weights),
                      !.variant = IF single THEN any.variant ELSE Contradictory]
    BY Zenon DEF ResolveKeyVersions
<1>2. any \in V /\ any \in EmissionType
    OBVIOUS
<1>3. /\ LeastClaim(claims) \in claims
      /\ \A d \in claims : ClaimOrder[LeastClaim(claims)] <= ClaimOrder[d]
    <2>1. claims # {} /\ claims \subseteq DOMAIN ClaimOrder
        BY DEF EmissionType
    <2> HIDE DEF claims
    <2> DEFINE orders == {ClaimOrder[c] : c \in claims}
    <2>2. orders \in SUBSET Nat /\ orders # {}
        BY <2>1, ClaimAssumption
    <2>3. PICK m \in orders : \A n \in orders : m <= n
        <3> HIDE DEF orders
        <3> QED BY <2>2, LeastNatural
    <2>4. \E c \in claims : \A d \in claims : ClaimOrder[c] <= ClaimOrder[d]
        BY <2>3
    <2> QED BY <2>4 DEF LeastClaim
<1>4. Min(weights) \in weights /\ \A n \in weights : Min(weights) <= n
    <2>1. weights \in SUBSET Nat /\ weights # {}
        BY DEF EmissionType
    <2> HIDE DEF weights
    <2> QED BY <2>1, LeastOfSet
<1>5. single => \A o \in V : o.variant = any.variant
    <2>1. IsFiniteSet(variants)
        <3>1. variants \in SUBSET HexValues
            BY DEF EmissionType
        <3>2. HexValues = {True, Probable, Unknown, Doubtful, False, Contradictory}
            BY DEF HexValues
        <3>3. IsFiniteSet(HexValues)
            <4>2. \A a, b : IsFiniteSet({a, b})
                <5> SUFFICES ASSUME NEW a, NEW b PROVE IsFiniteSet({a, b})
                    OBVIOUS
                <5>1. IsFiniteSet({a})
                    BY FS_Singleton
                <5>2. IsFiniteSet({a} \cup {b})
                    BY <5>1, FS_AddElement
                <5>3. {a, b} = {a} \cup {b}
                    OBVIOUS
                <5> QED BY <5>2, <5>3
            <4>3. HexValues = {True, Probable} \cup {Unknown, Doubtful}
                                \cup {False, Contradictory}
                BY <3>2
            <4> QED BY <4>2, <4>3, FS_Union
        <3> QED BY <3>1, <3>3, FS_Subset
    <2>2. single => \E v : variants = {v}
        <3> HIDE DEF variants
        <3> QED BY <2>1, FS_Singleton
    <2> HIDE DEF single
    <2> QED BY <1>2, <2>2
<1>6. ~single => \E o \in V, q \in V : o.variant # q.variant
    <2> SUFFICES ASSUME \A o \in V, q \in V : o.variant = q.variant PROVE single
        OBVIOUS
    <2>1. variants = {any.variant}
        BY <1>2
    <2>2. Cardinality({any.variant}) = 1
        BY FS_Singleton
    <2> QED BY <2>1, <2>2
<1> HIDE DEF any, claims, weights, variants, single, r
<1>7. /\ r.claim = LeastClaim(claims) /\ r.weight = Min(weights)
      /\ r.variant = IF single THEN any.variant ELSE Contradictory
      /\ DedupKey(r) = DedupKey(any)
    BY <1>1, <1>2 DEF EmissionType, DedupKey
<1>8. r \in EmissionType
    <2>1. LeastClaim(claims) \in DOMAIN ClaimOrder
        BY <1>3 DEF claims, EmissionType
    <2>2. Min(weights) \in Nat
        BY <1>4 DEF weights, EmissionType
    <2>3. Contradictory \in HexValues
        BY DEF HexValues
    <2> QED BY <1>1, <1>2, <2>1, <2>2, <2>3 DEF EmissionType
<1>9. \A o \in V : DedupKey(o) = DedupKey(r)
    BY <1>2, <1>7
<1>10. /\ \A o \in V : ClaimOrder[r.claim] <= ClaimOrder[o.claim]
       /\ \E o \in V : r.claim = o.claim
    BY <1>3, <1>7 DEF claims
<1>11. /\ \A o \in V : r.weight <= o.weight
       /\ \E o \in V : r.weight = o.weight
    BY <1>4, <1>7 DEF weights
<1>12. \/ \A o \in V : o.variant = r.variant
       \/ r.variant = Contradictory /\ \E o \in V, q \in V : o.variant # q.variant
    BY <1>5, <1>6, <1>7
<1> QED BY <1>8, <1>9, <1>10, <1>11, <1>12 DEF IsResolution, r

\* Resolving in stages is resolving at once.
LEMMA ResolutionInStages ==
    ASSUME NEW V \in SUBSET EmissionType, NEW W \in SUBSET EmissionType,
           NEW r, IsResolution(r, V), NEW q, IsResolution(q, {r} \cup W)
    PROVE  IsResolution(q, V \cup W)
<1>1. r \in EmissionType /\ q \in EmissionType
    BY DEF IsResolution
<1>2. \A o \in V \cup W : DedupKey(o) = DedupKey(q)
    BY DEF IsResolution
<1>3. /\ \A o \in V \cup W : ClaimOrder[q.claim] <= ClaimOrder[o.claim]
      /\ \E o \in V \cup W : q.claim = o.claim
    <2>1. \A o \in EmissionType : ClaimOrder[o.claim] \in Nat
        BY ClaimAssumption DEF EmissionType
    <2>2. ClaimOrder[q.claim] <= ClaimOrder[r.claim]
        BY DEF IsResolution
    <2>3. \A o \in V : ClaimOrder[r.claim] <= ClaimOrder[o.claim]
        BY DEF IsResolution
    <2>4. \A o \in V : ClaimOrder[q.claim] <= ClaimOrder[o.claim]
        BY <1>1, <2>1, <2>2, <2>3
    <2> QED BY <2>4 DEF IsResolution
<1>4. /\ \A o \in V \cup W : q.weight <= o.weight
      /\ \E o \in V \cup W : q.weight = o.weight
    <2>1. \A o \in EmissionType : o.weight \in Nat
        BY DEF EmissionType
    <2>2. q.weight <= r.weight
        BY DEF IsResolution
    <2>3. \A o \in V : r.weight <= o.weight
        BY DEF IsResolution
    <2>4. \A o \in V : q.weight <= o.weight
        BY <1>1, <2>1, <2>2, <2>3
    <2> QED BY <2>4 DEF IsResolution
<1>5. \/ \A o \in V \cup W : o.variant = q.variant
      \/ /\ q.variant = Contradictory
         /\ \E o \in V \cup W, p \in V \cup W : o.variant # p.variant
    BY DEF IsResolution
<1> QED BY <1>1, <1>2, <1>3, <1>4, <1>5 DEF IsResolution

-----------------------------------------------------------------------------
(* Deduplication.                                                          *)

Slot(S, k) == {o \in S : DedupKey(o) = k}

\* D holds one resolution for every slot of S.
IsDeduplication(D, S) ==
    /\ \A d \in D : IsResolution(d, Slot(S, DedupKey(d)))
    /\ \A o \in S : \E d \in D : DedupKey(d) = DedupKey(o)

\* No agent emits in the merge's name.
LEMMA AgentsEmit ==
    \A o \in EmissionType : o.source # MergeSource /\ o.weight \in Nat
BY MergeAssumption DEF EmissionType

LEMMA EmissionsAreBase ==
    ASSUME NEW S \in SUBSET EmissionType
    PROVE  BaseEvidence(S) = S
BY AgentsEmit DEF BaseEvidence

LEMMA DeduplicatedIs ==
    ASSUME NEW S \in SUBSET EmissionType
    PROVE  /\ Deduplicated(S) \in SUBSET EmissionType
           /\ IsDeduplication(Deduplicated(S), S)
<1>1. BaseEvidence(S) = S
    BY EmissionsAreBase
<1>2. Deduplicated(S) = {ResolveKeyVersions(Slot(S, k)) : k \in DedupKeys(S)}
    BY <1>1 DEF Deduplicated, Slot
<1>3. ASSUME NEW k \in DedupKeys(S)
      PROVE  /\ IsResolution(ResolveKeyVersions(Slot(S, k)), Slot(S, k))
             /\ DedupKey(ResolveKeyVersions(Slot(S, k))) = k
    <2>1. /\ Slot(S, k) \in SUBSET EmissionType /\ Slot(S, k) # {}
          /\ \A o \in Slot(S, k) : DedupKey(o) = k
        BY DEF Slot, DedupKeys
    <2>2. IsResolution(ResolveKeyVersions(Slot(S, k)), Slot(S, k))
        BY <2>1, ResolveIsResolution
    <2> QED BY <2>1, <2>2 DEF IsResolution
<1>4. \A d \in Deduplicated(S) :
        d \in EmissionType /\ IsResolution(d, Slot(S, DedupKey(d)))
    <2> SUFFICES ASSUME NEW d \in Deduplicated(S)
                 PROVE  d \in EmissionType /\ IsResolution(d, Slot(S, DedupKey(d)))
        OBVIOUS
    <2>1. PICK k \in DedupKeys(S) : d = ResolveKeyVersions(Slot(S, k))
        BY <1>2
    <2>2. DedupKey(d) = k /\ IsResolution(d, Slot(S, k))
        BY <1>3, <2>1
    <2> QED BY <2>2 DEF IsResolution
<1>5. \A o \in S : \E d \in Deduplicated(S) : DedupKey(d) = DedupKey(o)
    <2> SUFFICES ASSUME NEW o \in S
                 PROVE  \E d \in Deduplicated(S) : DedupKey(d) = DedupKey(o)
        OBVIOUS
    <2>1. DedupKey(o) \in DedupKeys(S)
        BY DEF DedupKeys
    <2>2. ResolveKeyVersions(Slot(S, DedupKey(o))) \in Deduplicated(S)
        BY <1>2, <2>1
    <2> QED BY <1>3, <2>1, <2>2
<1> QED BY <1>4, <1>5 DEF IsDeduplication

LEMMA DeduplicationIsUnique ==
    ASSUME NEW S \in SUBSET EmissionType,
           NEW C, IsDeduplication(C, S), NEW D, IsDeduplication(D, S)
    PROVE  C \subseteq D
<1> SUFFICES ASSUME NEW c \in C PROVE c \in D
    OBVIOUS
<1>1. IsResolution(c, Slot(S, DedupKey(c)))
    BY DEF IsDeduplication
<1>2. PICK o \in S : DedupKey(o) = DedupKey(c)
    BY <1>1 DEF IsResolution, Slot
<1>3. PICK d \in D : DedupKey(d) = DedupKey(c)
    BY <1>2 DEF IsDeduplication
<1>4. IsResolution(d, Slot(S, DedupKey(c)))
    BY <1>3 DEF IsDeduplication
<1>5. Slot(S, DedupKey(c)) \in SUBSET EmissionType
    BY DEF Slot
<1>6. c = d
    BY <1>1, <1>4, <1>5, ResolutionIsUnique
<1> QED BY <1>6

LEMMA DeduplicationIs ==
    ASSUME NEW S \in SUBSET EmissionType, NEW D, IsDeduplication(D, S)
    PROVE  D = Deduplicated(S)
BY DeduplicatedIs, DeduplicationIsUnique

\* What was deduplicated before may be deduplicated again with more.
LEMMA DedupInStages ==
    ASSUME NEW A \in SUBSET EmissionType, NEW B \in SUBSET EmissionType
    PROVE  Deduplicated(Deduplicated(A) \cup B) = Deduplicated(A \cup B)
<1> DEFINE D == Deduplicated(A)
           E == Deduplicated(D \cup B)
<1>1. /\ D \in SUBSET EmissionType /\ IsDeduplication(D, A)
      /\ E \in SUBSET EmissionType /\ IsDeduplication(E, D \cup B)
    <2>1. D \in SUBSET EmissionType /\ IsDeduplication(D, A)
        BY DeduplicatedIs
    <2> HIDE DEF D
    <2>2. D \cup B \in SUBSET EmissionType
        BY <2>1
    <2> QED BY <2>1, <2>2, DeduplicatedIs
<1> HIDE DEF D, E
<1>2. ASSUME NEW e \in E
      PROVE  IsResolution(e, Slot(A \cup B, DedupKey(e)))
    <2> DEFINE k == DedupKey(e)
    <2>1. IsResolution(e, Slot(D \cup B, k))
        BY <1>1 DEF IsDeduplication
    <2>2. /\ Slot(D \cup B, k) = Slot(D, k) \cup Slot(B, k)
          /\ Slot(A \cup B, k) = Slot(A, k) \cup Slot(B, k)
        BY DEF Slot
    <2>3. CASE Slot(A, k) = {}
        <3>1. Slot(D, k) = {}
            <4> SUFFICES ASSUME NEW d \in D, DedupKey(d) = k PROVE FALSE
                BY DEF Slot
            <4>1. IsResolution(d, Slot(A, k))
                BY <1>1 DEF IsDeduplication
            <4> QED BY <2>3, <4>1 DEF IsResolution
        <3> QED BY <2>1, <2>2, <2>3, <3>1
    <2>4. CASE Slot(A, k) # {}
        <3>1. PICK d \in D : DedupKey(d) = k
            BY <1>1, <2>4 DEF IsDeduplication, Slot
        <3>2. IsResolution(d, Slot(A, k))
            BY <1>1, <3>1 DEF IsDeduplication
        <3>3. Slot(A, k) \in SUBSET EmissionType /\ Slot(B, k) \in SUBSET EmissionType
            BY DEF Slot
        <3>4. Slot(D, k) = {d}
            <4>1. \A c \in D : DedupKey(c) = k => IsResolution(c, Slot(A, k))
                BY <1>1 DEF IsDeduplication
            <4>2. \A c \in D : DedupKey(c) = k => c = d
                BY <3>2, <3>3, <4>1, ResolutionIsUnique
            <4> QED BY <3>1, <4>2 DEF Slot
        <3>5. IsResolution(e, {d} \cup Slot(B, k))
            BY <2>1, <2>2, <3>4
        <3> HIDE DEF k
        <3>6. IsResolution(e, Slot(A, k) \cup Slot(B, k))
            BY <3>2, <3>3, <3>5, ResolutionInStages
        <3> QED BY <2>2, <3>6 DEF k
    <2> QED BY <2>3, <2>4
<1>3. ASSUME NEW o \in A \cup B
      PROVE  \E e \in E : DedupKey(e) = DedupKey(o)
    <2>1. \E q \in D \cup B : DedupKey(q) = DedupKey(o)
        BY <1>1 DEF IsDeduplication
    <2> QED BY <1>1, <2>1 DEF IsDeduplication
<1>4. IsDeduplication(E, A \cup B)
    BY <1>2, <1>3 DEF IsDeduplication
<1>5. A \cup B \in SUBSET EmissionType
    OBVIOUS
<1>6. E = Deduplicated(A \cup B)
    BY <1>4, <1>5, DeduplicationIs
<1> QED BY <1>6 DEF D, E

\* Leaving out whole slots may come before or after.
LEMMA DedupOfPart ==
    ASSUME NEW S \in SUBSET EmissionType, NEW W \in SUBSET S,
           \A o \in S, q \in W : DedupKey(o) = DedupKey(q) => o \in W
    PROVE  Deduplicated(W) = {d \in Deduplicated(S) : DedupKey(d) \in DedupKeys(W)}
<1> DEFINE D == {d \in Deduplicated(S) : DedupKey(d) \in DedupKeys(W)}
<1>1. IsDeduplication(Deduplicated(S), S)
    BY DeduplicatedIs
<1>2. \A k \in DedupKeys(W) : Slot(S, k) = Slot(W, k)
    BY DEF DedupKeys, Slot
<1>3. IsDeduplication(D, W)
    <2>1. \A d \in D : IsResolution(d, Slot(W, DedupKey(d)))
        BY <1>1, <1>2 DEF IsDeduplication
    <2>2. \A o \in W : \E d \in D : DedupKey(d) = DedupKey(o)
        BY <1>1 DEF IsDeduplication, DedupKeys
    <2> QED BY <2>1, <2>2 DEF IsDeduplication
<1>4. W \in SUBSET EmissionType
    OBVIOUS
<1> QED BY <1>3, <1>4, DeduplicationIs

-----------------------------------------------------------------------------
(* The window and the merge.                                               *)

LEMMA GreatestOfTwo ==
    ASSUME NEW m \in Int, NEW n \in Int
    PROVE  Max({m, n}) = IF m <= n THEN n ELSE m
<1>1. \E x \in {m, n} : \A y \in {m, n} : x >= y
    OBVIOUS
<1>2. Max({m, n}) \in {m, n} /\ \A y \in {m, n} : Max({m, n}) >= y
    BY <1>1 DEF Max
<1> QED BY <1>2

\* The window at round c.
Recent(S, c) == InWindow(S, c, StalenessK)

LEMMA RecentIs ==
    ASSUME NEW S \in SUBSET EmissionType, NEW c \in Nat
    PROVE  Recent(S, c) = {o \in S : o.round + StalenessK >= c}
<1>1. \A o \in S : o.round \in Nat
    BY DEF EmissionType
<1>2. StalenessK \in Nat
    BY MergeAssumption
<1>3. Max({0, c - StalenessK}) = IF 0 <= c - StalenessK THEN c - StalenessK ELSE 0
    BY <1>2, GreatestOfTwo
<1>4. \A o \in S : o.round >= Max({0, c - StalenessK}) <=> o.round + StalenessK >= c
    BY <1>1, <1>2, <1>3
<1> QED BY <1>4 DEF Recent, InWindow

\* A later window reaches no further than an earlier one.
LEMMA RecentNested ==
    ASSUME NEW S \in SUBSET EmissionType, NEW c \in Nat, NEW d \in Nat, c <= d
    PROVE  /\ Recent(S, c) \in SUBSET EmissionType
           /\ Recent(Recent(S, c), d) = Recent(S, d)
<1>1. /\ Recent(S, c) = {o \in S : o.round + StalenessK >= c}
      /\ Recent(S, d) = {o \in S : o.round + StalenessK >= d}
    BY RecentIs
<1>2. Recent(S, c) \in SUBSET EmissionType
    BY <1>1
<1>3. Recent(Recent(S, c), d) = {o \in Recent(S, c) : o.round + StalenessK >= d}
    BY <1>2, RecentIs
<1>4. \A o \in S : o.round + StalenessK >= d => o.round + StalenessK >= c
    <2>1. \A o \in S : o.round \in Nat
        BY DEF EmissionType
    <2> QED BY <2>1, MergeAssumption
<1> QED BY <1>1, <1>2, <1>3, <1>4

LEMMA RecentOfDedup ==
    ASSUME NEW S \in SUBSET EmissionType, NEW c \in Nat
    PROVE  Deduplicated(Recent(S, c)) = Recent(Deduplicated(S), c)
<1>1. Recent(S, c) = {o \in S : o.round + StalenessK >= c}
    BY RecentIs
<1>2. \A o \in S, q \in Recent(S, c) : DedupKey(o) = DedupKey(q) => o \in Recent(S, c)
    BY <1>1, SameKey
<1>3. Deduplicated(Recent(S, c)) =
        {d \in Deduplicated(S) : DedupKey(d) \in DedupKeys(Recent(S, c))}
    <2>1. Recent(S, c) \in SUBSET S
        BY <1>1
    <2> QED BY <1>2, <2>1, DedupOfPart
<1>4. ASSUME NEW d \in Deduplicated(S)
      PROVE  DedupKey(d) \in DedupKeys(Recent(S, c)) <=> d.round + StalenessK >= c
    <2>1. PICK o \in S : DedupKey(o) = DedupKey(d)
        BY DeduplicatedIs DEF IsDeduplication, IsResolution, Slot
    <2>2. d.round = o.round
        BY <2>1, SameKey
    <2>3. \A q \in Recent(S, c) :
            DedupKey(q) = DedupKey(d) => q.round = d.round /\ q.round + StalenessK >= c
        BY <1>1, SameKey
    <2>4. d.round + StalenessK >= c => o \in Recent(S, c)
        BY <1>1, <2>2
    <2> QED BY <2>1, <2>3, <2>4 DEF DedupKeys
<1>5. Recent(Deduplicated(S), c) = {d \in Deduplicated(S) : d.round + StalenessK >= c}
    <2>1. Deduplicated(S) \in SUBSET EmissionType
        BY DeduplicatedIs
    <2> QED BY <2>1, RecentIs
<1> QED BY <1>3, <1>4, <1>5

\* What is derived is all in the merge's name.
LEMMA MergedIs ==
    ASSUME NEW S, BaseEvidence(S) \in SUBSET EmissionType, NEW c \in Nat
    PROVE  /\ Merge(S, c, StalenessK) =
                WithContradictions(Deduplicated(Recent(BaseEvidence(S), c)))
           /\ BaseEvidence(Merge(S, c, StalenessK)) =
                Deduplicated(Recent(BaseEvidence(S), c))
<1> DEFINE H == BaseEvidence(S)
           D == Deduplicated(Recent(H, c))
<1>1. BaseEvidence(H) = H
    BY DEF BaseEvidence
<1>2. Deduplicated(S) = Deduplicated(H)
    BY <1>1, Zenon DEF Deduplicated
<1>3. Merge(S, c, StalenessK) = WithContradictions(Recent(Deduplicated(H), c))
    BY <1>2, Zenon DEF Merge, Recent
<1>4. D = Recent(Deduplicated(H), c)
    BY RecentOfDedup
<1>5. D \in SUBSET EmissionType
    <2>1. Recent(H, c) \in SUBSET EmissionType
        BY RecentIs
    <2> QED BY <2>1, DeduplicatedIs
<1> HIDE DEF H, D
<1>6. BaseEvidence(WithContradictions(D)) = D
    <2>1. BaseEvidence(D) = D
        BY <1>5, EmissionsAreBase
    <2>2. \A o \in DirectContradictions(D) \cup MetaConflicts(D) : o.source = MergeSource
        <3>1. \A kind, claim, a, b, weight :
                Synthesis(kind, claim, a, b, weight).source = MergeSource
            BY Zenon DEF Synthesis
        <3>2. \A o \in DirectContradictions(D) :
                \E kind, claim, a, b, weight : o = Synthesis(kind, claim, a, b, weight)
            BY Zenon DEF DirectContradictions
        <3>3. \A o \in MetaConflicts(D) :
                \E kind, claim, a, b, weight : o = Synthesis(kind, claim, a, b, weight)
            BY Zenon DEF MetaConflicts
        <3> QED BY <3>1, <3>2, <3>3
    <2> QED BY <2>1, <2>2 DEF BaseEvidence, WithContradictions
<1> QED BY <1>3, <1>4, <1>6 DEF H, D

-----------------------------------------------------------------------------
(* What is carried stands for all that was received.                       *)

\* As far as the window reaches, the base evidence carried is what all that
\* was received deduplicates to.
Carries(r) ==
    /\ received[r] \in SUBSET Emissions
    /\ BaseEvidence(held[r]) \in SUBSET EmissionType
    /\ Recent(BaseEvidence(held[r]), current) =
            Deduplicated(Recent(received[r], current))
CarryInv ==
    /\ current \in Nat
    /\ DOMAIN held = Replicas /\ DOMAIN received = Replicas
    /\ \A r \in Replicas : Carries(r)

\* What stands for R and for X stands together for both.
LEMMA CarriedTogether ==
    ASSUME NEW c \in Nat,
           NEW H \in SUBSET EmissionType, NEW R \in SUBSET EmissionType,
           NEW E \in SUBSET EmissionType, NEW X \in SUBSET EmissionType,
           Recent(H, c) = Deduplicated(Recent(R, c)),
           Deduplicated(Recent(E, c)) = Deduplicated(Recent(X, c))
    PROVE  Deduplicated(Recent(H \cup E, c)) = Deduplicated(Recent(R \cup X, c))
<1> DEFINE h == Recent(H, c)
           e == Recent(E, c)
           s == Recent(R, c)
           x == Recent(X, c)
<1>1. /\ h \in SUBSET EmissionType /\ e \in SUBSET EmissionType
      /\ s \in SUBSET EmissionType /\ x \in SUBSET EmissionType
    BY RecentIs
<1>2. Recent(H \cup E, c) = h \cup e /\ Recent(R \cup X, c) = s \cup x
    BY DEF Recent, InWindow
<1>3. h = Deduplicated(s) /\ Deduplicated(e) = Deduplicated(x)
    OBVIOUS
<1> HIDE DEF h, e, s, x
<1>4. Deduplicated(h \cup e) = Deduplicated(s \cup e)
    BY <1>1, <1>3, DedupInStages
<1>5. Deduplicated(Deduplicated(e) \cup s) = Deduplicated(e \cup s)
    BY <1>1, DedupInStages
<1>6. Deduplicated(Deduplicated(x) \cup s) = Deduplicated(x \cup s)
    BY <1>1, DedupInStages
<1>7. e \cup s = s \cup e /\ x \cup s = s \cup x
    OBVIOUS
<1> QED BY <1>2, <1>3, <1>4, <1>5, <1>6, <1>7

LEMMA MergeInCarries ==
    ASSUME CarryInv, NEW r \in Replicas, NEW S, NEW X \in SUBSET Emissions,
           BaseEvidence(S) \in SUBSET EmissionType,
           Deduplicated(Recent(BaseEvidence(S), current)) =
                Deduplicated(Recent(X, current)),
           MergeIn(r, S), received' = [received EXCEPT ![r] = @ \cup X],
           UNCHANGED current
    PROVE  CarryInv'
<1> DEFINE H == BaseEvidence(held[r])
           E == BaseEvidence(S)
           R == received[r]
           c == current
           D == Deduplicated(Recent(H \cup E, c))
<1>1. /\ c \in Nat /\ X \in SUBSET EmissionType /\ R \in SUBSET EmissionType
      /\ H \in SUBSET EmissionType /\ E \in SUBSET EmissionType
      /\ Recent(H, c) = Deduplicated(Recent(R, c))
    BY MergeAssumption DEF CarryInv, Carries
<1>2. held'[r] = Merge(held[r] \cup S, c, StalenessK) /\ received'[r] = R \cup X
    BY DEF MergeIn, CarryInv
<1>3. BaseEvidence(held[r] \cup S) = H \cup E
    BY DEF BaseEvidence
<1>4. Deduplicated(Recent(E, c)) = Deduplicated(Recent(X, c))
    OBVIOUS
<1> HIDE DEF H, E, R, c
<1>5. BaseEvidence(held'[r]) = D
    <2>1. H \cup E \in SUBSET EmissionType
        BY <1>1
    <2> QED BY <1>1, <1>2, <1>3, <2>1, MergedIs
<1>6. D = Deduplicated(Recent(R \cup X, c))
    BY <1>1, <1>4, CarriedTogether
<1>7. D \in SUBSET EmissionType /\ Recent(D, c) = D
    <2> DEFINE Y == Recent(H \cup E, c)
    <2>1. Y \in SUBSET EmissionType /\ Recent(Y, c) = Y
        <3>1. H \cup E \in SUBSET EmissionType /\ c <= c
            BY <1>1
        <3> QED BY <1>1, <3>1, RecentNested
    <2> HIDE DEF Y
    <2>2. D = Deduplicated(Y)
        BY DEF Y
    <2>3. Deduplicated(Y) \in SUBSET EmissionType
        BY <2>1, DeduplicatedIs
    <2>4. Recent(Deduplicated(Y), c) = Deduplicated(Recent(Y, c))
        BY <1>1, <2>1, RecentOfDedup
    <2> QED BY <2>1, <2>2, <2>3, <2>4
<1> HIDE DEF D
<1>8. Carries(r)'
    <2>1. R \cup X \in SUBSET Emissions
        BY DEF CarryInv, Carries, R
    <2> QED BY <1>2, <1>5, <1>6, <1>7, <2>1 DEF Carries, c
<1>9. ASSUME NEW q \in Replicas, q # r PROVE Carries(q)'
    <2>1. held'[q] = held[q] /\ received'[q] = received[q] /\ current' = current
        BY <1>9 DEF MergeIn, CarryInv
    <2>2. Carries(q)
        BY DEF CarryInv
    <2> QED BY <2>1, <2>2 DEF Carries
<1>10. DOMAIN held' = Replicas /\ DOMAIN received' = Replicas /\ current' \in Nat
    BY DEF MergeIn, CarryInv
<1> QED BY <1>8, <1>9, <1>10 DEF CarryInv

LEMMA NextRoundCarries ==
    ASSUME CarryInv, NextRound PROVE CarryInv'
<1>1. current \in Nat /\ current' = current + 1 /\ UNCHANGED <<held, received>>
    BY DEF NextRound, CarryInv
<1>2. \A S \in SUBSET EmissionType :
        Recent(S, current + 1) = Recent(Recent(S, current), current + 1)
    <2>1. current + 1 \in Nat /\ current <= current + 1
        BY <1>1
    <2> QED BY <1>1, <2>1, RecentNested
<1>3. ASSUME NEW r \in Replicas PROVE Carries(r)'
    <2> DEFINE H == BaseEvidence(held[r])
               R == received[r]
               c == current
    <2>1. /\ c \in Nat /\ R \in SUBSET Emissions /\ R \in SUBSET EmissionType
          /\ H \in SUBSET EmissionType
          /\ Recent(H, c) = Deduplicated(Recent(R, c))
        BY MergeAssumption DEF CarryInv, Carries
    <2>2. Recent(R, c) \in SUBSET EmissionType
        BY <2>1, RecentIs
    <2>3. Recent(H, c + 1) = Recent(Deduplicated(Recent(R, c)), c + 1)
        BY <1>2, <2>1
    <2>4. Recent(R, c + 1) = Recent(Recent(R, c), c + 1)
        BY <1>2, <2>1
    <2> HIDE DEF H, R, c
    <2>5. Recent(Deduplicated(Recent(R, c)), c + 1) =
            Deduplicated(Recent(Recent(R, c), c + 1))
        BY <2>1, <2>2, RecentOfDedup
    <2>6. Recent(H, c + 1) = Deduplicated(Recent(R, c + 1))
        BY <2>3, <2>4, <2>5
    <2> QED BY <1>1, <2>1, <2>6 DEF Carries, H, R, c
<1> QED BY <1>1, <1>3 DEF CarryInv

LEMMA NextCarries == CarryInv /\ [Next]_vars => CarryInv'
<1> SUFFICES ASSUME CarryInv, [Next]_vars PROVE CarryInv'
    OBVIOUS
<1>1. ASSUME NEW r \in Replicas, NEW o \in Emissions, Deliver(r, o)
      PROVE  CarryInv'
    <2>1. {o} \in SUBSET Emissions /\ {o} \in SUBSET EmissionType
        BY MergeAssumption
    <2>2. BaseEvidence({o}) = {o}
        BY <2>1, EmissionsAreBase
    <2> QED BY <1>1, <2>1, <2>2, MergeInCarries DEF Deliver
<1>2. ASSUME NEW r \in Replicas, NEW s \in Replicas, Exchange(r, s)
      PROVE  CarryInv'
    <2> DEFINE H == BaseEvidence(held[s])
               R == received[s]
    <2>1. /\ current \in Nat /\ R \in SUBSET Emissions /\ R \in SUBSET EmissionType
          /\ H \in SUBSET EmissionType
          /\ Recent(H, current) = Deduplicated(Recent(R, current))
        BY MergeAssumption DEF CarryInv, Carries
    <2>2. Recent(R, current) \in SUBSET EmissionType
        BY <2>1, RecentIs
    <2> HIDE DEF H, R
    <2>3. Deduplicated(Deduplicated(Recent(R, current)) \cup {}) =
            Deduplicated(Recent(R, current) \cup {})
        BY <2>2, DedupInStages
    <2>4. Deduplicated(Recent(H, current)) = Deduplicated(Recent(R, current))
        BY <2>1, <2>3
    <2> QED BY <1>2, <2>1, <2>4, MergeInCarries DEF Exchange, H, R
<1>3. CASE NextRound
    BY <1>3, NextRoundCarries
<1>4. CASE UNCHANGED vars
    BY <1>4 DEF vars, CarryInv, Carries
<1> QED BY <1>1, <1>2, <1>3, <1>4 DEF Next

LEMMA InitCarries == Init => CarryInv
<1> SUFFICES ASSUME Init PROVE CarryInv
    OBVIOUS
<1>1. BaseEvidence({}) = {} /\ Recent({}, 0) = {} /\ Deduplicated({}) = {}
    BY DEF BaseEvidence, Recent, InWindow, Deduplicated, DedupKeys
<1>2. \A r \in Replicas : held[r] = {} /\ received[r] = {}
    BY DEF Init
<1> QED BY <1>1, <1>2 DEF Init, CarryInv, Carries

LEMMA CarryInvariant == Spec => []CarryInv
BY InitCarries, NextCarries, PTL DEF Spec

-----------------------------------------------------------------------------
(* What is read off the carried state.                                     *)

LEMMA DedupTwice ==
    ASSUME NEW S \in SUBSET EmissionType
    PROVE  Deduplicated(Deduplicated(S)) = Deduplicated(S)
<1>1. Deduplicated(Deduplicated(S) \cup {}) = Deduplicated(S \cup {})
    BY DedupInStages
<1> QED BY <1>1

\* A merge depends on what its recent base evidence deduplicates to alone.
LEMMA MergeOfSame ==
    ASSUME NEW S, BaseEvidence(S) \in SUBSET EmissionType,
           NEW T \in SUBSET EmissionType, NEW c \in Nat,
           Recent(BaseEvidence(S), c) = Deduplicated(Recent(T, c))
    PROVE  Merge(S, c, StalenessK) = Merge(T, c, StalenessK)
<1>1. BaseEvidence(T) = T
    BY EmissionsAreBase
<1>2. /\ Merge(S, c, StalenessK) =
            WithContradictions(Deduplicated(Recent(BaseEvidence(S), c)))
      /\ Merge(T, c, StalenessK) = WithContradictions(Deduplicated(Recent(T, c)))
    BY <1>1, MergedIs
<1>3. Recent(T, c) \in SUBSET EmissionType
    BY RecentIs
<1>4. Deduplicated(Recent(BaseEvidence(S), c)) = Deduplicated(Recent(T, c))
    BY <1>3, DedupTwice
<1> QED BY <1>2, <1>4

\* Deduplication leaves the slots it finds.
LEMMA SlotsRemain ==
    ASSUME NEW S \in SUBSET EmissionType
    PROVE  DedupKeys(Deduplicated(S)) = DedupKeys(S)
<1>1. IsDeduplication(Deduplicated(S), S)
    BY DeduplicatedIs
<1>2. \A d \in Deduplicated(S) : \E o \in S : DedupKey(o) = DedupKey(d)
    BY <1>1 DEF IsDeduplication, IsResolution, Slot
<1>3. \A o \in S : \E d \in Deduplicated(S) : DedupKey(d) = DedupKey(o)
    BY <1>1 DEF IsDeduplication
<1> QED BY <1>2, <1>3 DEF DedupKeys

\* Tombstones strike whole slots, so they may come before or after.
LEMMA DedupOfSurviving ==
    ASSUME NEW S \in SUBSET EmissionType, NEW T
    PROVE  Deduplicated(Surviving(S, T)) = Surviving(Deduplicated(S), T)
<1> DEFINE W == Surviving(S, T)
<1>1. W \in SUBSET S /\ \A o \in S : o \in W <=> DedupKey(o) \notin T
    BY DEF Surviving
<1>2. \A o \in S, q \in W : DedupKey(o) = DedupKey(q) => o \in W
    BY <1>1
<1>3. \A d \in Deduplicated(S) : DedupKey(d) \in DedupKeys(W) <=> DedupKey(d) \notin T
    <2>1. \A d \in Deduplicated(S) : \E o \in S : DedupKey(o) = DedupKey(d)
        BY SlotsRemain DEF DedupKeys
    <2> HIDE DEF W
    <2> QED BY <1>1, <2>1 DEF DedupKeys
<1> HIDE DEF W
<1>4. Deduplicated(W) = {d \in Deduplicated(S) : DedupKey(d) \in DedupKeys(W)}
    BY <1>1, <1>2, DedupOfPart
<1> QED BY <1>3, <1>4 DEF Surviving, W

\* Carrying a merged state loses and invents nothing, in whatever order,
\* however often and by whatever route the evidence came
\* (merge.rs, merge_with_staleness and its monoid laws).
THEOREM CarryingLosesNothing == Spec => []CarriedMatchesFlat
<1>1. CarryInv => CarriedMatchesFlat
    <2> SUFFICES ASSUME CarryInv, NEW r \in Replicas
                 PROVE  View(r) = Merge(received[r], current, StalenessK)
        BY DEF CarriedMatchesFlat
    <2>1. /\ current \in Nat /\ received[r] \in SUBSET EmissionType
          /\ BaseEvidence(held[r]) \in SUBSET EmissionType
          /\ Recent(BaseEvidence(held[r]), current) =
                Deduplicated(Recent(received[r], current))
        BY MergeAssumption DEF CarryInv, Carries
    <2> QED BY <2>1, MergeOfSame DEF View
<1> QED BY <1>1, CarryInvariant, PTL

\* Retracting slots from a carried state gives what would be seen had they
\* never been emitted (merge.rs, merge_with_tombstones).
THEOREM TombstonedIsNeverPresent == Spec => []TombstoneIsNeverPresent
<1>1. CarryInv => TombstoneIsNeverPresent
    <2> SUFFICES ASSUME CarryInv, NEW r \in Replicas,
                        NEW T \in SUBSET DedupKeys(received[r])
                 PROVE  Merge(Surviving(held[r], T), current, StalenessK) =
                            Merge(Surviving(received[r], T), current, StalenessK)
        BY DEF TombstoneIsNeverPresent, MergeWithTombstones, Surviving
    <2> DEFINE H == BaseEvidence(held[r])
               R == received[r]
               c == current
    <2>1. /\ c \in Nat /\ R \in SUBSET EmissionType /\ H \in SUBSET EmissionType
          /\ Recent(H, c) = Deduplicated(Recent(R, c))
        BY MergeAssumption DEF CarryInv, Carries
    <2>2. BaseEvidence(Surviving(held[r], T)) = Surviving(H, T)
        BY DEF BaseEvidence, Surviving
    <2> HIDE DEF H, R, c
    <2>3. /\ Recent(Surviving(H, T), c) = Surviving(Recent(H, c), T)
          /\ Recent(Surviving(R, T), c) = Surviving(Recent(R, c), T)
        BY DEF Recent, InWindow, Surviving
    <2>4. Recent(R, c) \in SUBSET EmissionType
        BY <2>1, RecentIs
    <2>5. Surviving(Deduplicated(Recent(R, c)), T) =
            Deduplicated(Surviving(Recent(R, c), T))
        BY <2>4, DedupOfSurviving
    <2>6. Recent(Surviving(H, T), c) = Deduplicated(Recent(Surviving(R, T), c))
        BY <2>1, <2>3, <2>5
    <2>7. /\ Surviving(H, T) \in SUBSET EmissionType
          /\ Surviving(R, T) \in SUBSET EmissionType
        BY <2>1 DEF Surviving
    <2> QED BY <2>1, <2>2, <2>6, <2>7, MergeOfSame DEF R, c
<1> QED BY <1>1, CarryInvariant, PTL

-----------------------------------------------------------------------------
(* A position of its own.                                                  *)

\* Its slot is no emission's.
LEMMA VoiceIsNew ==
    ASSUME NEW c \in Claims, NEW s \in Agents, NEW v \in HexValues,
           NEW w \in Nat, current \in Nat
    PROVE  /\ Voice(s, c, v, w) \in EmissionType
           /\ \A o \in Emissions : o.ordinal < Voice(s, c, v, w).ordinal
<1> DEFINE ordinals == {o.ordinal : o \in Emissions}
           T == ordinals \cup {0}
<1>1. IsFiniteSet(T)
    <2> DEFINE f == [o \in Emissions |-> o.ordinal]
    <2>1. ordinals = {f[o] : o \in Emissions}
        OBVIOUS
    <2>2. IsFiniteSet(Emissions)
        BY MergeAssumption
    <2> HIDE DEF f, ordinals
    <2>3. IsFiniteSet(ordinals)
        BY <2>1, <2>2, ImageIsFinite
    <2> QED BY <2>3, FS_AddElement
<1>2. T \in SUBSET Nat /\ T # {}
    BY MergeAssumption DEF EmissionType
<1>3. \A o \in Emissions : o.ordinal \in T
    OBVIOUS
<1> HIDE DEF T
<1>4. Max(T) \in Nat /\ \A n \in T : n <= Max(T)
    BY <1>1, <1>2, GreatestOfFinite
<1>5. Voice(s, c, v, w).ordinal = 1 + Max(T)
    BY DEF Voice, T
<1>6. 1 + Max(T) \in Nat /\ \A n \in T : n < 1 + Max(T)
    BY <1>2, <1>4
<1>7. Voice(s, c, v, w) \in EmissionType
    <2> DEFINE n == Voice(s, c, v, w).ordinal
    <2>1. n \in Nat
        BY <1>5, <1>6
    <2>2. Voice(s, c, v, w) =
            [source |-> s, diagnosis |-> EmittedDiagnosis, round |-> current,
             ordinal |-> n, claim |-> c, variant |-> v, weight |-> w]
        BY DEF Voice
    <2> HIDE DEF n
    <2> QED BY <2>1, <2>2 DEF EmissionType, Claims
<1> QED BY <1>3, <1>5, <1>6, <1>7

\* What the replica holds at the current round, deduplicated.
Standpoint(r) == Deduplicated(Recent(received[r], current))

LEMMA StandpointIs ==
    ASSUME CarryInv, NEW r \in Replicas
    PROVE  /\ Standpoint(r) \in SUBSET EmissionType
           /\ IsDeduplication(Standpoint(r), Standpoint(r))
           /\ DedupKeys(Standpoint(r)) \subseteq DedupKeys(received[r])
           /\ View(r) = WithContradictions(Standpoint(r))
           /\ BaseEvidence(View(r)) = Standpoint(r)
<1>1. /\ current \in Nat /\ received[r] \in SUBSET EmissionType
      /\ BaseEvidence(held[r]) \in SUBSET EmissionType
      /\ Recent(BaseEvidence(held[r]), current) = Standpoint(r)
    BY MergeAssumption DEF CarryInv, Carries, Standpoint
<1>2. Recent(received[r], current) \in SUBSET received[r]
    BY <1>1, RecentIs
<1>3. Recent(received[r], current) \in SUBSET EmissionType
    BY <1>1, <1>2
<1>4. Standpoint(r) \in SUBSET EmissionType
    BY <1>3, DeduplicatedIs DEF Standpoint
<1>5. Deduplicated(Standpoint(r)) = Standpoint(r)
    BY <1>3, DedupTwice DEF Standpoint
<1>6. IsDeduplication(Standpoint(r), Standpoint(r))
    BY <1>4, <1>5, DeduplicatedIs
<1>7. DedupKeys(Standpoint(r)) \subseteq DedupKeys(received[r])
    <2>1. DedupKeys(Standpoint(r)) = DedupKeys(Recent(received[r], current))
        BY <1>3, SlotsRemain DEF Standpoint
    <2> QED BY <1>2, <2>1 DEF DedupKeys
<1>8. /\ View(r) = WithContradictions(Deduplicated(Standpoint(r)))
      /\ BaseEvidence(View(r)) = Deduplicated(Standpoint(r))
    BY <1>1, MergedIs DEF View
<1> QED BY <1>4, <1>5, <1>6, <1>7, <1>8

\* One more observation in a slot of its own stands beside the others.
LEMMA VoiceIsHeard ==
    ASSUME CarryInv, NEW r \in Replicas,
           NEW v \in EmissionType, v.round = current,
           \A o \in Emissions : o.ordinal < v.ordinal
    PROVE  /\ DedupKey(v) \notin DedupKeys(Standpoint(r))
           /\ Merge(held[r] \cup {v}, current, StalenessK) =
                WithContradictions(Standpoint(r) \cup {v})
<1> DEFINE B == Standpoint(r)
           H == BaseEvidence(held[r])
<1>1. /\ B \in SUBSET EmissionType /\ IsDeduplication(B, B)
      /\ DedupKeys(B) \subseteq DedupKeys(received[r])
    BY StandpointIs
<1>2. /\ current \in Nat /\ received[r] \in SUBSET Emissions
      /\ H \in SUBSET EmissionType /\ Recent(H, current) = B
    BY DEF CarryInv, Carries, Standpoint
<1>3. BaseEvidence(held[r] \cup {v}) = H \cup {v}
    BY AgentsEmit DEF BaseEvidence
<1> HIDE DEF B, H
<1>4. DedupKey(v) \notin DedupKeys(B)
    <2> SUFFICES ASSUME DedupKey(v) \in DedupKeys(received[r]) PROVE FALSE
        BY <1>1
    <2>1. PICK o \in received[r] : DedupKey(o) = DedupKey(v)
        BY DEF DedupKeys
    <2>2. o.ordinal = v.ordinal /\ o \in Emissions
        BY <1>2, <2>1, SameKey
    <2>3. o.ordinal \in Nat
        BY <2>2, MergeAssumption DEF EmissionType
    <2> QED BY <2>2, <2>3
<1>5. Recent(H \cup {v}, current) = B \cup {v}
    <2>1. Recent({v}, current) = {v}
        <3>1. Recent({v}, current) = {o \in {v} : o.round + StalenessK >= current}
            BY <1>2, RecentIs
        <3>2. current + StalenessK >= current
            BY <1>2, MergeAssumption
        <3> QED BY <3>1, <3>2
    <2> QED BY <1>2, <2>1 DEF Recent, InWindow
<1>6. Deduplicated(B \cup {v}) = B \cup {v}
    <2>1. ASSUME NEW d \in B PROVE IsResolution(d, Slot(B \cup {v}, DedupKey(d)))
        <3>1. DedupKey(d) # DedupKey(v)
            BY <1>4 DEF DedupKeys
        <3>2. Slot(B \cup {v}, DedupKey(d)) = Slot(B, DedupKey(d))
            BY <3>1 DEF Slot
        <3> QED BY <1>1, <3>2 DEF IsDeduplication
    <2>2. IsResolution(v, Slot(B \cup {v}, DedupKey(v)))
        <3>1. Slot(B \cup {v}, DedupKey(v)) = {v}
            BY <1>4 DEF Slot, DedupKeys
        <3>2. ClaimOrder[v.claim] \in Nat /\ v.weight \in Nat
            BY ClaimAssumption DEF EmissionType
        <3> QED BY <3>1, <3>2 DEF IsResolution
    <2>3. IsDeduplication(B \cup {v}, B \cup {v})
        BY <2>1, <2>2 DEF IsDeduplication
    <2>4. B \cup {v} \in SUBSET EmissionType
        BY <1>1
    <2> QED BY <2>3, <2>4, DeduplicationIs
<1>7. Merge(held[r] \cup {v}, current, StalenessK) =
        WithContradictions(Deduplicated(Recent(H \cup {v}, current)))
    <2>1. H \cup {v} \in SUBSET EmissionType
        BY <1>2
    <2> QED BY <1>2, <1>3, <2>1, MergedIs
<1> QED BY <1>4, <1>5, <1>6, <1>7 DEF B

-----------------------------------------------------------------------------
(* Abstention and opposition.                                              *)

\* Unknown clashes with nothing.
LEMMA UnknownClashesNot ==
    ASSUME NEW a PROVE BelnapWeight(a, Unknown) = 0 /\ BelnapWeight(Unknown, a) = 0
BY DEF BelnapWeight, True, Probable, Unknown, Doubtful, False

LEMMA UnknownIsSilent ==
    ASSUME NEW B, NEW v, v.variant = Unknown
    PROVE  WithContradictions(B \cup {v}) = WithContradictions(B) \cup {v}
<1>1. \A o : ~ClashDirectly(o, v) /\ ~ClashDirectly(v, o)
    BY UnknownClashesNot DEF ClashDirectly
<1>2. \A o : ~ClashAcrossAspects(o, v) /\ ~ClashAcrossAspects(v, o)
    BY DEF ClashAcrossAspects, Positive, Negative,
           True, Probable, Unknown, Doubtful, False
<1> DEFINE Direct(S) == {q \in S \X S : ClashDirectly(q[1], q[2])}
           Across(S) == {q \in S \X S : ClashAcrossAspects(q[1], q[2])}
<1>3. Direct(B \cup {v}) = Direct(B)
    BY <1>1
<1>4. Across(B \cup {v}) = Across(B)
    BY <1>2
<1>5. DirectContradictions(B \cup {v}) = DirectContradictions(B)
    BY <1>3, Zenon DEF DirectContradictions
<1>6. MetaConflicts(B \cup {v}) = MetaConflicts(B)
    BY <1>4, Zenon DEF MetaConflicts
<1> QED BY <1>5, <1>6 DEF WithContradictions

\* An abstention, whoever utters it and however heavy, never changes whether
\* the merged state escalates (merge.rs, escalation_triggered: Unknown is no
\* informative mass).
THEOREM AbstentionIsHarmless == Spec => []AbstentionCannotMute
<1>1. CarryInv => AbstentionCannotMute
    <2> SUFFICES ASSUME CarryInv, NEW r \in Replicas, NEW o \in Emissions
                 PROVE  EscalatesWith(r, Voice(o.source, o.claim, Unknown, o.weight))
                            <=> EscalationTriggered(View(r))
        BY DEF AbstentionCannotMute
    <2> DEFINE v == Voice(o.source, o.claim, Unknown, o.weight)
               M == WithContradictions(Standpoint(r))
    <2>1. /\ o.source \in Agents /\ o.claim \in Claims
          /\ o.weight \in Nat
        BY MergeAssumption DEF EmissionType, Claims
    <2>2. current \in Nat /\ Unknown \in HexValues
        BY DEF CarryInv, HexValues
    <2>3. v \in EmissionType /\ \A e \in Emissions : e.ordinal < v.ordinal
        BY <2>1, <2>2, VoiceIsNew
    <2>4. v.round = current /\ v.variant = Unknown
        BY DEF Voice
    <2> HIDE DEF v, M
    <2>5. Merge(held[r] \cup {v}, current, StalenessK) =
            WithContradictions(Standpoint(r) \cup {v})
        BY <2>3, <2>4, VoiceIsHeard
    <2>6. WithContradictions(Standpoint(r) \cup {v}) = M \cup {v}
        BY <2>4, UnknownIsSilent DEF M
    <2>7. ASSUME NEW V, Unknown \notin V
          PROVE  Mass(M \cup {v}, V) = Mass(M, V)
        <3>1. {x \in M \cup {v} : x.variant \in V} = {x \in M : x.variant \in V}
            BY <2>4, <2>7
        <3> QED BY <3>1, Zenon DEF Mass
    <2>8. EscalationTriggered(M \cup {v}) <=> EscalationTriggered(M)
        <3>1. Unknown \notin {Contradictory} /\ Unknown \notin HexValues \ {Unknown}
            BY DEF Unknown, Contradictory
        <3> QED BY <2>7, <3>1 DEF EscalationTriggered
    <2>9. View(r) = M
        BY StandpointIs DEF M
    <2> QED BY <2>5, <2>6, <2>8, <2>9 DEF EscalatesWith, v
<1> QED BY <1>1, CarryInvariant, PTL

LEMMA BelnapWeights ==
    ASSUME NEW a, NEW b
    PROVE  /\ BelnapWeight(a, b) \in {0, 5, 8, 10}
           /\ a \in Positive \cup Negative /\ b \in Opposite(a) =>
                BelnapWeight(b, a) \in {5, 8, 10}
<1>1. BelnapWeight(a, b) \in {0, 5, 8, 10}
    BY DEF BelnapWeight
<1>2. ASSUME a \in Positive, b \in Negative
      PROVE  /\ BelnapWeight(b, a) \in {5, 8, 10}
             /\ BelnapWeight(a, b) \in {5, 8, 10}
    BY <1>2 DEF BelnapWeight, Positive, Negative, True, Probable, Doubtful, False
<1>3. ASSUME a \in Negative, b \in Positive
      PROVE  BelnapWeight(b, a) \in {5, 8, 10}
    BY <1>3 DEF BelnapWeight, Positive, Negative, True, Probable, Doubtful, False
<1>4. Positive \cap Negative = {}
    BY DEF Positive, Negative, True, Probable, Doubtful, False
<1> QED BY <1>1, <1>2, <1>3, <1>4 DEF Opposite

\* The weight of a direct contradiction.
ClashWeight(a, b) ==
    (BelnapWeight(a.variant, b.variant) * Min({a.weight, b.weight})) \div 10

LEMMA ClashWeightIs ==
    ASSUME NEW a \in EmissionType, NEW b \in EmissionType
    PROVE  /\ ClashWeight(a, b) \in Nat
           /\ /\ a.weight = EvenWeight /\ b.weight = EvenWeight
              /\ BelnapWeight(a.variant, b.variant) \in {5, 8, 10}
              => 10 * ClashWeight(a, b) >= 5 * EvenWeight
<1> DEFINE k == BelnapWeight(a.variant, b.variant)
           m == Min({a.weight, b.weight})
<1>1. k \in {0, 5, 8, 10}
    BY BelnapWeights
<1>2. m \in Nat /\ m \in {a.weight, b.weight}
    <2>1. {a.weight, b.weight} \in SUBSET Nat /\ {a.weight, b.weight} # {}
        BY DEF EmissionType
    <2> QED BY <2>1, LeastOfSet
<1>3. ClashWeight(a, b) = (k * m) \div 10
    BY DEF ClashWeight
<1>4. EvenWeight \in Nat /\ EvenWeight % 10 = 0
    BY MergeAssumption
<1>5. a.weight = EvenWeight /\ b.weight = EvenWeight => m = EvenWeight
    BY <1>2
<1> HIDE DEF k, m
<1>6. (k * m) \div 10 \in Nat
    BY <1>1, <1>2
<1>7. ASSUME k \in {5, 8, 10}, m = EvenWeight
      PROVE  10 * ((k * m) \div 10) >= 5 * EvenWeight
    <2>1. CASE k = 5
        BY <1>4, <1>7, <2>1
    <2>2. CASE k = 8
        BY <1>4, <1>7, <2>2
    <2>3. CASE k = 10
        BY <1>4, <1>7, <2>3
    <2> QED BY <1>7, <2>1, <2>2, <2>3
<1> QED BY <1>3, <1>5, <1>6, <1>7 DEF k

\* Whatever contradictions a set of emissions holds.
LEMMA ContradictionsAre ==
    ASSUME NEW S \in SUBSET EmissionType, NEW d \in DirectContradictions(S)
    PROVE  /\ d.source = MergeSource /\ d.variant = Contradictory
           /\ d.weight \in Nat /\ d.diagnosis.parents \subseteq DedupKeys(S)
<1>1. PICK a \in S, b \in S :
        d = Synthesis("direct", a.claim, a, b, ClashWeight(a, b))
    <2>1. \A x \in DirectContradictions(S) : \E p \in S \X S :
            x = Synthesis("direct", p[1].claim, p[1], p[2], ClashWeight(p[1], p[2]))
        BY Zenon DEF DirectContradictions, ClashWeight
    <2>2. PICK p \in S \X S :
            d = Synthesis("direct", p[1].claim, p[1], p[2], ClashWeight(p[1], p[2]))
        BY <2>1
    <2>3. p[1] \in S /\ p[2] \in S
        OBVIOUS
    <2> QED BY <2>2, <2>3
<1>2. ClashWeight(a, b) \in Nat
    BY ClashWeightIs
<1>3. DedupKeys({a, b}) \subseteq DedupKeys(S)
    BY DEF DedupKeys
<1> HIDE DEF ClashWeight
<1>4. /\ d.source = MergeSource /\ d.variant = Contradictory
      /\ d.weight = ClashWeight(a, b)
      /\ d.diagnosis.parents = DedupKeys({a, b})
    BY <1>1 DEF Synthesis
<1> QED BY <1>2, <1>3, <1>4

LEMMA ContradictionsAreFinite ==
    ASSUME NEW S, IsFiniteSet(S)
    PROVE  IsFiniteSet(DirectContradictions(S))
<1> DEFINE Clashes == {q \in S \X S : ClashDirectly(q[1], q[2])}
           f == [p \in Clashes |->
                    Synthesis("direct", p[1].claim, p[1], p[2],
                              ClashWeight(p[1], p[2]))]
<1>1. DirectContradictions(S) =
        {Synthesis("direct", p[1].claim, p[1], p[2], ClashWeight(p[1], p[2])) :
            p \in Clashes}
    BY Zenon DEF DirectContradictions, ClashWeight
<1>2. \A p \in Clashes :
        f[p] = Synthesis("direct", p[1].claim, p[1], p[2], ClashWeight(p[1], p[2]))
    OBVIOUS
<1>3. IsFiniteSet(Clashes)
    <2>1. IsFiniteSet(S \X S)
        BY FS_Product
    <2> QED BY <2>1, FS_Subset
<1> HIDE DEF Clashes, f
<1>4. DirectContradictions(S) = {f[p] : p \in Clashes}
    BY <1>1, <1>2
<1> QED BY <1>3, <1>4, ImageIsFinite

\* A clash with a newcomer is a contradiction that was not there.
LEMMA NewClash ==
    ASSUME NEW S \in SUBSET EmissionType, NEW n \in EmissionType,
           DedupKey(n) \notin DedupKeys(S), NEW o \in S, ClashDirectly(o, n)
    PROVE  \E d \in DirectContradictions(S \cup {n}) \ DirectContradictions(S) :
                d.weight = ClashWeight(o, n)
<1> DEFINE d == Synthesis("direct", o.claim, o, n, ClashWeight(o, n))
           Clashes == {q \in (S \cup {n}) \X (S \cup {n}) : ClashDirectly(q[1], q[2])}
<1>1. DirectContradictions(S \cup {n}) =
        {Synthesis("direct", p[1].claim, p[1], p[2], ClashWeight(p[1], p[2])) :
            p \in Clashes}
    BY Zenon DEF DirectContradictions, ClashWeight
<1>2. <<o, n>> \in Clashes
    OBVIOUS
<1> HIDE DEF Clashes
<1>3. \A p \in Clashes :
        Synthesis("direct", p[1].claim, p[1], p[2], ClashWeight(p[1], p[2]))
            \in DirectContradictions(S \cup {n})
    BY <1>1, Zenon
<1>4. d \in DirectContradictions(S \cup {n})
    <2>1. <<o, n>>[1] = o /\ <<o, n>>[2] = n
        OBVIOUS
    <2>2. Synthesis("direct", <<o, n>>[1].claim, <<o, n>>[1], <<o, n>>[2],
                    ClashWeight(<<o, n>>[1], <<o, n>>[2]))
            \in DirectContradictions(S \cup {n})
        BY <1>2, <1>3, Zenon
    <2> QED BY <2>1, <2>2, Zenon
<1>5. d \notin DirectContradictions(S)
    <2>1. d.diagnosis.parents = DedupKeys({o, n})
        BY DEF Synthesis
    <2>2. DedupKey(n) \in d.diagnosis.parents
        BY <2>1 DEF DedupKeys
    <2> HIDE DEF d
    <2> QED BY <2>2, ContradictionsAre
<1>6. d.weight = ClashWeight(o, n)
    BY DEF Synthesis
<1> HIDE DEF d
<1> QED BY <1>4, <1>5, <1>6

LEMMA ContradictionsGrow ==
    ASSUME NEW S, NEW n
    PROVE  DirectContradictions(S) \subseteq DirectContradictions(S \cup {n})
<1> DEFINE Clashes(T) == {q \in T \X T : ClashDirectly(q[1], q[2])}
           Made(p) == Synthesis("direct", p[1].claim, p[1], p[2],
                                ClashWeight(p[1], p[2]))
<1>1. \A T : DirectContradictions(T) = {Made(p) : p \in Clashes(T)}
    BY Zenon DEF DirectContradictions, ClashWeight
<1>2. Clashes(S) \subseteq Clashes(S \cup {n})
    OBVIOUS
<1> HIDE DEF Clashes, Made
<1> QED BY <1>1, <1>2

\* Where all is on one claim there is no conflict of aspects.
LEMMA OneClaimNoMeta ==
    ASSUME NEW S, NEW c, \A o \in S : o.claim = c
    PROVE  MetaConflicts(S) = {}
<1>1. {q \in S \X S : ClashAcrossAspects(q[1], q[2])} = {}
    BY DEF ClashAcrossAspects
<1> QED BY <1>1, Zenon DEF MetaConflicts

\* Masses of a merged state, as weights of sets of observations.
Holding(M, V) == {o \in M : o.variant \in V}

LEMMA MassIs ==
    ASSUME NEW M, NEW V PROVE Mass(M, V) = WeightSum(Holding(M, V))
BY Zenon DEF Mass, Holding, WeightSum, WeightOf, MapThenSumSet, MapThenFoldSet

\* A newcomer that weighs no more than 7/3 of the contradictions it brings
\* leaves the state escalated.
LEMMA WeighedIn ==
    ASSUME NEW M, IsFiniteSet(M), NEW n, NEW Made, IsFiniteSet(Made),
           n \notin M, n \notin Made, M \cap Made = {},
           \A o \in M \cup Made : o.weight \in Nat, n.weight \in Nat,
           \A o \in Made : o.variant = Contradictory,
           n.variant \in Positive \cup Negative,
           NEW d \in Made, 7 * d.weight >= 3 * n.weight,
           EscalationTriggered(M)
    PROVE  EscalationTriggered(M \cup {n} \cup Made)
<1> DEFINE N == M \cup {n} \cup Made
           Told == HexValues \ {Unknown}
           C == Holding(M, {Contradictory})
           D == Holding(M, Told)
<1>1. /\ Contradictory \in Told /\ n.variant \in Told
      /\ n.variant # Contradictory
    BY DEF HexValues, Positive, Negative,
           True, Probable, Unknown, Doubtful, False, Contradictory
<1>2. /\ Holding(N, {Contradictory}) = C \cup Made
      /\ Holding(N, Told) = (D \cup Made) \cup {n}
    BY <1>1 DEF Holding
<1>3. /\ IsFiniteSet(C) /\ IsFiniteSet(D) /\ IsFiniteSet(D \cup Made)
      /\ IsFiniteSet({n})
    <2>1. IsFiniteSet(C) /\ IsFiniteSet(D)
        BY FS_Subset DEF Holding
    <2> QED BY <2>1, FS_Union, FS_Singleton
<1>4. /\ C \subseteq M /\ D \subseteq M
      /\ C \cap Made = {} /\ D \cap Made = {} /\ (D \cup Made) \cap {n} = {}
    BY DEF Holding
<1> HIDE DEF N, Told, C, D
<1>5. WeightSum(C \cup Made) = WeightSum(C) + WeightSum(Made)
    <2>1. C \cap Made = {} /\ \A o \in C \cup Made : o.weight \in Int
        BY <1>4
    <2>2. IsFiniteSet(C) /\ IsFiniteSet(Made)
        BY <1>3
    <2> QED BY ONLY <2>1, <2>2, WeightOfUnion
<1>6. WeightSum(D \cup Made) = WeightSum(D) + WeightSum(Made)
    <2>1. D \cap Made = {} /\ \A o \in D \cup Made : o.weight \in Int
        BY <1>4
    <2>2. IsFiniteSet(D) /\ IsFiniteSet(Made)
        BY <1>3
    <2> QED BY ONLY <2>1, <2>2, WeightOfUnion
<1>7. WeightSum((D \cup Made) \cup {n}) = WeightSum(D \cup Made) + WeightSum({n})
    <2>1. \A o \in (D \cup Made) \cup {n} : o.weight \in Int
        BY <1>4
    <2> QED BY <1>3, <1>4, <2>1, WeightOfUnion
<1>8. WeightSum({n}) = n.weight
    <2>1. PICK g : IsSum(g, {n}, WeightsOf({n})) /\ WeightSum({n}) = g[{n}]
        BY <1>3, WeightSumIsSum
    <2>2. WeightsOf({n}) \in [{n} -> Int] /\ WeightsOf({n})[n] = n.weight
        BY DEF WeightsOf
    <2>3. g[{}] = 0 /\ g[{n}] = WeightsOf({n})[n] + g[{n} \ {n}]
        BY <1>3, <2>1, <2>2, SumFacts
    <2>4. {n} \ {n} = {}
        OBVIOUS
    <2>5. g[{n}] = n.weight + 0
        BY <2>2, <2>3, <2>4
    <2>6. n.weight + 0 = n.weight
        OBVIOUS
    <2> QED BY <2>1, <2>5, <2>6
<1>9. /\ WeightSum(C) \in Nat /\ WeightSum(D) \in Nat /\ WeightSum(Made) \in Nat
      /\ d.weight <= WeightSum(Made)
    BY <1>3, <1>4, WeightOfOne
<1>10. 10 * WeightSum(C) > 3 * WeightSum(D)
    BY MassIs DEF EscalationTriggered, C, D, Told
<1>11. d.weight \in Nat
    OBVIOUS
<1>12. 10 * (WeightSum(C) + WeightSum(Made))
            > 3 * ((WeightSum(D) + WeightSum(Made)) + n.weight)
    BY ONLY <1>9, <1>10, <1>11, n.weight \in Nat, 7 * d.weight >= 3 * n.weight
<1>13. /\ Mass(N, {Contradictory}) = WeightSum(C) + WeightSum(Made)
       /\ Mass(N, Told) = (WeightSum(D) + WeightSum(Made)) + n.weight
    BY <1>2, <1>5, <1>6, <1>7, <1>8, MassIs
<1> QED BY <1>12, <1>13 DEF EscalationTriggered, N, Told

\* What a replica holds is on the claims of emissions.
LEMMA StandpointClaims ==
    ASSUME CarryInv, NEW r \in Replicas, NEW b \in Standpoint(r)
    PROVE  b.claim \in Claims /\ b.claim.aspect # MetaConflictAspect
<1> DEFINE W == Recent(received[r], current)
<1>1. W \in SUBSET Emissions
    BY DEF CarryInv, Carries, Recent, InWindow
<1>2. W \in SUBSET EmissionType
    BY <1>1, MergeAssumption
<1> HIDE DEF W
<1>3. IsDeduplication(Standpoint(r), W)
    BY <1>2, DeduplicatedIs DEF Standpoint, W
<1>4. PICK o \in W : b.claim = o.claim
    BY <1>3 DEF IsDeduplication, IsResolution, Slot
<1> QED BY <1>1, <1>4, MergeAssumption DEF EmissionType, Claims

LEMMA StandpointIsFinite ==
    ASSUME CarryInv, NEW r \in Replicas
    PROVE  IsFiniteSet(Standpoint(r))
<1> DEFINE W == Recent(received[r], current)
           key == [o \in W |-> DedupKey(o)]
<1>1. W \in SUBSET Emissions /\ IsFiniteSet(Emissions)
    BY MergeAssumption DEF CarryInv, Carries, Recent, InWindow
<1>2. IsFiniteSet(W) /\ W \in SUBSET EmissionType
    BY <1>1, FS_Subset, MergeAssumption
<1>3. DedupKeys(W) = {key[o] : o \in W}
    BY DEF DedupKeys
<1> HIDE DEF W, key
<1>4. IsFiniteSet(DedupKeys(W))
    BY <1>2, <1>3, ImageIsFinite
<1> DEFINE version == [k \in DedupKeys(W) |-> ResolveKeyVersions(Slot(W, k))]
<1>5. Deduplicated(W) = {ResolveKeyVersions(Slot(W, k)) : k \in DedupKeys(W)}
    BY <1>2, EmissionsAreBase DEF Deduplicated, Slot
<1>6. Deduplicated(W) = {version[k] : k \in DedupKeys(W)}
    BY <1>5
<1> HIDE DEF version
<1>7. IsFiniteSet(Deduplicated(W))
    BY <1>4, <1>6, ImageIsFinite
<1> QED BY <1>7 DEF Standpoint, W

\* Nor can agreement drown a standing disagreement among evidence that weighs
\* the same (merge.rs, belnap_weight: every contradiction weighs at least half
\* of what clashes, which is more than the threshold asks for).
THEOREM OppositionIsHarmless == Spec => []OpposedVoiceCannotMute
<1>1. CarryInv => OpposedVoiceCannotMute
    <2> SUFFICES ASSUME CarryInv, NEW r \in Replicas, NEW s \in Agents,
                        NEW c \in Claims, NEW v \in Positive \cup Negative,
                        EscalationTriggered(View(r)),
                        \A o \in BaseEvidence(View(r)) :
                            o.claim = c /\ o.weight = EvenWeight,
                        \E o \in BaseEvidence(View(r)) :
                            o.source # s /\ o.variant \in Opposite(v)
                 PROVE  EscalatesWith(r, Voice(s, c, v, EvenWeight))
        BY DEF OpposedVoiceCannotMute
    <2> DEFINE B == Standpoint(r)
               n == Voice(s, c, v, EvenWeight)
               M == WithContradictions(B)
               Made == DirectContradictions(B \cup {n}) \ DirectContradictions(B)
    <2>1. /\ B \in SUBSET EmissionType
          /\ View(r) = M /\ BaseEvidence(View(r)) = B
        BY StandpointIs
    <2>2. \A o \in B : o.claim = c /\ o.weight = EvenWeight
        BY <2>1
    <2>3. PICK o \in B : o.source # s /\ o.variant \in Opposite(v)
        BY <2>1
    <2>4. /\ n \in EmissionType /\ n.round = current
          /\ \A e \in Emissions : e.ordinal < n.ordinal
        <3>1. EvenWeight \in Nat /\ current \in Nat
            BY MergeAssumption DEF CarryInv
        <3>2. v \in HexValues
            BY DEF HexValues, Positive, Negative
        <3>3. /\ n \in EmissionType
              /\ \A e \in Emissions : e.ordinal < n.ordinal
            BY <3>1, <3>2, VoiceIsNew
        <3>4. n.round = current
            BY DEF Voice
        <3> QED BY <3>3, <3>4
    <2>5. /\ n.source = s /\ n.claim = c /\ n.variant = v
          /\ n.weight = EvenWeight
        BY DEF Voice
    <2> HIDE DEF n
    <2>6. /\ DedupKey(n) \notin DedupKeys(B)
          /\ Merge(held[r] \cup {n}, current, StalenessK) =
                WithContradictions(B \cup {n})
        BY <2>4, VoiceIsHeard
    <2>7. c.aspect # MetaConflictAspect
        BY <2>2, <2>3, StandpointClaims
    <2>8. IsFiniteSet(B)
        BY StandpointIsFinite
    <2> HIDE DEF B, M, Made
    <2>9. MetaConflicts(B) = {} /\ MetaConflicts(B \cup {n}) = {}
        <3>1. \A x \in B \cup {n} : x.claim = c
            BY <2>2, <2>5
        <3> QED BY <2>2, <3>1, OneClaimNoMeta
    <2>10. /\ M = B \cup DirectContradictions(B)
           /\ WithContradictions(B \cup {n}) = M \cup {n} \cup Made
        BY <2>9, ContradictionsGrow DEF WithContradictions, M, Made
    <2>11. /\ \A x \in DirectContradictions(B) :
                    x.source = MergeSource /\ x.weight \in Nat
           /\ \A x \in Made :
                    /\ x.source = MergeSource /\ x.weight \in Nat
                    /\ x.variant = Contradictory
        <3>1. B \cup {n} \in SUBSET EmissionType
            BY <2>1, <2>4
        <3> QED BY <2>1, <3>1, ContradictionsAre DEF Made
    <2>12. \A x \in B \cup {n} : x.source # MergeSource /\ x.weight \in Nat
        BY <2>1, <2>4, AgentsEmit
    <2>13. n \notin M /\ n \notin Made /\ M \cap Made = {}
        <3>1. n \notin B
            BY <2>6 DEF DedupKeys
        <3>2. DirectContradictions(B) \cap Made = {}
            BY DEF Made
        <3> QED BY <2>10, <2>11, <2>12, <3>1, <3>2
    <2>14. IsFiniteSet(M) /\ IsFiniteSet(Made)
        <3>1. IsFiniteSet(B \cup {n})
            BY <2>8, FS_AddElement
        <3>2. /\ IsFiniteSet(DirectContradictions(B))
              /\ IsFiniteSet(DirectContradictions(B \cup {n}))
            BY <2>8, <3>1, ContradictionsAreFinite
        <3> QED BY <2>8, <2>10, <3>2, FS_Union, FS_Subset DEF Made
    <2>15. PICK d \in Made : d.weight = ClashWeight(o, n)
        <3>1. BelnapWeight(o.variant, n.variant) \in {5, 8, 10}
            BY <2>3, <2>5, BelnapWeights
        <3>2. ClashDirectly(o, n)
            BY <2>2, <2>3, <2>5, <2>7, <3>1 DEF ClashDirectly
        <3> QED BY <2>1, <2>4, <2>6, <3>2, NewClash DEF Made
    <2>16. 7 * d.weight >= 3 * n.weight
        <3>1. BelnapWeight(o.variant, n.variant) \in {5, 8, 10}
            BY <2>3, <2>5, BelnapWeights
        <3>2. /\ ClashWeight(o, n) \in Nat
              /\ 10 * ClashWeight(o, n) >= 5 * EvenWeight
            BY <2>1, <2>2, <2>3, <2>4, <2>5, <3>1, ClashWeightIs
        <3>3. EvenWeight \in Nat
            BY MergeAssumption
        <3>4. 7 * ClashWeight(o, n) >= 3 * EvenWeight
            BY ONLY <3>2, <3>3
        <3> QED BY <2>5, <2>15, <3>4
    <2>17. EscalationTriggered(M)
        BY <2>1
    <2>18. \A x \in M \cup Made : x.weight \in Nat
        BY <2>10, <2>11, <2>12
    <2>19. EscalationTriggered(M \cup {n} \cup Made)
        <3>1. \A x \in Made : x.variant = Contradictory
            BY <2>11
        <3>2. n.weight \in Nat /\ n.variant \in Positive \cup Negative
            BY <2>5, <2>12
        <3> QED BY ONLY <2>13, <2>14, <2>15, <2>16, <2>17, <2>18, <3>1, <3>2,
                 WeighedIn
    <2> QED BY <2>6, <2>10, <2>19 DEF EscalatesWith, n
<1> QED BY <1>1, CarryInvariant, PTL

-----------------------------------------------------------------------------
(* The swarm: what an agent's belief is made of.                           *)

LEMMA SomeValueIsHighest ==
    ASSUME NEW S \in SUBSET HexValues, S # {}
    PROVE  Highest(S) \in S /\ \A w \in S : Rank(w) <= Rank(Highest(S))
<1> DEFINE Top(v) == \A w \in S : Rank(w) <= Rank(v)
<1>1. CASE Contradictory \in S
    <2>1. Top(Contradictory)
        BY <1>1 DEF HexValues, Rank, True, Probable, Unknown, Doubtful, False, Contradictory
    <2> QED BY <1>1, <2>1 DEF Highest
<1>2. CASE Contradictory \notin S /\ True \in S
    <2>1. Top(True)
        BY <1>2 DEF HexValues, Rank, True, Probable, Unknown, Doubtful, False, Contradictory
    <2> QED BY <1>2, <2>1 DEF Highest
<1>3. CASE S \subseteq {Probable, Unknown, Doubtful, False} /\ Probable \in S
    <2>1. Top(Probable)
        BY <1>3 DEF Rank, True, Probable, Unknown, Doubtful, False, Contradictory
    <2> QED BY <1>3, <2>1 DEF Highest
<1>4. CASE S \subseteq {Unknown, Doubtful, False} /\ Unknown \in S
    <2>1. Top(Unknown)
        BY <1>4 DEF Rank, True, Probable, Unknown, Doubtful, False, Contradictory
    <2> QED BY <1>4, <2>1 DEF Highest
<1>5. CASE S \subseteq {Doubtful, False} /\ Doubtful \in S
    <2>1. Top(Doubtful)
        BY <1>5 DEF Rank, True, Probable, Unknown, Doubtful, False, Contradictory
    <2> QED BY <1>5, <2>1 DEF Highest
<1>6. CASE S = {False}
    <2>1. Top(False)
        BY <1>6 DEF Rank, True, Probable, Unknown, Doubtful, False, Contradictory
    <2> QED BY <1>6, <2>1 DEF Highest
<1> QED BY <1>1, <1>2, <1>3, <1>4, <1>5, <1>6 DEF HexValues

\* Where Unknown did not come between two sides, v is the order-independent
\* combination of all that was heard.
MadeOf(v, all) ==
    /\ v = Absent <=> all = {}
    /\ all = {} \/ v = CombineEvidenceSet(all) \/ (Unknown \in all /\ InConflict(all))

LEMMA CombinationIsValue ==
    ASSUME NEW S \in SUBSET HexValues, S # {}
    PROVE  CombineEvidenceSet(S) \in HexValues
BY SomeValueIsHighest DEF CombineEvidenceSet, HexValues

\* Two values of which none outranks the other are one.
LEMMA RanksDiffer ==
    ASSUME NEW v \in HexValues, NEW w \in HexValues,
           Rank(v) <= Rank(w), Rank(w) <= Rank(v)
    PROVE  v = w
BY DEF HexValues, Rank, True, Probable, Unknown, Doubtful, False, Contradictory

LEMMA HexRank ==
    ASSUME NEW v \in HexValues
    PROVE  /\ Rank(v) \in 0 .. 5
           /\ Rank(v) = 5 <=> v = Contradictory
           /\ v \in Positive <=> Rank(v) \in {3, 4}
           /\ v \in Negative <=> Rank(v) \in {0, 1}
           /\ v = Unknown <=> Rank(v) = 2
BY DEF HexValues, Rank, Positive, Negative, True, Probable, Unknown, Doubtful,
       False, Contradictory

\* The pairwise combination loses the order of what it combines, but for an
\* Unknown between the sides.
LEMMA CombiningOneMore ==
    ASSUME NEW all \in SUBSET HexValues, all # {}, NEW v \in HexValues,
           ~(Unknown \in all /\ InConflict(all))
    PROVE  \/ CombineEvidence(CombineEvidenceSet(all), v)
                = CombineEvidenceSet(all \cup {v})
           \/ Unknown \in all /\ InConflict(all \cup {v})
<1> DEFINE more == all \cup {v}
           merged == CombineEvidenceSet(all)
<1>0. more \in SUBSET HexValues /\ more # {} /\ merged \in HexValues
      /\ Contradictory \in HexValues
    BY CombinationIsValue DEF HexValues
<1>1. CASE InConflict(all)
    <2>1. merged = Contradictory /\ InConflict(more)
        BY <1>1 DEF CombineEvidenceSet, InConflict
    <2>2. ~InConflict({Contradictory, v})
        BY DEF InConflict, Positive, Negative, True, Probable, Doubtful, False,
               Contradictory
    <2>3. Join(Contradictory, v) = Contradictory
        BY <1>0, HexRank DEF Join
    <2> QED BY <2>1, <2>2, <2>3 DEF CombineEvidence, CombineEvidenceSet
<1>2. CASE ~InConflict(all)
    <2>1. merged = Highest(all) /\ merged \in all /\ \A w \in all : Rank(w) <= Rank(merged)
        BY <1>2, SomeValueIsHighest DEF CombineEvidenceSet
    <2> HIDE DEF merged
    <2>2. CASE ~InConflict(more)
        <3>1. ~InConflict({merged, v})
            BY <2>1, <2>2 DEF InConflict
        <3>2. /\ CombineEvidenceSet(more) = Highest(more)
              /\ Highest(more) \in more
              /\ \A w \in more : Rank(w) <= Rank(Highest(more))
            BY <1>0, <2>2, SomeValueIsHighest DEF CombineEvidenceSet
        <3>3. /\ Join(merged, v) \in {merged, v}
              /\ Rank(merged) <= Rank(Join(merged, v)) /\ Rank(v) <= Rank(Join(merged, v))
            BY <1>0, HexRank DEF Join
        <3>4. Rank(Highest(more)) <= Rank(Join(merged, v))
            <4>1. CASE Highest(more) \in all
                <5>1. /\ Rank(Highest(more)) <= Rank(merged)
                      /\ Rank(Highest(more)) \in Int /\ Rank(merged) \in Int
                      /\ Rank(Join(merged, v)) \in Int
                    BY <1>0, <2>1, <3>3, <4>1, HexRank
                <5> QED BY <3>3, <5>1
            <4>2. CASE Highest(more) = v
                BY <3>3, <4>2
            <4> QED BY <3>2, <4>1, <4>2
        <3>5. Rank(Join(merged, v)) <= Rank(Highest(more))
            BY <2>1, <3>2, <3>3
        <3>6. Join(merged, v) = Highest(more)
            BY <1>0, <3>2, <3>3, <3>4, <3>5, RanksDiffer
        <3> QED BY <3>1, <3>2, <3>6 DEF CombineEvidence, merged
    <2>3. CASE InConflict(more) /\ Unknown \notin all
        <3>1. CombineEvidenceSet(more) = Contradictory
            BY <2>3 DEF CombineEvidenceSet
        <3>2. CASE merged = Contradictory
            <4>1. ~InConflict({merged, v})
                BY <3>2 DEF InConflict, Positive, Negative, True, Probable, Doubtful,
                            False, Contradictory
            <4>2. Join(merged, v) = Contradictory
                BY <1>0, <3>2, HexRank DEF Join
            <4> QED BY <3>1, <4>1, <4>2 DEF CombineEvidence, merged
        <3>3. CASE merged # Contradictory
            <4>1. merged # Unknown
                BY <2>1, <2>3
            <4>2. merged \in Positive \cup Negative
                BY <1>0, <3>3, <4>1 DEF HexValues, Positive, Negative
            <4>3. InConflict({merged, v})
                <5>1. CASE v \in Positive
                    <6>1. all \cap Negative # {} /\ all \cap Positive = {}
                        BY <1>2, <2>3, <5>1 DEF InConflict, Positive, Negative, True,
                            Probable, Doubtful, False
                    <6> QED BY <2>1, <4>2, <5>1, <6>1 DEF InConflict
                <5>2. CASE v \in Negative
                    <6>1. all \cap Positive # {} /\ all \cap Negative = {}
                        BY <1>2, <2>3, <5>2 DEF InConflict, Positive, Negative, True,
                            Probable, Doubtful, False
                    <6> QED BY <2>1, <4>2, <5>2, <6>1 DEF InConflict
                <5>3. v \in Positive \cup Negative
                    BY <1>2, <2>3 DEF InConflict
                <5> QED BY <5>1, <5>2, <5>3
            <4> QED BY <3>1, <4>3 DEF CombineEvidence, merged
        <3> QED BY <3>2, <3>3 DEF merged
    <2> QED BY <2>2, <2>3 DEF merged
<1> QED BY <1>1, <1>2

HexOrAbsent == HexValues \cup {Absent}

LEMMA AbsenceIsNoValue == Absent \notin HexValues
BY DEF Absent, HexValues, True, Probable, Unknown, Doubtful, False, Contradictory

\* One more value is combined with what a belief was made of.
LEMMA MadeOfOneMore ==
    ASSUME NEW all \in SUBSET HexValues, NEW v \in HexOrAbsent, MadeOf(v, all),
           NEW w \in HexValues
    PROVE  Combined(v, w) \in HexValues /\ MadeOf(Combined(v, w), all \cup {w})
<1> DEFINE more == all \cup {w}
<1>0. more \in SUBSET HexValues /\ more # {} /\ w \in more
    OBVIOUS
<1>1. CASE all = {}
    <2>1. Combined(v, w) = w /\ more = {w}
        BY <1>1 DEF Combined, MadeOf
    <2>2. ~InConflict({w})
        BY DEF InConflict, Positive, Negative, True, Probable, Doubtful, False
    <2>3. CombineEvidenceSet({w}) = Highest({w}) /\ Highest({w}) = w
        BY <2>2, SomeValueIsHighest DEF CombineEvidenceSet
    <2> QED BY <2>1, <2>3, AbsenceIsNoValue DEF MadeOf
<1>2. CASE all # {}
    <2>1. v \in HexValues /\ Combined(v, w) = CombineEvidence(v, w)
        BY <1>2 DEF Combined, MadeOf, HexOrAbsent
    <2>2. CombineEvidence(v, w) \in HexValues
        BY <2>1 DEF CombineEvidence, Join, HexValues
    <2>3. CASE Unknown \in all /\ InConflict(all)
        <3>1. Unknown \in more /\ InConflict(more)
            BY <2>3 DEF InConflict
        <3> QED BY <1>0, <2>1, <2>2, <3>1, AbsenceIsNoValue DEF MadeOf
    <2>4. CASE ~(Unknown \in all /\ InConflict(all))
        <3>1. v = CombineEvidenceSet(all)
            BY <1>2, <2>4 DEF MadeOf
        <3>2. \/ CombineEvidence(v, w) = CombineEvidenceSet(more)
              \/ Unknown \in more /\ InConflict(more)
            BY <1>2, <2>4, <3>1, CombiningOneMore
        <3> QED BY <1>0, <2>1, <2>2, <3>2, AbsenceIsNoValue DEF MadeOf
    <2> QED BY <2>3, <2>4
<1> QED BY <1>1, <1>2

\* What an inbox holds.
Received == {[m EXCEPT !.to = a] : m \in Messages, a \in Ids}

LEMMA ReceivedShape ==
    ASSUME NEW m \in Received
    PROVE  m.proposition \in Propositions /\ m.value \in HexValues
<1>1. PICK n \in Messages, a \in Ids : m = [n EXCEPT !.to = a]
    BY DEF Received
<1>2. /\ {"from", "to", "kind", "proposition", "value"} \subseteq DOMAIN n
      /\ n.proposition \in Propositions /\ n.value \in HexValues
    BY SwarmAssumption
<1> QED BY <1>1, <1>2

\* What an agent may think: each belief is made of what was heard.
BeliefSet == [Propositions -> HexOrAbsent]
HeardSet == [Propositions -> SUBSET HexValues]
Minds ==
    {mind \in [belief : BeliefSet, heard : HeardSet, stats : [applied : Int, filtered : Int]] :
        \A p \in Propositions : MadeOf(mind.belief[p], mind.heard[p])}

LEMMA IntegratingKeepsMind ==
    ASSUME NEW mind \in Minds, NEW m \in Received
    PROVE  Integrated(mind, m) \in Minds
<1>0. m.proposition \in Propositions /\ m.value \in HexValues
    BY ReceivedShape
<1>1. CASE ~Lands(mind, m)
    BY <1>1 DEF Integrated
<1>2. CASE Lands(mind, m)
    <2> DEFINE p == m.proposition
               v == Combined(mind.belief[p], m.value)
               b == [mind.belief EXCEPT ![p] = v]
               h == [mind.heard EXCEPT ![p] = @ \cup {m.value}]
               st == [mind.stats EXCEPT
                        !.applied = @ + (IF v = mind.belief[p] THEN 0 ELSE 1)]
    <2>1. /\ mind.belief \in BeliefSet /\ mind.heard \in HeardSet
          /\ mind.stats \in [applied : Int, filtered : Int]
          /\ \A q \in Propositions : MadeOf(mind.belief[q], mind.heard[q])
        BY DEF Minds
    <2>2. /\ mind.belief[p] \in HexOrAbsent /\ mind.heard[p] \in SUBSET HexValues
          /\ MadeOf(mind.belief[p], mind.heard[p])
        BY <1>0, <2>1 DEF BeliefSet, HeardSet
    <2>3. v \in HexValues /\ MadeOf(v, mind.heard[p] \cup {m.value})
        BY <1>0, <2>2, MadeOfOneMore
    <2>4. Integrated(mind, m) = [belief |-> b, heard |-> h, stats |-> st]
        BY <1>2 DEF Integrated
    <2>5. st \in [applied : Int, filtered : Int]
        BY <2>1
    <2> HIDE DEF v, st
    <2>6. b \in BeliefSet /\ h \in HeardSet
        BY <1>0, <2>1, <2>2, <2>3 DEF BeliefSet, HeardSet, HexOrAbsent
    <2>7. \A q \in Propositions : MadeOf(b[q], h[q])
        <3> SUFFICES ASSUME NEW q \in Propositions PROVE MadeOf(b[q], h[q])
            OBVIOUS
        <3>1. CASE q = p
            BY <1>0, <2>1, <2>3, <3>1 DEF BeliefSet, HeardSet
        <3>2. CASE q # p
            BY <1>0, <2>1, <3>2 DEF BeliefSet, HeardSet
        <3> QED BY <3>1, <3>2
    <2> HIDE DEF b, h
    <2> QED BY <2>4, <2>5, <2>6, <2>7 DEF Minds
<1> QED BY <1>1, <1>2

\* The last position of a set of positions of msgs.
LastPlace(msgs) == [s \in SUBSET DOMAIN msgs |-> Max(s)]
EffectOf(msgs) ==
    [i \in DOMAIN msgs |-> [mind \in Minds |-> Integrated(mind, msgs[i])]]

\* Nor does a whole inbox change what a mind is.
LEMMA InboxKeepsMind ==
    ASSUME NEW msgs \in Seq(Received), NEW mind \in Minds
    PROVE  FoldLeft(Integrated, mind, msgs) \in Minds
<1> DEFINE D == DOMAIN msgs
           Body(f) ==
        [s \in SUBSET D |->
            IF s = {} THEN mind ELSE Integrated(f[s \ {Max(s)}], msgs[Max(s)])]
           total == CHOOSE f : f = Body(f)
           pick == LastPlace(msgs)
           effect == EffectOf(msgs)
<1>1. FoldLeft(Integrated, mind, msgs) = total[D]
    BY Zenon DEF FoldLeft, MapThenFoldSet
<1>2. /\ IsFiniteSet(D) /\ IsPick(pick, D)
      /\ \A s \in SUBSET D : pick[s] = Max(s)
      /\ \A s \in SUBSET D : s # {} => Max(s) \in D /\ Max(s) \in s
    <2>1. Len(msgs) \in Nat /\ D = 1 .. Len(msgs)
        OBVIOUS
    <2>2. IsFiniteSet(D)
        BY <2>1, FS_Interval
    <2>3. \A s \in SUBSET D : s # {} => Max(s) \in s
        BY <2>1, LastPosition
    <2>4. \A s \in SUBSET D : pick[s] = Max(s)
        BY DEF LastPlace
    <2> HIDE DEF D, pick
    <2> QED BY <2>2, <2>3, <2>4 DEF IsPick
<1>3. \A i \in D : \A x \in Minds :
        effect[i][x] = Integrated(x, msgs[i]) /\ effect[i][x] \in Minds
    <2>1. \A i \in D : msgs[i] \in Received
        OBVIOUS
    <2> QED BY <2>1, IntegratingKeepsMind DEF EffectOf
<1> HIDE DEF D, pick, effect
<1>4. PICK g : IsFold(g, D, pick, mind, effect)
    BY <1>2, FoldExists
<1>5. \A s \in SUBSET D : g[s] \in Minds
    <2>1. Keeps(Minds, D, mind, effect)
        BY <1>3 DEF Keeps
    <2> QED BY <1>2, <1>4, <2>1, FoldType
<1>6. \A s \in SUBSET D :
        g[s] = IF s = {} THEN mind ELSE Integrated(g[s \ {Max(s)}], msgs[Max(s)])
    <2> SUFFICES ASSUME NEW s \in SUBSET D
                 PROVE  g[s] = IF s = {} THEN mind
                               ELSE Integrated(g[s \ {Max(s)}], msgs[Max(s)])
        OBVIOUS
    <2>1. g[s] = IF s = {} THEN mind ELSE effect[pick[s]][g[s \ {pick[s]}]]
        BY <1>4 DEF IsFold
    <2>2. s # {} => Max(s) \in D /\ g[s \ {Max(s)}] \in Minds
        BY <1>2, <1>5
    <2> QED BY <1>2, <1>3, <2>1, <2>2
<1>7. g = Body(g)
    <2>1. \A s \in SUBSET D : Body(g)[s] = g[s]
        BY <1>6
    <2>2. g = [s \in SUBSET D |-> g[s]]
        BY <1>4 DEF IsFold
    <2>3. Body(g) = [s \in SUBSET D |-> Body(g)[s]]
        OBVIOUS
    <2> HIDE DEF Body
    <2> QED BY <2>1, <2>2, <2>3
<1>8. total = Body(total)
    <2> HIDE DEF Body
    <2> QED BY <1>7, Zenon
<1>9. \A s \in SUBSET D :
        total[s] = IF s = {} THEN mind ELSE Integrated(total[s \ {Max(s)}], msgs[Max(s)])
    <2> HIDE DEF total
    <2> QED BY <1>8
<1> HIDE DEF total, Body
<1>10. \A s \in SUBSET D : total[s] \in Minds
    <2> DEFINE bad == {s \in SUBSET D : total[s] \notin Minds}
    <2> SUFFICES ASSUME bad # {} PROVE FALSE
        OBVIOUS
    <2>1. PICK U \in bad : \A V \in bad : V \subseteq U => V = U
        <3>1. bad \in SUBSET SUBSET D
            OBVIOUS
        <3> HIDE DEF bad
        <3> QED BY <1>2, <3>1, LeastSubset
    <2>2. U \in SUBSET D /\ total[U] \notin Minds /\ U # {}
        BY <1>9, <2>1
    <2>3. Max(U) \in U /\ msgs[Max(U)] \in Received
        BY <1>2, <2>2 DEF D
    <2>4. total[U \ {Max(U)}] \in Minds
        BY <2>1, <2>2, <2>3
    <2> QED BY <1>9, <2>2, <2>3, <2>4, IntegratingKeepsMind
<1> QED BY <1>1, <1>10 DEF D

\* The invariant behind both properties of the swarm.
SwarmInv ==
    /\ members \in SUBSET Ids /\ IsFiniteSet(members)
    /\ belief \in [Ids -> BeliefSet]
    /\ heard \in [Ids -> HeardSet]
    /\ inbox \in [Ids -> Seq(Received)]
    /\ \A a \in Ids : \A p \in Propositions : MadeOf(belief[a][p], heard[a][p])

LEMMA SwarmStarts == SwarmInit => SwarmInv
<1> SUFFICES ASSUME SwarmInit PROVE SwarmInv
    OBVIOUS
<1>1. IsFiniteSet(members)
    BY FS_EmptySet DEF SwarmInit
<1>2. Blank \in BeliefSet /\ [p \in Propositions |-> {}] \in HeardSet
    BY DEF Blank, BeliefSet, HeardSet, HexOrAbsent
<1>3. \A p \in Propositions : MadeOf(Blank[p], {})
    BY DEF Blank, MadeOf
<1>4. <<>> \in Seq(Received)
    OBVIOUS
<1> QED BY <1>1, <1>2, <1>3, <1>4 DEF SwarmInit, SwarmInv

LEMMA JoiningKeepsSwarm ==
    ASSUME SwarmInv, NEW a \in Ids, NEW brings \in [Propositions -> Initial],
           AddAgent(a, brings)
    PROVE  SwarmInv'
<1> DEFINE told == [p \in Propositions |-> {brings[p]} \ {Absent}]
<1>1. /\ members' = members \cup {a} /\ belief' = [belief EXCEPT ![a] = brings]
      /\ inbox' = [inbox EXCEPT ![a] = <<>>]
      /\ heard' = [heard EXCEPT ![a] = told]
    BY DEF AddAgent
<1>2. brings \in BeliefSet /\ \A p \in Propositions : brings[p] \in HexOrAbsent
    BY SwarmAssumption DEF BeliefSet, HexOrAbsent
<1>3. told \in HeardSet
    BY <1>2 DEF HeardSet, HexOrAbsent
<1>4. \A p \in Propositions : MadeOf(brings[p], told[p])
    <2> SUFFICES ASSUME NEW p \in Propositions PROVE MadeOf(brings[p], told[p])
        OBVIOUS
    <2>1. told[p] = {brings[p]} \ {Absent}
        OBVIOUS
    <2>2. CASE brings[p] = Absent
        BY <2>1, <2>2 DEF MadeOf
    <2>3. CASE brings[p] \in HexValues
        <3>1. MadeOf(Absent, {})
            BY DEF MadeOf
        <3>2. Combined(Absent, brings[p]) = brings[p]
            BY DEF Combined
        <3>3. MadeOf(brings[p], {} \cup {brings[p]})
            BY <2>3, <3>1, <3>2, MadeOfOneMore DEF HexOrAbsent
        <3>4. told[p] = {} \cup {brings[p]}
            BY <2>1, <2>3, AbsenceIsNoValue
        <3> QED BY <3>3, <3>4
    <2> QED BY <1>2, <2>2, <2>3 DEF HexOrAbsent
<1> HIDE DEF told
<1>5. IsFiniteSet(members')
    BY <1>1, FS_AddElement DEF SwarmInv
<1>6. belief' \in [Ids -> BeliefSet] /\ heard' \in [Ids -> HeardSet]
    BY <1>1, <1>2, <1>3 DEF SwarmInv
<1>7. inbox' \in [Ids -> Seq(Received)]
    <2>1. <<>> \in Seq(Received)
        OBVIOUS
    <2> QED BY <1>1, <2>1 DEF SwarmInv
<1>8. ASSUME NEW c \in Ids, NEW p \in Propositions PROVE MadeOf(belief'[c][p], heard'[c][p])
    <2>1. CASE c = a
        BY <1>1, <1>4, <2>1 DEF SwarmInv
    <2>2. CASE c # a
        BY <1>1, <2>2 DEF SwarmInv
    <2> QED BY <2>1, <2>2
<1> QED BY <1>1, <1>5, <1>6, <1>7, <1>8 DEF SwarmInv

LEMMA SendingKeepsSwarm ==
    ASSUME SwarmInv, NEW m \in Messages, Send(m)
    PROVE  SwarmInv'
<1>1. /\ inbox' = [a \in Ids |-> IF a \in Recipients(m)
                                 THEN Append(inbox[a], [m EXCEPT !.to = a])
                                 ELSE inbox[a]]
      /\ UNCHANGED <<members, belief, heard>>
    BY DEF Send
<1>2. ASSUME NEW a \in Ids
      PROVE  /\ inbox[a] \in Seq(Received)
             /\ Append(inbox[a], [m EXCEPT !.to = a]) \in Seq(Received)
    <2>1. [m EXCEPT !.to = a] \in Received
        BY DEF Received
    <2>2. inbox[a] \in Seq(Received)
        BY DEF SwarmInv
    <2> HIDE DEF Received
    <2> QED BY ONLY <2>1, <2>2
<1>3. inbox' \in [Ids -> Seq(Received)]
    BY <1>1, <1>2
<1> QED BY <1>1, <1>3 DEF SwarmInv

\* Whatever the trust model, an agent keeps a mind.
LEMMA ProcessedIsMind ==
    ASSUME SwarmInv, NEW a \in Ids, NEW model
    PROVE  /\ Processed(a, model).belief \in BeliefSet
           /\ Processed(a, model).heard \in HeardSet
           /\ \A p \in Propositions :
                MadeOf(Processed(a, model).belief[p], Processed(a, model).heard[p])
<1>1. Mind(a) \in Minds
    BY DEF Mind, NoStats, Minds, SwarmInv
<1>2. CASE Gated(a, model)
    <2>1. /\ Processed(a, model).belief = belief[a]
          /\ Processed(a, model).heard = heard[a]
        BY <1>2 DEF Processed, Mind
    <2> QED BY <2>1 DEF SwarmInv
<1>3. CASE ~Gated(a, model)
    <2>1. Processed(a, model) = FoldLeft(Integrated, Mind(a), inbox[a])
        BY <1>3, Zenon DEF Processed
    <2>2. Processed(a, model) \in Minds
        BY <1>1, <2>1, InboxKeepsMind DEF SwarmInv
    <2> QED BY <2>2 DEF Minds
<1> QED BY <1>2, <1>3

LEMMA ProcessingKeepsSwarm ==
    ASSUME SwarmInv, NEW A \in SUBSET Ids, NEW model, Process(A, model)
    PROVE  SwarmInv'
<1>1. /\ belief' = [a \in Ids |->
                        IF a \in A THEN Processed(a, model).belief ELSE belief[a]]
      /\ heard' = [a \in Ids |->
                        IF a \in A THEN Processed(a, model).heard ELSE heard[a]]
      /\ inbox' = [a \in Ids |-> IF a \in A THEN <<>> ELSE inbox[a]]
      /\ members' = members
    BY DEF Process
<1>2. belief' \in [Ids -> BeliefSet] /\ heard' \in [Ids -> HeardSet]
    BY <1>1, ProcessedIsMind DEF SwarmInv
<1>3. inbox' \in [Ids -> Seq(Received)]
    <2>1. <<>> \in Seq(Received)
        OBVIOUS
    <2> QED BY <1>1, <2>1 DEF SwarmInv
<1>4. ASSUME NEW a \in Ids, NEW p \in Propositions PROVE MadeOf(belief'[a][p], heard'[a][p])
    <2>1. CASE a \in A
        BY <1>1, <2>1, ProcessedIsMind
    <2>2. CASE a \notin A
        BY <1>1, <2>2 DEF SwarmInv
    <2> QED BY <2>1, <2>2
<1> QED BY <1>1, <1>2, <1>3, <1>4 DEF SwarmInv

LEMMA SwarmKeeps == SwarmInv /\ [SwarmNext]_swarmvars => SwarmInv'
<1> SUFFICES ASSUME SwarmInv, [SwarmNext]_swarmvars PROVE SwarmInv'
    OBVIOUS
<1>1. ASSUME NEW a \in Ids, NEW brings \in [Propositions -> Initial], AddAgent(a, brings)
      PROVE  SwarmInv'
    BY <1>1, JoiningKeepsSwarm
<1>2. ASSUME NEW m \in Messages, Send(m) PROVE SwarmInv'
    BY <1>2, SendingKeepsSwarm
<1>3. ASSUME NEW model, ProcessAll(model) PROVE SwarmInv'
    BY <1>3, ProcessingKeepsSwarm DEF ProcessAll, SwarmInv
<1>4. ASSUME NEW a \in Ids, NEW model, ProcessInbox(a, model) PROVE SwarmInv'
    BY <1>4, ProcessingKeepsSwarm DEF ProcessInbox
<1>5. ASSUME UNCHANGED swarmvars PROVE SwarmInv'
    BY <1>5 DEF swarmvars, SwarmInv
<1> HIDE DEF SwarmInv
<1> QED BY <1>1, <1>2, <1>3, <1>4, <1>5, Zenon DEF SwarmNext

\* Whoever joins, replaces whom, sends and reads in whatever order and under
\* whatever trust, an agent's belief is the combination of what it was made of,
\* unless an Unknown came between the sides.
THEOREM OrderMattersLittle == SwarmSpec => []OrderMattersOnlyForUnknown
<1>1. SwarmInv => OrderMattersOnlyForUnknown
    BY DEF SwarmInv, MadeOf, OrderMattersOnlyForUnknown
<1> QED BY <1>1, SwarmStarts, SwarmKeeps, PTL DEF SwarmSpec

-----------------------------------------------------------------------------
(* The swarm: its consensus.                                               *)

LEMMA SumOverIsSum ==
    ASSUME NEW S, IsFiniteSet(S), NEW w, \A x \in S : w[x] \in Int
    PROVE  \E g : IsSum(g, S, [x \in S |-> w[x]]) /\ SumOver(w, S) = g[S]
<1> DEFINE Body(f) ==
        [s \in SUBSET S |->
            IF s = {} THEN 0
            ELSE w[CHOOSE x \in s : TRUE] + f[s \ {CHOOSE x \in s : TRUE}]]
           u == [x \in S |-> w[x]]
           total == CHOOSE f : f = Body(f)
<1>1. SumOver(w, S) = total[S]
    BY Zenon DEF SumOver, MapThenSumSet, MapThenFoldSet
<1>2. u \in [S -> Int]
    OBVIOUS
<1>3. PICK g : IsSum(g, S, u)
    BY <1>2, SumExists
<1>4. \A f : IsSum(f, S, u) <=> f = Body(f)
    <2> SUFFICES ASSUME NEW f PROVE IsSum(f, S, u) <=> f = Body(f)
        OBVIOUS
    <2> DEFINE sums == [s \in SUBSET S |->
                            IF s = {} THEN 0
                            ELSE u[CHOOSE x \in s : TRUE]
                                    + f[s \ {CHOOSE x \in s : TRUE}]]
    <2>1. \A s \in SUBSET S : s # {} => (CHOOSE x \in s : TRUE) \in S
        OBVIOUS
    <2>2. \A s \in SUBSET S : s # {} =>
            u[CHOOSE x \in s : TRUE] = w[CHOOSE x \in s : TRUE]
        BY <2>1
    <2> HIDE DEF u
    <2>3. sums = Body(f)
        BY <2>2
    <2> QED BY <2>3, Zenon DEF IsSum
<1>5. total = Body(total)
    <2>1. g = Body(g)
        BY <1>3, <1>4
    <2> HIDE DEF Body
    <2> QED BY <2>1, Zenon
<1>6. IsSum(total, S, u)
    BY <1>4, <1>5
<1> QED BY <1>1, <1>6

LEMMA QuartersAreRanks ==
    ASSUME NEW v \in HexValues \ {Contradictory}
    PROVE  Quarters(v) = Rank(v) /\ Rank(v) \in 0 .. 4
BY DEF HexValues, Quarters, Rank, True, Probable, Unknown, Doubtful, False, Contradictory

\* The value nearest to a mean is not a whole rank away from it.
LEMMA NearestIsNear ==
    ASSUME NEW sum \in Int, NEW weight \in Nat, weight # 0
    PROVE  LET c == NearestValue(sum, weight)
           IN  /\ c \in HexValues \ {Contradictory}
               /\ \A k \in 0 .. 4 :
                    /\ k * weight <= sum => k <= Rank(c)
                    /\ sum <= k * weight => Rank(c) <= k
<1> DEFINE c == NearestValue(sum, weight)
<1>1. /\ Rank(False) = 0 /\ Rank(Doubtful) = 1 /\ Rank(Unknown) = 2
      /\ Rank(Probable) = 3 /\ Rank(True) = 4
    BY DEF Rank, True, Probable, Unknown, Doubtful, False, Contradictory
<1>2. {False, Doubtful, Unknown, Probable, True} = HexValues \ {Contradictory}
    BY DEF HexValues, True, Probable, Unknown, Doubtful, False, Contradictory
<1>3. \/ c = True /\ 2 * sum >= 7 * weight
      \/ c = Probable /\ 2 * sum >= 5 * weight /\ 2 * sum < 7 * weight
      \/ c = Unknown /\ 2 * sum >= 3 * weight /\ 2 * sum < 5 * weight
      \/ c = Doubtful /\ 2 * sum >= weight /\ 2 * sum < 3 * weight
      \/ c = False /\ 2 * sum < weight
    BY DEF NearestValue
<1> HIDE DEF c
<1>4. ASSUME NEW k \in 0 .. 4
      PROVE  /\ k * weight <= sum => k <= Rank(c)
             /\ sum <= k * weight => Rank(c) <= k
    <2>1. k = 0 \/ k = 1 \/ k = 2 \/ k = 3 \/ k = 4
        OBVIOUS
    <2>2. CASE k = 0
        BY <1>1, <1>3, <2>2
    <2>3. CASE k = 1
        BY <1>1, <1>3, <2>3
    <2>4. CASE k = 2
        BY <1>1, <1>3, <2>4
    <2>5. CASE k = 3
        BY <1>1, <1>3, <2>5
    <2>6. CASE k = 4
        BY <1>1, <1>3, <2>6
    <2> QED BY <2>1, <2>2, <2>3, <2>4, <2>5, <2>6
<1> QED BY <1>2, <1>3, <1>4 DEF c

\* c lies between the votes: neither above nor below all that are definite.
BetweenVotes(c, votes) ==
    LET definite == {votes[a] : a \in DOMAIN votes} \ {Contradictory}
    IN  /\ \E v \in definite : Rank(v) <= Rank(c)
        /\ \E v \in definite : Rank(v) >= Rank(c)

\* A consensus is the value nearest to a weighted mean of the definite votes;
\* if all of these are of some rank or above, or below, then so is the mean.
LEMMA MeanIsBetween ==
    ASSUME NEW A, IsFiniteSet(A), NEW votes \in [A -> HexValues],
           NEW S, S = {a \in A : votes[a] # Contradictory},
           NEW w \in [S -> Nat], NEW g, IsSum(g, S, w),
           NEW u \in [S -> Int], NEW h, IsSum(h, S, u),
           \A a \in S : u[a] = w[a] * Quarters(votes[a]),
           g[S] # 0
    PROVE  BetweenVotes(NearestValue(h[S], g[S]), votes)
<1> DEFINE c == NearestValue(h[S], g[S])
           definite == {votes[a] : a \in DOMAIN votes} \ {Contradictory}
<1>1. IsFiniteSet(S)
    BY FS_Subset
<1>2. w \in [S -> Int] /\ g[S] \in Nat /\ h[S] \in Int
    <2>1. w \in [S -> Int]
        OBVIOUS
    <2> QED BY <1>1, <2>1, SumFacts, SumOfNaturals
<1>3. /\ c \in HexValues \ {Contradictory}
      /\ \A k \in 0 .. 4 : /\ k * g[S] <= h[S] => k <= Rank(c)
                           /\ h[S] <= k * g[S] => Rank(c) <= k
    BY <1>2, NearestIsNear
<1>4. Rank(c) \in 0 .. 4
    BY <1>3, QuartersAreRanks
<1>5. ASSUME NEW a \in S
      PROVE  /\ votes[a] \in definite /\ Rank(votes[a]) \in 0 .. 4
             /\ w[a] \in Nat /\ u[a] = w[a] * Rank(votes[a])
    BY QuartersAreRanks
<1> HIDE DEF c, definite
<1>6. ASSUME \A v \in definite : ~(Rank(v) <= Rank(c)) PROVE FALSE
    <2> DEFINE k == Rank(c) + 1
    <2>1. \A a \in S : k <= Rank(votes[a])
        BY <1>4, <1>5, <1>6
    <2>2. CASE S = {}
        BY <1>1, <1>2, <2>2, SumFacts
    <2>3. CASE S # {}
        <3>1. k \in 0 .. 4
            BY <1>4, <1>5, <2>1, <2>3
        <3> HIDE DEF k
        <3>2. ASSUME NEW a \in S PROVE k * w[a] <= u[a]
            <4>1. \A m \in Nat, r \in Nat : k <= r => k * m <= m * r
                <5> SUFFICES ASSUME NEW m \in Nat, NEW r \in Nat, k <= r
                             PROVE  k * m <= m * r
                    OBVIOUS
                <5>1. PICK d \in Nat : r = k + d
                    BY <3>1
                <5>2. m * r = k * m + m * d /\ m * d >= 0
                    BY <3>1, <5>1
                <5> QED BY <3>1, <5>2
            <4> QED BY <1>5, <2>1, <4>1
        <3>3. k * g[S] <= h[S]
            BY <1>1, <1>2, <3>1, <3>2, SumsCompare
        <3>4. k <= Rank(c)
            BY <1>3, <3>1, <3>3
        <3> QED BY <1>4, <3>4 DEF k
    <2> QED BY <2>2, <2>3
<1>7. ASSUME \A v \in definite : ~(Rank(v) >= Rank(c)) PROVE FALSE
    <2> DEFINE k == Rank(c) - 1
    <2>1. \A a \in S : Rank(votes[a]) <= k
        BY <1>4, <1>5, <1>7
    <2>2. CASE S = {}
        BY <1>1, <1>2, <2>2, SumFacts
    <2>3. CASE S # {}
        <3>1. k \in 0 .. 4
            BY <1>4, <1>5, <2>1, <2>3
        <3> HIDE DEF k
        <3>2. ASSUME NEW a \in S PROVE u[a] <= k * w[a]
            <4>1. \A m \in Nat, r \in Nat : r <= k => m * r <= k * m
                <5> SUFFICES ASSUME NEW m \in Nat, NEW r \in Nat, r <= k
                             PROVE  m * r <= k * m
                    OBVIOUS
                <5>1. PICK d \in Nat : k = r + d
                    BY <3>1
                <5>2. k * m = m * r + m * d /\ m * d >= 0
                    BY <5>1
                <5> QED BY <3>1, <5>2
            <4> QED BY <1>5, <2>1, <4>1
        <3>3. h[S] <= k * g[S]
            BY <1>1, <1>2, <3>1, <3>2, SumsCompare
        <3>4. Rank(c) <= k
            BY <1>3, <3>1, <3>3
        <3> QED BY <1>4, <3>4 DEF k
    <2> QED BY <2>2, <2>3
<1> QED BY <1>6, <1>7 DEF BetweenVotes, c, definite

LEMMA EqualIsBetween ==
    ASSUME NEW A, IsFiniteSet(A), NEW votes \in [A -> HexValues],
           EqualConsensus(votes) # Contradictory
    PROVE  BetweenVotes(EqualConsensus(votes), votes)
<1> DEFINE S == {a \in A : votes[a] # Contradictory}
           q == [a \in A |-> Quarters(votes[a])]
           ones == [a \in S |-> 1]
           u == [a \in S |-> q[a]]
<1>0. DOMAIN votes = A
    OBVIOUS
<1>1. S # {} /\ EqualConsensus(votes) = NearestValue(SumOver(q, S), Cardinality(S))
    BY <1>0, Zenon DEF EqualConsensus
<1>2. IsFiniteSet(S)
    BY FS_Subset
<1>3. \A a \in S : q[a] \in Int /\ u[a] = q[a] /\ q[a] = Quarters(votes[a])
    BY QuartersAreRanks
<1>4. u \in [S -> Int] /\ ones \in [S -> Nat] /\ ones \in [S -> Int]
    BY <1>3
<1>5. \A a \in S : u[a] = ones[a] * Quarters(votes[a])
    BY <1>3
<1>6. PICK h : IsSum(h, S, u) /\ SumOver(q, S) = h[S]
    <2> HIDE DEF q, S
    <2> QED BY <1>2, <1>3, SumOverIsSum
<1>7. PICK g : IsSum(g, S, ones)
    BY <1>2, <1>4, SumExists
<1>8. g[S] = Cardinality(S) /\ g[S] # 0
    <2>1. \A a \in S : 1 <= ones[a] /\ ones[a] <= 1
        OBVIOUS
    <2> HIDE DEF ones, S
    <2>2. /\ Cardinality(S) \in Nat
          /\ 1 * Cardinality(S) <= g[S] /\ g[S] <= 1 * Cardinality(S)
        BY <1>2, <1>4, <1>7, <2>1, SumBounds
    <2>3. g[S] \in Int
        BY <1>2, <1>4, <1>7, SumFacts
    <2>4. Cardinality(S) # 0
        BY <1>1, <1>2, FS_EmptySet
    <2> QED BY <2>2, <2>3, <2>4
<1> HIDE DEF q, ones, u
<1>9. BetweenVotes(NearestValue(h[S], g[S]), votes)
    BY <1>4, <1>5, <1>6, <1>7, <1>8, MeanIsBetween
<1> QED BY <1>1, <1>6, <1>8, <1>9

LEMMA WeightedIsBetween ==
    ASSUME NEW A, IsFiniteSet(A), NEW votes \in [A -> HexValues],
           NEW weight, \A a \in A : weight[a] \in Nat,
           WeightedConsensus(votes, weight) # Contradictory
    PROVE  BetweenVotes(WeightedConsensus(votes, weight), votes)
<1> DEFINE S == {a \in A : votes[a] # Contradictory}
           R == {a \in A : votes[a] \in HexValues \ {Contradictory}}
           q == [a \in A |-> weight[a] * Quarters(votes[a])]
           w == [a \in S |-> weight[a]]
           u == [a \in S |-> q[a]]
<1>0. DOMAIN votes = A
    OBVIOUS
<1>1. /\ SumOver(weight, R) # 0
      /\ WeightedConsensus(votes, weight) = NearestValue(SumOver(q, S), SumOver(weight, R))
    BY <1>0, Zenon DEF WeightedConsensus
<1>2. R = S
    OBVIOUS
<1>3. IsFiniteSet(S)
    BY FS_Subset
<1>4. ASSUME NEW a \in S
      PROVE  /\ weight[a] \in Nat /\ w[a] = weight[a] /\ q[a] \in Int /\ u[a] = q[a]
             /\ q[a] = weight[a] * Quarters(votes[a])
    <2>1. Quarters(votes[a]) \in Nat /\ weight[a] \in Nat
        BY QuartersAreRanks
    <2>2. q[a] = weight[a] * Quarters(votes[a])
        OBVIOUS
    <2> QED BY <2>1, <2>2
<1>5. u \in [S -> Int] /\ w \in [S -> Nat] /\ w \in [S -> Int]
    BY <1>4
<1>6. \A a \in S : u[a] = w[a] * Quarters(votes[a])
    BY <1>4
<1>7. PICK h : IsSum(h, S, u) /\ SumOver(q, S) = h[S]
    <2> HIDE DEF q, S
    <2> QED BY <1>3, <1>4, SumOverIsSum
<1>8. PICK g : IsSum(g, S, w) /\ SumOver(weight, S) = g[S]
    <2> HIDE DEF q, S
    <2> QED BY <1>3, <1>4, SumOverIsSum
<1> HIDE DEF q, w, u, R
<1>9. BetweenVotes(NearestValue(h[S], g[S]), votes)
    BY <1>1, <1>2, <1>5, <1>6, <1>7, <1>8, MeanIsBetween
<1> QED BY <1>1, <1>2, <1>7, <1>8, <1>9

\* Whoever the members are and whatever they have come to believe, a consensus
\* that is not contradictory is neither above nor below all of their votes,
\* whether it is taken by head or by weight.
THEOREM ConsensusIsBetween == SwarmSpec => []ConsensusBetweenVotes
<1>1. ASSUME SwarmInv, members # {}, NEW p \in Propositions, NEW model,
             ConsensusWith(p, model) # Contradictory
      PROVE  BetweenVotes(ConsensusWith(p, model), Votes(p))
    <2>1. Votes(p) \in [members -> HexValues]
        <3>1. ASSUME NEW a \in members PROVE Vote(a, p) \in HexValues
            <4>1. a \in Ids /\ belief[a] \in BeliefSet
                BY <1>1 DEF SwarmInv
            <4>2. belief[a][p] \in HexValues \/ belief[a][p] = Absent
                BY <4>1 DEF BeliefSet, HexOrAbsent
            <4> QED BY <4>2 DEF Vote, HexValues
        <3> QED BY <3>1 DEF Votes
    <2>2. \A a \in members : SelfTrust[a] \in Nat
        <3>1. SelfTrust \in [Ids -> 0 .. 10]
            BY SwarmAssumption
        <3>2. members \subseteq Ids
            BY <1>1 DEF SwarmInv
        <3>3. \A a \in Ids : SelfTrust[a] \in 0 .. 10
            BY <3>1
        <3> QED BY <3>2, <3>3
    <2>3. IsFiniteSet(members) /\ DOMAIN Votes(p) = members
        BY <1>1, <2>1 DEF SwarmInv
    <2>4. ConsensusWith(p, model) \in
            {EqualConsensus(Votes(p)), WeightedConsensus(Votes(p), SelfTrust)}
        BY <1>1, <2>3 DEF ConsensusWith, Consensus
    <2> QED BY <1>1, <2>1, <2>2, <2>3, <2>4, EqualIsBetween, WeightedIsBetween
<1>2. ASSUME NEW p \in Propositions
      PROVE  {Votes(p)[a] : a \in DOMAIN Votes(p)} = {Vote(a, p) : a \in members}
    BY DEF Votes
<1>3. SwarmInv => ConsensusBetweenVotes
    <2> SUFFICES ASSUME SwarmInv, NEW p \in Propositions, NEW model \in Models,
                        members # {}, ConsensusWith(p, model) # Contradictory
                 PROVE  LET definite == {Vote(a, p) : a \in members} \ {Contradictory}
                        IN  /\ \E v \in definite : Rank(v) <= Rank(ConsensusWith(p, model))
                            /\ \E v \in definite : Rank(v) >= Rank(ConsensusWith(p, model))
        BY Zenon DEF ConsensusBetweenVotes
    <2>1. BetweenVotes(ConsensusWith(p, model), Votes(p))
        BY <1>1
    <2> QED BY <1>2, <2>1, Zenon DEF BetweenVotes
<1> QED BY <1>3, SwarmStarts, SwarmKeeps, PTL DEF SwarmSpec
=============================================================================
