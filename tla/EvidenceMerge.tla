--------------------------- MODULE EvidenceMerge ----------------------------
(***************************************************************************)
(* Replicas that exchange hexavalent observations as the merge protocol of *)
(* hari-lattice allows: each holds the result of its last merge, feeds it  *)
(* back with whatever arrives next, and merges again under the staleness   *)
(* window of the current round.  Deliveries repeat, overtake each other    *)
(* and are routed through other replicas; one source may deliver divergent *)
(* versions of one observation slot.                                       *)
(***************************************************************************)
EXTENDS HexMerge

CONSTANTS
    Replicas,       \* consumers that carry a merged state
    Agents,         \* the sources that emit
    Emissions,      \* the observations sources may emit
    StalenessK,     \* the staleness budget, in rounds
    LastRound,      \* bound of the model: rounds run 0 .. LastRound
    MaxTombstones,  \* bound of a property: slots retracted at once
    EvenWeight      \* the weight of evidence that all weighs the same

\* Observations as agents emit them, and as the versions of a slot resolve.
EmissionType ==
    [source : Agents, diagnosis : {EmittedDiagnosis},
     round : Nat, ordinal : Nat, claim : DOMAIN ClaimOrder,
     variant : HexValues, weight : Nat]

\* The merge's name and its aspect are reserved: no agent uses them.  Weights
\* are multiples of ten where the Belnap multipliers are to stay exact.
ASSUME MergeAssumption ==
    /\ StalenessK \in Nat
    /\ LastRound \in Nat
    /\ MergeSource \notin Agents
    /\ IsFiniteSet(Emissions)
    /\ Emissions \subseteq EmissionType
    /\ \A o \in Emissions : o.claim.aspect # MetaConflictAspect
    /\ EvenWeight \in Nat /\ EvenWeight % 10 = 0

\* Claim keys are compared by a total order.
ASSUME ClaimAssumption ==
    \A c, d \in DOMAIN ClaimOrder :
        /\ ClaimOrder[c] \in Nat
        /\ ClaimOrder[c] = ClaimOrder[d] => c = d

VARIABLES
    held,       \* the observations each replica carries: its last merge
    current,    \* the current round
    received    \* history: every emission that has reached each replica

vars == <<held, current, received>>

Init ==
    /\ held = [r \in Replicas |-> {}]
    /\ current = 0
    /\ received = [r \in Replicas |-> {}]

\* A replica merges new observations into what it carries.
MergeIn(r, S) ==
    held' = [held EXCEPT ![r] = Merge(@ \cup S, current, StalenessK)]

Deliver(r, o) ==
    /\ o.round <= current
    /\ MergeIn(r, {o})
    /\ received' = [received EXCEPT ![r] = @ \cup {o}]
    /\ UNCHANGED current

\* A replica hands over its merged state, synthesised observations included.
Exchange(r, s) ==
    /\ r # s
    /\ MergeIn(r, held[s])
    /\ received' = [received EXCEPT ![r] = @ \cup received[s]]
    /\ UNCHANGED current

NextRound ==
    /\ current < LastRound
    /\ current' = current + 1
    /\ UNCHANGED <<held, received>>

Next ==
    \/ \E r \in Replicas, o \in Emissions : Deliver(r, o)
    \/ \E r, s \in Replicas : Exchange(r, s)
    \/ NextRound

Spec == Init /\ [][Next]_vars

-----------------------------------------------------------------------------

\* What a replica reads off what it carries, at the current round.
View(r) == Merge(held[r], current, StalenessK)

Claims == DOMAIN ClaimOrder

\* Carrying a merged state loses and invents nothing: whatever the order,
\* repetition and routing of the deliveries, merging what is carried gives
\* exactly the merge of all the base evidence ever received.  Two replicas
\* that received the same evidence therefore agree.
CarriedMatchesFlat ==
    \A r \in Replicas : View(r) = Merge(received[r], current, StalenessK)

\* A retraction applied to a carried state gives what a replica would see had
\* the retracted observations never been submitted, with no contradiction
\* left over from them, in whatever partial view it was once synthesised.
TombstoneIsNeverPresent ==
    \A r \in Replicas : \A T \in SUBSET DedupKeys(received[r]) :
        Cardinality(T) <= MaxTombstones =>
            MergeWithTombstones(held[r], T, current, StalenessK) =
                Merge({o \in received[r] : DedupKey(o) \notin T},
                      current, StalenessK)

\* A position of its own: an observation of the current round in a slot no
\* emission uses.
Voice(source, claim, variant, weight) ==
    [source |-> source, diagnosis |-> EmittedDiagnosis, round |-> current,
     ordinal |-> 1 + Max({o.ordinal : o \in Emissions} \cup {0}),
     claim |-> claim, variant |-> variant, weight |-> weight]

EscalatesWith(r, o) ==
    EscalationTriggered(Merge(held[r] \cup {o}, current, StalenessK))

\* An abstention, whoever utters it and however heavy, never changes whether
\* the merged state escalates.
AbstentionCannotMute ==
    \A r \in Replicas, o \in Emissions :
        EscalatesWith(r, Voice(o.source, o.claim, Unknown, o.weight))
            <=> EscalationTriggered(View(r))

\* Nor can agreement drown a standing disagreement.  Where all evidence is on
\* one claim and weighs the same, an agent that takes a side another source
\* stands against leaves an escalation escalated.
Opposite(v) == IF v \in Positive THEN Negative ELSE Positive
OpposedVoiceCannotMute ==
    \A r \in Replicas, s \in Agents, c \in Claims, v \in Positive \cup Negative :
        LET emitted == BaseEvidence(View(r))
        IN  /\ EscalationTriggered(View(r))
            /\ \A o \in emitted : o.claim = c /\ o.weight = EvenWeight
            /\ \E o \in emitted : o.source # s /\ o.variant \in Opposite(v)
            => EscalatesWith(r, Voice(s, c, v, EvenWeight))
=============================================================================
