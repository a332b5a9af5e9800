-------------------------- MODULE SubjectiveLogic --------------------------
(***************************************************************************)
(* hari-core's second pipeline: per proposition a running opinion, into    *)
(* which the evidence of every event is fused, and a recommendation read   *)
(* off the opinion by thresholds.                                          *)
(*                                                                         *)
(* An opinion (b, d, u) is kept as the evidence it stands for: with the    *)
(* weights r for and s against, and the prior weight w of the operator,    *)
(* b = r / (r + s + w), d = s / (r + s + w) and u = w / (r + s + w).       *)
(* Cumulative fusion then adds the weights, and every threshold compares   *)
(* integers.  Base rates stay at one half, whatever is fused, and u never  *)
(* reaches 0.  Log actions and the goal map, which no recommendation       *)
(* reads, are left out.                                                    *)
(***************************************************************************)
EXTENDS Recommendations

CONSTANT Claims     \* the propositions events are about

VARIABLES
    opinion,    \* evidence for and against each proposition
    held,       \* the propositions that have an opinion of their own
    heard,      \* what the last event asserted, and of what
    advice      \* what it was answered

slvars == <<opinion, held, heard, advice>>

\* The least weight that makes those of all values, direct or voted, whole.
Unit == 24453
PriorWeight == 2 * Unit

Vacuous == [for |-> 0, against |-> 0]
Total(o) == o.for + o.against + PriorWeight

Opinion(r, s) == [for |-> r, against |-> s]

\* Belief, disbelief and uncertainty in hundredths: 85 5 10, 55 15 30,
\* 5 5 90, 15 55 30, 5 85 10 and 45 45 10.
FromHex(v) ==
    LET moderate == Unit \div 3
        slight == Unit \div 9
    IN  CASE v = True -> Opinion(17 * Unit, Unit)
          [] v = Probable -> Opinion(11 * moderate, 3 * moderate)
          [] v = Unknown -> Opinion(slight, slight)
          [] v = Doubtful -> Opinion(3 * moderate, 11 * moderate)
          [] v = False -> Opinion(Unit, 17 * Unit)
          [] v = Contradictory -> Opinion(9 * Unit, 9 * Unit)

\* A vote keeps half of the belief and half of the disbelief; what is left is
\* uncertainty.
Discounted(v) ==
    LET strong == Unit \div 11
        moderate == Unit \div 13
        slight == Unit \div 19
    IN  CASE v = True -> Opinion(17 * strong, strong)
          [] v = Probable -> Opinion(11 * moderate, 3 * moderate)
          [] v = Unknown -> Opinion(slight, slight)
          [] v = Doubtful -> Opinion(3 * moderate, 11 * moderate)
          [] v = False -> Opinion(strong, 17 * strong)
          [] v = Contradictory -> Opinion(9 * strong, 9 * strong)

\* Slip: fresh evidence replaces the running opinion.
FuseByReplacing(o, fresh) == fresh

CumulativeFuse(o, fresh) ==
    Opinion(o.for + fresh.for, o.against + fresh.against)

-----------------------------------------------------------------------------
(* Reading an opinion.                                                     *)

Above(weight, percent, o) == 100 * weight > percent * Total(o)
AtLeast(weight, percent, o) == 100 * weight >= percent * Total(o)

Conflicting(o) == Above(o.for, 40, o) /\ Above(o.against, 40, o)

RecommendFromOpinion(p, o) ==
    CASE Conflicting(o) -> Action("escalate", p, Contradictory)
      [] ~Conflicting(o) /\ Above(o.for, 70, o) ->
            Action("accept", p, IF AtLeast(o.for, 85, o) THEN True ELSE Probable)
      [] Above(o.against, 70, o) ->
            Action("accept", p,
                   IF AtLeast(o.against, 85, o) THEN False ELSE Doubtful)
      [] Above(PriorWeight, 70, o) -> Action("investigate", p, Unknown)
      [] OTHER -> Waiting

\* Slip: disbelief is read for belief.
ProjectedAgainst(o) == o.against + Unit

\* The projected probability b + u / 2, as a weight.
Projected(o) == o.for + Unit

HexValueForOpinion(o) ==
    CASE Conflicting(o) -> Contradictory
      [] ~Conflicting(o) /\ Above(PriorWeight, 70, o) -> Unknown
      [] OTHER ->
            IF AtLeast(Projected(o), 85, o) THEN True
            ELSE IF AtLeast(Projected(o), 55, o) THEN Probable
            ELSE IF AtLeast(Projected(o), 45, o) THEN Unknown
            ELSE IF AtLeast(Projected(o), 15, o) THEN Doubtful
            ELSE False

-----------------------------------------------------------------------------
(* The events.                                                             *)

SLInit ==
    /\ opinion = [p \in Claims |-> Vacuous]
    /\ held = {}
    /\ heard = [about |-> {}, value |-> Unknown]
    /\ advice = {}

Fuse(p, v, fresh) ==
    LET fused == CumulativeFuse(opinion[p], fresh)
    IN  /\ opinion' = [opinion EXCEPT ![p] = fused]
        /\ held' = held \cup {p}
        /\ heard' = [about |-> {p}, value |-> v]
        /\ advice' = {RecommendFromOpinion(p, fused)}

\* Belief updates and experiment results alike.
AssertClaim(p, v) == Fuse(p, v, FromHex(v))
Vote(p, v) == Fuse(p, v, Discounted(v))

Reset(p, actions) ==
    /\ opinion' = [opinion EXCEPT ![p] = Vacuous]
    /\ held' = held \cup {p}
    /\ heard' = [about |-> {}, value |-> Unknown]
    /\ advice' = actions

\* The selector of a retraction is not looked at.
Retract(p) == Reset(p, {Action("retry", p, Unknown)})

\* Nor is the value of a correction.
Correct(p) == Reset(p, {})

\* Goals, relations and supersessions are logged only.
Ignore ==
    /\ heard' = [about |-> {}, value |-> Unknown]
    /\ advice' = {}
    /\ UNCHANGED <<opinion, held>>

SLNext ==
    \/ \E p \in Claims :
          \/ \E v \in HexValues : AssertClaim(p, v) \/ Vote(p, v)
          \/ Retract(p)
          \/ Correct(p)
    \/ Ignore

SLSpec == SLInit /\ [][SLNext]_slvars

-----------------------------------------------------------------------------

\* Weights are natural numbers; only a proposition with an opinion has any.
OpinionsTyped ==
    /\ opinion \in [Claims -> [for : Nat, against : Nat]]
    /\ held \subseteq Claims
    /\ \A p \in Claims \ held : opinion[p] = Vacuous

AcceptedSide(p, side) ==
    LET advised == RecommendFromOpinion(p, opinion[p])
    IN  advised.kind = "accept" /\ advised.value \in side

\* Recommendations read the beliefs of an opinion, reports read its projected
\* probability: a claim that is accepted is never reported as of the other
\* side, unknown or contradictory, whatever was heard before.
AcceptAgreesWithReport ==
    \A p \in Claims :
        /\ AcceptedSide(p, Positive) => HexValueForOpinion(opinion[p]) \in Positive
        /\ AcceptedSide(p, Negative) => HexValueForOpinion(opinion[p]) \in Negative

\* Further support never costs a claim its acceptance: an assertion or a vote
\* on the side that is accepted leaves that side accepted, however moderate
\* it is and whatever was fused before.
SupportNeverUnaccepts ==
    [][\A p \in Claims, side \in {Positive, Negative} :
            /\ AcceptedSide(p, side)
            /\ heard'.about = {p}
            /\ heard'.value \in side
            => AcceptedSide(p, side)']_slvars
=============================================================================
