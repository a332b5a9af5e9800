--------------------------- MODULE SwarmConsensus ---------------------------
(***************************************************************************)
(* hari-swarm's consensus over the votes of a set of agents, in integers:  *)
(* a weight is a whole number of tenths of the code's self_trust, and a    *)
(* confidence is counted in quarters.                                      *)
(***************************************************************************)
EXTENDS HexLattice, FiniteSets, FiniteSetsExt

Quarters(v) ==
    CASE v = True -> 4
      [] v = Probable -> 3
      [] v = Unknown -> 2
      [] v = Doubtful -> 1
      [] v = False -> 0
      [] v = Contradictory -> 2

\* Slip: a mean that is as near to the value above goes to it too early.
NearestValueAbove(sum, weight) ==
    CASE 2 * sum >= 6 * weight -> True
      [] 2 * sum >= 4 * weight /\ 2 * sum < 6 * weight -> Probable
      [] 2 * sum >= 2 * weight /\ 2 * sum < 4 * weight -> Unknown
      [] 2 * sum > 0 /\ 2 * sum < 2 * weight -> Doubtful
      [] OTHER -> False

\* The definite value nearest to the mean confidence sum / (4 * weight).
NearestValue(sum, weight) ==
    CASE 2 * sum >= 7 * weight -> True
      [] 2 * sum >= 5 * weight /\ 2 * sum < 7 * weight -> Probable
      [] 2 * sum >= 3 * weight /\ 2 * sum < 5 * weight -> Unknown
      [] 2 * sum >= weight /\ 2 * sum < 3 * weight -> Doubtful
      [] OTHER -> False

SumOver(w, A) == MapThenSumSet(LAMBDA a : w[a], A)

\* votes maps agents to values, weight maps at least those agents to tenths.
WeightedConsensus(votes, weight) ==
    LET voters == DOMAIN votes
        WeightFor(values) == SumOver(weight, {a \in voters : votes[a] \in values})
        total == WeightFor(HexValues)
        definite == WeightFor(HexValues \ {Contradictory})
        confidence ==
            SumOver([a \in voters |-> weight[a] * Quarters(votes[a])],
                  {a \in voters : votes[a] # Contradictory})
    IN  CASE 2 * WeightFor({Contradictory}) > total -> Contradictory
          [] 10 * Min({WeightFor(Positive), WeightFor(Negative)}) > 3 * total
                -> Contradictory
          [] OTHER -> IF definite = 0 THEN Contradictory
                      ELSE NearestValue(confidence, definite)

\* One agent, one vote.
EqualConsensus(votes) ==
    LET voters == DOMAIN votes
        Count(values) == Cardinality({a \in voters : votes[a] \in values})
        definite == {a \in voters : votes[a] # Contradictory}
    IN  CASE 2 * Count({Contradictory}) > Cardinality(voters) -> Contradictory
          [] 10 * Min({Count(Positive), Count(Negative)}) > 3 * Cardinality(voters)
                -> Contradictory
          [] OTHER ->
                IF definite = {} THEN Contradictory
                ELSE NearestValue(SumOver([a \in voters |-> Quarters(votes[a])], definite),
                                  Cardinality(definite))

\* No voter at all is Unknown; voters without any weight count equally.
Consensus(votes, weight) ==
    IF DOMAIN votes = {} THEN Unknown
    ELSE IF \A a \in DOMAIN votes : weight[a] = 0 THEN EqualConsensus(votes)
    ELSE WeightedConsensus(votes, weight)
=============================================================================
