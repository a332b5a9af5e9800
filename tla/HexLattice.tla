----------------------------- MODULE HexLattice -----------------------------
(***************************************************************************)
(* The six-valued logic of hari-lattice: the truth chain F < D < U < P < T *)
(* with Contradictory (C) outside it, its complement and its two ways of   *)
(* combining evidence.  Everything here is a pure function of its          *)
(* arguments; the state machines built on it are BeliefNetwork,            *)
(* EvidenceMerge and BeliefRevision.                                       *)
(***************************************************************************)
EXTENDS Integers

True == "T"
Probable == "P"
Unknown == "U"
Doubtful == "D"
False == "F"
Contradictory == "C"

HexValues == {True, Probable, Unknown, Doubtful, False, Contradictory}

Positive == {True, Probable}
Negative == {False, Doubtful}

\* The position on the truth chain; C sits above all of it.
Rank(v) ==
    CASE v = False -> 0
      [] v = Doubtful -> 1
      [] v = Unknown -> 2
      [] v = Probable -> 3
      [] v = True -> 4
      [] v = Contradictory -> 5

\* C absorbs; otherwise the more-true value.  As C has the highest rank the
\* early return of the code and the comparison agree.
Join(a, b) == IF Rank(a) >= Rank(b) THEN a ELSE b

\* Slip: a wildcard arm sends Unknown to Contradictory.
NotByWildcard(v) ==
    CASE v \in Positive -> Doubtful
      [] v \in Negative -> Probable
      [] OTHER -> Contradictory

Not(v) ==
    CASE v = True -> False
      [] v = Probable -> Doubtful
      [] v = Unknown -> Unknown
      [] v = Doubtful -> Probable
      [] v = False -> True
      [] v = Contradictory -> Contradictory

InConflict(S) == S \cap Positive # {} /\ S \cap Negative # {}

\* The pairwise, order-sensitive combination used along the event stream.
CombineEvidence(a, b) ==
    IF InConflict({a, b}) THEN Contradictory ELSE Join(a, b)

\* The join of a non-empty set of values.
Highest(S) == CHOOSE v \in S : \A w \in S : Rank(w) <= Rank(v)

\* The n-ary combination of a set of simultaneous contributions.
CombineEvidenceSet(S) ==
    IF InConflict(S) THEN Contradictory
    ELSE IF S = {} THEN Unknown
    ELSE Highest(S)

Outranks(a, b) == Rank(a) > Rank(b)
=============================================================================
