---------------------------- MODULE Propagation -----------------------------
(***************************************************************************)
(* One round, and one bounded pass, of belief propagation as pure          *)
(* functions of a belief assignment and a set of live relation edges.      *)
(*                                                                         *)
(* A belief assignment maps every proposition to a hexavalent value, or to *)
(* Absent when the network has no node of that label.  Parallel edges of   *)
(* one (from, to, relation) triple contribute the same value, so the set   *)
(* of triples that have a live edge is all a round depends on.             *)
(***************************************************************************)
EXTENDS HexLattice

CONSTANT Props              \* the proposition labels

Absent == "absent"          \* the label has no node in the network

Relations == {"supports", "contradicts", "implies"}
EdgeTriples == [from : Props, to : Props, relation : Relations]

\* A silent implication contributes nothing at all, not even Unknown.
Fires(v, relation) == relation = "implies" => v \in Positive
Contributed(v, relation) == IF relation = "contradicts" THEN Not(v) ELSE v

\* The live edges that feed p in a round that starts at beliefs b.
FiringInto(b, live, p) ==
    {e \in live : e.to = p /\ Fires(b[e.from], e.relation)}
Incoming(b, live, p) ==
    {Contributed(b[e.from], e.relation) : e \in FiringInto(b, live, p)}

\* Slip: contributions are folded in pair by pair, a source at Unknown first.
RoundValueFolded(b, live, p) ==
    LET own == IF Unknown \in Incoming(b, live, p)
               THEN CombineEvidence(b[p], Unknown) ELSE b[p]
    IN  IF Incoming(b, live, p) = {} THEN b[p]
        ELSE CombineEvidenceSet({own} \cup Incoming(b, live, p))

\* The value p has after one round: its own value is a member of the set.
RoundValue(b, live, p) ==
    IF Incoming(b, live, p) = {} THEN b[p]
    ELSE CombineEvidenceSet({b[p]} \cup Incoming(b, live, p))

\* All nodes move together: updates are collected before any is applied.
Round(b, live) == [p \in Props |-> RoundValue(b, live, p)]

\* A pass of at most cap rounds.  A round without a change ends it early, and
\* every later round would be the same stutter.
Pass(b, live, cap) ==
    LET after[i \in 0 .. cap] ==
            IF i = 0 THEN b
            ELSE LET before == after[i - 1]
                     next == Round(before, live)
                 IN  IF next = before THEN before ELSE next
    IN  after[cap]
=============================================================================
