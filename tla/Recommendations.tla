-------------------------- MODULE Recommendations --------------------------
(***************************************************************************)
(* The actions hari-core recommends, whichever pipeline recommends them,   *)
(* and which of them count as acting.  Log actions are left out.           *)
(***************************************************************************)
EXTENDS HexLattice

Action(kind, topic, value) == [kind |-> kind, topic |-> topic, value |-> value]

RecommendForClaim(p, v) ==
    CASE v = Unknown -> Action("investigate", p, v)
      [] v = Contradictory -> Action("escalate", p, v)
      [] OTHER -> Action("accept", p, v)

\* To wait is about nothing.
Waiting == Action("wait", {}, Unknown)

Acted(actions) == \E a \in actions : a.kind # "wait"
Accepts(actions) == {a \in actions : a.kind = "accept"}
Withholds(actions) == Waiting \in actions
=============================================================================
