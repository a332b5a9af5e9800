-------------------------- MODULE MCBeliefNetwork ---------------------------
(***************************************************************************)
(* Three propositions on a cycle that mixes the three relations, with a    *)
(* chord that gives c two sources at different distances from a.           *)
(***************************************************************************)
EXTENDS BeliefNetwork

CONSTANTS a, b, c

MCProps == {a, b, c}

Edge(p, q, r) == [from |-> p, to |-> q, relation |-> r]

MCEdges ==
    {Edge(a, b, "supports"), Edge(b, c, "contradicts"),
     Edge(a, c, "implies"), Edge(c, a, "contradicts")}
=============================================================================
