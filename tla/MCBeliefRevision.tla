------------------------- MODULE MCBeliefRevision ---------------------------
(***************************************************************************)
(* Small networks, sources and swarms for the belief-revision loop.        *)
(***************************************************************************)
EXTENDS BeliefRevision, TLC

CONSTANTS a, b, s1, s2, s3

Edge(p, q, r) == [from |-> p, to |-> q, relation |-> r]
MCFeedback == {Edge(a, b, "supports"), Edge(b, a, "contradicts")}
MCSuccessions == {<<a, b>>}

MCClaimOrder == BeliefClaim :> 1
MCSourceWeight == [s \in Sources |-> 100]

\* A declared expert outweighs the newcomers, who count with neutral trust.
MCSelfTrust == [s \in Sources |-> IF s = s1 THEN 9 ELSE 4]

Newcomers == Permutations({s2, s3})
=============================================================================
