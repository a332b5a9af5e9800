-------------------------- MODULE MCPairedReplay ---------------------------
(***************************************************************************)
(* Traces about one claim, which is also a goal and supports another, with *)
(* two stamps, of which the lower is too old after three assertions.        *)
(***************************************************************************)
EXTENDS PairedReplay, TLC

CONSTANTS a, b, s1

MCEdges == {[from |-> a, to |-> b, relation |-> "supports"]}
MCSuccessions == {<<a, b>>}
MCClaimOrder == BeliefClaim :> 1
MCSourceWeight == [s \in Sources |-> 100]
MCSelfTrust == [s \in Sources |-> 5]

\* Revisions of what carries the first stamp.
MCSelectors == {[source |-> {}, cycle |-> {1}]}
MCStatuses == {{}}

\* A pair that is sound once the trace is long enough, one with a half missing
\* and one with a half too many.
MCLabelings ==
    {<<Label(1, "x", "act"), Label(3, "x", "abstain"), Label(2, "y", "act"),
       Label(1, "z", "act"), Label(2, "z", "act"), Label(1, "z", "abstain")>>}
=============================================================================
