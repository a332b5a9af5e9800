--------------------------- MODULE MCCommandLine ----------------------------
(***************************************************************************)
(* Two processes at a time, two days, one fault: two forecasts of which    *)
(* one may supersede the other, two signals, and two sessions whose        *)
(* sources fare differently.                                               *)
(***************************************************************************)
EXTENDS CommandLine, TLC

CONSTANTS p1, p2, f1, f2, g1, g2

Tally(source, accepted, false) ==
    [source |-> source, accepted |-> accepted, false_acceptances |-> false]

\* A source on its own that is mostly wrong, and one that is never wrong
\* beside it.
MCTallies ==
    ("solo" :> <<Tally("hasty", 7, 5)>>)
        @@ ("joint" :> <<Tally("careful", 3, 0), Tally("hasty", 3, 3)>>)

MCTtls == {{1}, {7}}

Symmetry ==
    Permutations({p1, p2}) \cup Permutations({f1, f2})
        \cup Permutations({g1, g2})
=============================================================================
