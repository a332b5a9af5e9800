-------------------------- MODULE MCEvidenceMerge ---------------------------
(***************************************************************************)
(* Two replicas and three sources on two aspects of one action.  The first *)
(* source contradicts itself within a slot, the third delivers one slot    *)
(* under two claims with different weights, and slots of the first two     *)
(* rounds leave the window while the replicas exchange.                    *)
(***************************************************************************)
EXTENDS EvidenceMerge, TLC

CONSTANTS r1, r2

Safe == [action |-> "deploy", aspect |-> "safe"]
Valuable == [action |-> "deploy", aspect |-> "valuable"]
MCClaimOrder == (Safe :> 1) @@ (Valuable :> 2)

Emission(source, when, claim, variant, weight) ==
    [source |-> source, diagnosis |-> EmittedDiagnosis, round |-> when,
     ordinal |-> 0, claim |-> claim, variant |-> variant, weight |-> weight]

MCEmissions ==
    {Emission("s1", 0, Valuable, True, 100),
     Emission("s1", 0, Valuable, Doubtful, 10),
     Emission("s1", 1, Valuable, True, 100),
     Emission("s2", 0, Valuable, False, 100),
     Emission("s3", 1, Valuable, Doubtful, 100),
     Emission("s3", 1, Safe, Doubtful, 50)}

Symmetry == Permutations({r1, r2})
=============================================================================
