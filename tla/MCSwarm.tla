------------------------------- MODULE MCSwarm -------------------------------
(***************************************************************************)
(* Three agents on one claim: one who carries weight and distrusts what it *)
(* hears, one who carries none, one in between.                            *)
(***************************************************************************)
EXTENDS Swarm, TLC

CONSTANTS guardian, critic, integrator, stranger, claim

MCSelfTrust == guardian :> 7 @@ critic :> 0 @@ integrator :> 3
MCMessageTrust == guardian :> 4 @@ critic :> 5 @@ integrator :> 9
MCInitial == {Absent, True, Doubtful, Contradictory}

Message(from, to, kind, value) ==
    [from |-> from, to |-> to, kind |-> kind, proposition |-> claim, value |-> value]

\* News for all, from outside and from a member; answers to one; small talk.
MCMessages ==
    {Message(stranger, Everyone, "update", v) : v \in {True, Doubtful}}
    \cup {Message(critic, Everyone, "update", Unknown),
          Message(critic, guardian, "response", Probable),
          Message(guardian, critic, "response", False),
          Message(guardian, Everyone, "other", Unknown)}
=============================================================================
