--------------------------- MODULE MCPairedCorpus --------------------------
(***************************************************************************)
(* Corpora of up to two fixtures: recorded and authored, edited, misnamed  *)
(* and of both kinds, with pairs that decay wins, loses and ties, of equal *)
(* means over clusters of different sizes and with no pair at all.         *)
(***************************************************************************)
EXTENDS PairedCorpus, TLC

Verdict(u, d, s) ==
    [ix_unassisted |-> u, recency_decay |-> d, subjective_logic |-> s]
Won == Verdict(FALSE, TRUE, FALSE)
Tied == Verdict(TRUE, TRUE, FALSE)
Lost == Verdict(TRUE, FALSE, TRUE)

Fixture(trace, corpus, stamp, verdicts) ==
    [trace |-> trace, corpus |-> corpus, stamp |-> stamp, verdicts |-> verdicts]

Recorded(trace, verdicts) == Fixture(trace, "task", "matches", verdicts)

MCFixtures ==
    {Recorded("one", [p |-> Won]),
     Recorded("two", [p |-> Won, q |-> Won]),
     Recorded("mixed", [p |-> Won, q |-> Tied]),
     Recorded("lost", [p |-> Lost]),
     Recorded("ungraded", <<>>),
     Fixture("authored", "task", "none", [p |-> Won]),
     Fixture("edited", "task", "differs", [p |-> Won]),
     Fixture("gone", "task", "unreadable", <<>>),
     Fixture("isolated", "isolation", "matches", [p |-> Won]),
     Fixture("misnamed", "undeclared", "matches", [p |-> Won])}

\* Traces on which the experimental arm never wins a pair.
MCLosses ==
    {Recorded("lost", [p |-> Lost]),
     Recorded("mostly", [p |-> Lost, q |-> Tied])}
=============================================================================
