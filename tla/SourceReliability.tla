------------------------- MODULE SourceReliability --------------------------
(***************************************************************************)
(* hari-core's record of how its sources have fared: every session adds a  *)
(* row per source to a ledger, and a report sums the rows and ranks the    *)
(* sources against the pool of all of them.  Fractions are compared by     *)
(* cross-multiplication.                                                   *)
(***************************************************************************)
EXTENDS JsonlLedger, FiniteSetsExt

MinAcceptedForTrust == 3

Row(session, tally, day) ==
    [session |-> session, source |-> tally.source, accepted |-> tally.accepted,
     false_acceptances |-> tally.false_acceptances, day |-> day]

Reported(dir) == {RecordAt(dir, x).source : x \in Entries(dir)}
RowsOf(dir, sources) ==
    {x \in Entries(dir) : RecordAt(dir, x).source \in sources}

\* A ledger entry: the tallies of its rows, summed.
Entry(dir, rows) ==
    [accepted |-> MapThenSumSet(LAMBDA x : RecordAt(dir, x).accepted, rows),
     false_acceptances |->
        MapThenSumSet(LAMBDA x : RecordAt(dir, x).false_acceptances, rows)]

EntryOf(dir, source) == Entry(dir, RowsOf(dir, {source}))
Pooled(dir) == Entry(dir, Entries(dir))

Correct(entry) ==
    Max({0, entry.accepted - entry.false_acceptances})

\* The precision smoothed by a prior of weight 2 and mean 1/2.
SmoothedNumerator(entry) == Correct(entry) + 1
SmoothedDenominator(entry) == entry.accepted + 2

\* Slip: the pool's precision is taken as it is, not smoothed.
BeatsRawBaseline(entry, pooled) ==
    /\ entry.accepted >= MinAcceptedForTrust
    /\ 20 * SmoothedNumerator(entry) * pooled.accepted >=
            (20 * Correct(pooled) + pooled.accepted) * SmoothedDenominator(entry)

\* Trust is earned by enough claims and a margin of 1/20 over the pool.
BeatsPooledBaseline(entry, pooled) ==
    /\ entry.accepted >= MinAcceptedForTrust
    /\ 20 * SmoothedNumerator(entry) * SmoothedDenominator(pooled) >=
            (20 * SmoothedNumerator(pooled) + SmoothedDenominator(pooled))
                * SmoothedDenominator(entry)
=============================================================================
