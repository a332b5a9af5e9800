--------------------------- MODULE ForecastLedger ---------------------------
(***************************************************************************)
(* hari-core's forecasts as its ledger directory shows them: a forecast is *)
(* emitted as a pending record, and resolved by a copy of that record that *)
(* carries the outcome.  All forecasts of the model observe one artifact.  *)
(***************************************************************************)
EXTENDS JsonlLedger

Outcomes == {"true", "false", "void"}

Pending(r) == r.resolution = {}
PastHorizon(r, now) == r.horizon <= now

Emitted(id, horizon, supersedes, now, day) ==
    [id |-> id, horizon |-> horizon, supersedes |-> supersedes,
     day |-> day, emitted_at |-> now, resolution |-> {}]

\* The copy keeps the day of its original, and so lands in the same file.
Resolved(r, outcome, now) ==
    [r EXCEPT !.resolution = {[resolved_at |-> now, outcome |-> outcome]}]

Versions(dir, id) == {x \in Entries(dir) : RecordAt(dir, x).id = id}
Recorded(dir) == {RecordAt(dir, x).id : x \in Entries(dir)}

\* The last record of a forecast is the one that counts.
Loaded(dir, id) == RecordAt(dir, Latest(Versions(dir, id)))

\* The forecasts nobody has scored although their horizon has passed.  That
\* another forecast supersedes one makes no difference.
Overdue(dir, now) ==
    {id \in Recorded(dir) :
        Pending(Loaded(dir, id)) /\ PastHorizon(Loaded(dir, id), now)}

\* Slip: a forecast that was superseded is considered discharged.
ResolutionsButSuperseded(dir, outcome, now) ==
    LET superseded == UNION {Loaded(dir, id).supersedes : id \in Recorded(dir)}
        due == {Latest(Versions(dir, id)) : id \in Overdue(dir, now) \ superseded}
    IN  [i \in 1 .. Cardinality(due) |->
            Resolved(RecordAt(dir, InOrder(due)[i]), outcome, now)]

\* Slip: whether the forecast has been scored before is not looked at.
ResolutionsAgain(dir, outcome, now) ==
    LET due == {Latest(Versions(dir, id)) :
                    id \in {i \in Recorded(dir) : PastHorizon(Loaded(dir, i), now)}}
    IN  [i \in 1 .. Cardinality(due) |->
            Resolved(RecordAt(dir, InOrder(due)[i]), outcome, now)]

\* What resolving appends, in ledger order, for the outcome read off the
\* artifact at its start.
Resolutions(dir, outcome, now) ==
    LET due == {Latest(Versions(dir, id)) : id \in Overdue(dir, now)}
    IN  [i \in 1 .. Cardinality(due) |->
            Resolved(RecordAt(dir, InOrder(due)[i]), outcome, now)]
=============================================================================
