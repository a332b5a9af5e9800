---------------------------- MODULE CommandLine -----------------------------
(***************************************************************************)
(* The commands of hari-core that write to its state directory: forecast   *)
(* emit and resolve, operator surface and ack, source-reliability emit.    *)
(* Each is a process of its own that reads what it needs, then appends its *)
(* records one by one; a record and its newline are two writes.  Processes *)
(* run side by side, fail and die between any two writes, and what they    *)
(* leave is read by the next.                                              *)
(***************************************************************************)
EXTENDS ForecastLedger, OperatorModel, SourceReliability

CONSTANTS
    Procs,          \* processes that may run at a time
    Ids,            \* forecast identifiers, each drawn once
    Horizons,       \* times a forecast may be due
    Signals,        \* the signals shown to the operator
    Ttls,           \* times to live, as sets of at most one
    Tallies,        \* session -> the tallies of its sources, in source order
    DayLength,      \* clock units in a day
    MaxClock,       \* bound of the model: the clock runs 0 .. MaxClock
    MaxCommands,    \* bound of the model: commands started
    MaxFaults       \* bound of the model: failed writes and dead processes

ASSUME CommandLineAssumption ==
    /\ Horizons \subseteq Nat
    /\ DayLength \in Nat \ {0}
    /\ MaxClock \in Nat /\ MaxCommands \in Nat /\ MaxFaults \in Nat
    /\ Width \in Nat \ {0}
    /\ \A ttl \in Ttls : ttl = {} \/ \E n \in 0 .. 2 ^ Width - 1 : ttl = {n}
    /\ MaxSigned \in Nat /\ MaxClock <= MaxSigned
    /\ \A s \in DOMAIN Tallies :
          /\ DOMAIN Tallies[s] = 1 .. Len(Tallies[s]) /\ Len(Tallies[s]) \in Nat
          /\ \A i \in DOMAIN Tallies[s] :
                /\ Tallies[s][i].accepted \in Nat
                /\ Tallies[s][i].false_acceptances \in 0 .. Tallies[s][i].accepted

Ledgers == {"forecasts", "operator-model", "source-reliability"}
Days == 0 .. MaxClock \div DayLength

VARIABLES
    state,          \* ledger -> day -> what has been written
    process,        \* what each process has still to append, and where
    clock,
    commands,       \* number of commands started
    faults,         \* number of faults so far
    overlapped,     \* history: ledgers two processes have written at a time
    faulted         \* history: ledgers a fault has hit

clvars == <<state, process, clock, commands, faults, overlapped, faulted>>

Free == [ledger |-> {}, queue |-> <<>>, half |-> FALSE]
Writing(p, l) == process[p].ledger = {l}
Busy(p) == process[p].ledger # {}
Today == clock \div DayLength
Forecasts == state["forecasts"]
Operator == state["operator-model"]
Sources == state["source-reliability"]

CLInit ==
    /\ state = [l \in Ledgers |-> [day \in Days |-> <<>>]]
    /\ process = [p \in Procs |-> Free]
    /\ clock = 0
    /\ commands = 0
    /\ faults = 0
    /\ overlapped = {}
    /\ faulted = {}

Tick ==
    /\ clock < MaxClock
    /\ clock' = clock + 1
    /\ UNCHANGED <<state, process, commands, faults, overlapped, faulted>>

\* A command has read its input and knows what it will append.  One that has
\* nothing to append ends without a trace.
Start(p, l, records) ==
    /\ ~Busy(p)
    /\ commands < MaxCommands
    /\ records # <<>>
    /\ process' = [process EXCEPT
            ![p] = [ledger |-> {l}, queue |-> records, half |-> FALSE]]
    /\ commands' = commands + 1
    /\ overlapped' =
            overlapped \cup {k \in {l} : \E q \in Procs : Writing(q, l)}
    /\ UNCHANGED <<state, clock, faults, faulted>>

\* Identifiers are unique, whether or not their record can be read.
Drawn ==
    {r.id : r \in Written(Forecasts)}
        \cup {Head(process[p].queue).id :
                p \in {q \in Procs : Writing(q, "forecasts")}}

\* Slip: the superseded forecast is written back with the new one.
EmitForecastBoth(p, id, horizon, supersedes) ==
    /\ id \notin Drawn
    /\ supersedes \subseteq Recorded(Forecasts)
    /\ Start(p, "forecasts",
             <<Emitted(id, horizon, supersedes, clock, Today)>> \o
                [i \in 1 .. Cardinality(supersedes) |->
                    Loaded(Forecasts, CHOOSE s \in supersedes : TRUE)])

\* A forecast may name one it supersedes, which must be on record.
EmitForecast(p, id, horizon, supersedes) ==
    /\ id \notin Drawn
    /\ supersedes \subseteq Recorded(Forecasts)
    /\ Start(p, "forecasts",
             <<Emitted(id, horizon, supersedes, clock, Today)>>)

ResolveForecasts(p, outcome) ==
    Start(p, "forecasts", Resolutions(Forecasts, outcome, clock))

Surface(p, signal, ttl) ==
    Start(p, "operator-model", <<Surfaced(signal, clock, ttl, Today)>>)

Ack(p, signal) ==
    Start(p, "operator-model", <<Acknowledged(signal, clock, Today)>>)

\* A session may be recorded any number of times.
EmitOutcomes(p, session) ==
    Start(p, "source-reliability",
          [i \in DOMAIN Tallies[session] |->
                Row(session, Tallies[session][i], Today)])

Put(p, chunk) ==
    LET l == CHOOSE k \in Ledgers : Writing(p, k)
        day == Head(process[p].queue).day
    IN  state' = [state EXCEPT ![l][day] = Append(@, chunk)]

WriteRecord(p) ==
    /\ Busy(p)
    /\ ~process[p].half
    /\ Put(p, Line(Head(process[p].queue)))
    /\ process' = [process EXCEPT ![p].half = TRUE]
    /\ UNCHANGED <<clock, commands, faults, overlapped, faulted>>

Proceed(p) ==
    process' = [process EXCEPT
        ![p] = IF Len(@.queue) = 1 THEN Free
               ELSE [ledger |-> @.ledger, queue |-> Tail(@.queue), half |-> FALSE]]

\* Slip: records are written without a newline.
EndRecordSilently(p) ==
    /\ process[p].half
    /\ Proceed(p)
    /\ UNCHANGED <<state, clock, commands, faults, overlapped, faulted>>

EndRecord(p) ==
    /\ process[p].half
    /\ Put(p, Newline)
    /\ Proceed(p)
    /\ UNCHANGED <<clock, commands, faults, overlapped, faulted>>

Fails(p) ==
    /\ Busy(p)
    /\ faults < MaxFaults
    /\ faults' = faults + 1
    /\ faulted' = faulted \cup process[p].ledger
    /\ process' = [process EXCEPT ![p] = Free]
    /\ UNCHANGED <<clock, commands, overlapped>>

\* The process dies, or a write fails and ends the command.
Abort(p) == Fails(p) /\ UNCHANGED state

\* The write of a record fails with a part of it on disk.
Tear(p) ==
    /\ ~process[p].half
    /\ Fails(p)
    /\ Put(p, Torn)

CLNext ==
    \/ Tick
    \/ \E p \in Procs :
        \/ \E id \in Ids, horizon \in Horizons,
              supersedes \in {{}} \cup {{i} : i \in Ids} :
                EmitForecast(p, id, horizon, supersedes)
        \/ \E outcome \in Outcomes : ResolveForecasts(p, outcome)
        \/ \E signal \in Signals :
                Ack(p, signal) \/ \E ttl \in Ttls : Surface(p, signal, ttl)
        \/ \E session \in DOMAIN Tallies : EmitOutcomes(p, session)
        \/ WriteRecord(p)
        \/ EndRecord(p)
        \/ Abort(p)
        \/ Tear(p)

CLSpec == CLInit /\ [][CLNext]_clvars

-----------------------------------------------------------------------------

\* A resolution that is on record to its newline sticks: whatever processes
\* race, fail or die, the forecast never loads as pending again, and never
\* disappears.
ResolutionSticks ==
    \A x \in Ended(Forecasts) :
        LET r == RecordAt(Forecasts, x)
        IN  ~Pending(r) => ~Pending(Loaded(Forecasts, r.id))

\* One forecast, one resolution, as long as the ledger's commands run one
\* after the other: not even one that is cut short has a forecast resolved
\* again that is on record as resolved.
OneResolution ==
    "forecasts" \notin overlapped =>
        \A id \in Recorded(Forecasts) :
            Cardinality({x \in Versions(Forecasts, id) :
                            ~Pending(RecordAt(Forecasts, x))}) <= 1

Undisturbed(l) == l \notin overlapped \cup faulted

\* Superseding is no escape: a resolve that ends undisturbed leaves nothing
\* overdue as of its start, be it superseded or not.
SupersedingIsNoEscape ==
    [][\A p \in Procs :
        Writing(p, "forecasts") /\ ~Busy(p)' /\ Undisturbed("forecasts")' =>
            \A r \in Head(process[p].queue).resolution :
                Overdue(Forecasts', r.resolved_at) = {}]_clvars

\* The operator is notified of every surfacing until it is acknowledged, and
\* no longer: undisturbed, a signal surfaced again notifies again, an
\* acknowledgement silences what it can have seen, whatever day files the
\* two are in, and neither touches another signal.
Notifies(signal) == Known(Operator, signal) /\ ShouldNotify(Operator, signal)
AckSilencesOneSurfacing ==
    [][\A p \in Procs :
        Writing(p, "operator-model") /\ ~Busy(p)' /\ Undisturbed("operator-model")' =>
            LET e == Head(process[p].queue)
            IN  \A signal \in Signals :
                    Notifies(signal)' <=>
                        IF signal = e.signal THEN e.event = "surfaced"
                        ELSE Notifies(signal)]_clvars

\* A signal is stale when, and only when, its time to live has really passed:
\* for every time to live in the signed range, up to its largest.
StaleMeansExpired ==
    \A signal \in Signals :
        Known(Operator, signal) =>
            LET s == RecordAt(Operator, Surfacing(Operator, signal))
            IN  \A ttl \in s.ttl : ttl <= MaxSigned =>
                    (IsStale(Operator, signal, clock) <=>
                        ShouldNotify(Operator, signal) /\ clock > s.at + ttl)

\* A fault costs the record it interrupts and, at most, the next one: on a
\* ledger whose commands run one after the other, no more than two records
\* for a fault are written and never read.
FaultCostsAtMostTwo ==
    \A l \in Ledgers \ overlapped : Cardinality(Lost(state[l])) <= 2 * faults

\* Among sources with enough claims to be trusted at all, a false acceptance
\* never earns one trust over the pool, although it pulls down the pool too.
WithFalseAcceptance(entry) ==
    [accepted |-> entry.accepted + 1,
     false_acceptances |-> entry.false_acceptances + 1]
FalseAcceptanceEarnsNothing ==
    \A source \in Reported(Sources) :
        LET entry == EntryOf(Sources, source)
            pooled == Pooled(Sources)
        IN  /\ entry.accepted >= MinAcceptedForTrust
            /\ ~BeatsPooledBaseline(entry, pooled)
            => ~BeatsPooledBaseline(WithFalseAcceptance(entry),
                                    WithFalseAcceptance(pooled))
=============================================================================
