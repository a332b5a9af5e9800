--------------------------- MODULE OperatorModel ----------------------------
(***************************************************************************)
(* hari-core's model of what its operator has seen: signals are surfaced   *)
(* and acknowledged in a ledger, and the fold of the ledger decides whether *)
(* a signal is worth another notification and whether it has gone stale.   *)
(***************************************************************************)
EXTENDS JsonlLedger

CONSTANT Width      \* bits of the code's i64 and u64, scaled down

Surfaced(signal, now, ttl, day) ==
    [event |-> "surfaced", signal |-> signal, at |-> now, ttl |-> ttl, day |-> day]
Acknowledged(signal, now, day) ==
    [event |-> "acknowledged", signal |-> signal, at |-> now, ttl |-> {}, day |-> day]

EventsOf(dir, event, signal) ==
    {x \in Entries(dir) :
        /\ RecordAt(dir, x).event = event
        /\ RecordAt(dir, x).signal = signal}

Known(dir, signal) == EventsOf(dir, "surfaced", signal) # {}
Surfacing(dir, signal) == Latest(EventsOf(dir, "surfaced", signal))

\* Slip: surfacing a signal again does not clear its acknowledgement.
IsAcknowledgedEver(dir, signal) ==
    EventsOf(dir, "acknowledged", signal) # {}

\* An acknowledgement counts for the surfacing it follows.
IsAcknowledged(dir, signal) ==
    \E x \in EventsOf(dir, "acknowledged", signal) :
        Precedes(Surfacing(dir, signal), x)

ShouldNotify(dir, signal) == ~IsAcknowledged(dir, signal)

MaxSigned == 2 ^ (Width - 1) - 1

\* A cast to the signed type keeps the bits.
AsSigned(n) == IF n <= MaxSigned THEN n ELSE n - 2 ^ Width

\* Slip: the sum wraps.
SaturatingAddWrapping(x, y) == AsSigned((x + y) % 2 ^ Width)

SaturatingAdd(x, y) ==
    IF x + y > MaxSigned THEN MaxSigned
    ELSE IF x + y < -MaxSigned - 1 THEN -MaxSigned - 1 ELSE x + y

IsStale(dir, signal, now) ==
    LET s == RecordAt(dir, Surfacing(dir, signal))
    IN  /\ ~IsAcknowledged(dir, signal)
        /\ \E ttl \in s.ttl : now > SaturatingAdd(s.at, AsSigned(ttl))
=============================================================================
