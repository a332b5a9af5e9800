---------------------------- MODULE ServeSession ----------------------------
(***************************************************************************)
(* hari-core's streaming service and its session trace.  One client talks  *)
(* to one server in strict request and response; every request is appended *)
(* to the session's trace file, through a buffered writer that is flushed  *)
(* line by line, before it takes effect.  Replaying the file is meant to   *)
(* rebuild the session.                                                    *)
(*                                                                         *)
(* The cognitive loop is a deterministic function of the events it was     *)
(* given (BeliefRevision), so a loop, its shadow and their report are all  *)
(* represented by that sequence of events.  Requests that are refused      *)
(* without an effect (a second open, an event without a session, a line    *)
(* that does not parse, a trace file that cannot be opened), the read-only *)
(* reports, and sessions that record no trace leave everything here as it  *)
(* is.                                                                     *)
(***************************************************************************)
EXTENDS Naturals, Sequences, SequencesExt

CONSTANTS
    Paths,          \* trace files
    Events,         \* research events, each with its cycle
    MaxLines,       \* bound of the model: lines written to one file
    MaxOpens,       \* bound of the model: sessions opened on one file
    MaxFaults       \* bound of the model: writes that fail

ASSUME ServeAssumption ==
    /\ \A e \in Events : e.cycle \in Nat
    /\ {MaxLines, MaxOpens, MaxFaults} \subseteq Nat

OpenLine == [op |-> "open"]
EventLine(e) == [op |-> "event", event |-> e]
MetricsLine == [op |-> "metrics"]
CloseLine == [op |-> "close"]
Garbage == [op |-> "garbage"]       \* a line that does not parse

Lines == {OpenLine, MetricsLine, CloseLine, Garbage} \cup
            {EventLine(e) : e \in Events}

VARIABLES
    file,       \* the complete lines of each trace file
    tail,       \* what a reader makes of an unterminated last line, if any
    buffer,     \* lines the recorder holds that a failed flush left behind
    session,    \* the live session, at most one
    pending,    \* the event recorded but not yet applied, at most one
    faults,     \* writes that have failed
    history     \* history: what became of the sessions of each file

vars == <<file, tail, buffer, session, pending, faults, history>>

Live == session # {}
Trace == CHOOSE p \in Paths : \E s \in session : s.path = p
Applied == (CHOOSE s \in session : TRUE).applied

-----------------------------------------------------------------------------
(* The session's cycle check, and the replay of a trace.                   *)

\* The cycle last seen is that of the last event accepted.
CheckCycle(applied, e) == applied = <<>> \/ e.cycle >= Last(applied).cycle

ApplyTo(applied, e) ==
    IF CheckCycle(applied, e) THEN Append(applied, e) ELSE applied

\* Slip: replay feeds events to the loop directly.
ReplayedUnchecked(lines) ==
    FoldLeft(LAMBDA applied, l :
                IF l.op = "event" THEN Append(applied, l.event) ELSE applied,
             <<>>, lines)

\* Only events take effect; lines that do not parse are skipped.
Replayed(lines) ==
    FoldLeft(LAMBDA applied, l :
                IF l.op = "event" THEN ApplyTo(applied, l.event) ELSE applied,
             <<>>, lines)

\* The header comes first, and a second one is an error.
Replayable(lines) ==
    \A i \in DOMAIN lines \cup {1} :
        i \in DOMAIN lines /\ (lines[i] = OpenLine <=> i = 1)

\* What a reader of the file sees.
Reading(p) == file[p] \o tail[p]

-----------------------------------------------------------------------------
(* Writing through the buffer.                                             *)

\* The first k lines reach the file; of the next one nothing, a part, or all
\* but the line end does.  What is left unwritten stays buffered.
Tails(p, lines, k) ==
    IF k = Len(lines) THEN {<<>>}
    ELSE (IF k = 0 THEN {tail[p]} ELSE {<<>>}) \cup {<<lines[k + 1]>>} \cup
         (IF k = 0 /\ tail[p] # <<>> THEN {} ELSE {<<Garbage>>})

WriteFirst(p, lines, k) ==
    /\ file' = [file EXCEPT ![p] = @ \o SubSeq(lines, 1, k)]
    /\ \E t \in Tails(p, lines, k) : tail' = [tail EXCEPT ![p] = t]

HasRoom(p) == Len(file[p]) + Len(buffer) < MaxLines

Record(line) ==
    /\ HasRoom(Trace)
    /\ LET lines == Append(buffer, line)
       IN  WriteFirst(Trace, lines, Len(lines))
    /\ buffer' = <<>>
    /\ UNCHANGED faults

\* The error is reported, and the server goes on.
RecordFails(line) ==
    /\ HasRoom(Trace)
    /\ faults < MaxFaults
    /\ faults' = faults + 1
    /\ LET lines == Append(buffer, line)
       IN  \E k \in 0 .. Len(lines) - 1 :
              /\ WriteFirst(Trace, lines, k)
              /\ buffer' = SubSeq(lines, k + 1, Len(lines))
    /\ history' = [history EXCEPT ![Trace].faulty = TRUE]

\* Dropping the recorder flushes once more, without reporting a failure; a
\* killed process does not even try.
Discard(p, lines) ==
    /\ \E k \in 0 .. Len(lines) : WriteFirst(p, lines, k)
    /\ buffer' = <<>>

Ends(how) == history' = [history EXCEPT ![Trace].ended = how]

-----------------------------------------------------------------------------

Init ==
    /\ file = [p \in Paths |-> <<>>]
    /\ tail = [p \in Paths |-> <<>>]
    /\ buffer = <<>>
    /\ session = {}
    /\ pending = {}
    /\ faults = 0
    /\ history = [p \in Paths |-> [opened |-> 0, faulty |-> FALSE,
                                   ended |-> "never", applied |-> <<>>]]

\* The file is opened for append: a header that follows an unterminated line
\* becomes one with it.
Header(p) == IF tail[p] = <<>> THEN OpenLine ELSE Garbage

CanOpen(p) ==
    /\ ~Live
    /\ history[p].opened < MaxOpens
    /\ HasRoom(p)

Open(p) ==
    /\ CanOpen(p)
    /\ WriteFirst(p, <<Header(p)>>, 1)
    /\ session' = {[path |-> p, applied |-> <<>>]}
    /\ history' = [history EXCEPT ![p].opened = @ + 1, ![p].ended = "not yet"]
    /\ UNCHANGED <<buffer, pending, faults>>

\* No session comes of it, but the header may still reach the file.
OpenFails(p) ==
    /\ CanOpen(p)
    /\ faults < MaxFaults
    /\ faults' = faults + 1
    /\ Discard(p, <<Header(p)>>)
    /\ history' = [history EXCEPT ![p].opened = @ + 1, ![p].faulty = TRUE]
    /\ UNCHANGED <<session, pending>>

Idle == Live /\ pending = {}

\* An event is recorded before it is applied.
ReceiveEvent(e) ==
    /\ Idle
    /\ Record(EventLine(e))
    /\ pending' = {e}
    /\ UNCHANGED <<session, history>>

\* Slip: the event is applied although it could not be recorded.
EventAppliedUnrecorded(e) ==
    /\ Idle
    /\ RecordFails(EventLine(e))
    /\ pending' = {e}
    /\ UNCHANGED session

EventNotRecorded(e) ==
    /\ Idle
    /\ RecordFails(EventLine(e))
    /\ UNCHANGED <<session, pending>>

\* Slip: the cycle of the event is not looked at.
ApplyEventUnchecked ==
    /\ pending # {}
    /\ \E e \in pending, s \in session :
          /\ session' = {[s EXCEPT !.applied = Append(@, e)]}
          /\ history' = [history EXCEPT ![s.path].applied = Append(@, e)]
    /\ pending' = {}
    /\ UNCHANGED <<file, tail, buffer, faults>>

\* Slip: an event of the cycle last seen waits for that cycle to be over.
ApplyLaterEvent ==
    /\ ApplyEventUnchecked
    /\ \A e \in pending, s \in session :
          s.applied # <<>> => e.cycle > Last(s.applied).cycle

\* The event is accepted, or rejected for its cycle without any effect.
ApplyEvent ==
    /\ pending # {}
    /\ \E e \in pending, s \in session :
          /\ session' = {[s EXCEPT !.applied = ApplyTo(@, e)]}
          /\ history' = [history EXCEPT ![s.path].applied =
                            IF CheckCycle(s.applied, e) THEN Append(@, e)
                            ELSE @]
    /\ pending' = {}
    /\ UNCHANGED <<file, tail, buffer, faults>>

Metrics ==
    /\ Idle
    /\ Record(MetricsLine)
    /\ UNCHANGED <<session, pending, history>>

MetricsNotRecorded ==
    /\ Idle
    /\ RecordFails(MetricsLine)
    /\ UNCHANGED <<session, pending>>

Close ==
    /\ Idle
    /\ Record(CloseLine)
    /\ session' = {}
    /\ Ends("closed")
    /\ UNCHANGED pending

\* A session whose close could not be recorded stays open.
CloseNotRecorded ==
    /\ Idle
    /\ RecordFails(CloseLine)
    /\ UNCHANGED <<session, pending>>

\* At the end of the input the close is recorded as well as can be.
EndOfInput ==
    /\ Idle
    /\ Record(CloseLine)
    /\ session' = {}
    /\ Ends("unclean")
    /\ UNCHANGED pending

EndOfInputNotRecorded ==
    /\ Idle
    /\ HasRoom(Trace)
    /\ faults < MaxFaults
    /\ faults' = faults + 1
    /\ Discard(Trace, Append(buffer, CloseLine))
    /\ session' = {}
    /\ history' = [history EXCEPT ![Trace].ended = "unclean",
                                  ![Trace].faulty = TRUE]
    /\ UNCHANGED pending

\* The process dies, be it in the middle of an event, and is started again.
Crash ==
    /\ Live
    /\ Discard(Trace, buffer)
    /\ session' = {}
    /\ pending' = {}
    /\ Ends("crashed")
    /\ UNCHANGED faults

Next ==
    \/ \E p \in Paths : Open(p) \/ OpenFails(p)
    \/ \E e \in Events : ReceiveEvent(e) \/ EventNotRecorded(e)
    \/ ApplyEvent
    \/ Metrics \/ MetricsNotRecorded
    \/ Close \/ CloseNotRecorded
    \/ EndOfInput \/ EndOfInputNotRecorded
    \/ Crash

\* Between recording an event and answering it the server waits for nobody;
\* the client owes it no further request.
Fairness == WF_vars(ApplyEvent)

Spec == Init /\ [][Next]_vars /\ Fairness

-----------------------------------------------------------------------------

EndsType == {"never", "not yet", "closed", "unclean", "crashed"}

\* Every variable has its type, and what a session has applied never goes
\* back in cycles.
TypeOK ==
    /\ file \in [Paths -> Seq(Lines)]
    /\ \A p \in Paths : tail[p] \in {<<>>} \cup {<<l>> : l \in Lines}
    /\ buffer \in Seq(Lines)
    /\ pending \in SUBSET Events
    /\ faults \in 0 .. MaxFaults
    /\ \A s \in session :
          /\ s.path \in Paths
          /\ s.applied \in Seq(Events)
          /\ \A i, j \in DOMAIN s.applied :
                i < j => s.applied[i].cycle <= s.applied[j].cycle
    /\ \A p \in Paths :
          /\ history[p].applied \in Seq(Events)
          /\ history[p].ended \in EndsType

\* No event takes effect that is not on disk: whatever writes failed, and
\* however often the process died, the events applied are found in the file,
\* in the order they were applied.
Embedded(s, t) ==
    \E at \in [DOMAIN s -> DOMAIN t] :
        /\ \A i \in DOMAIN s : t[at[i]] = s[i]
        /\ \A i, j \in DOMAIN s : i < j => at[i] < at[j]
AppliedIsRecorded ==
    \A p \in Paths :
        Embedded([i \in DOMAIN history[p].applied |->
                    EventLine(history[p].applied[i])], file[p])

\* The trace of one session on a file of its own, on which no write failed,
\* replays to the session: to exactly what it applied while it waits for a
\* request and once it has ended, cleanly or not, and to at most the one
\* event more that a crash caught between recording and applying it.
InEffect(p) == {e \in pending : Live /\ Trace = p}
CleanTraceReplays ==
    \A p \in Paths :
        LET h == history[p]
            replayed == Replayed(Reading(p))
        IN  h.opened = 1 /\ ~h.faulty =>
                /\ Replayable(Reading(p))
                /\ IsPrefix(h.applied, replayed)
                /\ Len(replayed) <= Len(h.applied) + 1
                /\ h.ended # "crashed" /\ InEffect(p) = {} =>
                        replayed = h.applied

\* The session catches up with its trace: when the file holds an event more
\* than took effect, it takes effect, unless the process dies or the file stops
\* being the clean trace of one session.  No other request comes in between.
IsCaughtUp(p) == Replayed(Reading(p)) = history[p].applied
IsCleanTrace(p) == history[p].opened = 1 /\ ~history[p].faulty
TraceCatchesUp ==
    \A p \in Paths :
        IsCleanTrace(p) /\ ~IsCaughtUp(p) ~>
            \/ IsCaughtUp(p)
            \/ history[p].ended = "crashed"
            \/ ~IsCleanTrace(p)

\* What the protocol's documentation says: replaying the recorded requests
\* gives the very report of the live session, here of one closed by its client.
ReplayParity ==
    \A p \in Paths :
        history[p].opened = 1 /\ history[p].ended = "closed"
            => Replayed(Reading(p)) = history[p].applied
=============================================================================
