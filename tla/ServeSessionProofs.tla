------------------------- MODULE ServeSessionProofs -------------------------
(***************************************************************************)
(* Proofs about ServeSession, for any events, any number of sessions on a  *)
(* trace file and any number of failed writes and crashes: its types, that *)
(* no event takes effect that is not on disk, and that a trace no write    *)
(* failed on replays to the session that wrote it.                         *)
(***************************************************************************)
EXTENDS ServeSession, InductionFacts

-----------------------------------------------------------------------------
(* The inductive type invariant.                                           *)

TailType == {<<>>} \cup {<<l>> : l \in Lines}

\* The cycles of what a session has applied never go back.
InCycleOrder(applied) ==
    \A i, j \in DOMAIN applied : i < j => applied[i].cycle <= applied[j].cycle

SessionType ==
    [path : Paths, applied : {a \in Seq(Events) : InCycleOrder(a)}]

HistoryType ==
    [opened : Nat, faulty : BOOLEAN, ended : EndsType, applied : Seq(Events)]

\* TypeOK does not say that there is one session and one pending event at the
\* most, nor that an event is pending in a session only; the steps rely on it.
TypeInv ==
    /\ file \in [Paths -> Seq(Lines)]
    /\ tail \in [Paths -> TailType]
    /\ buffer \in Seq(Lines)
    /\ session \in SUBSET SessionType
    /\ \A s, t \in session : s = t
    /\ pending \in SUBSET Events
    /\ \A d, e \in pending : d = e
    /\ pending # {} => Live
    /\ faults \in 0 .. MaxFaults
    /\ history \in [Paths -> HistoryType]

LEMMA TypeInvGivesTypeOK == TypeInv => TypeOK
<1> SUFFICES ASSUME TypeInv PROVE TypeOK
    OBVIOUS
<1>1. \A p \in Paths : tail[p] \in {<<>>} \cup {<<l>> : l \in Lines}
    BY DEF TypeInv, TailType
<1>2. \A s \in session :
        /\ s.path \in Paths
        /\ s.applied \in Seq(Events)
        /\ \A i, j \in DOMAIN s.applied :
              i < j => s.applied[i].cycle <= s.applied[j].cycle
    BY DEF TypeInv, SessionType, InCycleOrder
<1>3. \A p \in Paths :
        history[p].applied \in Seq(Events) /\ history[p].ended \in EndsType
    BY DEF TypeInv, HistoryType
<1> QED BY <1>1, <1>2, <1>3 DEF TypeInv, TypeOK

\* Trace is the file of the live session.
LEMMA TraceOfSession ==
    ASSUME TypeInv, Live
    PROVE  \E s \in session :
              session = {s} /\ s \in SessionType /\ Trace = s.path
<1>1. PICK s \in session : TRUE
    BY DEF Live
<1>2. session = {s} /\ s \in SessionType
    BY <1>1 DEF TypeInv
<1>3. s.path \in Paths
    BY <1>2 DEF SessionType
<1>4. Trace = s.path
    BY <1>2, <1>3 DEF Trace
<1> QED BY <1>2, <1>4

\* The kinds of line.
LEMMA LineTypes ==
    /\ OpenLine \in Lines /\ MetricsLine \in Lines
    /\ CloseLine \in Lines /\ Garbage \in Lines
    /\ \A e \in Events : EventLine(e) \in Lines
    /\ \A p \in Paths : Header(p) \in Lines
BY DEF Lines, Header

\* A write of the first lines keeps the types and only adds to the files.
Grown == \A p \in Paths : \E more \in Seq(Lines) : file'[p] = file[p] \o more

LEMMA WriteTypes ==
    ASSUME TypeInv, NEW p \in Paths, NEW lines \in Seq(Lines),
           NEW k \in 0 .. Len(lines), WriteFirst(p, lines, k)
    PROVE  /\ file' \in [Paths -> Seq(Lines)]
           /\ tail' \in [Paths -> TailType]
           /\ Grown
<1>1. SubSeq(lines, 1, k) \in Seq(Lines)
    OBVIOUS
<1>2. file' = [file EXCEPT ![p] = file[p] \o SubSeq(lines, 1, k)]
    BY DEF WriteFirst
<1>3. file \in [Paths -> Seq(Lines)] /\ file[p] \o SubSeq(lines, 1, k) \in Seq(Lines)
    BY <1>1 DEF TypeInv
<1>4. file' \in [Paths -> Seq(Lines)]
    BY <1>2, <1>3
<1>5. Grown
    <2> SUFFICES ASSUME NEW q \in Paths
                 PROVE  \E more \in Seq(Lines) : file'[q] = file[q] \o more
        BY DEF Grown
    <2>1. CASE q = p
        BY <1>1, <1>2, <1>3, <2>1
    <2>2. CASE q # p
        <3>1. file'[q] = file[q] /\ file[q] \in Seq(Lines)
            BY <1>2, <1>3, <2>2
        <3>2. <<>> \in Seq(Lines) /\ file[q] \o <<>> = file[q]
            BY <3>1
        <3> QED BY <3>1, <3>2
    <2> QED BY <2>1, <2>2
<1>6. Tails(p, lines, k) \subseteq TailType
    <2>1. tail[p] \in TailType /\ Garbage \in Lines
        BY LineTypes DEF TypeInv
    <2>2. k # Len(lines) => lines[k + 1] \in Lines
        OBVIOUS
    <2> QED BY <2>1, <2>2 DEF Tails, TailType
<1>7. tail' \in [Paths -> TailType]
    BY <1>6 DEF WriteFirst, TypeInv
<1> QED BY <1>4, <1>5, <1>7

\* What the ways of writing have in common.
Written ==
    /\ file' \in [Paths -> Seq(Lines)]
    /\ tail' \in [Paths -> TailType]
    /\ buffer' \in Seq(Lines)
    /\ Grown

LEMMA RecordWrites ==
    ASSUME TypeInv, Trace \in Paths, NEW line \in Lines, Record(line)
    PROVE  /\ Written
           /\ file'[Trace] = file[Trace] \o Append(buffer, line)
<1> DEFINE lines == Append(buffer, line)
<1>1. lines \in Seq(Lines) /\ Len(lines) \in 0 .. Len(lines)
    BY DEF TypeInv
<1>2. WriteFirst(Trace, lines, Len(lines)) /\ buffer' = <<>>
    BY DEF Record
<1>3. SubSeq(lines, 1, Len(lines)) = lines
    BY <1>1
<1>4. file'[Trace] = file[Trace] \o lines
    <2> HIDE DEF lines
    <2> QED BY <1>2, <1>3 DEF WriteFirst, TypeInv
<1>5. <<>> \in Seq(Lines)
    OBVIOUS
<1> HIDE DEF lines
<1>6. Written
    BY <1>1, <1>2, <1>5, WriteTypes DEF Written
<1> QED BY <1>4, <1>6 DEF lines

LEMMA RecordFailsWrites ==
    ASSUME TypeInv, Trace \in Paths, NEW line \in Lines, RecordFails(line)
    PROVE  Written
<1> DEFINE lines == Append(buffer, line)
<1>1. lines \in Seq(Lines)
    BY DEF TypeInv
<1>2. PICK k \in 0 .. Len(lines) - 1 :
        /\ WriteFirst(Trace, lines, k)
        /\ buffer' = SubSeq(lines, k + 1, Len(lines))
    BY DEF RecordFails
<1> HIDE DEF lines
<1>3. k \in 0 .. Len(lines) /\ SubSeq(lines, k + 1, Len(lines)) \in Seq(Lines)
    BY <1>1
<1> QED BY <1>1, <1>2, <1>3, WriteTypes DEF Written

LEMMA DiscardWrites ==
    ASSUME TypeInv, NEW p \in Paths, NEW lines \in Seq(Lines),
           Discard(p, lines)
    PROVE  Written
<1>1. <<>> \in Seq(Lines)
    OBVIOUS
<1> QED BY <1>1, WriteTypes DEF Discard, Written

\* A failed write is marked in the history, and nothing else of it changes.
LEMMA RecordFailsMarks ==
    ASSUME TypeInv, Trace \in Paths, NEW line, RecordFails(line)
    PROVE  /\ faults' \in 0 .. MaxFaults
           /\ history' \in [Paths -> HistoryType]
           /\ \A p \in Paths : history'[p].applied = history[p].applied
<1>1. faults' \in 0 .. MaxFaults
    BY ServeAssumption DEF RecordFails, TypeInv
<1>2. history' = [history EXCEPT ![Trace].faulty = TRUE]
    BY DEF RecordFails
<1> QED BY <1>1, <1>2 DEF TypeInv, HistoryType

-----------------------------------------------------------------------------
(* The steps that write keep the types and what has been applied.          *)

\* What a step keeps when no event takes effect in it.
AppliesNothing ==
    /\ TypeInv'
    /\ Grown
    /\ \A p \in Paths : history'[p].applied = history[p].applied

LEMMA CountedTypes ==
    ASSUME TypeInv, NEW p \in Paths
    PROVE  LET h == [history EXCEPT ![p].opened = @ + 1]
           IN  /\ h \in [Paths -> HistoryType]
               /\ \A q \in Paths : h[q].applied = history[q].applied
<1> DEFINE n == history[p].opened + 1
<1>1. history \in [Paths -> HistoryType]
    BY DEF TypeInv
<1>2. n \in Nat
    BY <1>1 DEF HistoryType
<1> HIDE DEF n
<1>3. LET h == [history EXCEPT ![p].opened = n]
      IN  /\ h \in [Paths -> HistoryType]
          /\ \A q \in Paths : h[q].applied = history[q].applied
    BY <1>1, <1>2 DEF HistoryType
<1> QED BY <1>3 DEF n

LEMMA OpenStep ==
    ASSUME TypeInv, NEW p \in Paths, Open(p) \/ OpenFails(p)
    PROVE  AppliesNothing /\ pending' = {}
<1>0. /\ pending = {} /\ session = {}
      /\ <<Header(p)>> \in Seq(Lines) /\ Len(<<Header(p)>>) = 1
    <2>1. CanOpen(p)
        BY DEF Open, OpenFails
    <2>2. Header(p) \in Lines
        BY LineTypes
    <2> QED BY <2>1, <2>2 DEF CanOpen, Live, TypeInv
<1>1. CASE Open(p)
    <2>1. Written
        <3>1. WriteFirst(p, <<Header(p)>>, 1)
            BY <1>1 DEF Open
        <3>2. 1 \in 0 .. Len(<<Header(p)>>)
            BY <1>0
        <3>3. buffer' \in Seq(Lines)
            BY <1>1 DEF Open, TypeInv
        <3> QED BY <1>0, <3>1, <3>2, <3>3, WriteTypes DEF Written
    <2>2. [path |-> p, applied |-> <<>>] \in SessionType
        BY DEF SessionType, InCycleOrder
    <2>3. /\ history' \in [Paths -> HistoryType]
          /\ \A q \in Paths : history'[q].applied = history[q].applied
        <3> DEFINE h == [history EXCEPT ![p].opened = @ + 1]
        <3>1. /\ h \in [Paths -> HistoryType]
              /\ \A q \in Paths : h[q].applied = history[q].applied
            BY CountedTypes
        <3>2. history' = [h EXCEPT ![p].ended = "not yet"]
            BY <1>1 DEF Open
        <3> HIDE DEF h
        <3> QED BY <3>1, <3>2 DEF HistoryType, EndsType
    <2> QED BY <1>0, <1>1, <2>1, <2>2, <2>3
            DEF Open, TypeInv, Written, AppliesNothing
<1>2. CASE OpenFails(p)
    <2>1. Written
        BY <1>0, <1>2, DiscardWrites DEF OpenFails
    <2>2. faults' \in 0 .. MaxFaults
        BY <1>2, ServeAssumption DEF OpenFails, TypeInv
    <2>3. /\ history' \in [Paths -> HistoryType]
          /\ \A q \in Paths : history'[q].applied = history[q].applied
        <3> DEFINE h == [history EXCEPT ![p].opened = @ + 1]
        <3>1. /\ h \in [Paths -> HistoryType]
              /\ \A q \in Paths : h[q].applied = history[q].applied
            BY CountedTypes
        <3>2. history' = [h EXCEPT ![p].faulty = TRUE]
            BY <1>2 DEF OpenFails
        <3> HIDE DEF h
        <3> QED BY <3>1, <3>2 DEF HistoryType
    <2> QED BY <1>0, <1>2, <2>1, <2>2, <2>3
            DEF OpenFails, TypeInv, Written, AppliesNothing, Live
<1> QED BY <1>1, <1>2

LEMMA NotRecordedStep ==
    ASSUME TypeInv, Idle, NEW line \in Lines, RecordFails(line),
           UNCHANGED <<session, pending>>
    PROVE  AppliesNothing /\ pending' = {}
<1>1. Trace \in Paths
    BY TraceOfSession DEF Idle, SessionType
<1>2. Written
    BY <1>1, RecordFailsWrites
<1>3. /\ faults' \in 0 .. MaxFaults
      /\ history' \in [Paths -> HistoryType]
      /\ \A p \in Paths : history'[p].applied = history[p].applied
    BY <1>1, RecordFailsMarks
<1> QED BY <1>2, <1>3 DEF Idle, TypeInv, Written, AppliesNothing, Live

LEMMA ReceiveStep ==
    ASSUME TypeInv, NEW e \in Events, ReceiveEvent(e)
    PROVE  AppliesNothing
<1>1. Trace \in Paths /\ Live
    BY TraceOfSession DEF ReceiveEvent, Idle, SessionType
<1>2. Written /\ faults' = faults
    BY <1>1, LineTypes, RecordWrites DEF ReceiveEvent, Record
<1> QED BY <1>1, <1>2
        DEF ReceiveEvent, TypeInv, Written, AppliesNothing, Live

LEMMA MetricsStep ==
    ASSUME TypeInv, Metrics
    PROVE  AppliesNothing /\ pending' = {}
<1>1. Trace \in Paths /\ Live
    BY TraceOfSession DEF Metrics, Idle, SessionType
<1>2. Written /\ faults' = faults
    BY <1>1, LineTypes, RecordWrites DEF Metrics, Record
<1> QED BY <1>1, <1>2
        DEF Metrics, Idle, TypeInv, Written, AppliesNothing, Live

LEMMA EndStep ==
    ASSUME TypeInv, Close \/ EndOfInput \/ EndOfInputNotRecorded \/ Crash
    PROVE  AppliesNothing /\ pending' = {}
<1>1. Trace \in Paths
    BY TraceOfSession
       DEF Close, EndOfInput, EndOfInputNotRecorded, Crash, Idle, SessionType
<1>2. session' = {} /\ pending' = {}
    BY DEF Close, EndOfInput, EndOfInputNotRecorded, Crash, Idle
<1>3. Written /\ faults' \in 0 .. MaxFaults
    <2>1. CASE Close \/ EndOfInput
        BY <1>1, <2>1, LineTypes, RecordWrites
           DEF Close, EndOfInput, Record, TypeInv
    <2>2. CASE EndOfInputNotRecorded
        <3>1. Append(buffer, CloseLine) \in Seq(Lines)
            BY LineTypes DEF TypeInv
        <3>2. Written
            BY <1>1, <2>2, <3>1, DiscardWrites DEF EndOfInputNotRecorded
        <3> QED BY <2>2, <3>2, ServeAssumption
                DEF EndOfInputNotRecorded, TypeInv
    <2>3. CASE Crash
        BY <1>1, <2>3, DiscardWrites DEF Crash, TypeInv
    <2> QED BY <2>1, <2>2, <2>3
<1>4. /\ history' \in [Paths -> HistoryType]
      /\ \A p \in Paths : history'[p].applied = history[p].applied
    <2>1. CASE Close \/ EndOfInput \/ Crash
        <3>1. PICK how \in EndsType : Ends(how)
            BY <2>1 DEF Close, EndOfInput, Crash, EndsType
        <3> QED BY <1>1, <3>1 DEF Ends, TypeInv, HistoryType
    <2>2. CASE EndOfInputNotRecorded
        BY <1>1, <2>2
           DEF EndOfInputNotRecorded, TypeInv, HistoryType, EndsType
    <2> QED BY <2>1, <2>2
<1> QED BY <1>2, <1>3, <1>4 DEF TypeInv, Written, AppliesNothing, Live

-----------------------------------------------------------------------------
(* The step in which an event takes effect.                                *)

LEMMA ApplyToType ==
    ASSUME NEW a \in Seq(Events), InCycleOrder(a), NEW e \in Events
    PROVE  /\ ApplyTo(a, e) \in Seq(Events)
           /\ InCycleOrder(ApplyTo(a, e))
<1>1. CASE ~CheckCycle(a, e)
    BY <1>1 DEF ApplyTo
<1>2. CASE CheckCycle(a, e)
    <2> DEFINE b == Append(a, e)
    <2>1. ApplyTo(a, e) = b /\ b \in Seq(Events)
        BY <1>2 DEF ApplyTo
    <2>2. \A c \in Events : c.cycle \in Nat
        BY ServeAssumption DEF ServeAssumption
    <2>3. ASSUME NEW i \in DOMAIN b, NEW j \in DOMAIN b, i < j
          PROVE  b[i].cycle <= b[j].cycle
        <3>1. CASE j \in DOMAIN a
            BY <2>3, <3>1 DEF InCycleOrder
        <3>2. CASE j \notin DOMAIN a
            <4>1. i \in DOMAIN a /\ b[i] = a[i] /\ b[j] = e /\ a # <<>>
                BY <2>3, <3>2
            <4>2. a[Len(a)].cycle <= e.cycle
                BY <1>2, <2>2, <4>1 DEF CheckCycle, Last
            <4>3. a[i].cycle <= a[Len(a)].cycle
                <5>1. CASE i = Len(a)
                    BY <2>2, <4>1, <5>1
                <5>2. CASE i < Len(a)
                    BY <4>1, <5>2 DEF InCycleOrder
                <5> QED BY <4>1, <5>1, <5>2
            <4>4. /\ a[i].cycle \in Nat
                  /\ a[Len(a)].cycle \in Nat
                  /\ e.cycle \in Nat
                BY <2>2, <4>1
            <4> QED BY <4>1, <4>2, <4>3, <4>4
        <3> QED BY <3>1, <3>2
    <2> QED BY <2>1, <2>3 DEF InCycleOrder
<1> QED BY <1>1, <1>2

\* The event goes to the session and to the history of its file, or to none.
LEMMA ApplyStep ==
    ASSUME TypeInv, ApplyEvent
    PROVE  /\ TypeInv'
           /\ file' = file /\ pending' = {}
           /\ \E e \in pending, s \in session :
                \A p \in Paths :
                    history'[p].applied =
                        IF p = s.path /\ CheckCycle(s.applied, e)
                        THEN Append(history[p].applied, e)
                        ELSE history[p].applied
<1>1. PICK e \in pending, s \in session :
        /\ session' = {[s EXCEPT !.applied = ApplyTo(@, e)]}
        /\ history' = [history EXCEPT ![s.path].applied =
                            IF CheckCycle(s.applied, e) THEN Append(@, e)
                            ELSE @]
    BY DEF ApplyEvent
<1>2. e \in Events /\ s \in SessionType
    BY DEF TypeInv
<1>3. /\ s.path \in Paths /\ s.applied \in Seq(Events)
      /\ InCycleOrder(s.applied)
    BY <1>2 DEF SessionType
<1>4. [s EXCEPT !.applied = ApplyTo(@, e)] \in SessionType
    BY <1>2, <1>3, ApplyToType DEF SessionType
<1> DEFINE now == IF CheckCycle(s.applied, e)
                  THEN Append(history[s.path].applied, e)
                  ELSE history[s.path].applied
<1>5. history[s.path].applied \in Seq(Events)
    BY <1>3 DEF TypeInv, HistoryType
<1>6. now \in Seq(Events) /\ history' = [history EXCEPT ![s.path].applied = now]
    BY <1>1, <1>2, <1>5
<1>7. /\ history' \in [Paths -> HistoryType]
      /\ \A p \in Paths :
            history'[p].applied = IF p = s.path THEN now ELSE history[p].applied
    <2> HIDE DEF now
    <2> QED BY <1>3, <1>6 DEF TypeInv, HistoryType
<1>8. /\ file' = file /\ tail' = tail /\ buffer' = buffer /\ faults' = faults
      /\ pending' = {}
    BY DEF ApplyEvent
<1>9. TypeInv'
    BY <1>1, <1>4, <1>7, <1>8 DEF TypeInv
<1>10. \A p \in Paths :
        history'[p].applied =
            IF p = s.path /\ CheckCycle(s.applied, e)
            THEN Append(history[p].applied, e) ELSE history[p].applied
    BY <1>7
<1> QED BY <1>8, <1>9, <1>10

\* Every step that is not the application of an event applies nothing.
LEMMA StepCases ==
    ASSUME TypeInv, Next
    PROVE  \/ AppliesNothing /\ pending' = {}
           \/ \E e \in Events : ReceiveEvent(e) /\ AppliesNothing
           \/ ApplyEvent
<1>1. CASE \E p \in Paths : Open(p) \/ OpenFails(p)
    BY <1>1, OpenStep
<1>2. CASE \E e \in Events : ReceiveEvent(e)
    BY <1>2, ReceiveStep
<1>3. CASE \E e \in Events : EventNotRecorded(e)
    BY <1>3, LineTypes, NotRecordedStep DEF EventNotRecorded
<1>4. CASE Metrics
    BY <1>4, MetricsStep
<1>5. CASE MetricsNotRecorded \/ CloseNotRecorded
    BY <1>5, LineTypes, NotRecordedStep DEF MetricsNotRecorded, CloseNotRecorded
<1>6. CASE Close \/ EndOfInput \/ EndOfInputNotRecorded \/ Crash
    BY <1>6, EndStep
<1> QED BY <1>1, <1>2, <1>3, <1>4, <1>5, <1>6 DEF Next

LEMMA InitTypeInv == Init => TypeInv
<1> SUFFICES ASSUME Init PROVE TypeInv
    OBVIOUS
<1>1. <<>> \in Seq(Lines) /\ <<>> \in Seq(Events) /\ <<>> \in TailType
    BY DEF TailType
<1>2. history \in [Paths -> HistoryType]
    BY <1>1 DEF Init, HistoryType, EndsType
<1>3. 0 \in 0 .. MaxFaults
    BY ServeAssumption DEF ServeAssumption
<1> QED BY <1>1, <1>2, <1>3 DEF Init, TypeInv

LEMMA NextTypeInv == TypeInv /\ [Next]_vars => TypeInv'
<1>1. TypeInv /\ Next => TypeInv'
    BY StepCases, ApplyStep DEF AppliesNothing
<1>2. TypeInv /\ UNCHANGED vars => TypeInv'
    BY DEF vars, TypeInv, Live
<1> QED BY <1>1, <1>2

\* The service keeps its types, and no session ever goes back in cycles.
THEOREM SessionTypeCorrect == Spec => []TypeOK
<1>1. Spec => []TypeInv
    BY InitTypeInv, NextTypeInv, PTL DEF Spec
<1> QED BY <1>1, TypeInvGivesTypeOK, PTL

-----------------------------------------------------------------------------
(* No event takes effect that is not on disk.                              *)

EventLines(applied) == [i \in DOMAIN applied |-> EventLine(applied[i])]

\* What AppliedIsRecorded rests on: the event that waits to take effect is on
\* disk too, after those that did.
Recorded ==
    /\ AppliedIsRecorded
    /\ \A e \in pending :
          Embedded(EventLines(Append(history[Trace].applied, e)), file[Trace])

LEMMA EventLinesType ==
    ASSUME NEW a \in Seq(Events)
    PROVE  /\ EventLines(a) \in Seq(Lines)
           /\ Len(EventLines(a)) = Len(a)
           /\ \A e \in Events :
                EventLines(Append(a, e)) = Append(EventLines(a), EventLine(e))
<1>1. \A b \in Seq(Events) :
        /\ EventLines(b) \in Seq(Lines)
        /\ Len(EventLines(b)) = Len(b)
        /\ \A i \in 1 .. Len(b) : EventLines(b)[i] = EventLine(b[i])
    BY LineTypes DEF EventLines
<1>2. ASSUME NEW e \in Events
      PROVE  EventLines(Append(a, e)) = Append(EventLines(a), EventLine(e))
    <2> DEFINE b == Append(a, e)
               c == Append(EventLines(a), EventLine(e))
    <2>1. /\ b \in Seq(Events) /\ Len(b) = Len(a) + 1 /\ b[Len(a) + 1] = e
          /\ \A i \in 1 .. Len(a) : b[i] = a[i]
        OBVIOUS
    <2>2. /\ c \in Seq(Lines) /\ Len(c) = Len(a) + 1
          /\ c[Len(a) + 1] = EventLine(e)
          /\ \A i \in 1 .. Len(a) : c[i] = EventLines(a)[i]
        BY <1>1, LineTypes
    <2> HIDE DEF b, c
    <2>3. \A i \in 1 .. Len(a) + 1 : EventLines(b)[i] = c[i]
        BY <1>1, <2>1, <2>2
    <2>4. /\ EventLines(b) = [i \in 1 .. Len(a) + 1 |-> EventLines(b)[i]]
          /\ c = [i \in 1 .. Len(a) + 1 |-> c[i]]
        BY <1>1, <2>1, <2>2
    <2>5. EventLines(b) = c
        BY <2>3, <2>4
    <2> QED BY <2>5 DEF b, c
<1> QED BY <1>1, <1>2

\* What is found in a file is found in whatever the file grows to.
LEMMA EmbeddedInLonger ==
    ASSUME NEW a \in Seq(Lines), NEW f \in Seq(Lines), NEW more \in Seq(Lines),
           Embedded(a, f)
    PROVE  Embedded(a, f \o more)
<1>1. PICK at \in [DOMAIN a -> DOMAIN f] :
        /\ \A i \in DOMAIN a : f[at[i]] = a[i]
        /\ \A i, j \in DOMAIN a : i < j => at[i] < at[j]
    BY DEF Embedded
<1> DEFINE g == f \o more
<1>2. /\ DOMAIN f \subseteq DOMAIN g
      /\ \A k \in DOMAIN f : g[k] = f[k]
    OBVIOUS
<1> HIDE DEF g
<1>3. at \in [DOMAIN a -> DOMAIN g]
    BY <1>1, <1>2
<1>4. \A i \in DOMAIN a : g[at[i]] = a[i]
    BY <1>1, <1>2
<1>5. Embedded(a, g)
    BY <1>1, <1>3, <1>4 DEF Embedded
<1> QED BY <1>5 DEF g

\* What ends with a line is found in a file that ends with it, if the rest is
\* found in the file before.
LEMMA EmbeddedAppend ==
    ASSUME NEW a \in Seq(Lines), NEW f \in Seq(Lines), NEW before \in Seq(Lines),
           NEW line \in Lines, Embedded(a, f)
    PROVE  Embedded(Append(a, line), f \o Append(before, line))
<1>1. PICK at \in [DOMAIN a -> DOMAIN f] :
        /\ \A i \in DOMAIN a : f[at[i]] = a[i]
        /\ \A i, j \in DOMAIN a : i < j => at[i] < at[j]
    BY DEF Embedded
<1> DEFINE b == Append(a, line)
           g == f \o Append(before, line)
           new == [i \in DOMAIN b |-> IF i \in DOMAIN a THEN at[i] ELSE Len(g)]
<1>2. /\ DOMAIN f \subseteq DOMAIN g
      /\ \A k \in DOMAIN f : g[k] = f[k] /\ k < Len(g)
      /\ Len(g) \in DOMAIN g /\ g[Len(g)] = line
    <2>1. /\ Append(before, line) \in Seq(Lines)
          /\ Len(Append(before, line)) = Len(before) + 1
          /\ Append(before, line)[Len(before) + 1] = line
        OBVIOUS
    <2> QED BY <2>1
<1>3. /\ DOMAIN b = DOMAIN a \cup {Len(a) + 1}
      /\ \A i \in DOMAIN a : b[i] = a[i] /\ i < Len(a) + 1 /\ i \in Nat
      /\ Len(a) + 1 \notin DOMAIN a /\ b[Len(a) + 1] = line
    OBVIOUS
<1> HIDE DEF b, g
<1>4. new \in [DOMAIN b -> DOMAIN g]
    BY <1>1, <1>2
<1>5. \A i \in DOMAIN b : g[new[i]] = b[i]
    BY <1>1, <1>2, <1>3
<1>6. ASSUME NEW i \in DOMAIN b, NEW j \in DOMAIN b, i < j
      PROVE  new[i] < new[j]
    <2>1. i \in DOMAIN a
        BY <1>3, <1>6
    <2>2. CASE j \in DOMAIN a
        BY <1>1, <1>6, <2>1, <2>2
    <2>3. CASE j \notin DOMAIN a
        BY <1>1, <1>2, <2>1, <2>3
    <2> QED BY <2>2, <2>3
<1>7. Embedded(b, g)
    BY <1>4, <1>5, <1>6 DEF Embedded
<1> QED BY <1>7 DEF b, g

LEMMA InitRecorded == Init => Recorded
<1> SUFFICES ASSUME Init PROVE AppliedIsRecorded
    BY DEF Init, Recorded
<1>1. ASSUME NEW p \in Paths PROVE Embedded(EventLines(<<>>), file[p])
    <2>1. EventLines(<<>>) = <<>> /\ file[p] = <<>>
        BY DEF Init, EventLines
    <2>2. [i \in {} |-> 0] \in [DOMAIN <<>> -> DOMAIN <<>>]
        OBVIOUS
    <2> QED BY <2>1, <2>2 DEF Embedded
<1> QED BY <1>1 DEF Init, AppliedIsRecorded, EventLines

\* As files only grow, what was on disk stays there.
LEMMA GrowthKeepsRecorded ==
    ASSUME TypeInv, AppliedIsRecorded, AppliesNothing
    PROVE  AppliedIsRecorded'
<1> SUFFICES ASSUME NEW p \in Paths
             PROVE  Embedded(EventLines(history'[p].applied), file'[p])
    BY DEF AppliedIsRecorded, EventLines
<1>1. /\ history[p].applied \in Seq(Events) /\ file[p] \in Seq(Lines)
      /\ history'[p].applied = history[p].applied
    BY DEF TypeInv, HistoryType, AppliesNothing
<1>2. PICK more \in Seq(Lines) : file'[p] = file[p] \o more
    BY DEF AppliesNothing, Grown
<1>3. Embedded(EventLines(history[p].applied), file[p])
    BY DEF AppliedIsRecorded, EventLines
<1> QED BY <1>1, <1>2, <1>3, EventLinesType, EmbeddedInLonger

\* Recording an event puts it at the end of the file, after all others.
LEMMA ReceiveRecords ==
    ASSUME TypeInv, AppliedIsRecorded, AppliesNothing,
           NEW e \in Events, ReceiveEvent(e)
    PROVE  Recorded'
<1>1. Trace \in Paths /\ Trace' = Trace /\ pending' = {e}
    BY TraceOfSession DEF ReceiveEvent, Idle, SessionType, Trace
<1> DEFINE a == history[Trace].applied
<1>2. a \in Seq(Events) /\ file[Trace] \in Seq(Lines) /\ buffer \in Seq(Lines)
    BY <1>1 DEF TypeInv, HistoryType
<1>3. file'[Trace] = file[Trace] \o Append(buffer, EventLine(e))
    BY <1>1, LineTypes, RecordWrites DEF ReceiveEvent
<1>4. Embedded(EventLines(a), file[Trace])
    BY <1>1 DEF AppliedIsRecorded, EventLines
<1>5. /\ EventLines(a) \in Seq(Lines) /\ EventLine(e) \in Lines
      /\ EventLines(Append(a, e)) = Append(EventLines(a), EventLine(e))
    BY <1>2, EventLinesType, LineTypes
<1>6. Embedded(EventLines(Append(a, e)), file'[Trace])
    BY <1>2, <1>3, <1>4, <1>5, EmbeddedAppend
<1>7. history'[Trace].applied = a
    BY <1>1 DEF AppliesNothing
<1> QED BY <1>1, <1>6, <1>7, GrowthKeepsRecorded DEF Recorded

LEMMA ApplyKeepsRecorded ==
    ASSUME TypeInv, Recorded, ApplyEvent
    PROVE  Recorded'
<1>1. pending' = {} /\ file' = file
    BY ApplyStep
<1>2. PICK e \in pending, s \in session :
        \A p \in Paths :
            history'[p].applied =
                IF p = s.path /\ CheckCycle(s.applied, e)
                THEN Append(history[p].applied, e)
                ELSE history[p].applied
    BY ApplyStep
<1>3. s.path = Trace
    BY TraceOfSession DEF Live
<1>4. ASSUME NEW p \in Paths
      PROVE  Embedded(EventLines(history'[p].applied), file[p])
    <2>1. CASE history'[p].applied = history[p].applied
        BY <2>1 DEF Recorded, AppliedIsRecorded, EventLines
    <2>2. CASE p = Trace /\ history'[p].applied = Append(history[p].applied, e)
        BY <2>2 DEF Recorded
    <2> QED BY <1>2, <1>3, <2>1, <2>2
<1> QED BY <1>1, <1>4 DEF Recorded, AppliedIsRecorded, EventLines

LEMMA NextRecorded == TypeInv /\ Recorded /\ [Next]_vars => Recorded'
<1> SUFFICES ASSUME TypeInv, Recorded, [Next]_vars PROVE Recorded'
    OBVIOUS
<1>1. AppliedIsRecorded
    BY DEF Recorded
<1>2. CASE AppliesNothing /\ pending' = {}
    BY <1>1, <1>2, GrowthKeepsRecorded DEF Recorded
<1>3. CASE \E e \in Events : ReceiveEvent(e) /\ AppliesNothing
    BY <1>1, <1>3, ReceiveRecords
<1>4. CASE ApplyEvent
    BY <1>4, ApplyKeepsRecorded
<1>5. CASE UNCHANGED vars
    BY <1>5 DEF vars, Recorded, AppliedIsRecorded, Trace
<1> QED BY <1>2, <1>3, <1>4, <1>5, StepCases

\* Whatever writes fail and however often the process dies, an event has taken
\* effect only if the trace on disk holds it, in its place.
THEOREM NothingUnrecordedTakesEffect == Spec => []AppliedIsRecorded
<1>1. Spec => []TypeInv
    BY InitTypeInv, NextTypeInv, PTL DEF Spec
<1>2. Recorded => AppliedIsRecorded
    BY DEF Recorded
<1> QED BY <1>1, <1>2, InitRecorded, NextRecorded, PTL DEF Spec

-----------------------------------------------------------------------------
(* Replay takes the lines one by one.                                      *)

\* What a line makes of the events applied so far.
Taken(applied, l) == IF l.op = "event" THEN ApplyTo(applied, l.event) ELSE applied

LEMMA TakenType ==
    ASSUME NEW a \in Seq(Events), NEW l \in Lines
    PROVE  Taken(a, l) \in Seq(Events)
<1>1. CASE l.op = "event"
    <2>1. PICK e \in Events : l = EventLine(e)
        BY <1>1 DEF Lines, OpenLine, MetricsLine, CloseLine, Garbage
    <2>2. l.event = e
        BY <2>1 DEF EventLine
    <2> QED BY <1>1, <2>2 DEF Taken, ApplyTo
<1>2. CASE l.op # "event"
    BY <1>2 DEF Taken
<1> QED BY <1>1, <1>2

EffectOf(lines) ==
    [i \in DOMAIN lines |-> [a \in Seq(Events) |-> Taken(a, lines[i])]]

\* Replay is a fold over the positions of the lines, the last one outermost.
LEMMA ReplayFolds ==
    ASSUME NEW lines \in Seq(Lines)
    PROVE  \E g : /\ Replayed(lines) = g[DOMAIN lines]
                  /\ \A s \in SUBSET DOMAIN lines :
                        /\ g[s] \in Seq(Events)
                        /\ g[s] = IF s = {} THEN <<>>
                                  ELSE Taken(g[s \ {Max(s)}], lines[Max(s)])
<1> DEFINE D == DOMAIN lines
           Body(f) ==
        [s \in SUBSET D |->
            IF s = {} THEN <<>>
            ELSE IF lines[Max(s)].op = "event"
                 THEN ApplyTo(f[s \ {Max(s)}], lines[Max(s)].event)
                 ELSE f[s \ {Max(s)}]]
           total == CHOOSE f : f = Body(f)
           pick == LastOf(lines)
           effect == EffectOf(lines)
<1>1. Replayed(lines) = total[D]
    BY Zenon DEF Replayed, FoldLeft, MapThenFoldSet
<1>2. /\ IsFiniteSet(D) /\ IsPick(pick, D)
      /\ \A s \in SUBSET D : pick[s] = Max(s)
      /\ \A s \in SUBSET D : s # {} => Max(s) \in D /\ Max(s) \in s
    <2>1. Len(lines) \in Nat /\ D = 1 .. Len(lines)
        OBVIOUS
    <2>2. IsFiniteSet(D)
        BY <2>1, FS_Interval
    <2>3. \A s \in SUBSET D : s # {} => Max(s) \in s
        BY <2>1, LastPosition
    <2>4. \A s \in SUBSET D : pick[s] = Max(s)
        BY DEF LastOf
    <2> HIDE DEF D, pick
    <2> QED BY <2>2, <2>3, <2>4 DEF IsPick
<1>3. \A i \in D : \A a \in Seq(Events) :
        effect[i][a] = Taken(a, lines[i]) /\ effect[i][a] \in Seq(Events)
    <2>1. \A i \in D : lines[i] \in Lines
        OBVIOUS
    <2> QED BY <2>1, TakenType DEF EffectOf
<1> HIDE DEF D, pick, effect
<1>4. PICK g : IsFold(g, D, pick, <<>>, effect)
    BY <1>2, FoldExists
<1>5. \A s \in SUBSET D : g[s] \in Seq(Events)
    <2>1. <<>> \in Seq(Events)
        OBVIOUS
    <2>2. Keeps(Seq(Events), D, <<>>, effect)
        BY <1>3, <2>1 DEF Keeps
    <2> QED BY <1>2, <1>4, <2>2, FoldType
<1>6. \A s \in SUBSET D :
        g[s] = IF s = {} THEN <<>> ELSE Taken(g[s \ {Max(s)}], lines[Max(s)])
    <2> SUFFICES ASSUME NEW s \in SUBSET D
                 PROVE  g[s] = IF s = {} THEN <<>>
                               ELSE Taken(g[s \ {Max(s)}], lines[Max(s)])
        OBVIOUS
    <2>1. g[s] = IF s = {} THEN <<>> ELSE effect[pick[s]][g[s \ {pick[s]}]]
        BY <1>4 DEF IsFold
    <2>2. s # {} => Max(s) \in D /\ g[s \ {Max(s)}] \in Seq(Events)
        BY <1>2, <1>5
    <2> QED BY <1>2, <1>3, <2>1, <2>2
<1>7. g = Body(g)
    <2>1. \A s \in SUBSET D : Body(g)[s] = g[s]
        BY <1>6 DEF Taken
    <2>2. g = [s \in SUBSET D |-> g[s]]
        BY <1>4 DEF IsFold
    <2>3. Body(g) = [s \in SUBSET D |-> Body(g)[s]]
        OBVIOUS
    <2> HIDE DEF Body
    <2> QED BY <2>1, <2>2, <2>3
<1>8. total = Body(total)
    <2> HIDE DEF Body
    <2> QED BY <1>7, Zenon
<1>9. \A s \in SUBSET D :
        total[s] = IF s = {} THEN <<>>
                   ELSE Taken(total[s \ {Max(s)}], lines[Max(s)])
    <2> HIDE DEF total
    <2> QED BY <1>8 DEF Taken
<1> HIDE DEF total, Body
<1>10. \A s \in SUBSET D : total[s] = g[s]
    <2> DEFINE bad == {s \in SUBSET D : total[s] # g[s]}
    <2> SUFFICES ASSUME bad # {} PROVE FALSE
        OBVIOUS
    <2>1. PICK U \in bad : \A V \in bad : V \subseteq U => V = U
        <3>1. bad \in SUBSET SUBSET D
            OBVIOUS
        <3> HIDE DEF bad
        <3> QED BY <1>2, <3>1, LeastSubset
    <2>2. U \in SUBSET D /\ total[U] # g[U] /\ U # {}
        BY <1>6, <1>9, <2>1
    <2>3. Max(U) \in U
        BY <1>2, <2>2
    <2>4. total[U \ {Max(U)}] = g[U \ {Max(U)}]
        BY <2>1, <2>2, <2>3
    <2> QED BY <1>6, <1>9, <2>2, <2>4
<1> QED BY <1>1, <1>5, <1>6, <1>10 DEF D

LEMMA ReplayOfNothing == Replayed(<<>>) = <<>>
<1>1. <<>> \in Seq(Lines) /\ DOMAIN <<>> = {}
    OBVIOUS
<1>2. PICK g : /\ Replayed(<<>>) = g[DOMAIN <<>>]
               /\ \A s \in SUBSET DOMAIN <<>> : s = {} => g[s] = <<>>
    BY <1>1, ReplayFolds
<1> QED BY <1>1, <1>2

\* One more line is taken after all others.
LEMMA ReplayOfOneMore ==
    ASSUME NEW lines \in Seq(Lines), NEW l \in Lines
    PROVE  /\ Replayed(lines) \in Seq(Events)
           /\ Replayed(Append(lines, l)) = Taken(Replayed(lines), l)
<1> DEFINE more == Append(lines, l)
           n == Len(lines)
           S == 1 .. n
           R == 1 .. n + 1
<1>1. /\ more \in Seq(Lines) /\ n \in Nat
      /\ DOMAIN lines = S /\ DOMAIN more = R
      /\ more[n + 1] = l /\ \A i \in S : more[i] = lines[i]
    OBVIOUS
<1> HIDE DEF more, n
<1>2. PICK g : /\ Replayed(lines) = g[S]
               /\ \A s \in SUBSET S :
                    /\ g[s] \in Seq(Events)
                    /\ g[s] = IF s = {} THEN <<>>
                              ELSE Taken(g[s \ {Max(s)}], lines[Max(s)])
    <2> HIDE DEF S, R
    <2>1. lines \in Seq(Lines)
        OBVIOUS
    <2> QED BY <1>1, <2>1, ReplayFolds
<1>3. PICK h : /\ Replayed(more) = h[R]
               /\ \A s \in SUBSET R :
                    /\ h[s] \in Seq(Events)
                    /\ h[s] = IF s = {} THEN <<>>
                              ELSE Taken(h[s \ {Max(s)}], more[Max(s)])
    <2> HIDE DEF S, R
    <2> QED BY <1>1, ReplayFolds
<1>4. S \in SUBSET R /\ IsFiniteSet(S) /\ \A s \in SUBSET S : s # {} => Max(s) \in s
    <2>1. S \in SUBSET R
        BY <1>1
    <2>2. IsFiniteSet(S)
        BY <1>1, FS_Interval
    <2>3. \A s \in SUBSET S : s # {} => Max(s) \in s
        BY <1>1, LastPosition
    <2> QED BY <2>1, <2>2, <2>3
<1>5. Max(R) = n + 1 /\ R \ {n + 1} = S /\ R # {}
    <2>1. n + 1 \in Nat /\ n + 1 \in R
        BY <1>1
    <2>2. Max(R) \in R /\ n + 1 <= Max(R)
        BY <2>1, LastPosition
    <2> QED BY <1>1, <2>1, <2>2
<1> HIDE DEF S, R
<1>6. \A s \in SUBSET S : h[s] = g[s]
    <2> DEFINE bad == {s \in SUBSET S : h[s] # g[s]}
    <2> SUFFICES ASSUME bad # {} PROVE FALSE
        OBVIOUS
    <2>1. PICK U \in bad : \A V \in bad : V \subseteq U => V = U
        <3>1. bad \in SUBSET SUBSET S
            OBVIOUS
        <3> HIDE DEF bad
        <3> QED BY <1>4, <3>1, LeastSubset
    <2>2. U \in SUBSET S /\ U \in SUBSET R /\ h[U] # g[U] /\ U # {}
        BY <1>2, <1>3, <1>4, <2>1
    <2>3. Max(U) \in U /\ more[Max(U)] = lines[Max(U)]
        BY <1>1, <1>4, <2>2
    <2>4. h[U \ {Max(U)}] = g[U \ {Max(U)}]
        BY <2>1, <2>2, <2>3
    <2>5. h[U] = Taken(h[U \ {Max(U)}], more[Max(U)])
        BY <1>3, <2>2
    <2>6. g[U] = Taken(g[U \ {Max(U)}], lines[Max(U)])
        BY <1>2, <2>2
    <2> QED BY <2>2, <2>3, <2>4, <2>5, <2>6
<1>7. h[R] = Taken(h[S], l)
    BY <1>1, <1>3, <1>5
<1>8. h[S] = Replayed(lines) /\ Replayed(lines) \in Seq(Events)
    BY <1>2, <1>6
<1> QED BY <1>3, <1>7, <1>8 DEF more

LEMMA ReplayOfEvent ==
    ASSUME NEW lines \in Seq(Lines), NEW e \in Events, Replayable(lines)
    PROVE  /\ Replayable(Append(lines, EventLine(e)))
           /\ Replayed(Append(lines, EventLine(e))) = ApplyTo(Replayed(lines), e)
<1> DEFINE l == EventLine(e)
<1>1. l \in Lines /\ l.op = "event" /\ l.event = e
    BY LineTypes DEF EventLine
<1>2. l # OpenLine
    BY <1>1 DEF OpenLine
<1> HIDE DEF l
<1>3. Replayable(Append(lines, l))
    BY <1>1, <1>2 DEF Replayable
<1>4. Replayed(Append(lines, l)) = ApplyTo(Replayed(lines), e)
    BY <1>1, ReplayOfOneMore DEF Taken
<1> QED BY <1>3, <1>4 DEF l

LEMMA ReplayOfRequest ==
    ASSUME NEW lines \in Seq(Lines), NEW l \in {MetricsLine, CloseLine},
           Replayable(lines)
    PROVE  /\ Replayable(Append(lines, l))
           /\ Replayed(Append(lines, l)) = Replayed(lines)
<1>1. l \in Lines /\ l.op # "event" /\ l # OpenLine
    BY LineTypes DEF OpenLine, MetricsLine, CloseLine
<1>2. Replayable(Append(lines, l))
    BY <1>1 DEF Replayable
<1>3. Replayed(Append(lines, l)) = Replayed(lines)
    BY <1>1, ReplayOfOneMore DEF Taken
<1> QED BY <1>2, <1>3

LEMMA ReplayOfHeader == Replayable(<<OpenLine>>) /\ Replayed(<<OpenLine>>) = <<>>
<1>1. Replayable(<<OpenLine>>)
    BY DEF Replayable
<1>2. <<>> \in Seq(Lines) /\ OpenLine \in Lines /\ Append(<<>>, OpenLine) = <<OpenLine>>
    BY LineTypes
<1>3. Replayed(Append(<<>>, OpenLine)) = Taken(Replayed(<<>>), OpenLine)
    BY <1>2, ReplayOfOneMore
<1>4. OpenLine.op # "event"
    BY DEF OpenLine
<1> QED BY <1>1, <1>2, <1>3, <1>4, ReplayOfNothing DEF Taken

-----------------------------------------------------------------------------
(* The clean trace of one session replays to the session.                  *)

\* The live session is the one of p's file.
Here(p) == \E s \in session : s.path = p

\* While a session lives on a clean trace nothing is left in the buffer or
\* at the end of the file, and the file is ahead by the event pending.
InStep(p) ==
    /\ tail[p] = <<>> /\ buffer = <<>>
    /\ Replayable(file[p])
    /\ \A s \in session : s.applied = history[p].applied
    /\ pending = {} => Replayed(file[p]) = history[p].applied
    /\ \A e \in pending : Replayed(file[p]) = ApplyTo(history[p].applied, e)

\* Once it has ended the file may be ahead by the event a crash caught.
LeftBehind(p) ==
    /\ Replayable(Reading(p))
    /\ \/ Replayed(Reading(p)) = history[p].applied
       \/ /\ history[p].ended = "crashed"
          /\ \E e \in Events : Replayed(Reading(p)) = Append(history[p].applied, e)

CleanAt(p) ==
    /\ history[p].opened = 0 =>
            /\ file[p] = <<>> /\ tail[p] = <<>> /\ history[p].applied = <<>>
            /\ ~Here(p)
    /\ IsCleanTrace(p) => IF Here(p) THEN InStep(p) ELSE LeftBehind(p)

CleanInv ==
    /\ ~Live => buffer = <<>>
    /\ \A p \in Paths : CleanAt(p)

\* A step that leaves p's file alone keeps what is said of it.
LEMMA ElsewhereKept ==
    ASSUME NEW p \in Paths, CleanAt(p), ~Here(p), ~Here(p)',
           file'[p] = file[p], tail'[p] = tail[p], history'[p] = history[p]
    PROVE  CleanAt(p)'
BY DEF CleanAt, IsCleanTrace, LeftBehind, Reading

\* So does one after which p's trace is no clean one.
LEMMA FaultKept ==
    ASSUME NEW p \in Paths, CleanAt(p), ~IsCleanTrace(p)', history'[p].opened # 0
    PROVE  CleanAt(p)'
BY DEF CleanAt

LEMMA OneIsHere ==
    ASSUME TypeInv, Live
    PROVE  Trace \in Paths /\ Here(Trace) /\ \A p \in Paths : p # Trace => ~Here(p)
<1>1. PICK s \in session : session = {s} /\ s \in SessionType /\ Trace = s.path
    BY TraceOfSession
<1> QED BY <1>1 DEF Here, SessionType

\* A session lives on a file that was opened.
LEMMA HereIsOpened ==
    ASSUME TypeInv, CleanInv, NEW p \in Paths, Here(p)
    PROVE  history[p].opened \in Nat /\ history[p].opened # 0
BY DEF CleanInv, CleanAt, TypeInv, HistoryType

LEMMA CleanInit == Init => CleanInv
<1> SUFFICES ASSUME Init PROVE CleanInv
    OBVIOUS
<1>1. ASSUME NEW p \in Paths PROVE CleanAt(p)
    BY DEF Init, CleanAt, Here, IsCleanTrace
<1> QED BY <1>1 DEF Init, CleanInv

\* What a request that is recorded does to the files.
LEMMA RecordExactly ==
    ASSUME TypeInv, Trace \in Paths, NEW line \in Lines, Record(line)
    PROVE  /\ \A p \in Paths : p # Trace => file'[p] = file[p] /\ tail'[p] = tail[p]
           /\ tail'[Trace] = <<>> /\ buffer' = <<>>
           /\ buffer = <<>> => file'[Trace] = Append(file[Trace], line)
<1> DEFINE lines == Append(buffer, line)
<1>1. lines \in Seq(Lines) /\ buffer \in Seq(Lines)
    BY DEF TypeInv
<1>2. WriteFirst(Trace, lines, Len(lines)) /\ buffer' = <<>>
    BY DEF Record
<1>3. file'[Trace] = file[Trace] \o lines
    BY RecordWrites
<1>4. buffer = <<>> => file[Trace] \o lines = Append(file[Trace], line)
    <2>1. file[Trace] \in Seq(Lines)
        BY DEF TypeInv
    <2> QED BY <2>1
<1> HIDE DEF lines
<1>5. Tails(Trace, lines, Len(lines)) = {<<>>}
    BY DEF Tails
<1>6. PICK t \in {<<>>} : tail' = [tail EXCEPT ![Trace] = t]
    BY <1>2, <1>5 DEF WriteFirst
<1>7. \A p \in Paths : p # Trace => file'[p] = file[p] /\ tail'[p] = tail[p]
    BY <1>2, <1>6 DEF WriteFirst, TypeInv
<1>8. tail'[Trace] = <<>>
    BY <1>6 DEF TypeInv
<1> QED BY <1>2, <1>3, <1>4, <1>7, <1>8

\* However a write fails, it touches no other file.
LEMMA WriteTouchesOne ==
    ASSUME TypeInv, NEW p \in Paths, NEW lines, NEW k, WriteFirst(p, lines, k)
    PROVE  \A q \in Paths : q # p => file'[q] = file[q] /\ tail'[q] = tail[q]
BY DEF WriteFirst, TypeInv

LEMMA CleanOpen ==
    ASSUME TypeInv, CleanInv, NEW p \in Paths, Open(p)
    PROVE  CleanInv'
<1>1. /\ ~Live /\ session = {} /\ buffer = <<>> /\ buffer' = <<>> /\ pending' = {}
      /\ session' = {[path |-> p, applied |-> <<>>]}
    BY DEF Open, CanOpen, CleanInv, TypeInv, Live
<1>2. \A q \in Paths : ~Here(q) /\ (Here(q)' <=> q = p)
    BY <1>1 DEF Here
<1>3. WriteFirst(p, <<Header(p)>>, 1)
    BY DEF Open
<1>4. ASSUME NEW q \in Paths, q # p PROVE CleanAt(q)'
    <2>1. file'[q] = file[q] /\ tail'[q] = tail[q]
        BY <1>3, <1>4, WriteTouchesOne
    <2>2. history'[q] = history[q]
        BY <1>4 DEF Open, TypeInv
    <2> QED BY <1>2, <1>4, <2>1, <2>2, ElsewhereKept DEF CleanInv
<1>5. CleanAt(p)'
    <2>1. /\ history[p].opened \in Nat /\ history'[p].opened = history[p].opened + 1
          /\ history'[p].faulty = history[p].faulty
          /\ history'[p].applied = history[p].applied
        BY DEF Open, TypeInv, HistoryType
    <2>2. CASE history[p].opened # 0
        <3>1. ~IsCleanTrace(p)' /\ history'[p].opened # 0
            BY <2>1, <2>2 DEF IsCleanTrace
        <3> QED BY <3>1, FaultKept DEF CleanInv
    <2>3. CASE history[p].opened = 0
        <3>1. file[p] = <<>> /\ tail[p] = <<>> /\ history[p].applied = <<>>
            BY <2>3 DEF CleanInv, CleanAt
        <3>2. file' = [file EXCEPT ![p] = file[p] \o SubSeq(<<OpenLine>>, 1, 1)]
            BY <1>3, <3>1 DEF WriteFirst, Header
        <3>3. <<>> \o SubSeq(<<OpenLine>>, 1, 1) = <<OpenLine>>
            <4> DEFINE lines == <<OpenLine>>
            <4>1. lines \in Seq(Lines) /\ Len(lines) = 1
                BY LineTypes
            <4> HIDE DEF lines
            <4>2. SubSeq(lines, 1, Len(lines)) = lines /\ <<>> \o lines = lines
                BY <4>1
            <4> QED BY <4>1, <4>2 DEF lines
        <3>4. file'[p] = <<OpenLine>>
            BY <3>1, <3>2, <3>3 DEF TypeInv
        <3>5. tail'[p] = <<>>
            <4>1. Tails(p, <<OpenLine>>, 1) = {<<>>}
                BY DEF Tails
            <4> QED BY <1>3, <3>1, <4>1 DEF WriteFirst, Header, TypeInv
        <3>6. InStep(p)'
            BY <1>1, <2>1, <3>1, <3>4, <3>5, ReplayOfHeader DEF InStep
        <3> QED BY <1>2, <2>1, <2>3, <3>6 DEF CleanAt
    <2> QED BY <2>2, <2>3
<1> QED BY <1>1, <1>4, <1>5 DEF CleanInv

LEMMA CleanOpenFails ==
    ASSUME TypeInv, CleanInv, NEW p \in Paths, OpenFails(p)
    PROVE  CleanInv'
<1>1. session = {} /\ session' = {} /\ buffer' = <<>>
    BY DEF OpenFails, CanOpen, Live, Discard
<1>2. \A q \in Paths : ~Here(q) /\ ~Here(q)'
    BY <1>1 DEF Here
<1>3. ASSUME NEW q \in Paths, q # p PROVE CleanAt(q)'
    <2>1. file'[q] = file[q] /\ tail'[q] = tail[q]
        BY <1>3, WriteTouchesOne DEF OpenFails, Discard
    <2>2. history'[q] = history[q]
        BY <1>3 DEF OpenFails, TypeInv
    <2> QED BY <1>2, <2>1, <2>2, ElsewhereKept DEF CleanInv
<1>4. CleanAt(p)'
    <2>1. /\ history[p].opened \in Nat /\ history'[p].opened = history[p].opened + 1
          /\ history'[p].faulty
        BY DEF OpenFails, TypeInv, HistoryType
    <2>2. ~IsCleanTrace(p)' /\ history'[p].opened # 0
        BY <2>1 DEF IsCleanTrace
    <2> QED BY <2>2, FaultKept DEF CleanInv
<1> QED BY <1>1, <1>3, <1>4 DEF CleanInv

\* A write that fails is the end of the clean trace.
LEMMA CleanNotRecorded ==
    ASSUME TypeInv, CleanInv, Live, NEW line, RecordFails(line),
           UNCHANGED session
    PROVE  CleanInv'
<1>1. PICK t \in Paths : t = Trace /\ Here(t) /\ \A p \in Paths : p # t => ~Here(p)
    BY OneIsHere
<1>2. \A p \in Paths : Here(p)' <=> Here(p)
    BY DEF Here
<1>3. ASSUME NEW p \in Paths, p # t PROVE CleanAt(p)'
    <2>1. file'[p] = file[p] /\ tail'[p] = tail[p]
        BY <1>1, <1>3, WriteTouchesOne DEF RecordFails
    <2>2. history'[p] = history[p]
        BY <1>1, <1>3 DEF RecordFails, TypeInv
    <2> QED BY <1>1, <1>2, <1>3, <2>1, <2>2, ElsewhereKept DEF CleanInv
<1>4. CleanAt(t)'
    <2>1. history'[t].faulty /\ history'[t].opened = history[t].opened
        BY <1>1 DEF RecordFails, TypeInv, HistoryType
    <2>2. history[t].opened # 0
        BY <1>1, HereIsOpened
    <2>3. ~IsCleanTrace(t)' /\ history'[t].opened # 0
        BY <2>1, <2>2 DEF IsCleanTrace
    <2> QED BY <2>3, FaultKept DEF CleanInv
<1>5. Live'
    BY DEF Live
<1> QED BY <1>3, <1>4, <1>5 DEF CleanInv

\* A recorded request: elsewhere nothing changes, here the file is one line
\* longer if it was a clean trace.
LEMMA RequestIsWritten ==
    ASSUME TypeInv, CleanInv, Live, NEW line \in Lines, Record(line),
           NEW t \in Paths, t = Trace
    PROVE  /\ tail'[t] = <<>> /\ buffer' = <<>>
           /\ \A p \in Paths : p # t => file'[p] = file[p] /\ tail'[p] = tail[p]
           /\ IsCleanTrace(t) => /\ InStep(t)
                                 /\ file'[t] = Append(file[t], line)
<1>1. Here(t)
    BY OneIsHere
<1>2. IsCleanTrace(t) => InStep(t)
    BY <1>1 DEF CleanInv, CleanAt
<1>3. InStep(t) => buffer = <<>>
    BY DEF InStep
<1> QED BY <1>2, <1>3, RecordExactly

LEMMA CleanReceive ==
    ASSUME TypeInv, CleanInv, NEW e \in Events, ReceiveEvent(e)
    PROVE  CleanInv'
<1>1. Live /\ Record(EventLine(e)) /\ pending = {} /\ pending' = {e}
    BY DEF ReceiveEvent, Idle
<1>2. PICK t \in Paths : t = Trace /\ Here(t) /\ \A p \in Paths : p # t => ~Here(p)
    BY <1>1, OneIsHere
<1>3. \A p \in Paths : (Here(p)' <=> Here(p)) /\ history'[p] = history[p]
    BY DEF ReceiveEvent, Here
<1>4. /\ tail'[t] = <<>> /\ buffer' = <<>>
      /\ \A p \in Paths : p # t => file'[p] = file[p] /\ tail'[p] = tail[p]
      /\ IsCleanTrace(t) => /\ InStep(t)
                            /\ file'[t] = Append(file[t], EventLine(e))
    BY <1>1, <1>2, LineTypes, RequestIsWritten
<1>5. ASSUME NEW p \in Paths, p # t PROVE CleanAt(p)'
    BY <1>2, <1>3, <1>4, <1>5, ElsewhereKept DEF CleanInv
<1>6. CleanAt(t)'
    <2>1. history[t].opened # 0
        BY <1>2, HereIsOpened
    <2>2. ASSUME IsCleanTrace(t) PROVE InStep(t)'
        <3>1. /\ Replayable(file[t]) /\ Replayed(file[t]) = history[t].applied
              /\ file[t] \in Seq(Lines)
            BY <1>1, <1>4, <2>2 DEF InStep, TypeInv
        <3>2. /\ Replayable(file'[t])
              /\ Replayed(file'[t]) = ApplyTo(history[t].applied, e)
            BY <1>4, <2>2, <3>1, ReplayOfEvent
        <3>3. \A s \in session' : s.applied = history[t].applied
            BY <1>4, <2>2 DEF InStep, ReceiveEvent
        <3> QED BY <1>1, <1>3, <1>4, <3>2, <3>3 DEF InStep
    <2> QED BY <1>2, <1>3, <2>1, <2>2 DEF CleanAt, IsCleanTrace
<1>7. Live'
    BY <1>1 DEF ReceiveEvent, Live
<1> QED BY <1>5, <1>6, <1>7 DEF CleanInv

LEMMA CleanMetrics ==
    ASSUME TypeInv, CleanInv, Metrics
    PROVE  CleanInv'
<1>1. Live /\ Record(MetricsLine) /\ pending = {} /\ pending' = {}
    BY DEF Metrics, Idle
<1>2. PICK t \in Paths : t = Trace /\ Here(t) /\ \A p \in Paths : p # t => ~Here(p)
    BY <1>1, OneIsHere
<1>3. \A p \in Paths : (Here(p)' <=> Here(p)) /\ history'[p] = history[p]
    BY DEF Metrics, Here
<1>4. /\ tail'[t] = <<>> /\ buffer' = <<>>
      /\ \A p \in Paths : p # t => file'[p] = file[p] /\ tail'[p] = tail[p]
      /\ IsCleanTrace(t) => /\ InStep(t)
                            /\ file'[t] = Append(file[t], MetricsLine)
    BY <1>1, <1>2, LineTypes, RequestIsWritten
<1>5. ASSUME NEW p \in Paths, p # t PROVE CleanAt(p)'
    BY <1>2, <1>3, <1>4, <1>5, ElsewhereKept DEF CleanInv
<1>6. CleanAt(t)'
    <2>1. history[t].opened # 0
        BY <1>2, HereIsOpened
    <2>2. ASSUME IsCleanTrace(t) PROVE InStep(t)'
        <3>1. /\ Replayable(file[t]) /\ Replayed(file[t]) = history[t].applied
              /\ file[t] \in Seq(Lines)
            BY <1>1, <1>4, <2>2 DEF InStep, TypeInv
        <3>2. Replayable(file'[t]) /\ Replayed(file'[t]) = history[t].applied
            BY <1>4, <2>2, <3>1, ReplayOfRequest
        <3>3. \A s \in session' : s.applied = history[t].applied
            BY <1>4, <2>2 DEF InStep, Metrics
        <3> QED BY <1>1, <1>3, <1>4, <3>2, <3>3 DEF InStep
    <2> QED BY <1>2, <1>3, <2>1, <2>2 DEF CleanAt, IsCleanTrace
<1>7. Live'
    BY <1>1 DEF Metrics, Live
<1> QED BY <1>5, <1>6, <1>7 DEF CleanInv

\* A close that is recorded leaves a trace that is level with the session.
LEMMA CleanClose ==
    ASSUME TypeInv, CleanInv, Close \/ EndOfInput
    PROVE  CleanInv'
<1>1. /\ Live /\ Record(CloseLine) /\ pending = {} /\ session' = {}
      /\ \E how : Ends(how)
    BY DEF Close, EndOfInput, Idle
<1>2. PICK t \in Paths : t = Trace /\ Here(t) /\ \A p \in Paths : p # t => ~Here(p)
    BY <1>1, OneIsHere
<1>3. /\ \A p \in Paths : ~Here(p)'
      /\ \A p \in Paths : p # t => history'[p] = history[p]
      /\ history'[t].opened = history[t].opened
      /\ history'[t].faulty = history[t].faulty
      /\ history'[t].applied = history[t].applied
    BY <1>1, <1>2 DEF Here, Ends, TypeInv, HistoryType
<1>4. /\ tail'[t] = <<>> /\ buffer' = <<>>
      /\ \A p \in Paths : p # t => file'[p] = file[p] /\ tail'[p] = tail[p]
      /\ IsCleanTrace(t) => /\ InStep(t)
                            /\ file'[t] = Append(file[t], CloseLine)
    BY <1>1, <1>2, LineTypes, RequestIsWritten
<1>5. ASSUME NEW p \in Paths, p # t PROVE CleanAt(p)'
    BY <1>2, <1>3, <1>4, <1>5, ElsewhereKept DEF CleanInv
<1>6. CleanAt(t)'
    <2>1. history[t].opened # 0
        BY <1>2, HereIsOpened
    <2>2. ASSUME IsCleanTrace(t) PROVE LeftBehind(t)'
        <3>1. /\ Replayable(file[t]) /\ Replayed(file[t]) = history[t].applied
              /\ file[t] \in Seq(Lines)
            BY <1>1, <1>4, <2>2 DEF InStep, TypeInv
        <3>2. Replayable(file'[t]) /\ Replayed(file'[t]) = history[t].applied
            BY <1>4, <2>2, <3>1, ReplayOfRequest
        <3>3. file'[t] \o tail'[t] = file'[t]
            <4>1. file'[t] \in Seq(Lines)
                BY <1>4, <2>2, <3>1, LineTypes
            <4> QED BY <1>4, <4>1
        <3> QED BY <1>3, <3>2, <3>3 DEF LeftBehind, Reading
    <2> QED BY <1>3, <2>1, <2>2 DEF CleanAt, IsCleanTrace
<1> QED BY <1>4, <1>5, <1>6 DEF CleanInv

LEMMA CleanCloseFails ==
    ASSUME TypeInv, CleanInv, EndOfInputNotRecorded
    PROVE  CleanInv'
<1>1. Live /\ session' = {} /\ buffer' = <<>>
    BY DEF EndOfInputNotRecorded, Idle, Discard
<1>2. PICK t \in Paths : t = Trace /\ Here(t) /\ \A p \in Paths : p # t => ~Here(p)
    BY <1>1, OneIsHere
<1>3. /\ \A p \in Paths : ~Here(p)'
      /\ \A p \in Paths : p # t => history'[p] = history[p]
      /\ history'[t].opened = history[t].opened
      /\ history'[t].faulty
    BY <1>1, <1>2 DEF Here, EndOfInputNotRecorded, TypeInv, HistoryType
<1>4. \A p \in Paths : p # t => file'[p] = file[p] /\ tail'[p] = tail[p]
    BY <1>2, WriteTouchesOne DEF EndOfInputNotRecorded, Discard
<1>5. ASSUME NEW p \in Paths, p # t PROVE CleanAt(p)'
    BY <1>2, <1>3, <1>4, <1>5, ElsewhereKept DEF CleanInv
<1>6. CleanAt(t)'
    <2>1. ~IsCleanTrace(t)' /\ history'[t].opened # 0
        BY <1>2, <1>3, HereIsOpened DEF IsCleanTrace
    <2> QED BY <2>1, FaultKept DEF CleanInv
<1> QED BY <1>1, <1>5, <1>6 DEF CleanInv

\* A crash finds nothing in the buffer of a clean trace, and the file ahead
\* by the pending event at the most.
LEMMA CleanCrash ==
    ASSUME TypeInv, CleanInv, Crash
    PROVE  CleanInv'
<1>1. Live /\ session' = {} /\ buffer' = <<>> /\ Ends("crashed")
    BY DEF Crash, Discard
<1>2. PICK t \in Paths : t = Trace /\ Here(t) /\ \A p \in Paths : p # t => ~Here(p)
    BY <1>1, OneIsHere
<1>3. /\ \A p \in Paths : ~Here(p)'
      /\ \A p \in Paths : p # t => history'[p] = history[p]
      /\ history'[t].opened = history[t].opened
      /\ history'[t].faulty = history[t].faulty
      /\ history'[t].applied = history[t].applied
      /\ history'[t].ended = "crashed"
    BY <1>1, <1>2 DEF Here, Ends, TypeInv, HistoryType
<1>4. \A p \in Paths : p # t => file'[p] = file[p] /\ tail'[p] = tail[p]
    BY <1>2, WriteTouchesOne DEF Crash, Discard
<1>5. ASSUME NEW p \in Paths, p # t PROVE CleanAt(p)'
    BY <1>2, <1>3, <1>4, <1>5, ElsewhereKept DEF CleanInv
<1>6. CleanAt(t)'
    <2>1. history[t].opened # 0
        BY <1>2, HereIsOpened
    <2>2. ASSUME IsCleanTrace(t) PROVE LeftBehind(t)'
        <3>1. InStep(t)
            BY <1>2, <2>2 DEF CleanInv, CleanAt
        <3>2. PICK k \in 0 .. Len(buffer) : WriteFirst(t, buffer, k)
            BY <1>2 DEF Crash, Discard
        <3>3. buffer = <<>> /\ k = 0
            BY <3>1, <3>2 DEF InStep
        <3>4. file'[t] = file[t] /\ tail'[t] = <<>> /\ file[t] \in Seq(Lines)
            <4>1. SubSeq(<<>>, 1, 0) = <<>> /\ file[t] \in Seq(Lines)
                BY DEF TypeInv
            <4>2. file[t] \o <<>> = file[t]
                BY <4>1
            <4>3. file' = [file EXCEPT ![t] = file[t] \o SubSeq(<<>>, 1, 0)]
                BY <3>2, <3>3 DEF WriteFirst
            <4>4. file'[t] = file[t]
                BY <4>1, <4>2, <4>3 DEF TypeInv
            <4>5. Tails(t, <<>>, 0) = {<<>>}
                BY DEF Tails
            <4>6. PICK x \in {<<>>} : tail' = [tail EXCEPT ![t] = x]
                BY <3>2, <3>3, <4>5 DEF WriteFirst
            <4>7. tail'[t] = <<>>
                BY <4>6 DEF TypeInv
            <4> QED BY <4>1, <4>4, <4>7
        <3>5. file'[t] \o tail'[t] = file[t]
            BY <3>4
        <3>6. \/ Replayed(file[t]) = history[t].applied
              \/ \E e \in Events : Replayed(file[t]) = Append(history[t].applied, e)
            <4>1. CASE pending = {}
                BY <3>1, <4>1 DEF InStep
            <4>2. CASE pending # {}
                <5>1. PICK e \in pending : e \in Events
                    BY <4>2 DEF TypeInv
                <5>2. Replayed(file[t]) = ApplyTo(history[t].applied, e)
                    BY <3>1 DEF InStep
                <5> QED BY <5>1, <5>2 DEF ApplyTo
            <4> QED BY <4>1, <4>2
        <3> QED BY <1>3, <3>1, <3>5, <3>6 DEF LeftBehind, Reading, InStep
    <2> QED BY <1>3, <2>1, <2>2 DEF CleanAt, IsCleanTrace
<1> QED BY <1>1, <1>5, <1>6 DEF CleanInv

\* The pending event takes effect, and the session is level with the file.
LEMMA CleanApply ==
    ASSUME TypeInv, CleanInv, ApplyEvent
    PROVE  CleanInv'
<1>1. PICK e \in pending, s \in session :
        /\ session' = {[s EXCEPT !.applied = ApplyTo(@, e)]}
        /\ history' = [history EXCEPT ![s.path].applied =
                            IF CheckCycle(s.applied, e) THEN Append(@, e)
                            ELSE @]
    BY DEF ApplyEvent
<1>2. /\ Live /\ Live' /\ file' = file /\ tail' = tail /\ buffer' = buffer
      /\ pending' = {}
    BY <1>1 DEF ApplyEvent, Live
<1>3. PICK t \in Paths : t = Trace /\ Here(t) /\ \A p \in Paths : p # t => ~Here(p)
    BY <1>2, OneIsHere
<1>4. s \in SessionType /\ session = {s} /\ s.path = t /\ pending = {e}
    BY <1>2, <1>3, TraceOfSession DEF TypeInv
<1> DEFINE now == ApplyTo(s.applied, e)
           next == [s EXCEPT !.applied = now]
<1>5. session' = {next} /\ next.path = t /\ next.applied = now
    BY <1>1, <1>4 DEF SessionType
<1> HIDE DEF now, next
<1>6. \A p \in Paths : Here(p)' <=> Here(p)
    BY <1>3, <1>5 DEF Here
<1>7. /\ \A p \in Paths : p # t => history'[p] = history[p]
      /\ history'[t].opened = history[t].opened
      /\ history'[t].faulty = history[t].faulty
      /\ history'[t].applied = IF CheckCycle(s.applied, e)
                               THEN Append(history[t].applied, e)
                               ELSE history[t].applied
    <2> DEFINE b == CheckCycle(s.applied, e)
    <2>1. history' = [history EXCEPT ![t].applied =
                        IF b THEN Append(history[t].applied, e)
                        ELSE history[t].applied]
        BY <1>1, <1>4
    <2> HIDE DEF b
    <2>2. history \in [Paths -> HistoryType]
        BY DEF TypeInv
    <2>3. /\ \A p \in Paths : p # t => history'[p] = history[p]
          /\ history'[t].opened = history[t].opened
          /\ history'[t].faulty = history[t].faulty
          /\ history'[t].applied = IF b THEN Append(history[t].applied, e)
                                   ELSE history[t].applied
        BY <2>1, <2>2 DEF HistoryType
    <2> QED BY <2>3 DEF b
<1>8. ASSUME NEW p \in Paths, p # t PROVE CleanAt(p)'
    BY <1>2, <1>3, <1>6, <1>7, <1>8, ElsewhereKept DEF CleanInv
<1>9. CleanAt(t)'
    <2>1. history[t].opened # 0
        BY <1>3, HereIsOpened
    <2>2. ASSUME IsCleanTrace(t) PROVE InStep(t)'
        <3>1. /\ InStep(t) /\ s.applied = history[t].applied
              /\ Replayed(file[t]) = ApplyTo(history[t].applied, e)
            BY <1>3, <1>4, <2>2 DEF CleanInv, CleanAt, InStep
        <3>2. history'[t].applied = now /\ Replayed(file[t]) = now
            BY <1>7, <3>1 DEF now, ApplyTo
        <3> QED BY <1>2, <1>5, <3>1, <3>2 DEF InStep
    <2> QED BY <1>3, <1>6, <1>7, <2>1, <2>2 DEF CleanAt, IsCleanTrace
<1> QED BY <1>2, <1>8, <1>9 DEF CleanInv

LEMMA CleanStep == TypeInv /\ CleanInv /\ [Next]_vars => CleanInv'
<1> SUFFICES ASSUME TypeInv, CleanInv, [Next]_vars PROVE CleanInv'
    OBVIOUS
<1>1. CASE \E p \in Paths : Open(p) \/ OpenFails(p)
    BY <1>1, CleanOpen, CleanOpenFails
<1>2. CASE \E e \in Events : ReceiveEvent(e)
    BY <1>2, CleanReceive
<1>3. CASE \E e \in Events : EventNotRecorded(e)
    BY <1>3, CleanNotRecorded DEF EventNotRecorded, Idle
<1>4. CASE MetricsNotRecorded \/ CloseNotRecorded
    BY <1>4, CleanNotRecorded DEF MetricsNotRecorded, CloseNotRecorded, Idle
<1>5. CASE Metrics
    BY <1>5, CleanMetrics
<1>6. CASE Close \/ EndOfInput
    BY <1>6, CleanClose
<1>7. CASE EndOfInputNotRecorded
    BY <1>7, CleanCloseFails
<1>8. CASE Crash
    BY <1>8, CleanCrash
<1>9. CASE ApplyEvent
    BY <1>9, CleanApply
<1>10. CASE UNCHANGED vars
    BY <1>10 DEF vars, CleanInv, CleanAt, IsCleanTrace, Here, InStep, LeftBehind,
                 Reading, Live
<1> QED BY <1>1, <1>2, <1>3, <1>4, <1>5, <1>6, <1>7, <1>8, <1>9, <1>10 DEF Next

\* What is level with the history, or one event ahead of it, extends it.
LEMMA OneAheadIsPrefix ==
    ASSUME NEW a \in Seq(Events), NEW r,
           r = a \/ \E e \in Events : r = Append(a, e)
    PROVE  IsPrefix(a, r) /\ Len(r) <= Len(a) + 1
<1>1. CASE r = a
    BY <1>1 DEF IsPrefix
<1>2. CASE \E e \in Events : r = Append(a, e)
    <2>1. PICK e \in Events : r = Append(a, e)
        BY <1>2
    <2>2. /\ Len(r) = Len(a) + 1 /\ r \in Seq(Events)
          /\ \A i \in 1 .. Len(a) : r[i] = a[i]
        BY <2>1
    <2>3. SubSeq(a, 1, Len(a)) = a
        OBVIOUS
    <2>4. SubSeq(r, 1, Len(a)) = a
        <3>1. SubSeq(r, 1, Len(a)) = [i \in 1 .. Len(a) |-> r[i]]
            BY <2>2
        <3>2. a = [i \in 1 .. Len(a) |-> a[i]]
            OBVIOUS
        <3> QED BY <2>2, <3>1, <3>2
    <2> QED BY <2>2, <2>3, <2>4 DEF IsPrefix
<1> QED BY <1>1, <1>2

\* The trace of one session without failed writes replays to the session, or
\* to one event more where a crash came between recording and applying, for
\* any requests and any number of files (CleanTraceReplays).
THEOREM CleanTracesReplay == Spec => []CleanTraceReplays
<1>1. TypeInv /\ CleanInv => CleanTraceReplays
    <2> SUFFICES ASSUME TypeInv, CleanInv, NEW p \in Paths, IsCleanTrace(p)
                 PROVE  LET a == history[p].applied
                            r == Replayed(Reading(p))
                        IN  /\ Replayable(Reading(p))
                            /\ IsPrefix(a, r)
                            /\ Len(r) <= Len(a) + 1
                            /\ history[p].ended # "crashed" /\ InEffect(p) = {}
                                    => r = a
        BY DEF CleanTraceReplays, IsCleanTrace
    <2> DEFINE a == history[p].applied
               r == Replayed(Reading(p))
    <2>0. a \in Seq(Events)
        BY DEF TypeInv, HistoryType
    <2>1. CASE Here(p)
        <3>1. InStep(p)
            BY <2>1 DEF CleanInv, CleanAt
        <3>2. Reading(p) = file[p]
            BY <3>1 DEF Reading, InStep, TypeInv
        <3>3. Live /\ Trace = p
            BY <2>1, OneIsHere DEF Here, Live
        <3>4. CASE pending = {}
            <4>1. r = a
                BY <3>1, <3>2, <3>4 DEF InStep
            <4> QED BY <2>0, <3>1, <3>2, <4>1, OneAheadIsPrefix DEF InStep
        <3>5. CASE pending # {}
            <4>1. PICK e \in pending : e \in Events
                BY <3>5 DEF TypeInv
            <4>2. r = ApplyTo(a, e)
                BY <3>1, <3>2 DEF InStep
            <4>3. r = a \/ \E d \in Events : r = Append(a, d)
                BY <4>1, <4>2 DEF ApplyTo
            <4>4. InEffect(p) # {}
                BY <3>3, <3>5 DEF InEffect
            <4> QED BY <2>0, <3>1, <3>2, <4>3, <4>4, OneAheadIsPrefix DEF InStep
        <3> QED BY <3>4, <3>5
    <2>2. CASE ~Here(p)
        <3>1. LeftBehind(p)
            BY <2>2 DEF CleanInv, CleanAt
        <3>2. r = a \/ \E e \in Events : r = Append(a, e)
            BY <3>1 DEF LeftBehind
        <3>3. history[p].ended # "crashed" => r = a
            BY <3>1 DEF LeftBehind
        <3> QED BY <2>0, <3>1, <3>2, <3>3, OneAheadIsPrefix DEF LeftBehind
    <2> QED BY <2>1, <2>2
<1>2. Spec => []TypeInv
    BY InitTypeInv, NextTypeInv, PTL DEF Spec
<1> QED BY <1>1, <1>2, CleanInit, CleanStep, PTL DEF Spec
=============================================================================
