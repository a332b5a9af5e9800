---------------------------- MODULE JsonlLedger -----------------------------
(***************************************************************************)
(* The append-only JSONL directories of hari-core: one file per day, one   *)
(* record per line, written by processes that take no lock.  A file is the *)
(* sequence of what single writes have put into it: a record, the newline  *)
(* behind it, or a part of a record.  Reading splits a file at its         *)
(* newlines and skips every line that is not one whole record.             *)
(***************************************************************************)
EXTENDS Integers, Sequences, FiniteSets, SequencesExt

Line(r) == [kind |-> "line", record |-> {r}]
Newline == [kind |-> "newline", record |-> {}]
Torn == [kind |-> "torn", record |-> {}]

\* The chunks that read as a record: whole, and alone on their line.
Readable(file) ==
    {i \in DOMAIN file :
        /\ file[i].kind = "line"
        /\ i > 1 => file[i - 1] = Newline
        /\ i < Len(file) => file[i + 1] = Newline}

\* The places of the records a directory loads.  Files are read in the order
\* of their days, a file in the order of its lines.
Entries(dir) ==
    UNION {{<<day, i>> : i \in Readable(dir[day])} : day \in DOMAIN dir}
Precedes(x, y) == x[1] < y[1] \/ (x[1] = y[1] /\ x[2] < y[2])
RecordAt(dir, x) == CHOOSE r \in dir[x[1]][x[2]].record : TRUE

Latest(X) == CHOOSE x \in X : \A y \in X \ {x} : Precedes(y, x)
InOrder(X) ==
    [i \in 1 .. Cardinality(X) |->
        CHOOSE x \in X : Cardinality({y \in X : Precedes(y, x)}) = i - 1]

\* The records whose newline has been written behind them.
Ended(dir) == {x \in Entries(dir) : x[2] < Len(dir[x[1]])}

Written(dir) ==
    UNION {UNION {dir[day][i].record : i \in DOMAIN dir[day]} :
            day \in DOMAIN dir}

\* The places of records that were written whole and do not load.
Lost(dir) ==
    UNION {{<<day, i>> : i \in {j \in DOMAIN dir[day] \ Readable(dir[day]) :
                                  dir[day][j].kind = "line"}} :
            day \in DOMAIN dir}
=============================================================================
