--------------------------- MODULE EvidenceLedger ---------------------------
(***************************************************************************)
(* What the belief-revision ledger of hari-core promises, whatever event   *)
(* drives it: per proposition, evidence is appended and may later be       *)
(* retracted, but it is never removed, reordered, altered or reinstated.   *)
(* BeliefRevision implements this specification.                           *)
(***************************************************************************)
EXTENDS HexLattice, Sequences

CONSTANTS Props, Sources, Cycles

VARIABLE ledger

Evidence ==
    [source : Sources, cycle : Cycles, value : HexValues, retracted : BOOLEAN]

FreshEvidence == {e \in Evidence : ~e.retracted}

Retract(entries, which) ==
    [i \in DOMAIN entries |->
        [entries[i] EXCEPT !.retracted = @ \/ i \in which]]

Init == ledger = [p \in Props |-> <<>>]

Append1(p, e) == ledger' = [ledger EXCEPT ![p] = Append(@, e)]

RetractSome(p, which) == ledger' = [ledger EXCEPT ![p] = Retract(@, which)]

\* A replacement takes effect together with the retraction it corrects.
Replace(p, which, e) ==
    ledger' = [ledger EXCEPT ![p] = Append(Retract(@, which), e)]

Next ==
    \E p \in Props :
        \/ \E e \in FreshEvidence : Append1(p, e)
        \/ \E which \in SUBSET DOMAIN ledger[p] :
              \/ RetractSome(p, which)
              \/ \E e \in FreshEvidence : Replace(p, which, e)

Spec == Init /\ [][Next]_ledger

-----------------------------------------------------------------------------

\* The ledger holds evidence only.
LedgerTypeOK == ledger \in [Props -> Seq(Evidence)]

\* History survives every revision: an entry keeps its place, its source, its
\* cycle and its value for ever, and once retracted it stays retracted.
SameRecord(e, f) ==
    /\ f.source = e.source
    /\ f.cycle = e.cycle
    /\ f.value = e.value
    /\ e.retracted => f.retracted
HistorySurvives ==
    [][\A p \in Props : \A i \in DOMAIN ledger[p] :
            /\ i \in DOMAIN ledger'[p]
            /\ SameRecord(ledger[p][i], ledger'[p][i])]_ledger
=============================================================================
