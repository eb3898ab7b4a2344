----------------------------- MODULE SyncLedger ----------------------------
(***************************************************************************)
(* What the sync service promises its devices, without requests, locks,    *)
(* receipts or retention: one history of applied operations per account,   *)
(* which only grows, and for each device a number up to which all its      *)
(* operations are decided. A step decides some more operations of one      *)
(* device and appends those it applies, in the order the device issued     *)
(* them; what was decided before is never decided again.                   *)
(***************************************************************************)
EXTENDS Integers, Sequences

CONSTANTS Device, OpId

VARIABLES
    history,  \* the applied operations, in the order all devices see them
    decided   \* for each device, the last client_seq applied or rejected

ledgerVars == <<history, decided>>

Entry == [op : OpId, dev : Device, seq : Nat]

Init ==
    /\ history = <<>>
    /\ decided = [d \in Device |-> 0]

\* history' continues history with operations of d between the two numbers.
Continues(d, last) ==
    /\ history' \in Seq(Entry)
    /\ Len(history) <= Len(history')
    /\ \A i \in DOMAIN history : history'[i] = history[i]
    /\ \A i \in (Len(history) + 1)..Len(history') :
          /\ history'[i].dev = d
          /\ decided[d] < history'[i].seq
          /\ history'[i].seq <= last
    /\ \A i, j \in (Len(history) + 1)..Len(history') :
          i < j => history'[i].seq < history'[j].seq

Decide(d) ==
    /\ decided' = [decided EXCEPT ![d] = decided'[d]]
    /\ decided[d] < decided'[d]
    /\ Continues(d, decided'[d])

Next == \E d \in Device : Decide(d)

Spec == Init /\ [][Next]_ledgerVars
============================================================================
