--------------------------- MODULE AccountChoice ----------------------------
(***************************************************************************)
(* What switching accounts promises: one account is current, another may   *)
(* be asked for, and the app either moves to it in one step or stays.      *)
(***************************************************************************)
CONSTANTS Account, Nobody

VARIABLES current, wanted

Init == current \in Account /\ wanted = Nobody

Ask(account) ==
    /\ wanted = Nobody
    /\ account # current
    /\ wanted' = account
    /\ UNCHANGED current

Commit ==
    /\ wanted # Nobody
    /\ current' = wanted
    /\ wanted' = Nobody

GiveUp ==
    /\ wanted # Nobody
    /\ wanted' = Nobody
    /\ UNCHANGED current

Next == Commit \/ GiveUp \/ \E account \in Account : Ask(account)

Spec == Init /\ [][Next]_<<current, wanted>>
============================================================================
