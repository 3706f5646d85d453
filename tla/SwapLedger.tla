----------------------------- MODULE SwapLedger -----------------------------
(***************************************************************************)
(* What the swap bridge promises, whatever the direction of a swap: value   *)
(* is locked in a swap once, by its supplier or from outside, and leaves it *)
(* once, whole, to the supplier the swap is with or to the outside; the     *)
(* vault holds what is free or locked, and moves only with it.              *)
(***************************************************************************)
EXTENDS Integers

CONSTANTS Suppliers, Swaps, Nobody

VARIABLES
    free,     \* what each supplier may withdraw
    locked,   \* what each swap holds
    backer,   \* the supplier each swap is with
    settled,  \* the swaps that are over
    vault     \* what the bridge owns

ledgerVars == <<free, locked, backer, settled, vault>>

Init ==
    /\ free = [s \in Suppliers |-> 0]
    /\ locked = [w \in Swaps |-> 0]
    /\ backer = [w \in Swaps |-> Nobody]
    /\ settled = {}
    /\ vault = 0

\* A supplier adds or removes funds.
Move(s) ==
    /\ free' = [free EXCEPT ![s] = free'[s]]
    /\ free'[s] \in Nat
    /\ vault' = vault + (free'[s] - free[s])
    /\ UNCHANGED <<locked, backer, settled>>

Lock(w, s) ==
    /\ w \notin settled /\ locked[w] = 0
    /\ locked' = [locked EXCEPT ![w] = locked'[w]]
    /\ locked'[w] \in Nat \ {0}
    /\ backer' = [backer EXCEPT ![w] = s]
    /\ UNCHANGED settled

OpenFromFunds(w, s) ==
    /\ Lock(w, s)
    /\ free[s] >= locked'[w]
    /\ free' = [free EXCEPT ![s] = @ - locked'[w]]
    /\ UNCHANGED vault

OpenFromOutside(w, s) ==
    /\ Lock(w, s)
    /\ vault' = vault + locked'[w]
    /\ UNCHANGED free

Unlock(w) ==
    /\ locked[w] > 0
    /\ settled' = settled \cup {w}
    /\ locked' = [locked EXCEPT ![w] = 0]
    /\ UNCHANGED backer

SettleToFunds(w) ==
    /\ Unlock(w)
    /\ free' = [free EXCEPT ![backer[w]] = @ + locked[w]]
    /\ UNCHANGED vault

SettleToOutside(w) ==
    /\ Unlock(w)
    /\ vault' = vault - locked[w]
    /\ UNCHANGED free

Next ==
    \/ \E s \in Suppliers : Move(s)
    \/ \E w \in Swaps :
         \/ SettleToFunds(w) \/ SettleToOutside(w)
         \/ \E s \in Suppliers : OpenFromFunds(w, s) \/ OpenFromOutside(w, s)

Spec == Init /\ [][Next]_ledgerVars
=============================================================================
