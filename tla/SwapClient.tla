------------------------------ MODULE SwapClient ------------------------------
(***************************************************************************)
(* An inbound swap in the bridge's front end (bridge-front-end): the swap is *)
(* a record in the user's Gaia storage, of which every page that shows it     *)
(* holds a copy, and the step a page is at is the fields its copy has.        *)
(*                                                                         *)
(* A page writes its copy and puts it to Gaia without waiting, so puts arrive *)
(* in any order and a page that is closed loses the answers it waits for.     *)
(* Gaia, the chains and the bridge contract are external; the contract is as  *)
(* in Bridge, reduced to this swap.  Only a registered swapper has a record.  *)
(***************************************************************************)
EXTENDS Integers, Sequences, SequencesExt

CONSTANTS
    Pages,         \* tabs and devices that show the swap
    Closed,        \* the copy of a page that is not open
    Timely,        \* whether the user finalizes before the escrow expires
    Fees,          \* what the fees may become: "same", "higher", "lower"
    MaxPuts, MaxCloses, MaxFaults      \* bounds

ASSUME ClientAssumption ==
    /\ Timely \in BOOLEAN
    /\ Fees \subseteq {"same", "higher", "lower"}
    /\ {MaxPuts, MaxCloses, MaxFaults} \subseteq Nat

VARIABLES
    phase,         \* which steps the age of the payment still allows
    fee,           \* the supplier's fees, compared with the record's
    bitcoin,       \* the swapper's payment to the HTLC
    escrows, finals,    \* Stacks transactions sent, in order of their nonces
    surplus,       \* the escrow holds more xBTC than the record says
    gaia, copy,    \* the record in storage, and of each page
    puts,          \* records on their way to storage
    answers,       \* transactions whose ids a page waits for
    recovering,    \* pages that broadcast a recovery
    closes, faults \* bounds

chain == <<phase, fee, bitcoin, escrows, finals, surplus>>
vars == <<chain, gaia, copy, puts, answers, recovering, closes, faults>>

Records ==
    [warned : BOOLEAN, pendingBtc : BOOLEAN, btc : BOOLEAN,
     escrow : Nat, final : Nat, recovery : BOOLEAN]

ASSUME ClosedAssumption == Closed \notin Records

ReadySwap ==
    [warned |-> FALSE, pendingBtc |-> FALSE, btc |-> FALSE, escrow |-> 0,
     final |-> 0, recovery |-> FALSE]

Init ==
    /\ phase = "escrowable" /\ fee = "same" /\ bitcoin = "unsent"
    /\ escrows = <<>> /\ finals = <<>> /\ surplus = FALSE
    /\ gaia = ReadySwap
    /\ copy = [t \in Pages |-> Closed]
    /\ puts = <<>>
    /\ answers = [t \in Pages |-> {}]
    /\ recovering = {}
    /\ closes = 0 /\ faults = 0

Succeeded(txs) == \E i \in DOMAIN txs : txs[i] = "success"

-----------------------------------------------------------------------------
(* The chains *)

SendBitcoin ==
    /\ bitcoin = "unsent" /\ phase = "escrowable"
    /\ \E t \in Pages : copy[t] # Closed /\ copy[t].warned
    /\ bitcoin' = "mempool"
    /\ UNCHANGED <<phase, fee, escrows, finals, surplus, gaia, copy, puts,
                   answers, recovering, closes, faults>>

ConfirmBitcoin ==
    /\ bitcoin = "mempool"
    /\ bitcoin' = "locked"
    /\ UNCHANGED <<phase, fee, escrows, finals, surplus, gaia, copy, puts,
                   answers, recovering, closes, faults>>

ChangeFee(f) ==
    /\ fee = "same" /\ f # "same"
    /\ fee' = f
    /\ UNCHANGED <<phase, bitcoin, escrows, finals, surplus, gaia, copy, puts,
                   answers, recovering, closes, faults>>

Finalized == Succeeded(finals)

Copies ==
    {gaia} \cup {puts[i] : i \in DOMAIN puts}
        \cup {copy[t] : t \in {u \in Pages : copy[u] # Closed}}

\* A record, or a page that waits, knows of the escrow that succeeded.
EscrowKnown ==
    \/ \E swap \in Copies : swap.escrow > 0 /\ escrows[swap.escrow] = "success"
    \/ \E t \in Pages : \E i \in answers[t] :
         i \in DOMAIN escrows /\ escrows[i] = "success"

\* The payment ages: after 250 blocks it cannot be escrowed, after 300 not be
\* finalized, after 500 its sender may take it back.  The supplier redeems in
\* time what was finalized.
Age ==
    /\ bitcoin \notin {"unsent", "mempool"}
    /\ \/ phase = "escrowable" /\ phase' = "finalizable"
       \/ /\ phase = "finalizable" /\ phase' = "late"
          /\ Timely /\ EscrowKnown => Finalized
       \/ /\ phase = "late" /\ phase' = "expired"
          /\ ~(Finalized /\ bitcoin = "locked")
    /\ UNCHANGED <<fee, bitcoin, escrows, finals, surplus, gaia, copy, puts,
                   answers, recovering, closes, faults>>

\* The transactions of an account are mined in the order of their nonces.
IsNext(txs, i) ==
    /\ i \in DOMAIN txs /\ txs[i] = "pending"
    /\ \A j \in 1 .. (i - 1) : txs[j] # "pending"

\* escrow-swap.  The supplier may have run out of funds.
MineEscrow(i) ==
    /\ IsNext(escrows, i)
    /\ \/ /\ phase = "escrowable" /\ fee # "higher" /\ ~Succeeded(escrows)
          /\ escrows' = [escrows EXCEPT ![i] = "success"]
          /\ surplus' = (fee = "lower")
          /\ UNCHANGED faults
       \/ /\ phase # "escrowable" \/ fee = "higher" \/ Succeeded(escrows)
          /\ escrows' = [escrows EXCEPT ![i] = "failed"]
          /\ UNCHANGED <<surplus, faults>>
       \/ /\ faults < MaxFaults
          /\ faults' = faults + 1
          /\ escrows' = [escrows EXCEPT ![i] = "failed"]
          /\ UNCHANGED surplus
    /\ UNCHANGED <<phase, fee, bitcoin, finals, gaia, copy, puts, answers,
                   recovering, closes>>

\* finalize-swap, under the post condition that no more than xbtc is sent.
MineFinal(i) ==
    /\ IsNext(finals, i)
    /\ LET ok == phase \in {"escrowable", "finalizable"} /\ ~surplus /\ ~Finalized
       IN  finals' = [finals EXCEPT ![i] = IF ok THEN "success" ELSE "failed"]
    /\ UNCHANGED <<phase, fee, bitcoin, escrows, surplus, gaia, copy, puts,
                   answers, recovering, closes, faults>>

SupplierRedeems ==
    /\ Finalized /\ bitcoin = "locked"
    /\ bitcoin' = "redeemed"
    /\ UNCHANGED <<phase, fee, escrows, finals, surplus, gaia, copy, puts,
                   answers, recovering, closes, faults>>

-----------------------------------------------------------------------------
(* Pages and storage *)

Open(t) ==
    /\ copy[t] = Closed
    /\ copy' = [copy EXCEPT ![t] = gaia]
    /\ UNCHANGED <<chain, gaia, puts, answers, recovering, closes, faults>>

\* Closed, or left, with whatever it was waiting for.
Close(t) ==
    /\ closes < MaxCloses
    /\ closes' = closes + 1
    /\ copy[t] # Closed
    /\ copy' = [copy EXCEPT ![t] = Closed]
    /\ answers' = [answers EXCEPT ![t] = {}]
    /\ recovering' = recovering \ {t}
    /\ UNCHANGED <<chain, gaia, puts, faults>>

\* A user who does not wait for anything looks at the swap again.
Leave(t) ==
    /\ copy[t] \notin {Closed, gaia}
    /\ puts = <<>> /\ answers[t] = {} /\ t \notin recovering
    /\ copy' = [copy EXCEPT ![t] = Closed]
    /\ UNCHANGED <<chain, gaia, puts, answers, recovering, closes, faults>>

PutArrives(i) ==
    /\ i \in DOMAIN puts
    /\ gaia' = puts[i]
    /\ puts' = RemoveAt(puts, i)
    /\ UNCHANGED <<chain, copy, answers, recovering, closes, faults>>

PutFails(i) ==
    /\ i \in DOMAIN puts
    /\ faults < MaxFaults
    /\ faults' = faults + 1
    /\ puts' = RemoveAt(puts, i)
    /\ UNCHANGED <<chain, gaia, copy, answers, recovering, closes>>

\* getSwapStep, as a number.
Step(swap) ==
    IF swap.final > 0 THEN 5
    ELSE IF swap.escrow > 0 THEN 4
    ELSE IF swap.btc THEN 3
    ELSE IF swap.warned THEN 2 ELSE 1

At(t, step) == copy[t] # Closed /\ Step(copy[t]) = step

\* Mutant of UpdateSwap: the page shows what storage holds by now.
UpdateSwapStored(t, swap) ==
    /\ Len(puts) < MaxPuts
    /\ copy' = [copy EXCEPT ![t] = gaia]
    /\ puts' = Append(puts, swap)

\* updateSwap: the copy is replaced, and put.
UpdateSwap(t, swap) ==
    /\ Len(puts) < MaxPuts
    /\ copy' = [copy EXCEPT ![t] = swap]
    /\ puts' = Append(puts, swap)

Warn(t) ==
    /\ At(t, 1)
    /\ UpdateSwap(t, [copy[t] EXCEPT !.warned = TRUE])
    /\ UNCHANGED <<chain, gaia, answers, recovering, closes, faults>>

WithPayment(swap) == [swap EXCEPT !.btc = TRUE]

\* The address is watched: the payment is seen unconfirmed, or not proved yet.
WatchUnconfirmed(t) ==
    /\ At(t, 2)
    /\ bitcoin \in {"mempool", "locked"} /\ ~copy[t].pendingBtc
    /\ UpdateSwap(t, [copy[t] EXCEPT !.pendingBtc = TRUE])
    /\ UNCHANGED <<chain, gaia, answers, recovering, closes, faults>>

\* Seen confirmed at once, the effect updates the same copy twice: the second
\* update drops the field of the first, and either put may arrive last.
WatchConfirmed(t) ==
    /\ At(t, 2)
    /\ bitcoin = "locked"
    /\ IF copy[t].pendingBtc
       THEN UpdateSwap(t, WithPayment(copy[t]))
       ELSE LET first == [copy[t] EXCEPT !.pendingBtc = TRUE]
                second == WithPayment(copy[t])
            IN  /\ Len(puts) + 1 < MaxPuts
                /\ copy' = [copy EXCEPT ![t] = second]
                /\ puts' = puts \o <<first, second>>
    /\ UNCHANGED <<chain, gaia, answers, recovering, closes, faults>>

\* A button stays: it may be pressed again before there is an answer.
Press(t) ==
    IF answers[t] = {} THEN UNCHANGED faults
    ELSE faults < MaxFaults /\ faults' = faults + 1

PressEscrow(t) ==
    /\ At(t, 3)
    /\ Press(t)
    /\ escrows' = Append(escrows, "pending")
    /\ answers' = [answers EXCEPT ![t] = @ \cup {Len(escrows) + 1}]
    /\ UNCHANGED <<phase, fee, bitcoin, finals, surplus, gaia, copy, puts,
                   recovering, closes>>

\* Once the copy has an id the component that waits for others is gone.
AnswerEscrow(t, i) ==
    /\ At(t, 3) /\ i \in answers[t]
    /\ UpdateSwap(t, [copy[t] EXCEPT !.escrow = i])
    /\ answers' = [answers EXCEPT ![t] = {}]
    /\ UNCHANGED <<chain, gaia, recovering, closes, faults>>

\* Mutant of OffersFinalize: the status of the escrow is not looked at.
OffersFinalizeAlways(t) == At(t, 4)

OffersFinalize(t) == At(t, 4) /\ escrows[copy[t].escrow] = "success"

\* This discloses the secret.
PressFinalize(t) ==
    /\ OffersFinalize(t)
    /\ Press(t)
    /\ finals' = Append(finals, "pending")
    /\ answers' = [answers EXCEPT ![t] = @ \cup {Len(finals) + 1}]
    /\ UNCHANGED <<phase, fee, bitcoin, escrows, surplus, gaia, copy, puts,
                   recovering, closes>>

AnswerFinalize(t, i) ==
    /\ At(t, 4) /\ i \in answers[t]
    /\ UpdateSwap(t, [copy[t] EXCEPT !.final = i])
    /\ answers' = [answers EXCEPT ![t] = {}]
    /\ UNCHANGED <<chain, gaia, recovering, closes, faults>>

\* Mutant of OffersRecovery: only where the escrow was never tried twice.
OffersRecoveryOnce(t) ==
    /\ At(t, 4) /\ escrows[copy[t].escrow] = "failed" /\ Len(escrows) = 1
    /\ ~copy[t].recovery /\ phase = "expired"

OffersRecovery(t) ==
    /\ At(t, 4) /\ escrows[copy[t].escrow] = "failed"
    /\ ~copy[t].recovery /\ phase = "expired"

\* If the payment is spent already, the broadcast throws and nothing changes.
PressRecover(t) ==
    /\ OffersRecovery(t) /\ bitcoin = "locked"
    /\ bitcoin' = "recovered"
    /\ recovering' = recovering \cup {t}
    /\ UNCHANGED <<phase, fee, escrows, finals, surplus, gaia, copy, puts,
                   answers, closes, faults>>

AnswerRecover(t) ==
    /\ t \in recovering
    /\ UpdateSwap(t, [copy[t] EXCEPT !.recovery = TRUE])
    /\ recovering' = recovering \ {t}
    /\ UNCHANGED <<chain, gaia, answers, closes, faults>>

-----------------------------------------------------------------------------
MineFirst == \E i \in DOMAIN escrows : MineEscrow(i)
MineFinals == \E i \in DOMAIN finals : MineFinal(i)
PutDone == \E i \in DOMAIN puts : PutArrives(i)
Answer(t) ==
    \E i \in answers[t] : AnswerEscrow(t, i) \/ AnswerFinalize(t, i)

Next ==
    \/ SendBitcoin \/ ConfirmBitcoin \/ Age \/ SupplierRedeems
    \/ \E f \in Fees : ChangeFee(f)
    \/ MineFirst \/ MineFinals
    \/ PutDone \/ \E i \in DOMAIN puts : PutFails(i)
    \/ \E t \in Pages :
        \/ Open(t) \/ Close(t) \/ Leave(t) \/ Warn(t)
        \/ WatchUnconfirmed(t) \/ WatchConfirmed(t)
        \/ PressEscrow(t) \/ PressFinalize(t) \/ Answer(t)
        \/ PressRecover(t) \/ AnswerRecover(t)

Spec == Init /\ [][Next]_vars

\* A user who paid opens the swap and presses what it offers; time passes,
\* transactions are mined, and what is put or answered arrives.
FairSpec ==
    /\ Spec
    /\ WF_vars(ConfirmBitcoin) /\ WF_vars(Age) /\ WF_vars(SupplierRedeems)
    /\ WF_vars(MineFirst) /\ WF_vars(MineFinals) /\ WF_vars(PutDone)
    /\ \A t \in Pages :
        /\ WF_vars(Open(t)) /\ WF_vars(Leave(t)) /\ WF_vars(Warn(t))
        /\ SF_vars(WatchConfirmed(t)) /\ SF_vars(Answer(t))
        /\ WF_vars(PressEscrow(t)) /\ WF_vars(PressFinalize(t))
        /\ WF_vars(PressRecover(t))

-----------------------------------------------------------------------------
(* Properties *)

\* Whichever put arrives last and whichever page acts, the secret is disclosed
\* only for a payment that is escrowed, and every record that has a
\* finalization names the escrow that succeeded.
SecretKeptUntilEscrowed ==
    /\ finals # <<>> => Succeeded(escrows)
    /\ \A swap \in Copies :
         swap.final > 0 => swap.btc /\ swap.escrow > 0
                             /\ escrows[swap.escrow] = "success"

\* An open page never goes back to an earlier step, whatever storage holds.
StepNeverBack ==
    [][\A t \in Pages :
         copy[t] # Closed /\ copy'[t] # Closed => Step(copy[t]) <= Step(copy'[t])]_vars

\* Pages closed before an answer, puts lost or out of order, buttons pressed
\* twice and suppliers without funds notwithstanding, a confirmed payment is
\* exchanged or recovered in the end.
MadeWhole == bitcoin = "locked" ~> Finalized \/ bitcoin = "recovered"

\* "If anything goes wrong with your swap you can recover your escrowed funds":
\* when the payment may be taken back and was not exchanged, a page that knows
\* the outcome of what it sent offers to.
Settled(t) ==
    /\ copy[t] # Closed
    /\ Step(copy[t]) >= 4
    /\ \A i \in DOMAIN escrows : escrows[i] # "pending"
    /\ \A i \in DOMAIN finals : finals[i] # "pending"

RecoverableWhenWrong ==
    \A t \in Pages :
        Settled(t) /\ phase = "expired" /\ bitcoin = "locked"
            => Finalized \/ OffersRecovery(t)
=============================================================================
