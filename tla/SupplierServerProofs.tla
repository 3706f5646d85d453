------------------------ MODULE SupplierServerProofs ------------------------
(***************************************************************************)
(* What the supplier server pays, for any number of swaps, crashes and       *)
(* faults: once, and early enough, and what it keeps on its list.           *)
(***************************************************************************)
EXTENDS SupplierServer, SequenceTheorems, TLAPS

Payments == {"missing", "mempool", "confirmed"}
Outcomes == {"none", "open", "finalized", "revoked"}
TxStatuses == {"pending", "success", "failed"}
SendStates == [at : {NoJob, "taken", "checked", "broadcast", "sent"}, blocks : Nat]

PaymentType ==
    /\ paid \in [Swaps -> Seq(Payments)] /\ wait \in [Swaps -> Nat]
    /\ sent \in [Swaps -> Nat]
    /\ sendJobs \in Seq(Swaps) /\ send \in SendStates

ChainType ==
    /\ log \in Seq(Events)
    /\ outcome \in [Swaps -> Outcomes] /\ age \in [Swaps -> Nat]
    /\ finTx \in [Swaps -> Seq(TxStatuses)]
    /\ finalized \in [Swaps -> Nat]
    /\ \A s \in Swaps : finalized[s] <= Len(finTx[s])
    /\ fin.at \in {NoJob, "should", "submitted"}
    /\ fin = [at |-> fin.at, key |-> fin.key]
    /\ fin.at # NoJob => fin.key[1] \in Swaps

\* The swap of the job under way
Current == Head(sendJobs)

\* Until a payment is stored the store says that there is none.
BusyInv ==
    /\ send.at # NoJob => sendJobs # <<>>
    /\ send.at \in {"checked", "broadcast"} => sent[Current] = 0
    /\ send.at \in {"broadcast", "sent"} => Len(paid[Current]) > 0
    /\ send.at = "sent" => sent[Current] = Len(paid[Current])

\* A payment is the one in the store, or the one about to be.
OnRecord(s) ==
    \A i \in Tracked(s) :
        \/ i = sent[s]
        \/ send.at = "broadcast" /\ s = Current /\ i = Len(paid[s])

\* What is on the list is in the store.
Listed(s) == \A i : <<s, i>> \in pending => sent[s] # 0

\* A finalization that succeeded completed its swap, and a swap is initiated once.
Settling(s) ==
    /\ outcome[s] # "none" => s \in Range(log)
    /\ \A i \in DOMAIN finTx[s] : finTx[s][i] = "success" => Completed(s)

\* Between the check of the age and the completion of what was paid no more
\* blocks pass than timeliness allows.
CheckedEarly ==
    send.at = "checked" =>
        /\ outcome[Current] # "revoked"
        /\ ~Completed(Current) => age[Current] < Cutoff + send.blocks
        /\ send.blocks <= SendWithin

PaidEarly(s) ==
    FollowedUp(s) # {} =>
        /\ outcome[s] # "revoked"
        /\ ~Completed(s) => /\ age[s] < Cutoff + SendWithin + wait[s]
                            /\ wait[s] <= SettleWithin

PayInv ==
    /\ PaymentType /\ BusyInv /\ CheckedEarly
    /\ \A s \in Swaps : OnRecord(s) /\ Listed(s) /\ PaidEarly(s)

ChainInv == ChainType /\ \A s \in Swaps : Settling(s)

Inv == PayInv /\ ChainInv

USE ServerAssumption, MarginAssumption

-----------------------------------------------------------------------------
(* The properties follow from the invariant. *)

LEMMA InvPaidOnce == Inv => PaidOnce
<1> SUFFICES ASSUME Inv, NEW s \in Swaps, NEW i \in Tracked(s), NEW j \in Tracked(s)
             PROVE  i = j
  BY DEF PaidOnce
<1>1. i > 0 /\ j > 0
  BY DEF Inv, PayInv, PaymentType, Tracked, Accepted
<1>2. send.at = "broadcast" /\ s = Current => sent[s] = 0
  BY DEF Inv, PayInv, BusyInv
<1> QED
  BY <1>1, <1>2 DEF Inv, PayInv, OnRecord

LEMMA InvNeverRevoked == Inv => PaidNeverRevoked
  BY DEF Inv, PayInv, PaidEarly, PaidNeverRevoked

-----------------------------------------------------------------------------
(* Steps that leave the payments alone *)

\* What the invariant says of payments depends on these.
payments == <<paid, wait, sent, pending, orphans, send, age>>

MayQueue ==
    sendJobs' = sendJobs \/ \E e \in Swaps : sendJobs' = Append(sendJobs, e)

SameFates ==
    \A s \in Swaps :
        /\ Completed(s)' <=> Completed(s)
        /\ outcome'[s] = "revoked" <=> outcome[s] = "revoked"

LEMMA CurrentSwap ==
  ASSUME PayInv, send.at # NoJob
  PROVE  Current \in Swaps
BY DEF PayInv, PaymentType, BusyInv, Current

LEMMA JobKept ==
  ASSUME PayInv, MayQueue
  PROVE  /\ sendJobs' \in Seq(Swaps)
         /\ send.at # NoJob => sendJobs' # <<>> /\ Current' = Current
<1>1. sendJobs \in Seq(Swaps) /\ (send.at # NoJob => sendJobs # <<>>)
  BY DEF PayInv, PaymentType, BusyInv
<1>2. CASE sendJobs' = sendJobs
  BY <1>1, <1>2 DEF Current
<1>3. ASSUME NEW e \in Swaps, sendJobs' = Append(sendJobs, e)
      PROVE  /\ sendJobs' \in Seq(Swaps)
             /\ sendJobs # <<>> => sendJobs' # <<>> /\ Current' = Current
  <2>1. Append(sendJobs, e) \in Seq(Swaps) /\ Append(sendJobs, e) # <<>>
    BY <1>1, AppendProperties
  <2>2. sendJobs # <<>> => Append(sendJobs, e)[1] = sendJobs[1]
    BY <1>1, AppendProperties
  <2> QED
    BY <1>3, <2>1, <2>2 DEF Current
<1> QED
  BY <1>1, <1>2, <1>3 DEF MayQueue

LEMMA PaymentsKept ==
  ASSUME PayInv, UNCHANGED payments, MayQueue, SameFates
  PROVE  PayInv'
<1>1. /\ sendJobs' \in Seq(Swaps)
      /\ send.at # NoJob => sendJobs' # <<>> /\ Current' = Current
  BY JobKept
<1>2. PaymentType'
  BY <1>1 DEF payments, PayInv, PaymentType
<1>3. BusyInv'
  BY <1>1 DEF payments, PayInv, BusyInv, NoJob
<1>4. CheckedEarly'
  BY <1>1, CurrentSwap DEF payments, PayInv, CheckedEarly, SameFates, NoJob
<1>5. \A s \in Swaps : Tracked(s)' = Tracked(s)
  BY DEF payments, Tracked, Accepted
<1>6. \A s \in Swaps : FollowedUp(s)' = FollowedUp(s)
  BY <1>1 DEF payments, FollowedUp, Accepted, UnderWay, Current, NoJob
<1>7. ASSUME NEW s \in Swaps
      PROVE  OnRecord(s)' /\ Listed(s)' /\ PaidEarly(s)'
  <2>1. OnRecord(s)'
    BY <1>1, <1>5 DEF payments, PayInv, OnRecord, NoJob
  <2>2. Listed(s)'
    BY DEF payments, PayInv, Listed
  <2>3. PaidEarly(s)'
    BY <1>6 DEF payments, PayInv, PaidEarly, SameFates
  <2> QED
    BY <2>1, <2>2, <2>3
<1> QED
  BY <1>2, <1>3, <1>4, <1>7 DEF PayInv

LEMMA ChainKept ==
  ASSUME ChainInv, UNCHANGED <<log, outcome, age, finTx, finalized>>,
         \/ fin' = fin \/ fin' = FinIdle
         \/ \E s \in Swaps : \E i : fin' = [at |-> "should", key |-> <<s, i>>]
  PROVE  ChainInv'
<1>1. ChainType'
  BY DEF ChainInv, ChainType, FinIdle, NoJob
<1>2. ASSUME NEW s \in Swaps
      PROVE  Settling(s)'
  BY DEF ChainInv, Settling, Completed
<1> QED
  BY <1>1, <1>2 DEF ChainInv

\* Steps of the jobs that move no money, and of what happens to redemptions
LEMMA ElsewhereInv ==
  ASSUME Inv,
         UNCHANGED <<payments, log, outcome, finTx, finalized, fin>>, MayQueue
  PROVE  Inv'
<1>1. SameFates
  BY DEF SameFates, Completed
<1> QED
  BY <1>1, PaymentsKept, ChainKept DEF Inv, payments

\* Steps of the chain and of the finalizations that complete nothing
LEMMA ProgressInv ==
  ASSUME Inv, UNCHANGED <<payments, sendJobs, outcome>>, ChainInv'
  PROVE  Inv'
<1>1. SameFates /\ MayQueue
  BY DEF SameFates, Completed, MayQueue
<1> QED
  BY <1>1, PaymentsKept DEF Inv, payments

LEMMA FinTxInv ==
  ASSUME Inv, NEW s \in Swaps, NEW i \in DOMAIN finTx[s],
         UNCHANGED <<payments, sendJobs, log, outcome, finalized, fin>>,
         finTx' = [finTx EXCEPT ![s][i] = "failed"]
  PROVE  Inv'
<1>1. \A t \in Swaps : finTx[t] \in Seq(TxStatuses)
  BY DEF Inv, ChainInv, ChainType
<1>2. /\ finTx' \in [Swaps -> Seq(TxStatuses)]
      /\ \A t \in Swaps : Len(finTx'[t]) = Len(finTx[t])
  BY <1>1 DEF Inv, ChainInv, ChainType, TxStatuses
<1>3. ASSUME NEW t \in Swaps, NEW j \in DOMAIN finTx'[t], finTx'[t][j] = "success"
      PROVE  j \in DOMAIN finTx[t] /\ finTx[t][j] = "success"
  BY <1>1, <1>3 DEF Inv, ChainInv, ChainType
<1>4. ChainType'
  BY <1>2 DEF Inv, ChainInv, ChainType, payments
<1>5. ASSUME NEW t \in Swaps
      PROVE  Settling(t)'
  BY <1>3 DEF Inv, ChainInv, Settling, Completed
<1> QED
  BY <1>4, <1>5, ProgressInv DEF ChainInv

LEMMA SubmitInv ==
  ASSUME Inv, SubmitFinalize
  PROVE  Inv'
<1> DEFINE s == fin.key[1]
<1>0. s \in Swaps
  BY DEF Inv, ChainInv, ChainType, SubmitFinalize, NoJob
<1>1. /\ finTx' = [finTx EXCEPT ![s] = Append(@, "pending")]
      /\ fin' = [fin EXCEPT !.at = "submitted"]
      /\ UNCHANGED <<payments, sendJobs, log, outcome, finalized>>
  BY DEF SubmitFinalize, payments, bitcoin, store, queues, history
<1> HIDE DEF s
<1>2. \A t \in Swaps : finTx[t] \in Seq(TxStatuses)
  BY DEF Inv, ChainInv, ChainType
<1>3. /\ finTx' \in [Swaps -> Seq(TxStatuses)]
      /\ \A t \in Swaps : Len(finTx[t]) <= Len(finTx'[t])
  BY <1>0, <1>1, <1>2 DEF Inv, ChainInv, ChainType, TxStatuses
<1>4. ASSUME NEW t \in Swaps, NEW j \in DOMAIN finTx'[t], finTx'[t][j] = "success"
      PROVE  j \in DOMAIN finTx[t] /\ finTx[t][j] = "success"
  <2>1. CASE t = s
    <3>1. finTx'[t] = Append(finTx[t], "pending")
      BY <1>0, <1>1, <2>1 DEF Inv, ChainInv, ChainType
    <3>2. /\ DOMAIN finTx'[t] = 1 .. Len(finTx[t]) + 1
          /\ finTx'[t][Len(finTx[t]) + 1] = "pending"
          /\ \A l \in 1 .. Len(finTx[t]) : finTx'[t][l] = finTx[t][l]
      BY <1>2, <3>1, AppendProperties
    <3>3. DOMAIN finTx[t] = 1 .. Len(finTx[t]) /\ Len(finTx[t]) \in Nat
      BY <1>2
    <3> QED
      BY <1>4, <3>2, <3>3
  <2>2. CASE t # s
    BY <1>1, <1>4, <2>2 DEF Inv, ChainInv, ChainType
  <2> QED
    BY <2>1, <2>2
<1>5. ChainType'
  <2>1. /\ fin'.at = "submitted" /\ fin'.key = fin.key
        /\ fin' = [at |-> fin'.at, key |-> fin'.key]
    BY <1>1 DEF Inv, ChainInv, ChainType
  <2>2. \A t \in Swaps : finalized'[t] <= Len(finTx'[t])
    BY <1>1, <1>2, <1>3 DEF Inv, ChainInv, ChainType
  <2> QED
    BY <1>0, <1>1, <1>3, <2>1, <2>2 DEF Inv, ChainInv, ChainType, payments, s
<1>6. ASSUME NEW t \in Swaps
      PROVE  Settling(t)'
  BY <1>1, <1>4 DEF Inv, ChainInv, Settling, Completed
<1> QED
  BY <1>1, <1>5, <1>6, ProgressInv DEF ChainInv

LEMMA SetFinalizedInv ==
  ASSUME Inv, SetFinalizedOutbound
  PROVE  Inv'
<1> DEFINE s == fin.key[1]
<1>0. s \in Swaps
  BY DEF Inv, ChainInv, ChainType, SetFinalizedOutbound, NoJob
<1>1. /\ finalized' = [finalized EXCEPT ![s] = Len(finTx[s])]
      /\ fin' = FinIdle
      /\ UNCHANGED <<payments, sendJobs, log, outcome, finTx>>
  BY DEF SetFinalizedOutbound, payments, stacks, bitcoin, queues, history
<1> HIDE DEF s
<1>2. ChainType'
  BY <1>0, <1>1 DEF Inv, ChainInv, ChainType, FinIdle, NoJob, payments
<1>3. ASSUME NEW t \in Swaps
      PROVE  Settling(t)'
  BY <1>1 DEF Inv, ChainInv, Settling, Completed
<1> QED
  BY <1>1, <1>2, <1>3, ProgressInv DEF ChainInv

-----------------------------------------------------------------------------
(* Steps that change the fate or the age of swaps *)

LEMMA EmitLog ==
  ASSUME ChainInv, NEW e \in Events, Emit(e)
  PROVE  log' \in Seq(Events) /\ Range(log) \subseteq Range(log') /\ e \in Range(log')
<1>1. log \in Seq(Events) /\ log' = Append(log, e)
  BY DEF ChainInv, ChainType, Emit
<1>2. /\ log' \in Seq(Events) /\ DOMAIN log' = 1 .. Len(log) + 1
      /\ log'[Len(log) + 1] = e
      /\ \A i \in 1 .. Len(log) : log'[i] = log[i]
  BY <1>1, AppendProperties
<1>3. DOMAIN log = 1 .. Len(log) /\ Len(log) \in Nat
  BY <1>1
<1> QED
  BY <1>2, <1>3 DEF Range

LEMMA FinalizeInboundInv ==
  ASSUME Inv, NEW h \in Htlcs, FinalizeInbound(h)
  PROVE  Inv'
<1>1. log' \in Seq(Events) /\ Range(log) \subseteq Range(log')
  BY EmitLog DEF Inv, FinalizeInbound, Events
<1>2. UNCHANGED <<payments, sendJobs, outcome, finTx, finalized, fin>>
  BY DEF FinalizeInbound, payments, bitcoin, store, queues, history
<1>3. ChainType'
  BY <1>1, <1>2 DEF Inv, ChainInv, ChainType, payments
<1>4. ASSUME NEW s \in Swaps
      PROVE  Settling(s)'
  BY <1>1, <1>2 DEF Inv, ChainInv, Settling, Completed
<1> QED
  BY <1>2, <1>3, <1>4, ProgressInv DEF ChainInv

LEMMA InitiateInv ==
  ASSUME Inv, NEW s \in Swaps, InitiateOutbound(s)
  PROVE  Inv'
<1>1. /\ log' \in Seq(Events) /\ Range(log) \subseteq Range(log')
      /\ s \in Range(log')
  BY EmitLog DEF Inv, InitiateOutbound, Events
<1>2. /\ outcome' = [outcome EXCEPT ![s] = "open"]
      /\ UNCHANGED <<payments, sendJobs, finTx, finalized, fin>>
  BY DEF InitiateOutbound, payments, bitcoin, store, queues, history
<1>3. outcome[s] = "none"
  BY DEF Inv, ChainInv, Settling, InitiateOutbound, Emit
<1>4. ChainType'
  BY <1>1, <1>2 DEF Inv, ChainInv, ChainType, payments, Outcomes
<1>5. SameFates /\ MayQueue
  BY <1>2, <1>3 DEF Inv, ChainInv, ChainType, SameFates, MayQueue, Completed
<1>6. ASSUME NEW t \in Swaps
      PROVE  Settling(t)'
  BY <1>1, <1>2, <1>5 DEF Inv, ChainInv, ChainType, Settling, SameFates
<1> QED
  BY <1>2, <1>4, <1>5, <1>6, PaymentsKept DEF Inv, ChainInv

\* Within the time the cutoff leaves, what is checked or paid is not revoked.
LEMMA NotYetRevocable ==
  ASSUME Inv, NEW s \in Swaps, OpenSwap(s), age[s] >= Expiration
  PROVE  FollowedUp(s) = {} /\ ~(send.at = "checked" /\ s = Current)
<1>1. ~Completed(s) /\ age[s] \in Nat /\ wait[s] \in Nat /\ send.blocks \in Nat
  BY DEF OpenSwap, Completed, Inv, PayInv, PaymentType, ChainInv, ChainType,
         SendStates
<1>2. FollowedUp(s) = {}
  <2> SUFFICES ASSUME FollowedUp(s) # {} PROVE FALSE
    OBVIOUS
  <2>1. age[s] < Cutoff + SendWithin + wait[s] /\ wait[s] <= SettleWithin
    BY <1>1 DEF Inv, PayInv, PaidEarly
  <2> QED
    BY <1>1, <2>1
<1>3. ~(send.at = "checked" /\ s = Current)
  <2> SUFFICES ASSUME send.at = "checked", s = Current PROVE FALSE
    OBVIOUS
  <2>1. age[s] < Cutoff + send.blocks /\ send.blocks <= SendWithin
    BY <1>1 DEF Inv, PayInv, CheckedEarly
  <2> QED
    BY <1>1, <2>1
<1> QED
  BY <1>2, <1>3

LEMMA CompletePay ==
  ASSUME Inv, NEW s \in Swaps, OpenSwap(s), NEW how \in {"finalized", "revoked"},
         Complete(s, how), UNCHANGED <<paid, sent, pending, orphans, send, sendJobs>>,
         how = "revoked" => FollowedUp(s) = {} /\ ~(send.at = "checked" /\ s = Current)
  PROVE  PayInv'
<1>1. /\ outcome' = [outcome EXCEPT ![s] = how]
      /\ age' = [age EXCEPT ![s] = 0] /\ wait' = [wait EXCEPT ![s] = 0]
  BY DEF Complete
<1>2. /\ \A t \in Swaps : /\ Tracked(t)' = Tracked(t)
                          /\ FollowedUp(t)' = FollowedUp(t)
      /\ Current' = Current
  BY DEF Tracked, FollowedUp, Accepted, UnderWay, Current
<1>3. /\ outcome'[s] = how
      /\ \A t \in Swaps \ {s} : /\ outcome'[t] = outcome[t]
                                /\ age'[t] = age[t] /\ wait'[t] = wait[t]
  BY <1>1 DEF Inv, PayInv, PaymentType, ChainInv, ChainType
<1>4. PaymentType'
  BY <1>1 DEF Inv, PayInv, PaymentType
<1>5. BusyInv'
  BY <1>2 DEF Inv, PayInv, BusyInv
<1>6. CheckedEarly'
  BY <1>2, <1>3, CurrentSwap DEF Inv, PayInv, CheckedEarly, Completed, NoJob
<1>7. ASSUME NEW t \in Swaps
      PROVE  OnRecord(t)' /\ Listed(t)' /\ PaidEarly(t)'
  <2>1. OnRecord(t)'
    BY <1>2 DEF Inv, PayInv, OnRecord
  <2>2. Listed(t)'
    BY DEF Inv, PayInv, Listed
  <2>3. PaidEarly(t)'
    BY <1>2, <1>3 DEF Inv, PayInv, PaidEarly, Completed
  <2> QED
    BY <2>1, <2>2, <2>3
<1> QED
  BY <1>4, <1>5, <1>6, <1>7 DEF PayInv

LEMMA RevokeInv ==
  ASSUME Inv, NEW s \in Swaps, RevokeOutbound(s)
  PROVE  Inv'
<1>1. /\ OpenSwap(s) /\ Complete(s, "revoked")
      /\ UNCHANGED <<paid, sent, pending, orphans, send, sendJobs>>
      /\ UNCHANGED <<log, finTx, finalized, fin>>
  BY DEF RevokeOutbound, store, queues, history
<1>2. PayInv'
  BY <1>1, NotYetRevocable, CompletePay DEF RevokeOutbound
<1>3. ChainType'
  BY <1>1 DEF Inv, ChainInv, ChainType, Complete, Outcomes
<1>4. ASSUME NEW t \in Swaps
      PROVE  Settling(t)'
  BY <1>1 DEF Inv, ChainInv, ChainType, Settling, Complete, Completed, OpenSwap
<1> QED
  BY <1>2, <1>3, <1>4 DEF Inv, ChainInv

LEMMA MineInv ==
  ASSUME Inv, NEW s \in Swaps, NEW i, MineFinalize(s, i)
  PROVE  Inv'
<1>1. CASE ~OpenSwap(s)
  <2>1. /\ i \in DOMAIN finTx[s] /\ finTx' = [finTx EXCEPT ![s][i] = "failed"]
        /\ UNCHANGED <<payments, sendJobs, log, outcome, finalized, fin>>
    BY <1>1 DEF MineFinalize, payments, store, queues, history
  <2> QED
    BY <2>1, FinTxInv
<1>2. CASE OpenSwap(s)
  <2>1. /\ Complete(s, "finalized") /\ i \in DOMAIN finTx[s]
        /\ finTx' = [finTx EXCEPT ![s][i] = "success"]
        /\ UNCHANGED <<paid, sent, pending, orphans, send, sendJobs>>
        /\ UNCHANGED <<log, finalized, fin>>
    BY <1>2 DEF MineFinalize, store, queues, history
  <2>2. PayInv'
    BY <1>2, <2>1, CompletePay
  <2>3. \A t \in Swaps : finTx[t] \in Seq(TxStatuses)
    BY DEF Inv, ChainInv, ChainType
  <2>4. /\ finTx' \in [Swaps -> Seq(TxStatuses)]
        /\ \A t \in Swaps : Len(finTx'[t]) = Len(finTx[t])
    BY <2>1, <2>3 DEF Inv, ChainInv, ChainType, TxStatuses
  <2>5. ChainType'
    BY <2>1, <2>4 DEF Inv, ChainInv, ChainType, Complete, Outcomes
  <2>6. ASSUME NEW t \in Swaps
        PROVE  Settling(t)'
    BY <1>2, <2>1 DEF Inv, ChainInv, ChainType, Settling, Complete, Completed, OpenSwap
  <2> QED
    BY <2>2, <2>5, <2>6 DEF Inv, ChainInv
<1> QED
  BY <1>1, <1>2

LEMMA TickInv ==
  ASSUME Inv, Tick
  PROVE  Inv'
<1>0. /\ age \in [Swaps -> Nat] /\ wait \in [Swaps -> Nat] /\ send \in SendStates
      /\ outcome' = outcome
  BY DEF Tick, Inv, PayInv, PaymentType, ChainInv, ChainType
<1>1. /\ age' = [s \in Swaps |-> IF Ages(s) THEN age[s] + 1 ELSE age[s]]
      /\ wait' = [s \in Swaps |->
            IF OpenSwap(s) /\ FollowedUp(s) # {} THEN wait[s] + 1 ELSE wait[s]]
  BY DEF Tick
<1>2. /\ age' \in [Swaps -> Nat] /\ wait' \in [Swaps -> Nat]
      /\ send' \in SendStates /\ send'.at = send.at
  <2>1. age' \in [Swaps -> Nat]
    BY <1>0, <1>1
  <2>2. wait' \in [Swaps -> Nat]
    BY <1>0, <1>1
  <2>3. send' \in SendStates /\ send'.at = send.at
    BY <1>0 DEF Tick, SendStates
  <2> QED
    BY <2>1, <2>2, <2>3
<1>3. send.at = "checked" => /\ send.blocks < SendWithin
                             /\ send'.blocks = send.blocks + 1
  BY <1>0 DEF Tick, SendStates
<1>4. UNCHANGED <<paid, sent, pending, orphans, sendJobs, log, outcome, finTx,
                  finalized, fin>>
  BY DEF Tick, store, queues, history
<1>5. /\ \A t \in Swaps : /\ Tracked(t)' = Tracked(t)
                          /\ FollowedUp(t)' = FollowedUp(t)
      /\ Current' = Current
  BY <1>2, <1>4 DEF Tracked, FollowedUp, Accepted, UnderWay, Current
<1>6. PaymentType' /\ BusyInv'
  BY <1>2, <1>4, <1>5 DEF Inv, PayInv, PaymentType, BusyInv
<1>7. CheckedEarly'
  <2> SUFFICES ASSUME send.at = "checked"
               PROVE  /\ outcome[Current] # "revoked"
                      /\ ~Completed(Current) =>
                            age'[Current] < Cutoff + send'.blocks
                      /\ send'.blocks <= SendWithin
    BY <1>2, <1>4, <1>5 DEF CheckedEarly, Completed
  <2>1. Current \in Swaps
    BY CurrentSwap DEF Inv, NoJob
  <2>2. age'[Current] <= age[Current] + 1 /\ age[Current] \in Nat
    BY <1>0, <1>1, <2>1
  <2> QED
    BY <1>0, <1>2, <1>3, <2>1, <2>2 DEF Inv, PayInv, CheckedEarly, SendStates
<1>8. ASSUME NEW t \in Swaps
      PROVE  OnRecord(t)' /\ Listed(t)' /\ PaidEarly(t)'
  <2>1. OnRecord(t)'
    BY <1>2, <1>4, <1>5 DEF Inv, PayInv, OnRecord
  <2>2. Listed(t)'
    BY <1>4 DEF Inv, PayInv, Listed
  <2>3. PaidEarly(t)'
    <3> SUFFICES ASSUME FollowedUp(t) # {}
                 PROVE  /\ outcome[t] # "revoked"
                        /\ ~Completed(t) =>
                              /\ age'[t] < Cutoff + SendWithin + wait'[t]
                              /\ wait'[t] <= SettleWithin
      BY <1>4, <1>5 DEF PaidEarly, Completed
    <3>1. PaidEarly(t)
      BY DEF Inv, PayInv
    <3>2. CASE OpenSwap(t)
      <4>1. wait[t] < SettleWithin
        BY <3>2 DEF Tick
      <4>2. wait'[t] = wait[t] + 1 /\ age'[t] <= age[t] + 1
        BY <1>0, <1>1, <3>2
      <4> QED
        BY <1>0, <1>2, <3>1, <3>2, <4>1, <4>2 DEF PaidEarly, OpenSwap, Completed
    <3>3. CASE ~OpenSwap(t)
      <4>1. wait'[t] = wait[t] /\ age'[t] = age[t]
        BY <1>0, <1>1, <3>3 DEF Ages
      <4> QED
        BY <3>1, <4>1 DEF PaidEarly
    <3> QED
      BY <3>2, <3>3
  <2> QED
    BY <2>1, <2>2, <2>3
<1>9. ChainInv'
  <2>1. ChainType'
    BY <1>2, <1>4 DEF Inv, ChainInv, ChainType
  <2>2. ASSUME NEW t \in Swaps
        PROVE  Settling(t)'
    BY <1>4 DEF Inv, ChainInv, Settling, Completed
  <2> QED
    BY <2>1, <2>2 DEF ChainInv
<1> QED
  BY <1>6, <1>7, <1>8, <1>9 DEF Inv, PayInv

-----------------------------------------------------------------------------
(* Steps of the job that pays *)

\* The job ends: what was under way is on record, or lost.
LEMMA EndPay ==
  ASSUME PayInv, PaymentType', send'.at = NoJob, UNCHANGED <<sent, age, outcome>>,
         \A s \in Swaps :
             /\ Listed(s)'
             /\ \A i \in Tracked(s)' : i \in Tracked(s) /\ <<s, i>> \notin Unrecorded
             /\ FollowedUp(s)' # {} => FollowedUp(s) # {} /\ wait'[s] = wait[s]
  PROVE  PayInv'
<1>1. BusyInv' /\ CheckedEarly'
  BY DEF BusyInv, CheckedEarly, NoJob
<1>2. ASSUME NEW s \in Swaps
      PROVE  OnRecord(s)' /\ Listed(s)' /\ PaidEarly(s)'
  <2>1. ASSUME NEW i \in Tracked(s)'
        PROVE  i = sent'[s]
    <3>1. i \in Tracked(s) /\ OnRecord(s) /\ <<s, i>> \notin Unrecorded
      BY <2>1 DEF PayInv
    <3>2. send.at = "broadcast" /\ s = Current /\ i = Len(paid[s])
            => <<s, i>> \in Unrecorded
      BY DEF Unrecorded, UnderWay, Current
    <3> QED
      BY <3>1, <3>2 DEF OnRecord
  <2>2. OnRecord(s)'
    BY <2>1 DEF OnRecord
  <2>3. PaidEarly(s)'
    BY DEF PayInv, PaidEarly, Completed
  <2> QED
    BY <2>2, <2>3
<1> QED
  BY <1>1, <1>2 DEF PayInv

LEMMA EndSendType ==
  ASSUME PayInv, sendJobs # <<>>, EndSend
  PROVE  sendJobs' \in Seq(Swaps) /\ send' \in SendStates /\ send'.at = NoJob
BY DEF PayInv, PaymentType, EndSend, SendStates

\* What the store does not say was paid was not, but by a job under way.
LEMMA CheckedUntracked ==
  ASSUME PayInv, send.at = "checked"
  PROVE  Tracked(Current) = {}
<1>1. Current \in Swaps /\ sent[Current] = 0
  BY CurrentSwap DEF PayInv, BusyInv, NoJob
<1>2. \A i \in Tracked(Current) : i > 0 /\ i = sent[Current]
  BY <1>1 DEF PayInv, PaymentType, OnRecord, Tracked, Accepted
<1> QED
  BY <1>1, <1>2

LEMMA ConfirmInv ==
  ASSUME Inv, NEW s \in Swaps, NEW i, ConfirmPayment(s, i)
  PROVE  Inv'
<1>1. /\ i \in DOMAIN paid[s] /\ paid[s][i] = "mempool"
      /\ paid' = [paid EXCEPT ![s][i] = "confirmed"]
      /\ UNCHANGED <<wait, sent, pending, orphans, send, age, outcome, sendJobs,
                     log, finTx, finalized, fin>>
  BY DEF ConfirmPayment, stacks, store, queues, handlers, history
<1>2. \A t \in Swaps : paid[t] \in Seq(Payments)
  BY DEF Inv, PayInv, PaymentType
<1>3. /\ paid' \in [Swaps -> Seq(Payments)]
      /\ \A t \in Swaps : /\ Len(paid'[t]) = Len(paid[t])
                          /\ DOMAIN paid'[t] = DOMAIN paid[t]
  BY <1>1, <1>2 DEF Inv, PayInv, PaymentType, Payments
<1>4. \A t \in Swaps : \A j \in DOMAIN paid[t] :
         paid'[t][j] # "missing" <=> paid[t][j] # "missing"
  BY <1>1, <1>2 DEF Inv, PayInv, PaymentType
<1>5. \A t \in Swaps : Accepted(t)' = Accepted(t) /\ Tracked(t)' = Tracked(t)
  BY <1>1, <1>3, <1>4 DEF Tracked, Accepted
<1>6. PaymentType' /\ BusyInv' /\ CheckedEarly'
  <2>1. PaymentType' /\ CheckedEarly'
    BY <1>1, <1>3 DEF Inv, PayInv, PaymentType, CheckedEarly, Current, Completed
  <2>2. send.at \in {"broadcast", "sent"} =>
            Len(paid'[Current]) = Len(paid[Current])
    BY <1>3, CurrentSwap DEF Inv, NoJob
  <2>3. BusyInv'
    BY <1>1, <2>2 DEF Inv, PayInv, BusyInv, Current
  <2> QED
    BY <2>1, <2>3
<1>7. ASSUME NEW t \in Swaps
      PROVE  OnRecord(t)' /\ Listed(t)' /\ PaidEarly(t)'
  <2>1. OnRecord(t)'
    BY <1>1, <1>3, <1>5 DEF Inv, PayInv, OnRecord, Current
  <2>2. UnderWay' = UnderWay
    <3>1. send.at \in {"broadcast", "sent"} => Len(paid'[Current]) = Len(paid[Current])
      BY <1>3, CurrentSwap DEF Inv, NoJob
    <3> QED
      BY <1>1, <3>1 DEF UnderWay, Current
  <2>3. Listed(t)'
    BY <1>1 DEF Inv, PayInv, Listed
  <2>4. PaidEarly(t)'
    <3>1. FollowedUp(t)' = FollowedUp(t)
      BY <1>1, <1>5, <2>2 DEF FollowedUp
    <3> QED
      BY <1>1, <3>1 DEF Inv, PayInv, PaidEarly, Completed
  <2> QED
    BY <2>1, <2>3, <2>4
<1>8. ChainInv'
  BY <1>1, ChainKept DEF Inv
<1> QED
  BY <1>6, <1>7, <1>8 DEF Inv, PayInv

\* The job is taken up, or found to be one that should be paid.
LEMMA TakeInv ==
  ASSUME Inv, sendJobs # <<>>, send.at \in {NoJob, "taken"},
         send' = [at |-> send'.at, blocks |-> 0], send'.at \in {"taken", "checked"},
         send'.at = "checked" =>
             sent[Current] = 0 /\ ~Completed(Current) /\ age[Current] < Cutoff,
         UNCHANGED <<paid, wait, sent, pending, orphans, age, outcome, sendJobs,
                     log, finTx, finalized, fin>>
  PROVE  Inv'
<1>1. PaymentType'
  <2>1. PICK at \in {"taken", "checked"} : at = send'.at
    OBVIOUS
  <2>2. send' = [at |-> at, blocks |-> 0]
    BY <2>1
  <2>3. send' \in SendStates
    BY <2>2 DEF SendStates
  <2> QED
    BY <2>3 DEF Inv, PayInv, PaymentType
<1>2. Current' = Current /\ sendJobs' # <<>> /\ send'.blocks = 0
  BY DEF Current
<1>3. BusyInv' /\ CheckedEarly'
  <2>1. send'.at = "checked" => outcome[Current] # "revoked"
    BY DEF Completed
  <2>2. age[Current] < Cutoff => age[Current] < Cutoff + 0 /\ 0 <= SendWithin
    OBVIOUS
  <2> QED
    BY <1>2, <2>1, <2>2 DEF BusyInv, CheckedEarly
<1>4. ASSUME NEW t \in Swaps
      PROVE  OnRecord(t)' /\ Listed(t)' /\ PaidEarly(t)'
  <2>1. Tracked(t)' = Tracked(t)
    BY DEF Tracked, Accepted
  <2>2. FollowedUp(t)' = FollowedUp(t)
    BY DEF FollowedUp, Accepted, UnderWay, NoJob
  <2>3. OnRecord(t)' /\ Listed(t)'
    BY <2>1 DEF Inv, PayInv, OnRecord, Listed, NoJob
  <2>4. PaidEarly(t)'
    BY <2>2 DEF Inv, PayInv, PaidEarly, Completed
  <2> QED
    BY <2>3, <2>4
<1> QED
  BY <1>1, <1>3, <1>4, ChainKept DEF Inv, PayInv

LEMMA CheckInv ==
  ASSUME Inv, CheckOutbound
  PROVE  Inv'
<1>1. /\ send.at = "taken" /\ sendJobs # <<>>
      /\ UNCHANGED <<paid, wait, sent, pending, orphans, age, outcome,
                     log, finTx, finalized, fin>>
  BY DEF CheckOutbound, stacks, bitcoin, store, history, Inv, PayInv, BusyInv, NoJob
<1>2. CASE ShouldSend(Head(sendJobs))
  <2>1. send' = [at |-> "checked", blocks |-> 0] /\ sendJobs' = sendJobs
    BY <1>2 DEF CheckOutbound
  <2>2. sent[Current] = 0 /\ ~Completed(Current) /\ age[Current] < Cutoff
    BY <1>2 DEF ShouldSend, Current
  <2> QED
    BY <1>1, <2>1, <2>2, TakeInv
<1>3. CASE ~ShouldSend(Head(sendJobs))
  <2>1. EndSend
    BY <1>3 DEF CheckOutbound
  <2>2. PaymentType' /\ send'.at = NoJob
    BY <1>1, <2>1, EndSendType DEF Inv, PayInv, PaymentType
  <2>3. ASSUME NEW t \in Swaps
        PROVE  /\ Tracked(t)' = Tracked(t) /\ FollowedUp(t)' = FollowedUp(t)
               /\ Listed(t)'
    BY <1>1, <2>2 DEF Tracked, FollowedUp, Accepted, UnderWay, NoJob, Inv, PayInv,
                      Listed
  <2>4. Unrecorded = {}
    BY <1>1 DEF Unrecorded
  <2>5. PayInv'
    BY <1>1, <2>2, <2>3, <2>4, EndPay DEF Inv
  <2> QED
    BY <1>1, <2>5, ChainKept DEF Inv
<1> QED
  BY <1>2, <1>3

LEMMA PayTracked ==
  ASSUME PayInv, NEW s \in Swaps, NEW status \in Payments, Pay(s, status)
  PROVE  /\ paid' \in [Swaps -> Seq(Payments)] /\ wait' \in [Swaps -> Nat]
         /\ Len(paid'[s]) = Len(paid[s]) + 1 /\ wait'[s] = 0
         /\ \A t \in Swaps \ {s} : paid'[t] = paid[t] /\ wait'[t] = wait[t]
         /\ Accepted(s)' \subseteq Accepted(s) \cup {Len(paid[s]) + 1}
<1>1. paid[s] \in Seq(Payments)
  BY DEF PayInv, PaymentType
<1>2. /\ paid' = [paid EXCEPT ![s] = Append(paid[s], status)]
      /\ wait' = [wait EXCEPT ![s] = 0]
  BY DEF Pay
<1>3. /\ paid' \in [Swaps -> Seq(Payments)] /\ wait' \in [Swaps -> Nat]
      /\ paid'[s] = Append(paid[s], status) /\ wait'[s] = 0
      /\ \A t \in Swaps \ {s} : paid'[t] = paid[t] /\ wait'[t] = wait[t]
  BY <1>1, <1>2 DEF PayInv, PaymentType
<1>4. /\ Len(paid'[s]) = Len(paid[s]) + 1
      /\ DOMAIN paid'[s] = 1 .. Len(paid[s]) + 1
      /\ \A i \in 1 .. Len(paid[s]) : paid'[s][i] = paid[s][i]
  BY <1>1, <1>3, AppendProperties
<1>5. DOMAIN paid[s] = 1 .. Len(paid[s]) /\ Len(paid[s]) \in Nat
  BY <1>1
<1>6. \A i \in DOMAIN paid'[s] :
          paid'[s][i] # "missing" =>
              i = Len(paid[s]) + 1 \/ (i \in DOMAIN paid[s] /\ paid[s][i] # "missing")
  BY <1>4, <1>5
<1> QED
  BY <1>3, <1>4, <1>6 DEF Accepted

\* SendBtc and SendMissing: the first payment of a swap, now under way
LEMMA SendInv ==
  ASSUME Inv, send.at = "checked", NEW status \in Payments,
         Pay(Head(sendJobs), status), send' = [at |-> "broadcast", blocks |-> 0],
         UNCHANGED <<sent, pending, orphans, age, outcome, sendJobs,
                     log, finTx, finalized, fin>>
  PROVE  Inv'
<1>1. PICK s \in Swaps : s = Current
  BY CurrentSwap DEF Inv, NoJob
<1>2. /\ paid' \in [Swaps -> Seq(Payments)] /\ wait' \in [Swaps -> Nat]
      /\ Len(paid'[s]) = Len(paid[s]) + 1 /\ wait'[s] = 0
      /\ \A t \in Swaps \ {s} : paid'[t] = paid[t] /\ wait'[t] = wait[t]
      /\ Accepted(s)' \subseteq Accepted(s) \cup {Len(paid[s]) + 1}
  BY <1>1, PayTracked DEF Inv, Current
<1>3. /\ Tracked(s)' \subseteq {Len(paid'[s])}
      /\ \A t \in Swaps \ {s} : Tracked(t)' = Tracked(t)
  <2>1. Tracked(s)' \subseteq {Len(paid'[s])}
    BY <1>1, <1>2, CheckedUntracked DEF Inv, Tracked
  <2>2. \A t \in Swaps \ {s} : Tracked(t)' = Tracked(t)
    BY <1>2 DEF Tracked, Accepted
  <2> QED
    BY <2>1, <2>2
<1>4. /\ Current' = s /\ sendJobs' # <<>> /\ sendJobs' \in Seq(Swaps)
      /\ send'.at = "broadcast" /\ sent[s] = 0
      /\ UnderWay' = {<<s, Len(paid'[s])>>} /\ UnderWay = {}
  BY <1>1 DEF Inv, PayInv, PaymentType, BusyInv, Current, UnderWay, NoJob
<1>5. PaymentType' /\ BusyInv' /\ CheckedEarly'
  <2>1. Len(paid'[s]) > 0
    BY <1>2 DEF Inv, PayInv, PaymentType
  <2> QED
    BY <1>2, <1>4, <2>1 DEF Inv, PayInv, PaymentType, SendStates, BusyInv, CheckedEarly
<1>6. OnRecord(s)' /\ Listed(s)' /\ PaidEarly(s)'
  <2>1. OnRecord(s)' /\ Listed(s)'
    BY <1>3, <1>4 DEF OnRecord, Listed, Inv, PayInv
  <2>2. /\ outcome[s] # "revoked" /\ age[s] \in Nat /\ send.blocks \in Nat
        /\ ~Completed(s) => age[s] < Cutoff + send.blocks
        /\ send.blocks <= SendWithin
    BY <1>1 DEF Inv, PayInv, PaymentType, ChainInv, ChainType, CheckedEarly, SendStates
  <2>3. ~Completed(s) => age[s] < Cutoff + SendWithin + 0
    BY <2>2
  <2>4. PaidEarly(s)'
    BY <1>2, <2>2, <2>3 DEF PaidEarly, Completed
  <2> QED
    BY <2>1, <2>4
<1>7. ASSUME NEW t \in Swaps \ {s}
      PROVE  OnRecord(t)' /\ Listed(t)' /\ PaidEarly(t)'
  <2>1. OnRecord(t)'
    BY <1>3, <1>4 DEF Inv, PayInv, OnRecord
  <2>2. Listed(t)'
    BY DEF Inv, PayInv, Listed
  <2>3. PaidEarly(t)'
    <3>1. FollowedUp(t)' = FollowedUp(t)
      BY <1>2, <1>4 DEF FollowedUp, Accepted
    <3> QED
      BY <1>2, <3>1 DEF Inv, PayInv, PaidEarly, Completed
  <2> QED
    BY <2>1, <2>2, <2>3
<1>8. ChainInv'
  BY ChainKept DEF Inv
<1> QED
  BY <1>5, <1>6, <1>7, <1>8 DEF Inv, PayInv

LEMMA AnswerLostInv ==
  ASSUME Inv, SendAnswerLost
  PROVE  Inv'
<1>0. /\ send.at = "checked" /\ Pay(Head(sendJobs), "mempool") /\ EndSend
      /\ orphans' = orphans \cup {<<Head(sendJobs), Len(paid[Head(sendJobs)]) + 1>>}
      /\ UNCHANGED <<sent, pending, age, outcome, log, finTx, finalized, fin>>
  BY DEF SendAnswerLost, stacks, store
<1>1. PICK s \in Swaps : s = Current
  BY <1>0, CurrentSwap DEF Inv, NoJob
<1>2. /\ paid' \in [Swaps -> Seq(Payments)] /\ wait' \in [Swaps -> Nat]
      /\ \A t \in Swaps \ {s} : paid'[t] = paid[t] /\ wait'[t] = wait[t]
      /\ Accepted(s)' \subseteq Accepted(s) \cup {Len(paid[s]) + 1}
  <2>1. Pay(s, "mempool") /\ "mempool" \in Payments
    BY <1>0, <1>1 DEF Current, Payments
  <2> QED
    BY <2>1, PayTracked DEF Inv
<1>3. Tracked(s) = {}
  BY <1>0, <1>1, CheckedUntracked DEF Inv
<1>4. Tracked(s)' = {}
  BY <1>0, <1>1, <1>2, <1>3 DEF Tracked, Current
<1>5. ASSUME NEW t \in Swaps \ {s}
      PROVE  Tracked(t)' \subseteq Tracked(t) /\ wait'[t] = wait[t]
             /\ Accepted(t)' = Accepted(t)
  BY <1>0, <1>2 DEF Tracked, Accepted
<1>6. PaymentType' /\ send'.at = NoJob
  <2>1. sendJobs # <<>>
    BY <1>0 DEF Inv, PayInv, BusyInv, NoJob
  <2> QED
    BY <1>0, <1>2, <2>1, EndSendType DEF Inv, PayInv, PaymentType
<1>7. Unrecorded = {} /\ UnderWay = {} /\ UnderWay' = {}
  BY <1>0, <1>6 DEF Unrecorded, UnderWay, NoJob
<1>8. FollowedUp(s)' = {} /\ \A t \in Swaps \ {s} : FollowedUp(t)' = FollowedUp(t)
  <2>1. \A i : <<s, i>> \notin pending
    BY <1>0, <1>1 DEF Inv, PayInv, BusyInv, Listed
  <2>2. FollowedUp(s)' = {}
    BY <1>0, <1>7, <2>1 DEF FollowedUp
  <2>3. \A t \in Swaps \ {s} : FollowedUp(t)' = FollowedUp(t)
    BY <1>0, <1>5, <1>7 DEF FollowedUp
  <2> QED
    BY <2>2, <2>3
<1>9. \A t \in Swaps : Listed(t)'
  BY <1>0 DEF Inv, PayInv, Listed
<1>10. PayInv'
  BY <1>0, <1>4, <1>5, <1>6, <1>7, <1>8, <1>9, EndPay DEF Inv
<1> QED
  BY <1>0, <1>10, ChainKept DEF Inv

\* SendThrows and Crash: a payment that is not in the store yet is lost.
LEMMA LostInv ==
  ASSUME Inv, sendJobs' \in Seq(Swaps), send' = [at |-> NoJob, blocks |-> 0],
         orphans' = orphans \cup Unrecorded, fin' = fin \/ fin' = FinIdle,
         UNCHANGED <<paid, wait, sent, pending, age, outcome, log, finTx, finalized>>
  PROVE  Inv'
<1>1. ASSUME NEW s \in Swaps, NEW i \in Tracked(s)'
      PROVE  i \in Tracked(s) /\ <<s, i>> \notin Unrecorded
  BY <1>1 DEF Tracked, Accepted
<1>2. PaymentType' /\ send'.at = NoJob
  BY DEF Inv, PayInv, PaymentType, SendStates
<1>3. ASSUME NEW s \in Swaps
      PROVE  Listed(s)' /\ FollowedUp(s)' \subseteq FollowedUp(s)
  BY DEF Inv, PayInv, Listed, FollowedUp, Accepted, UnderWay, NoJob
<1>4. PayInv'
  BY <1>1, <1>2, <1>3, EndPay DEF Inv
<1> QED
  BY <1>4, ChainKept DEF Inv

LEMMA CrashInv ==
  ASSUME Inv, Crash
  PROVE  Inv'
<1>1. sendJobs' \in Seq(Swaps)
  <2>1. sendJobs \in Seq(Swaps) /\ (send.at # NoJob => sendJobs # <<>>)
    BY DEF Inv, PayInv, PaymentType, BusyInv
  <2>2. "send" \in Active => send.at # NoJob
    BY DEF Active
  <2>3. sendJobs' = sendJobs \/ (sendJobs # <<>> /\ sendJobs' = Tail(sendJobs))
    BY <2>1, <2>2 DEF Crash, AfterCrash
  <2> QED
    BY <2>1, <2>3
<1> QED
  BY <1>1, LostInv DEF Crash, stacks, bitcoin, store

LEMMA ThrowsInv ==
  ASSUME Inv, SendThrows
  PROVE  Inv'
<1>1. /\ sendJobs # <<>> /\ EndSend /\ orphans' = orphans \cup Unrecorded
      /\ UNCHANGED <<paid, wait, sent, pending, age, outcome, log, finTx,
                     finalized, fin>>
  BY DEF SendThrows, stacks, bitcoin, store, Inv, PayInv, BusyInv
<1>2. sendJobs' \in Seq(Swaps)
  BY <1>1, EndSendType DEF Inv
<1> QED
  BY <1>1, <1>2, LostInv DEF EndSend

LEMMA SetSentInv ==
  ASSUME Inv, SetSentOutbound
  PROVE  Inv'
<1>0. /\ send.at = "broadcast" /\ send' = [at |-> "sent", blocks |-> 0]
      /\ sent' = [sent EXCEPT ![Current] = Len(paid[Current])]
      /\ UNCHANGED <<paid, wait, pending, orphans, age, outcome, sendJobs,
                     log, finTx, finalized, fin>>
  BY DEF SetSentOutbound, Current, stacks, bitcoin, queues, history
<1>1. PICK s \in Swaps : s = Current
  BY <1>0, CurrentSwap DEF Inv, NoJob
<1>2. /\ sent' \in [Swaps -> Nat] /\ sent'[s] = Len(paid[s])
      /\ \A t \in Swaps \ {s} : sent'[t] = sent[t]
  BY <1>0, <1>1 DEF Inv, PayInv, PaymentType
<1>3. /\ Current' = s /\ sendJobs' # <<>> /\ send'.at = "sent"
      /\ UnderWay' = UnderWay /\ Len(paid[s]) > 0
  BY <1>0, <1>1 DEF Inv, PayInv, BusyInv, Current, UnderWay, NoJob
<1>4. PaymentType' /\ BusyInv' /\ CheckedEarly'
  BY <1>0, <1>2, <1>3 DEF Inv, PayInv, PaymentType, SendStates, BusyInv, CheckedEarly
<1>5. ASSUME NEW t \in Swaps
      PROVE  OnRecord(t)' /\ Listed(t)' /\ PaidEarly(t)'
  <2>1. Tracked(t)' = Tracked(t)
    BY <1>0 DEF Tracked, Accepted
  <2>2. OnRecord(t)'
    <3>1. CASE t = s
      <4>1. sent[s] = 0 /\ \A i \in Tracked(s) : i > 0
        BY <1>0, <1>1 DEF Inv, PayInv, PaymentType, BusyInv, Tracked, Accepted
      <4> QED
        BY <1>2, <2>1, <3>1, <4>1 DEF Inv, PayInv, OnRecord
    <3>2. CASE t # s
      BY <1>1, <1>2, <2>1, <3>2 DEF Inv, PayInv, OnRecord
    <3> QED
      BY <3>1, <3>2
  <2>3. Listed(t)'
    BY <1>0, <1>2, <1>3 DEF Inv, PayInv, Listed
  <2>4. PaidEarly(t)'
    <3>1. FollowedUp(t)' = FollowedUp(t)
      BY <1>0, <1>3 DEF FollowedUp, Accepted
    <3> QED
      BY <1>0, <3>1 DEF Inv, PayInv, PaidEarly, Completed
  <2> QED
    BY <2>2, <2>3, <2>4
<1>6. ChainInv'
  BY <1>0, ChainKept DEF Inv
<1> QED
  BY <1>4, <1>5, <1>6 DEF Inv, PayInv

LEMMA SetPendingInv ==
  ASSUME Inv, SetPendingFinalized
  PROVE  Inv'
<1>0. /\ send.at = "sent" /\ EndSend
      /\ pending' = pending \cup {<<Current, sent[Current]>>}
      /\ UNCHANGED <<paid, wait, sent, orphans, age, outcome, log, finTx,
                     finalized, fin>>
  BY DEF SetPendingFinalized, Current, stacks, bitcoin, history
<1>1. /\ sendJobs # <<>> /\ sent[Current] = Len(paid[Current]) /\ sent[Current] # 0
      /\ UnderWay = {<<Current, Len(paid[Current])>>} /\ Unrecorded = {}
  BY <1>0 DEF Inv, PayInv, BusyInv, NoJob, UnderWay, Unrecorded, Current
<1>2. PaymentType' /\ send'.at = NoJob
  BY <1>0, <1>1, EndSendType DEF Inv, PayInv, PaymentType
<1>3. ASSUME NEW t \in Swaps
      PROVE  /\ Listed(t)' /\ Tracked(t)' = Tracked(t)
             /\ FollowedUp(t)' = FollowedUp(t)
  <2>1. Listed(t)'
    BY <1>0, <1>1 DEF Inv, PayInv, Listed
  <2>2. Tracked(t)' = Tracked(t) /\ Accepted(t)' = Accepted(t)
    BY <1>0 DEF Tracked, Accepted
  <2>3. UnderWay' = {}
    BY <1>2 DEF UnderWay, NoJob
  <2> QED
    BY <1>0, <1>1, <2>1, <2>2, <2>3 DEF FollowedUp
<1>4. PayInv'
  BY <1>0, <1>1, <1>2, <1>3, EndPay DEF Inv
<1> QED
  BY <1>0, <1>4, ChainKept DEF Inv

LEMMA DropInv ==
  ASSUME Inv, NEW s \in Swaps, NEW i, CheckShouldFinalize(s, i)
  PROVE  Inv'
<1>0. /\ UNCHANGED <<paid, wait, sent, orphans, age, outcome, send, sendJobs, log,
                     finTx, finalized>>
      /\ pending' \subseteq pending
      /\ fin' = fin \/ fin' = [at |-> "should", key |-> <<s, i>>]
  BY DEF CheckShouldFinalize, stacks, bitcoin, queues, history
<1>1. PaymentType' /\ BusyInv' /\ CheckedEarly'
  BY <1>0 DEF Inv, PayInv, PaymentType, BusyInv, CheckedEarly, Current, Completed
<1>2. ASSUME NEW t \in Swaps
      PROVE  OnRecord(t)' /\ Listed(t)' /\ PaidEarly(t)'
  <2>1. Tracked(t)' = Tracked(t) /\ FollowedUp(t)' \subseteq FollowedUp(t)
    BY <1>0 DEF Tracked, FollowedUp, Accepted, UnderWay
  <2>2. OnRecord(t)'
    BY <1>0, <2>1 DEF Inv, PayInv, OnRecord, Current
  <2>3. PaidEarly(t)'
    BY <1>0, <2>1 DEF Inv, PayInv, PaidEarly, Completed
  <2>4. Listed(t)'
    BY <1>0 DEF Inv, PayInv, Listed
  <2> QED
    BY <2>2, <2>3, <2>4
<1>3. ChainInv'
  BY <1>0, ChainKept DEF Inv
<1> QED
  BY <1>1, <1>2, <1>3 DEF Inv, PayInv

\* A payment is dropped from the list only if its swap is completed.
LEMMA DropCompleted ==
  ASSUME Inv, NEW s \in Swaps, NEW i, CheckShouldFinalize(s, i)
  PROVE  \A k \in pending \ pending' : Completed(k[1])
<1>1. CASE finalized[s] > 0 /\ MayDrop(s, Status(s))
  <2>1. pending' = pending \ {<<s, i>>}
    BY <1>1 DEF CheckShouldFinalize
  <2>2. Completed(s)
    <3>1. finalized[s] \in DOMAIN finTx[s]
      BY <1>1 DEF Inv, ChainInv, ChainType
    <3> QED
      BY <1>1, <3>1 DEF Inv, ChainInv, Settling, MayDrop, Status
  <2> QED
    BY <2>1, <2>2
<1>2. CASE ~(finalized[s] > 0 /\ MayDrop(s, Status(s)))
  BY <1>2 DEF CheckShouldFinalize
<1> QED
  BY <1>1, <1>2

-----------------------------------------------------------------------------
(* The invariant *)

LEMMA InitInv == Init => Inv
<1> SUFFICES ASSUME Init PROVE Inv
  OBVIOUS
<1>1. \A s \in Swaps : Tracked(s) = {} /\ FollowedUp(s) = {} /\ Listed(s)
  BY DEF Init, Tracked, FollowedUp, Accepted, Listed
<1>2. PaymentType
  BY DEF Init, PaymentType, SendStates
<1>3. ChainType
  BY DEF Init, ChainType, Outcomes, FinIdle
<1>4. BusyInv /\ CheckedEarly
  BY DEF Init, BusyInv, CheckedEarly, NoJob
<1>5. ASSUME NEW s \in Swaps
      PROVE  OnRecord(s) /\ Listed(s) /\ Settling(s) /\ PaidEarly(s)
  <2>1. OnRecord(s) /\ Listed(s) /\ PaidEarly(s)
    BY <1>1 DEF OnRecord, PaidEarly
  <2>2. Settling(s)
    BY DEF Init, Settling
  <2> QED
    BY <2>1, <2>2
<1> QED
  BY <1>2, <1>3, <1>4, <1>5 DEF Inv, PayInv, ChainInv

\* The jobs that read the log, queue events and redeem
Elsewhere ==
    \/ ReadLastSeen \/ FetchEvents \/ StoreLastSeen \/ QueueEvents
    \/ TakeEvent \/ HandleEvent \/ FinishEvent \/ EventThrows
    \/ TakeRedeem \/ RedeemSkipped \/ Redeem \/ RedeemThrows \/ SetRedeemedHTLC
    \/ \E h \in Htlcs : ConfirmRedeem(h) \/ RefundHtlc(h)
    \/ UNCHANGED vars

LEMMA ElsewhereKeeps ==
  ASSUME Elsewhere
  PROVE  UNCHANGED <<payments, log, outcome, finTx, finalized, fin>> /\ MayQueue
<1> USE DEF payments, MayQueue, stacks, bitcoin, store, queues, handlers, bounds, history
<1>1. CASE ReadLastSeen \/ FetchEvents \/ StoreLastSeen \/ QueueEvents
  BY <1>1 DEF ReadLastSeen, FetchEvents, StoreLastSeen, QueueEvents
<1>2. CASE HandleEvent
  BY <1>2 DEF HandleEvent
<1>3. CASE TakeEvent \/ FinishEvent \/ EventThrows
  BY <1>3 DEF TakeEvent, FinishEvent, EventThrows, EndEvent
<1>4. CASE TakeRedeem \/ RedeemSkipped \/ Redeem
  BY <1>4 DEF TakeRedeem, RedeemSkipped, EndRedeem, Redeem
<1>5. CASE RedeemThrows \/ SetRedeemedHTLC
  BY <1>5 DEF RedeemThrows, SetRedeemedHTLC, EndRedeem
<1>6. CASE \E h \in Htlcs : ConfirmRedeem(h) \/ RefundHtlc(h)
  BY <1>6 DEF ConfirmRedeem, RefundHtlc, Spend
<1>7. CASE UNCHANGED vars
  BY <1>7 DEF vars
<1> QED
  BY <1>1, <1>2, <1>3, <1>4, <1>5, <1>6, <1>7 DEF Elsewhere

LEMMA NextInv == Inv /\ [Next]_vars => Inv'
<1> SUFFICES ASSUME Inv, [Next]_vars PROVE Inv'
  OBVIOUS
<1>1. CASE Elsewhere
  BY <1>1, ElsewhereKeeps, ElsewhereInv
<1>2. CASE TakeSend \/ CheckOutbound
  <2>1. CASE TakeSend
    <3>1. /\ sendJobs # <<>> /\ send.at = NoJob
          /\ send' = [at |-> "taken", blocks |-> 0]
          /\ UNCHANGED <<paid, wait, sent, pending, orphans, age, outcome, sendJobs,
                         log, finTx, finalized, fin>>
      BY <2>1 DEF TakeSend, stacks, bitcoin, store, queues, history
    <3> QED
      BY <3>1, TakeInv
  <2> QED
    BY <1>2, <2>1, CheckInv
<1>3. CASE SendBtc
  <2>1. "mempool" \in Payments
    BY DEF Payments
  <2> QED
    BY <1>3, <2>1, SendInv DEF SendBtc, stacks, store, queues, history
<1>4. CASE SendMissing
  <2>1. "missing" \in Payments
    BY DEF Payments
  <2> QED
    BY <1>4, <2>1, SendInv DEF SendMissing, stacks, store, queues, history
<1>5. CASE SendAnswerLost
  BY <1>5, AnswerLostInv
<1>6. CASE SendThrows
  BY <1>6, ThrowsInv
<1>7. CASE SetSentOutbound
  BY <1>7, SetSentInv
<1>8. CASE SetPendingFinalized
  BY <1>8, SetPendingInv
<1>9. ASSUME NEW s \in Swaps, NEW i \in DOMAIN paid[s],
             CheckShouldFinalize(s, i) \/ ConfirmPayment(s, i)
      PROVE  Inv'
  BY <1>9, DropInv, ConfirmInv
<1>10. CASE SubmitFinalize
  BY <1>10, SubmitInv
<1>11. CASE SubmitThrows
  <2>1. /\ fin' = FinIdle
        /\ UNCHANGED <<payments, sendJobs, log, outcome, finTx, finalized>>
    BY <1>11 DEF SubmitThrows, payments, stacks, bitcoin, store, queues, history
  <2>2. ChainInv'
    BY <2>1, ChainKept DEF Inv, payments
  <2> QED
    BY <2>1, <2>2, ProgressInv
<1>12. CASE SetFinalizedOutbound
  BY <1>12, SetFinalizedInv
<1>13. CASE Crash
  BY <1>13, CrashInv
<1>14. ASSUME NEW s \in Swaps, InitiateOutbound(s) \/ RevokeOutbound(s)
       PROVE  Inv'
  BY <1>14, InitiateInv, RevokeInv
<1>15. ASSUME NEW s \in Swaps, NEW i \in DOMAIN finTx[s],
              MineFinalize(s, i) \/ RejectFinalize(s, i)
       PROVE  Inv'
  <2>1. CASE MineFinalize(s, i)
    BY <2>1, MineInv
  <2>2. CASE RejectFinalize(s, i)
    <3>1. /\ finTx' = [finTx EXCEPT ![s][i] = "failed"]
          /\ UNCHANGED <<payments, sendJobs, log, outcome, finalized, fin>>
      BY <2>2 DEF RejectFinalize, payments, bitcoin, store, queues, history
    <3> QED
      BY <3>1, FinTxInv
  <2> QED
    BY <1>15, <2>1, <2>2
<1>16. ASSUME NEW h \in Htlcs, FinalizeInbound(h)
       PROVE  Inv'
  BY <1>16, FinalizeInboundInv
<1>17. CASE Tick
  BY <1>17, TickInv
<1> QED
  BY <1>1, <1>2, <1>3, <1>4, <1>5, <1>6, <1>7, <1>8, <1>9, <1>10, <1>11, <1>12,
     <1>13, <1>14, <1>15, <1>16, <1>17 DEF Next, Server, Chains, Elsewhere

-----------------------------------------------------------------------------
(* A swap is paid again only if the payment before was lost between broadcast
   and record, whatever queues, retries and crashes make of its job. *)
THEOREM OncePaid == Spec => []PaidOnce
  BY InitInv, NextInv, InvPaidOnce, PTL DEF Spec

LEMMA NextListed ==
  ASSUME Inv, [Next]_vars
  PROVE  [\A k \in pending \ pending' : Completed(k[1])]_vars
<1> USE DEF payments, stacks, bitcoin, store, queues, handlers, bounds, history
<1>1. CASE Elsewhere
  BY <1>1, ElsewhereKeeps
<1>2. CASE TakeSend \/ CheckOutbound \/ SendBtc \/ SendMissing
  BY <1>2 DEF TakeSend, CheckOutbound, SendBtc, SendMissing
<1>3. CASE SendAnswerLost \/ SendThrows \/ SetSentOutbound \/ SetPendingFinalized
  BY <1>3 DEF SendAnswerLost, SendThrows, SetSentOutbound, SetPendingFinalized
<1>4. ASSUME NEW s \in Swaps, NEW i \in DOMAIN paid[s], CheckShouldFinalize(s, i)
      PROVE  \A k \in pending \ pending' : Completed(k[1])
  BY <1>4, DropCompleted
<1>5. CASE SubmitFinalize \/ SubmitThrows \/ SetFinalizedOutbound \/ Crash
  BY <1>5 DEF SubmitFinalize, SubmitThrows, SetFinalizedOutbound, Crash
<1>6. ASSUME NEW s \in Swaps, InitiateOutbound(s) \/ RevokeOutbound(s)
      PROVE  pending' = pending
  BY <1>6 DEF InitiateOutbound, RevokeOutbound
<1>7. ASSUME NEW s \in Swaps, NEW i,
             ConfirmPayment(s, i) \/ MineFinalize(s, i) \/ RejectFinalize(s, i)
      PROVE  pending' = pending
  BY <1>7 DEF ConfirmPayment, MineFinalize, RejectFinalize
<1>8. ASSUME NEW h \in Htlcs, FinalizeInbound(h)
      PROVE  pending' = pending
  BY <1>8 DEF FinalizeInbound
<1>9. CASE Tick
  BY <1>9 DEF Tick
<1> QED
  BY <1>1, <1>2, <1>3, <1>4, <1>5, <1>6, <1>7, <1>8, <1>9
     DEF Next, Server, Chains, Elsewhere

(* Whatever fails or stops, what is listed for finalization stays listed until
   the contract has completed its swap. *)
THEOREM StaysListed == Spec => ListedUntilCompleted
  BY InitInv, NextInv, NextListed, PTL DEF Spec, ListedUntilCompleted

(* A swap with a payment that is still in hand or listed is not revoked, for every
   cutoff that leaves enough of the expiration to send and to settle. *)
THEOREM NeverRevoked == Spec => []PaidNeverRevoked
  BY InitInv, NextInv, InvNeverRevoked, PTL DEF Spec
-----------------------------------------------------------------------------
(* The events the server has seen *)

CronStates ==
    [at : {NoJob, "reading", "fetched", "stored"}, moved : BOOLEAN,
     last : Events \cup {NoEvent}, events : Seq(Events)]

\* An event is emitted once.
LogType ==
    /\ log \in Seq(Events)
    /\ \A i, j \in DOMAIN log : log[i] = log[j] => i = j

\* The i-th event is not newer than e.
UpTo(i, e) == \E j \in DOMAIN log : i <= j /\ log[j] = e

Accounted ==
    queued \cup missed \cup (IF cron.at = "stored" THEN Range(cron.events) ELSE {})

\* While events are read no other is stored as the last seen.
Reading ==
    /\ cron \in CronStates
    /\ cron.at \in {"reading", "fetched"} => cron.last = lastSeen
    /\ cron.at = "reading" =>
        /\ log # <<>>
        /\ log[Len(log)] # lastSeen

\* What was fetched goes from an event down to the last one seen.
Fetched ==
    cron.at = "fetched" =>
        /\ cron.events # <<>>
        /\ \E n \in DOMAIN log :
             /\ log[n] = cron.events[1]
             /\ \A i \in 1 .. n : log[i] \in Range(cron.events) \/ UpTo(i, lastSeen)

SeenInv ==
    /\ LogType /\ Reading /\ Fetched
    /\ lastSeen \in Range(log) \cup {NoEvent}
    /\ \A i \in DOMAIN log : UpTo(i, lastSeen) => log[i] \in Accounted

LEMMA SeenThenQueued == SeenInv => SeenEventsQueued
<1> SUFFICES ASSUME SeenInv, lastSeen # NoEvent,
                    NEW i \in 1 .. Position(lastSeen)
             PROVE  log[i] \in Accounted
  BY DEF SeenEventsQueued, SeenEvents, Accounted
<1>1. log \in Seq(Events) /\ lastSeen \in Range(log)
  BY DEF SeenInv, LogType
<1>2. Position(lastSeen) \in DOMAIN log /\ log[Position(lastSeen)] = lastSeen
  BY <1>1 DEF Position, Range
<1>3. i \in DOMAIN log /\ i <= Position(lastSeen)
  BY <1>1, <1>2
<1> QED
  BY <1>2, <1>3 DEF SeenInv, UpTo

LEMMA InitSeen == Init => SeenInv
<1> SUFFICES ASSUME Init PROVE SeenInv
  OBVIOUS
<1>1. log = <<>> /\ DOMAIN log = {} /\ lastSeen = NoEvent /\ cron = CronIdle
  BY DEF Init
<1>2. cron \in CronStates /\ cron.at = NoJob
  BY <1>1 DEF CronIdle, CronStates
<1> QED
  BY <1>1, <1>2 DEF SeenInv, LogType, Reading, Fetched, UpTo, NoJob

\* Steps that leave the log and the handler of the events alone
SeenKept ==
    /\ UNCHANGED <<log, lastSeen>>
    /\ queued \subseteq queued' /\ missed \subseteq missed'
    /\ cron' \in CronStates
    /\ cron'.at = cron.at /\ cron'.last = cron.last /\ cron'.events = cron.events

LEMMA SeenKeptInv ==
  ASSUME SeenInv, SeenKept
  PROVE  SeenInv'
<1>1. LogType' /\ Reading'
  BY DEF SeenInv, SeenKept, LogType, Reading
<1>2. \A i : UpTo(i, lastSeen)' = UpTo(i, lastSeen)
  BY DEF SeenKept, UpTo
<1>3. Fetched'
  BY <1>2 DEF SeenInv, SeenKept, Fetched
<1>4. Accounted \subseteq Accounted'
  BY DEF Accounted, SeenKept
<1>5. \A i \in DOMAIN log' : UpTo(i, lastSeen)' => log'[i] \in Accounted'
  BY <1>2, <1>4 DEF SeenInv, SeenKept
<1> QED
  BY <1>1, <1>3, <1>5 DEF SeenInv, SeenKept

LEMMA TipKept ==
  ASSUME SeenInv, UNCHANGED <<log, lastSeen, queued>>, missed \subseteq missed',
         TipMoves \/ cron' = cron
  PROVE  SeenInv'
<1>1. cron \in CronStates
  BY DEF SeenInv, Reading
<1>2. CASE cron' = cron
  BY <1>1, <1>2, SeenKeptInv DEF SeenKept
<1>3. CASE TipMoves
  <2>1. PICK b : b = (cron.moved \/ cron.at = "reading")
    OBVIOUS
  <2>2. b \in BOOLEAN
    BY <1>1, <2>1 DEF CronStates
  <2>3. cron' = [cron EXCEPT !.moved = b]
    BY <1>3, <2>1 DEF TipMoves
  <2>4. /\ cron' \in CronStates
        /\ cron'.at = cron.at /\ cron'.last = cron.last /\ cron'.events = cron.events
    BY <1>1, <2>2, <2>3 DEF CronStates
  <2> QED
    BY <2>4, SeenKeptInv DEF SeenKept
<1> QED
  BY <1>2, <1>3

LEMMA EmitSeen ==
  ASSUME SeenInv, NEW e \in Events, Emit(e), UNCHANGED <<lastSeen, queued, missed>>
  PROVE  SeenInv'
<1>1. /\ log \in Seq(Events) /\ \A i, j \in DOMAIN log : log[i] = log[j] => i = j
      /\ cron \in CronStates
  BY DEF SeenInv, LogType, Reading
<1>2. PICK b : b = (cron.moved \/ cron.at = "reading")
  OBVIOUS
<1>3. /\ cron' \in CronStates
      /\ cron'.at = cron.at /\ cron'.last = cron.last /\ cron'.events = cron.events
  <2>1. b \in BOOLEAN
    BY <1>1, <1>2 DEF CronStates
  <2>2. cron' = [cron EXCEPT !.moved = b]
    BY <1>2 DEF TipMoves, Emit
  <2> QED
    BY <1>1, <2>1, <2>2 DEF CronStates
<1>4. PICK n \in Nat : n = Len(log)
  BY <1>1
<1>5. DOMAIN log = 1 .. n
  BY <1>1, <1>4
<1>6. /\ log' \in Seq(Events) /\ DOMAIN log' = 1 .. n + 1 /\ Len(log') = n + 1
      /\ log'[n + 1] = e /\ \A i \in 1 .. n : log'[i] = log[i]
  BY <1>1, <1>4, AppendProperties DEF Emit
<1>7. e \notin Range(log) /\ \A i \in 1 .. n : log[i] # e
  BY <1>5 DEF Emit, Range
<1>8. lastSeen # e
  BY <1>7 DEF SeenInv, Events
<1>9. \A i \in 1 .. n : UpTo(i, lastSeen)' = UpTo(i, lastSeen)
  BY <1>5, <1>6, <1>8 DEF UpTo
<1>10. ~UpTo(n + 1, lastSeen)'
  BY <1>6, <1>8 DEF UpTo
<1>11. LogType'
  BY <1>1, <1>5, <1>6, <1>7 DEF LogType
<1>12. Reading'
  <2>1. log' # <<>> /\ log'[Len(log')] # lastSeen
    BY <1>6, <1>8
  <2> QED
    BY <1>3, <2>1 DEF SeenInv, Reading
<1>13. Fetched'
  <2> SUFFICES ASSUME cron.at = "fetched" PROVE Fetched'
    BY <1>3 DEF Fetched
  <2>1. PICK k \in DOMAIN log :
              /\ log[k] = cron.events[1]
              /\ \A i \in 1 .. k : log[i] \in Range(cron.events) \/ UpTo(i, lastSeen)
    BY DEF SeenInv, Fetched
  <2>2. /\ k \in DOMAIN log' /\ log'[k] = cron'.events[1]
        /\ \A i \in 1 .. k : i \in 1 .. n /\ log'[i] = log[i]
    BY <1>3, <1>5, <1>6, <2>1
  <2>3. \A i \in 1 .. k : log'[i] \in Range(cron'.events) \/ UpTo(i, lastSeen)'
    BY <1>3, <1>9, <2>1, <2>2
  <2> QED
    BY <1>3, <2>2, <2>3 DEF SeenInv, Fetched
<1>14. Range(log) \subseteq Range(log')
  BY <1>5, <1>6 DEF Range
<1>15. Accounted' = Accounted
  BY <1>3 DEF Accounted
<1>16. \A i \in DOMAIN log' : UpTo(i, lastSeen)' => log'[i] \in Accounted'
  <2>1. \A i \in 1 .. n : UpTo(i, lastSeen) => log[i] \in Accounted
    BY <1>5 DEF SeenInv
  <2>2. \A i \in DOMAIN log' : i \in 1 .. n \/ i = n + 1
    BY <1>6
  <2> QED
    BY <1>6, <1>9, <1>10, <1>15, <2>1, <2>2
<1> QED
  BY <1>11, <1>12, <1>13, <1>14, <1>16 DEF SeenInv

\* Where the events after the last one seen start in the log
LEMMA EventsFrom ==
  ASSUME LogType, NEW last \in Events \cup {NoEvent}
  PROVE  \E from \in 1 .. Len(log) + 1 :
           /\ EventsUntil(last) = [i \in 1 .. Len(log) - from + 1 |->
                                     log[Len(log) + 1 - i]]
           /\ from = 1 \/ (from - 1 \in DOMAIN log /\ log[from - 1] = last)
           /\ from = 1 => \A i \in DOMAIN log : log[i] # last
<1> DEFINE older == {i \in DOMAIN log : log[i] = last}
<1>1. Len(log) \in Nat /\ DOMAIN log = 1 .. Len(log)
  BY DEF LogType
<1>2. CASE older = {}
  <2>1. EventsUntil(last) = [i \in 1 .. Len(log) - 1 + 1 |-> log[Len(log) + 1 - i]]
    BY <1>2 DEF EventsUntil
  <2>2. 1 \in 1 .. Len(log) + 1 /\ \A i \in DOMAIN log : log[i] # last
    BY <1>1, <1>2
  <2> QED
    BY <2>1, <2>2
<1>3. CASE older # {}
  <2>1. PICK k : k = CHOOSE i \in older : TRUE
    OBVIOUS
  <2>2. k \in DOMAIN log /\ log[k] = last
    BY <1>3, <2>1
  <2>3. EventsUntil(last) = [i \in 1 .. Len(log) - (k + 1) + 1 |->
                               log[Len(log) + 1 - i]]
    BY <1>3, <2>1 DEF EventsUntil
  <2>4. k + 1 \in 1 .. Len(log) + 1 /\ k + 1 # 1 /\ (k + 1) - 1 = k
    BY <1>1, <2>2
  <2> QED
    BY <2>2, <2>3, <2>4
<1> QED
  BY <1>2, <1>3

LEMMA ReadSeen ==
  ASSUME SeenInv, ReadLastSeen
  PROVE  SeenInv'
<1>1. cron \in CronStates /\ LogType /\ lastSeen \in Events \cup {NoEvent}
  <2>1. Range(log) \subseteq Events
    BY DEF SeenInv, LogType, Range
  <2> QED
    BY <2>1 DEF SeenInv, Reading
<1>2. /\ cron' = [cron EXCEPT !.at = "reading", !.last = lastSeen, !.moved = FALSE]
      /\ UNCHANGED <<log, lastSeen, queued, missed>> /\ cron.at = NoJob
  BY DEF ReadLastSeen, stacks, store, history
<1>3. cron' \in CronStates /\ cron'.at = "reading" /\ cron'.last = lastSeen
  BY <1>1, <1>2 DEF CronStates
<1>4. log # <<>> /\ log[Len(log)] # lastSeen
  <2>1. PICK from \in 1 .. Len(log) + 1 :
          /\ EventsUntil(lastSeen) = [i \in 1 .. Len(log) - from + 1 |->
                                        log[Len(log) + 1 - i]]
          /\ from = 1 \/ (from - 1 \in DOMAIN log /\ log[from - 1] = lastSeen)
          /\ from = 1 => \A i \in DOMAIN log : log[i] # lastSeen
    BY <1>1, EventsFrom
  <2>2. Len(log) \in Nat /\ DOMAIN log = 1 .. Len(log)
    BY <1>1 DEF LogType
  <2>3. from <= Len(log)
    <3>1. SUFFICES ASSUME from = Len(log) + 1 PROVE FALSE
      BY <2>2
    <3>2. 1 .. Len(log) - from + 1 = {}
      BY <2>2, <3>1
    <3>3. EventsUntil(lastSeen) = <<>>
      <4>1. EventsUntil(lastSeen) = [i \in 1 .. 0 |-> log[Len(log) + 1 - i]]
        BY <2>1, <2>2, <3>1
      <4>2. EventsUntil(lastSeen) \in Seq(Events)
        BY <4>1
      <4>3. DOMAIN EventsUntil(lastSeen) = 1 .. 0
        BY <4>1
      <4> QED
        BY <4>2, <4>3, EmptySeq
    <3> QED
      BY <3>3 DEF ReadLastSeen
  <2>4. log # <<>> /\ Len(log) \in DOMAIN log
    BY <2>2, <2>3
  <2>5. CASE from = 1
    BY <2>1, <2>4, <2>5
  <2>6. CASE from # 1
    <3>1. from - 1 \in DOMAIN log /\ log[from - 1] = lastSeen /\ from - 1 # Len(log)
      BY <2>1, <2>2, <2>3, <2>6
    <3> QED
      BY <1>1, <2>4, <3>1 DEF LogType
  <2> QED
    BY <2>4, <2>5, <2>6
<1>5. Accounted' = queued \cup missed /\ Accounted = queued \cup missed
  BY <1>2, <1>3 DEF Accounted, NoJob
<1>6. LogType' /\ Reading' /\ Fetched'
  BY <1>1, <1>2, <1>3, <1>4 DEF LogType, Reading, Fetched
<1> QED
  BY <1>2, <1>5, <1>6 DEF SeenInv, UpTo

LEMMA FetchSeen ==
  ASSUME SeenInv, FetchEvents
  PROVE  SeenInv'
<1>1. /\ cron \in CronStates /\ LogType /\ cron.last = lastSeen
      /\ lastSeen \in Events \cup {NoEvent} /\ log # <<>> /\ log[Len(log)] # lastSeen
  BY DEF SeenInv, Reading, FetchEvents, CronStates
<1>2. UNCHANGED <<log, lastSeen, queued, missed>> /\ cron.at = "reading"
  BY DEF FetchEvents, stacks, store, history
<1>3. \A i : UpTo(i, lastSeen)' = UpTo(i, lastSeen)
  BY <1>2 DEF UpTo
<1>4. Len(log) \in Nat \ {0} /\ DOMAIN log = 1 .. Len(log) /\ log \in Seq(Events)
  BY <1>1 DEF LogType
<1>5. CASE cron' = CronIdle
  <2>1. cron' \in CronStates /\ cron'.at = NoJob
    BY <1>5 DEF CronIdle, CronStates
  <2>2. Accounted' = queued \cup missed /\ Accounted = queued \cup missed
    BY <1>2, <2>1 DEF Accounted, NoJob
  <2>3. LogType' /\ Reading' /\ Fetched'
    BY <1>1, <1>2, <2>1 DEF LogType, Reading, Fetched, NoJob
  <2> QED
    BY <1>2, <1>3, <2>2, <2>3 DEF SeenInv
<1>6. CASE cron' = [cron EXCEPT !.at = "fetched", !.moved = FALSE,
                                !.events = EventsUntil(cron.last)]
  <2>1. PICK from \in 1 .. Len(log) + 1 :
          /\ EventsUntil(lastSeen) = [i \in 1 .. Len(log) - from + 1 |->
                                        log[Len(log) + 1 - i]]
          /\ from = 1 \/ (from - 1 \in DOMAIN log /\ log[from - 1] = lastSeen)
          /\ from = 1 => \A i \in DOMAIN log : log[i] # lastSeen
    BY <1>1, EventsFrom
  <2>2. from <= Len(log)
    <3>1. CASE from = 1
      BY <1>4, <3>1
    <3>2. CASE from # 1
      <4>1. from - 1 # Len(log)
        BY <1>1, <2>1, <3>2
      <4> QED
        BY <1>4, <4>1
    <3> QED
      BY <3>1, <3>2
  <2>3. PICK events : events = EventsUntil(lastSeen)
    OBVIOUS
  <2>4. PICK news \in Nat \ {0} : news = Len(log) - from + 1
    <3>1. Len(log) - from + 1 \in Nat \ {0}
      BY <1>4, <2>2
    <3> QED
      BY <3>1
  <2>5. \A i \in 1 .. news : log[Len(log) + 1 - i] \in Events
    <3>1. \A i \in 1 .. news : Len(log) + 1 - i \in DOMAIN log
      BY <1>4, <2>4
    <3> QED
      BY <1>4, <3>1
  <2>6. events = [i \in 1 .. news |-> log[Len(log) + 1 - i]]
    BY <2>1, <2>3, <2>4
  <2>7. events \in Seq(Events) /\ DOMAIN events = 1 .. news /\ events # <<>>
    BY <2>5, <2>6
  <2>8. events[1] = log[Len(log)]
    BY <1>4, <2>6
  <2>9. /\ cron' \in CronStates /\ cron'.at = "fetched" /\ cron'.last = lastSeen
        /\ cron'.events = events
    BY <1>1, <1>6, <2>3, <2>7 DEF CronStates
  <2>10. ASSUME NEW i \in 1 .. Len(log)
         PROVE  log[i] \in Range(events) \/ UpTo(i, lastSeen)
    <3>1. CASE i >= from
      <4>1. Len(log) + 1 - i \in 1 .. news
        BY <1>4, <2>4, <3>1
      <4>2. Len(log) + 1 - (Len(log) + 1 - i) = i
        BY <1>4
      <4>3. events[Len(log) + 1 - i] = log[i]
        BY <2>6, <4>1, <4>2
      <4> QED
        BY <2>7, <4>1, <4>3 DEF Range
    <3>2. CASE ~(i >= from)
      <4>1. from # 1 /\ i <= from - 1
        BY <1>4, <3>2
      <4> QED
        BY <2>1, <4>1 DEF UpTo
    <3> QED
      BY <3>1, <3>2
  <2>11. Fetched'
    <3>1. Len(log) \in DOMAIN log
      BY <1>4
    <3> QED
      BY <1>2, <1>3, <2>7, <2>8, <2>9, <2>10, <3>1 DEF Fetched
  <2>12. LogType' /\ Reading'
    BY <1>1, <1>2, <2>9 DEF LogType, Reading
  <2>13. Accounted' = queued \cup missed /\ Accounted = queued \cup missed
    BY <1>2, <2>9 DEF Accounted
  <2> QED
    BY <1>2, <1>3, <2>11, <2>12, <2>13 DEF SeenInv
<1> QED
  BY <1>5, <1>6 DEF FetchEvents

LEMMA StoreSeen ==
  ASSUME SeenInv, StoreLastSeen
  PROVE  SeenInv'
<1>1. cron \in CronStates /\ cron.at = "fetched" /\ LogType /\ cron.events # <<>>
  BY DEF SeenInv, Reading, Fetched, StoreLastSeen
<1>2. /\ cron' = [cron EXCEPT !.at = "stored"]
      /\ UNCHANGED <<log, queued, missed>>
  BY DEF StoreLastSeen, stacks, history
<1>3. lastSeen' = cron.events[1]
  BY <1>1 DEF StoreLastSeen, NewestSeen, CronStates
<1>4. cron' \in CronStates /\ cron'.at = "stored" /\ cron'.events = cron.events
  BY <1>1, <1>2 DEF CronStates
<1>5. PICK n \in DOMAIN log :
        /\ log[n] = lastSeen'
        /\ \A i \in 1 .. n : log[i] \in Range(cron.events) \/ UpTo(i, lastSeen)
  BY <1>1, <1>3 DEF SeenInv, Fetched
<1>6. Accounted = queued \cup missed
  BY <1>1 DEF Accounted
<1>7. Accounted' = queued \cup missed \cup Range(cron.events)
  BY <1>2, <1>4 DEF Accounted
<1>8. ASSUME NEW i \in DOMAIN log, UpTo(i, lastSeen)'
      PROVE  log[i] \in Accounted'
  <2>1. PICK j \in DOMAIN log : i <= j /\ log[j] = lastSeen'
    BY <1>2, <1>8 DEF UpTo
  <2>2. j = n
    BY <1>1, <1>5, <2>1 DEF LogType
  <2>3. i \in 1 .. n
    <3>1. DOMAIN log = 1 .. Len(log) /\ Len(log) \in Nat
      BY <1>1 DEF LogType
    <3> QED
      BY <2>1, <2>2, <3>1
  <2>4. log[i] \in Range(cron.events) \/ log[i] \in Accounted
    BY <1>5, <2>3 DEF SeenInv
  <2> QED
    BY <1>6, <1>7, <2>4
<1>9. LogType' /\ Reading' /\ Fetched'
  BY <1>1, <1>2, <1>4 DEF LogType, Reading, Fetched
<1>10. lastSeen' \in Range(log)
  BY <1>5 DEF Range
<1> QED
  BY <1>2, <1>8, <1>9, <1>10 DEF SeenInv

\* The handler ends, by itself or with the process; what it had fetched and not
\* queued is missed if the last one seen was stored.
LEMMA IdleSeen ==
  ASSUME SeenInv, cron' = CronIdle, UNCHANGED <<log, lastSeen>>,
         Accounted \subseteq queued' \cup missed'
  PROVE  SeenInv'
<1>1. cron' \in CronStates /\ cron'.at = NoJob
  BY DEF CronIdle, CronStates
<1>2. LogType' /\ Reading' /\ Fetched'
  BY <1>1 DEF SeenInv, LogType, Reading, Fetched, NoJob
<1>3. Accounted' = queued' \cup missed'
  BY <1>1 DEF Accounted, NoJob
<1> QED
  BY <1>2, <1>3 DEF SeenInv, UpTo

LEMMA NextSeen == SeenInv /\ [Next]_vars => SeenInv'
<1> SUFFICES ASSUME SeenInv, [Next]_vars PROVE SeenInv'
  OBVIOUS
<1>1. CASE ReadLastSeen \/ FetchEvents \/ StoreLastSeen
  BY <1>1, ReadSeen, FetchSeen, StoreSeen
<1>2. CASE QueueEvents
  <2>1. /\ cron' = CronIdle /\ UNCHANGED <<log, lastSeen>>
        /\ queued' = queued \cup Range(cron.events) /\ missed' = missed
    BY <1>2 DEF QueueEvents, stacks, store
  <2> QED
    BY <2>1, IdleSeen DEF Accounted
<1>3. CASE Crash
  <2>1. /\ cron' = CronIdle /\ UNCHANGED <<log, lastSeen>> /\ queued' = queued
        /\ missed \cup (IF cron.at = "stored" THEN Range(cron.events) ELSE {})
             \subseteq missed'
    BY <1>3 DEF Crash, stacks, store
  <2> QED
    BY <2>1, IdleSeen DEF Accounted
<1>4. ASSUME NEW s \in Swaps, InitiateOutbound(s)
      PROVE  SeenInv'
  <2>1. s \in Events /\ Emit(s) /\ UNCHANGED <<lastSeen, queued, missed>>
    BY <1>4 DEF InitiateOutbound, store, history, Events
  <2> QED
    BY <2>1, EmitSeen
<1>5. ASSUME NEW h \in Htlcs, FinalizeInbound(h)
      PROVE  SeenInv'
  <2>1. h \in Events /\ Emit(h) /\ UNCHANGED <<lastSeen, queued, missed>>
    BY <1>5 DEF FinalizeInbound, store, history, Events
  <2> QED
    BY <2>1, EmitSeen
<1> USE DEF stacks, store, handlers, history
<1>6. CASE TakeEvent \/ HandleEvent \/ FinishEvent \/ EventThrows
  BY <1>6, TipKept DEF TakeEvent, HandleEvent, FinishEvent, EventThrows
<1>7. CASE TakeSend \/ CheckOutbound \/ SendBtc \/ SendMissing
  BY <1>7, TipKept DEF TakeSend, CheckOutbound, SendBtc, SendMissing
<1>8. CASE SendAnswerLost \/ SendThrows \/ SetSentOutbound \/ SetPendingFinalized
  BY <1>8, TipKept DEF SendAnswerLost, SendThrows, SetSentOutbound,
                       SetPendingFinalized
<1>9. ASSUME NEW s \in Swaps, NEW i \in DOMAIN paid[s],
             CheckShouldFinalize(s, i) \/ ConfirmPayment(s, i)
      PROVE  SeenInv'
  BY <1>9, TipKept DEF CheckShouldFinalize, ConfirmPayment
<1>10. CASE SubmitFinalize \/ SubmitThrows \/ SetFinalizedOutbound
  BY <1>10, TipKept DEF SubmitFinalize, SubmitThrows, SetFinalizedOutbound
<1>11. CASE TakeRedeem \/ RedeemSkipped \/ Redeem \/ RedeemThrows
            \/ SetRedeemedHTLC
  BY <1>11, TipKept DEF TakeRedeem, RedeemSkipped, Redeem, RedeemThrows, SetRedeemedHTLC
<1>12. ASSUME NEW s \in Swaps, RevokeOutbound(s)
       PROVE  SeenInv'
  BY <1>12, TipKept DEF RevokeOutbound
<1>13. ASSUME NEW s \in Swaps, NEW i \in DOMAIN finTx[s],
              MineFinalize(s, i) \/ RejectFinalize(s, i)
       PROVE  SeenInv'
  BY <1>13, TipKept DEF MineFinalize, RejectFinalize
<1>14. ASSUME NEW h \in Htlcs, ConfirmRedeem(h) \/ RefundHtlc(h)
       PROVE  SeenInv'
  BY <1>14, TipKept DEF ConfirmRedeem, RefundHtlc, Spend
<1>15. CASE Tick
  BY <1>15, TipKept DEF Tick
<1>16. CASE UNCHANGED vars
  BY <1>16, TipKept DEF vars
<1> QED
  BY <1>1, <1>2, <1>3, <1>4, <1>5, <1>6, <1>7, <1>8, <1>9, <1>10, <1>11, <1>12,
     <1>13, <1>14, <1>15, <1>16 DEF Next, Server, Chains

(* No event is passed over, whatever fails or stops: those before the last one
   seen were queued, are about to be, or are known to be lost. *)
THEOREM NothingPassedOver == Spec => []SeenEventsQueued
  BY InitSeen, NextSeen, SeenThenQueued, PTL DEF Spec

=============================================================================
