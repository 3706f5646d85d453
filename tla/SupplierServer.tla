--------------------------- MODULE SupplierServer ---------------------------
(***************************************************************************)
(* The server a supplier of the bridge runs (supplier-server/src): it polls *)
(* the bridge contract for events, pays the outbound swaps that name it,     *)
(* finalizes what it paid on Stacks, and redeems the HTLCs of finalized      *)
(* inbound swaps.                                                           *)
(*                                                                         *)
(* Every await is a point at which the process may stop or the chains move   *)
(* on, so a handler is as many actions as it has effects; the local          *)
(* variables of the handlers under way are in cron, event, send, redeem and  *)
(* fin.  Redis, Bull, the node and electrum are external: the store and the   *)
(* queues outlive a crash, after which Bull runs the jobs it had given to a    *)
(* handler once more, and fails one that stalls a second time.  Nonces are     *)
(* left out: a conflict is a submission that throws.  Stacks does not fork.    *)
(***************************************************************************)
EXTENDS Integers, Sequences, Functions

CONSTANTS
    Swaps,         \* outbound swaps, of this supplier and of others
    Ours,          \* those that name this supplier
    Htlcs,         \* HTLCs of this supplier's inbound swaps
    NoEvent,
    Cutoff,        \* 190: the age, in blocks, from which a swap is not paid
    Expiration,    \* 200: the age from which a swap can be revoked
    SendWithin,    \* blocks between the check of the age and the payment
    SettleWithin,  \* blocks in which a payment is confirmed and finalized
    Attempts,      \* 12: attempts of a job that redeems
    MaxFaults, MaxCrashes,   \* bounds
    Scenarios      \* bound: the sets of events that occur together

ASSUME ServerAssumption ==
    /\ Ours \subseteq Swaps
    /\ NoEvent \notin Swaps \cup Htlcs
    /\ Cutoff \in Nat /\ Expiration \in Nat
    /\ SendWithin \in Nat /\ SettleWithin \in Nat
    /\ Attempts \in Nat \ {0} /\ MaxFaults \in Nat
\* A node and bitcoin that are timely settle in the ten blocks left by the cutoff.
ASSUME MarginAssumption == Cutoff + SendWithin + SettleWithin <= Expiration

VARIABLES
    log, outcome, age, finTx,      \* Stacks: events, swaps, finalizations sent
    paid, wait, spent,             \* bitcoin: payments, blocks since, HTLCs
    lastSeen, sent, pending, finalized, redeemed,          \* store.ts
    eventJobs, sendJobs, redeemJobs, stalled,              \* queues.ts
    cron, event, send, redeem, fin,                        \* handlers
    faults, crashes,                                       \* bounds
    queued, missed, orphans, givenUp               \* history

stacks == <<log, outcome, age, finTx>>
bitcoin == <<paid, wait, spent>>
store == <<lastSeen, sent, pending, finalized, redeemed>>
queues == <<eventJobs, sendJobs, redeemJobs, stalled>>
handlers == <<cron, event, send, redeem, fin>>
bounds == <<faults, crashes>>
history == <<queued, missed, orphans, givenUp>>
vars == <<stacks, bitcoin, store, queues, handlers, bounds, history>>

Events == Swaps \cup Htlcs
NoJob == "idle"
FinIdle == [at |-> NoJob, key |-> <<>>]
CronIdle == [at |-> NoJob, moved |-> FALSE, last |-> NoEvent, events |-> <<>>]

Init ==
    /\ log = <<>>
    /\ outcome = [s \in Swaps |-> "none"]
    /\ age = [s \in Swaps |-> 0]
    /\ finTx = [s \in Swaps |-> <<>>]
    /\ paid = [s \in Swaps |-> <<>>]
    /\ wait = [s \in Swaps |-> 0]
    /\ spent = [h \in Htlcs |-> "locked"]
    /\ lastSeen = NoEvent
    /\ sent = [s \in Swaps |-> 0]
    /\ pending = {}
    /\ finalized = [s \in Swaps |-> 0]
    /\ redeemed = {}
    /\ eventJobs = <<>> /\ sendJobs = <<>> /\ redeemJobs = <<>>
    /\ stalled = {}
    /\ cron = CronIdle
    /\ event = NoJob
    /\ send = [at |-> NoJob, blocks |-> 0]
    /\ redeem = NoJob
    /\ fin = FinIdle
    /\ faults = 0 /\ crashes = 0
    /\ queued = {} /\ missed = {} /\ orphans = {} /\ givenUp = {}

-----------------------------------------------------------------------------
(* The chains *)

\* Whatever happens on Stacks moves stacks_tip.
TipMoves == cron' = [cron EXCEPT !.moved = @ \/ cron.at = "reading"]

OpenSwap(s) == outcome[s] = "open"
Completed(s) == outcome[s] \in {"finalized", "revoked"}

Emit(e) ==
    /\ e \notin Range(log)
    /\ \E together \in Scenarios : Range(log) \cup {e} \subseteq together
    /\ log' = Append(log, e)
    /\ TipMoves

InitiateOutbound(s) ==
    /\ Emit(s)
    /\ outcome' = [outcome EXCEPT ![s] = "open"]
    /\ UNCHANGED <<age, finTx, bitcoin, store, queues, event, send, redeem,
                   fin, bounds, history>>

FinalizeInbound(h) ==
    /\ Emit(h)
    /\ UNCHANGED <<outcome, age, finTx, bitcoin, store, queues, event, send,
                   redeem, fin, bounds, history>>

Accepted(s) == {i \in DOMAIN paid[s] : paid[s][i] # "missing"}
\* The payments the store knows of, or is about to.
Tracked(s) == {i \in Accepted(s) : <<s, i>> \notin orphans}

\* The payment the handler has in hand.
UnderWay ==
    IF send.at \in {"broadcast", "sent"}
    THEN {<<Head(sendJobs), Len(paid[Head(sendJobs)])>>} ELSE {}

\* The payments that are being brought to their finalization.
FollowedUp(s) == {i \in Accepted(s) : <<s, i>> \in pending \cup UnderWay}

\* Blocks are counted for open swaps of ours only: nobody asks the age of others.
Ages(s) == s \in Ours /\ OpenSwap(s) /\ age[s] < Expiration

\* Blocks come as fast as the environment's timeliness allows.
Tick ==
    /\ \E s \in Swaps : Ages(s)
    /\ send.at = "checked" => send.blocks < SendWithin
    /\ \A s \in Swaps :
         OpenSwap(s) /\ FollowedUp(s) # {} => wait[s] < SettleWithin
    /\ age' = [s \in Swaps |-> IF Ages(s) THEN age[s] + 1 ELSE age[s]]
    /\ wait' = [s \in Swaps |->
                  IF OpenSwap(s) /\ FollowedUp(s) # {} THEN wait[s] + 1 ELSE wait[s]]
    /\ send' = IF send.at = "checked" THEN [send EXCEPT !.blocks = @ + 1] ELSE send
    /\ TipMoves
    /\ UNCHANGED <<log, outcome, finTx, paid, spent, store, queues, event,
                   redeem, fin, bounds, history>>

Complete(s, how) ==
    /\ outcome' = [outcome EXCEPT ![s] = how]
    /\ age' = [age EXCEPT ![s] = 0]
    /\ wait' = [wait EXCEPT ![s] = 0]

RevokeOutbound(s) ==
    /\ OpenSwap(s) /\ age[s] >= Expiration
    /\ Complete(s, "revoked")
    /\ TipMoves
    /\ UNCHANGED <<log, finTx, paid, spent, store, queues, event, send,
                   redeem, fin, bounds, history>>

\* A finalization succeeds unless the swap is completed.
MineFinalize(s, i) ==
    /\ i \in DOMAIN finTx[s] /\ finTx[s][i] = "pending"
    /\ IF OpenSwap(s)
       THEN /\ Complete(s, "finalized")
            /\ finTx' = [finTx EXCEPT ![s][i] = "success"]
       ELSE /\ finTx' = [finTx EXCEPT ![s][i] = "failed"]
            /\ UNCHANGED <<outcome, age, wait>>
    /\ TipMoves
    /\ UNCHANGED <<log, paid, spent, store, queues, event, send, redeem, fin,
                   bounds, history>>

\* Dropped from the mempool, or aborted for its block headers.
RejectFinalize(s, i) ==
    /\ i \in DOMAIN finTx[s] /\ finTx[s][i] = "pending"
    /\ faults < MaxFaults
    /\ faults' = faults + 1
    /\ finTx' = [finTx EXCEPT ![s][i] = "failed"]
    /\ TipMoves
    /\ UNCHANGED <<log, outcome, age, bitcoin, store, queues, event, send,
                   redeem, fin, crashes, history>>

ConfirmPayment(s, i) ==
    /\ i \in DOMAIN paid[s] /\ paid[s][i] = "mempool"
    /\ paid' = [paid EXCEPT ![s][i] = "confirmed"]
    /\ UNCHANGED <<stacks, wait, spent, store, queues, handlers, bounds, history>>

Spend(h, from, to) ==
    /\ spent[h] = from
    /\ spent' = [spent EXCEPT ![h] = to]
    /\ UNCHANGED <<stacks, paid, wait, store, queues, handlers, bounds, history>>

ConfirmRedeem(h) == Spend(h, "mempool", "redeemed")

\* The swapper takes its bitcoin back, as it may when the HTLC has expired.
RefundHtlc(h) == Spend(h, "locked", "refunded")

-----------------------------------------------------------------------------
(* eventCronJob *)

\* getContractEventsUntil: the events, newest first, down to the last one seen.
EventsUntil(last) ==
    LET older == {i \in DOMAIN log : log[i] = last}
        from == IF older = {} THEN 1 ELSE (CHOOSE i \in older : TRUE) + 1
        news == Len(log) - from + 1
    IN  [i \in 1 .. news |-> log[Len(log) + 1 - i]]

\* A repeat that would find nothing new is left out.
ReadLastSeen ==
    /\ cron.at = NoJob
    /\ EventsUntil(lastSeen) # <<>>
    /\ cron' = [cron EXCEPT !.at = "reading", !.last = lastSeen, !.moved = FALSE]
    /\ UNCHANGED <<stacks, bitcoin, store, queues, event, send, redeem, fin,
                   bounds, history>>

\* Nothing is done if the tip moved since the start: the next repeat tries again.
FetchEvents ==
    /\ cron.at = "reading"
    /\ cron' = IF cron.moved
               THEN CronIdle
               ELSE [cron EXCEPT !.at = "fetched", !.moved = FALSE,
                                 !.events = EventsUntil(cron.last)]
    /\ UNCHANGED <<stacks, bitcoin, store, queues, event, send, redeem, fin,
                   bounds, history>>

\* Mutant of NewestSeen: what is newest now has not all been fetched.
NewestInLog == log[Len(log)]

NewestSeen == Head(cron.events)

StoreLastSeen ==
    /\ cron.at = "fetched"
    /\ lastSeen' = NewestSeen
    /\ cron' = [cron EXCEPT !.at = "stored"]
    /\ UNCHANGED <<stacks, bitcoin, sent, pending, finalized, redeemed, queues,
                   event, send, redeem, fin, bounds, history>>

QueueEvents ==
    /\ cron.at = "stored"
    /\ eventJobs' = eventJobs \o cron.events
    /\ queued' = queued \cup Range(cron.events)
    /\ cron' = CronIdle
    /\ UNCHANGED <<stacks, bitcoin, store, sendJobs, redeemJobs, stalled, event,
                   send, redeem, fin, bounds, missed, orphans, givenUp>>

-----------------------------------------------------------------------------
(* eventJobHandler *)

RedeemJob(h) == [htlc |-> h, attempts |-> 0, stalled |-> FALSE]

EndEvent ==
    /\ eventJobs' = Tail(eventJobs)
    /\ stalled' = stalled \ {"event"}
    /\ event' = NoJob

\* A job is active from here on.
TakeEvent ==
    /\ event = NoJob /\ eventJobs # <<>>
    /\ event' = "taken"
    /\ UNCHANGED <<stacks, bitcoin, store, queues, cron, send, redeem, fin,
                   bounds, history>>

\* The event becomes a job of the queue of its kind; this job is still active.
HandleEvent ==
    /\ event = "taken"
    /\ LET e == Head(eventJobs)
       IN  IF e \in Swaps
           THEN sendJobs' = Append(sendJobs, e) /\ UNCHANGED redeemJobs
           ELSE /\ redeemJobs' = Append(redeemJobs, RedeemJob(e))
                /\ UNCHANGED sendJobs
    /\ event' = "added"
    /\ UNCHANGED <<stacks, bitcoin, store, eventJobs, stalled, cron, send,
                   redeem, fin, bounds, history>>

FinishEvent ==
    /\ event = "added"
    /\ EndEvent
    /\ UNCHANGED <<stacks, bitcoin, store, sendJobs, redeemJobs, cron, send,
                   redeem, fin, bounds, history>>

\* getTransactionEvent, or the add, throws; the queue's jobs have one attempt.
EventThrows ==
    /\ event = "taken"
    /\ faults < MaxFaults
    /\ faults' = faults + 1
    /\ missed' = missed \cup {Head(eventJobs)}
    /\ EndEvent
    /\ UNCHANGED <<stacks, bitcoin, store, sendJobs, redeemJobs, cron, send,
                   redeem, fin, crashes, queued, orphans, givenUp>>

-----------------------------------------------------------------------------
(* processOutboundSwap *)

EndSend ==
    /\ sendJobs' = Tail(sendJobs)
    /\ stalled' = stalled \ {"send"}
    /\ send' = [at |-> NoJob, blocks |-> 0]

\* Mutants of ShouldSend: what the store says of the swap is not asked, and
\* the age from which it is late is one block more.
ShouldSendAgain(s) == s \in Ours /\ ~Completed(s) /\ age[s] < Cutoff
ShouldSendLater(s) ==
    s \in Ours /\ sent[s] = 0 /\ ~Completed(s) /\ age[s] <= Cutoff

ShouldSend(s) == s \in Ours /\ sent[s] = 0 /\ ~Completed(s) /\ age[s] < Cutoff

TakeSend ==
    /\ send.at = NoJob /\ sendJobs # <<>>
    /\ send' = [at |-> "taken", blocks |-> 0]
    /\ UNCHANGED <<stacks, bitcoin, store, queues, cron, event, redeem, fin,
                   bounds, history>>

CheckOutbound ==
    /\ send.at = "taken"
    /\ IF ShouldSend(Head(sendJobs))
       THEN /\ send' = [at |-> "checked", blocks |-> 0]
            /\ UNCHANGED <<sendJobs, stalled>>
       ELSE EndSend
    /\ UNCHANGED <<stacks, bitcoin, store, eventJobs, redeemJobs, cron, event,
                   redeem, fin, bounds, history>>

Pay(s, status) ==
    /\ paid' = [paid EXCEPT ![s] = Append(@, status)]
    /\ wait' = [wait EXCEPT ![s] = 0]

SendBtc ==
    /\ send.at = "checked"
    /\ Pay(Head(sendJobs), "mempool")
    /\ send' = [at |-> "broadcast", blocks |-> 0]
    /\ UNCHANGED <<stacks, spent, store, queues, cron, event, redeem, fin,
                   bounds, history>>

\* tryBroadcast takes inputs-missingorspent for a transaction already sent.
SendMissing ==
    /\ send.at = "checked"
    /\ faults < MaxFaults
    /\ faults' = faults + 1
    /\ Pay(Head(sendJobs), "missing")
    /\ send' = [at |-> "broadcast", blocks |-> 0]
    /\ UNCHANGED <<stacks, spent, store, queues, cron, event, redeem, fin,
                   crashes, history>>

\* The transaction is accepted, but its answer is an error: the job fails.
SendAnswerLost ==
    /\ send.at = "checked"
    /\ faults < MaxFaults
    /\ faults' = faults + 1
    /\ LET s == Head(sendJobs)
       IN  /\ Pay(s, "mempool")
           /\ orphans' = orphans \cup {<<s, Len(paid[s]) + 1>>}
    /\ EndSend
    /\ UNCHANGED <<stacks, spent, store, eventJobs, redeemJobs, cron, event,
                   redeem, fin, crashes, queued, missed, givenUp>>

\* The payment that is broadcast and not in the store yet.  One that is in the
\* store and not on the list is "sent": the job, run again, skips it.
Unrecorded == IF send.at = "broadcast" THEN UnderWay ELSE {}

\* The node, electrum, coin selection or the store fail; jobs of this queue
\* have one attempt.
SendThrows ==
    /\ send.at # NoJob
    /\ faults < MaxFaults
    /\ faults' = faults + 1
    /\ orphans' = orphans \cup Unrecorded
    /\ EndSend
    /\ UNCHANGED <<stacks, bitcoin, store, eventJobs, redeemJobs, cron, event,
                   redeem, fin, crashes, queued, missed, givenUp>>

SetSentOutbound ==
    /\ send.at = "broadcast"
    /\ LET s == Head(sendJobs) IN sent' = [sent EXCEPT ![s] = Len(paid[s])]
    /\ send' = [at |-> "sent", blocks |-> 0]
    /\ UNCHANGED <<stacks, bitcoin, lastSeen, pending, finalized, redeemed,
                   queues, cron, event, redeem, fin, bounds, history>>

SetPendingFinalized ==
    /\ send.at = "sent"
    /\ LET s == Head(sendJobs) IN pending' = pending \cup {<<s, sent[s]>>}
    /\ EndSend
    /\ UNCHANGED <<stacks, bitcoin, lastSeen, sent, finalized, redeemed,
                   eventJobs, redeemJobs, cron, event, redeem, fin, bounds,
                   history>>

-----------------------------------------------------------------------------
(* processPendingOutbounds, one member at a time *)

\* Mutant of MayDrop: a finalization that failed is never tried again.
MayDropFailed(s, status) == status \in {"success", "failed"}

\* A finalization that failed is given up only if the swap is completed.
MayDrop(s, status) == status = "success" \/ (status = "failed" /\ Completed(s))

\* The status of the finalization on record.
Status(s) == finTx[s][finalized[s]]

\* Mutant of NoneUnderWay: nothing is tried again unless it succeeded.
NoneHasFailed(s) == finalized[s] > 0 => Status(s) = "success"

NoneUnderWay(s) == finalized[s] > 0 => Status(s) # "pending"

\* checkShouldFinalize.  That of a payment bitcoin does not know throws.
CheckShouldFinalize(s, i) ==
    /\ fin.at = NoJob
    /\ <<s, i>> \in pending /\ paid[s][i] = "confirmed"
    /\ NoneUnderWay(s)
    /\ IF finalized[s] > 0 /\ MayDrop(s, Status(s))
       THEN pending' = pending \ {<<s, i>>} /\ UNCHANGED fin
       ELSE fin' = [at |-> "should", key |-> <<s, i>>] /\ UNCHANGED pending
    /\ UNCHANGED <<stacks, bitcoin, lastSeen, sent, finalized, redeemed, queues,
                   cron, event, send, redeem, bounds, history>>

SubmitFinalize ==
    /\ fin.at = "should"
    /\ finTx' = [finTx EXCEPT ![fin.key[1]] = Append(@, "pending")]
    /\ fin' = [fin EXCEPT !.at = "submitted"]
    /\ UNCHANGED <<log, outcome, age, bitcoin, store, queues, cron, event, send,
                   redeem, bounds, history>>

\* No Stacks block yet, or an error: logged, and left to the next repeat.
SubmitThrows ==
    /\ fin.at = "should"
    /\ fin' = FinIdle
    /\ UNCHANGED <<stacks, bitcoin, store, queues, cron, event, send, redeem,
                   bounds, history>>

SetFinalizedOutbound ==
    /\ fin.at = "submitted"
    /\ LET s == fin.key[1]
       IN  finalized' = [finalized EXCEPT ![s] = Len(finTx[s])]
    /\ fin' = FinIdle
    /\ UNCHANGED <<stacks, bitcoin, lastSeen, sent, pending, redeemed, queues,
                   cron, event, send, redeem, bounds, history>>

-----------------------------------------------------------------------------
(* processFinalizedInbound *)

EndRedeem == redeemJobs' = Tail(redeemJobs) /\ redeem' = NoJob

TakeRedeem ==
    /\ redeem = NoJob /\ redeemJobs # <<>>
    /\ redeem' = "taken"
    /\ UNCHANGED <<stacks, bitcoin, store, queues, cron, event, send, fin,
                   bounds, history>>

RedeemSkipped ==
    /\ redeem = "taken"
    /\ Head(redeemJobs).htlc \in redeemed
    /\ EndRedeem
    /\ UNCHANGED <<stacks, bitcoin, store, eventJobs, sendJobs, stalled, cron,
                   event, send, fin, bounds, history>>

\* Broadcast, or refused as inputs-missingorspent, which is taken for redeemed
\* before, also when it was the swapper who spent the HTLC.
Redeem ==
    /\ redeem = "taken"
    /\ LET h == Head(redeemJobs).htlc
       IN  /\ h \notin redeemed
           /\ \/ spent[h] = "locked" /\ spent' = [spent EXCEPT ![h] = "mempool"]
              \/ spent[h] \in {"redeemed", "refunded"} /\ UNCHANGED spent
    /\ redeem' = "broadcast"
    /\ UNCHANGED <<stacks, paid, wait, store, queues, cron, event, send, fin,
                   bounds, history>>

\* Mutant of Requeue: the queue has the default of one attempt.
RequeueNever(j) == Tail(redeemJobs)

LastAttempt(j) == j.attempts + 1 >= Attempts

\* A failed job waits, behind the others, if it has an attempt left.
Requeue(j) ==
    IF LastAttempt(j)
    THEN Tail(redeemJobs)
    ELSE Append(Tail(redeemJobs), [j EXCEPT !.attempts = @ + 1])

\* An error, after which the transaction may or may not be in the mempool;
\* and always one if it is there already, or, unchanged, in the chain.
RedeemThrows ==
    /\ redeem = "taken"
    /\ LET j == Head(redeemJobs)
       IN  /\ j.htlc \notin redeemed
           /\ \/ /\ spent[j.htlc] = "locked"
                 /\ faults < MaxFaults
                 /\ faults' = faults + 1
                 /\ \E status \in {"locked", "mempool"} :
                      spent' = [spent EXCEPT ![j.htlc] = status]
              \/ /\ spent[j.htlc] # "locked"
                 /\ UNCHANGED <<spent, faults>>
           /\ redeemJobs' = Requeue(j)
           /\ givenUp' = IF LastAttempt(j) THEN givenUp \cup {j.htlc} ELSE givenUp
    /\ redeem' = NoJob
    /\ UNCHANGED <<stacks, paid, wait, store, eventJobs, sendJobs, stalled, cron,
                   event, send, fin, crashes, queued, missed, orphans>>

SetRedeemedHTLC ==
    /\ redeem = "broadcast"
    /\ redeemed' = redeemed \cup {Head(redeemJobs).htlc}
    /\ EndRedeem
    /\ UNCHANGED <<stacks, bitcoin, lastSeen, sent, pending, finalized,
                   eventJobs, sendJobs, stalled, cron, event, send, fin, bounds,
                   history>>

-----------------------------------------------------------------------------
(* The process stops and is started again. *)

\* The queues, of those without retries, whose first job a handler has.
Active ==
    (IF event # NoJob THEN {"event"} ELSE {})
        \cup (IF send.at # NoJob THEN {"send"} ELSE {})

\* Bull runs an active job again, but fails one that stalls a second time.
FailedFor(q) == q \in Active \cap stalled
AfterCrash(q, jobs) == IF FailedFor(q) THEN Tail(jobs) ELSE jobs

\* A job that is tried again is one job, and keeps the mark that it stalled.
RedeemFailed == redeem # NoJob /\ Head(redeemJobs).stalled
RedeemAfterCrash ==
    IF redeem = NoJob THEN redeemJobs
    ELSE IF RedeemFailed THEN Tail(redeemJobs)
    ELSE [redeemJobs EXCEPT ![1].stalled = TRUE]

Crash ==
    /\ crashes < MaxCrashes
    /\ crashes' = crashes + 1
    /\ cron' = CronIdle /\ event' = NoJob /\ redeem' = NoJob /\ fin' = FinIdle
    /\ send' = [at |-> NoJob, blocks |-> 0]
    /\ eventJobs' = AfterCrash("event", eventJobs)
    /\ sendJobs' = AfterCrash("send", sendJobs)
    /\ redeemJobs' = RedeemAfterCrash
    /\ stalled' = (stalled \cup Active) \ (stalled \cap Active)
    /\ missed' = missed
         \cup (IF cron.at = "stored" THEN Range(cron.events) ELSE {})
         \cup (IF FailedFor("event") /\ event = "taken"
               THEN {Head(eventJobs)} ELSE {})
    /\ givenUp' = givenUp
         \cup (IF RedeemFailed /\ redeem = "taken"
               THEN {Head(redeemJobs).htlc} ELSE {})
    /\ orphans' = orphans \cup Unrecorded
    /\ UNCHANGED <<stacks, bitcoin, store, faults, queued>>

-----------------------------------------------------------------------------
Server ==
    \/ ReadLastSeen \/ FetchEvents \/ StoreLastSeen \/ QueueEvents
    \/ TakeEvent \/ HandleEvent \/ FinishEvent \/ EventThrows
    \/ TakeSend \/ CheckOutbound \/ SendBtc \/ SendMissing \/ SendAnswerLost
    \/ SendThrows \/ SetSentOutbound \/ SetPendingFinalized
    \/ \E s \in Swaps : \E i \in DOMAIN paid[s] : CheckShouldFinalize(s, i)
    \/ SubmitFinalize \/ SubmitThrows \/ SetFinalizedOutbound
    \/ TakeRedeem \/ RedeemSkipped \/ Redeem \/ RedeemThrows \/ SetRedeemedHTLC
    \/ Crash

Chains ==
    \/ \E s \in Swaps :
        \/ InitiateOutbound(s)
        \/ RevokeOutbound(s)
        \/ \E i \in DOMAIN paid[s] : ConfirmPayment(s, i)
        \/ \E i \in DOMAIN finTx[s] : MineFinalize(s, i) \/ RejectFinalize(s, i)
    \/ \E h \in Htlcs : FinalizeInbound(h) \/ ConfirmRedeem(h) \/ RefundHtlc(h)
    \/ Tick

Next == Server \/ Chains

Spec == Init /\ [][Next]_vars

\* The repeated jobs are repeated and their handlers, once started, go on;
\* what is broadcast is mined.  A node that could be asked again and again does
\* not refuse every time.
FairSpec ==
    /\ Spec
    /\ WF_vars(ReadLastSeen) /\ WF_vars(FetchEvents)
    /\ WF_vars(StoreLastSeen) /\ WF_vars(QueueEvents)
    /\ WF_vars(TakeEvent) /\ WF_vars(HandleEvent) /\ WF_vars(FinishEvent)
    /\ WF_vars(TakeRedeem)
    /\ WF_vars(RedeemSkipped \/ Redeem \/ RedeemThrows) /\ WF_vars(SetRedeemedHTLC)
    /\ SF_vars(SubmitFinalize) /\ WF_vars(SetFinalizedOutbound)
    /\ \A s \in Ours :
        /\ SF_vars(\E i \in DOMAIN paid[s] : CheckShouldFinalize(s, i))
        /\ WF_vars(\E i \in DOMAIN paid[s] : ConfirmPayment(s, i))
        /\ WF_vars(\E i \in DOMAIN finTx[s] : MineFinalize(s, i))
    /\ \A h \in Htlcs : WF_vars(ConfirmRedeem(h))

-----------------------------------------------------------------------------
(* Properties *)

\* Whatever queues and crashes make of its job, a swap is paid again only if
\* the store has no record of having paid it: of several payments all but one
\* are lost to a stop, or an error, between broadcast and record.
PaidOnce == \A s \in Swaps : \A i, j \in Tracked(s) : i = j

\* What is on pendingFinalizedOutbound leaves it only when the contract has
\* completed the swap: a payment is not forgotten for a finalization that
\* failed.  It says nothing of a payment that never got there, whose job ended
\* between setSentOutbound and setPendingFinalizedOutbound: nobody finalizes it.
ListedUntilCompleted ==
    [][\A k \in pending \ pending' : Completed(k[1])]_vars

\* The supplier stops paying early enough: a swap with a payment that the server
\* still has in hand or on its list is not revoked, if bitcoin, the node and the
\* server, its stops and refused finalizations included, take no more than
\* SendWithin and SettleWithin blocks.  Whose payment lost its record or its
\* place on the list may also get its xBTC back.
PaidNeverRevoked ==
    \A s \in Swaps : outcome[s] = "revoked" => FollowedUp(s) = {}

Position(e) == CHOOSE i \in DOMAIN log : log[i] = e

\* The events up to the last one seen.
SeenEvents ==
    IF lastSeen = NoEvent THEN {}
    ELSE {log[i] : i \in 1 .. Position(lastSeen)}

\* No event is passed over: what lies before the last event seen has been
\* queued, is about to be, or was lost to a stop after lastSeen was stored.
SeenEventsQueued ==
    SeenEvents \subseteq
        queued \cup missed \cup (IF cron.at = "stored" THEN Range(cron.events)
                                                   ELSE {})

\* The bitcoin of an inbound swap that was finalized is redeemed in the end,
\* unless the swapper took it back, the event was lost (EventThrows, or a stop:
\* missed), or Bull gave the job up, after its last attempt or a second stall.
RedeemedInTheEnd ==
    \A h \in Htlcs :
        h \in Range(log) ~>
            spent[h] \in {"redeemed", "refunded"} \/ h \in missed \cup givenUp

ToSettle(s) == {i \in Accepted(s) : <<s, i>> \in pending}

\* A recorded payment that bitcoin knows is finalized, or found completed, in
\* the end, whatever stops or fails in between.
PaymentsSettle ==
    \A s \in Ours : ToSettle(s) # {} ~> ToSettle(s) = {}
=============================================================================
