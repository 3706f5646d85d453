---------------------------- MODULE StackingPool ----------------------------
(***************************************************************************)
(* The stacking pool (stacking-pool.clar): the liquidity provider's funds,   *)
(* the stackers that delegate to the pool, what the pool locks for them in   *)
(* PoX, the weights computed in a cycle's prepare phase for the cycle that   *)
(* follows, and the rewards paid by them.                                    *)
(*                                                                         *)
(* Heights are kept as a cycle and a part of it, and heights at which locks   *)
(* end as the cycle that starts there.  The blocks between the last in which *)
(* extra funds are unlocked and the first in which delegate-stack-stx locks  *)
(* (300 of them) allow neither and are left out, and a cycle has one block   *)
(* that can be won.  Calls are direct (tx-sender = contract-caller), so that *)
(* the pool's own allowances play no part, and PoX allowances and            *)
(* delegations have no expiry.  What is written and never read by the        *)
(* contract is left out: amount-rewarded, blocks-rewarded, last-aggregation, *)
(* burn-block-rewards but for the amount of the block being paid.            *)
(* `balance', `fees' and `paidOut' are history variables.                    *)
(***************************************************************************)
EXTENDS Integers, Sequences, SequencesExt, FiniteSetsExt

CONSTANTS
    Principals,
    Provider,      \* liquidity-provider
    Callers,       \* bound: who deals with the pool in this instance
    Amounts,       \* the amounts stackers delegate
    Wealth,        \* what each of them owns, locked or not
    Buffer,        \* what lock-delegated-stx leaves unlocked (ONE-6)
    One,           \* the weight of the whole (ONE-6)
    Deposits,      \* the amounts of the provider's calls
    MaxDeposits,   \* bound of what it deposits in all
    MinReserve,    \* minimum-deposit-amount-liquidity-provider
    Returns,       \* the values of return-div
    MaxReturn,     \* max-return-div-accepted
    Rewards,       \* what swap-preview answers for a block's reward; 0: an error
    Addresses,     \* the values of pool-pox-address
    FirstCycle, LastCycle,  \* bounds of the current cycle
    MaxPeriod,     \* MAX_POX_REWARD_CYCLES
    MaxStackers    \* how long stackers-list may get (300)

ASSUME ProviderAssumption == Provider \in Principals /\ Callers \subseteq Principals
ASSUME CyclesAssumption == FirstCycle \in Nat /\ LastCycle \in Nat
ASSUME AmountsAssumption ==
    /\ Amounts \cup Deposits \cup Rewards \subseteq Nat
    /\ Returns \subseteq Nat /\ MaxReturn \in Nat
    /\ Wealth \in Nat /\ Buffer \in Nat /\ One \in Nat \ {0}
    /\ MaxStackers \in Nat \ {0}
\* PoX is older than the longest lock.
ASSUME PeriodAssumption == MaxPeriod \in Nat \ {0} /\ MaxPeriod < FirstCycle

VARIABLES
    cycle, phase,           \* burn-block-height
    wonBy,                  \* the address that won the block of a cycle
    pox,                    \* PoX: allowance, delegation and lock of each
    total, owned, reserved, \* sc-total-balance, sc-owned-, sc-reserved-
    returnDiv, active, poxAddress,
    scDelegated, scLocked,  \* sc-delegated-balance, sc-locked-balance
    stackers, data,         \* stackers-list, user-data
    committed,              \* pox-addr-indices: the address PoX has for a cycle
    updated, lists, weights,\* updated-sc-balances, stacker-weights-per-reward-cycle
    alreadyRewarded,
    balance, fees, paidOut

clock == <<cycle, phase, wonBy>>
funds == <<total, owned, reserved, balance, fees, paidOut>>
settings == <<returnDiv, active, poxAddress>>
members == <<stackers, data>>
sums == <<scDelegated, scLocked>>
cycles == <<updated, lists, weights>>
poolVars == <<clock, pox, funds, settings, members, sums, cycles, committed,
              alreadyRewarded>>

-----------------------------------------------------------------------------
Cycles == FirstCycle .. LastCycle
Nobody == "none"
NoPox == [allowed |-> FALSE, delegated |-> 0, locked |-> 0, first |-> 0,
          unlock |-> 0]
\* what default-to makes of a missing entry of user-data
NoData == [known |-> FALSE, inPool |-> FALSE, delegated |-> 0, locked |-> 0,
           until |-> 0]
Joined == [NoData EXCEPT !.known = TRUE, !.inPool = TRUE]

Init ==
    /\ cycle = FirstCycle /\ phase = "first"
    /\ wonBy = [c \in Cycles |-> Nobody]
    /\ pox = [p \in Principals |-> NoPox]
    /\ total = 0 /\ owned = 0 /\ reserved = 0
    /\ returnDiv \in Returns \ {0} /\ active = TRUE /\ poxAddress \in Addresses
    /\ scDelegated = 0 /\ scLocked = 0
    /\ stackers = <<Provider>>
    /\ data = [p \in Principals |-> IF p = Provider THEN Joined ELSE NoData]
    /\ committed = [c \in Cycles |-> Nobody]
    /\ updated = {} /\ alreadyRewarded = {}
    /\ lists = [c \in Cycles |-> <<>>]
    /\ weights = [c \in Cycles |-> [p \in Principals |-> 0]]
    /\ balance = 0 /\ fees = 0 /\ paidOut = 0

-----------------------------------------------------------------------------
(* Bitcoin and PoX *)

NextPart(part) == CASE part = "first" -> "second"
                    [] part = "second" -> "prepare"
                    [] part = "prepare" -> "first"

\* With the first part of a cycle its block has been won, by the address that
\* was committed for the cycle, or by others.
BlockWon ==
    \/ UNCHANGED wonBy
    \/ /\ phase = "first"
       /\ wonBy' = [wonBy EXCEPT ![cycle] = committed[cycle]]

\* Locks end with the cycle before their unlock height.
Unlocked(entry, now) ==
    IF entry.unlock <= now
    THEN [entry EXCEPT !.locked = 0, !.first = 0, !.unlock = 0]
    ELSE entry

AdvancePhase ==
    /\ phase' = NextPart(phase)
    /\ cycle' = IF phase = "prepare" THEN cycle + 1 ELSE cycle
    /\ cycle' <= LastCycle
    /\ pox' = [p \in Principals |-> Unlocked(pox[p], cycle')]
    /\ BlockWon
    /\ UNCHANGED <<funds, settings, members, sums, cycles, committed,
                   alreadyRewarded>>

\* Only PoX changes: what a principal does there without the pool.
InPox(p, entry) ==
    /\ pox' = [pox EXCEPT ![p] = entry]
    /\ UNCHANGED <<clock, funds, settings, members, sums, cycles, committed,
                   alreadyRewarded>>

AllowPool(p) == InPox(p, [pox[p] EXCEPT !.allowed = TRUE])
DisallowPool(p) == InPox(p, [pox[p] EXCEPT !.allowed = FALSE])
RevokeDelegateStx(p) == InPox(p, [pox[p] EXCEPT !.delegated = 0])

\* delegate-stx of PoX, called by the stacker itself
DelegateInPox(p, amount) ==
    /\ pox[p].delegated = 0
    /\ InPox(p, [pox[p] EXCEPT !.delegated = amount])

-----------------------------------------------------------------------------
(* The liquidity provider's calls *)

OnlyFunds == UNCHANGED <<clock, pox, settings, members, sums, cycles, committed,
                         alreadyRewarded, fees, paidOut>>

Deposit(amount) ==
    /\ total + amount <= MaxDeposits
    /\ total' = total + amount
    /\ owned' = owned + amount
    /\ balance' = balance + amount
    /\ UNCHANGED reserved
    /\ OnlyFunds

\* The transfer fails if the contract has less than it accounts for.
Withdraw(amount) ==
    /\ amount <= owned /\ amount <= total /\ amount <= balance
    /\ total' = total - amount
    /\ owned' = owned - amount
    /\ balance' = balance - amount
    /\ UNCHANGED reserved
    /\ OnlyFunds

ReserveFunds(amount) ==
    /\ amount <= owned
    /\ amount + reserved >= MinReserve
    /\ owned' = owned - amount
    /\ reserved' = reserved + amount
    /\ UNCHANGED <<total, balance>>
    /\ OnlyFunds

\* Without a return-div, which update-return may set to 0, the division aborts.
ExtraReserved == reserved - scLocked \div returnDiv

UnlockExtra ==
    /\ phase = "first"
    /\ returnDiv # 0
    /\ ExtraReserved >= 0
    /\ reserved' = reserved - ExtraReserved
    /\ owned' = owned + ExtraReserved
    /\ UNCHANGED <<total, balance>>
    /\ OnlyFunds

Settings == UNCHANGED <<clock, pox, funds, members, sums, cycles, committed,
                        alreadyRewarded>>

SetPoolPoxAddress(address) ==
    poxAddress' = address /\ UNCHANGED <<returnDiv, active>> /\ Settings

SetActive(isActive) ==
    active' = isActive /\ UNCHANGED <<returnDiv, poxAddress>> /\ Settings

UpdateReturn(value) ==
    /\ value <= MaxReturn /\ value # returnDiv
    /\ returnDiv' = value
    /\ UNCHANGED <<active, poxAddress>> /\ Settings

-----------------------------------------------------------------------------
(* Membership *)

JoinPool(p) ==
    /\ pox[p].allowed
    /\ ~data[p].known
    /\ Len(stackers) < MaxStackers
    /\ stackers' = Append(stackers, p)
    /\ data' = [data EXCEPT ![p] = Joined]
    /\ UNCHANGED <<clock, pox, funds, settings, sums, cycles, committed,
                   alreadyRewarded>>

\* remove-stacker-stackers-list filters the list.
Without(list, p) ==
    FoldLeft(LAMBDA kept, q : IF q = p THEN kept ELSE Append(kept, q), <<>>, list)

\* What is locked for p may still be.
QuitPool(p) ==
    /\ pox[p].delegated = 0 /\ ~pox[p].allowed
    /\ data[p].known /\ p # Provider
    /\ stackers' = Without(stackers, p)
    /\ data' = [data EXCEPT ![p] = NoData]
    /\ UNCHANGED <<clock, pox, funds, settings, sums, cycles, committed,
                   alreadyRewarded>>

-----------------------------------------------------------------------------
(* Delegating and locking.  A call works on the records of one principal and  *)
(* the sums: px and ud of PoX and user-data, sc-delegated- and               *)
(* sc-locked-balance; where a step of it cannot be taken the call is rolled  *)
(* back.                                                                    *)

Now(p) == [px |-> pox[p], ud |-> data[p], deleg |-> scDelegated,
           lock |-> scLocked]

\* delegate-stx-inner: the delegation before, if PoX had one, is taken off the
\* sum, which update-sc-balances may have computed without it.
Before(s) == IF s.px.delegated > 0 THEN s.ud.delegated ELSE 0

Delegated(s, amount) ==
    [s EXCEPT !.px.delegated = amount,
              !.ud.known = TRUE, !.ud.delegated = amount, !.ud.until = 0,
              !.deleg = @ - Before(s) + amount]

\* lock-delegated-stx; below Buffer it aborts (uint)
AmountToLock(s) ==
    (IF s.px.delegated < Wealth THEN s.px.delegated ELSE Wealth) - Buffer

Lockable(s) == active /\ s.px.delegated > 0 /\ AmountToLock(s) >= 0

\* delegate-stack-stx of PoX: the next cycle, for one who has nothing locked
LocksFirst(s) == s.px.locked = 0 /\ AmountToLock(s) > 0

LockedFirst(s) ==
    LET amount == AmountToLock(s)
    IN  [s EXCEPT !.px.locked = amount, !.px.first = cycle + 1,
                  !.px.unlock = cycle + 2,
                  !.ud.known = TRUE, !.ud.locked = amount, !.ud.until = cycle + 2,
                  !.lock = @ + amount]

\* delegate-stack-extend of PoX: one cycle more than is locked already.  The
\* pool adds a cycle to the end it has recorded, if it has one.
Extends(s) ==
    LET first == IF cycle > s.px.first THEN cycle ELSE s.px.first
    IN  /\ s.px.locked > 0
        /\ AmountToLock(s) >= s.px.locked
        /\ s.px.unlock + 1 - first <= MaxPeriod

\* Mutant of Extended: the end is recorded although PoX did not extend.
ExtendedOnRecord(s) ==
    [s EXCEPT !.ud.known = TRUE, !.ud.until = @ + 1]

Extended(s) ==
    [s EXCEPT !.px.unlock = @ + 1, !.ud.known = TRUE, !.ud.until = @ + 1]

\* delegate-stack-increase of PoX, by what the pool has not recorded as locked.
\* The sum grows by what the new record lacks of the amount.
Increase(s) == AmountToLock(s) - s.ud.locked
Increases(s) ==
    /\ Increase(s) > 0
    /\ s.px.locked + Increase(s) <= Wealth
    /\ s.px.locked + Increase(s) <= s.px.delegated
    /\ s.px.locked + Increase(s) <= AmountToLock(s)

Increased(s) ==
    LET locked == s.px.locked + Increase(s)
    IN  [s EXCEPT !.px.locked = locked, !.ud.locked = locked,
                  !.lock = @ + AmountToLock(s) - locked]

\* The pool's records after lock-delegated-stx, none if it fails
Locked(s) ==
    IF ~Lockable(s) THEN {}
    ELSE IF LocksFirst(s) THEN {LockedFirst(s)}
    ELSE IF ~Extends(s) THEN {}
    ELSE IF AmountToLock(s) = s.px.locked THEN {Extended(s)}
    ELSE {Increased(t) : t \in {u \in {Extended(s)} : Increases(u)}}

\* maybe-stack-aggregation-commit: PoX may not take the sum yet; once it has,
\* the cycle keeps the address, and an increase of another one is ignored.
Commit ==
    \/ UNCHANGED committed
    \/ /\ cycle < LastCycle /\ committed[cycle + 1] = Nobody
       /\ committed' = [committed EXCEPT ![cycle + 1] = poxAddress]

Record(p, s) ==
    /\ pox' = [pox EXCEPT ![p] = s.px]
    /\ data' = [data EXCEPT ![p] = s.ud]
    /\ scDelegated' = s.deleg
    /\ scLocked' = s.lock
    /\ Commit
    /\ UNCHANGED <<clock, funds, settings, stackers, cycles, alreadyRewarded>>

DelegateStx(p, amount) ==
    /\ pox[p].allowed /\ data[p].inPool
    /\ phase # "prepare"
    /\ Before(Now(p)) <= scDelegated
    /\ \E s \in Locked(Delegated(Now(p), amount)) : Record(p, s)

\* delegate-stack-stx, by anyone, and delegate-stack-stx-many
DelegateStackStx(p) ==
    /\ phase = "second"
    /\ \E s \in Locked(Now(p)) : Record(p, s)

-----------------------------------------------------------------------------
(* The prepare phase *)

\* update-sc-balances-one-stacker: who has an end recorded that is to come
Counted == {p \in Range(stackers) : cycle < data[p].until}
Sum(amount(_), S) == MapThenSumSet(amount, S)
LockedOf(p) == data[p].locked
DelegatedOf(p) == data[p].delegated

\* weight-calculator: every stacker of the list has a weight, counted or not.
\* The provider's reserve weighs for it.
WeightOf(p, locked) ==
    LET whole == locked + reserved
        own == data[p].locked + (IF p = Provider THEN reserved ELSE 0)
    IN  IF whole = 0 THEN 0 ELSE (own * One) \div whole

\* Mutant of MayUpdate: err-already-updated-balances is not asserted.
MayUpdateAgain == phase = "prepare"

MayUpdate == phase = "prepare" /\ cycle + 1 \notin updated

UpdateScBalances ==
    /\ MayUpdate
    /\ cycle < LastCycle
    /\ scLocked' = Sum(LockedOf, Counted)
    /\ scDelegated' = Sum(DelegatedOf, Counted)
    /\ updated' = updated \cup {cycle + 1}
    /\ lists' = [lists EXCEPT ![cycle + 1] = stackers]
    /\ weights' = [weights EXCEPT ![cycle + 1] =
            [p \in Principals |-> IF p \in Range(stackers)
                                  THEN WeightOf(p, scLocked') ELSE @[p]]]
    /\ UNCHANGED <<clock, pox, funds, settings, members, committed,
                   alreadyRewarded>>

-----------------------------------------------------------------------------
(* Rewards *)

Fee(reward) == (2 * reward) \div 100
Share(weight, reward) == (weight * (reward - Fee(reward))) \div One

\* Mutant of PayOne: what is taken off the reserve is taken off the owned, too.
PayOneTwice(books, amount) ==
    [books EXCEPT !.balance = @ - amount, !.owned = @ - amount,
                  !.reserved = IF amount <= @ THEN @ - amount ELSE @]

\* transfer-reward-one-stacker: a transfer of nothing, or of more than there
\* is, fails and is passed over.
PayOne(books, amount) ==
    IF amount <= books.reserved
    THEN [books EXCEPT !.balance = @ - amount, !.reserved = @ - amount]
    ELSE [books EXCEPT !.balance = @ - amount, !.owned = @ - amount]

PaidOne(books, amount) ==
    IF amount \in 1 .. books.balance THEN PayOne(books, amount) ELSE books

\* The books after the transfers for a cycle's block
BooksAfter(c, reward) ==
    FoldLeft(LAMBDA books, p : PaidOne(books, Share(weights[c][p], reward)),
             [balance |-> balance - Fee(reward), owned |-> owned,
              reserved |-> reserved],
             lists[c])

\* transfer-rewards-all-stackers: a fee of nothing cannot be transferred, and
\* a balance below 0 aborts the call (uint).
FeePaid(reward) == Fee(reward) \in 1 .. balance

PayRewards(c, reward) ==
    LET books == BooksAfter(c, reward)
    IN  /\ books.owned >= 0
        /\ balance' = books.balance
        /\ owned' = books.owned
        /\ reserved' = books.reserved
        /\ fees' = fees + Fee(reward)
        /\ paidOut' = paidOut + balance - Fee(reward) - books.balance
        /\ UNCHANGED total

MayReward(c) ==
    /\ wonBy[c] = poxAddress
    /\ c \notin alreadyRewarded

Rewarded(c) ==
    /\ alreadyRewarded' = alreadyRewarded \cup {c}
    /\ UNCHANGED <<clock, pox, settings, members, sums, cycles, committed>>

RewardDistribution(c, reward) ==
    /\ MayReward(c)
    /\ c \in updated
    /\ FeePaid(reward)
    /\ PayRewards(c, reward)
    /\ Rewarded(c)

\* A batch marks the block whether it can be paid or not.
BatchRewardDistribution(c, reward) ==
    /\ MayReward(c)
    /\ \/ c \in updated /\ FeePaid(reward) /\ PayRewards(c, reward)
       \/ ~(c \in updated /\ FeePaid(reward)) /\ UNCHANGED funds
    /\ Rewarded(c)

-----------------------------------------------------------------------------
ProviderStep ==
    \/ \E amount \in Deposits :
        Deposit(amount) \/ Withdraw(amount) \/ ReserveFunds(amount)
    \/ UnlockExtra
    \/ \E address \in Addresses : SetPoolPoxAddress(address)
    \/ \E isActive \in BOOLEAN : SetActive(isActive)
    \/ \E value \in Returns : UpdateReturn(value)

StackerStep(p) ==
    \/ AllowPool(p) \/ DisallowPool(p) \/ RevokeDelegateStx(p)
    \/ JoinPool(p) \/ QuitPool(p)
    \/ \E amount \in Amounts : DelegateInPox(p, amount) \/ DelegateStx(p, amount)
    \/ DelegateStackStx(p)

Next ==
    \/ AdvancePhase
    \/ ProviderStep
    \/ \E p \in Callers : StackerStep(p)
    \/ UpdateScBalances
    \/ \E c \in Cycles, reward \in Rewards :
        RewardDistribution(c, reward) \/ BatchRewardDistribution(c, reward)

Spec == Init /\ [][Next]_poolVars

-----------------------------------------------------------------------------
(* Properties *)

\* Where the contract's STX went: what it holds, and what its management got
\* as its share of the rewards, is what the books say it owns and reserves, and
\* with what stackers were paid it is what the provider put in.  The transfers
\* that fail, and are passed over, and those taken off the one balance where
\* the other is too small, are counted right.
FundsAccounted ==
    /\ balance + fees = owned + reserved
    /\ total = owned + reserved + paidOut
    /\ owned >= 0 /\ reserved >= 0

\* Whom update-sc-balances counts, for a cycle still to come, is locked in PoX
\* with that amount and to that height, whatever the stacker did in PoX itself,
\* and although it may have quit and joined in between.
CountedIsLocked ==
    \A p \in Principals :
        data[p].until > cycle =>
            /\ pox[p].locked = data[p].locked
            /\ pox[p].unlock = data[p].until

\* What the stackers get for a cycle is settled before it starts: no call made
\* in it, and none for another cycle, changes the weights or the list.
WeightsSettled ==
    [][\A c \in updated : weights'[c] = weights[c] /\ lists'[c] = lists[c]]_poolVars

\* "if burn-block-height < user's unlock burn block height, then user's
\* balances" are counted: a stacker of the list whom the pool has locked beyond
\* this cycle is in the sum by which the rewards are divided.
LockedIsCounted ==
    [][UpdateScBalances =>
        \A p \in Range(stackers) :
            pox[p].unlock > cycle + 1 => scLocked' >= pox[p].locked]_poolVars
=============================================================================
