# Stacks pools: a TLA+ model

This directory models the parts of the repository that move votes, money and
bitcoin: the mining pool (`mining-pool.clar`), the stacking pool
(`stacking-pool.clar`), the swap bridge (`degen-bridge-testnet-v3.clar`), the
server a supplier of the bridge runs, and the page that leads a swapper
through an inbound swap. TLC checks the modules on small instances; TLAPS
proves the most important facts for every value of the constants.

    tlc -workers 2 -config MCJoin.cfg MCPoolMembership.tla
    tlapm BridgeProofs.tla

`PROJECT.json` names every run, what it checks, the source lines behind every
definition, and the places of the code that are hard to test.

## The system

Paths are below `src/`. `contracts` stands for
`smart-contracts/smart-contract/contracts`, `pool` for
`contracts/mining-pool.clar`, `stacking` for `contracts/stacking-pool.clar`,
`bridge` for `bridge/smart-contracts/contracts/degen-bridge-testnet-v3.clar`,
`server` for `bridge/supplier-server/src` and `page` for
`bridge/bridge-front-end`.

| Component | State | Operations | What makes it correct |
|---|---|---|---|
| Threshold (pool 458-549, 802-822) | `n`, `k` | admissions, departures, three vote predicates | ballots are decidable, `k` stays in its band |
| Membership (pool 348-691) | `map-is-miner`, `-waiting`, `-pending`, lists beside them, ballots, blocks of requests | ask, vote, quit, enter, leave, propose, vote out | maps agree with lists, votes are counted once and by members, nobody accepted is rejected |
| Notifier election (pool 693-778) | votes, voters, end block, flags | start, vote, end | the seat goes to a member with most votes; elections end |
| Warnings (pool 782-798) | `map-warnings` | warn, reset at admission | one warning per block, or one more round of them after an admission |
| Balances and rewards (pool 278-344, 828-853) | `balance`, totals, claimed blocks, change | deposit, withdraw, distribute, flush | every unit has a source |
| Stacking pool (stacking) | stackers, their data, weights per cycle, the provider's funds; locks in PoX | join, delegate, lock, extend, increase, quit, weigh, reward, fund | what is counted is locked, weights are settled before a cycle, the books are what the contract holds |
| Swap bridge (bridge) | suppliers, swappers, funds, escrows, swaps of two directions, volumes | register, fund, escrow, finalize, revoke | it owes no more than it owns; no swap settles twice; no swapper gets both sides |
| Supplier server (`server/worker`, `server/processors`, `server/store.ts`) | Redis keys, Bull queues, handlers under way | poll events, pay, finalize, redeem | pays once and in time, keeps what it paid on its list until the swap is over, loses no event |
| Inbound swap page (`page/components/inbound`, `page/common/hooks`) | the record of the swap in Gaia, a copy in each page | watch, escrow, finalize, recover | keeps the preimage until the escrow stands, never leaves a payment behind |
| Redeeming script (`smart-contracts/smart-contract/scripts/auto-redeem.js`) | the last block, in a file | ask for rewards | not modelled |
| Bitcoin scripts (`bitcoin-scripting`), other front ends | none of their own | build transactions, show state | not modelled |

**How they interact.** The membership flows call the threshold's functions,
reset warnings and balances when they accept somebody, and read the past with
`at-block`. An election reads the member list and the threshold of the moment
it ends. Distributions read the member list of a past block. The stacking pool
locks in PoX what stackers delegated there, and stackers act in PoX without it.
The bridge reads bitcoin through Merkle proofs and pays in a token. The
supplier server follows the bridge's events, pays on bitcoin and answers on
Stacks; page and server meet only through the bridge. A call of a contract
runs alone and either takes effect or changes nothing.

**What is hard.** In the contracts concurrency is the order of transactions: a
ballot runs over many blocks while its electorate, and the threshold, change;
some values are those of the end of a past block, some of this moment; a vote
of the request's own block is judged by a state that is not final. Departures
leave entries behind (voters' records, votes in an election, proposals). The
stacking pool keeps its own record of locks that PoX extends, and computes
weights, sums and payments in different calls from different fields. The
bridge lives with two clocks, one in Stacks blocks and one in bitcoin blocks,
whose ratio nobody controls, with secrets that failing calls publish, and with
supplier and swapper racing at every deadline. The server adds crashes between
two effects, jobs that Bull runs again, and answers of nodes that get lost; the
page adds puts that overtake each other, tabs that are closed while they wait,
and buttons that are pressed twice.

## The modules

| Module | Role |
|---|---|
| `PoolThreshold` | `n` and `k` alone: the abstract specification of the counters |
| `PoolMembership` | the joining, leaving and removing flows; implements `PoolThreshold` (`ThresholdWalk`) |
| `NotifierElection` | extends `PoolMembership` with the election; implements its seat (`ElectionImplementsSeat`) |
| `MinerWarnings` | `warn-miner` and the reset |
| `PoolRewards` | deposits, withdrawals, distributions, change |
| `StackingPool` | the stacking pool, over PoX as an environment |
| `SwapLedger` | the abstract ledger: value enters a swap once and leaves it once, whole, to the swap's own supplier or to the outside |
| `Bridge` | the bridge contract over bitcoin; implements `SwapLedger` (`BridgeImplementsLedger`) |
| `SupplierServer` | the server's jobs over two chains, a store and queues that survive crashes |
| `SwapClient` | pages of an inbound swap over storage and two chains |
| `MCPoolMembership`, `MCNotifierElection`, `MCBridge` | sets of the instances |
| `PoolRulesProofs` (threshold and warnings), `PoolMembershipProofs` (membership and election), `PoolRewardsProofs`, `StackingPoolProofs`, `BridgeProofs`, `SupplierServerProofs`, `SwapClientProofs` | theorems |
| `FoldTheorems` | lemmas about folds and sums, which four of these use |

Names follow the source in TLA+ spelling: `vote-positive-join-request` is
`VotePositiveJoin`, `supplier-by-public-key` is `supplierByKey`. Each public
function of a contract is one action with all it calls inlined or as an
operator. A call that fails changes nothing and is no step, except in the
bridge: `FinalizeFails` is the refused `finalize-swap` that still published its
preimage. A handler of the server or the page is as many actions as it has
effects, because at an `await` anything else may happen.

Operators whose comment says *Mutant of X* are not part of the model. Each is
`X` with a plausible mistake; put in the place of `X` it makes a property
fail, which shows that the property depends on those lines of the code.

### Correspondence and abstractions

*Membership.* A map from principals to `bool` is a set; a list that the
contract filters is a function to multiplicities, because its order never
matters and its duplicates do. The list of pending principals keeps its order. A block
height is kept as an age, saturated at `blocks-to-pass`, so that runs through
blocks are unbounded. What `at-block` reads is recorded when the block of the
request ends (`askSnap`, `proposalSnap`); before that the contract reads the
current state, as `AtRequest` does. `ask-to-join` takes a
`<<tx-sender, contract-caller>>` pair, as the code writes a list by the one and
maps by the other; the accounts of `MCJoin` call directly. `Founders` with more than one member stands for a state
that the same number of admissions reaches; a run that starts there saves the
admissions.

*Election.* `blocksLeft` is the end block minus the current one. The two
working variables of a call are operators (`MostVoted`).

*Warnings.* `given` and `admitted` are history: the warnings and the admissions
of the current block.

*Rewards.* `deposited`, `credited` and `wiped` are history: they say where the
balances came from. Members come and go freely, as far as the accounts see.

*Stacking pool.* A height is a cycle and one of its parts: `first`, in which
extra funds may be unlocked, `second`, in which stackers are locked, and
`prepare`, in which weights are computed. The end of a lock is the cycle that
starts there. A cycle has one block that can be won, by the address that PoX
took for the cycle when the pool committed (`committed`), whatever
`pool-pox-address` is by then, or by others. PoX (`allowed`, `delegated`,
`locked`, `first`, `unlock` of each principal) is what the calls of the pool to
`pox-3-fake` read and change, for one pool; stackers may revoke in PoX at any
time.
`swap-preview` is an input. Fields that are written and never read by the
contract are left out. `balance`, `fees` and `paidOut` are history.

*Bridge.* Supplier and swapper ids are identified with their principals, a map
of the contract is a function with the keys it has. `burnAt[h]` is the bitcoin
height of Stacks block `h`, so its length is `block-height`, and calls see
`burnAt[height]` as `burn-block-height`. A bitcoin block has a Stacks block or
not (at most `MaxMissed` have none). A proof of a transaction may start from
any past Stacks block that at most ten parents lead back from (`WasTxMined`
after `verify-prev-blocks`): the caller chooses `mined-height` within that
range. The preimage of a swap is known to its swapper, and to everybody after
the first call that carried it. Fees are `int`: `validate-fee` bounds the
rates, which may be negative, and not the base fees. External, and modelled by
how the contract and
the server use them: the token, the exchange (it takes the caller's tokens or
refuses), HTLC outputs (redeemed with a preimage, refunded after `csv` blocks)
and bitcoin payments. `RedeemWithin` bounds how long a supplier needs to redeem
once a preimage is public; it is an assumption on the supplier server and the
bitcoin network.

*Supplier server.* Outbound swaps and HTLCs are identified with their events.
The local variables of a handler under way are `cron`, `event`, `send`,
`redeem` and `fin`, each with the place it waits at. `ReadLastSeen`,
`FetchEvents`, `StoreLastSeen`, `QueueEvents` are the polling job;
`TakeEvent`, `HandleEvent`, `FinishEvent` that of an event; `TakeSend`,
`CheckOutbound`, `SendBtc` (or `SendMissing`, `SendAnswerLost`: the broadcast
was lost, or only its answer), `SetSentOutbound`, `SetPendingFinalized` that of
a payment; `CheckShouldFinalize`, `SubmitFinalize`, `SetFinalizedOutbound` the
pass over `pendingFinalizedOutbound`; `TakeRedeem`, `Redeem`, `SetRedeemedHTLC`
that of a finalized HTLC, which `Requeue` puts back as often as `Attempts`
allows. A job is active for Bull from the step that takes it (`Active`), before
it has had any effect. `Crash` empties the handlers and leaves store and
queues; Bull runs the jobs that were active once more, and fails one that
stalls a second time (`AfterCrash`, `RedeemAfterCrash`; the mark of a redeem job
stays over its attempts). `paid[s]` is every payment ever broadcast for `s`,
`finTx[s]` every finalization. A payment is `Unrecorded` while it is broadcast
and not in the store, `UnderWay` while its handler has it in hand, `FollowedUp`
then and while it is on `pendingFinalizedOutbound`. Of the contract only the
life of an outbound swap is kept (`outcome`, `age`); its rules are those of
`Bridge`. An HTLC may be refunded by its swapper (`RefundHtlc`).

`orphans`, `missed`, `givenUp` and `queued` are history: payments that were
never recorded, events lost, redeem jobs that Bull failed for good, events
queued. Nonces are left out: a conflict is a submission that throws. Forks are
not modelled.

*Inbound swap page.* The record is the fields that decide the step
(`getSwapStep`): whether the warning was taken, whether the payment was seen
and confirmed, the ids of the escrow, the finalization and the recovery.
`gaia` is what storage has, `copy[t]` what page `t` has, `puts` what is on its
way, in no order. A button sends a transaction (`Press`) and an answer brings
its id to the page (`Answer`), if the page is still open. `phase` is the age of
the payment as the contract's bounds divide it. Steps before the warning
(registering, choosing a supplier) write nothing that later steps compare.

## Runs

Every bound is a CONSTANT and named in its module.

| Run | Instance | Question |
|---|---|---|
| `PoolThreshold` | all pools up to 300 members, batches of any size | is `k` in its band and every ballot decided but the one described |
| `MCJoin` | a founder and two candidates, every order, asking again while pending | do maps, lists and ballots agree; is nobody accepted ever rejected; does who is accepted enter |
| `MCElection` | four members who leave, are voted out (one target, of two voters), and elect; `k` drops from 2 to 1 | do removals need their votes and vacate the seat; do departures walk the threshold; who is elected; do elections end |
| `MinerWarnings` | two principals, counts up to 4, two admissions of each in a block | how many warnings a block gives |
| `PoolRewards` | two principals, heights up to 3, two entries of a member | where every unit of the balances comes from |
| `MCBridgeInbound` | one supplier with a negative rate, one swapper, two HTLCs, nine bitcoin blocks | escrows, the race of the two clocks, the ledger |
| `MCBridgeOutbound` | two suppliers, two keys, two swaps, one payment, fees of three kinds, one of them refused | solvency, keys, payments, volumes, revocations |
| `StackingPool` | the provider and a stacker, two cycles, two amounts, `return-div` 2 and 0 | are the books right, is who is counted locked, are weights settled |
| `SupplierServer` | an outbound swap of ours, or one of others and an HTLC; two faults, two crashes, two attempts | is a swap paid twice, dropped from the list, paid too late; is an event lost; is what is listed or finalized settled in the end |
| `SwapClient` | a page closed and opened again once, two puts under way, one fault, fees that rise | is the preimage kept, does a page go back, is the swapper made whole |
| `SwapClientFees` | as `SwapClient`, without closes and faults; fees that fall, a user who may be late | violated: see below |
| `StackingPoolSums` | as `StackingPool` | violated: see below |

`MCJoin` runs under `JoinSpec`, in which nobody is proposed for removal: the
removing flow is run by `MCElection`, whose `NotifierElection` extends the same
module. The two share every definition.

**Why the bounds are enough.** The arithmetic of `k` is checked for every size
the lists allow. In the membership flows the special cases of the code lie at
1, 2, 3 and 4 members (`k` is 1, 1, 1 and 2; the predicates of removal
special-case 2 and 3; 4 is the first pool with an undecided ballot and with a
`k` that departures change), and `blocks-to-pass` only separates a request's
own block from later ones, so 1 is as good as 144. Two rewards that do and do
not divide by two members exercise the change. In the bridge, 250, 200 and 550
are scaled to 5, 4 and 8, which keeps their order and leaves one block of
slack beyond the missed block, the skipped block and the time to redeem, all
1; nine blocks reach past the refund of an HTLC sent in the first. A rate of
-5000 makes 2 sats 3 xBTC before the base fee; 5000 with a base fee of -1 makes
3 xBTC 2 sats; 10000 is the first that `validate-fee` refuses. Sums over
two swaps and two suppliers are the smallest that can be mixed up. Stackers of
the stacking pool meet only in sums, in which the provider is the other one;
two cycles and a `MaxPeriod` of two let a lock be extended before, in and
after its last cycle; 101 and 201 lock 100 and 200 of whole `Buffer`s, and the
second is an increase; a reward of 100 against funds of 200 empties one balance
before the other. In the server, a cutoff of 1 and an expiration of 3 leave
exactly the blocks that sending and settling take, so that one block less
would show, and blocks are counted for swaps of ours only, as the server asks
the age of no other; two crashes are a stalled job that stalls again, which
Bull gives up; two attempts are a first and a last one, and two faults use them
up; an event that comes
alone, and two in either order of which the server takes up one as a swap and
passes over the other, are what a poll can cut apart. In the page, two puts are the fewest that can
overtake each other; one fault is one lost put or one refused call, and one
close separates two pages.

**Fairness.** Blocks keep coming (`AdvanceBlock`, `NextBlock`): the chain's
doing. For `PendingEventuallyMiner`, somebody calls the public
`add-pending-miners-to-pool` when it can succeed; for `ElectionEnds`, somebody
calls the public `end-vote-notifier`. The contract has no timers, so without a
caller nothing happens, and nothing more than weak fairness of that call is
assumed. No fairness is assumed of votes, departures or requests, nor in the
bridge: what must happen in time there is the bound `RedeemWithin`, a safety
assumption that blocks the clock.

The server has timers: its repeated jobs (`eventCronQueue`,
`finalizeOutboundQueue`) run again and again, and a handler that waits goes on
when its answer comes; Bull hands a waiting job to an idle handler. So weak
fairness of their steps is what `queues.ts` and `worker/index.ts` set up. What is broadcast is mined (weak fairness of the chains). Finalizing is
retried at each pass and fails whenever the node refuses; that it does not
refuse forever is strong fairness of `CheckShouldFinalize` and
`SubmitFinalize`. Crashes and faults are bounded and not fair.

The page acts when its user does: `FairSpec` of `SwapClient` assumes a user who
opens the swap and presses what it offers, and that puts and answers arrive.
Watching for the confirmation and receiving an answer are strongly fair,
because a page that is closed and opened again disables them in between.

**Deadlock** is checked in the pools, where blocks and calls never end. It is
not in the bridge, whose bitcoin clock ends at `MaxBurn`, nor in the server
and the page, which may have done everything.

### What the violated runs show

- `SwapClientFees`: `warning.tsx` promises that funds can be recovered "if
  anything goes wrong". The page offers the recovery at a failed escrow only.
  After an escrow that succeeded and was not finalized in time, or whose
  finalization aborts on a post condition computed from fees that have fallen
  since (so that the escrow holds more than the record says), it offers
  nothing, although the HTLC can be refunded.
- `StackingPoolSums`: `delegate-stx-inner` resets `until-burn-ht`; the
  extension that follows adds a cycle to 0 instead of to the end of the lock.
  Who delegates again while locked has an end in the past on record, and is
  left out of `sc-locked-balance` by `update-sc-balances`, although its weight
  is computed from its locked balance all the same.

### Divergences met while modelling

The model does what the code does in each of these; no violated run is about
them, as no document says otherwise or the property is stated around them.

- `pool` 408: a deposit made before the admission is set to zero by it.
- `pool` 313: the change kept is the remainder of the reward distributed
  before, as `current-reward` is bound before the variable is updated.
- `pool` 527-534: who asked again while pending is listed twice; its departure
  drops both entries and lowers `n` by one. `CounterFollowsList` says exactly
  when the two diverge.
- `pool` 785-797 (`err-one-warning-per-block`): after an admission has reset
  the count, the same block may warn again, and twice if the count of the block
  before is 1, as each warning is compared with that count only;
  `WarningsOfABlock` says how many.
- `server/processors/outbound.ts` 48-49: a stop or an error between the two
  writes leaves a payment that is recorded and not listed. The job, run again,
  skips it (23-28), so nobody finalizes it: the swapper, who has its bitcoin,
  may take back its xBTC. `PaidNeverRevoked` and `ListedUntilCompleted` are
  about payments in hand or on the list, and say nothing of it.
- `server/processors/outbound.ts` 47-48: a stop, or an answer that gets lost,
  between broadcast and record pays the swap again (`orphans`).
- `server/worker/jobs.ts` 61-64: a stop between the two loses the events
  fetched (`missed`), and an event job that throws, or stalls twice before it
  has added its job, loses its event.
- `server/worker/index.ts` 68: a redeem job that stalls twice before its
  broadcast, or fails twelve times, is given up, and its HTLC is left to the
  swapper's refund (`givenUp`).
- `server/wallet.ts` 192: `inputs-missingorspent` is taken for the server's own
  transaction; an HTLC that the swapper refunded is recorded as redeemed.
- `stacking` 255-277: `batch-reward-distribution` marks a won block as rewarded
  before it looks whether weights were calculated for its cycle and whether
  the transfers succeed, and does not undo it: such a block stays unpaid.
- `stacking` 316: `delegate-stack-stx` called twice locks two cycles, although
  its comment speaks of the next one.
- `stacking` 495-497: an increase is not added to `sc-locked-balance`: the
  difference to add is taken after the entry has been set to the new amount.
- `stacking` 196-205, 551-598: who quits and joins again while locked has a
  record of no lock until the next extension; the weights of a cycle can then
  sum to more than the whole.
- `stacking` 355-361: a `return-div` of 0 is accepted and fails later
  divisions.
- `stacking` 511-521: the management's fee is taken off the contract's balance
  and not off the books, so they hold what `FundsAccounted` states, the fees
  included.
- `auto-redeem.js` 92-93, 141: it sends with no post conditions in deny mode,
  in which a transfer of STX aborts, and moves its file on whether or not the
  broadcast succeeded.

## Proofs

All theorems hold for all values of the constants that satisfy the ASSUMEs of
their modules. Those are about what the contracts are given (amounts are
`uint`, names do not clash, sets of principals are finite) and about time
(`TimelyAssumption`, `MarginAssumption`); TLC evaluates them in every run.

- **Folds and sums.** The balances, escrows, volumes and payments are sums and
  folds of the community modules, which choose an order and recurse over
  subsets. `FoldTheorems` proves that the recursion has a solution
  (`StepsExist`, for steps in a set `R`), that what each step keeps holds of
  the result (`StepsKeep`), and of sums over finite sets that any element may
  be taken out first (`SumRemove`), which gives how a sum changes with one
  value, with all of them, and with the set. The induction is by a smallest
  counterexample (`SmallestSet`, `SmallestNumber`), as the induction theorems
  of the library, whose parameter is an operator, cannot be used here.
- **Threshold.** The inductive invariant is `TypeOK` and `ThresholdBand`: `k`
  lies between 67 percent of the other members, rounded down, and 75 percent.
  The band is inductive because a departure that leaves `k` at or above 75
  percent recomputes it. Two lemmas bound the integer divisions. That join
  ballots are decided, that one removal ballot is not, and that departures do
  not raise `k` (`NeverRaised`, which no run repeats), follow from the band.
- **Membership.** `TypeCorrect`; `MapsAgree`; `BallotsOpen`;
  `VotesBacked`, by counting voters of a finite set, with `BallotsOpen` as the
  part that says a new request starts from no votes; `WalksThreshold`, the
  refinement of `PoolThreshold`, which needs that the pending list is bounded;
  and `NeverRejected`: `n - k + 1` rejections and `k` acceptances exceed the
  electorate of the request, so votes counted once cannot reach both.
  `RemovalsBacked` counts the voters of removals, whose guard keeps the target
  out; `VacatedByVote` goes through the flows that touch members or the seat.
  `CounterFollows` (`CounterFollowsList`): the length of the list is the sum of
  its multiplicities, so a call that enters or drops a principal changes it by
  what that principal had; who is listed more than once, or is proposed and
  not listed, is where `n` and the list part.
- **Election.** `ImplementsSeat`: every step of an election is a step of the
  pool or a stutter, because only members are chosen; it holds if `Electable`
  bounds nobody, which is what it does in the instance too. With it, what is
  proved of the pool holds under elections (`ElectionKeepsPool`).
  `MostVotesWin`: the invariant says that entries are left only while an
  election runs, so that starting one decides nothing, and that counts of votes
  have a bound, so that some member has the most and a deciding vote does not
  fall back on who it was for.
- **Warnings.** `WarningsBounded` (`WarningsOfABlock`): within a block the count
  is as many above that of the block before as warnings were given, until an
  admission resets it; a warning is refused above one more than the block
  before's, so each admission allows a bounded number.
- **Rewards.** One invariant, `AccountInv`: types, among them that rewards and
  lists are recorded for the heights below the current one, and the sums
  themselves.
  `BalancesAddUp` (`BalancesAccounted`): a deposit, a withdrawal or an
  admission changes one balance, a distribution or a flush adds the same to
  each entry of the list (`SumShares`). `FlushLosesNothing` (`FlushConserves`):
  of the calls only `flush-change` lowers the change, and what is left is a
  remainder of the division by the length of the list.
- **Bridge.** `NeverBoth`: the inductive invariant `SwapInv` carries (1) a
  Stacks block of height `m` has bitcoin height at least `m`, and at most
  `MaxMissed` bitcoin blocks are ahead; (2) an escrow expires
  `EscrowExpiration` blocks before its HTLC, give or take the skipped blocks;
  (3) a public preimage is used within `RedeemWithin` blocks; (4) a finalized
  swap revealed its preimage early enough. `TimelyAssumption`
  (`MaxPrevBlocks + MaxMissed + RedeemWithin < EscrowExpiration`) is what the
  200 blocks of the contract must cover; `MIN_EXPIRATION` plays no part in it.
  `KeysAgree`: keys and suppliers stay inverse. `PaidOwnPayment`
  (`OutboundPaidOnce`): swaps are numbered in order and only initiated ones
  completed, so a number is never completed before it is given out.
  `ImplementsLedger` (`BridgeImplementsLedger`): every action is a step of
  `SwapLedger` or stutters, by one lemma per action. The invariant it needs,
  `LedgerInv`, says that a supplier without a registration has no funds (or
  registering would overwrite them), that a swap holds more than nothing and
  names a registered supplier, and that what was revealed or completed was
  swapped before; and the ledger knows whom a swap is with (`Backer`), so that
  only that supplier gets back what it held. `NamesAssumption` keeps the contract and the exchange apart
  from their callers, `AmountsAssumption` makes amounts naturals (the contract's are
  `uint`) and rates and base fees integers (the contract's are `int`): what
  `RegisterSupplier` and `UpdateSupplierFees` let through is `ValidateFee`. The sums over all swaps are inductive together
  (`SummedInv`): each escrow is the sum of the supplier's open inbound swaps
  (`EscrowsMatch`), so that no subtraction from it underflows and types hold
  (`BridgeTypes`); the contract's tokens are the funds and those two sums
  (`Solvent`); and a user's volumes are the sums of what was finalized for it
  (`VolumesCount`). From these sums follows what they are for, `ClaimsArePaid`:
  whatever funds, payment or refund the maps allow a caller to take, the
  contract has the tokens for it, and the escrow of the supplier covers every
  swap that leaves it. `ControllersAssumption` says that suppliers are finitely
  many.
- **Stacking pool.** `OnlyLockedCounted` (`CountedIsLocked`): the property
  alone is not inductive, because an extension after a second delegation adds
  to an end that was reset. The invariant says that the end on record is that
  of PoX or no more than `MaxPeriod` cycles from 0, which is the past as
  PoX is older than its longest lock (`PeriodAssumption`).
  `WeightsStaySettled` (`WeightsSettled`): the cycles already updated end with
  the next one, and a call computes for the next one only if it is not updated.
  `FundsStayAccounted` (`FundsAccounted`): the transfers for a block are a fold
  over a list of any length, each of which takes as much off the balance as
  off one of the two books (`BooksAfterType`, whatever the weights are); the
  reserve stays above 0 because a transfer it cannot bear is taken off the
  owned funds, for which `PayRewards` has the guard, and because unlocking
  leaves a quotient of what is locked, whose sum (`LockedSumType`, `LockedSum`)
  stays a natural as an increase never lowers it.
- **Supplier server.** One invariant for the first three theorems. `OncePaid`: the store
  says 0 until a payment is recorded, a tracked payment is the one in the store
  or the one under way, and the first is checked before the second is made.
  `StaysListed` (`ListedUntilCompleted`): a payment leaves the list only when
  the contract has completed the swap, which needs that a finalization that
  succeeded completed it. `NeverRevoked`: the swap of a payment in hand or on
  the list is younger than the cutoff, the time of sending and its wait
  together; `MarginAssumption` says that this is within the expiration, and
  `Tick` that the wait, stops and refused finalizations included, ends in time. `NothingPassedOver` (`SeenEventsQueued`) has an
  invariant of its own, `SeenInv`: no other event is stored as last seen while
  events are read, and what was fetched reaches from an event of the log down
  to the last one seen; an event is emitted once, so the one that is stored
  has one place in the log, however many follow before it is stored.
- **Inbound swap page.** `SecretKept`, `NeverBack`. A record is well if its
  finalization names an escrow that succeeded; records only come from pages
  and pages only from records, so an older put that arrives late is still
  well. A page waits only for ids that its step can take, so an answer does
  not set it back. `ClosedAssumption` tells a closed page from a record.

**Only model-checked:** the liveness properties (`PendingEventuallyMiner`,
`ElectionEnds`, `RedeemedInTheEnd`, `PaymentsSettle`, `MadeWhole`), as fairness
and ENABLED are out of the prover's reach. Every other property of the passing
runs is a theorem.

## Not modelled

- The larger part of the repository is not code of its own, or has no
  state: `front-end/bitcoinjs-lib.js` (26206 lines) is a bundled library;
  `clarigen/`, in the page and in the server, is generated from the contracts
  (about 12000 lines); `page/common/theme/` and the components of both front
  ends are layout. Nothing of these changes a state that a property could be
  about.
- `mining-pool-5-blocks.clar`, `mining-pool-test.clar`: the same contract with
  other constants. The tests and the helpers of `integration/` drive the
  contracts modelled here.
- `clarity-bitcoin.clar` (parsing, Merkle proofs), `amm-swap-pool`,
  `alex-vault`, the token and the rest of the PoX contracts: third-party code.
- `front-end/`: the pages of the pools read the contracts and submit single
  calls; they keep nothing between two of them.
- The page's outbound swaps write their record once and read it; its inbound
  ones are modelled from the warning on.
- `server`: coin selection, fees and signing (libraries), the report of
  balances, the routes that show state. Forks of Stacks, by which a poll may
  pass over events.
- `auto-redeem.js`: one number in a file and one call, modelled in
  `StackingPool`; what it does is described above.
- Read-only functions, `auto-exchange` and stored bitcoin addresses: they
  change or guard nothing.
- In the bridge: the bytes of scripts and addresses, `min-to-receive` (it only
  makes a call fail), totals of volumes (sums of those per user), calls through
  other contracts, fees of none (they only make a call fail).
- `bitcoin-scripting`: programs that run once and keep no state.

## What is left

- The composition of `SupplierServer` with the outbound part of `Bridge`, of
  which it now has the states of a swap only.
- Forks of Stacks under the polling job.
