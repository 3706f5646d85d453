---------------------------- MODULE PoolRewards ----------------------------
(***************************************************************************)
(* The accounts of the mining pool (mining-pool.clar, BALANCES FLOW and      *)
(* flush-change): deposits, withdrawals, the distribution of block rewards   *)
(* over the members at the rewarded block, and the change that division      *)
(* leaves.                                                                  *)
(*                                                                         *)
(* The members come and go as the flows of PoolMembership let them: here an  *)
(* admission adds an entry, a departure drops all entries of a principal,    *)
(* and accept-miner-in-pool has, for the accounts, only its reset of the     *)
(* balance.  `deposited', `credited' and `wiped' are history variables.      *)
(***************************************************************************)
EXTENDS Integers, FiniteSets, Functions

CONSTANTS
    Principals,
    Founders,    \* the members at the start
    Amounts,     \* the amounts deposited and withdrawn
    Rewards,     \* the rewards a block may carry
    Maturity,    \* blocks until a block's reward is known (100)
    MaxHeight,   \* bound of block-height
    MaxEntries,  \* bound of a member's entries in miners-list
    MaxDeposit   \* bound of what one principal deposits in all

ASSUME FoundersAssumption == Founders \subseteq Principals /\ IsFiniteSet(Principals)
ASSUME AmountsAssumption == Amounts \subseteq Nat /\ Rewards \subseteq Nat
ASSUME BoundsAssumption == Maturity \in Nat \ {0} /\ MaxHeight \in Nat

VARIABLES
    height, minersList,          \* block-height, multiplicities of miners-list
    blockReward, minersAt,       \* of the past blocks: reward, miners-list
    balance, holdings, totalWithdraw,
    claimed, reward, totalRewarded, blocksWon, changeFunds,
    deposited, credited, wiped   \* history

chain == <<height, minersList, blockReward, minersAt>>
deposits == <<holdings, totalWithdraw, deposited>>
distribution == <<claimed, reward, totalRewarded, blocksWon>>
accountVars == <<chain, balance, deposits, distribution, changeFunds,
                 credited, wiped>>

-----------------------------------------------------------------------------
NoBalance == -1                       \* no entry in the map balance
Zero == [p \in Principals |-> 0]
Length(list) == SumFunction(list)
Balance(p) == IF balance[p] = NoBalance THEN 0 ELSE balance[p]

Init ==
    /\ height = 1
    /\ minersList = [p \in Principals |-> IF p \in Founders THEN 1 ELSE 0]
    /\ blockReward = <<>> /\ minersAt = <<>>
    /\ balance = [p \in Principals |-> IF p \in Founders THEN 0 ELSE NoBalance]
    /\ holdings = 0
    /\ totalWithdraw = Zero
    /\ claimed = {}
    /\ reward = 0 /\ totalRewarded = 0 /\ blocksWon = 0 /\ changeFunds = 0
    /\ deposited = Zero /\ credited = 0 /\ wiped = 0

\* The block ends, with some reward that will be known Maturity blocks later.
AdvanceBlock ==
    /\ height < MaxHeight
    /\ height' = height + 1
    /\ \E r \in Rewards :
        blockReward' = [h \in 1 .. height |-> IF h = height THEN r ELSE blockReward[h]]
    /\ minersAt' = [h \in 1 .. height |->
                      IF h = height THEN minersList ELSE minersAt[h]]
    /\ UNCHANGED <<minersList, balance, deposits, distribution, changeFunds,
                   credited, wiped>>

\* add-miner-to-pool, and leave-pool or process-removal
AddMiner(p) ==
    /\ minersList[p] < MaxEntries
    /\ minersList' = [minersList EXCEPT ![p] = @ + 1]
    /\ UNCHANGED <<height, blockReward, minersAt, balance, deposits,
                   distribution, changeFunds, credited, wiped>>

DropMiner(p) ==
    /\ minersList[p] > 0
    /\ minersList' = [minersList EXCEPT ![p] = 0]
    /\ UNCHANGED <<height, blockReward, minersAt, balance, deposits,
                   distribution, changeFunds, credited, wiped>>

\* accept-miner-in-pool sets the balance of the accepted to 0
AcceptMiner(p) ==
    /\ minersList[p] < MaxEntries
    /\ balance' = [balance EXCEPT ![p] = 0]
    /\ wiped' = wiped + Balance(p)
    /\ UNCHANGED <<chain, deposits, distribution, changeFunds, credited>>

-----------------------------------------------------------------------------
DepositStx(sender, amount) ==
    /\ deposited[sender] + amount <= MaxDeposit
    /\ amount > 0
    /\ holdings' = holdings + amount
    /\ balance' = [balance EXCEPT ![sender] = Balance(sender) + amount]
    /\ deposited' = [deposited EXCEPT ![sender] = @ + amount]
    /\ UNCHANGED <<chain, totalWithdraw, distribution, changeFunds, credited,
                   wiped>>

\* The transfer fails when the contract does not hold the amount, whatever
\* the balance says.
MayWithdraw(receiver, amount) ==
    /\ balance[receiver] >= amount
    /\ amount > 0
    /\ holdings >= amount

WithdrawStx(receiver, amount) ==
    /\ MayWithdraw(receiver, amount)
    /\ holdings' = holdings - amount
    /\ totalWithdraw' = [totalWithdraw EXCEPT ![receiver] = @ + amount]
    /\ balance' = [balance EXCEPT ![receiver] = @ - amount]
    /\ UNCHANGED <<chain, deposited, distribution, changeFunds, credited,
                   wiped>>

\* Mutant of Credit: who is listed twice gets one share.
CreditOnce(list, share) ==
    [p \in Principals |-> IF list[p] = 0 THEN balance[p] ELSE Balance(p) + share]

\* What every entry of a list of members gets: share(p) for p.
Credit(list, share) ==
    [p \in Principals |->
        IF list[p] = 0 THEN balance[p] ELSE Balance(p) + list[p] * share]

MayDistribute(b) == b < height /\ b \notin claimed /\ b + Maturity <= height

\* reward-distribution, by anyone: the reward is that of block b, the change
\* that of the reward distributed before.
RewardDistribution(b) ==
    LET list == minersAt[b]
        members == Length(list)
        share == blockReward[b] \div members
    IN  /\ MayDistribute(b)
        /\ members > 0
        /\ claimed' = claimed \cup {b}
        /\ reward' = blockReward[b]
        /\ totalRewarded' = totalRewarded + blockReward[b]
        /\ blocksWon' = blocksWon + 1
        /\ changeFunds' = changeFunds + (reward % members)
        /\ balance' = Credit(list, share)
        /\ credited' = credited + members * share
        /\ UNCHANGED <<chain, deposits, wiped>>

\* Mutant of ChangeLeft: the remainder is lost.
ChangeLeftNone(members) == 0

ChangeLeft(members) == changeFunds - members * (changeFunds \div members)

\* flush-change, by a member: the change goes to the members of this moment.
FlushChange ==
    LET members == Length(minersList)
        share == changeFunds \div members
    IN  /\ members > 0
        /\ balance' = Credit(minersList, share)
        /\ changeFunds' = ChangeLeft(members)
        /\ credited' = credited + members * share
        /\ UNCHANGED <<chain, deposits, distribution, wiped>>

Next ==
    \/ AdvanceBlock
    \/ FlushChange
    \/ \E b \in 1 .. height - 1 : RewardDistribution(b)
    \/ \E p \in Principals :
        \/ AddMiner(p)
        \/ DropMiner(p)
        \/ AcceptMiner(p)
        \/ \E amount \in Amounts : DepositStx(p, amount) \/ WithdrawStx(p, amount)

Spec == Init /\ [][Next]_accountVars

-----------------------------------------------------------------------------
(* Properties *)

Balances == [p \in Principals |-> Balance(p)]

\* The balances are what was deposited and credited, less what was withdrawn
\* and what admissions reset; the contract holds the deposits not withdrawn.
BalancesAccounted ==
    /\ SumFunction(Balances) = SumFunction(deposited) + credited
                                - SumFunction(totalWithdraw) - wiped
    /\ holdings = SumFunction(deposited) - SumFunction(totalWithdraw)

\* Flushing hands out change and nothing else, and leaves less than one unit
\* per entry of the list of members.
FlushConserves ==
    [][changeFunds' < changeFunds =>
        /\ credited' + changeFunds' = credited + changeFunds
        /\ changeFunds' < Length(minersList)]_accountVars

=============================================================================
