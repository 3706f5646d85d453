------------------------- MODULE PoolRewardsProofs -------------------------
(***************************************************************************)
(* The accounts of the mining pool, for every set of members, every reward   *)
(* and every amount.  A distribution changes every balance at once, so what  *)
(* the balances add up to is proved with SumShares.                          *)
(***************************************************************************)
EXTENDS PoolRewards, FoldTheorems

AccountType ==
    /\ height \in Nat \ {0}
    /\ minersList \in [Principals -> Nat]
    /\ blockReward \in [1 .. height - 1 -> Nat]
    /\ minersAt \in [1 .. height - 1 -> [Principals -> Nat]]
    /\ balance \in [Principals -> Nat \cup {NoBalance}]
    /\ deposited \in [Principals -> Nat] /\ totalWithdraw \in [Principals -> Nat]
    /\ holdings \in Nat /\ reward \in Nat /\ changeFunds \in Nat
    /\ credited \in Nat /\ wiped \in Nat

AccountInv == AccountType /\ BalancesAccounted

-----------------------------------------------------------------------------
(* Sums over the principals *)

LEMMA Summed ==
    ASSUME NEW f, DOMAIN f = Principals
    PROVE  SumFunction(f) = SumFunctionOnSet(f, Principals)
BY DEF SumFunction

LEMMA LengthType ==
    ASSUME NEW list \in [Principals -> Nat]
    PROVE  Length(list) \in Nat /\ \A p \in Principals : list[p] <= Length(list)
<1>1. Length(list) = SumFunctionOnSet(list, Principals)
  BY Summed DEF Length
<1> QED
  BY <1>1, FoundersAssumption, SumNat, SumPart

\* One principal's value changes by so much.
LEMMA OneChanges ==
    ASSUME NEW f \in [Principals -> Int], NEW p \in Principals, NEW amount \in Int
    PROVE  SumFunction([f EXCEPT ![p] = f[p] + amount]) = SumFunction(f) + amount
<1> DEFINE g == [f EXCEPT ![p] = f[p] + amount]
<1>1. /\ DOMAIN g = Principals /\ DOMAIN f = Principals
      /\ \A x \in Principals : f[x] \in Int /\ g[x] \in Int
      /\ \A x \in Principals \ {p} : g[x] = f[x]
      /\ g[p] - f[p] = amount
  OBVIOUS
<1> HIDE DEF g
<1>2. SumFunctionOnSet(g, Principals) = SumFunctionOnSet(f, Principals) + (g[p] - f[p])
  BY <1>1, FoundersAssumption, SumChange
<1> QED
  BY <1>1, <1>2, Summed DEF g

LEMMA SumsType ==
    ASSUME AccountType
    PROVE  /\ Balances \in [Principals -> Int] /\ SumFunction(Balances) \in Int
           /\ SumFunction(deposited) \in Int /\ SumFunction(totalWithdraw) \in Int
           /\ \A p \in Principals : Balances[p] = Balance(p) /\ Balance(p) \in Nat
<1>1. ASSUME NEW f \in [Principals -> Int] PROVE SumFunction(f) \in Int
  <2>1. \A x \in Principals : f[x] \in Int
    OBVIOUS
  <2> QED
    BY <2>1, Summed, FoundersAssumption, SumType
<1>2. /\ Balances \in [Principals -> Int]
      /\ \A p \in Principals : Balances[p] = Balance(p) /\ Balance(p) \in Nat
  BY DEF AccountType, Balances, Balance, NoBalance
<1>3. deposited \in [Principals -> Int] /\ totalWithdraw \in [Principals -> Int]
  BY DEF AccountType
<1> QED
  BY <1>1, <1>2, <1>3

-----------------------------------------------------------------------------
(* What the operations do to the sum of the balances *)

LEMMA BalanceSet ==
    ASSUME AccountType, NEW p \in Principals, NEW value \in Nat,
           balance' = [balance EXCEPT ![p] = value]
    PROVE  /\ balance' \in [Principals -> Nat \cup {NoBalance}]
           /\ SumFunction(Balances)' = SumFunction(Balances) + (value - Balance(p))
<1>1. balance' \in [Principals -> Nat \cup {NoBalance}]
  BY DEF AccountType
<1> DEFINE before == Balances
           amount == value - Balance(p)
<1>2. before \in [Principals -> Int] /\ amount \in Int /\ before[p] + amount = value
  BY SumsType
<1>3. Balances' = [before EXCEPT ![p] = before[p] + amount]
  <2>1. Balances' = [before EXCEPT ![p] = value]
    <3>1. \A q \in Principals : balance'[q] = IF q = p THEN value ELSE balance[q]
      BY DEF AccountType
    <3>2. Balance(p)' = value
      BY <3>1 DEF Balance, NoBalance
    <3>3. \A q \in Principals \ {p} : Balance(q)' = Balance(q)
      BY <3>1 DEF Balance
    <3> QED
      BY <3>2, <3>3 DEF Balances
  <2> QED
    BY <1>2, <2>1
<1> HIDE DEF before, amount
<1>4. SumFunction(Balances') = SumFunction(before) + amount
  BY <1>2, <1>3, OneChanges
<1> QED
  BY <1>1, <1>4 DEF before, amount

LEMMA SharesCredited ==
    ASSUME AccountType, NEW list \in [Principals -> Nat], NEW share \in Nat,
           balance' = Credit(list, share)
    PROVE  /\ balance' \in [Principals -> Nat \cup {NoBalance}]
           /\ SumFunction(Balances)' = SumFunction(Balances) + Length(list) * share
<1>1. \A p \in Principals : /\ list[p] \in Nat /\ list[p] * share \in Nat
                            /\ list[p] = 0 => list[p] * share = 0
  OBVIOUS
<1>2. \A p \in Principals : /\ balance[p] \in Nat \cup {NoBalance} /\ Balance(p) \in Nat
                            /\ balance[p] \in Nat => balance[p] = Balance(p)
                            /\ balance[p] = NoBalance => Balance(p) = 0
  BY DEF AccountType, Balance, NoBalance
<1>3. \A p \in Principals :
        balance'[p] = IF list[p] = 0 THEN balance[p] ELSE Balance(p) + list[p] * share
  BY DEF Credit
<1>4. balance' \in [Principals -> Nat \cup {NoBalance}]
  <2>1. \A p \in Principals : Balance(p) + list[p] * share \in Nat
    BY <1>1, <1>2
  <2> QED
    BY <1>2, <2>1 DEF Credit
<1>5. ASSUME NEW p \in Principals PROVE Balance(p)' = Balance(p) + list[p] * share
  <2>1. CASE list[p] = 0
    <3>1. balance'[p] = balance[p]
      BY <1>3, <2>1
    <3>2. Balance(p)' = Balance(p)
      BY <3>1 DEF Balance
    <3> QED
      BY <1>1, <1>2, <2>1, <3>2
  <2>2. CASE list[p] # 0
    <3>1. balance'[p] = Balance(p) + list[p] * share /\ balance'[p] \in Nat
      BY <1>1, <1>2, <1>3, <2>2
    <3> QED
      BY <3>1 DEF Balance, NoBalance
  <2> QED
    BY <2>1, <2>2
<1> DEFINE before == Balances
           after == Balances'
<1>6. DOMAIN before = Principals /\ DOMAIN after = Principals
  BY DEF Balances
<1>7. \A p \in Principals : /\ before[p] \in Int /\ list[p] \in Int
                            /\ after[p] = before[p] + list[p] * share
  BY <1>1, <1>2, <1>5 DEF Balances
<1> HIDE DEF before, after
<1>8. SumFunctionOnSet(after, Principals)
        = SumFunctionOnSet(before, Principals) + SumFunctionOnSet(list, Principals) * share
  BY <1>7, FoundersAssumption, SumShares
<1>9. SumFunction(after) = SumFunction(before) + Length(list) * share
  BY <1>6, <1>8, Summed DEF Length
<1> QED
  BY <1>4, <1>9 DEF before, after

\* A share is what division gives, and less than the divisor is left.
LEMMA ShareOf ==
    ASSUME NEW amount \in Nat, NEW members \in Nat \ {0}
    PROVE  /\ amount \div members \in Nat /\ members * (amount \div members) \in Nat
           /\ amount = members * (amount \div members) + (amount % members)
           /\ amount % members \in Nat /\ amount % members < members
<1>1. amount \div members \in Int /\ amount \div members >= 0
  BY SMT
<1>2. /\ amount = members * (amount \div members) + (amount % members)
      /\ amount % members \in Nat /\ amount % members < members
  BY SMT
<1> QED
  BY <1>1, <1>2

\* The books still balance when what comes in is what the balances gain.
LEMMA Accounted ==
    ASSUME AccountInv, NEW gained \in Int, NEW paid \in Int, NEW taken \in Int,
           credited' \in Int, wiped' \in Int,
           SumFunction(Balances)' = SumFunction(Balances) + gained,
           SumFunction(deposited)' = SumFunction(deposited) + paid,
           SumFunction(totalWithdraw)' = SumFunction(totalWithdraw) + taken,
           holdings' = holdings + (paid - taken),
           credited' - wiped' = (credited - wiped) + (gained - paid) + taken
    PROVE  BalancesAccounted'
<1>1. /\ credited \in Int /\ wiped \in Int /\ holdings \in Int
  BY DEF AccountInv, AccountType
<1>2. /\ SumFunction(Balances) \in Int /\ SumFunction(deposited) \in Int
      /\ SumFunction(totalWithdraw) \in Int
  BY SumsType DEF AccountInv
<1>3. /\ SumFunction(Balances) = SumFunction(deposited) + credited
                                   - SumFunction(totalWithdraw) - wiped
      /\ holdings = SumFunction(deposited) - SumFunction(totalWithdraw)
  BY DEF AccountInv, BalancesAccounted
<1> DEFINE balances == SumFunction(Balances)
           in == SumFunction(deposited)
           out == SumFunction(totalWithdraw)
<1>4. /\ balances' = balances + gained /\ in' = in + paid /\ out' = out + taken
      /\ balances \in Int /\ in \in Int /\ out \in Int
      /\ balances = in + credited - out - wiped /\ holdings = in - out
  BY <1>2, <1>3
<1> HIDE DEF balances, in, out
<1>5. balances' = in' + credited' - out' - wiped'
  <2>1. in' + credited' - out' - wiped' = (in' - out') + (credited' - wiped')
    BY <1>4
  <2>2. credited' - wiped' = (credited - wiped) + (gained - paid) + taken
    OBVIOUS
  <2>3. in' - out' = (in - out) + (paid - taken)
    BY <1>4
  <2>4. (in - out) + (paid - taken) + ((credited - wiped) + (gained - paid) + taken)
          = (in + credited - out - wiped) + gained
    BY <1>1, <1>4
  <2> QED
    BY <1>4, <2>1, <2>2, <2>3, <2>4
<1>6. holdings' = in' - out'
  BY <1>1, <1>4
<1> QED
  BY <1>5, <1>6 DEF BalancesAccounted, balances, in, out

LEMMA DepositsKept ==
    ASSUME AccountType, UNCHANGED deposits
    PROVE  /\ SumFunction(deposited)' = SumFunction(deposited) + 0
           /\ SumFunction(totalWithdraw)' = SumFunction(totalWithdraw) + 0
           /\ holdings' = holdings + (0 - 0)
<1>1. deposited' = deposited /\ totalWithdraw' = totalWithdraw /\ holdings' = holdings
  BY DEF deposits
<1> QED
  BY <1>1, SumsType DEF AccountType

-----------------------------------------------------------------------------
(* The operations *)

LEMMA BlockStep == AccountInv /\ AdvanceBlock => AccountInv'
<1> SUFFICES ASSUME AccountInv, AdvanceBlock PROVE AccountInv'
  OBVIOUS
<1>1. PICK r \in Rewards :
        blockReward' = [h \in 1 .. height |-> IF h = height THEN r ELSE blockReward[h]]
  BY DEF AdvanceBlock
<1>2. /\ height' = height + 1 /\ height' \in Nat \ {0} /\ height' - 1 = height
      /\ 1 .. height' - 1 = 1 .. height /\ r \in Nat
  BY AmountsAssumption DEF AdvanceBlock, AccountInv, AccountType
<1>3. \A h \in 1 .. height : h # height => h \in 1 .. height - 1
  BY DEF AccountInv, AccountType
<1>4. blockReward' \in [1 .. height' - 1 -> Nat]
  BY <1>1, <1>2, <1>3 DEF AccountInv, AccountType
<1>5. minersAt' \in [1 .. height' - 1 -> [Principals -> Nat]]
  BY <1>2, <1>3 DEF AdvanceBlock, AccountInv, AccountType
<1>6. UNCHANGED <<minersList, balance, deposits, distribution, changeFunds, credited, wiped>>
  BY DEF AdvanceBlock
<1>7. AccountType'
  BY <1>2, <1>4, <1>5, <1>6 DEF AccountInv, AccountType, deposits, distribution
<1>8. BalancesAccounted'
  BY <1>6 DEF AccountInv, BalancesAccounted, Balances, Balance, deposits
<1> QED
  BY <1>7, <1>8 DEF AccountInv

LEMMA AcceptStep ==
    ASSUME AccountInv, NEW p \in Principals, AcceptMiner(p)
    PROVE  AccountInv'
<1>1. /\ UNCHANGED <<chain, deposits, distribution, changeFunds, credited>>
      /\ balance' = [balance EXCEPT ![p] = 0] /\ wiped' = wiped + Balance(p)
  BY DEF AcceptMiner
<1>2. AccountType
  BY DEF AccountInv
<1>3. /\ balance' \in [Principals -> Nat \cup {NoBalance}]
      /\ SumFunction(Balances)' = SumFunction(Balances) + (0 - Balance(p))
  BY <1>1, <1>2, BalanceSet
<1>4. Balance(p) \in Nat /\ wiped \in Nat /\ credited \in Nat /\ wiped' \in Nat
  <2>1. Balance(p) \in Nat
    BY <1>2, SumsType
  <2>2. wiped \in Nat /\ credited \in Nat
    BY <1>2 DEF AccountType
  <2> QED
    BY <1>1, <2>1, <2>2
<1>5. AccountType'
  BY <1>1, <1>2, <1>3, <1>4 DEF AccountType, chain, deposits, distribution
<1> DEFINE gained == 0 - Balance(p)
<1>6. /\ gained \in Int /\ SumFunction(Balances)' = SumFunction(Balances) + gained
      /\ credited' - wiped' = (credited - wiped) + (gained - 0) + 0
      /\ credited' \in Int /\ wiped' \in Int /\ 0 \in Int
  BY <1>1, <1>3, <1>4
<1> HIDE DEF gained
<1>7. BalancesAccounted'
  BY <1>1, <1>2, <1>6, DepositsKept, Accounted
<1> QED
  BY <1>5, <1>7 DEF AccountInv

LEMMA DepositStep ==
    ASSUME AccountInv, NEW p \in Principals, NEW amount \in Amounts, DepositStx(p, amount)
    PROVE  AccountInv'
<1>1. /\ UNCHANGED <<chain, totalWithdraw, distribution, changeFunds, credited, wiped>>
      /\ holdings' = holdings + amount
      /\ balance' = [balance EXCEPT ![p] = Balance(p) + amount]
      /\ deposited' = [deposited EXCEPT ![p] = deposited[p] + amount]
  BY DEF DepositStx
<1>2. AccountType /\ amount \in Nat /\ amount \in Int
  BY AmountsAssumption DEF AccountInv
<1>3. Balance(p) \in Nat /\ Balance(p) + amount \in Nat
  BY <1>2, SumsType
<1>4. /\ balance' \in [Principals -> Nat \cup {NoBalance}]
      /\ SumFunction(Balances)' = SumFunction(Balances) + amount
  <2> DEFINE value == Balance(p) + amount
  <2>1. value \in Nat /\ value - Balance(p) = amount
        /\ balance' = [balance EXCEPT ![p] = value]
    BY <1>1, <1>2, <1>3
  <2> HIDE DEF value
  <2> QED
    BY <1>2, <2>1, BalanceSet
<1>5. deposited \in [Principals -> Int]
  BY <1>2 DEF AccountType
<1>6. SumFunction(deposited') = SumFunction(deposited) + amount
  BY <1>1, <1>2, <1>5, OneChanges
<1>7. AccountType'
  BY <1>1, <1>2, <1>4 DEF AccountType, chain, distribution
<1>8. BalancesAccounted'
  <2>1. /\ holdings \in Int /\ credited \in Int /\ wiped \in Int /\ 0 \in Int
        /\ SumFunction(totalWithdraw) \in Int
    BY <1>2, SumsType DEF AccountType
  <2>2. /\ SumFunction(totalWithdraw)' = SumFunction(totalWithdraw) + 0
        /\ holdings' = holdings + (amount - 0)
        /\ credited' - wiped' = (credited - wiped) + (amount - amount) + 0
        /\ credited' \in Int /\ wiped' \in Int
    BY <1>1, <1>2, <2>1
  <2> QED
    BY <1>2, <1>4, <1>6, <2>1, <2>2, Accounted
<1> QED
  BY <1>7, <1>8 DEF AccountInv

LEMMA WithdrawStep ==
    ASSUME AccountInv, NEW p \in Principals, NEW amount \in Amounts, WithdrawStx(p, amount)
    PROVE  AccountInv'
<1>1. /\ UNCHANGED <<chain, deposited, distribution, changeFunds, credited, wiped>>
      /\ balance[p] >= amount /\ holdings >= amount
      /\ holdings' = holdings - amount
      /\ balance' = [balance EXCEPT ![p] = balance[p] - amount]
      /\ totalWithdraw' = [totalWithdraw EXCEPT ![p] = totalWithdraw[p] + amount]
  BY DEF WithdrawStx, MayWithdraw
<1>2. AccountType /\ amount \in Nat /\ amount \in Int
  BY AmountsAssumption DEF AccountInv
<1>3. balance[p] \in Nat /\ Balance(p) = balance[p] /\ balance[p] - amount \in Nat
  BY <1>1, <1>2 DEF AccountType, Balance, NoBalance
<1>4. /\ balance' \in [Principals -> Nat \cup {NoBalance}]
      /\ SumFunction(Balances)' = SumFunction(Balances) + (0 - amount)
  <2> DEFINE value == balance[p] - amount
  <2>1. value \in Nat /\ value - Balance(p) = 0 - amount
        /\ balance' = [balance EXCEPT ![p] = value]
    BY <1>1, <1>2, <1>3
  <2> HIDE DEF value
  <2> QED
    BY <1>2, <2>1, BalanceSet
<1>5. totalWithdraw \in [Principals -> Int]
  BY <1>2 DEF AccountType
<1>6. SumFunction(totalWithdraw') = SumFunction(totalWithdraw) + amount
  BY <1>1, <1>2, <1>5, OneChanges
<1>7. AccountType'
  <2>1. totalWithdraw' \in [Principals -> Nat] /\ holdings' \in Nat
    BY <1>1, <1>2 DEF AccountType
  <2> QED
    BY <1>1, <1>2, <1>4, <2>1 DEF AccountType, chain, distribution
<1>8. BalancesAccounted'
  <2> DEFINE gained == 0 - amount
  <2>1. /\ holdings \in Int /\ credited \in Int /\ wiped \in Int /\ 0 \in Int
        /\ SumFunction(deposited) \in Int
    BY <1>2, SumsType DEF AccountType
  <2>2. /\ SumFunction(deposited)' = SumFunction(deposited) + 0
        /\ holdings' = holdings + (0 - amount) /\ gained \in Int
        /\ credited' - wiped' = (credited - wiped) + (gained - 0) + amount
        /\ credited' \in Int /\ wiped' \in Int
    BY <1>1, <1>2, <2>1
  <2>3. SumFunction(Balances)' = SumFunction(Balances) + gained
    BY <1>4
  <2> HIDE DEF gained
  <2> QED
    BY <1>2, <1>6, <2>1, <2>2, <2>3, Accounted
<1> QED
  BY <1>7, <1>8 DEF AccountInv

LEMMA DistributionStep ==
    ASSUME AccountInv, NEW b \in 1 .. height - 1, RewardDistribution(b)
    PROVE  AccountInv' /\ changeFunds' >= changeFunds
<1> DEFINE list == minersAt[b]
           members == Length(list)
           share == blockReward[b] \div members
<1>1. /\ UNCHANGED <<chain, deposits, wiped>> /\ members > 0
      /\ reward' = blockReward[b] /\ changeFunds' = changeFunds + (reward % members)
      /\ balance' = Credit(list, share) /\ credited' = credited + members * share
  BY DEF RewardDistribution
<1>2. AccountType /\ list \in [Principals -> Nat] /\ blockReward[b] \in Nat /\ reward \in Nat
  BY DEF AccountInv, AccountType
<1> HIDE DEF list
<1>3. members \in Nat \ {0}
  BY <1>1, <1>2, LengthType
<1> HIDE DEF members
<1>4. share \in Nat /\ members * share \in Nat /\ reward % members \in Nat
  BY <1>2, <1>3, ShareOf
<1> HIDE DEF share
<1>5. /\ balance' \in [Principals -> Nat \cup {NoBalance}]
      /\ SumFunction(Balances)' = SumFunction(Balances) + members * share
  BY <1>1, <1>2, <1>4, SharesCredited DEF members
<1> DEFINE given == members * share
           left == reward % members
<1>6. /\ given \in Nat /\ given \in Int /\ left \in Nat
      /\ SumFunction(Balances)' = SumFunction(Balances) + given
      /\ credited' = credited + given /\ changeFunds' = changeFunds + left
  BY <1>1, <1>4, <1>5
<1> HIDE DEF given, left
<1>7. changeFunds' \in Nat /\ changeFunds' >= changeFunds /\ credited' \in Nat
  BY <1>2, <1>6 DEF AccountType
<1>8. AccountType'
  BY <1>1, <1>2, <1>5, <1>7 DEF AccountType, chain, deposits
<1>9. BalancesAccounted'
  <2>1. /\ credited' - wiped' = (credited - wiped) + (given - 0) + 0
        /\ credited' \in Int /\ wiped' \in Int /\ 0 \in Int
    BY <1>1, <1>2, <1>6, <1>7 DEF AccountType
  <2> QED
    BY <1>1, <1>2, <1>6, <2>1, DepositsKept, Accounted
<1> QED
  BY <1>7, <1>8, <1>9 DEF AccountInv

LEMMA FlushStep ==
    ASSUME AccountInv, FlushChange
    PROVE  /\ AccountInv'
           /\ credited' + changeFunds' = credited + changeFunds
           /\ changeFunds' < Length(minersList)
<1> DEFINE members == Length(minersList)
           share == changeFunds \div members
<1>1. /\ UNCHANGED <<chain, deposits, distribution, wiped>> /\ members > 0
      /\ changeFunds' = changeFunds - members * share
      /\ balance' = Credit(minersList, share) /\ credited' = credited + members * share
  BY DEF FlushChange, ChangeLeft
<1>2. AccountType /\ minersList \in [Principals -> Nat] /\ changeFunds \in Nat /\ credited \in Nat
  BY DEF AccountInv, AccountType
<1>3. members \in Nat \ {0}
  BY <1>1, <1>2, LengthType
<1> HIDE DEF members
<1>4. /\ share \in Nat /\ members * share \in Nat
      /\ changeFunds = members * share + (changeFunds % members)
      /\ changeFunds % members \in Nat /\ changeFunds % members < members
  BY <1>2, <1>3, ShareOf
<1> HIDE DEF share
<1>5. /\ balance' \in [Principals -> Nat \cup {NoBalance}]
      /\ SumFunction(Balances)' = SumFunction(Balances) + members * share
  BY <1>1, <1>2, <1>4, SharesCredited DEF members
<1> DEFINE given == members * share
           left == changeFunds % members
<1>6. /\ given \in Nat /\ given \in Int /\ left \in Nat /\ left < members
      /\ changeFunds = given + left
      /\ SumFunction(Balances)' = SumFunction(Balances) + given
      /\ credited' = credited + given /\ changeFunds' = changeFunds - given
  BY <1>1, <1>4, <1>5
<1> HIDE DEF given, left
<1>7. changeFunds' = left /\ credited' + changeFunds' = credited + changeFunds
  BY <1>2, <1>6
<1>8. AccountType'
  BY <1>1, <1>2, <1>5, <1>6, <1>7 DEF AccountType, chain, deposits, distribution
<1>9. BalancesAccounted'
  <2>1. /\ credited' - wiped' = (credited - wiped) + (given - 0) + 0
        /\ credited' \in Int /\ wiped' \in Int /\ 0 \in Int
    <3>1. wiped \in Nat /\ wiped' = wiped
      BY <1>1, <1>2 DEF AccountType
    <3> QED
      BY <1>2, <1>6, <3>1
  <2> QED
    BY <1>1, <1>2, <1>6, <2>1, DepositsKept, Accounted
<1> QED
  BY <1>6, <1>7, <1>8, <1>9 DEF AccountInv, members

\* Members enter and leave: no amount is touched.
LEMMA MembersStep ==
    ASSUME AccountInv, NEW p \in Principals, AddMiner(p) \/ DropMiner(p)
    PROVE  AccountInv' /\ UNCHANGED changeFunds
<1>1. /\ UNCHANGED <<height, blockReward, minersAt, balance, deposits, distribution, changeFunds,
                     credited, wiped>>
      /\ \/ minersList' = [minersList EXCEPT ![p] = minersList[p] + 1]
         \/ minersList' = [minersList EXCEPT ![p] = 0]
  BY DEF AddMiner, DropMiner
<1>2. minersList' \in [Principals -> Nat]
  <2>1. minersList \in [Principals -> Nat] /\ minersList[p] + 1 \in Nat
    BY DEF AccountInv, AccountType
  <2> QED
    BY <1>1, <2>1
<1>3. AccountType'
  BY <1>1, <1>2 DEF AccountInv, AccountType, deposits, distribution
<1>4. BalancesAccounted'
  BY <1>1 DEF AccountInv, BalancesAccounted, Balances, Balance, deposits
<1> QED
  BY <1>1, <1>3, <1>4 DEF AccountInv

LEMMA IdleStep == AccountInv /\ UNCHANGED accountVars => AccountInv'
BY DEF AccountInv, AccountType, BalancesAccounted, Balances, Balance, accountVars, chain,
       deposits, distribution

LEMMA AccountStep == AccountInv /\ [Next]_accountVars => AccountInv'
<1> SUFFICES ASSUME AccountInv, [Next]_accountVars PROVE AccountInv'
  OBVIOUS
<1>1. ASSUME NEW p \in Principals, NEW amount \in Amounts,
             DepositStx(p, amount) \/ WithdrawStx(p, amount)
      PROVE  AccountInv'
  BY <1>1, DepositStep, WithdrawStep
<1>2. ASSUME NEW p \in Principals, AddMiner(p) \/ DropMiner(p) \/ AcceptMiner(p)
      PROVE  AccountInv'
  BY <1>2, MembersStep, AcceptStep
<1>3. ASSUME NEW b \in 1 .. height - 1, RewardDistribution(b) PROVE AccountInv'
  BY <1>3, DistributionStep
<1> QED
  BY <1>1, <1>2, <1>3, BlockStep, FlushStep, IdleStep DEF Next

LEMMA AccountInit == Init => AccountInv
<1> SUFFICES ASSUME Init PROVE AccountInv
  OBVIOUS
<1>1. AccountType
  <2>1. 1 .. height - 1 = {}
    BY DEF Init
  <2>2. \A S : <<>> \in [1 .. height - 1 -> S]
    BY <2>1
  <2> QED
    BY <2>2 DEF Init, AccountType, NoBalance, Zero
<1>2. /\ DOMAIN Balances = Principals /\ DOMAIN deposited = Principals
      /\ DOMAIN totalWithdraw = Principals
      /\ \A p \in Principals : Balances[p] = 0 /\ deposited[p] = 0 /\ totalWithdraw[p] = 0
  BY DEF Init, Balances, Balance, NoBalance, Zero
<1>3. /\ SumFunction(Balances) = 0 /\ SumFunction(deposited) = 0
      /\ SumFunction(totalWithdraw) = 0
  BY <1>2, FoundersAssumption, Summed, SumZero
<1>4. BalancesAccounted
  BY <1>3 DEF Init, BalancesAccounted
<1> QED
  BY <1>1, <1>4 DEF AccountInv

LEMMA AccountsHold == Spec => []AccountInv
BY AccountInit, AccountStep, PTL DEF Spec

\* The balances add up to the deposits and credits less the withdrawals and
\* what admissions wiped, however distributions, flushes and departures
\* interleave, and the contract holds the deposits not withdrawn.
THEOREM BalancesAddUp == Spec => []BalancesAccounted
<1>1. AccountInv => BalancesAccounted
  BY DEF AccountInv
<1> QED
  BY <1>1, AccountsHold, PTL

\* Only flush-change takes from the change, and what it takes is credited to
\* the last unit: less than one unit per entry of the list is left.
THEOREM FlushLosesNothing == Spec => FlushConserves
<1>1. AccountInv /\ [Next]_accountVars
        => [changeFunds' < changeFunds =>
              /\ credited' + changeFunds' = credited + changeFunds
              /\ changeFunds' < Length(minersList)]_accountVars
  <2> SUFFICES ASSUME AccountInv, Next, changeFunds' < changeFunds
               PROVE  /\ credited' + changeFunds' = credited + changeFunds
                      /\ changeFunds' < Length(minersList)
    OBVIOUS
  <2>1. changeFunds \in Nat
    BY DEF AccountInv, AccountType
  <2>2. changeFunds' # changeFunds
    BY <2>1
  <2>3. ASSUME NEW b \in 1 .. height - 1, RewardDistribution(b) PROVE FALSE
    BY <2>1, <2>3, DistributionStep DEF RewardDistribution
  <2>4. ASSUME NEW p \in Principals,
               \/ AddMiner(p) \/ DropMiner(p) \/ AcceptMiner(p)
               \/ \E amount \in Amounts : DepositStx(p, amount) \/ WithdrawStx(p, amount)
        PROVE  FALSE
    BY <2>2, <2>4 DEF AddMiner, DropMiner, AcceptMiner, DepositStx, WithdrawStx
  <2>5. ~AdvanceBlock
    BY <2>2 DEF AdvanceBlock
  <2>6. FlushChange
    BY <2>3, <2>4, <2>5 DEF Next
  <2> QED
    BY <2>6, FlushStep
<1> QED
  BY <1>1, AccountsHold, PTL DEF Spec, FlushConserves
=============================================================================
