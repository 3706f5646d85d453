-------------------------- MODULE PoolRulesProofs --------------------------
(***************************************************************************)
(* The two rules of the mining pool that are arithmetic alone: its           *)
(* threshold, for every number of members, and its warnings, for every set   *)
(* of principals and every bound on their count.                            *)
(*                                                                         *)
(* ThresholdBand is inductive together with the types.  What the ballots     *)
(* need, JoinBallotDecided and RemovalBallotOneShort, follows from it by      *)
(* linear arithmetic.  The one non-linear term, the division by the members *)
(* that are left, is dealt with once, in DivisionBound.                     *)
(***************************************************************************)
EXTENDS PoolThreshold, MinerWarnings, TLAPS

-----------------------------------------------------------------------------
(* The threshold *)

\* A quotient is below a bound when the dividend is below the multiple.
LEMMA DivisionBound ==
    ASSUME NEW x \in Nat, NEW y \in Nat \ {0}
    PROVE  x \div y < 75 <=> x < 75 * y
<1>1. /\ x \div y \in Int
      /\ x = y * (x \div y) + (x % y)
      /\ 0 <= x % y /\ x % y < y
  BY SMT
<1>2. CASE x \div y < 75
  <2>1. x \div y <= 74
    BY <1>1, <1>2
  <2>2. y * (x \div y) <= y * 74
    BY <1>1, <2>1, SMT
  <2> QED
    BY <1>1, <1>2, <2>2, SMT
<1>3. CASE ~(x \div y < 75)
  <2>1. y * (x \div y) >= y * 75
    BY <1>1, <1>3, SMT
  <2> QED
    BY <1>1, <1>3, <2>1, SMT
<1> QED
  BY <1>2, <1>3

\* What update-threshold computes lies in the band, and is monotone.
LEMMA UpdateInBand ==
    ASSUME NEW m \in Nat, m >= 1
    PROVE  /\ UpdateThreshold(m) \in Nat
           /\ m \in {1, 2} => UpdateThreshold(m) = 1
           /\ m >= 3 => /\ UpdateThreshold(m) >= 1
                        /\ 100 * UpdateThreshold(m) < KCritical * (m - 1)
                        /\ UpdateThreshold(m - 1) <= UpdateThreshold(m)
  BY DEF UpdateThreshold, KPercentage, KCritical

\* update-threshold recomputes a threshold that is at least the band's, so
\* what one departure leaves is in the band again, and not higher.
LEMMA DepartureInBand ==
    ASSUME TypeOK, ThresholdBand, n >= 1,
           NEW t, t = ThresholdAfterDeparture(n, k)
    PROVE  /\ t \in Nat
           /\ t <= k
           /\ n - 1 = 0 => t = 0
           /\ n - 1 \in {1, 2} => t = 1
           /\ n - 1 >= 3 => /\ UpdateThreshold(n - 1) <= t
                            /\ t >= 1
                            /\ 100 * t < KCritical * (n - 2)
<1> USE DEF TypeOK
<1>1. CASE n <= 2
  <2>1. NewKPercentage(n, k) = 100
    BY <1>1 DEF NewKPercentage
  <2>2. t = IF n > 1 THEN UpdateThreshold(n - 1) ELSE 0
    BY <2>1 DEF ThresholdAfterDeparture, KCritical
  <2> QED
    BY <1>1, <2>2 DEF ThresholdBand, UpdateThreshold
<1>2. CASE n > 2
  <2>1. NewKPercentage(n, k) < KCritical <=> k * 100 < 75 * (n - 2)
    BY <1>2, DivisionBound DEF NewKPercentage, KCritical
  <2>2. /\ UpdateThreshold(n) <= k /\ k >= 1
        /\ 100 * k < 75 * (n - 1)
    BY <1>2 DEF ThresholdBand, KCritical
  <2>3. CASE k * 100 < 75 * (n - 2)
    <3>1. t = k
      BY <2>1, <2>3 DEF ThresholdAfterDeparture
    <3>2. n # 3
      BY <2>2, <2>3
    <3>3. UpdateThreshold(n - 1) <= UpdateThreshold(n)
      BY <1>2, UpdateInBand
    <3>4. UpdateThreshold(n) \in Nat /\ UpdateThreshold(n - 1) \in Nat
      BY <1>2, UpdateInBand
    <3> QED
      BY <1>2, <2>2, <2>3, <3>1, <3>2, <3>3, <3>4 DEF KCritical
  <2>4. CASE ~(k * 100 < 75 * (n - 2))
    <3>1. t = UpdateThreshold(n - 1)
      BY <1>2, <2>1, <2>4 DEF ThresholdAfterDeparture
    <3>2. UpdateThreshold(n) \in Nat /\ UpdateThreshold(n - 1) \in Nat
      BY <1>2, UpdateInBand
    <3>3. UpdateThreshold(n - 1) <= UpdateThreshold(n)
      BY <1>2, UpdateInBand
    <3> QED
      BY <1>2, <2>2, <3>1, <3>2, <3>3, UpdateInBand DEF KCritical
  <2> QED
    BY <2>3, <2>4
<1> QED
  BY <1>1, <1>2

-----------------------------------------------------------------------------
Inv == TypeOK /\ ThresholdBand

LEMMA InitBand == Init => Inv
  BY InitiallyAssumption, UpdateInBand
     DEF Init, Inv, TypeOK, ThresholdBand

LEMMA NextBand == Inv /\ [Next]_thresholdVars => Inv'
<1> SUFFICES ASSUME Inv, [Next]_thresholdVars PROVE Inv'
  OBVIOUS
<1> USE DEF Inv
<1>1. CASE Admit
  <2>1. PICK batch \in 1 .. MaxBatch :
          n' = n + batch /\ k' = UpdateThreshold(n + batch)
    BY <1>1 DEF Admit
  <2>2. n' \in Nat /\ n' >= 1 /\ k' = UpdateThreshold(n')
    BY <2>1 DEF TypeOK
  <2> QED
    BY <2>2, UpdateInBand DEF TypeOK, ThresholdBand
<1>2. CASE Depart
  <2>1. n >= 1 /\ n' = n - 1 /\ k' = ThresholdAfterDeparture(n, k)
    BY <1>2 DEF Depart
  <2>2. n' \in Nat /\ k' \in Nat
    BY <2>1, DepartureInBand DEF TypeOK
  <2>3. /\ n' = 0 => k' = 0
        /\ n' \in {1, 2} => k' = 1
        /\ n' >= 3 => /\ UpdateThreshold(n') <= k'
                      /\ k' >= 1
                      /\ 100 * k' < KCritical * (n - 2)
    BY <2>1, DepartureInBand
  <2> QED
    BY <2>1, <2>2, <2>3 DEF TypeOK, ThresholdBand, KCritical
<1>3. CASE UNCHANGED thresholdVars
  BY <1>3 DEF thresholdVars, TypeOK, ThresholdBand
<1> QED
  BY <1>1, <1>2, <1>3 DEF Next

\* n and k are naturals: neither counter ever underflows.
THEOREM TypeCorrect == Spec => []TypeOK
<1>1. Inv => TypeOK
  BY DEF Inv
<1> QED
  BY InitBand, NextBand, <1>1, PTL DEF Spec

\* The threshold stays between 67 and 75 percent of the other members.
THEOREM BandHolds == Spec => []ThresholdBand
<1>1. Inv => ThresholdBand
  BY DEF Inv
<1> QED
  BY InitBand, NextBand, <1>1, PTL DEF Spec

\* A complete join ballot is decided one way, in a pool of any size.
THEOREM JoinDecided == Spec => []JoinBallotDecided
<1>1. Inv => JoinBallotDecided
  <2> SUFFICES ASSUME Inv, n >= 1, NEW yes \in 0 .. n
               PROVE  IsVoteAccepted(yes, k) <=> ~IsVoteRejectedJoin(n - yes, k, n)
    BY DEF JoinBallotDecided
  <2> QED
    BY DEF Inv, TypeOK, ThresholdBand, KCritical,
           IsVoteAccepted, IsVoteRejectedJoin
<1> QED
  BY InitBand, NextBand, <1>1, PTL DEF Spec

\* A complete removal ballot is undecided exactly when, in a pool of four or
\* more, it is one vote short of the threshold.
THEOREM RemovalOneShort == Spec => []RemovalBallotOneShort
<1>1. Inv => RemovalBallotOneShort
  <2> SUFFICES ASSUME Inv, n >= 2, NEW yes \in 0 .. (n - 1)
               PROVE  LET accepted == IsVoteAccepted(yes, k)
                          rejected == IsVoteRejectedRemove(n - 1 - yes, k, n)
                      IN  /\ ~(accepted /\ rejected)
                          /\ ~accepted /\ ~rejected <=> n >= 4 /\ yes = k - 1
    BY DEF RemovalBallotOneShort
  <2> QED
    BY DEF Inv, TypeOK, ThresholdBand, KCritical,
           IsVoteAccepted, IsVoteRejectedRemove
<1> QED
  BY InitBand, NextBand, <1>1, PTL DEF Spec

\* No departure raises the threshold.
THEOREM NeverRaised == Spec => DepartureNeverRaisesThreshold
<1>1. Inv /\ [Next]_thresholdVars => [n' < n => k' <= k]_thresholdVars
  <2> SUFFICES ASSUME Inv, Next, n' < n PROVE k' <= k
    OBVIOUS
  <2>1. ~Admit
    BY DEF Admit, Inv, TypeOK
  <2>2. Depart
    BY <2>1 DEF Next
  <2> QED
    BY <2>2, DepartureInBand DEF Depart, Inv
<1> QED
  BY InitBand, NextBand, <1>1, PTL DEF Spec, DepartureNeverRaisesThreshold

-----------------------------------------------------------------------------
(* Warnings *)

\* What is left of a block: before an admission the count says what was given,
\* and what was given and may still be given is bounded.
BlockInv(w, b, g, a) ==
    /\ b = NoEntry => g = 0
    /\ b # NoEntry /\ a = 0 => w = b + g /\ g <= 1
    /\ b \in {0, 1} => 0 <= w /\ w <= b + 1 /\ g + (b + 1 - w) <= 1 + a * (b + 1)
    /\ b > 1 /\ a > 0 => w = 0 /\ g <= 1

WarningInv ==
    /\ WarningTypeOK
    /\ \A p \in Principals :
         BlockInv(warnings[p], blockBefore[p], given[p], admitted[p])

LEMMA WarningStart == WarningInit => WarningInv
  BY MaxWarningsAssumption
     DEF WarningInit, WarningInv, WarningTypeOK, BlockInv, Warnings, NoEntry

\* An admission and a warning, of one principal
LEMMA BlockSteps ==
  ASSUME NEW w \in Int, NEW b \in Int, NEW g \in Nat, NEW a \in Nat, NEW v \in Int,
         w >= NoEntry, b >= NoEntry, BlockInv(w, b, g, a),
         v = 1 + (IF w = NoEntry THEN 0 ELSE w)
  PROVE  /\ BlockInv(0, b, g, a + 1)
         /\ b # NoEntry /\ v - b \in {0, 1} => BlockInv(v, b, g + 1, a)
<1> USE DEF BlockInv, NoEntry
<1>1. CASE b = 0
  BY <1>1
<1>2. CASE b = 1
  <2>1. a * (b + 1) = a + a /\ (a + 1) * (b + 1) = a + a + 2
    BY <1>2
  <2> QED
    BY <1>2, <2>1
<1>3. CASE b \notin {0, 1}
  BY <1>3
<1> QED
  BY <1>1, <1>2, <1>3

LEMMA AdmitStep ==
  ASSUME NEW w \in Int, NEW b \in Int, NEW g \in Nat, NEW a \in Nat,
         w >= NoEntry, b >= NoEntry, BlockInv(w, b, g, a)
  PROVE  BlockInv(0, b, g, a + 1)
<1>1. PICK v \in Int : v = 1 + (IF w = NoEntry THEN 0 ELSE w)
  OBVIOUS
<1> QED
  BY <1>1, BlockSteps

LEMMA WarningStep == WarningInv /\ [WarningNext]_warningVars => WarningInv'
<1> SUFFICES ASSUME WarningInv, [WarningNext]_warningVars PROVE WarningInv'
  OBVIOUS
<1>0. /\ \A q \in Principals : /\ warnings[q] \in Int /\ blockBefore[q] \in Int
                               /\ warnings[q] >= NoEntry /\ blockBefore[q] >= NoEntry
                               /\ given[q] \in Nat /\ admitted[q] \in Nat
      /\ 0 \in Warnings
  BY MaxWarningsAssumption DEF WarningInv, WarningTypeOK, Warnings, NoEntry
<1>1. CASE AdvanceBlock
  <2>1. WarningTypeOK'
    BY <1>1 DEF AdvanceBlock, WarningInv, WarningTypeOK
  <2>2. ASSUME NEW q \in Principals
        PROVE  BlockInv(warnings'[q], blockBefore'[q], given'[q], admitted'[q])
    <3>1. /\ warnings'[q] = warnings[q] /\ blockBefore'[q] = warnings[q]
          /\ given'[q] = 0 /\ admitted'[q] = 0
      BY <1>1 DEF AdvanceBlock, WarningInv, WarningTypeOK
    <3>2. PICK w \in Int : w = warnings[q]
      BY <1>0
    <3>3. BlockInv(w, w, 0, 0)
      <4>1. CASE w \in {0, 1}
        BY <4>1 DEF BlockInv, NoEntry
      <4>2. CASE w \notin {0, 1}
        BY <4>2 DEF BlockInv, NoEntry
      <4> QED
        BY <4>1, <4>2
    <3> QED
      BY <3>1, <3>2, <3>3
  <2> QED
    BY <2>1, <2>2 DEF WarningInv
<1>2. ASSUME NEW p \in Principals, AdmitUnwarned(p) PROVE WarningInv'
  <2>1. /\ warnings' = [warnings EXCEPT ![p] = 0] /\ blockBefore' = blockBefore
        /\ admitted' = [admitted EXCEPT ![p] = admitted[p] + 1] /\ given' = given
    BY <1>2 DEF AdmitUnwarned
  <2>2. WarningTypeOK'
    BY <1>0, <2>1 DEF WarningInv, WarningTypeOK
  <2>3. BlockInv(0, blockBefore[p], given[p], admitted[p] + 1)
    BY <1>0, AdmitStep DEF WarningInv
  <2>4. ASSUME NEW q \in Principals
        PROVE  BlockInv(warnings'[q], blockBefore'[q], given'[q], admitted'[q])
    BY <2>1, <2>3 DEF WarningInv, WarningTypeOK
  <2> QED
    BY <2>2, <2>4 DEF WarningInv
<1>3. ASSUME NEW p \in Principals, WarnMiner(p) PROVE WarningInv'
  <2>1. /\ warnings' = [warnings EXCEPT ![p] = Incremented(p)]
        /\ blockBefore' = blockBefore /\ admitted' = admitted
        /\ given' = [given EXCEPT ![p] = given[p] + 1]
        /\ blockBefore[p] # NoEntry /\ Incremented(p) - blockBefore[p] \in {0, 1}
    BY <1>3 DEF WarnMiner, MayWarn
  <2>2. WarningTypeOK'
    <3>1. Incremented(p) \in Warnings
      BY <1>0, <1>3, MaxWarningsAssumption DEF WarnMiner, Incremented, Warnings, NoEntry
    <3> QED
      BY <1>0, <2>1, <3>1 DEF WarningInv, WarningTypeOK
  <2>3. BlockInv(Incremented(p), blockBefore[p], given[p] + 1, admitted[p])
    <3>1. /\ warnings[p] \in Int /\ blockBefore[p] \in Int
          /\ warnings[p] >= NoEntry /\ blockBefore[p] >= NoEntry
          /\ given[p] \in Nat /\ admitted[p] \in Nat
          /\ BlockInv(warnings[p], blockBefore[p], given[p], admitted[p])
      BY <1>0 DEF WarningInv
    <3>2. PICK v \in Int : v = Incremented(p)
      BY <3>1 DEF Incremented, NoEntry
    <3>3. v = 1 + (IF warnings[p] = NoEntry THEN 0 ELSE warnings[p])
      BY <3>2 DEF Incremented
    <3>4. blockBefore[p] # NoEntry /\ v - blockBefore[p] \in {0, 1}
      BY <2>1, <3>2
    <3>5. BlockInv(v, blockBefore[p], given[p] + 1, admitted[p])
      BY <3>1, <3>3, <3>4, BlockSteps
    <3> QED
      BY <3>2, <3>5
  <2>4. ASSUME NEW q \in Principals
        PROVE  BlockInv(warnings'[q], blockBefore'[q], given'[q], admitted'[q])
    BY <2>1, <2>3 DEF WarningInv, WarningTypeOK
  <2> QED
    BY <2>2, <2>4 DEF WarningInv
<1>4. CASE UNCHANGED warningVars
  BY <1>4 DEF warningVars, WarningInv, WarningTypeOK
<1> QED
  BY <1>1, <1>2, <1>3, <1>4 DEF WarningNext

LEMMA WarningBound == WarningInv => WarningsOfABlock
<1> SUFFICES ASSUME WarningInv, NEW p \in Principals
             PROVE  given[p] <= (IF blockBefore[p] = NoEntry THEN 0 ELSE 1)
                                    + admitted[p] * AgainPossible(p)
  BY DEF WarningsOfABlock
<1>1. /\ warnings[p] \in Int /\ blockBefore[p] \in Int /\ blockBefore[p] >= NoEntry
      /\ given[p] \in Nat /\ admitted[p] \in Nat
      /\ BlockInv(warnings[p], blockBefore[p], given[p], admitted[p])
  BY MaxWarningsAssumption DEF WarningInv, WarningTypeOK, Warnings, NoEntry
<1> USE DEF BlockInv, AgainPossible, NoEntry
<1>2. CASE blockBefore[p] = 0
  BY <1>1, <1>2
<1>3. CASE blockBefore[p] = 1
  BY <1>1, <1>3
<1>4. CASE blockBefore[p] = NoEntry
  BY <1>1, <1>4
<1>5. CASE blockBefore[p] > 1
  BY <1>1, <1>5
<1> QED
  BY <1>1, <1>2, <1>3, <1>4, <1>5

\* In every order of warnings and admissions a block gives one warning, and more
\* only after an admission of its own: so much the at-block comparison of
\* warn-miner achieves, although it subtracts uints.
THEOREM WarningsBounded == WarningSpec => []WarningsOfABlock
  BY WarningBound, WarningStart, WarningStep, PTL DEF WarningSpec
=============================================================================
