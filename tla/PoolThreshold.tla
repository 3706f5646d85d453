--------------------------- MODULE PoolThreshold ---------------------------
(***************************************************************************)
(* The vote threshold of the mining pool (mining-pool.clar).               *)
(*                                                                         *)
(* The contract keeps a member counter n and a threshold k, the number of  *)
(* votes that decides a ballot.  k is not a function of n: an admission     *)
(* recomputes it from k-percentage, a departure only once it has become     *)
(* k-critical percent of the members that are left, so the k in force       *)
(* depends on the order in which members came and went.  This module keeps  *)
(* n and k alone; PoolMembership refines it.                                *)
(***************************************************************************)
EXTENDS Integers

CONSTANTS
    MaxMembers,  \* bound of n; the contract's lists hold 300 principals
    MaxBatch,    \* bound on the members admitted by one call
    Initially    \* members at the start: the deployer alone

ASSUME InitiallyAssumption == Initially \in Nat \ {0}

VARIABLES n, k

thresholdVars == <<n, k>>

-----------------------------------------------------------------------------
(* The arithmetic, on uint: every subtraction below is reached only with a  *)
(* minuend large enough, or the transaction aborts.                         *)

KPercentage == 67
KCritical == 75

UpdateThreshold(m) ==
    IF m \in {1, 2} THEN 1 ELSE (KPercentage * (m - 1)) \div 100

\* What k is, in percent of the members that will be left beside the voter;
\* with one or two members a value that forces the update.
NewKPercentage(m, t) == IF m > 2 THEN (t * 100) \div (m - 2) ELSE 100

\* Mutant of ThresholdAfterDeparture: > k-critical for >= k-critical.
ThresholdAboveCritical(m, t) ==
    IF NewKPercentage(m, t) <= KCritical THEN t
    ELSE IF m > 1 THEN UpdateThreshold(m - 1) ELSE 0

\* The threshold after one of m members, under threshold t, has gone.
ThresholdAfterDeparture(m, t) ==
    IF NewKPercentage(m, t) < KCritical THEN t
    ELSE IF m > 1 THEN UpdateThreshold(m - 1) ELSE 0

IsVoteAccepted(votes, t) == votes >= (IF t = 0 THEN 1 ELSE t)

\* Mutant of IsVoteRejectedJoin: one vote too few rejects.
IsVoteRejectedJoinEarly(votes, t, m) ==
    votes >= (IF m \in {1, 2} THEN m ELSE m - t)

IsVoteRejectedJoin(votes, t, m) ==
    votes >= (IF m \in {1, 2} THEN m ELSE m - t + 1)

\* Mutant of IsVoteRejectedRemove: a pool of three forgotten.
IsVoteRejectedRemoveWithoutTriple(votes, t, m) ==
    votes >= (IF m = 2 THEN m - 1 ELSE m - t + 1)

IsVoteRejectedRemove(votes, t, m) ==
    votes >= (IF m \in {2, 3} THEN m - 1 ELSE m - t + 1)

-----------------------------------------------------------------------------
Init == n = Initially /\ k = UpdateThreshold(Initially)

\* add-pending-miners-to-pool admits all pending miners at once
Admit ==
    \E batch \in 1 .. MaxBatch :
        /\ n + batch <= MaxMembers
        /\ n' = n + batch
        /\ k' = UpdateThreshold(n + batch)

\* leave-pool and process-removal
Depart ==
    /\ n >= 1
    /\ n' = n - 1
    /\ k' = ThresholdAfterDeparture(n, k)

Next == Admit \/ Depart

Spec == Init /\ [][Next]_thresholdVars

-----------------------------------------------------------------------------
TypeOK == n \in Nat /\ k \in Nat

\* Whatever members come and go, k stays between the 67 percent (rounded
\* down) of the other members that an admission computes and the 75 percent
\* at which a departure recomputes it, and is 1, never 0, in a pool of one or
\* two: so n - k + 1 (is-vote-rejected-join/-remove) never underflows.
ThresholdBand ==
    /\ n = 0 => k = 0
    /\ n \in {1, 2} => k = 1
    /\ n >= 3 => /\ UpdateThreshold(n) <= k
                 /\ k >= 1
                 /\ 100 * k < KCritical * (n - 1)

\* A join ballot in which all n members voted is decided, and in one way
\* only: is-vote-accepted and is-vote-rejected-join are complementary there.
JoinBallotDecided ==
    n >= 1 => \A yes \in 0 .. n :
        IsVoteAccepted(yes, k) <=> ~IsVoteRejectedJoin(n - yes, k, n)

\* The target of a removal does not vote, so n - 1 votes are all there can
\* be.  is-vote-rejected-remove special-cases pools of two and three so that
\* they are decided; from four on, a ballot one vote short of k stays open
\* although everybody voted, and only that one does.
RemovalBallotOneShort ==
    n >= 2 => \A yes \in 0 .. (n - 1) :
        LET accepted == IsVoteAccepted(yes, k)
            rejected == IsVoteRejectedRemove(n - 1 - yes, k, n)
        IN  /\ ~(accepted /\ rejected)
            /\ ~accepted /\ ~rejected <=> n >= 4 /\ yes = k - 1

\* A departure never makes a decision harder to reach, although it may leave
\* k as it is.
DepartureNeverRaisesThreshold == [][n' < n => k' <= k]_thresholdVars
=============================================================================
