------------------------ MODULE PoolMembershipProofs ------------------------
(***************************************************************************)
(* The members of the mining pool, their ballots and the election of their   *)
(* notifier, for every set of principals and every bound.  An election gives *)
(* the seat to a member with most votes, and does nothing else to the pool.  *)
(***************************************************************************)
EXTENDS NotifierElection, FoldTheorems

-----------------------------------------------------------------------------
(* Operators *)

\* Multiplicities are naturals, positive for what occurs.
LEMMA OccurrencesCount ==
    ASSUME NEW s \in Seq(Principals), NEW p
    PROVE  /\ Occurrences(s, p) \in Nat
           /\ Occurrences(s, p) > 0 <=> p \in Range(s)
<1> DEFINE I == {i \in DOMAIN s : s[i] = p}
<1>1. DOMAIN s = 1 .. Len(s) /\ Len(s) \in Nat
  OBVIOUS
<1>2. IsFiniteSet(I)
  <2>1. IsFiniteSet(1 .. Len(s))
    BY <1>1, FS_Interval
  <2> QED
    BY <1>1, <2>1, FS_Subset
<1>3. Cardinality(I) \in Nat
  BY <1>2, FS_CardinalityType
<1>4. Cardinality(I) = 0 <=> I = {}
  BY <1>2, FS_EmptySet
<1>5. I # {} <=> p \in Range(s)
  BY DEF Range
<1> QED
  BY <1>3, <1>4, <1>5 DEF Occurrences

\* An append adds its element, and only that, to what a list holds.
LEMMA RangeAppend ==
    ASSUME NEW s \in Seq(Principals), NEW p \in Principals
    PROVE  Range(Append(s, p)) = Range(s) \cup {p}
<1> DEFINE t == Append(s, p)
<1>1. /\ DOMAIN s = 1 .. Len(s) /\ Len(s) \in Nat
      /\ DOMAIN t = 1 .. (Len(s) + 1)
      /\ \A i \in 1 .. Len(s) : t[i] = s[i]
      /\ t[Len(s) + 1] = p
  OBVIOUS
<1>2. \A x \in Range(t) : x \in Range(s) \cup {p}
  <2> SUFFICES ASSUME NEW i \in 1 .. (Len(s) + 1) PROVE t[i] \in Range(s) \cup {p}
    BY <1>1 DEF Range
  <2>1. CASE i \in 1 .. Len(s)
    BY <1>1, <2>1 DEF Range
  <2>2. CASE i = Len(s) + 1
    BY <1>1, <2>2
  <2> HIDE DEF t
  <2> QED
    BY <1>1, <2>1, <2>2
<1>3. \A x \in Range(s) : x \in Range(t)
  <2> SUFFICES ASSUME NEW i \in 1 .. Len(s) PROVE s[i] \in Range(t)
    BY <1>1 DEF Range
  <2> HIDE DEF t
  <2>1. i \in DOMAIN t /\ t[i] = s[i]
    BY <1>1
  <2> QED
    BY <2>1 DEF Range
<1>4. p \in Range(t)
  <2> HIDE DEF t
  <2>1. Len(s) + 1 \in DOMAIN t
    BY <1>1
  <2> QED
    BY <1>1, <2>1 DEF Range
<1> HIDE DEF t
<1>5. Range(t) = Range(s) \cup {p}
  BY <1>2, <1>3, <1>4
<1> QED
  BY <1>5 DEF t

LEMMA RangeSeq ==
    ASSUME NEW s \in Seq(Principals)
    PROVE  Range(s) \subseteq Principals
  BY DEF Range

LEMMA RangeEmpty == Range(<<>>) = {}
  BY DEF Range

\* update-threshold yields a natural in a pool that has members,
LEMMA UpdateNat ==
    ASSUME NEW m \in Nat, m >= 1
    PROVE  T!UpdateThreshold(m) \in Nat
  BY DEF T!UpdateThreshold, T!KPercentage

\* and so does a departure from one.
LEMMA DepartureNat ==
    ASSUME NEW m \in Nat, NEW t \in Nat, m >= 1
    PROVE  T!ThresholdAfterDeparture(m, t) \in Nat
  BY UpdateNat DEF T!ThresholdAfterDeparture

LEMMA FoundersCount == Cardinality(Founders) \in Nat /\ Cardinality(Founders) >= 1
<1>1. IsFiniteSet(Founders)
  BY FoundersAssumption, FiniteAssumption, FS_Subset
<1>2. Founders # {}
  BY FoundersAssumption
<1> QED
  BY <1>1, <1>2, FS_CardinalityType, FS_EmptySet

LEMMA OlderAge == ASSUME NEW x \in Ages PROVE Older(x) \in Ages
  BY BoundsAssumption DEF Older, Ages, NoAge

-----------------------------------------------------------------------------
(* Types *)

\* The three operators that write the variables of one principal.
LEMMA DropMinerType ==
    ASSUME TypeOK, NEW p \in Principals, DropMiner(p)
    PROVE  /\ n' \in Nat /\ k' \in Nat
           /\ isMiner' \subseteq Principals /\ minersList' \in Counts
           /\ proposedList' \in Counts
<1>1. n' \in Nat /\ k' \in Nat
  BY DepartureNat DEF DropMiner, CountDeparture, UnlistMiner, UnlistProposal, TypeOK, PoolType
<1>2. isMiner' \subseteq Principals /\ minersList' \in Counts
  BY DEF DropMiner, CountDeparture, UnlistMiner, UnlistProposal, TypeOK, PoolType, Counts
<1>3. proposedList' \in Counts
  BY DEF DropMiner, CountDeparture, UnlistMiner, UnlistProposal, TypeOK, RemovalType, Counts
<1> QED
  BY <1>1, <1>2, <1>3

LEMMA NoneTypes == NoBallot \in Ballot /\ NoAge \in Ages /\ 0 \in Ages
  BY BoundsAssumption DEF NoBallot, Ballot, NoAge, Ages

LEMMA ClearJoinType ==
    ASSUME TypeOK, NEW p \in Principals, NEW voters \in SUBSET (Principals \X Principals),
           ClearJoinBallot(p, voters)
    PROVE  /\ askAge' \in [Principals -> Ages]
           /\ askSnap' \in [Principals -> Ballot]
           /\ acceptJoin' \in Counts /\ rejectJoin' \in Counts
           /\ joinVoter' \subseteq Principals \X Principals
<1> USE DEF ClearJoinBallot, TypeOK, JoinType
<1>1. askAge' \in [Principals -> Ages]
  BY NoneTypes
<1>2. askSnap' \in [Principals -> Ballot]
  BY NoneTypes
<1>3. acceptJoin' \in Counts /\ rejectJoin' \in Counts
  BY DEF Counts
<1>4. joinVoter' \subseteq Principals \X Principals
  OBVIOUS
<1> QED
  BY <1>1, <1>2, <1>3, <1>4

LEMMA ClearRemovalType ==
    ASSUME TypeOK, NEW p \in Principals, NEW voters \in SUBSET (Principals \X Principals),
           NEW members, ClearRemovalBallot(p, voters, members)
    PROVE  /\ isProposed' \subseteq Principals
           /\ proposalAge' \in [Principals -> Ages]
           /\ proposalSnap' \in [Principals -> Ballot]
           /\ acceptRemoval' \in Counts /\ rejectRemoval' \in Counts
           /\ removeVoter' \subseteq Principals \X Principals
<1> USE DEF ClearRemovalBallot, TypeOK, RemovalType
<1>1. proposalAge' \in [Principals -> Ages]
  BY NoneTypes
<1>2. proposalSnap' \in [Principals -> Ballot]
  BY NoneTypes
<1>3. acceptRemoval' \in Counts /\ rejectRemoval' \in Counts
  BY DEF Counts
<1>4. removeVoter' \subseteq Principals \X Principals /\ isProposed' \subseteq Principals
  OBVIOUS
<1> QED
  BY <1>1, <1>2, <1>3, <1>4

LEMMA DropCandidateType ==
    ASSUME TypeOK, NEW p \in Principals, DropCandidate(p)
    PROVE  isWaiting' \subseteq Principals /\ waitingList' \in Counts
  BY DEF DropCandidate, TypeOK, JoinType, Counts

-----------------------------------------------------------------------------
(* Types *)

LEMMA InitType == Init => TypeOK
<1> SUFFICES ASSUME Init PROVE TypeOK
  OBVIOUS
<1>1. PoolType
  BY FoundersCount, UpdateNat, FoundersAssumption DEF Init, PoolType, Counts
<1>2. JoinType
  BY NoneTypes, BoundsAssumption DEF Init, JoinType, Counts
<1>3. RemovalType
  BY NoneTypes DEF Init, RemovalType, Counts
<1> QED
  BY <1>1, <1>2, <1>3 DEF TypeOK

LEMMA NextType == TypeOK /\ [Next]_vars => TypeOK'
<1> SUFFICES ASSUME TypeOK, [Next]_vars PROVE TypeOK'
  OBVIOUS
<1>p. UNCHANGED <<notifier, thresholds, miners>> => PoolType'
  BY DEF TypeOK, PoolType, thresholds, miners
<1>j. UNCHANGED <<candidates, accepted, joinBallots>> => JoinType'
  BY DEF TypeOK, JoinType, candidates, accepted, joinBallots
<1>r. UNCHANGED <<proposals, removalBallots>> => RemovalType'
  BY DEF TypeOK, RemovalType, proposals, removalBallots
<1>1. CASE AdvanceBlock
  <2>1. \A p \in Principals : AtAsk(p) \in Ballot /\ AtProposal(p) \in Ballot
    BY DEF AtAsk, AtProposal, AtRequest, Ballot, TypeOK, PoolType, JoinType, RemovalType
  <2>2. \A p \in Principals : Older(askAge[p]) \in Ages /\ Older(proposalAge[p]) \in Ages
    BY OlderAge DEF TypeOK, JoinType, RemovalType
  <2>3. Older(sinceLastJoin) \in 0 .. BlocksToPass
    BY BoundsAssumption DEF Older, NoAge, TypeOK, JoinType
  <2>4. JoinType'
    BY <1>1, <2>1, <2>2, <2>3 DEF AdvanceBlock, candidates, TypeOK, JoinType
  <2>5. RemovalType'
    BY <1>1, <2>1, <2>2 DEF AdvanceBlock, proposals, TypeOK, RemovalType
  <2> QED
    BY <1>1, <1>p, <2>4, <2>5 DEF AdvanceBlock, TypeOK
<1>2. CASE AddPendingMiners
  <2>1. Range(pendingList) \subseteq Principals
    BY RangeSeq DEF TypeOK, JoinType
  <2>2. \A p \in Principals : Occurrences(pendingList, p) \in Nat
    BY OccurrencesCount DEF TypeOK, JoinType
  <2>3. n' \in Nat /\ n' >= 1
    BY <1>2 DEF AddPendingMiners, Entering, TypeOK, PoolType, JoinType
  <2>4. k' \in Nat
    BY <1>2, <2>3, UpdateNat DEF AddPendingMiners
  <2>5. PoolType'
    BY <1>2, <2>1, <2>2, <2>3, <2>4
       DEF AddPendingMiners, TypeOK, PoolType, Counts
  <2>6. JoinType'
    BY <1>2, BoundsAssumption
       DEF AddPendingMiners, candidates, joinBallots, TypeOK, JoinType
  <2> QED
    BY <1>2, <1>r, <2>5, <2>6 DEF AddPendingMiners, TypeOK
<1>3. ASSUME NEW call \in Calls, AskToJoin(call[1], call[2]) PROVE TypeOK'
  <2>1. call[1] \in Principals /\ call[2] \in Principals
    BY CallsAssumption
  <2>2. waitingList' \in Counts /\ isWaiting' \subseteq Principals
    BY <1>3, <2>1 DEF AskToJoin, TypeOK, JoinType, Counts
  <2>3. askAge' \in [Principals -> Ages]
    BY <1>3, <2>1, NoneTypes DEF AskToJoin, TypeOK, JoinType
  <2>4. JoinType'
    BY <1>3, <2>2, <2>3 DEF AskToJoin, accepted, TypeOK, JoinType
  <2> QED
    BY <1>3, <1>p, <1>r, <2>4 DEF AskToJoin, TypeOK
<1>4. ASSUME NEW p \in Principals, QuitWaitingList(p) PROVE TypeOK'
  <2>1. JoinType'
    BY <1>4, DropCandidateType, ClearJoinType
       DEF QuitWaitingList, accepted, TypeOK, JoinType
  <2> QED
    BY <1>4, <1>p, <1>r, <2>1 DEF QuitWaitingList, TypeOK
<1>5. ASSUME NEW p \in Principals, TryEnterPool(p) PROVE TypeOK'
  <2>1. pendingList' \in Seq(Principals) /\ isPending' \subseteq Principals
    BY <1>5 DEF TryEnterPool, TypeOK, JoinType
  <2>2. JoinType'
    BY <1>5, <2>1, DropCandidateType, ClearJoinType
       DEF TryEnterPool, TypeOK, JoinType
  <2> QED
    BY <1>5, <1>p, <1>r, <2>2 DEF TryEnterPool, TypeOK
<1>6. ASSUME NEW p \in Principals, LeavePool(p) PROVE TypeOK'
  <2>1. PoolType'
    BY <1>6, DropMinerType DEF LeavePool, TypeOK, PoolType
  <2>2. RemovalType'
    BY <1>6, DropMinerType DEF LeavePool, removalBallots, TypeOK, RemovalType
  <2> QED
    BY <1>6, <1>j, <2>1, <2>2 DEF LeavePool, TypeOK
<1>7. ASSUME NEW p \in Principals, QuitProposedRemovalList(p) PROVE TypeOK'
  <2>1. proposedList' \in Counts
    BY <1>7 DEF UnlistProposal, QuitProposedRemovalList, TypeOK, RemovalType, Counts
  <2>2. RemovalType'
    BY <1>7, <2>1, ClearRemovalType DEF QuitProposedRemovalList, TypeOK, RemovalType
  <2> QED
    BY <1>7, <1>p, <1>j, <2>2 DEF QuitProposedRemovalList, TypeOK
<1>8. ASSUME NEW p \in Principals, ElectNotifier(p) PROVE TypeOK'
  <2>1. PoolType'
    BY <1>8 DEF ElectNotifier, thresholds, miners, TypeOK, PoolType
  <2> QED
    BY <1>8, <1>j, <1>r, <2>1 DEF ElectNotifier, TypeOK
<1>9. ASSUME NEW v \in Principals, NEW p \in Principals, VotePositiveJoin(v, p)
      PROVE  TypeOK'
  <2>1. joinVoter' \subseteq Principals \X Principals /\ acceptJoin' \in Counts
    BY <1>9 DEF VotePositiveJoin, TypeOK, JoinType, Counts
  <2>2. JoinType'
    BY <1>9, <2>1 DEF VotePositiveJoin, candidates, accepted, TypeOK, JoinType
  <2> QED
    BY <1>9, <1>p, <1>r, <2>2 DEF VotePositiveJoin, TypeOK
<1>10. ASSUME NEW v \in Principals, NEW p \in Principals, VoteNegativeJoin(v, p)
       PROVE  TypeOK'
  <2>1. joinVoter \cup {<<p, v>>} \in SUBSET (Principals \X Principals)
    BY DEF TypeOK, JoinType
  <2>2. ASSUME ~JoinRejected(p, rejectJoin[p] + 1) PROVE JoinType'
    <3>1. rejectJoin' = [rejectJoin EXCEPT ![p] = @ + 1]
      BY <1>10, <2>2 DEF VoteNegativeJoin
    <3>2. rejectJoin' \in Counts
      BY <3>1 DEF TypeOK, JoinType, Counts
    <3> QED
      BY <1>10, <2>1, <2>2, <3>2
         DEF VoteNegativeJoin, candidates, accepted, TypeOK, JoinType
  <2>3. ASSUME JoinRejected(p, rejectJoin[p] + 1) PROVE JoinType'
    BY <1>10, <2>1, <2>3, DropCandidateType, ClearJoinType
       DEF VoteNegativeJoin, accepted, TypeOK, JoinType
  <2>4. JoinType'
    BY <2>2, <2>3
  <2> QED
    BY <1>10, <1>p, <1>r, <2>4 DEF VoteNegativeJoin, TypeOK
<1>11. ASSUME NEW v \in Principals, NEW p \in Principals, ProposeRemoval(v, p)
       PROVE  TypeOK'
  <2>1. proposalAge' \in [Principals -> Ages] /\ proposedList' \in Counts
    BY <1>11, NoneTypes DEF ProposeRemoval, TypeOK, RemovalType, Counts
  <2>2. RemovalType'
    BY <1>11, <2>1 DEF ProposeRemoval, TypeOK, RemovalType
  <2> QED
    BY <1>11, <1>p, <1>j, <2>2 DEF ProposeRemoval, TypeOK
<1>12. ASSUME NEW v \in Principals, NEW p \in Principals, VotePositiveRemove(v, p)
       PROVE  TypeOK'
  <2>1. removeVoter \cup {<<p, v>>} \in SUBSET (Principals \X Principals)
    BY DEF TypeOK, RemovalType
  <2>2. ASSUME ~RemovalAccepted(p, acceptRemoval[p] + 1)
        PROVE  PoolType' /\ RemovalType'
    <3>1. acceptRemoval' \in Counts
      BY <1>12, <2>2 DEF VotePositiveRemove, TypeOK, RemovalType, Counts
    <3> QED
      BY <1>12, <1>p, <2>1, <2>2, <3>1
         DEF VotePositiveRemove, proposals, TypeOK, RemovalType
  <2>3. ASSUME RemovalAccepted(p, acceptRemoval[p] + 1)
        PROVE  PoolType' /\ RemovalType'
    <3>1. DropMiner(p) /\ ClearRemovalBallot(p, removeVoter \cup {<<p, v>>},
                                             Listed(minersList) \ {p})
      BY <1>12, <2>3 DEF VotePositiveRemove
    <3>2. PoolType'
      BY <1>12, <3>1, DropMinerType DEF VotePositiveRemove, TypeOK, PoolType
    <3>3. RemovalType'
      BY <2>1, <3>1, DropMinerType, ClearRemovalType DEF RemovalType
    <3> QED
      BY <3>2, <3>3
  <2> QED
    BY <1>12, <1>j, <2>2, <2>3 DEF VotePositiveRemove, TypeOK
<1>13. ASSUME NEW v \in Principals, NEW p \in Principals, VoteNegativeRemove(v, p)
       PROVE  TypeOK'
  <2>1. removeVoter \cup {<<p, v>>} \in SUBSET (Principals \X Principals)
    BY DEF TypeOK, RemovalType
  <2>2. ASSUME ~RemovalRejected(p, rejectRemoval[p] + 1) PROVE RemovalType'
    <3>1. rejectRemoval' \in Counts
      BY <1>13, <2>2 DEF VoteNegativeRemove, TypeOK, RemovalType, Counts
    <3> QED
      BY <1>13, <2>1, <2>2, <3>1
         DEF VoteNegativeRemove, proposals, TypeOK, RemovalType
  <2>3. ASSUME RemovalRejected(p, rejectRemoval[p] + 1) PROVE RemovalType'
    <3>1. ClearRemovalBallot(p, removeVoter \cup {<<p, v>>}, Listed(minersList))
      BY <1>13, <2>3 DEF VoteNegativeRemove
    <3>2. proposedList' \in Counts
      BY <1>13, <2>3 DEF UnlistProposal, VoteNegativeRemove, TypeOK, RemovalType, Counts
    <3> QED
      BY <2>1, <3>1, <3>2, ClearRemovalType DEF RemovalType
  <2> QED
    BY <1>13, <1>p, <1>j, <2>2, <2>3 DEF VoteNegativeRemove, TypeOK
<1>14. CASE UNCHANGED vars
  BY <1>14, <1>p, <1>j, <1>r DEF vars, TypeOK
<1> QED
  BY <1>1, <1>2, <1>3, <1>4, <1>5, <1>6, <1>7, <1>8, <1>9, <1>10, <1>11,
     <1>12, <1>13, <1>14 DEF Next, MembershipFlow, JoinFlow, RemovalFlow

\* Every variable of the pool keeps its type: no counter underflows, and no
\* request is judged by something that is not a state of the pool.
THEOREM TypeCorrect == Spec => []TypeOK
  BY InitType, NextType, PTL DEF Spec

-----------------------------------------------------------------------------
(* The threshold *)

\* A batch of pending miners is never larger than their list may be.
PendingBounded == Len(pendingList) <= MaxList

LEMMA InitPending == Init => PendingBounded
  BY BoundsAssumption DEF Init, PendingBounded

LEMMA NextPending == TypeOK /\ PendingBounded /\ [Next]_vars => PendingBounded'
<1> SUFFICES ASSUME TypeOK, PendingBounded, [Next]_vars PROVE PendingBounded'
  OBVIOUS
<1>1. UNCHANGED pendingList => PendingBounded'
  BY DEF PendingBounded
<1>2. ASSUME NEW p \in Principals, TryEnterPool(p) PROVE PendingBounded'
  <2>1. pendingList \in Seq(Principals) /\ Len(pendingList) \in Nat
    BY DEF TypeOK, JoinType
  <2>2. Len(pendingList') = Len(pendingList) + 1 /\ Len(pendingList) < MaxList
    BY <1>2, <2>1 DEF TryEnterPool
  <2> QED
    BY <2>1, <2>2, BoundsAssumption DEF PendingBounded
<1>3. CASE AddPendingMiners
  BY <1>3, BoundsAssumption DEF AddPendingMiners, PendingBounded
<1>4. UNCHANGED accepted => PendingBounded'
  BY <1>1 DEF accepted
<1>5. CASE AdvanceBlock
  BY <1>5, <1>1 DEF AdvanceBlock
<1>6. CASE UNCHANGED vars
  BY <1>6, <1>4 DEF vars
<1> QED
  BY <1>2, <1>3, <1>4, <1>5, <1>6
     DEF Next, MembershipFlow, JoinFlow, RemovalFlow,
         AskToJoin, QuitWaitingList, LeavePool, QuitProposedRemovalList,
         ElectNotifier, VotePositiveJoin, VoteNegativeJoin, ProposeRemoval,
         VotePositiveRemove, VoteNegativeRemove

LEMMA InitWalk == Init => T!Init
  BY DEF Init, T!Init

LEMMA NextWalk ==
    TypeOK /\ PendingBounded /\ [Next]_vars => [T!Next]_(T!thresholdVars)
<1> SUFFICES ASSUME TypeOK, PendingBounded, [Next]_vars
             PROVE  T!Next \/ UNCHANGED T!thresholdVars
  OBVIOUS
<1>1. UNCHANGED thresholds => UNCHANGED T!thresholdVars
  BY DEF thresholds, T!thresholdVars
<1>2. ASSUME NEW p \in Principals, DropMiner(p) PROVE T!Next
  BY <1>2 DEF DropMiner, CountDeparture, UnlistMiner, UnlistProposal, T!Next, T!Depart
<1>3. CASE AddPendingMiners
  <2> DEFINE batch == Len(pendingList)
  <2>1. n \in Nat /\ pendingList \in Seq(Principals) /\ pendingList # <<>>
    BY <1>3 DEF AddPendingMiners, TypeOK, PoolType, JoinType
  <2>2. batch \in 1 .. MaxList
    BY <2>1, BoundsAssumption DEF PendingBounded
  <2>3. ~(n + batch > MaxMembers) /\ n' = n + batch /\ k' = T!UpdateThreshold(n')
    BY <1>3 DEF AddPendingMiners, Entering, PoolIsFull
  <2>4. n + batch <= MaxMembers
    BY <2>1, <2>2, <2>3, MaxMembersAssumption
  <2>5. k' = T!UpdateThreshold(n + batch)
    BY <2>3
  <2> QED
    BY <2>2, <2>3, <2>4, <2>5 DEF T!Next, T!Admit
<1>4. ASSUME NEW v \in Principals, NEW p \in Principals, VotePositiveRemove(v, p)
      PROVE  T!Next \/ UNCHANGED T!thresholdVars
  BY <1>4, <1>1, <1>2 DEF VotePositiveRemove
<1>5. CASE AdvanceBlock
  BY <1>5, <1>1 DEF AdvanceBlock
<1>6. CASE UNCHANGED vars
  BY <1>6, <1>1 DEF vars
<1> QED
  BY <1>1, <1>2, <1>3, <1>4, <1>5, <1>6
     DEF Next, MembershipFlow, JoinFlow, RemovalFlow,
         AskToJoin, QuitWaitingList, TryEnterPool, LeavePool,
         QuitProposedRemovalList, ElectNotifier, VotePositiveJoin,
         VoteNegativeJoin, ProposeRemoval, VoteNegativeRemove

\* The pool implements the threshold's walk, in every interleaving of its
\* joining, leaving and removing flows.
THEOREM WalksThreshold == Spec => ThresholdWalk
  BY InitType, NextType, InitPending, NextPending, InitWalk, NextWalk, PTL
     DEF Spec, ThresholdWalk, T!Spec

-----------------------------------------------------------------------------
(* Maps and lists *)

LEMMA InitMaps == Init => MapsAgreeWithLists
<1> SUFFICES ASSUME Init PROVE MapsAgreeWithLists
  OBVIOUS
<1>1. isMiner = Listed(minersList)
  BY FoundersAssumption DEF Init, Listed
<1>2. isPending = Range(pendingList)
  BY RangeEmpty DEF Init
<1> QED
  BY <1>1, <1>2 DEF MapsAgreeWithLists

LEMMA NextMaps ==
    TypeOK /\ MapsAgreeWithLists /\ [Next]_vars => MapsAgreeWithLists'
<1> SUFFICES ASSUME TypeOK, MapsAgreeWithLists, [Next]_vars
             PROVE  MapsAgreeWithLists'
  OBVIOUS
<1> DEFINE MinersAgree == isMiner = Listed(minersList)
           PendingAgree == isPending = Range(pendingList)
<1>a. MinersAgree /\ PendingAgree
  BY DEF MapsAgreeWithLists
<1>m. UNCHANGED miners => MinersAgree'
  BY <1>a DEF miners, Listed
<1>p. UNCHANGED <<isPending, pendingList>> => PendingAgree'
  BY <1>a
<1>q. UNCHANGED accepted => PendingAgree'
  BY <1>p DEF accepted
<1>d. ASSUME NEW p \in Principals, DropMiner(p) PROVE MinersAgree'
  BY <1>a, <1>d DEF DropMiner, CountDeparture, UnlistMiner, UnlistProposal, Listed, TypeOK,
                    PoolType, Counts
<1>1. CASE AdvanceBlock
  BY <1>1, <1>m, <1>p DEF AdvanceBlock, MapsAgreeWithLists
<1>2. CASE AddPendingMiners
  <2>1. \A p \in Principals :
          /\ minersList'[p] = minersList[p] + Occurrences(pendingList, p)
          /\ minersList[p] \in Nat
          /\ Occurrences(pendingList, p) \in Nat
          /\ Occurrences(pendingList, p) > 0 <=> p \in Range(pendingList)
    BY <1>2, OccurrencesCount
       DEF AddPendingMiners, TypeOK, PoolType, JoinType, Counts
  <2>2. \A p \in Principals :
          minersList'[p] > 0 <=> minersList[p] > 0 \/ p \in Range(pendingList)
    BY <2>1
  <2>3. Range(pendingList) \subseteq Principals
    BY RangeSeq DEF TypeOK, JoinType
  <2>4. isMiner' = isMiner \cup Range(pendingList)
    BY <1>2 DEF AddPendingMiners
  <2>5. MinersAgree'
    BY <1>a, <2>2, <2>3, <2>4 DEF Listed
  <2>6. isPending' = {} /\ pendingList' = <<>>
    BY <1>2, <1>a DEF AddPendingMiners
  <2> QED
    BY <2>5, <2>6, RangeEmpty DEF MapsAgreeWithLists
<1>3. ASSUME NEW p \in Principals, TryEnterPool(p) PROVE MapsAgreeWithLists'
  <2>1. Range(pendingList') = Range(pendingList) \cup {p}
    BY <1>3, RangeAppend DEF TryEnterPool, TypeOK, JoinType
  <2> QED
    BY <1>3, <1>a, <1>m, <2>1 DEF TryEnterPool, MapsAgreeWithLists
<1>4. ASSUME NEW p \in Principals, LeavePool(p) PROVE MapsAgreeWithLists'
  BY <1>4, <1>d, <1>q DEF LeavePool, MapsAgreeWithLists
<1>5. ASSUME NEW v \in Principals, NEW p \in Principals, VotePositiveRemove(v, p)
      PROVE  MapsAgreeWithLists'
  BY <1>5, <1>d, <1>m, <1>q DEF VotePositiveRemove, MapsAgreeWithLists
<1>6. UNCHANGED <<miners, accepted>> => MapsAgreeWithLists'
  BY <1>m, <1>q DEF MapsAgreeWithLists
<1>7. CASE UNCHANGED vars
  BY <1>7, <1>6 DEF vars
<1>8. ASSUME NEW p \in Principals, ElectNotifier(p) PROVE MapsAgreeWithLists'
  BY <1>8, <1>6 DEF ElectNotifier
<1> QED
  BY <1>1, <1>2, <1>3, <1>4, <1>5, <1>6, <1>7, <1>8
     DEF Next, MembershipFlow, JoinFlow, RemovalFlow,
         AskToJoin, QuitWaitingList, QuitProposedRemovalList,
         VotePositiveJoin, VoteNegativeJoin, ProposeRemoval, VoteNegativeRemove

\* Whoever passes a guard as a member, or as pending, is on the list that is
\* iterated over for members, or for those pending, and the other way round.
THEOREM MapsAgree == Spec => []MapsAgreeWithLists
  BY InitType, NextType, InitMaps, NextMaps, PTL DEF Spec

-----------------------------------------------------------------------------
(* Join ballots *)

LEMMA InitBallots == Init => JoinBallotsOpen /\ JoinVotesBacked
<1> SUFFICES ASSUME Init PROVE JoinBallotsOpen /\ JoinVotesBacked
  OBVIOUS
<1>1. \A p \in Principals : JoinVoters(p) = {}
  BY DEF Init, JoinVoters
<1>2. Cardinality({}) = 0
  BY FS_EmptySet
<1> QED
  <2>1. JoinBallotsOpen
    BY DEF Init, JoinBallotsOpen, NoAge
  <2>2. \A p \in Principals :
          acceptJoin[p] + rejectJoin[p] <= Cardinality(JoinVoters(p))
    <3> SUFFICES ASSUME NEW p \in Principals
                 PROVE  acceptJoin[p] + rejectJoin[p] <= Cardinality(JoinVoters(p))
      OBVIOUS
    <3>1. acceptJoin[p] = 0 /\ rejectJoin[p] = 0
      BY DEF Init
    <3>2. Cardinality(JoinVoters(p)) = 0
      BY <1>1, <1>2
    <3> QED
      BY <3>1, <3>2
  <2> QED
    BY <2>1, <2>2 DEF JoinVotesBacked

\* Clearing the ballot of p leaves it empty, and every other as it was.
LEMMA ClearedOpen ==
    ASSUME TypeOK, JoinBallotsOpen, NEW p \in Principals, NEW voters,
           DropCandidate(p), ClearJoinBallot(p, voters)
    PROVE  JoinBallotsOpen'
<1> SUFFICES ASSUME NEW q \in Principals
             PROVE  /\ q \in isWaiting' <=> askAge'[q] # NoAge
                    /\ askAge'[q] <= 0 => acceptJoin'[q] = 0 /\ rejectJoin'[q] = 0
  BY DEF JoinBallotsOpen
<1>t. /\ askAge \in [Principals -> Ages]
      /\ acceptJoin \in [Principals -> Nat] /\ rejectJoin \in [Principals -> Nat]
  BY DEF TypeOK, JoinType, Counts
<1>1. CASE q = p
  BY <1>1, <1>t DEF DropCandidate, ClearJoinBallot
<1>2. CASE q # p
  BY <1>2, <1>t DEF DropCandidate, ClearJoinBallot, JoinBallotsOpen
<1> QED
  BY <1>1, <1>2

LEMMA NextOpen == TypeOK /\ JoinBallotsOpen /\ [Next]_vars => JoinBallotsOpen'
<1> SUFFICES ASSUME TypeOK, JoinBallotsOpen, [Next]_vars
             PROVE  JoinBallotsOpen'
  OBVIOUS
<1>t. /\ askAge \in [Principals -> Ages]
      /\ acceptJoin \in [Principals -> Nat] /\ rejectJoin \in [Principals -> Nat]
  BY DEF TypeOK, JoinType, Counts
<1>u. UNCHANGED <<candidates, joinBallots>> => JoinBallotsOpen'
  BY DEF candidates, joinBallots, JoinBallotsOpen
<1>1. CASE AdvanceBlock
  <2> SUFFICES ASSUME NEW p \in Principals
               PROVE  /\ p \in isWaiting' <=> askAge'[p] # NoAge
                      /\ askAge'[p] <= 0
                            => acceptJoin'[p] = 0 /\ rejectJoin'[p] = 0
    BY DEF JoinBallotsOpen
  <2>1. askAge'[p] = Older(askAge[p]) /\ askAge[p] \in Ages
    BY <1>1, <1>t DEF AdvanceBlock
  <2>2. askAge'[p] <= 0 <=> askAge[p] = NoAge
    BY <2>1, BoundsAssumption DEF Older, Ages, NoAge
  <2>3. askAge'[p] = NoAge <=> askAge[p] = NoAge
    BY <2>1, BoundsAssumption DEF Older, Ages, NoAge
  <2>4. UNCHANGED <<isWaiting, acceptJoin, rejectJoin>>
    BY <1>1 DEF AdvanceBlock, candidates
  <2> QED
    BY <2>2, <2>3, <2>4 DEF JoinBallotsOpen, NoAge
<1>2. CASE AddPendingMiners
  BY <1>2, <1>u DEF AddPendingMiners
<1>3. ASSUME NEW call \in Calls, AskToJoin(call[1], call[2])
      PROVE  JoinBallotsOpen'
  <2> DEFINE caller == call[2]
  <2>1. caller \in Principals
    BY CallsAssumption
  <2> HIDE DEF caller
  <2>2. /\ caller \notin isWaiting
        /\ isWaiting' = isWaiting \cup {caller}
        /\ askAge' = [askAge EXCEPT ![caller] = 0]
        /\ UNCHANGED <<acceptJoin, rejectJoin>>
    BY <1>3 DEF AskToJoin, caller
  <2> QED
    BY <1>t, <2>1, <2>2 DEF JoinBallotsOpen, NoAge
<1>4. ASSUME NEW p \in Principals, QuitWaitingList(p) PROVE JoinBallotsOpen'
  BY <1>4, ClearedOpen DEF QuitWaitingList
<1>5. ASSUME NEW p \in Principals, TryEnterPool(p) PROVE JoinBallotsOpen'
  BY <1>5, ClearedOpen DEF TryEnterPool
<1>6. ASSUME NEW v \in Principals, NEW p \in Principals, VotePositiveJoin(v, p)
      PROVE  JoinBallotsOpen'
  <2>1. /\ askAge[p] > 0
        /\ acceptJoin' = [acceptJoin EXCEPT ![p] = @ + 1]
        /\ UNCHANGED <<isWaiting, askAge, rejectJoin>>
    BY <1>6 DEF VotePositiveJoin, MayVoteJoin, candidates
  <2> QED
    BY <1>t, <2>1 DEF JoinBallotsOpen, Ages, NoAge
<1>7. ASSUME NEW v \in Principals, NEW p \in Principals, VoteNegativeJoin(v, p)
      PROVE  JoinBallotsOpen'
  <2>1. CASE ~JoinRejected(p, rejectJoin[p] + 1)
    <3>1. /\ askAge[p] > 0
          /\ rejectJoin' = [rejectJoin EXCEPT ![p] = @ + 1]
          /\ UNCHANGED <<isWaiting, askAge, acceptJoin>>
      BY <1>7, <2>1 DEF VoteNegativeJoin, MayVoteJoin, candidates
    <3> QED
      BY <1>t, <3>1 DEF JoinBallotsOpen, Ages, NoAge
  <2>2. CASE JoinRejected(p, rejectJoin[p] + 1)
    BY <1>7, <2>2, ClearedOpen DEF VoteNegativeJoin
  <2> QED
    BY <2>1, <2>2
<1>8. CASE UNCHANGED vars
  BY <1>8, <1>u DEF vars
<1> QED
  BY <1>1, <1>2, <1>3, <1>4, <1>5, <1>6, <1>7, <1>8, <1>u
     DEF Next, MembershipFlow, JoinFlow, RemovalFlow,
         LeavePool, ElectNotifier, QuitProposedRemovalList,
         ProposeRemoval, VotePositiveRemove, VoteNegativeRemove

\* The electorate of a ballot is finite.
LEMMA VotersFinite ==
    ASSUME TypeOK, NEW p \in Principals
    PROVE  /\ IsFiniteSet(askSnap[p].miners)
           /\ IsFiniteSet(JoinVoters(p))
           /\ Cardinality(JoinVoters(p)) \in Nat
           /\ Cardinality(JoinVoters(p)) <= Cardinality(askSnap[p].miners)
<1>1. askSnap[p].miners \subseteq Principals
  BY DEF TypeOK, JoinType, Ballot
<1>2. JoinVoters(p) \subseteq askSnap[p].miners
  BY DEF JoinVoters
<1> QED
  BY <1>1, <1>2, FiniteAssumption, FS_Subset, FS_CardinalityType

\* A vote that passes the guard is one voter more.
LEMMA VoteCounts ==
    ASSUME TypeOK, NEW v \in Principals, NEW p \in Principals, MayVoteJoin(v, p)
    PROVE  /\ v \in askSnap[p].miners /\ v \notin JoinVoters(p)
           /\ Cardinality(JoinVoters(p) \cup {v}) = Cardinality(JoinVoters(p)) + 1
           /\ Cardinality(JoinVoters(p)) + 1 <= Cardinality(askSnap[p].miners)
<1>1. v \in askSnap[p].miners /\ v \notin JoinVoters(p)
  BY DEF MayVoteJoin, JoinVoters
<1>2. Cardinality(JoinVoters(p) \cup {v}) = Cardinality(JoinVoters(p)) + 1
  BY <1>1, VotersFinite, FS_AddElement
<1>3. JoinVoters(p) \cup {v} \subseteq askSnap[p].miners
  BY <1>1 DEF JoinVoters
<1>4. Cardinality(JoinVoters(p) \cup {v}) <= Cardinality(askSnap[p].miners)
  BY <1>3, VotersFinite, FS_Subset
<1> QED
  BY <1>1, <1>2, <1>4
\* The ballot of q counts the same voters, and the same votes, as before.
SameBallot(q) ==
    /\ JoinVoters(q)' = JoinVoters(q)
    /\ acceptJoin'[q] = acceptJoin[q] /\ rejectJoin'[q] = rejectJoin[q]

Backed(q) == acceptJoin[q] + rejectJoin[q] <= Cardinality(JoinVoters(q))

LEMMA SameBacked ==
    ASSUME NEW q \in Principals, Backed(q), SameBallot(q) PROVE Backed(q)'
  BY DEF Backed, SameBallot

LEMMA NoVotesBacked ==
    ASSUME TypeOK', NEW q \in Principals, acceptJoin'[q] = 0, rejectJoin'[q] = 0
    PROVE  Backed(q)'
<1>1. Cardinality(JoinVoters(q)') \in Nat
  <2>1. askSnap'[q].miners \subseteq Principals
    BY DEF TypeOK, JoinType, Ballot
  <2>2. JoinVoters(q)' \subseteq Principals
    BY <2>1 DEF JoinVoters
  <2> QED
    BY <2>2, FiniteAssumption, FS_Subset, FS_CardinalityType
<1> QED
  BY <1>1 DEF Backed

LEMMA ClearedBacked ==
    ASSUME TypeOK, TypeOK', JoinVotesBacked, NEW p \in Principals, NEW voters,
           \A q \in Principals \ {p} :
               \A v : <<q, v>> \in voters <=> <<q, v>> \in joinVoter,
           ClearJoinBallot(p, voters)
    PROVE  JoinVotesBacked'
<1> SUFFICES ASSUME NEW q \in Principals PROVE Backed(q)'
  BY DEF JoinVotesBacked, Backed
<1>t. /\ askSnap \in [Principals -> Ballot]
      /\ acceptJoin \in [Principals -> Nat] /\ rejectJoin \in [Principals -> Nat]
  BY DEF TypeOK, JoinType, Counts
<1>1. CASE q = p
  <2>1. acceptJoin'[q] = 0 /\ rejectJoin'[q] = 0
    BY <1>1, <1>t DEF ClearJoinBallot
  <2> QED
    BY <2>1, NoVotesBacked
<1>2. CASE q # p
  <2>1. /\ askSnap'[q] = askSnap[q]
        /\ acceptJoin'[q] = acceptJoin[q] /\ rejectJoin'[q] = rejectJoin[q]
    BY <1>2, <1>t DEF ClearJoinBallot
  <2>2. \A v : <<q, v>> \in joinVoter' <=> <<q, v>> \in joinVoter
    BY <1>2 DEF ClearJoinBallot
  <2>3. JoinVoters(q)' = JoinVoters(q)
    BY <2>1, <2>2 DEF JoinVoters
  <2> QED
    BY <2>1, <2>3, SameBacked DEF SameBallot, JoinVotesBacked, Backed
<1> QED
  BY <1>1, <1>2

\* A vote for or against p raises one of its counts, and adds its voter.
LEMMA VotedBacked ==
    ASSUME TypeOK, JoinVotesBacked, NEW v \in Principals, NEW p \in Principals,
           MayVoteJoin(v, p),
           joinVoter' = joinVoter \cup {<<p, v>>},
           UNCHANGED askSnap,
           \/ /\ acceptJoin' = [acceptJoin EXCEPT ![p] = @ + 1]
              /\ UNCHANGED rejectJoin
           \/ /\ rejectJoin' = [rejectJoin EXCEPT ![p] = @ + 1]
              /\ UNCHANGED acceptJoin
    PROVE  JoinVotesBacked'
<1> SUFFICES ASSUME NEW q \in Principals PROVE Backed(q)'
  BY DEF JoinVotesBacked, Backed
<1>t. acceptJoin \in [Principals -> Nat] /\ rejectJoin \in [Principals -> Nat]
  BY DEF TypeOK, JoinType, Counts
<1>b. Backed(q)
  BY DEF JoinVotesBacked, Backed
<1>1. CASE q = p
  <2>1. JoinVoters(p)' = JoinVoters(p) \cup {v}
    BY VoteCounts DEF JoinVoters
  <2>2. Cardinality(JoinVoters(q)') = Cardinality(JoinVoters(q)) + 1
    BY <1>1, <2>1, VoteCounts
  <2>3. acceptJoin'[q] + rejectJoin'[q] = acceptJoin[q] + rejectJoin[q] + 1
    BY <1>1, <1>t
  <2>4. Cardinality(JoinVoters(q)) \in Nat
    BY VotersFinite
  <2> QED
    BY <1>b, <1>t, <2>2, <2>3, <2>4 DEF Backed
<1>2. CASE q # p
  <2>1. JoinVoters(q)' = JoinVoters(q)
    BY <1>2 DEF JoinVoters
  <2>2. acceptJoin'[q] = acceptJoin[q] /\ rejectJoin'[q] = rejectJoin[q]
    BY <1>2, <1>t
  <2> QED
    BY <1>b, <2>1, <2>2, SameBacked DEF SameBallot
<1> QED
  BY <1>1, <1>2
LEMMA NextBacked ==
    TypeOK /\ TypeOK' /\ JoinBallotsOpen /\ JoinVotesBacked /\ [Next]_vars
        => JoinVotesBacked'
<1> SUFFICES ASSUME TypeOK, TypeOK', JoinBallotsOpen, JoinVotesBacked, [Next]_vars
             PROVE  JoinVotesBacked'
  OBVIOUS
<1>u. UNCHANGED joinBallots => JoinVotesBacked'
  BY DEF joinBallots, JoinVotesBacked, JoinVoters
<1>1. CASE AdvanceBlock
  <2> SUFFICES ASSUME NEW p \in Principals PROVE Backed(p)'
    BY DEF JoinVotesBacked, Backed
  <2>1. /\ askSnap'[p] = AtAsk(p)
        /\ UNCHANGED <<acceptJoin, rejectJoin, joinVoter>>
    BY <1>1 DEF AdvanceBlock
  <2>2. CASE askAge[p] = 0
    BY <2>1, <2>2, NoVotesBacked DEF JoinBallotsOpen
  <2>3. CASE askAge[p] # 0
    <3>1. askSnap'[p] = askSnap[p]
      BY <2>1, <2>3 DEF AtAsk, AtRequest
    <3>2. JoinVoters(p)' = JoinVoters(p)
      BY <2>1, <3>1 DEF JoinVoters
    <3> QED
      BY <2>1, <3>2, SameBacked DEF SameBallot, JoinVotesBacked, Backed
  <2> QED
    BY <2>2, <2>3
<1>2. CASE AddPendingMiners
  BY <1>2, <1>u DEF AddPendingMiners
<1>3. ASSUME NEW call \in Calls, AskToJoin(call[1], call[2])
      PROVE  JoinVotesBacked'
  <2>1. UNCHANGED <<askSnap, acceptJoin, rejectJoin, joinVoter>>
    BY <1>3 DEF AskToJoin
  <2> QED
    BY <2>1 DEF JoinVotesBacked, JoinVoters
<1>4. ASSUME NEW p \in Principals, QuitWaitingList(p) PROVE JoinVotesBacked'
  BY <1>4, ClearedBacked DEF QuitWaitingList
<1>5. ASSUME NEW p \in Principals, TryEnterPool(p) PROVE JoinVotesBacked'
  BY <1>5, ClearedBacked DEF TryEnterPool
<1>6. ASSUME NEW v \in Principals, NEW p \in Principals, VotePositiveJoin(v, p)
      PROVE  JoinVotesBacked'
  BY <1>6, VotedBacked DEF VotePositiveJoin
<1>7. ASSUME NEW v \in Principals, NEW p \in Principals, VoteNegativeJoin(v, p)
      PROVE  JoinVotesBacked'
  <2>1. CASE ~JoinRejected(p, rejectJoin[p] + 1)
    BY <1>7, <2>1, VotedBacked DEF VoteNegativeJoin
  <2>2. CASE JoinRejected(p, rejectJoin[p] + 1)
    <3>1. ClearJoinBallot(p, joinVoter \cup {<<p, v>>})
      BY <1>7, <2>2 DEF VoteNegativeJoin
    <3> QED
      BY <3>1, ClearedBacked
  <2> QED
    BY <2>1, <2>2
<1>8. CASE UNCHANGED vars
  BY <1>8, <1>u DEF vars
<1> QED
  BY <1>1, <1>2, <1>3, <1>4, <1>5, <1>6, <1>7, <1>8, <1>u
     DEF Next, MembershipFlow, JoinFlow, RemovalFlow,
         LeavePool, ElectNotifier, QuitProposedRemovalList,
         ProposeRemoval, VotePositiveRemove, VoteNegativeRemove

\* No request is voted on in its own block, and none inherits a vote of the
\* one before, however principals re-enter the joining flow.
THEOREM BallotsOpen == Spec => []JoinBallotsOpen
  BY InitType, NextType, InitBallots, NextOpen, PTL DEF Spec

\* A ballot never counts more votes than the members that its block had and
\* that voted, whatever voter records have outlived earlier ballots.
THEOREM VotesBacked == Spec => []JoinVotesBacked
  BY InitType, NextType, InitBallots, NextOpen, NextBacked, PTL DEF Spec

\* A further vote against an accepted candidate is too few to reject it.
LEMMA AcceptedStays ==
    ASSUME TypeOK, JoinVotesBacked, NEW v \in Principals, NEW p \in Principals,
           VoteNegativeJoin(v, p), JoinAccepted(p), CountedRight(p)
    PROVE  p \in isWaiting'
<1> DEFINE yes == acceptJoin[p]
           no == rejectJoin[p] + 1
           m == askSnap[p].n
           t == askSnap[p].k
<1>1. MayVoteJoin(v, p)
  BY DEF VoteNegativeJoin
<1>2. AtAsk(p) = askSnap[p]
  BY <1>1 DEF MayVoteJoin, AtAsk, AtRequest
<1>3. /\ yes \in Nat /\ rejectJoin[p] \in Nat /\ m \in Nat /\ t \in Nat
  BY DEF TypeOK, JoinType, Counts, Ballot
<1>4. m = Cardinality(askSnap[p].miners)
  BY <1>2 DEF CountedRight
<1>5. yes + no <= m
  <2>1. yes + rejectJoin[p] <= Cardinality(JoinVoters(p))
    BY DEF JoinVotesBacked
  <2>2. Cardinality(JoinVoters(p)) + 1 <= m
    BY <1>1, <1>4, VoteCounts
  <2>3. Cardinality(JoinVoters(p)) \in Nat
    BY VotersFinite
  <2> QED
    BY <1>3, <2>1, <2>2, <2>3
<1>6. yes >= IF t = 0 THEN 1 ELSE t
  BY <1>2 DEF JoinAccepted, T!IsVoteAccepted
<1>7. ~T!IsVoteRejectedJoin(no, t, m)
  BY <1>3, <1>5, <1>6 DEF T!IsVoteRejectedJoin
<1>8. ~JoinRejected(p, no)
  BY <1>2, <1>7 DEF JoinRejected
<1> QED
  BY <1>1, <1>8 DEF VoteNegativeJoin, MayVoteJoin, candidates

\* Once accepted, a candidate cannot be rejected, in pools of every size and
\* under every threshold the pool can have walked to.
THEOREM NeverRejected == Spec => AcceptedNeverRejected
<1>1. TypeOK /\ JoinVotesBacked /\ [Next]_vars
        => [\A voter, p \in Principals :
              VoteNegativeJoin(voter, p) /\ JoinAccepted(p) /\ CountedRight(p)
                  => p \in isWaiting']_vars
  BY AcceptedStays
<1>2. Spec => [](TypeOK /\ JoinVotesBacked)
  BY TypeCorrect, VotesBacked, PTL
<1> QED
  BY <1>1, <1>2, PTL DEF Spec, AcceptedNeverRejected

-----------------------------------------------------------------------------
(* Removal ballots *)

\* RemovalVotesBacked for one target
Counted(q) ==
    /\ q \in isProposed <=> proposalAge[q] # NoAge
    /\ q \notin isProposed => acceptRemoval[q] = 0 /\ rejectRemoval[q] = 0
    /\ acceptRemoval[q] + rejectRemoval[q] <= Cardinality(RemovalVoters(q))
    /\ <<q, q>> \notin removeVoter

LEMMA CountedAll == RemovalVotesBacked <=> \A q \in Principals : Counted(q)
  BY DEF RemovalVotesBacked, Counted

LEMMA RemovalVotersFinite ==
    ASSUME NEW q \in Principals
    PROVE  IsFiniteSet(RemovalVoters(q)) /\ Cardinality(RemovalVoters(q)) \in Nat
<1>1. RemovalVoters(q) \subseteq Principals
  BY DEF RemovalVoters
<1> QED
  BY <1>1, FiniteAssumption, FS_Subset, FS_CardinalityType

\* A ballot that closes counts nothing, whichever voter records it leaves.
LEMMA ClosedCounted ==
    ASSUME TypeOK, RemovalVotesBacked, NEW p \in Principals, NEW voters, NEW members,
           <<p, p>> \notin voters,
           \A q \in Principals \ {p} :
               \A v : <<q, v>> \in voters <=> <<q, v>> \in removeVoter,
           ClearRemovalBallot(p, voters, members)
    PROVE  RemovalVotesBacked'
<1> SUFFICES ASSUME NEW q \in Principals PROVE Counted(q)'
  BY DEF RemovalVotesBacked, Counted
<1>t. /\ acceptRemoval \in [Principals -> Nat] /\ rejectRemoval \in [Principals -> Nat]
      /\ proposalAge \in [Principals -> Ages]
  BY DEF TypeOK, RemovalType, Counts
<1>1. CASE q = p
  <2>1. /\ acceptRemoval'[q] = 0 /\ rejectRemoval'[q] = 0
        /\ proposalAge'[q] = NoAge /\ q \notin isProposed'
        /\ <<q, q>> \notin removeVoter'
    BY <1>1, <1>t DEF ClearRemovalBallot
  <2>2. RemovalVoters(q)' \subseteq Principals
    BY DEF RemovalVoters
  <2>3. Cardinality(RemovalVoters(q)') \in Nat
    BY <2>2, FiniteAssumption, FS_Subset, FS_CardinalityType
  <2> QED
    BY <2>1, <2>3 DEF Counted
<1>2. CASE q # p
  <2>1. /\ acceptRemoval'[q] = acceptRemoval[q] /\ rejectRemoval'[q] = rejectRemoval[q]
        /\ proposalAge'[q] = proposalAge[q] /\ (q \in isProposed' <=> q \in isProposed)
    BY <1>2, <1>t DEF ClearRemovalBallot
  <2>2. \A v : <<q, v>> \in removeVoter' <=> <<q, v>> \in removeVoter
    BY <1>2 DEF ClearRemovalBallot
  <2>3. RemovalVoters(q)' = RemovalVoters(q)
    BY <2>2 DEF RemovalVoters
  <2> QED
    BY <2>1, <2>2, <2>3, CountedAll DEF Counted
<1> QED
  BY <1>1, <1>2

\* A vote on the removal of p raises one of its counts, and adds its voter.
LEMMA VotedCounted ==
    ASSUME TypeOK, RemovalVotesBacked, NEW v \in Principals, NEW p \in Principals,
           MayVoteRemoval(v, p),
           removeVoter' = removeVoter \cup {<<p, v>>},
           UNCHANGED <<isProposed, proposalAge>>,
           \/ /\ acceptRemoval' = [acceptRemoval EXCEPT ![p] = @ + 1]
              /\ UNCHANGED rejectRemoval
           \/ /\ rejectRemoval' = [rejectRemoval EXCEPT ![p] = @ + 1]
              /\ UNCHANGED acceptRemoval
    PROVE  RemovalVotesBacked'
<1> SUFFICES ASSUME NEW q \in Principals PROVE Counted(q)'
  BY DEF RemovalVotesBacked, Counted
<1>t. acceptRemoval \in [Principals -> Nat] /\ rejectRemoval \in [Principals -> Nat]
  BY DEF TypeOK, RemovalType, Counts
<1>b. Counted(q)
  BY CountedAll
<1>1. CASE q = p
  <2>1. v # p /\ p \in isProposed /\ v \notin RemovalVoters(p)
    BY DEF MayVoteRemoval, RemovalVoters
  <2>2. RemovalVoters(p)' = RemovalVoters(p) \cup {v}
    BY DEF RemovalVoters
  <2>3. Cardinality(RemovalVoters(q)') = Cardinality(RemovalVoters(q)) + 1
    BY <1>1, <2>1, <2>2, RemovalVotersFinite, FS_AddElement
  <2>4. acceptRemoval'[q] + rejectRemoval'[q] = acceptRemoval[q] + rejectRemoval[q] + 1
    BY <1>1, <1>t
  <2>5. Cardinality(RemovalVoters(q)) \in Nat
    BY RemovalVotersFinite
  <2>6. acceptRemoval'[q] + rejectRemoval'[q] <= Cardinality(RemovalVoters(q)')
    BY <1>b, <1>t, <2>3, <2>4, <2>5 DEF Counted
  <2>7. <<q, q>> \notin removeVoter'
    BY <1>1, <1>b, <2>1 DEF Counted
  <2> QED
    BY <1>1, <1>b, <2>1, <2>6, <2>7 DEF Counted
<1>2. CASE q # p
  <2>1. RemovalVoters(q)' = RemovalVoters(q)
    BY <1>2 DEF RemovalVoters
  <2>2. acceptRemoval'[q] = acceptRemoval[q] /\ rejectRemoval'[q] = rejectRemoval[q]
    BY <1>2, <1>t
  <2>3. <<q, q>> \notin removeVoter'
    BY <1>2, <1>b DEF Counted
  <2> QED
    BY <1>b, <2>1, <2>2, <2>3 DEF Counted
<1> QED
  BY <1>1, <1>2

LEMMA NextCounted == TypeOK /\ RemovalVotesBacked /\ [Next]_vars => RemovalVotesBacked'
<1> SUFFICES ASSUME TypeOK, RemovalVotesBacked, [Next]_vars PROVE RemovalVotesBacked'
  OBVIOUS
<1>t. proposalAge \in [Principals -> Ages]
  BY DEF TypeOK, RemovalType
<1>s. \A q \in Principals : <<q, q>> \notin removeVoter
  BY DEF RemovalVotesBacked
<1>u. UNCHANGED <<isProposed, proposalAge, acceptRemoval, rejectRemoval, removeVoter>>
        => RemovalVotesBacked'
  BY DEF RemovalVotesBacked, RemovalVoters
<1>1. CASE AdvanceBlock
  <2>1. \A q \in Principals : proposalAge'[q] = NoAge <=> proposalAge[q] = NoAge
    BY <1>1, <1>t, BoundsAssumption DEF AdvanceBlock, Older, Ages, NoAge
  <2>2. UNCHANGED <<isProposed, acceptRemoval, rejectRemoval, removeVoter>>
    BY <1>1 DEF AdvanceBlock, proposals
  <2> QED
    BY <2>1, <2>2 DEF RemovalVotesBacked, RemovalVoters
<1>2. CASE JoinFlow
  BY <1>2, <1>u DEF JoinFlow, AddPendingMiners, AskToJoin, QuitWaitingList, TryEnterPool,
     LeavePool, VotePositiveJoin, VoteNegativeJoin, proposals, removalBallots
<1>3. ASSUME NEW p \in Principals, QuitProposedRemovalList(p) PROVE RemovalVotesBacked'
  BY <1>3, <1>s, ClosedCounted DEF QuitProposedRemovalList
<1>4. ASSUME NEW v \in Principals, NEW p \in Principals, ProposeRemoval(v, p)
      PROVE  RemovalVotesBacked'
  <2> SUFFICES ASSUME NEW q \in Principals PROVE Counted(q)'
    BY DEF RemovalVotesBacked, Counted
  <2>1. /\ UNCHANGED <<acceptRemoval, rejectRemoval, removeVoter>>
        /\ p \notin isProposed /\ isProposed' = isProposed \cup {p}
    BY <1>4 DEF ProposeRemoval, MayPropose
  <2>2. proposalAge'[q] = IF q = p THEN 0 ELSE proposalAge[q]
    BY <1>4, <1>t DEF ProposeRemoval
  <2>3. RemovalVoters(q)' = RemovalVoters(q)
    BY <2>1 DEF RemovalVoters
  <2> QED
    BY <2>1, <2>2, <2>3, CountedAll DEF Counted, NoAge
<1>5. ASSUME NEW v \in Principals, NEW p \in Principals, VotePositiveRemove(v, p)
      PROVE  RemovalVotesBacked'
  <2>1. CASE ~RemovalAccepted(p, acceptRemoval[p] + 1)
    BY <1>5, <2>1, VotedCounted DEF VotePositiveRemove, proposals
  <2>2. CASE RemovalAccepted(p, acceptRemoval[p] + 1)
    <3>1. v # p /\ ClearRemovalBallot(p, removeVoter \cup {<<p, v>>}, Listed(minersList) \ {p})
      BY <1>5, <2>2 DEF VotePositiveRemove, MayVoteRemoval
    <3> DEFINE voters == removeVoter \cup {<<p, v>>}
    <3>2. /\ <<p, p>> \notin voters
          /\ \A q \in Principals \ {p} :
               \A w : <<q, w>> \in voters <=> <<q, w>> \in removeVoter
      BY <1>s, <3>1
    <3> HIDE DEF voters
    <3>3. ClearRemovalBallot(p, voters, Listed(minersList) \ {p})
      BY <3>1 DEF voters
    <3> QED
      BY <3>2, <3>3, ClosedCounted
  <2> QED
    BY <2>1, <2>2
<1>6. ASSUME NEW v \in Principals, NEW p \in Principals, VoteNegativeRemove(v, p)
      PROVE  RemovalVotesBacked'
  <2>1. CASE ~RemovalRejected(p, rejectRemoval[p] + 1)
    BY <1>6, <2>1, VotedCounted DEF VoteNegativeRemove, proposals
  <2>2. CASE RemovalRejected(p, rejectRemoval[p] + 1)
    <3>1. v # p /\ ClearRemovalBallot(p, removeVoter \cup {<<p, v>>}, Listed(minersList))
      BY <1>6, <2>2 DEF VoteNegativeRemove, MayVoteRemoval
    <3> QED
      BY <1>s, <3>1, ClosedCounted
  <2> QED
    BY <2>1, <2>2
<1>7. ASSUME NEW p \in Principals, ElectNotifier(p) PROVE RemovalVotesBacked'
  BY <1>7, <1>u DEF ElectNotifier, proposals, removalBallots
<1>8. CASE UNCHANGED vars
  BY <1>8, <1>u DEF vars, proposals, removalBallots
<1> QED
  BY <1>1, <1>2, <1>3, <1>4, <1>5, <1>6, <1>7, <1>8
     DEF Next, MembershipFlow, RemovalFlow

\* A removal never counts more votes than voters, none of them its target, and
\* counts of a closed ballot do not reach the next, whatever voter records have
\* outlived it.
THEOREM RemovalsBacked == Spec => []RemovalVotesBacked
<1>1. Init => RemovalVotesBacked
  <2> SUFFICES ASSUME Init, NEW q \in Principals PROVE Counted(q)
    BY CountedAll
  <2>1. Cardinality(RemovalVoters(q)) \in Nat
    BY RemovalVotersFinite
  <2> QED
    BY <2>1 DEF Init, Counted
<1> QED
  BY <1>1, InitType, NextType, NextCounted, PTL DEF Spec

\* The seat of the notifier goes to a non-member only in the vote that removes
\* its holder: departures, admissions and elections never leave it to one.
THEOREM VacatedByVote == Spec => NotifierVacatedByVote
<1> DEFINE Kept == notifier \in isMiner /\ notifier' \notin isMiner'
                     => notifier \in isProposed \ isProposed'
<1>1. TypeOK /\ [Next]_vars => Kept
  <2> SUFFICES ASSUME TypeOK, [Next]_vars PROVE Kept
    OBVIOUS
  <2>1. UNCHANGED <<notifier, isMiner>> => Kept
    OBVIOUS
  <2>2. CASE AddPendingMiners
    BY <2>2 DEF AddPendingMiners
  <2>3. ASSUME NEW p \in Principals, LeavePool(p) PROVE Kept
    BY <2>3 DEF LeavePool, MayLeave, DropMiner
  <2>4. ASSUME NEW v \in Principals, NEW p \in Principals, VotePositiveRemove(v, p)
        PROVE  Kept
    BY <2>4 DEF VotePositiveRemove, MayVoteRemoval, DropMiner, ClearRemovalBallot, miners
  <2>5. ASSUME NEW p \in Principals, ElectNotifier(p) PROVE Kept
    BY <2>5 DEF ElectNotifier, miners
  <2> QED
    BY <2>1, <2>2, <2>3, <2>4, <2>5
       DEF Next, MembershipFlow, JoinFlow, RemovalFlow, AdvanceBlock, AskToJoin,
           QuitWaitingList, TryEnterPool, VotePositiveJoin, VoteNegativeJoin,
           QuitProposedRemovalList, ProposeRemoval, VoteNegativeRemove, vars, miners
<1> QED
  BY <1>1, TypeCorrect, PTL DEF Spec, NotifierVacatedByVote

-----------------------------------------------------------------------------
(* The member counter and the list of members *)

\* How often p is among the first m of a sequence.
OccurrencesUpTo(s, m, p) == Cardinality({i \in 1 .. m : s[i] = p})

LEMMA OccurrencesNext ==
    ASSUME NEW s, NEW m \in Nat, NEW p
    PROVE  /\ OccurrencesUpTo(s, m, p) \in Nat
           /\ OccurrencesUpTo(s, m + 1, p)
                = OccurrencesUpTo(s, m, p) + (IF s[m + 1] = p THEN 1 ELSE 0)
           /\ OccurrencesUpTo(s, 0, p) = 0
<1> DEFINE I(j) == {i \in 1 .. j : s[i] = p}
<1>1. IsFiniteSet(I(m)) /\ m + 1 \notin I(m)
  <2>1. IsFiniteSet(1 .. m) /\ I(m) \subseteq 1 .. m
    BY FS_Interval
  <2> QED
    BY <2>1, FS_Subset
<1>2. I(m + 1) = IF s[m + 1] = p THEN I(m) \cup {m + 1} ELSE I(m)
  OBVIOUS
<1>3. I(0) = {}
  OBVIOUS
<1> HIDE DEF I
<1>4. /\ Cardinality(I(m)) \in Nat
      /\ Cardinality(I(m + 1)) = Cardinality(I(m)) + (IF s[m + 1] = p THEN 1 ELSE 0)
      /\ Cardinality(I(0)) = 0
  <2>1. Cardinality(I(m)) \in Nat /\ Cardinality(I(0)) = 0
    BY <1>1, <1>3, FS_CardinalityType, FS_EmptySet
  <2>2. Cardinality(I(m) \cup {m + 1}) = Cardinality(I(m)) + 1
    BY <1>1, FS_AddElement
  <2>3. CASE s[m + 1] = p
    BY <1>2, <2>1, <2>2, <2>3
  <2>4. CASE s[m + 1] # p
    BY <1>2, <2>1, <2>4
  <2> QED
    BY <2>1, <2>3, <2>4
<1> QED
  BY <1>4 DEF I, OccurrencesUpTo

\* Every entry of a list is an occurrence of one principal.
LEMMA OccurrencesAddUp ==
    ASSUME NEW s \in Seq(Principals)
    PROVE  SumFunctionOnSet([p \in Principals |-> Occurrences(s, p)], Principals) = Len(s)
<1> DEFINE Among(m) == [p \in Principals |-> OccurrencesUpTo(s, m, p)]
           AddUp(m) == SumFunctionOnSet(Among(m), Principals) = m
           B == {m \in 0 .. Len(s) : ~AddUp(m)}
<1>1. Len(s) \in Nat /\ DOMAIN s = 1 .. Len(s) /\ \A i \in 1 .. Len(s) : s[i] \in Principals
  OBVIOUS
<1>2. AddUp(0)
  <2>1. \A p \in Principals : Among(0)[p] = 0
    BY OccurrencesNext
  <2> HIDE DEF Among
  <2> QED
    BY <2>1, FiniteAssumption, SumZero
<1>3. ASSUME NEW m \in Nat, m + 1 <= Len(s), AddUp(m) PROVE AddUp(m + 1)
  <2> DEFINE f == Among(m)
             g == Among(m + 1)
             q == s[m + 1]
  <2>1. q \in Principals
    BY <1>1, <1>3
  <2>2. /\ \A p \in Principals : f[p] \in Int /\ g[p] \in Int
        /\ \A p \in Principals \ {q} : g[p] = f[p]
        /\ g[q] - f[q] = 1
    <3>1. \A p \in Principals : /\ f[p] \in Nat /\ f[p] \in Int
                                /\ g[p] = f[p] + (IF q = p THEN 1 ELSE 0)
      <4>1. \A p \in Principals :
              f[p] = OccurrencesUpTo(s, m, p) /\ g[p] = OccurrencesUpTo(s, m + 1, p)
        OBVIOUS
      <4>2. ASSUME NEW p \in Principals
            PROVE  /\ f[p] \in Nat /\ g[p] = f[p] + (IF s[m + 1] = p THEN 1 ELSE 0)
        <5>1. /\ OccurrencesUpTo(s, m, p) \in Nat
              /\ OccurrencesUpTo(s, m + 1, p)
                   = OccurrencesUpTo(s, m, p) + (IF s[m + 1] = p THEN 1 ELSE 0)
          BY <1>3, OccurrencesNext
        <5> HIDE DEF f, g, q
        <5> QED
          BY <4>1, <5>1
      <4> QED
        BY <4>2
    <3> HIDE DEF f, g, q
    <3> QED
      BY <2>1, <3>1
  <2>3. SumFunctionOnSet(f, Principals) = m
    BY <1>3
  <2> HIDE DEF f, g, q
  <2>4. SumFunctionOnSet(g, Principals) = SumFunctionOnSet(f, Principals) + (g[q] - f[q])
    BY <2>1, <2>2, FiniteAssumption, SumChange
  <2> QED
    BY <2>2, <2>3, <2>4 DEF g
<1>4. B = {}
  <2> SUFFICES ASSUME B # {} PROVE FALSE
    OBVIOUS
  <2>1. PICK m \in B : \A x \in B : m <= x
    <3>1. B \subseteq Nat
      OBVIOUS
    <3> HIDE DEF B
    <3> QED
      BY <3>1, SmallestNumber
  <2>2. m \in Nat /\ m <= Len(s) /\ ~AddUp(m)
    BY <1>1
  <2> HIDE DEF AddUp
  <2>3. m # 0
    BY <1>2, <2>2
  <2>4. m - 1 \in Nat /\ m - 1 \in 0 .. Len(s) /\ m - 1 \notin B /\ (m - 1) + 1 = m
    BY <1>1, <2>1, <2>2, <2>3
  <2>5. AddUp(m - 1)
    BY <2>4
  <2> QED
    BY <1>3, <2>2, <2>4, <2>5
<1>5. AddUp(Len(s))
  <2>1. Len(s) \in 0 .. Len(s)
    BY <1>1
  <2> HIDE DEF AddUp
  <2> QED
    BY <1>4, <2>1
<1>6. Among(Len(s)) = [p \in Principals |-> Occurrences(s, p)]
  BY <1>1 DEF OccurrencesUpTo, Occurrences
<1> QED
  BY <1>5, <1>6

\* What the list of members adds up to, when one entry changes or all do.
LEMMA LengthSum ==
    ASSUME NEW list \in Counts
    PROVE  /\ Length(list) = SumFunctionOnSet(list, Principals) /\ Length(list) \in Int
           /\ \A p \in Principals : list[p] \in Int
<1>1. DOMAIN list = Principals /\ \A p \in Principals : list[p] \in Int
  BY DEF Counts
<1> QED
  BY <1>1, FiniteAssumption, SumType DEF Length, SumFunction

LEMMA UnlistedLength ==
    ASSUME TypeOK, NEW p \in Principals, UnlistMiner(p)
    PROVE  Length(minersList)' = Length(minersList) - minersList[p]
<1> DEFINE before == minersList
           after == minersList'
<1>1. before \in Counts /\ after \in Counts
  BY DEF UnlistMiner, TypeOK, PoolType, Counts
<1>2. /\ \A q \in Principals \ {p} : after[q] = before[q]
      /\ after[p] = 0
  BY DEF UnlistMiner, TypeOK, PoolType, Counts
<1> HIDE DEF before, after
<1>3. SumFunctionOnSet(after, Principals)
        = SumFunctionOnSet(before, Principals) + (after[p] - before[p])
  BY <1>1, <1>2, LengthSum, FiniteAssumption, SumChange
<1>4. Length(after) = Length(before) - before[p]
  BY <1>1, <1>2, <1>3, LengthSum
<1> QED
  BY <1>4 DEF before, after

LEMMA EnteredLength ==
    ASSUME TypeOK, AddPendingMiners
    PROVE  Length(minersList)' = Length(minersList) + Len(pendingList)
<1> DEFINE before == minersList
           after == minersList'
           entering == [p \in Principals |-> Occurrences(pendingList, p)]
<1>1. pendingList \in Seq(Principals) /\ before \in Counts
  BY DEF TypeOK, PoolType, JoinType
<1>2. \A p \in Principals : Occurrences(pendingList, p) \in Nat
  BY <1>1, OccurrencesCount
<1>3. /\ entering \in Counts /\ DOMAIN after = Principals
      /\ \A p \in Principals : after[p] = before[p] + entering[p]
  BY <1>2 DEF AddPendingMiners, Counts
<1>4. SumFunctionOnSet(entering, Principals) = Len(pendingList) /\ Len(pendingList) \in Nat
  BY <1>1, OccurrencesAddUp
<1> HIDE DEF before, after, entering
<1>5. \A p \in Principals : after[p] \in Nat
  BY <1>1, <1>3 DEF Counts
<1>6. after \in Counts
  <2>1. after = [p \in Principals |-> after[p]]
    BY DEF after, AddPendingMiners
  <2> QED
    BY <1>5, <2>1 DEF Counts
<1>7. SumFunctionOnSet(after, Principals)
        = SumFunctionOnSet(before, Principals) + SumFunctionOnSet(entering, Principals) * 1
  <2>1. \A p \in Principals : /\ before[p] \in Int /\ entering[p] \in Int
                              /\ after[p] = before[p] + entering[p] * 1
    BY <1>1, <1>3 DEF Counts
  <2> QED
    BY <2>1, FiniteAssumption, SumShares
<1>8. Length(after) = Length(before) + Len(pendingList)
  BY <1>1, <1>4, <1>6, <1>7, LengthSum
<1> QED
  BY <1>8 DEF before, after

CounterStep ==
    \/ n' - n = Length(minersList') - Length(minersList)
    \/ /\ n' = n - 1
       /\ \E p \in Principals : minersList[p] # 1 /\ minersList'[p] = 0
             /\ (minersList[p] > 1 \/ p \in isProposed)

LEMMA DropCounted ==
    ASSUME TypeOK, NEW p \in Principals, DropMiner(p),
           p \in isProposed \/ minersList[p] > 0
    PROVE  CounterStep
<1>1. /\ n' = n - 1 /\ n \in Nat /\ minersList \in Counts /\ minersList[p] \in Nat
      /\ minersList'[p] = 0
  BY DEF DropMiner, CountDeparture, UnlistMiner, TypeOK, PoolType, Counts
<1>2. Length(minersList)' = Length(minersList) - minersList[p] /\ Length(minersList) \in Int
  BY <1>1, UnlistedLength, LengthSum DEF DropMiner
<1>3. CASE minersList[p] = 1
  BY <1>1, <1>2, <1>3 DEF CounterStep
<1>4. CASE minersList[p] # 1
  <2>1. minersList[p] > 1 \/ p \in isProposed
    BY <1>1, <1>4
  <2> QED
    BY <1>1, <1>4, <2>1 DEF CounterStep
<1> QED
  BY <1>3, <1>4

\* n and the length of the list of members, which the contract keeps apart,
\* move together in every call but two kinds of departure: of who is listed
\* twice, and of who is voted out after having left.
THEOREM CounterFollows == Spec => CounterFollowsList
<1>1. TypeOK /\ MapsAgreeWithLists /\ [Next]_vars => [CounterStep]_vars
  <2> SUFFICES ASSUME TypeOK, MapsAgreeWithLists, Next PROVE CounterStep
    OBVIOUS
  <2>1. ASSUME UNCHANGED <<n, minersList>> PROVE CounterStep
    <3>1. n \in Nat /\ Length(minersList) \in Int
      BY LengthSum DEF TypeOK, PoolType
    <3> QED
      BY <2>1, <3>1 DEF CounterStep
  <2>2. ASSUME AddPendingMiners PROVE CounterStep
    <3>1. /\ n' = n + Len(pendingList) /\ n \in Nat /\ Len(pendingList) \in Nat
          /\ Length(minersList) \in Int
      BY <2>2, LengthSum DEF AddPendingMiners, Entering, TypeOK, PoolType, JoinType
    <3> QED
      BY <2>2, <3>1, EnteredLength DEF CounterStep
  <2>3. ASSUME NEW p \in Principals, LeavePool(p) PROVE CounterStep
    <3>1. minersList[p] > 0
      BY <2>3 DEF LeavePool, MayLeave, MapsAgreeWithLists, Listed
    <3> QED
      BY <2>3, <3>1, DropCounted DEF LeavePool
  <2>4. ASSUME NEW v \in Principals, NEW p \in Principals, VotePositiveRemove(v, p)
        PROVE  CounterStep
    <3>1. CASE RemovalAccepted(p, acceptRemoval[p] + 1)
      BY <2>4, <3>1, DropCounted DEF VotePositiveRemove, MayVoteRemoval
    <3>2. CASE ~RemovalAccepted(p, acceptRemoval[p] + 1)
      BY <2>1, <2>4, <3>2 DEF VotePositiveRemove, thresholds, miners
    <3> QED
      BY <3>1, <3>2
  <2>5. CASE JoinFlow
    BY <2>1, <2>2, <2>3, <2>5
       DEF JoinFlow, AskToJoin, QuitWaitingList, TryEnterPool, VotePositiveJoin,
           VoteNegativeJoin, thresholds, miners
  <2>6. CASE RemovalFlow
    BY <2>1, <2>4, <2>6
       DEF RemovalFlow, QuitProposedRemovalList, ProposeRemoval, VoteNegativeRemove,
           thresholds, miners
  <2>7. CASE AdvanceBlock \/ \E p \in Principals : ElectNotifier(p)
    BY <2>1, <2>7 DEF AdvanceBlock, ElectNotifier, thresholds, miners
  <2> QED
    BY <2>5, <2>6, <2>7 DEF Next, MembershipFlow
<1> QED
  BY <1>1, TypeCorrect, MapsAgree, PTL DEF Spec, CounterFollowsList, CounterStep

-----------------------------------------------------------------------------
(* The election *)

\* Votes are counts, of which none is the largest there can be; entries are
\* left only while an election runs.
VotesType ==
    /\ votesFor \in [Principals -> Nat]
    /\ \E bound \in Nat : \A q \in Principals : votesFor[q] <= bound
    /\ ~voteActive => entriesRemoved

ElectionInv == TypeOK /\ VotesType

-----------------------------------------------------------------------------
(* Who is elected *)

LEMMA DeletedType ==
    ASSUME ElectionInv, NEW votes \in [Principals -> Nat], NEW voted,
           NEW bound \in Nat, \A q \in Principals : votes[q] <= bound,
           DeleteEntries(voted, votes)
    PROVE  /\ votesFor' \in [Principals -> Nat]
           /\ \A q \in Principals : votesFor'[q] <= bound
BY DEF DeleteEntries

\* Of members with counts that are bounded, one has the most.
LEMMA SomeoneLeads ==
    ASSUME ElectionInv, NEW votes \in [Principals -> Nat], NEW p \in isMiner,
           NEW bound \in Nat, \A q \in Principals : votes[q] <= bound,
           votes[p] > k \div 2
    PROVE  MostVoted(votes) # {}
<1> DEFINE gaps == {bound - votes[q] : q \in isMiner}
<1>t. isMiner \subseteq Principals /\ k \in Nat
  BY DEF ElectionInv, TypeOK, PoolType
<1>1. gaps \subseteq Nat /\ gaps # {}
  BY <1>t
<1>2. PICK x \in gaps : \A y \in gaps : ~(<<y, x>> \in OpToRel(<, Nat))
  <2> HIDE DEF gaps
  <2> QED
    BY <1>1, NatLessThanWellFounded, WFMin
<1>3. \A y \in gaps : ~(y < x)
  BY <1>1, <1>2 DEF OpToRel
<1>4. PICK q \in isMiner : x = bound - votes[q]
  OBVIOUS
<1>5. \A r \in isMiner : votes[r] <= votes[q]
  <2> SUFFICES ASSUME NEW r \in isMiner PROVE votes[r] <= votes[q]
    OBVIOUS
  <2>1. bound - votes[r] \in gaps
    OBVIOUS
  <2>2. ~(bound - votes[r] < bound - votes[q])
    BY <1>3, <1>4, <2>1
  <2>3. votes[r] \in Nat /\ votes[q] \in Nat
    BY <1>t
  <2> QED
    BY <2>2, <2>3
<1>6. votes[q] > k \div 2
  BY <1>t, <1>5
<1> QED
  BY <1>5, <1>6 DEF MostVoted

\* The seat goes to a member with most votes, or stays with its holder.
LEMMA SeatToMember ==
    ASSUME ElectionInv, NEW votes, NEW holder, AssignSeat(votes, holder)
    PROVE  \/ notifier' = holder
           \/ notifier' \in MostVoted(votes) /\ notifier' \in isMiner
BY DEF AssignSeat, MostVoted

\* A vote that reaches k leaves nobody to decide on but the members with most.
LEMMA DecidingVote ==
    ASSUME ElectionInv, NEW p \in isMiner,
           NEW votes, votes = [votesFor EXCEPT ![p] = @ + 1]
    PROVE  /\ votes \in [Principals -> Nat]
           /\ \E bound \in Nat : \A q \in Principals : votes[q] <= bound
           /\ T!IsVoteAccepted(votes[p], k) => MostVoted(votes) # {}
<1>t. p \in Principals /\ k \in Nat
  BY DEF ElectionInv, TypeOK, PoolType
<1>1. votes \in [Principals -> Nat]
  BY <1>t DEF ElectionInv, VotesType
<1>2. PICK bound \in Nat : \A q \in Principals : votesFor[q] <= bound
  BY DEF ElectionInv, VotesType
<1>3. bound + 1 \in Nat /\ \A q \in Principals : votes[q] <= bound + 1
  BY <1>t, <1>2 DEF ElectionInv, VotesType
<1>4. ASSUME T!IsVoteAccepted(votes[p], k) PROVE votes[p] > k \div 2
  BY <1>t, <1>1, <1>4 DEF T!IsVoteAccepted
<1> QED
  BY <1>1, <1>3, <1>4, SomeoneLeads

-----------------------------------------------------------------------------
(* The seat *)

\* To the members an election is nothing, or the choice of one of them.
LEMMA ElectionStep ==
    ASSUME Electable = Principals, ElectionInv, [ElectionNext]_poolVars
    PROVE  [Next]_vars
<1>1. ASSUME UnchangedMembers, notifier' = notifier \/ notifier' \in isMiner
      PROVE  [Next]_vars
  <2>1. CASE notifier' = notifier
    BY <1>1, <2>1 DEF UnchangedMembers, vars
  <2>2. CASE notifier' \in isMiner
    <3>1. notifier' \in Principals
      BY <2>2 DEF ElectionInv, TypeOK, PoolType
    <3>2. ElectNotifier(notifier')
      BY <1>1, <2>2, <3>1 DEF ElectNotifier, UnchangedMembers
    <3> QED
      BY <3>1, <3>2 DEF Next
  <2> QED
    BY <1>1, <2>1, <2>2
<1>2. CASE NextBlock
  BY <1>2 DEF NextBlock, Next
<1>3. CASE MembershipStep
  BY <1>3 DEF MembershipStep, Next
<1>4. CASE StartVoteNotifier
  BY <1>1, <1>4, SeatToMember DEF StartVoteNotifier, EndVotePrivate
<1>5. CASE EndVoteNotifier
  BY <1>1, <1>5, SeatToMember DEF EndVoteNotifier, EndVotePrivate
<1>6. ASSUME NEW voter \in Voters, NEW p \in Principals, VoteNotifier(voter, p)
      PROVE  [Next]_vars
  BY <1>1, <1>6, SeatToMember DEF VoteNotifier, MayVoteNotifier, EndVotePrivate
<1>7. CASE UNCHANGED poolVars
  BY <1>7 DEF poolVars
<1> QED
  BY <1>2, <1>3, <1>4, <1>5, <1>6, <1>7 DEF ElectionNext

LEMMA ElectionInvStep ==
    ASSUME Electable = Principals, ElectionInv, [ElectionNext]_poolVars
    PROVE  ElectionInv'
<1>t. TypeOK'
  BY ElectionStep, NextType DEF ElectionInv
<1>u. UNCHANGED <<votesFor, voteActive, entriesRemoved>> => VotesType'
  BY DEF ElectionInv, VotesType
<1>b. PICK bound \in Nat : \A q \in Principals : votesFor[q] <= bound
  BY DEF ElectionInv, VotesType
<1>1. CASE NextBlock \/ MembershipStep \/ UNCHANGED poolVars
  BY <1>t, <1>u, <1>1 DEF NextBlock, MembershipStep, poolVars, electionVars, ElectionInv
<1>2. CASE StartVoteNotifier
  <2>1. entriesRemoved
    BY <1>2 DEF StartVoteNotifier, ElectionInv, VotesType
  <2> QED
    BY <1>t, <1>2, <2>1 DEF StartVoteNotifier, ElectionInv, VotesType
<1>3. CASE EndVoteNotifier
  <2>1. entriesRemoved' /\ DeleteEntries(votedFor, votesFor)
    BY <1>3 DEF EndVoteNotifier, EndVotePrivate, DeleteEntries
  <2> QED
    BY <1>t, <1>b, <2>1, DeletedType DEF ElectionInv, VotesType
<1>4. ASSUME NEW voter \in Voters, NEW p \in Principals, VoteNotifier(voter, p)
      PROVE  VotesType'
  <2> DEFINE votes == [votesFor EXCEPT ![p] = @ + 1]
  <2>1. p \in isMiner /\ voteActive
    BY <1>4 DEF VoteNotifier, MayVoteNotifier
  <2>2. /\ votes \in [Principals -> Nat]
        /\ \E most \in Nat : \A q \in Principals : votes[q] <= most
    BY <2>1, DecidingVote
  <2> HIDE DEF votes
  <2>3. CASE votesFor' = votes /\ UNCHANGED <<voteActive, entriesRemoved>>
    BY <2>1, <2>2, <2>3 DEF VotesType
  <2>4. CASE \E voted : DeleteEntries(voted, votes)
    <3>1. PICK most \in Nat : \A q \in Principals : votes[q] <= most
      BY <2>2
    <3>2. entriesRemoved'
      BY <2>4 DEF DeleteEntries
    <3> QED
      BY <2>2, <2>4, <3>1, <3>2, DeletedType DEF VotesType
  <2> QED
    BY <1>4, <2>3, <2>4 DEF VoteNotifier, EndVotePrivate, votes
<1> QED
  BY <1>t, <1>1, <1>2, <1>3, <1>4 DEF ElectionNext, ElectionInv

LEMMA ElectionStarts == ElectionInit => ElectionInv
<1> SUFFICES ASSUME ElectionInit PROVE ElectionInv
  OBVIOUS
<1>1. TypeOK
  BY InitType DEF ElectionInit
<1>2. votesFor \in [Principals -> Nat] /\ \A q \in Principals : votesFor[q] <= 0
  BY DEF ElectionInit
<1> QED
  BY <1>1, <1>2 DEF ElectionInit, ElectionInv, VotesType

\* Whatever is voted, and whoever leaves meanwhile, an election only gives the
\* seat to a member of the moment in which it ends.
THEOREM ImplementsSeat ==
    ASSUME Electable = Principals
    PROVE  ElectionSpec => ElectionImplementsSeat
<1>1. ElectionInit => Init
  BY DEF ElectionInit
<1>2. ElectionInit => ElectionInv
  BY ElectionStarts
<1>3. ElectionInv /\ [ElectionNext]_poolVars => ElectionInv' /\ [Next]_vars
  BY ElectionStep, ElectionInvStep
<1> QED
  BY <1>1, <1>2, <1>3, PTL DEF ElectionSpec, ElectionImplementsSeat, Spec

\* Who gets the seat has the most votes of the members of that moment, and more
\* than half of k, also when votes of former members are among them.
LEMMA ElectedByMost ==
    ASSUME ElectionInv, [ElectionNext]_poolVars, notifier' # notifier
    PROVE  \/ blocksLeft = 0 /\ notifier' \in MostVoted(votesFor)
           \/ \E voter \in Voters, p \in Principals :
                /\ VoteNotifier(voter, p)
                /\ notifier' \in MostVoted([votesFor EXCEPT ![p] = @ + 1])
<1>1. ~NextBlock /\ ~MembershipStep /\ ~UNCHANGED poolVars
  <2>1. ~NextBlock
    BY DEF NextBlock, AdvanceBlock
  <2>2. ~MembershipStep
    BY DEF MembershipStep, MembershipFlow, JoinFlow, RemovalFlow, AddPendingMiners,
       AskToJoin, QuitWaitingList, TryEnterPool, LeavePool, VotePositiveJoin,
       VoteNegativeJoin, QuitProposedRemovalList, ProposeRemoval,
       VotePositiveRemove, VoteNegativeRemove
  <2>3. ~UNCHANGED poolVars
    BY DEF poolVars, vars
  <2> QED
    BY <2>1, <2>2, <2>3
<1>2. ~StartVoteNotifier
  BY DEF StartVoteNotifier, ElectionInv, VotesType
<1>3. CASE EndVoteNotifier
  BY <1>3, SeatToMember DEF EndVoteNotifier, EndVotePrivate
<1>4. ASSUME NEW voter \in Voters, NEW p \in Principals, VoteNotifier(voter, p)
      PROVE  notifier' \in MostVoted([votesFor EXCEPT ![p] = @ + 1])
  <2> DEFINE votes == [votesFor EXCEPT ![p] = @ + 1]
  <2>1. p \in isMiner
    BY <1>4 DEF VoteNotifier, MayVoteNotifier
  <2>2. T!IsVoteAccepted(votes[p], k) /\ AssignSeat(votes, p)
    BY <1>4 DEF VoteNotifier, EndVotePrivate
  <2>3. MostVoted(votes) # {}
    BY <2>1, <2>2, DecidingVote
  <2> QED
    BY <2>2, <2>3 DEF AssignSeat
<1> QED
  BY <1>1, <1>2, <1>3, <1>4 DEF ElectionNext

\* The seat is never won by fewer votes than another member of the moment has.
THEOREM MostVotesWin ==
    ASSUME Electable = Principals
    PROVE  ElectionSpec => ElectedHasMostVotes
<1>1. ElectionSpec => []ElectionInv
  BY ElectionStarts, ElectionInvStep, PTL DEF ElectionSpec
<1>2. ElectionInv /\ [ElectionNext]_poolVars
        => [notifier' # notifier =>
              \/ blocksLeft = 0 /\ notifier' \in MostVoted(votesFor)
              \/ \E voter \in Voters, p \in Principals :
                   /\ VoteNotifier(voter, p)
                   /\ notifier' \in MostVoted([votesFor EXCEPT ![p] = @ + 1])]_poolVars
  BY ElectedByMost
<1> QED
  BY <1>1, <1>2, PTL DEF ElectionSpec, ElectedHasMostVotes

\* What holds of the pool under every choice of notifiers holds under elections:
\* removals are backed by votes, the seat is vacated by them, and n and k walk
\* as they do alone.
COROLLARY ElectionKeepsPool ==
    ASSUME Electable = Principals
    PROVE  ElectionSpec => []RemovalVotesBacked /\ NotifierVacatedByVote /\ ThresholdWalk
  BY ImplementsSeat, RemovalsBacked, VacatedByVote, WalksThreshold, PTL
     DEF ElectionImplementsSeat
=============================================================================
