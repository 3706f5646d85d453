--------------------------- MODULE PoolMembership ---------------------------
(***************************************************************************)
(* Who is a member of the mining pool (mining-pool.clar): the joining,      *)
(* leaving and removing flows, their ballots and the counters n and k.      *)
(*                                                                         *)
(* Transactions of one block run one after the other, a call that fails     *)
(* changes nothing, and AdvanceBlock ends the block.  A height is only ever *)
(* subtracted from the current one and compared with blocks-to-pass, so it  *)
(* is kept as an age in blocks, saturated there: block runs are unbounded.  *)
(* Ballots are judged by the state AT THE END of the block of the request   *)
(* (at-block); it is recorded per request when that block ends.             *)
(*                                                                         *)
(* A list that the contract filters is a function to multiplicities, since  *)
(* nothing here depends on its order.                                       *)
(***************************************************************************)
EXTENDS Integers, Sequences, FiniteSets, Functions

CONSTANTS
    Principals,    \* the accounts that call the contract
    Founders,      \* the members of the pool at the start
    Deployer,      \* the first notifier
    Calls,         \* the <<tx-sender, contract-caller>> pairs that ask to join
    Targets,       \* bound: who may get proposed for removal
    Electable,     \* bound: who may get elected notifier
    BlocksToPass,  \* blocks-to-pass
    MaxList,       \* the maximal length of the contract's lists (300)
    MaxMembers     \* bound of n

ASSUME FoundersAssumption == Founders \subseteq Principals /\ Deployer \in Founders
ASSUME FiniteAssumption == IsFiniteSet(Principals)
ASSUME CallsAssumption == Calls \subseteq Principals \X Principals
ASSUME BoundsAssumption == BlocksToPass \in Nat \ {0} /\ MaxList \in Nat
ASSUME MaxMembersAssumption == MaxMembers \in Nat

VARIABLES
    notifier, n, k, sinceLastJoin,
    isMiner, minersList, isWaiting, waitingList, isPending, pendingList,
    askAge, askSnap, acceptJoin, rejectJoin, joinVoter,
    isProposed, proposedList, proposalAge, proposalSnap,
    acceptRemoval, rejectRemoval, removeVoter

thresholds == <<n, k>>
miners == <<isMiner, minersList>>
candidates == <<isWaiting, waitingList>>
accepted == <<isPending, pendingList, sinceLastJoin>>
joinBallots == <<askAge, askSnap, acceptJoin, rejectJoin, joinVoter>>
proposals == <<isProposed, proposedList>>
removalBallots ==
    <<proposalAge, proposalSnap, acceptRemoval, rejectRemoval, removeVoter>>

vars == <<notifier, thresholds, miners, candidates, accepted, joinBallots,
          proposals, removalBallots>>

\* update-threshold, is-vote-accepted and their kin
T == INSTANCE PoolThreshold
         WITH MaxBatch <- MaxList, Initially <- Cardinality(Founders)

-----------------------------------------------------------------------------
NoAge == -1                      \* no entry in map-block-asked-to-join, ...
Ages == NoAge .. BlocksToPass

Ballot == [n : Nat, k : Nat, miners : SUBSET Principals]
NoBallot == [n |-> 0, k |-> 0, miners |-> {}]

Length(list) == SumFunction(list)
Listed(list) == {p \in Principals : list[p] > 0}
Occurrences(seq, p) == Cardinality({i \in DOMAIN seq : seq[i] = p})

\* What at-block yields for a request: the state at the end of its block, or
\* the state as it is while that block lasts.
AtRequest(age, snap) ==
    IF age = 0 THEN [n |-> n, k |-> k, miners |-> isMiner] ELSE snap

AtAsk(p) == AtRequest(askAge[p], askSnap[p])
AtProposal(p) == AtRequest(proposalAge[p], proposalSnap[p])

-----------------------------------------------------------------------------
Init ==
    /\ notifier = Deployer
    /\ n = Cardinality(Founders)
    /\ k = T!UpdateThreshold(n)
    /\ sinceLastJoin \in 0 .. BlocksToPass
    /\ isMiner = Founders
    /\ minersList = [p \in Principals |-> IF p \in Founders THEN 1 ELSE 0]
    /\ isWaiting = {} /\ isPending = {} /\ isProposed = {}
    /\ pendingList = <<>>
    /\ waitingList = [p \in Principals |-> 0]
    /\ proposedList = [p \in Principals |-> 0]
    /\ askAge = [p \in Principals |-> NoAge]
    /\ proposalAge = [p \in Principals |-> NoAge]
    /\ askSnap = [p \in Principals |-> NoBallot]
    /\ proposalSnap = [p \in Principals |-> NoBallot]
    /\ acceptJoin = [p \in Principals |-> 0]
    /\ rejectJoin = [p \in Principals |-> 0]
    /\ acceptRemoval = [p \in Principals |-> 0]
    /\ rejectRemoval = [p \in Principals |-> 0]
    /\ joinVoter = {} /\ removeVoter = {}

Older(age) == IF age = NoAge THEN NoAge
              ELSE IF age < BlocksToPass THEN age + 1 ELSE age

\* The block ends; the requests made in it are from now on judged by the
\* state it leaves.
AdvanceBlock ==
    /\ askSnap' = [p \in Principals |-> AtAsk(p)]
    /\ proposalSnap' = [p \in Principals |-> AtProposal(p)]
    /\ askAge' = [p \in Principals |-> Older(askAge[p])]
    /\ proposalAge' = [p \in Principals |-> Older(proposalAge[p])]
    /\ sinceLastJoin' = Older(sinceLastJoin)
    /\ UNCHANGED <<notifier, thresholds, miners, candidates, isPending,
                   pendingList, acceptJoin, rejectJoin, joinVoter, proposals,
                   acceptRemoval, rejectRemoval, removeVoter>>

-----------------------------------------------------------------------------
(* Joining *)

\* ask-to-join: the list takes tx-sender, the maps take contract-caller.  A
\* pending principal passes the guard.
AskToJoin(sender, caller) ==
    /\ caller \notin isMiner
    /\ caller \notin isWaiting
    /\ Length(waitingList) < MaxList
    /\ askAge' = [askAge EXCEPT ![caller] = 0]
    /\ waitingList' = [waitingList EXCEPT ![sender] = @ + 1]
    /\ isWaiting' = isWaiting \cup {caller}
    /\ UNCHANGED <<notifier, thresholds, miners, accepted, askSnap, acceptJoin,
                   rejectJoin, joinVoter, proposals, removalBallots>>

\* remove-principal-waiting-list and map-delete map-is-waiting
DropCandidate(p) ==
    /\ waitingList' = [waitingList EXCEPT ![p] = 0]
    /\ isWaiting' = isWaiting \ {p}

\* Mutant of ClearJoinBallot: map-votes-reject-join is not cleared.
ClearJoinBallotKeepingRejections(p, voters) ==
    /\ acceptJoin' = [acceptJoin EXCEPT ![p] = 0]
    /\ askAge' = [askAge EXCEPT ![p] = NoAge]
    /\ askSnap' = [askSnap EXCEPT ![p] = NoBallot]
    /\ joinVoter' = voters \ ({p} \X Listed(minersList))
    /\ UNCHANGED rejectJoin

\* clear-votes-map-join-vote: of the voter records only those of the members
\* of this moment go.
ClearJoinBallot(p, voters) ==
    /\ acceptJoin' = [acceptJoin EXCEPT ![p] = 0]
    /\ rejectJoin' = [rejectJoin EXCEPT ![p] = 0]
    /\ askAge' = [askAge EXCEPT ![p] = NoAge]
    /\ askSnap' = [askSnap EXCEPT ![p] = NoBallot]
    /\ joinVoter' = voters \ ({p} \X Listed(minersList))

\* Mutant of MayVoteJoin: err-already-voted is not asserted.
MayVoteJoinAgain(voter, p) ==
    p \in isWaiting /\ askAge[p] > 0 /\ voter \in askSnap[p].miners

\* check-is-miner-when-requested-join fails in the block of the request, as
\* get-block-info? knows no header of the current block.
MayVoteJoin(voter, p) ==
    /\ p \in isWaiting
    /\ askAge[p] > 0
    /\ voter \in askSnap[p].miners
    /\ <<p, voter>> \notin joinVoter

VotePositiveJoin(voter, p) ==
    /\ MayVoteJoin(voter, p)
    /\ joinVoter' = joinVoter \cup {<<p, voter>>}
    /\ acceptJoin' = [acceptJoin EXCEPT ![p] = @ + 1]
    /\ UNCHANGED <<notifier, thresholds, miners, candidates, accepted, askAge,
                   askSnap, rejectJoin, proposals, removalBallots>>

\* Mutant of JoinRejected: n as it is now, not as it was at the request.
JoinRejectedByCurrentCount(p, votes) ==
    T!IsVoteRejectedJoin(votes, AtAsk(p).k, n)

JoinRejected(p, votes) == T!IsVoteRejectedJoin(votes, AtAsk(p).k, AtAsk(p).n)

VoteNegativeJoin(voter, p) ==
    /\ MayVoteJoin(voter, p)
    /\ \/ /\ ~JoinRejected(p, rejectJoin[p] + 1)
          /\ joinVoter' = joinVoter \cup {<<p, voter>>}
          /\ rejectJoin' = [rejectJoin EXCEPT ![p] = @ + 1]
          /\ UNCHANGED <<candidates, askAge, askSnap, acceptJoin>>
       \/ /\ JoinRejected(p, rejectJoin[p] + 1)
          /\ DropCandidate(p)
          /\ ClearJoinBallot(p, joinVoter \cup {<<p, voter>>})
    /\ UNCHANGED <<notifier, thresholds, miners, accepted, proposals,
                   removalBallots>>

QuitWaitingList(caller) ==
    /\ caller \in isWaiting
    /\ askAge[caller] >= BlocksToPass
    /\ DropCandidate(caller)
    /\ ClearJoinBallot(caller, joinVoter)
    /\ UNCHANGED <<notifier, thresholds, miners, accepted, proposals,
                   removalBallots>>

JoinAccepted(p) == T!IsVoteAccepted(acceptJoin[p], AtAsk(p).k)

\* Mutant of TryEnterPool: the pending list is not written.
TryEnterPoolUnlisted(caller) ==
    /\ acceptJoin[caller] > 0
    /\ JoinAccepted(caller)
    /\ DropCandidate(caller)
    /\ isPending' = isPending \cup {caller}
    /\ ClearJoinBallot(caller, joinVoter)
    /\ UNCHANGED <<notifier, thresholds, miners, pendingList, sinceLastJoin,
                   proposals, removalBallots>>

\* try-enter-pool and accept-miner-in-pool; too few votes change nothing
TryEnterPool(caller) ==
    /\ acceptJoin[caller] > 0
    /\ JoinAccepted(caller)
    /\ Len(pendingList) < MaxList
    /\ DropCandidate(caller)
    /\ isPending' = isPending \cup {caller}
    /\ pendingList' = Append(pendingList, caller)
    /\ ClearJoinBallot(caller, joinVoter)
    /\ UNCHANGED <<notifier, thresholds, miners, sinceLastJoin, proposals,
                   removalBallots>>

PoolIsFull ==
    \/ Length(minersList) + Len(pendingList) > MaxList
    \/ n + Len(pendingList) > MaxMembers

\* Mutant of Entering: one member counted for all that enter.
EnteringAsOne == 1

\* len-pending-accept-list
Entering == Len(pendingList)

AddPendingMiners ==
    /\ pendingList # <<>>
    /\ sinceLastJoin >= BlocksToPass
    /\ ~PoolIsFull
    /\ isPending' = isPending \ Range(pendingList)
    /\ isMiner' = isMiner \cup Range(pendingList)
    /\ minersList' = [p \in Principals |->
                        minersList[p] + Occurrences(pendingList, p)]
    /\ n' = n + Entering
    /\ k' = T!UpdateThreshold(n')
    /\ pendingList' = <<>>
    /\ sinceLastJoin' = 0
    /\ UNCHANGED <<notifier, candidates, joinBallots, proposals, removalBallots>>

-----------------------------------------------------------------------------
(* Leaving and removing *)

\* Mutants of CountDeparture: k falls with every departure, and k is never
\* recomputed.
CountDepartureLoweringThreshold ==
    n >= 1 /\ n' = n - 1 /\ k' = k - 1
CountDepartureKeepingThreshold ==
    n >= 1 /\ n' = n - 1 /\ k' = k

\* n is a uint.
CountDeparture ==
    /\ n >= 1
    /\ n' = n - 1
    /\ k' = T!ThresholdAfterDeparture(n, k)

\* Mutant of UnlistMiner: only one entry of the list goes.
UnlistMinerOnce(p) ==
    minersList' = [minersList EXCEPT ![p] = IF @ > 0 THEN @ - 1 ELSE 0]

\* remove-principal-miners-list and -proposed-removal-list: filters, which
\* drop every entry of p
UnlistMiner(p) == minersList' = [minersList EXCEPT ![p] = 0]
UnlistProposal(p) == proposedList' = [proposedList EXCEPT ![p] = 0]

\* What leave-pool and process-removal share.
DropMiner(p) ==
    /\ CountDeparture
    /\ UnlistMiner(p)
    /\ isMiner' = isMiner \ {p}
    /\ UnlistProposal(p)

\* Mutant of MayLeave: err-currently-notifier is not asserted.
MayLeaveNotifier(caller) == caller \in isMiner

MayLeave(caller) == caller \in isMiner /\ caller # notifier

\* leave-pool: an open removal proposal stays open, only its list entry goes.
LeavePool(caller) ==
    /\ MayLeave(caller)
    /\ DropMiner(caller)
    /\ UNCHANGED <<notifier, candidates, accepted, joinBallots, isProposed,
                   removalBallots>>

MayPropose(caller, p) ==
    /\ n # 1
    /\ caller \in isMiner
    /\ p \in isMiner
    /\ p \notin isProposed

ProposeRemoval(caller, p) ==
    /\ p \in Targets
    /\ MayPropose(caller, p)
    /\ Length(proposedList) < MaxList
    /\ proposalAge' = [proposalAge EXCEPT ![p] = 0]
    /\ isProposed' = isProposed \cup {p}
    /\ proposedList' = [proposedList EXCEPT ![p] = @ + 1]
    /\ UNCHANGED <<notifier, thresholds, miners, candidates, accepted,
                   joinBallots, proposalSnap, acceptRemoval, rejectRemoval,
                   removeVoter>>

\* clear-votes-map-remove-vote, with the members left in the list
ClearRemovalBallot(p, voters, members) ==
    /\ acceptRemoval' = [acceptRemoval EXCEPT ![p] = 0]
    /\ rejectRemoval' = [rejectRemoval EXCEPT ![p] = 0]
    /\ proposalAge' = [proposalAge EXCEPT ![p] = NoAge]
    /\ proposalSnap' = [proposalSnap EXCEPT ![p] = NoBallot]
    /\ isProposed' = isProposed \ {p}
    /\ removeVoter' = voters \ ({p} \X members)

\* Mutant of MayVoteRemoval: err-already-voted is not asserted.
MayVoteRemovalAgain(voter, p) ==
    /\ voter # p /\ p \in isProposed /\ proposalAge[p] # NoAge
    /\ voter \in AtProposal(p).miners

MayVoteRemoval(voter, p) ==
    /\ voter # p
    /\ p \in isProposed
    /\ proposalAge[p] # NoAge
    /\ voter \in AtProposal(p).miners
    /\ <<p, voter>> \notin removeVoter

RemovalAccepted(p, votes) == T!IsVoteAccepted(votes, AtProposal(p).k)
RemovalRejected(p, votes) ==
    T!IsVoteRejectedRemove(votes, AtProposal(p).k, AtProposal(p).n)

\* The deciding vote removes the target (process-removal), whether it still
\* is a member or not, and whether it is the notifier or not.
VotePositiveRemove(voter, p) ==
    /\ MayVoteRemoval(voter, p)
    /\ \/ /\ ~RemovalAccepted(p, acceptRemoval[p] + 1)
          /\ removeVoter' = removeVoter \cup {<<p, voter>>}
          /\ acceptRemoval' = [acceptRemoval EXCEPT ![p] = @ + 1]
          /\ UNCHANGED <<thresholds, miners, proposals, proposalAge,
                         proposalSnap, rejectRemoval>>
       \/ /\ RemovalAccepted(p, acceptRemoval[p] + 1)
          /\ DropMiner(p)
          /\ ClearRemovalBallot(p, removeVoter \cup {<<p, voter>>},
                                Listed(minersList) \ {p})
    /\ UNCHANGED <<notifier, candidates, accepted, joinBallots>>

VoteNegativeRemove(voter, p) ==
    /\ MayVoteRemoval(voter, p)
    /\ \/ /\ ~RemovalRejected(p, rejectRemoval[p] + 1)
          /\ removeVoter' = removeVoter \cup {<<p, voter>>}
          /\ rejectRemoval' = [rejectRemoval EXCEPT ![p] = @ + 1]
          /\ UNCHANGED <<proposals, proposalAge, proposalSnap, acceptRemoval>>
       \/ /\ RemovalRejected(p, rejectRemoval[p] + 1)
          /\ UnlistProposal(p)
          /\ ClearRemovalBallot(p, removeVoter \cup {<<p, voter>>},
                                Listed(minersList))
    /\ UNCHANGED <<notifier, thresholds, miners, candidates, accepted,
                   joinBallots>>

QuitProposedRemovalList(caller) ==
    /\ proposalAge[caller] >= BlocksToPass
    /\ UnlistProposal(caller)
    /\ ClearRemovalBallot(caller, removeVoter, Listed(minersList))
    /\ UNCHANGED <<notifier, thresholds, miners, candidates, accepted,
                   joinBallots>>

-----------------------------------------------------------------------------
\* What an election of the notifier can do to the members, whatever its votes:
\* the seat goes to a member of this moment (vote-notifier, end-vote-notifier).
ElectNotifier(p) ==
    /\ p \in Electable
    /\ p \in isMiner
    /\ notifier' = p
    /\ UNCHANGED <<thresholds, miners, candidates, accepted, joinBallots,
                   proposals, removalBallots>>

\* The flows of the members and the candidates, one call a step.
JoinFlow ==
    \/ AddPendingMiners
    \/ \E call \in Calls : AskToJoin(call[1], call[2])
    \/ \E p \in Principals :
        QuitWaitingList(p) \/ TryEnterPool(p) \/ LeavePool(p)
    \/ \E voter, p \in Principals :
        VotePositiveJoin(voter, p) \/ VoteNegativeJoin(voter, p)

RemovalFlow ==
    \/ \E p \in Principals : QuitProposedRemovalList(p)
    \/ \E voter, p \in Principals :
        \/ ProposeRemoval(voter, p)
        \/ VotePositiveRemove(voter, p)
        \/ VoteNegativeRemove(voter, p)

MembershipFlow == JoinFlow \/ RemovalFlow

Next ==
    \/ AdvanceBlock
    \/ MembershipFlow
    \/ \E p \in Principals : ElectNotifier(p)

Spec == Init /\ [][Next]_vars

\* The joining flow alone, in which nobody is proposed for removal.  Blocks
\* keep coming, and somebody calls add-pending-miners-to-pool when it can be
\* called: anyone may.
JoinSpec ==
    /\ Init /\ [][AdvanceBlock \/ JoinFlow]_vars
    /\ WF_vars(AdvanceBlock) /\ WF_vars(AddPendingMiners)

-----------------------------------------------------------------------------
(* Properties *)

Counts == [Principals -> Nat]

PoolType ==
    /\ notifier \in Principals
    /\ n \in Nat /\ k \in Nat
    /\ isMiner \subseteq Principals /\ minersList \in Counts

JoinType ==
    /\ sinceLastJoin \in 0 .. BlocksToPass
    /\ isWaiting \subseteq Principals /\ waitingList \in Counts
    /\ isPending \subseteq Principals /\ pendingList \in Seq(Principals)
    /\ askAge \in [Principals -> Ages]
    /\ askSnap \in [Principals -> Ballot]
    /\ acceptJoin \in Counts /\ rejectJoin \in Counts
    /\ joinVoter \subseteq Principals \X Principals

RemovalType ==
    /\ isProposed \subseteq Principals /\ proposedList \in Counts
    /\ proposalAge \in [Principals -> Ages]
    /\ proposalSnap \in [Principals -> Ballot]
    /\ acceptRemoval \in Counts /\ rejectRemoval \in Counts
    /\ removeVoter \subseteq Principals \X Principals

TypeOK == PoolType /\ JoinType /\ RemovalType

\* The maps by which the contract guards its calls and the lists it iterates
\* over are written separately in every flow; they never disagree on who is
\* a member and who is pending, whatever flows the principal went through,
\* some of them twice.
MapsAgreeWithLists ==
    /\ isMiner = Listed(minersList)
    /\ isPending = Range(pendingList)

\* Votes, and a block to judge them by, exist for open requests only: what
\* try-enter-pool unwraps is there, and a new request starts from no votes,
\* not even from votes cast in the block in which it is made.
JoinBallotsOpen ==
    \A p \in Principals :
        /\ p \in isWaiting <=> askAge[p] # NoAge
        /\ askAge[p] <= 0 => acceptJoin[p] = 0 /\ rejectJoin[p] = 0

JoinVoters(p) == {v \in askSnap[p].miners : <<p, v>> \in joinVoter}

\* No join vote is counted twice, and none is counted of who was no member
\* when the request was made, although voter records outlive the ballot when
\* their voter has left the pool (clear-votes-map-join-vote).
JoinVotesBacked ==
    \A p \in Principals :
        acceptJoin[p] + rejectJoin[p] <= Cardinality(JoinVoters(p))

RemovalVoters(p) == {v \in Principals : <<p, v>> \in removeVoter}

\* The same for removals, where a vote of the proposal's own block may be the
\* vote of somebody the judging block no longer counts as a member.
RemovalVotesBacked ==
    \A p \in Principals :
        /\ p \in isProposed <=> proposalAge[p] # NoAge
        /\ p \notin isProposed => acceptRemoval[p] = 0 /\ rejectRemoval[p] = 0
        /\ acceptRemoval[p] + rejectRemoval[p] <= Cardinality(RemovalVoters(p))
        /\ <<p, p>> \notin removeVoter

\* The ballot of p counted as many members as its block had.
CountedRight(p) == AtAsk(p).n = Cardinality(AtAsk(p).miners)

\* Once a candidate has the votes it needs, no later vote can reject it
\* before it calls try-enter-pool: the two thresholds of a ballot exclude
\* each other as long as n counted the members right.
AcceptedNeverRejected ==
    [][\A voter, p \in Principals :
        VoteNegativeJoin(voter, p) /\ JoinAccepted(p) /\ CountedRight(p)
            => p \in isWaiting']_vars

\* n follows the length of the list of members, but for two departures: of
\* who is listed twice (filter drops both entries), and of who is voted out
\* after having left.
CounterFollowsList ==
    [][\/ n' - n = Length(minersList') - Length(minersList)
       \/ /\ n' = n - 1
          /\ \E p \in Principals : minersList[p] # 1 /\ minersList'[p] = 0
                /\ (minersList[p] > 1 \/ p \in isProposed)]_vars

\* The notifier cannot leave and only a member is elected, so the seat of the
\* notifier goes to a non-member only by voting its holder out.
NotifierVacatedByVote ==
    [][(notifier \in isMiner /\ notifier' \notin isMiner')
        => notifier \in isProposed \ isProposed']_vars

\* The threshold walks as PoolThreshold lets it, one departure or one batch
\* of admissions at a time: no flow writes n without k, or k on its own.
ThresholdWalk == T!Spec

\* Who has been accepted becomes a member once blocks-to-pass blocks have
\* passed, unless the pool is full.
PendingEventuallyMiner ==
    \A p \in Principals : p \in isPending ~> p \in isMiner \/ PoolIsFull

=============================================================================
