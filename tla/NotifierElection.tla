-------------------------- MODULE NotifierElection --------------------------
(***************************************************************************)
(* The election of the notifier (mining-pool.clar, UPDATE NOTIFIER) among    *)
(* members that join, leave and are removed while it runs.                  *)
(*                                                                         *)
(* EXTENDS PoolMembership with the votes; its ElectNotifier, which lets any *)
(* member take the seat, is what StartVoteNotifier, EndVoteNotifier and      *)
(* VoteNotifier implement.  max-votes-notifier and                          *)
(* max-voted-proposed-notifier are working variables of one call: they are   *)
(* reset by delete-all-notifier-entries before it returns.                  *)
(***************************************************************************)
EXTENDS PoolMembership

CONSTANTS
    ElectionBlocks,  \* notifier-election-blocks-to-pass
    Voters           \* bound: who votes in this instance

ASSUME ElectionAssumption == ElectionBlocks \in Nat \ {0}

VARIABLES
    voteActive,       \* notifier-vote-active
    entriesRemoved,   \* notifier-previous-entries-removed
    blocksLeft,       \* notifier-vote-end-block - block-height, at least 0
    votedFor,         \* map-voted-update-notifier
    votesFor          \* map-votes-notifier

electionVars == <<voteActive, entriesRemoved, blocksLeft, votedFor, votesFor>>
poolVars == <<vars, electionVars>>

NoVote == "no vote"

ElectionInit ==
    /\ Init
    /\ voteActive = FALSE
    /\ entriesRemoved = TRUE
    /\ blocksLeft = 0
    /\ votedFor = [p \in Principals |-> NoVote]
    /\ votesFor = [p \in Principals |-> 0]

-----------------------------------------------------------------------------
\* get-max-votes-number-notifier: the members with the most votes, if these
\* are more than half of k.  Of several the one that joined first is elected;
\* which of them that is, is left open.
MostVoted(votes) ==
    {p \in isMiner :
        /\ votes[p] > k \div 2
        /\ \A q \in isMiner : votes[q] <= votes[p]}

\* Mutant of AssignSeat: the most votes win, however few they are.
AssignSeatToLeader(votes, holder) ==
    LET leaders == {p \in isMiner :
            votes[p] > 0 /\ \A q \in isMiner : votes[q] <= votes[p]}
    IN  IF leaders = {} THEN notifier' = holder ELSE notifier' \in leaders

AssignSeat(votes, holder) ==
    IF MostVoted(votes) = {} THEN notifier' = holder
                             ELSE notifier' \in MostVoted(votes)

\* delete-all-notifier-entries: the entries of the members of this moment go.
DeleteEntries(voted, votes) ==
    /\ votedFor' = [p \in Principals |->
                      IF p \in Listed(minersList) THEN NoVote ELSE voted[p]]
    /\ votesFor' = [p \in Principals |->
                      IF p \in Listed(minersList) THEN 0 ELSE votes[p]]
    /\ entriesRemoved' = TRUE

\* end-vote-notifier-private, given the votes and the notifier it finds
EndVotePrivate(voted, votes, holder) ==
    /\ AssignSeat(votes, holder)
    /\ DeleteEntries(voted, votes)

UnchangedMembers == UNCHANGED <<thresholds, miners, candidates, accepted,
                                joinBallots, proposals, removalBallots>>

StartVoteNotifier ==
    /\ ~voteActive
    /\ blocksLeft' = ElectionBlocks
    /\ voteActive' = TRUE
    /\ IF entriesRemoved
       THEN /\ entriesRemoved' = FALSE
            /\ UNCHANGED <<notifier, votedFor, votesFor>>
       ELSE EndVotePrivate(votedFor, votesFor, notifier)
    /\ UnchangedMembers

\* Mutant of EndVoteNotifier: notifier-vote-active is not reset.
EndVoteNotifierStayingActive ==
    /\ blocksLeft = 0
    /\ EndVotePrivate(votedFor, votesFor, notifier)
    /\ UNCHANGED <<voteActive, blocksLeft>>
    /\ UnchangedMembers

\* end-vote-notifier asks for the end block only, not for a vote
EndVoteNotifier ==
    /\ blocksLeft = 0
    /\ voteActive' = FALSE
    /\ EndVotePrivate(votedFor, votesFor, notifier)
    /\ UNCHANGED blocksLeft
    /\ UnchangedMembers

\* Mutant of MayVoteNotifier: who is voted for need not be a member.
MayVoteNotifierForAnyone(voter, p) ==
    /\ voter \in isMiner /\ voteActive /\ voter # p /\ blocksLeft > 0
    /\ votedFor[voter] = NoVote

MayVoteNotifier(voter, p) ==
    /\ p \in isMiner
    /\ voter \in isMiner
    /\ voteActive
    /\ voter # p
    /\ blocksLeft > 0
    /\ votedFor[voter] = NoVote

\* A vote that reaches k, as k is now, ends the election.
VoteNotifier(voter, p) ==
    /\ MayVoteNotifier(voter, p)
    /\ LET voted == [votedFor EXCEPT ![voter] = p]
           votes == [votesFor EXCEPT ![p] = @ + 1]
       IN  \/ /\ ~T!IsVoteAccepted(votes[p], k)
              /\ votedFor' = voted
              /\ votesFor' = votes
              /\ UNCHANGED <<notifier, voteActive, entriesRemoved, blocksLeft>>
           \/ /\ T!IsVoteAccepted(votes[p], k)
              /\ blocksLeft' = 0
              /\ voteActive' = FALSE
              /\ EndVotePrivate(voted, votes, p)
    /\ UnchangedMembers

NextBlock ==
    /\ AdvanceBlock
    /\ blocksLeft' = IF blocksLeft > 0 THEN blocksLeft - 1 ELSE 0
    /\ UNCHANGED <<voteActive, entriesRemoved, votedFor, votesFor>>

\* The membership flows know nothing of the election.
MembershipStep == MembershipFlow /\ UNCHANGED electionVars

ElectionNext ==
    \/ NextBlock
    \/ MembershipStep
    \/ StartVoteNotifier
    \/ EndVoteNotifier
    \/ \E voter \in Voters, p \in Principals : VoteNotifier(voter, p)

ElectionSpec == ElectionInit /\ [][ElectionNext]_poolVars

\* Blocks keep coming, and somebody ends an election that can be ended.
ElectionFairSpec ==
    ElectionSpec /\ WF_poolVars(NextBlock) /\ WF_poolVars(EndVoteNotifier)

-----------------------------------------------------------------------------
(* Properties *)

\* Whatever its votes, an election is to the members what ElectNotifier is:
\* nothing, but that a member of this moment may take the seat.
ElectionImplementsSeat == Spec

\* Whoever gets the seat had the most votes of the members of that moment and
\* more than half of the k of that moment, this vote counted, even where the
\* members that voted, or were voted for, left or were voted out meanwhile.
ElectedHasMostVotes ==
    [][notifier' # notifier =>
        \/ blocksLeft = 0 /\ notifier' \in MostVoted(votesFor)
        \/ \E voter \in Voters, p \in Principals :
            /\ VoteNotifier(voter, p)
            /\ notifier' \in MostVoted([votesFor EXCEPT ![p] = @ + 1])]_poolVars

\* An election does not go on for ever.
ElectionEnds == voteActive ~> ~voteActive
=============================================================================
