--------------------------- MODULE MinerWarnings ---------------------------
(***************************************************************************)
(* The notifier's warnings (mining-pool.clar, WARNING FLOW).  warn-miner     *)
(* compares the count a warning would give with the count at the end of the *)
(* block before, read with at-block; an admission (accept-miner-in-pool)     *)
(* resets the count in between.                                             *)
(***************************************************************************)
EXTENDS Integers

CONSTANTS
    Principals,
    MaxWarnings,    \* bound of a count
    MaxAdmissions   \* bound of the admissions of a principal in one block

ASSUME MaxWarningsAssumption == MaxWarnings \in Nat /\ MaxAdmissions \in Nat

VARIABLES
    warnings,     \* map-warnings
    blockBefore,  \* map-warnings at the end of the block before this one
    given,        \* history: the warnings given in this block
    admitted      \* history: the admissions of this block

warningVars == <<warnings, blockBefore, given, admitted>>

NoEntry == -1
Warnings == NoEntry .. MaxWarnings

WarningInit ==
    /\ warnings = [p \in Principals |-> NoEntry]
    /\ blockBefore = [p \in Principals |-> NoEntry]
    /\ given = [p \in Principals |-> 0]
    /\ admitted = [p \in Principals |-> 0]

AdvanceBlock ==
    /\ blockBefore' = warnings
    /\ given' = [p \in Principals |-> 0]
    /\ admitted' = [p \in Principals |-> 0]
    /\ UNCHANGED warnings

\* accept-miner-in-pool, of who was warned before too: who is pending may ask
\* again, and a miner that left may return.
AdmitUnwarned(p) ==
    /\ admitted[p] < MaxAdmissions
    /\ warnings' = [warnings EXCEPT ![p] = 0]
    /\ admitted' = [admitted EXCEPT ![p] = @ + 1]
    /\ UNCHANGED <<blockBefore, given>>

Incremented(p) == 1 + (IF warnings[p] = NoEntry THEN 0 ELSE warnings[p])

\* Mutant of MayWarn: the difference to the block before is not checked.
MayWarnAgain(p) == blockBefore[p] # NoEntry

\* A missing entry of the block before is an error, a difference below 0
\* aborts (uint).
MayWarn(p) ==
    /\ blockBefore[p] # NoEntry
    /\ Incremented(p) - blockBefore[p] \in {0, 1}

\* warn-miner, called by the notifier
WarnMiner(p) ==
    /\ MayWarn(p)
    /\ Incremented(p) <= MaxWarnings
    /\ warnings' = [warnings EXCEPT ![p] = Incremented(p)]
    /\ given' = [given EXCEPT ![p] = @ + 1]
    /\ UNCHANGED <<blockBefore, admitted>>

WarningNext ==
    \/ AdvanceBlock
    \/ \E p \in Principals : AdmitUnwarned(p) \/ WarnMiner(p)

WarningSpec == WarningInit /\ [][WarningNext]_warningVars

-----------------------------------------------------------------------------
WarningTypeOK ==
    /\ warnings \in [Principals -> Warnings]
    /\ blockBefore \in [Principals -> Warnings]
    /\ given \in [Principals -> Nat]
    /\ admitted \in [Principals -> Nat]

\* The warnings that one admission makes possible again in the same block: from
\* 0 up to one more than the count of the block before, if 1 is not too low.
AgainPossible(p) == IF blockBefore[p] \in {0, 1} THEN blockBefore[p] + 1 ELSE 0

\* However calls and admissions interleave, a block gives a principal one warning
\* (err-one-warning-per-block), none if it had no entry before, and more only
\* after an admission in the same block: then as many as the count of the block
\* before and one more, or none if that count is above 1.
WarningsOfABlock ==
    \A p \in Principals :
        given[p] <= (IF blockBefore[p] = NoEntry THEN 0 ELSE 1)
                        + admitted[p] * AgainPossible(p)
=============================================================================
