------------------------- MODULE StackingPoolProofs -------------------------
(***************************************************************************)
(* The stacking pool, for every set of principals, every length of a lock    *)
(* and every amount: whom it counts, and what it has settled.                *)
(***************************************************************************)
EXTENDS StackingPool, FoldTheorems, TLAPS

PoxEntries ==
    [allowed : BOOLEAN, delegated : Nat, locked : Nat, first : Nat, unlock : Nat]
UserData ==
    [known : BOOLEAN, inPool : BOOLEAN, delegated : Nat, locked : Nat, until : Nat]

\* An entry of PoX and the pool's record of the same principal agree: the
\* record is right, or the end it names is long past.  It is past because an
\* extension adds a cycle to an end that a delegation has reset, so that it
\* stays as far behind PoX's as the first cycle is from 0, and PoX locks for
\* less.
Agrees(px, ud) ==
    /\ px.locked = 0 => px.unlock = 0 /\ ud.until <= cycle
    /\ px.locked > 0 =>
        /\ px.first <= cycle + 1
        /\ cycle < px.unlock /\ px.unlock <= cycle + 1 + MaxPeriod
        /\ \/ ud.until = px.unlock /\ ud.locked = px.locked
           \/ ud.until + FirstCycle <= px.unlock

TypeInv ==
    /\ cycle \in Nat /\ FirstCycle <= cycle
    /\ pox \in [Principals -> PoxEntries]
    /\ data \in [Principals -> UserData]

AgreeInv == \A p \in Principals : Agrees(pox[p], data[p])

Inv == TypeInv /\ AgreeInv

USE CyclesAssumption, AmountsAssumption, PeriodAssumption

-----------------------------------------------------------------------------
(* A call's records: locking keeps them in agreement. *)

LEMMA AgreementCounts ==
  ASSUME cycle \in Nat, FirstCycle <= cycle,
         NEW px \in PoxEntries, NEW ud \in UserData, Agrees(px, ud),
         ud.until > cycle
  PROVE  px.locked = ud.locked /\ px.unlock = ud.until
  BY DEF Agrees, PoxEntries, UserData

LEMMA LockedFirstAgrees ==
  ASSUME cycle \in Nat, FirstCycle <= cycle,
         NEW px \in PoxEntries, NEW ud \in UserData, NEW deleg, NEW lock,
         NEW s, s = [px |-> px, ud |-> ud, deleg |-> deleg, lock |-> lock],
         LocksFirst(s)
  PROVE  /\ LockedFirst(s).px \in PoxEntries
         /\ LockedFirst(s).ud \in UserData
         /\ Agrees(LockedFirst(s).px, LockedFirst(s).ud)
<1> DEFINE amount == AmountToLock(s)
           npx == [px EXCEPT !.locked = amount, !.first = cycle + 1,
                             !.unlock = cycle + 2]
           nud == [ud EXCEPT !.known = TRUE, !.locked = amount,
                             !.until = cycle + 2]
<1>1. amount \in Nat /\ amount > 0
  BY DEF LocksFirst, AmountToLock, PoxEntries
<1>2. LockedFirst(s).px = npx /\ LockedFirst(s).ud = nud
  BY DEF LockedFirst
<1> HIDE DEF amount
<1>3. npx \in PoxEntries /\ nud \in UserData
  <2>1. cycle + 1 \in Nat /\ cycle + 2 \in Nat
    OBVIOUS
  <2>2. npx \in PoxEntries
    BY <1>1, <2>1 DEF PoxEntries
  <2>3. nud \in UserData
    BY <1>1, <2>1 DEF UserData
  <2> QED
    BY <2>2, <2>3
<1>4. Agrees(npx, nud)
  BY <1>1 DEF Agrees, PoxEntries, UserData
<1> QED
  BY <1>2, <1>3, <1>4

LEMMA ExtendedAgrees ==
  ASSUME cycle \in Nat, FirstCycle <= cycle,
         NEW px \in PoxEntries, NEW ud \in UserData, NEW deleg, NEW lock,
         NEW s, s = [px |-> px, ud |-> ud, deleg |-> deleg, lock |-> lock],
         Agrees(px, ud), Extends(s)
  PROVE  /\ Extended(s) = [px |-> Extended(s).px, ud |-> Extended(s).ud,
                           deleg |-> deleg, lock |-> lock]
         /\ Extended(s).px \in PoxEntries
         /\ Extended(s).ud \in UserData
         /\ Extended(s).px.locked > 0
         /\ Agrees(Extended(s).px, Extended(s).ud)
<1> DEFINE npx == [px EXCEPT !.unlock = px.unlock + 1]
           nud == [ud EXCEPT !.known = TRUE, !.until = ud.until + 1]
<1>0. px.unlock + 1 \in Nat /\ ud.until + 1 \in Nat
  BY DEF PoxEntries, UserData
<1>1. Extended(s) = [px |-> npx, ud |-> nud, deleg |-> deleg, lock |-> lock]
  <2>1. s.px = px /\ s.ud = ud
    OBVIOUS
  <2>2. Extended(s).px = npx
    BY <2>1 DEF Extended, PoxEntries
  <2>3. Extended(s).ud = nud
    BY <2>1 DEF Extended, UserData
  <2>4. Extended(s) = [s EXCEPT !.px = npx, !.ud = nud]
    <3>1. Extended(s) = [s EXCEPT !.px = [s.px EXCEPT !.unlock = s.px.unlock + 1],
                                  !.ud = [[s.ud EXCEPT !.known = TRUE]
                                             EXCEPT !.until = s.ud.until + 1]]
      BY <2>1 DEF Extended, PoxEntries, UserData
    <3> QED
      BY <2>1, <3>1
  <2> HIDE DEF npx, nud
  <2> QED
    BY <2>4
<1>2. npx \in PoxEntries /\ nud \in UserData
  <2>1. npx \in PoxEntries
    BY <1>0 DEF PoxEntries
  <2>2. nud \in UserData
    BY <1>0 DEF UserData
  <2> QED
    BY <2>1, <2>2
<1>3. px.locked > 0 /\ px.unlock + 1 <= cycle + 1 + MaxPeriod
  BY DEF Extends, Agrees, PoxEntries
<1>4. Agrees(npx, nud)
  BY <1>3 DEF Agrees, PoxEntries, UserData
<1> QED
  BY <1>1, <1>2, <1>3, <1>4 DEF PoxEntries

LEMMA IncreasedAgrees ==
  ASSUME cycle \in Nat, FirstCycle <= cycle,
         NEW px \in PoxEntries, NEW ud \in UserData, NEW deleg, NEW lock,
         NEW s, s = [px |-> px, ud |-> ud, deleg |-> deleg, lock |-> lock],
         Agrees(px, ud), px.locked > 0, Increases(s)
  PROVE  /\ Increased(s).px \in PoxEntries
         /\ Increased(s).ud \in UserData
         /\ Agrees(Increased(s).px, Increased(s).ud)
<1> DEFINE locked == px.locked + Increase(s)
           npx == [px EXCEPT !.locked = locked]
           nud == [ud EXCEPT !.locked = locked]
<1>1. locked \in Nat /\ locked > 0
  BY DEF Increases, Increase, AmountToLock, PoxEntries, UserData
<1>2. Increased(s).px = npx /\ Increased(s).ud = nud
  BY DEF Increased
<1> HIDE DEF locked
<1>3. npx \in PoxEntries /\ nud \in UserData
  BY <1>1 DEF PoxEntries, UserData
<1>4. Agrees(npx, nud)
  BY <1>1 DEF Agrees, PoxEntries, UserData
<1> QED
  BY <1>2, <1>3, <1>4

LEMMA LockedAgrees ==
  ASSUME cycle \in Nat, FirstCycle <= cycle,
         NEW px \in PoxEntries, NEW ud \in UserData, NEW deleg, NEW lock,
         NEW s, s = [px |-> px, ud |-> ud, deleg |-> deleg, lock |-> lock],
         Agrees(px, ud), NEW t \in Locked(s)
  PROVE  t.px \in PoxEntries /\ t.ud \in UserData /\ Agrees(t.px, t.ud)
<1>1. CASE LocksFirst(s)
  <2>1. t = LockedFirst(s)
    BY <1>1 DEF Locked
  <2> QED
    BY <1>1, <2>1, LockedFirstAgrees
<1>2. CASE ~LocksFirst(s)
  <2>1. /\ Extends(s)
        /\ \/ t = Extended(s)
           \/ Increases(Extended(s)) /\ t = Increased(Extended(s))
    BY <1>2 DEF Locked
  <2> DEFINE u == Extended(s)
  <2>2. /\ u = [px |-> u.px, ud |-> u.ud, deleg |-> deleg, lock |-> lock]
        /\ u.px \in PoxEntries /\ u.ud \in UserData
        /\ u.px.locked > 0 /\ Agrees(u.px, u.ud)
    BY <2>1, ExtendedAgrees
  <2> HIDE DEF u
  <2>3. CASE t = u
    BY <2>2, <2>3
  <2>4. CASE Increases(u) /\ t = Increased(u)
    BY <2>2, <2>4, IncreasedAgrees
  <2> QED
    BY <2>1, <2>3, <2>4 DEF u
<1> QED
  BY <1>1, <1>2

\* A new delegation resets the end, which then lies in the past.
LEMMA DelegatedAgrees ==
  ASSUME Inv, NEW p \in Principals, NEW amount \in Nat,
         NEW s, s = Delegated(Now(p), amount)
  PROVE  /\ s = [px |-> s.px, ud |-> s.ud, deleg |-> s.deleg, lock |-> s.lock]
         /\ s.px \in PoxEntries /\ s.ud \in UserData
         /\ Agrees(s.px, s.ud)
<1> DEFINE px == [pox[p] EXCEPT !.delegated = amount]
           ud == [data[p] EXCEPT !.known = TRUE, !.delegated = amount,
                                 !.until = 0]
           deleg == scDelegated - Before(Now(p)) + amount
<1>1. pox[p] \in PoxEntries /\ data[p] \in UserData /\ Agrees(pox[p], data[p])
  BY DEF Inv, TypeInv, AgreeInv
<1>2. px \in PoxEntries
  BY <1>1 DEF PoxEntries
<1>3. ud \in UserData
  BY <1>1 DEF UserData
<1>4. s = [px |-> px, ud |-> ud, deleg |-> deleg, lock |-> scLocked]
  BY DEF Delegated, Now
<1>5. Agrees(px, ud)
  BY <1>1 DEF Agrees, PoxEntries, UserData, Inv, TypeInv
<1> HIDE DEF px, ud, deleg
<1> QED
  BY <1>2, <1>3, <1>4, <1>5

-----------------------------------------------------------------------------
(* The invariant *)

LEMMA InitInv == Init => Inv
<1> SUFFICES ASSUME Init PROVE Inv
  OBVIOUS
<1>1. TypeInv
  <2>1. NoPox \in PoxEntries
    BY DEF NoPox, PoxEntries
  <2>2. NoData \in UserData
    BY DEF NoData, UserData
  <2>3. Joined \in UserData
    BY <2>2 DEF Joined, UserData
  <2> QED
    BY <2>1, <2>2, <2>3 DEF Init, TypeInv
<1>2. AgreeInv
  BY DEF Init, AgreeInv, Agrees, NoPox, NoData, Joined
<1> QED
  BY <1>1, <1>2 DEF Inv

\* The calls that leave the clock, PoX and the records alone
LEMMA ElsewhereInv ==
  ASSUME Inv, UNCHANGED <<cycle, pox, data>>
  PROVE  Inv'
BY DEF Inv, TypeInv, AgreeInv, Agrees

LEMMA AdvanceInv ==
  ASSUME Inv, AdvancePhase
  PROVE  Inv'
<1>1. cycle' \in Nat /\ cycle <= cycle' /\ data' = data
  BY DEF Inv, TypeInv, AdvancePhase, members
<1>2. ASSUME NEW p \in Principals
      PROVE  pox'[p] \in PoxEntries /\ Agrees(pox[p], data[p])'
  <2>1. pox'[p] = Unlocked(pox[p], cycle')
    BY DEF AdvancePhase
  <2>2. /\ pox[p] \in PoxEntries /\ data[p] \in UserData
        /\ Agrees(pox[p], data[p])
    BY DEF Inv, TypeInv, AgreeInv
  <2>3. CASE pox[p].unlock <= cycle'
    <3>1. pox'[p] = [pox[p] EXCEPT !.locked = 0, !.first = 0, !.unlock = 0]
      BY <2>1, <2>3 DEF Unlocked
    <3>2. pox'[p] \in PoxEntries
      <4>1. ASSUME NEW e \in PoxEntries
            PROVE  [e EXCEPT !.locked = 0, !.first = 0, !.unlock = 0]
                       \in PoxEntries
        BY DEF PoxEntries
      <4> QED
        BY <2>2, <3>1, <4>1
    <3>3. pox'[p].locked = 0 /\ pox'[p].unlock = 0
      BY <2>2, <3>1 DEF PoxEntries
    <3>4. data[p].until <= cycle'
      BY <1>1, <2>2, <2>3 DEF Agrees, PoxEntries, UserData, Inv, TypeInv
    <3> QED
      BY <1>1, <3>2, <3>3, <3>4 DEF Agrees
  <2>4. CASE ~(pox[p].unlock <= cycle')
    <3>1. pox'[p] = pox[p]
      BY <2>1, <2>4 DEF Unlocked
    <3>2. pox[p].locked > 0
      BY <1>1, <2>2, <2>4 DEF Agrees, PoxEntries
    <3> QED
      BY <1>1, <2>2, <2>4, <3>1, <3>2
      DEF Agrees, PoxEntries, UserData, Inv, TypeInv
  <2> QED
    BY <2>3, <2>4
<1>3. pox' \in [Principals -> PoxEntries]
  <2>1. pox' = [p \in Principals |-> pox'[p]]
    BY DEF AdvancePhase
  <2> QED
    BY <1>2, <2>1
<1> QED
  BY <1>1, <1>2, <1>3 DEF Inv, TypeInv, AgreeInv

\* One principal's entry and record change, and agree afterwards.
LEMMA OneInv ==
  ASSUME Inv, NEW p \in Principals, NEW px \in PoxEntries, NEW ud \in UserData,
         Agrees(px, ud), cycle' = cycle,
         pox' = [pox EXCEPT ![p] = px], data' = [data EXCEPT ![p] = ud]
  PROVE  Inv'
<1>1. TypeInv'
  BY DEF Inv, TypeInv
<1>2. ASSUME NEW q \in Principals
      PROVE  Agrees(pox[q], data[q])'
  <2>1. CASE q = p
    <3>1. pox'[q] = px /\ data'[q] = ud
      BY <2>1 DEF Inv, TypeInv
    <3> QED
      BY <3>1 DEF Agrees
  <2>2. CASE q # p
    <3>1. pox'[q] = pox[q] /\ data'[q] = data[q]
      BY <2>2 DEF Inv, TypeInv
    <3> QED
      BY <3>1 DEF Inv, AgreeInv, Agrees
  <2> QED
    BY <2>1, <2>2
<1> QED
  BY <1>1, <1>2 DEF Inv, AgreeInv

\* What a principal does in PoX without the pool leaves its lock alone.
LEMMA InPoxInv ==
  ASSUME Inv, NEW p \in Principals, NEW entry \in PoxEntries, InPox(p, entry),
         entry.locked = pox[p].locked, entry.first = pox[p].first,
         entry.unlock = pox[p].unlock
  PROVE  Inv'
<1>1. /\ data[p] \in UserData /\ Agrees(pox[p], data[p])
      /\ data \in [Principals -> UserData]
  BY DEF Inv, TypeInv, AgreeInv
<1>2. Agrees(entry, data[p])
  BY <1>1 DEF Agrees
<1>3. /\ cycle' = cycle /\ pox' = [pox EXCEPT ![p] = entry]
      /\ data' = [data EXCEPT ![p] = data[p]]
  BY <1>1 DEF InPox, clock, members
<1> QED
  BY <1>1, <1>2, <1>3, OneInv

\* A record without an end agrees with every entry.
LEMMA ForgottenInv ==
  ASSUME Inv, NEW p \in Principals, NEW ud \in UserData, ud.until = 0,
         cycle' = cycle, pox' = pox, data' = [data EXCEPT ![p] = ud]
  PROVE  Inv'
<1>1. /\ pox[p] \in PoxEntries /\ data[p] \in UserData
      /\ Agrees(pox[p], data[p]) /\ pox \in [Principals -> PoxEntries]
  BY DEF Inv, TypeInv, AgreeInv
<1>2. Agrees(pox[p], ud)
  BY <1>1 DEF Agrees, PoxEntries, Inv, TypeInv
<1>3. pox' = [pox EXCEPT ![p] = pox[p]]
  BY <1>1
<1> QED
  BY <1>1, <1>2, <1>3, OneInv

LEMMA StackerInv ==
  ASSUME Inv, NEW p \in Principals, StackerStep(p)
  PROVE  Inv'
<1>0. /\ pox[p] \in PoxEntries /\ data[p] \in UserData
      /\ Agrees(pox[p], data[p]) /\ cycle \in Nat /\ FirstCycle <= cycle
  BY DEF Inv, TypeInv, AgreeInv
<1>1. ASSUME NEW b \in BOOLEAN, InPox(p, [pox[p] EXCEPT !.allowed = b])
      PROVE  Inv'
  <2>1. [pox[p] EXCEPT !.allowed = b] \in PoxEntries
    BY <1>0 DEF PoxEntries
  <2> QED
    BY <1>0, <1>1, <2>1, InPoxInv DEF PoxEntries
<1>2. ASSUME NEW a \in Nat, InPox(p, [pox[p] EXCEPT !.delegated = a])
      PROVE  Inv'
  <2>1. [pox[p] EXCEPT !.delegated = a] \in PoxEntries
    BY <1>0 DEF PoxEntries
  <2> QED
    BY <1>0, <1>2, <2>1, InPoxInv DEF PoxEntries
<1>3. ASSUME JoinPool(p)
      PROVE  Inv'
  <2>1. Joined \in UserData /\ Joined.until = 0
    BY DEF Joined, NoData, UserData
  <2>2. cycle' = cycle /\ pox' = pox /\ data' = [data EXCEPT ![p] = Joined]
    BY <1>3 DEF JoinPool, clock
  <2> QED
    BY <2>1, <2>2, ForgottenInv
<1>4. ASSUME QuitPool(p)
      PROVE  Inv'
  <2>1. NoData \in UserData /\ NoData.until = 0
    BY DEF NoData, UserData
  <2>2. cycle' = cycle /\ pox' = pox /\ data' = [data EXCEPT ![p] = NoData]
    BY <1>4 DEF QuitPool, clock
  <2> QED
    BY <2>1, <2>2, ForgottenInv
<1>5. ASSUME NEW s,
             s = [px |-> s.px, ud |-> s.ud, deleg |-> s.deleg, lock |-> s.lock],
             s.px \in PoxEntries, s.ud \in UserData, Agrees(s.px, s.ud),
             NEW t \in Locked(s), Record(p, t)
      PROVE  Inv'
  <2>1. t.px \in PoxEntries /\ t.ud \in UserData /\ Agrees(t.px, t.ud)
    BY <1>0, <1>5, LockedAgrees
  <2>2. /\ cycle' = cycle /\ pox' = [pox EXCEPT ![p] = t.px]
        /\ data' = [data EXCEPT ![p] = t.ud]
    BY <1>5 DEF Record, clock
  <2> QED
    BY <2>1, <2>2, OneInv
<1>6. ASSUME NEW amount \in Nat, DelegateStx(p, amount)
      PROVE  Inv'
  <2> DEFINE s == Delegated(Now(p), amount)
  <2>1. PICK t \in Locked(s) : Record(p, t)
    BY <1>6 DEF DelegateStx
  <2>2. /\ s = [px |-> s.px, ud |-> s.ud, deleg |-> s.deleg, lock |-> s.lock]
        /\ s.px \in PoxEntries /\ s.ud \in UserData /\ Agrees(s.px, s.ud)
    BY DelegatedAgrees
  <2> HIDE DEF s
  <2> QED
    BY <1>5, <2>1, <2>2
<1>7. ASSUME DelegateStackStx(p)
      PROVE  Inv'
  <2> DEFINE s == Now(p)
  <2>1. PICK t \in Locked(s) : Record(p, t)
    BY <1>7 DEF DelegateStackStx
  <2>2. /\ s = [px |-> s.px, ud |-> s.ud, deleg |-> s.deleg, lock |-> s.lock]
        /\ s.px \in PoxEntries /\ s.ud \in UserData /\ Agrees(s.px, s.ud)
    BY <1>0 DEF Now
  <2> HIDE DEF s
  <2> QED
    BY <1>5, <2>1, <2>2
<1>8. Amounts \subseteq Nat
  OBVIOUS
<1> QED
  <2>1. CASE AllowPool(p)
    BY <1>1, <2>1 DEF AllowPool
  <2>2. CASE DisallowPool(p)
    BY <1>1, <2>2 DEF DisallowPool
  <2>3. CASE RevokeDelegateStx(p)
    BY <1>2, <2>3 DEF RevokeDelegateStx
  <2>4. ASSUME NEW amount \in Amounts, DelegateInPox(p, amount)
        PROVE  Inv'
    BY <1>2, <1>8, <2>4 DEF DelegateInPox
  <2>5. ASSUME NEW amount \in Amounts, DelegateStx(p, amount)
        PROVE  Inv'
    BY <1>6, <1>8, <2>5
  <2> QED
    BY <1>3, <1>4, <1>7, <2>1, <2>2, <2>3, <2>4, <2>5 DEF StackerStep

LEMMA NextInv == Inv /\ [Next]_poolVars => Inv'
<1> SUFFICES ASSUME Inv, [Next]_poolVars PROVE Inv'
  OBVIOUS
<1>1. CASE AdvancePhase
  BY <1>1, AdvanceInv
<1>2. CASE ProviderStep
  <2>1. UNCHANGED <<clock, pox, members>>
    BY <1>2 DEF ProviderStep, Deposit, Withdraw, ReserveFunds, UnlockExtra,
                OnlyFunds, SetPoolPoxAddress, SetActive, UpdateReturn, Settings
  <2> QED
    BY <2>1, ElsewhereInv DEF clock, members
<1>3. ASSUME NEW p \in Callers, StackerStep(p)
      PROVE  Inv'
  BY <1>3, StackerInv, ProviderAssumption
<1>4. CASE UpdateScBalances
  BY <1>4, ElsewhereInv DEF UpdateScBalances, clock, members
<1>5. ASSUME NEW c \in Cycles, NEW reward \in Rewards,
             RewardDistribution(c, reward) \/ BatchRewardDistribution(c, reward)
      PROVE  Inv'
  BY <1>5, ElsewhereInv DEF RewardDistribution, BatchRewardDistribution, Rewarded,
                            clock, members
<1>6. CASE UNCHANGED poolVars
  BY <1>6, ElsewhereInv DEF poolVars, clock, members
<1> QED
  BY <1>1, <1>2, <1>3, <1>4, <1>5, <1>6 DEF Next

-----------------------------------------------------------------------------
(* Whom the prepare phase counts, for a cycle still to come, is locked in PoX
   with that amount and to that height. *)
THEOREM OnlyLockedCounted == Spec => []CountedIsLocked
<1>1. Inv => CountedIsLocked
  BY AgreementCounts DEF Inv, TypeInv, AgreeInv, CountedIsLocked
<1> QED
  BY <1>1, InitInv, NextInv, PTL DEF Spec

-----------------------------------------------------------------------------
(* What the folds over lists return *)

\* The numbers of a list's entries, and the last of some of them
LEMMA LastOf ==
  ASSUME NEW list \in Seq(Principals)
  PROVE  /\ IsFiniteSet(DOMAIN list)
         /\ \A s \in SUBSET DOMAIN list : s # {} => Max(s) \in s
<1>1. DOMAIN list = 1 .. Len(list) /\ Len(list) \in Nat
  OBVIOUS
<1>2. ASSUME NEW s \in SUBSET DOMAIN list, s # {}
      PROVE  Max(s) \in s
  <2>1. \E x \in s : \A y \in s : x >= y
    BY <1>1, <1>2, Largest
  <2> QED
    BY <2>1 DEF Max
<1>3. IsFiniteSet(1 .. Len(list))
  BY <1>1, FS_Interval
<1> QED
  BY <1>1, <1>2, <1>3

\* Filtering a list of principals leaves one.
KeptOf(list, p, g) ==
    g = [s \in SUBSET DOMAIN list |->
          IF s = {} THEN <<>>
          ELSE IF list[Max(s)] = p THEN g[s \ {Max(s)}]
               ELSE Append(g[s \ {Max(s)}], list[Max(s)])]

LEMMA WithoutType ==
  ASSUME NEW list \in Seq(Principals), NEW p
  PROVE  Without(list, p) \in Seq(Principals)
<1> DEFINE D == DOMAIN list
           R == Seq(Principals)
           last == [s \in SUBSET D |-> Max(s)]
           step == [i \in D |-> [kept \in R |->
                      IF list[i] = p THEN kept ELSE Append(kept, list[i])]]
           g == CHOOSE h : KeptOf(list, p, h)
<1>1. IsFiniteSet(D) /\ \A s \in SUBSET D : s # {} => last[s] \in s
  BY LastOf
<1>2. \A i \in D : list[i] \in Principals
  OBVIOUS
<1>3. step \in [D -> [R -> R]] /\ <<>> \in R
  BY <1>2
<1>4. Without(list, p) = g[D]
  BY DEF Without, FoldLeft, MapThenFoldSet, KeptOf
<1>5. \E h : KeptOf(list, p, h)
  <2>1. PICK h \in [SUBSET D -> R] : Steps(h, D, <<>>, step, last)
    <3> HIDE DEF D, R, last, step
    <3> QED
      BY <1>1, <1>3, StepsExist
  <2>2. ASSUME NEW s \in SUBSET D, s # {}
        PROVE  h[s] = IF list[Max(s)] = p THEN h[s \ {Max(s)}]
                      ELSE Append(h[s \ {Max(s)}], list[Max(s)])
    <3>1. last[s] = Max(s) /\ Max(s) \in D /\ h[s \ {Max(s)}] \in R
      BY <1>1, <2>2
    <3>2. h[s] = step[last[s]][h[s \ {last[s]}]]
      BY <2>1, <2>2 DEF Steps
    <3> QED
      BY <2>1, <3>1, <3>2
  <2>3. h = [s \in SUBSET D |-> h[s]]
    OBVIOUS
  <2>4. KeptOf(list, p, h)
    BY <2>1, <2>2, <2>3 DEF KeptOf, Steps
  <2> QED
    BY <2>4
<1>6. KeptOf(list, p, g)
  BY <1>5
<1> HIDE DEF g
<1>7. g[{}] \in R
  BY <1>3, <1>6 DEF KeptOf
<1>8. ASSUME NEW s \in SUBSET D, s # {}, g[s \ {last[s]}] \in R
      PROVE  g[s] \in R
  <2>1. last[s] = Max(s) /\ Max(s) \in D
    BY <1>1, <1>8
  <2>2. g[s] = IF list[Max(s)] = p THEN g[s \ {Max(s)}]
               ELSE Append(g[s \ {Max(s)}], list[Max(s)])
    BY <1>6, <1>8 DEF KeptOf
  <2> QED
    BY <1>2, <1>8, <2>1, <2>2
<1>9. g[D] \in R
  <2> HIDE DEF D, R, last
  <2> QED
    BY <1>1, <1>7, <1>8, StepsKeep
<1> QED
  BY <1>4, <1>9

\* The sum of what is recorded as locked for some principals
LockedSums(S, g) ==
    g = [s \in SUBSET S |->
          IF s = {} THEN 0
          ELSE LockedOf(CHOOSE x \in s : TRUE) + g[s \ {CHOOSE x \in s : TRUE}]]

LEMMA LockedSumType ==
  ASSUME TypeInv, NEW S \in SUBSET Principals, IsFiniteSet(S)
  PROVE  Sum(LockedOf, S) \in Nat
<1> DEFINE any == [s \in SUBSET S |-> CHOOSE x \in s : TRUE]
           step == [x \in S |-> [sum \in Nat |-> LockedOf(x) + sum]]
           g == CHOOSE h : LockedSums(S, h)
<1>1. \A s \in SUBSET S : s # {} => any[s] \in s
  OBVIOUS
<1>2. \A x \in S : LockedOf(x) \in Nat
  BY DEF TypeInv, UserData, LockedOf
<1>3. step \in [S -> [Nat -> Nat]] /\ 0 \in Nat
  BY <1>2
<1>4. Sum(LockedOf, S) = g[S]
  BY DEF Sum, MapThenSumSet, MapThenFoldSet, LockedSums
<1>5. \E h : LockedSums(S, h)
  <2>1. PICK h \in [SUBSET S -> Nat] : Steps(h, S, 0, step, any)
    <3> HIDE DEF any, step
    <3> QED
      BY <1>1, <1>3, StepsExist
  <2>2. ASSUME NEW s \in SUBSET S, s # {}
        PROVE  h[s] = LockedOf(any[s]) + h[s \ {any[s]}]
    <3>1. any[s] \in S /\ h[s \ {any[s]}] \in Nat
      BY <1>1, <2>2
    <3>2. h[s] = step[any[s]][h[s \ {any[s]}]]
      BY <2>1, <2>2 DEF Steps
    <3> QED
      BY <3>1, <3>2
  <2>3. h = [s \in SUBSET S |-> h[s]] /\ h[{}] = 0
    BY <2>1 DEF Steps
  <2>4. LockedSums(S, h)
    BY <2>2, <2>3 DEF LockedSums
  <2> QED
    BY <2>4
<1>6. LockedSums(S, g)
  BY <1>5
<1> HIDE DEF g
<1>7. g[{}] \in Nat
  BY <1>3, <1>6 DEF LockedSums
<1>8. ASSUME NEW s \in SUBSET S, s # {}, g[s \ {any[s]}] \in Nat
      PROVE  g[s] \in Nat
  <2>1. any[s] \in S /\ g[s] = LockedOf(any[s]) + g[s \ {any[s]}]
    BY <1>1, <1>6, <1>8 DEF LockedSums
  <2> QED
    BY <1>2, <1>8, <2>1
<1>9. g[S] \in Nat
  <2> HIDE DEF any
  <2> QED
    BY <1>1, <1>7, <1>8, StepsKeep
<1> QED
  BY <1>4, <1>9

\* Books with so much more in all than the balance
Books(more) ==
    {b \in [balance : Int, owned : Int, reserved : Nat] :
        b.owned + b.reserved = b.balance + more}

LEMMA PaidOneBooks ==
  ASSUME NEW more \in Int, NEW b \in Books(more), NEW amount
  PROVE  PaidOne(b, amount) \in Books(more)
<1>1. /\ b \in [balance : Int, owned : Int, reserved : Nat]
      /\ b.owned + b.reserved = b.balance + more
  BY DEF Books
<1>2. CASE amount \in 1 .. b.balance
  <2>1. amount \in Int /\ amount >= 0
    BY <1>1, <1>2
  <2>2. ASSUME NEW ow \in Int, NEW re \in Nat, ow + re = b.owned + b.reserved - amount,
               PaidOne(b, amount) = [balance |-> b.balance - amount,
                                     owned |-> ow, reserved |-> re]
        PROVE  PaidOne(b, amount) \in Books(more)
    <3>1. b.balance - amount \in Int /\ ow + re = (b.balance - amount) + more
      BY <1>1, <2>1, <2>2
    <3> QED
      BY <2>2, <3>1 DEF Books
  <2>3. CASE amount <= b.reserved
    <3>1. PaidOne(b, amount) = [balance |-> b.balance - amount, owned |-> b.owned,
                                reserved |-> b.reserved - amount]
      BY <1>1, <1>2, <2>3 DEF PaidOne, PayOne
    <3>2. /\ b.reserved - amount \in Nat
          /\ b.owned + (b.reserved - amount) = b.owned + b.reserved - amount
      BY <1>1, <2>1, <2>3
    <3> QED
      BY <1>1, <2>2, <3>1, <3>2
  <2>4. CASE ~(amount <= b.reserved)
    <3>1. PaidOne(b, amount) = [balance |-> b.balance - amount,
                                owned |-> b.owned - amount, reserved |-> b.reserved]
      BY <1>1, <1>2, <2>4 DEF PaidOne, PayOne
    <3>2. /\ b.owned - amount \in Int
          /\ (b.owned - amount) + b.reserved = b.owned + b.reserved - amount
      BY <1>1, <2>1
    <3> QED
      BY <1>1, <2>2, <3>1, <3>2
  <2> QED
    BY <2>3, <2>4
<1>3. CASE ~(amount \in 1 .. b.balance)
  BY <1>3 DEF PaidOne
<1> QED
  BY <1>2, <1>3

\* The transfers for a block leave the difference as it is.
PaidOf(c, reward, base, g) ==
    g = [s \in SUBSET DOMAIN lists[c] |->
          IF s = {} THEN base
          ELSE PaidOne(g[s \ {Max(s)}], Share(weights[c][lists[c][Max(s)]], reward))]

LEMMA BooksAfterType ==
  ASSUME NEW c, NEW reward, lists[c] \in Seq(Principals), NEW more \in Int,
         [balance |-> balance - Fee(reward), owned |-> owned,
          reserved |-> reserved] \in Books(more)
  PROVE  BooksAfter(c, reward) \in Books(more)
<1> DEFINE D == DOMAIN lists[c]
           R == Books(more)
           base == [balance |-> balance - Fee(reward), owned |-> owned,
                    reserved |-> reserved]
           last == [s \in SUBSET D |-> Max(s)]
           share == [i \in D |-> Share(weights[c][lists[c][i]], reward)]
           step == [i \in D |-> [b \in R |-> PaidOne(b, share[i])]]
           g == CHOOSE h : PaidOf(c, reward, base, h)
<1>1. IsFiniteSet(D) /\ \A s \in SUBSET D : s # {} => last[s] \in s
  BY LastOf
<1>2. \A b \in R : \A amount : PaidOne(b, amount) \in R
  BY PaidOneBooks
<1>3. step \in [D -> [R -> R]] /\ base \in R
  BY <1>2
<1>4. BooksAfter(c, reward) = g[D]
  BY DEF BooksAfter, FoldLeft, MapThenFoldSet, PaidOf
<1>5. \E h : PaidOf(c, reward, base, h)
  <2>1. PICK h \in [SUBSET D -> R] : Steps(h, D, base, step, last)
    <3> HIDE DEF D, R, base, last, step
    <3> QED
      BY <1>1, <1>3, StepsExist
  <2> HIDE DEF base
  <2>2. ASSUME NEW s \in SUBSET D, s # {}
        PROVE  h[s] = PaidOne(h[s \ {Max(s)}],
                              Share(weights[c][lists[c][Max(s)]], reward))
    <3>1. last[s] = Max(s) /\ Max(s) \in D /\ h[s \ {Max(s)}] \in R
      BY <1>1, <2>2
    <3>2. h[s] = step[last[s]][h[s \ {last[s]}]]
      BY <2>1, <2>2 DEF Steps
    <3>3. share[Max(s)] = Share(weights[c][lists[c][Max(s)]], reward)
      BY <3>1
    <3> HIDE DEF R, share
    <3> QED
      BY <3>1, <3>2, <3>3
  <2>3. h = [s \in SUBSET D |-> h[s]] /\ h[{}] = base
    BY <2>1 DEF Steps
  <2>4. PaidOf(c, reward, base, h)
    BY <2>2, <2>3 DEF PaidOf
  <2> QED
    BY <2>4
<1>6. PaidOf(c, reward, base, g)
  BY <1>5
<1> HIDE DEF g, base, R
<1>7. g[{}] \in R
  BY <1>3, <1>6 DEF PaidOf
<1>8. ASSUME NEW s \in SUBSET D, s # {}, g[s \ {last[s]}] \in R
      PROVE  g[s] \in R
  <2>1. last[s] = Max(s)
    BY <1>8
  <2>2. g[s] = PaidOne(g[s \ {Max(s)}],
                       Share(weights[c][lists[c][Max(s)]], reward))
    BY <1>6, <1>8 DEF PaidOf
  <2> QED
    BY <1>2, <1>8, <2>1, <2>2
<1>9. g[D] \in R
  <2> HIDE DEF D, last
  <2> QED
    BY <1>1, <1>7, <1>8, StepsKeep
<1> QED
  BY <1>4, <1>9 DEF R

-----------------------------------------------------------------------------
(* The cycles that are settled *)

SettledInv ==
    /\ DOMAIN weights = Cycles /\ DOMAIN lists = Cycles
    /\ updated \subseteq Cycles

Settled == \A c \in updated : weights'[c] = weights[c] /\ lists'[c] = lists[c]

\* Only update-sc-balances writes the lists and the weights of a cycle.
LEMMA OnlyUpdateSettles ==
  ASSUME [Next]_poolVars, ~UpdateScBalances
  PROVE  UNCHANGED cycles
<1>1. CASE AdvancePhase
  BY <1>1 DEF AdvancePhase
<1>2. CASE ProviderStep
  BY <1>2 DEF ProviderStep, Deposit, Withdraw, ReserveFunds, UnlockExtra,
              OnlyFunds, SetPoolPoxAddress, SetActive, UpdateReturn, Settings
<1>3. ASSUME NEW p \in Callers, StackerStep(p)
      PROVE  UNCHANGED cycles
  BY <1>3 DEF StackerStep, AllowPool, DisallowPool, RevokeDelegateStx, InPox,
              JoinPool, QuitPool, DelegateInPox, DelegateStx, DelegateStackStx,
              Record
<1>4. ASSUME NEW c \in Cycles, NEW reward \in Rewards,
             RewardDistribution(c, reward) \/ BatchRewardDistribution(c, reward)
      PROVE  UNCHANGED cycles
  BY <1>4 DEF RewardDistribution, BatchRewardDistribution, Rewarded
<1>5. CASE UNCHANGED poolVars
  BY <1>5 DEF poolVars
<1> QED
  BY <1>1, <1>2, <1>3, <1>4, <1>5 DEF Next

LEMMA SettledStep ==
  ASSUME Inv, SettledInv, [Next]_poolVars
  PROVE  SettledInv' /\ Settled
<1>1. CASE UpdateScBalances
  <2>1. cycle + 1 \in Cycles /\ cycle + 1 \notin updated
    BY <1>1 DEF UpdateScBalances, MayUpdate, Inv, TypeInv, Cycles
  <2>2. updated' = updated \cup {cycle + 1}
    BY <1>1 DEF UpdateScBalances
  <2>3. PICK l, w : /\ lists' = [lists EXCEPT ![cycle + 1] = l]
                    /\ weights' = [weights EXCEPT ![cycle + 1] = w]
    BY <1>1, Zenon DEF UpdateScBalances
  <2>4. SettledInv'
    BY <2>1, <2>2, <2>3 DEF SettledInv, Cycles
  <2>5. Settled
    BY <2>1, <2>3 DEF SettledInv, Settled
  <2> QED
    BY <2>4, <2>5
<1>2. CASE ~UpdateScBalances
  BY <1>2, OnlyUpdateSettles DEF cycles, SettledInv, Settled, Cycles
<1> QED
  BY <1>1, <1>2

(* The list and the weights of a cycle, once computed, stay as they are: what
   its rewards are divided by is settled before it starts. *)
THEOREM WeightsStaySettled == Spec => WeightsSettled
<1>1. Init => SettledInv
  BY DEF Init, SettledInv
<1>2. Inv /\ SettledInv /\ [Next]_poolVars => SettledInv'
  BY SettledStep
<1>3. Inv /\ SettledInv /\ [Next]_poolVars => [Settled]_poolVars
  BY SettledStep
<1>4. [][Settled]_poolVars => WeightsSettled
  BY DEF Settled, WeightsSettled
<1> QED
  BY <1>1, <1>2, <1>3, <1>4, InitInv, NextInv, PTL DEF Spec

-----------------------------------------------------------------------------
(* The funds *)

FundsTypes ==
    /\ {balance, total, fees, paidOut} \subseteq Int
    /\ {owned, reserved, returnDiv, scLocked} \subseteq Nat
    /\ stackers \in Seq(Principals)
    /\ lists \in [Cycles -> Seq(Principals)]

FundsInv ==
    /\ FundsTypes
    /\ balance + fees = owned + reserved
    /\ total = owned + reserved + paidOut

LEMMA InitFunds == Init => FundsInv
<1> SUFFICES ASSUME Init PROVE FundsInv
  OBVIOUS
<1>1. FundsTypes
  <2>1. returnDiv \in Nat /\ {balance, total, fees, paidOut} \subseteq Int
    BY DEF Init
  <2>2. {owned, reserved, returnDiv, scLocked} \subseteq Nat
    BY <2>1 DEF Init
  <2>3. stackers \in Seq(Principals)
    BY ProviderAssumption DEF Init
  <2>4. lists \in [Cycles -> Seq(Principals)]
    BY DEF Init
  <2> QED
    BY <2>1, <2>2, <2>3, <2>4 DEF FundsTypes
<1> QED
  BY <1>1 DEF Init, FundsInv

\* Calls that move no funds
LEMMA NoFundsMoved ==
  ASSUME FundsInv, UNCHANGED funds, {returnDiv, scLocked}' \subseteq Nat,
         stackers' \in Seq(Principals), (lists \in [Cycles -> Seq(Principals)])'
  PROVE  FundsInv'
BY DEF FundsInv, FundsTypes, funds

\* The provider's calls, and the rewards', move funds and nothing else that counts.
LEMMA FundsMoved ==
  ASSUME FundsInv, UNCHANGED <<returnDiv, scLocked, stackers, lists>>,
         balance' \in Int, fees' \in Int, owned' \in Nat, reserved' \in Nat,
         balance' + fees' = owned' + reserved',
         paidOut' \in Int, total' \in Int, total' = owned' + reserved' + paidOut'
  PROVE  FundsInv'
BY DEF FundsInv, FundsTypes

LEMMA ProviderFunds ==
  ASSUME FundsInv, ProviderStep
  PROVE  FundsInv'
<1>1. /\ balance \in Int /\ total \in Int /\ fees \in Int /\ paidOut \in Int
      /\ owned \in Nat /\ reserved \in Nat /\ returnDiv \in Nat /\ scLocked \in Nat
      /\ balance + fees = owned + reserved
      /\ total = owned + reserved + paidOut
  BY DEF FundsInv, FundsTypes
<1>2. OnlyFunds => UNCHANGED <<returnDiv, scLocked, stackers, lists, fees, paidOut>>
  BY DEF OnlyFunds, settings, members, sums, cycles
<1>3. Deposits \subseteq Nat
  OBVIOUS
<1>4. ASSUME NEW amount \in Deposits, Deposit(amount)
      PROVE  FundsInv'
  <2>1. /\ total' = total + amount /\ owned' = owned + amount
        /\ balance' = balance + amount /\ reserved' = reserved
        /\ UNCHANGED <<returnDiv, scLocked, stackers, lists, fees, paidOut>>
    BY <1>2, <1>4 DEF Deposit
  <2> QED
    BY <1>1, <1>3, <2>1, FundsMoved
<1>5. ASSUME NEW amount \in Deposits, Withdraw(amount)
      PROVE  FundsInv'
  <2>1. /\ total' = total - amount /\ owned' = owned - amount /\ amount <= owned
        /\ balance' = balance - amount /\ reserved' = reserved
        /\ UNCHANGED <<returnDiv, scLocked, stackers, lists, fees, paidOut>>
    BY <1>2, <1>5 DEF Withdraw
  <2> QED
    BY <1>1, <1>3, <2>1, FundsMoved
<1>6. ASSUME NEW amount \in Deposits, ReserveFunds(amount)
      PROVE  FundsInv'
  <2>1. /\ total' = total /\ owned' = owned - amount /\ amount <= owned
        /\ balance' = balance /\ reserved' = reserved + amount
        /\ UNCHANGED <<returnDiv, scLocked, stackers, lists, fees, paidOut>>
    BY <1>2, <1>6 DEF ReserveFunds
  <2> QED
    BY <1>1, <1>3, <2>1, FundsMoved
<1>7. ASSUME UnlockExtra
      PROVE  FundsInv'
  <2>1. PICK kept : kept = scLocked \div returnDiv
    OBVIOUS
  <2>2. returnDiv # 0 /\ kept \in Nat
    BY <1>1, <1>7, <2>1 DEF UnlockExtra
  <2>3. /\ total' = total /\ owned' = owned + (reserved - kept)
        /\ reserved - kept >= 0
        /\ balance' = balance /\ reserved' = reserved - (reserved - kept)
        /\ UNCHANGED <<returnDiv, scLocked, stackers, lists, fees, paidOut>>
    BY <1>2, <1>7, <2>1 DEF UnlockExtra, ExtraReserved
  <2> QED
    BY <1>1, <2>2, <2>3, FundsMoved
<1>8. ASSUME Settings, returnDiv' \in Nat
      PROVE  FundsInv'
  <2>1. UNCHANGED <<funds, scLocked, stackers, lists>>
    BY <1>8 DEF Settings, members, sums, cycles
  <2> QED
    BY <1>1, <1>8, <2>1, NoFundsMoved DEF FundsInv, FundsTypes
<1>9. ASSUME NEW address \in Addresses, SetPoolPoxAddress(address)
      PROVE  FundsInv'
  BY <1>1, <1>8, <1>9 DEF SetPoolPoxAddress
<1>10. ASSUME NEW isActive \in BOOLEAN, SetActive(isActive)
       PROVE  FundsInv'
  BY <1>1, <1>8, <1>10 DEF SetActive
<1>11. ASSUME NEW value \in Returns, UpdateReturn(value)
       PROVE  FundsInv'
  BY <1>8, <1>11 DEF UpdateReturn
<1> QED
  BY <1>4, <1>5, <1>6, <1>7, <1>9, <1>10, <1>11 DEF ProviderStep

\* Locking adds to the sum of what is locked.
LEMMA LockedSum ==
  ASSUME NEW s, s.px \in PoxEntries, s.ud \in UserData, s.lock \in Nat,
         s = [px |-> s.px, ud |-> s.ud, deleg |-> s.deleg, lock |-> s.lock],
         NEW t \in Locked(s)
  PROVE  t.lock \in Nat
<1>1. CASE LocksFirst(s)
  <2>1. t = LockedFirst(s)
    BY <1>1 DEF Locked
  <2>2. AmountToLock(s) \in Nat
    BY <1>1 DEF LocksFirst, AmountToLock, PoxEntries
  <2>3. t.lock = s.lock + AmountToLock(s)
    BY <2>1 DEF LockedFirst
  <2> QED
    BY <2>2, <2>3
<1>2. CASE ~LocksFirst(s)
  <2>1. \/ t = Extended(s)
        \/ Increases(Extended(s)) /\ t = Increased(Extended(s))
    BY <1>2 DEF Locked
  <2> DEFINE u == Extended(s)
  <2>2. u.lock = s.lock /\ u.px.delegated = s.px.delegated
    BY DEF Extended, PoxEntries
  <2>3. CASE Increases(u) /\ t = Increased(u)
    <3>1. AmountToLock(u) \in Int
      BY <2>2 DEF AmountToLock, PoxEntries
    <3>2. PICK locked : locked = u.px.locked + Increase(u)
      OBVIOUS
    <3>3. locked \in Int
      <4>1. u.px.locked = s.px.locked /\ u.ud.locked = s.ud.locked
        BY DEF Extended, PoxEntries, UserData
      <4>2. u.px.locked \in Nat /\ u.ud.locked \in Nat
        BY <4>1 DEF PoxEntries, UserData
      <4> HIDE DEF u
      <4> QED
        BY <3>1, <3>2, <4>2 DEF Increase
    <3>4. t.lock = u.lock + AmountToLock(u) - locked /\ locked <= AmountToLock(u)
      <4> HIDE DEF u
      <4> QED
        BY <2>2, <2>3, <3>2 DEF Increased, Increases
    <3> HIDE DEF u
    <3> QED
      BY <2>2, <3>1, <3>3, <3>4
  <2> QED
    BY <2>1, <2>2, <2>3
<1> QED
  BY <1>1, <1>2

LEMMA StackerFunds ==
  ASSUME Inv, FundsInv, NEW p \in Principals, StackerStep(p)
  PROVE  FundsInv'
<1>1. /\ returnDiv \in Nat /\ scLocked \in Nat /\ stackers \in Seq(Principals)
      /\ lists \in [Cycles -> Seq(Principals)]
      /\ pox[p] \in PoxEntries /\ data[p] \in UserData
  BY DEF FundsInv, FundsTypes, Inv, TypeInv
<1>2. ASSUME NEW entry, InPox(p, entry)
      PROVE  FundsInv'
  <2>1. UNCHANGED <<funds, returnDiv, scLocked, stackers, lists>>
    BY <1>2 DEF InPox, settings, members, sums, cycles
  <2> QED
    BY <1>1, <2>1, NoFundsMoved
<1>3. ASSUME UNCHANGED <<funds, settings, sums, cycles>>, stackers' \in Seq(Principals)
      PROVE  FundsInv'
  <2>1. UNCHANGED <<funds, returnDiv, scLocked, lists>>
    BY <1>3 DEF settings, sums, cycles
  <2> QED
    BY <1>1, <1>3, <2>1, NoFundsMoved
<1>4. ASSUME JoinPool(p)
      PROVE  FundsInv'
  <2>1. Append(stackers, p) \in Seq(Principals)
    BY <1>1
  <2> QED
    BY <1>3, <1>4, <2>1 DEF JoinPool
<1>5. ASSUME QuitPool(p)
      PROVE  FundsInv'
  <2>1. Without(stackers, p) \in Seq(Principals)
    BY <1>1, WithoutType
  <2> QED
    BY <1>3, <1>5, <2>1 DEF QuitPool
<1>6. ASSUME NEW s, s.px \in PoxEntries, s.ud \in UserData, s.lock = scLocked,
             s = [px |-> s.px, ud |-> s.ud, deleg |-> s.deleg, lock |-> s.lock],
             NEW t \in Locked(s), Record(p, t)
      PROVE  FundsInv'
  <2>1. t.lock \in Nat
    BY <1>1, <1>6, LockedSum
  <2>2. UNCHANGED <<funds, returnDiv, stackers, lists>> /\ scLocked' = t.lock
    BY <1>6 DEF Record, settings, cycles
  <2> QED
    BY <1>1, <2>1, <2>2, NoFundsMoved
<1>7. ASSUME NEW amount \in Nat, DelegateStx(p, amount)
      PROVE  FundsInv'
  <2> DEFINE s == Delegated(Now(p), amount)
  <2>1. PICK t \in Locked(s) : Record(p, t)
    BY <1>7 DEF DelegateStx
  <2>2. /\ s = [px |-> s.px, ud |-> s.ud, deleg |-> s.deleg, lock |-> s.lock]
        /\ s.px \in PoxEntries /\ s.ud \in UserData
    BY DelegatedAgrees
  <2>3. s.lock = scLocked
    BY DEF Delegated, Now
  <2> HIDE DEF s
  <2> QED
    BY <1>6, <2>1, <2>2, <2>3
<1>8. ASSUME DelegateStackStx(p)
      PROVE  FundsInv'
  <2> DEFINE s == Now(p)
  <2>1. PICK t \in Locked(s) : Record(p, t)
    BY <1>8 DEF DelegateStackStx
  <2>2. /\ s = [px |-> s.px, ud |-> s.ud, deleg |-> s.deleg, lock |-> s.lock]
        /\ s.px \in PoxEntries /\ s.ud \in UserData /\ s.lock = scLocked
    BY <1>1 DEF Now
  <2> HIDE DEF s
  <2> QED
    BY <1>6, <2>1, <2>2
<1>9. Amounts \subseteq Nat
  OBVIOUS
<1> QED
  <2>1. CASE AllowPool(p) \/ DisallowPool(p) \/ RevokeDelegateStx(p)
    BY <1>2, <2>1 DEF AllowPool, DisallowPool, RevokeDelegateStx
  <2>2. ASSUME NEW amount \in Amounts, DelegateInPox(p, amount)
        PROVE  FundsInv'
    BY <1>2, <2>2 DEF DelegateInPox
  <2>3. ASSUME NEW amount \in Amounts, DelegateStx(p, amount)
        PROVE  FundsInv'
    BY <1>7, <1>9, <2>3
  <2> QED
    BY <1>4, <1>5, <1>8, <2>1, <2>2, <2>3 DEF StackerStep

LEMMA UpdateFunds ==
  ASSUME Inv, FundsInv, UpdateScBalances
  PROVE  FundsInv'
<1>1. /\ returnDiv \in Nat /\ stackers \in Seq(Principals)
      /\ lists \in [Cycles -> Seq(Principals)]
  BY DEF FundsInv, FundsTypes
<1>2. scLocked' \in Nat
  <2>1. Counted \subseteq Principals /\ IsFiniteSet(Counted)
    <3>1. Counted \subseteq {stackers[i] : i \in 1 .. Len(stackers)} /\ Len(stackers) \in Nat
      BY <1>1 DEF Counted, Range
    <3>2. IsFiniteSet(1 .. Len(stackers))
      BY <3>1, FS_Interval
    <3>3. IsFiniteSet({stackers[i] : i \in 1 .. Len(stackers)})
      <4> DEFINE entries == {stackers[i] : i \in 1 .. Len(stackers)}
                 at == [i \in 1 .. Len(stackers) |-> stackers[i]]
      <4>1. at \in Surjection(1 .. Len(stackers), entries)
        BY DEF Surjection
      <4> HIDE DEF entries, at
      <4>2. IsFiniteSet(entries)
        BY <3>2, <4>1, FS_Surjection
      <4> QED
        BY <4>2 DEF entries
    <3>4. {stackers[i] : i \in 1 .. Len(stackers)} \subseteq Principals
      BY <1>1
    <3> QED
      BY <3>1, <3>3, <3>4, FS_Subset
  <2>2. Sum(LockedOf, Counted) \in Nat
    BY <2>1, LockedSumType DEF Inv
  <2> QED
    BY <2>2 DEF UpdateScBalances
<1>3. UNCHANGED <<funds, returnDiv, stackers>>
  BY DEF UpdateScBalances, settings, members
<1>4. (lists \in [Cycles -> Seq(Principals)])'
  <2>1. lists' = [lists EXCEPT ![cycle + 1] = stackers]
    BY DEF UpdateScBalances
  <2> QED
    BY <1>1, <2>1 DEF Cycles
<1> QED
  BY <1>1, <1>2, <1>3, <1>4, NoFundsMoved

LEMMA PaidFunds ==
  ASSUME FundsInv, NEW c \in Cycles, NEW reward \in Rewards, PayRewards(c, reward),
         UNCHANGED <<returnDiv, scLocked, stackers, lists>>
  PROVE  FundsInv'
<1>1. /\ balance \in Int /\ total \in Int /\ fees \in Int /\ paidOut \in Int
      /\ owned \in Nat /\ reserved \in Nat
      /\ balance + fees = owned + reserved
      /\ total = owned + reserved + paidOut
      /\ lists[c] \in Seq(Principals)
  BY DEF FundsInv, FundsTypes
<1>2. PICK fee \in Int : fee = Fee(reward)
  BY DEF Fee
<1>3. PICK books : books = BooksAfter(c, reward)
  OBVIOUS
<1>4. books \in Books(fees + fee)
  <2> DEFINE base == [balance |-> balance - Fee(reward), owned |-> owned,
                      reserved |-> reserved]
  <2>1. balance - fee \in Int /\ owned + reserved = (balance - fee) + (fees + fee)
    BY <1>1
  <2>2. base \in Books(fees + fee)
    BY <1>1, <1>2, <2>1 DEF Books
  <2>3. fees + fee \in Int
    BY <1>1
  <2> HIDE DEF base
  <2> QED
    BY <1>1, <1>3, <2>2, <2>3, BooksAfterType DEF base
<1>5. PICK left \in Int, ow \in Int, re \in Nat :
        /\ books.balance = left /\ books.owned = ow /\ books.reserved = re
        /\ ow + re = left + (fees + fee)
  BY <1>4 DEF Books
<1>6. /\ ow >= 0 /\ balance' = left /\ owned' = ow
      /\ reserved' = re /\ fees' = fees + fee
      /\ paidOut' = paidOut + balance - fee - left /\ total' = total
  BY <1>2, <1>3, <1>5 DEF PayRewards
<1>7. /\ balance' \in Int /\ fees' \in Int /\ owned' \in Nat /\ reserved' \in Nat
      /\ balance' + fees' = owned' + reserved'
      /\ paidOut' \in Int /\ total' \in Int /\ total' = owned' + reserved' + paidOut'
  BY <1>1, <1>5, <1>6
<1> QED
  BY <1>7, FundsMoved

LEMMA NextFunds == Inv /\ FundsInv /\ [Next]_poolVars => FundsInv'
<1> SUFFICES ASSUME Inv, FundsInv, [Next]_poolVars PROVE FundsInv'
  OBVIOUS
<1>0. ASSUME UNCHANGED <<funds, settings, sums, members, cycles>>
      PROVE  FundsInv'
  <2>1. UNCHANGED <<funds, returnDiv, scLocked, stackers, lists>>
    BY <1>0 DEF settings, sums, members, cycles
  <2> QED
    BY <2>1, NoFundsMoved DEF FundsInv, FundsTypes
<1>1. CASE AdvancePhase
  BY <1>0, <1>1 DEF AdvancePhase
<1>2. CASE ProviderStep
  BY <1>2, ProviderFunds
<1>3. ASSUME NEW p \in Callers, StackerStep(p)
      PROVE  FundsInv'
  BY <1>3, StackerFunds, ProviderAssumption
<1>4. CASE UpdateScBalances
  BY <1>4, UpdateFunds
<1>5. ASSUME NEW c \in Cycles, NEW reward \in Rewards,
             RewardDistribution(c, reward) \/ BatchRewardDistribution(c, reward)
      PROVE  FundsInv'
  <2>1. UNCHANGED <<settings, sums, members, cycles>>
    BY <1>5 DEF RewardDistribution, BatchRewardDistribution, Rewarded
  <2>2. UNCHANGED <<returnDiv, scLocked, stackers, lists>>
    BY <2>1 DEF settings, sums, members, cycles
  <2>3. PayRewards(c, reward) \/ UNCHANGED funds
    BY <1>5 DEF RewardDistribution, BatchRewardDistribution
  <2> QED
    BY <1>0, <2>1, <2>2, <2>3, PaidFunds
<1>6. CASE UNCHANGED poolVars
  BY <1>0, <1>6 DEF poolVars
<1> QED
  BY <1>1, <1>2, <1>3, <1>4, <1>5, <1>6 DEF Next

(* The contract's STX are where its books say, whatever is deposited, locked,
   unlocked and paid, and neither of its balances goes below 0. *)
THEOREM FundsStayAccounted == Spec => []FundsAccounted
<1>1. FundsInv => FundsAccounted
  BY DEF FundsInv, FundsTypes, FundsAccounted
<1> QED
  BY <1>1, InitInv, NextInv, InitFunds, NextFunds, PTL DEF Spec

=============================================================================
