-------------------------- MODULE SwapClientProofs --------------------------
(***************************************************************************)
(* When pages of the bridge disclose the secret of an inbound swap, for any  *)
(* number of pages, of puts under way and of faults.                        *)
(***************************************************************************)
EXTENDS SwapClient, SequenceTheorems, TLAPS

TxStatuses == {"pending", "success", "failed"}

\* A record names transactions that were sent, and a finalization only after
\* the escrow that succeeded.
Well(swap) ==
    /\ swap \in Records
    /\ swap.escrow \in 0 .. Len(escrows)
    /\ swap.escrow > 0 => swap.btc
    /\ swap.final > 0 => swap.escrow > 0 /\ escrows[swap.escrow] = "success"

\* What a page waits for is of the kind of its step: a page that opened
\* anew waits for nothing, and only an escrow that succeeded is finalized.
Waits(swap, ids) ==
    \/ ids = {}
    \/ /\ swap # Closed
       /\ \/ Step(swap) = 3 /\ ids \subseteq 1 .. Len(escrows)
          \/ /\ Step(swap) = 4 /\ ids \subseteq Nat \ {0}
             /\ escrows[swap.escrow] = "success"

PageInv(t) ==
    /\ copy[t] # Closed => Well(copy[t])
    /\ Waits(copy[t], answers[t])
    /\ t \in recovering => copy[t] # Closed

StorageInv == Well(gaia) /\ \A i \in DOMAIN puts : Well(puts[i])

ChainInv ==
    /\ escrows \in Seq(TxStatuses) /\ finals \in Seq(TxStatuses)
    /\ finals # <<>> => Succeeded(escrows)

TypeInv ==
    /\ copy \in [Pages -> Records \cup {Closed}] /\ puts \in Seq(Records)
    /\ answers \in [Pages -> SUBSET Nat]

Inv == TypeInv /\ ChainInv /\ StorageInv /\ \A t \in Pages : PageInv(t)

USE ClientAssumption, ClosedAssumption

LEMMA InvSecret == Inv => SecretKeptUntilEscrowed
<1> SUFFICES ASSUME Inv PROVE SecretKeptUntilEscrowed
  OBVIOUS
<1>1. \A swap \in Copies : Well(swap)
  BY DEF Inv, StorageInv, PageInv, Copies
<1> QED
  BY <1>1 DEF Inv, ChainInv, Well, SecretKeptUntilEscrowed

-----------------------------------------------------------------------------
(* Records stay well while escrows are sent and mined. *)

EscrowsGrow ==
    /\ escrows' \in Seq(TxStatuses) /\ Len(escrows) <= Len(escrows')
    /\ \A i \in DOMAIN escrows : escrows[i] = "success" => escrows'[i] = "success"

LEMMA WellKept ==
  ASSUME escrows \in Seq(TxStatuses), EscrowsGrow, NEW swap, Well(swap)
  PROVE  /\ swap \in Records /\ swap.escrow \in 0 .. Len(escrows')
         /\ swap.escrow > 0 => swap.btc
         /\ swap.final > 0 => swap.escrow > 0 /\ escrows'[swap.escrow] = "success"
BY DEF EscrowsGrow, Well, Records

LEMMA GrowInv ==
  ASSUME Inv, EscrowsGrow, finals' \in Seq(TxStatuses),
         finals' # <<>> => Succeeded(escrows)',
         UNCHANGED <<gaia, copy, puts, answers, recovering>>
  PROVE  Inv'
<1>0. escrows \in Seq(TxStatuses)
  BY DEF Inv, ChainInv
<1>1. \A swap : Well(swap) => Well(swap)'
  BY <1>0, WellKept DEF Well
<1>2. TypeInv' /\ ChainInv'
  BY DEF Inv, TypeInv, ChainInv, EscrowsGrow
<1>3. StorageInv'
  BY <1>1 DEF Inv, StorageInv, Well
<1>4. ASSUME NEW t \in Pages
      PROVE  PageInv(t)'
  <2>1. copy[t] # Closed => Well(copy[t])'
    BY <1>1 DEF Inv, PageInv, Well
  <2>2. Waits(copy[t], answers[t])'
    BY <1>0 DEF Inv, PageInv, Waits, EscrowsGrow, Well, Records, Step
  <2> QED
    BY <2>1, <2>2 DEF Inv, PageInv
<1> QED
  BY <1>2, <1>3, <1>4 DEF Inv

\* One page changes, and storage gets records that are well.
LEMMA PageStep ==
  ASSUME Inv, NEW t \in Pages, NEW c, c = Closed \/ Well(c),
         NEW ids \in SUBSET Nat, Waits(c, ids),
         copy' = [copy EXCEPT ![t] = c], answers' = [answers EXCEPT ![t] = ids],
         recovering' \subseteq recovering \cup {t}, t \in recovering' => c # Closed,
         puts' \in Seq(Records), \A i \in DOMAIN puts' : Well(puts'[i]),
         UNCHANGED <<escrows, finals, gaia>>
  PROVE  Inv'
<1>1. /\ copy'[t] = c /\ answers'[t] = ids
      /\ \A u \in Pages \ {t} : copy'[u] = copy[u] /\ answers'[u] = answers[u]
  BY DEF Inv, TypeInv
<1>2. TypeInv'
  <2>1. c \in Records \cup {Closed}
    BY DEF Well
  <2> QED
    BY <2>1 DEF Inv, TypeInv
<1>3. ChainInv' /\ StorageInv'
  BY DEF Inv, ChainInv, StorageInv, Succeeded, Well
<1>4. PageInv(t)'
  BY <1>1 DEF PageInv, Waits, Well
<1>5. ASSUME NEW u \in Pages \ {t}
      PROVE  PageInv(u)'
  BY <1>1 DEF Inv, PageInv, Waits, Well
<1> QED
  BY <1>2, <1>3, <1>4, <1>5 DEF Inv

LEMMA UpdateInv ==
  ASSUME Inv, NEW t \in Pages, NEW swap, Well(swap), UpdateSwap(t, swap),
         NEW ids \in SUBSET Nat, Waits(swap, ids),
         answers' = [answers EXCEPT ![t] = ids], recovering' \subseteq recovering,
         UNCHANGED <<escrows, finals, gaia>>
  PROVE  Inv'
<1>1. puts \in Seq(Records) /\ swap \in Records /\ puts' = Append(puts, swap)
  BY DEF Inv, TypeInv, Well, UpdateSwap
<1>2. /\ puts' \in Seq(Records) /\ DOMAIN puts' = 1 .. Len(puts) + 1
      /\ puts'[Len(puts) + 1] = swap
      /\ \A i \in 1 .. Len(puts) : puts'[i] = puts[i]
  BY <1>1, AppendProperties
<1>3. DOMAIN puts = 1 .. Len(puts) /\ Len(puts) \in Nat
  BY <1>1
<1>4. \A i \in DOMAIN puts' : Well(puts'[i])
  BY <1>2, <1>3 DEF Inv, StorageInv
<1>5. swap # Closed /\ copy' = [copy EXCEPT ![t] = swap]
  BY <1>1 DEF UpdateSwap
<1> QED
  BY <1>2, <1>4, <1>5, PageStep

\* Nothing of the pages, the records and the transactions changes.
LEMMA ElsewhereInv ==
  ASSUME Inv, UNCHANGED <<escrows, gaia, copy, puts, answers, recovering>>,
         finals' \in Seq(TxStatuses), finals' # <<>> => finals # <<>>
  PROVE  Inv'
<1>1. EscrowsGrow
  BY DEF Inv, ChainInv, EscrowsGrow
<1>2. finals' # <<>> => Succeeded(escrows)'
  BY DEF Inv, ChainInv, Succeeded
<1> QED
  BY <1>1, <1>2, GrowInv

LEMMA RemovedPut ==
  ASSUME Inv, NEW i \in DOMAIN puts, puts' = RemoveAt(puts, i)
  PROVE  puts' \in Seq(Records) /\ \A j \in DOMAIN puts' : Well(puts'[j])
<1>1. puts \in Seq(Records) /\ DOMAIN puts = 1 .. Len(puts) /\ Len(puts) \in Nat
  BY DEF Inv, TypeInv
<1> DEFINE before == SubSeq(puts, 1, i - 1)
           after == SubSeq(puts, i + 1, Len(puts))
<1>2. /\ before \in Seq(Records) /\ Len(before) = i - 1
      /\ \A j \in 1 .. i - 1 : before[j] = puts[j]
  BY <1>1
<1>3. /\ after \in Seq(Records) /\ Len(after) = Len(puts) - i
      /\ \A j \in 1 .. Len(puts) - i : after[j] = puts[i + j]
  BY <1>1
<1>4. puts' = before \o after
  BY DEF RemoveAt
<1> HIDE DEF before, after
<1>5. /\ puts' \in Seq(Records) /\ Len(puts') = Len(puts) - 1
      /\ \A j \in 1 .. Len(puts) - 1 :
           puts'[j] = IF j <= i - 1 THEN before[j] ELSE after[j - (i - 1)]
  <2>1. /\ before \o after \in Seq(Records)
        /\ Len(before \o after) = Len(before) + Len(after)
        /\ \A j \in 1 .. Len(before) + Len(after) :
             (before \o after)[j] = IF j <= Len(before) THEN before[j]
                                    ELSE after[j - Len(before)]
    BY <1>2, <1>3, ConcatProperties
  <2> QED
    BY <1>1, <1>2, <1>3, <1>4, <2>1
<1>6. ASSUME NEW j \in DOMAIN puts'
      PROVE  \E l \in DOMAIN puts : puts'[j] = puts[l]
  <2>1. j \in 1 .. Len(puts) - 1
    BY <1>5
  <2>2. CASE j <= i - 1
    <3>1. j \in 1 .. i - 1 /\ j \in DOMAIN puts
      BY <1>1, <2>1, <2>2
    <3>2. puts'[j] = puts[j]
      BY <1>2, <1>5, <2>1, <2>2, <3>1
    <3> QED
      BY <3>1, <3>2
  <2>3. CASE j > i - 1
    <3>1. /\ j - (i - 1) \in 1 .. Len(puts) - i /\ i + (j - (i - 1)) = j + 1
          /\ j + 1 \in DOMAIN puts /\ ~(j <= i - 1)
      BY <1>1, <2>1, <2>3
    <3>2. puts'[j] = after[j - (i - 1)]
      BY <1>5, <2>1, <3>1
    <3>3. after[j - (i - 1)] = puts[j + 1]
      BY <1>3, <3>1
    <3> QED
      BY <3>1, <3>2, <3>3
  <2> QED
    BY <1>1, <2>1, <2>2, <2>3
<1> QED
  BY <1>5, <1>6 DEF Inv, StorageInv

-----------------------------------------------------------------------------
(* Transactions *)

LEMMA MineEscrowInv ==
  ASSUME Inv, NEW i, MineEscrow(i)
  PROVE  Inv'
<1>1. /\ i \in DOMAIN escrows /\ escrows[i] = "pending"
      /\ \/ escrows' = [escrows EXCEPT ![i] = "success"]
         \/ escrows' = [escrows EXCEPT ![i] = "failed"]
      /\ UNCHANGED <<finals, gaia, copy, puts, answers, recovering>>
  BY DEF MineEscrow, IsNext
<1>2. escrows \in Seq(TxStatuses) /\ (finals # <<>> => Succeeded(escrows))
  BY DEF Inv, ChainInv
<1>3. /\ escrows' \in Seq(TxStatuses) /\ Len(escrows') = Len(escrows)
      /\ DOMAIN escrows' = DOMAIN escrows
      /\ \A j \in DOMAIN escrows : j # i => escrows'[j] = escrows[j]
  BY <1>1, <1>2 DEF TxStatuses
<1>4. EscrowsGrow
  BY <1>1, <1>2, <1>3 DEF EscrowsGrow
<1>5. finals' # <<>> => Succeeded(escrows)'
  BY <1>1, <1>2, <1>3 DEF Succeeded
<1> QED
  BY <1>1, <1>4, <1>5, GrowInv DEF Inv, ChainInv

LEMMA MineFinalInv ==
  ASSUME Inv, NEW i, MineFinal(i)
  PROVE  Inv'
<1>1. /\ i \in DOMAIN finals
      /\ \/ finals' = [finals EXCEPT ![i] = "success"]
         \/ finals' = [finals EXCEPT ![i] = "failed"]
      /\ UNCHANGED <<escrows, gaia, copy, puts, answers, recovering>>
  BY DEF MineFinal, IsNext
<1>2. finals \in Seq(TxStatuses)
  BY DEF Inv, ChainInv
<1>3. finals' \in Seq(TxStatuses) /\ finals # <<>>
  BY <1>1, <1>2 DEF TxStatuses
<1> QED
  BY <1>1, <1>3, ElsewhereInv

\* A page at step 3 sends an escrow and waits for one more.
LEMMA PressEscrowInv ==
  ASSUME Inv, NEW t \in Pages, PressEscrow(t)
  PROVE  Inv'
<1>1. /\ copy[t] # Closed /\ Step(copy[t]) = 3
      /\ escrows' = Append(escrows, "pending")
      /\ answers' = [answers EXCEPT ![t] = answers[t] \cup {Len(escrows) + 1}]
      /\ UNCHANGED <<finals, gaia, copy, puts, recovering>>
  BY DEF PressEscrow, At
<1>2. /\ escrows \in Seq(TxStatuses) /\ answers \in [Pages -> SUBSET Nat]
      /\ Len(escrows) \in Nat /\ DOMAIN escrows = 1 .. Len(escrows)
  BY DEF Inv, TypeInv, ChainInv
<1>3. /\ escrows' \in Seq(TxStatuses) /\ Len(escrows') = Len(escrows) + 1
      /\ DOMAIN escrows' = 1 .. Len(escrows) + 1
      /\ \A j \in 1 .. Len(escrows) : escrows'[j] = escrows[j]
  <2>1. "pending" \in TxStatuses
    BY DEF TxStatuses
  <2> QED
    BY <1>1, <1>2, <2>1, AppendProperties
<1>4. EscrowsGrow
  BY <1>2, <1>3 DEF EscrowsGrow
<1>5. \A swap : Well(swap) => Well(swap)'
  BY <1>2, <1>4, WellKept DEF Well
<1>6. TypeInv'
  BY <1>1, <1>2 DEF Inv, TypeInv
<1>7. ChainInv'
  BY <1>1, <1>2, <1>3 DEF Inv, ChainInv, Succeeded
<1>8. StorageInv'
  BY <1>1, <1>5 DEF Inv, StorageInv, Well
<1>9. ASSUME NEW u \in Pages
      PROVE  PageInv(u)'
  <2>1. copy[u] # Closed => Well(copy[u])'
    BY <1>1, <1>5 DEF Inv, PageInv, Well
  <2>2. Waits(copy[u], answers[u])'
    <3>1. CASE u = t
      <4>1. answers'[u] = answers[t] \cup {Len(escrows) + 1}
        BY <1>1, <1>2, <3>1
      <4>2. answers[t] \subseteq 1 .. Len(escrows)
        BY <1>1 DEF Inv, PageInv, Waits
      <4>3. answers'[u] \subseteq 1 .. Len(escrows')
        BY <1>2, <1>3, <4>1, <4>2
      <4> QED
        BY <1>1, <3>1, <4>3 DEF Waits
    <3>2. CASE u # t
      <4>1. answers'[u] = answers[u] /\ Waits(copy[u], answers[u])
        BY <1>1, <1>2, <3>2 DEF Inv, PageInv
      <4>2. copy[u] # Closed => copy[u].escrow \in 0 .. Len(escrows)
        BY DEF Inv, PageInv, Well
      <4>3. Step(copy[u]) = 4 => copy[u].escrow > 0
        BY DEF Step
      <4> QED
        BY <1>1, <1>2, <1>3, <4>1, <4>2, <4>3 DEF Waits
    <3> QED
      BY <3>1, <3>2
  <2> QED
    BY <1>1, <2>1, <2>2 DEF Inv, PageInv
<1> QED
  BY <1>6, <1>7, <1>8, <1>9 DEF Inv

\* A page sends a finalization only for an escrow that succeeded.
LEMMA PressFinalizeInv ==
  ASSUME Inv, NEW t \in Pages, PressFinalize(t)
  PROVE  Inv'
<1>1. /\ copy[t] # Closed /\ Step(copy[t]) = 4
      /\ escrows[copy[t].escrow] = "success"
      /\ finals' = Append(finals, "pending")
      /\ answers' = [answers EXCEPT ![t] = answers[t] \cup {Len(finals) + 1}]
      /\ UNCHANGED <<escrows, gaia, copy, puts, recovering>>
  BY DEF PressFinalize, OffersFinalize, At
<1>2. /\ escrows \in Seq(TxStatuses) /\ finals \in Seq(TxStatuses)
      /\ answers \in [Pages -> SUBSET Nat] /\ Len(finals) \in Nat
  BY DEF Inv, TypeInv, ChainInv
<1>3. Succeeded(escrows)
  <2>1. copy[t].escrow \in 0 .. Len(escrows) /\ copy[t].escrow > 0
    BY <1>1 DEF Inv, PageInv, Well, Step
  <2> QED
    BY <1>1, <1>2, <2>1 DEF Succeeded
<1>4. ChainInv'
  <2>1. finals' \in Seq(TxStatuses)
    BY <1>1, <1>2 DEF TxStatuses
  <2> QED
    BY <1>1, <1>2, <1>3, <2>1 DEF ChainInv, Succeeded
<1>5. TypeInv' /\ StorageInv'
  BY <1>1, <1>2 DEF Inv, TypeInv, StorageInv, Well
<1>6. ASSUME NEW u \in Pages
      PROVE  PageInv(u)'
  <2>1. CASE u = t
    <3>1. answers'[u] = answers[t] \cup {Len(finals) + 1}
      BY <1>1, <1>2, <2>1
    <3>2. answers[t] \subseteq Nat \ {0}
      BY <1>1 DEF Inv, PageInv, Waits
    <3>3. answers'[u] \subseteq Nat \ {0}
      BY <1>2, <3>1, <3>2
    <3> QED
      BY <1>1, <2>1, <3>3 DEF Inv, PageInv, Waits, Well
  <2>2. CASE u # t
    BY <1>1, <1>2, <2>2 DEF Inv, PageInv, Waits, Well
  <2> QED
    BY <2>1, <2>2
<1> QED
  BY <1>4, <1>5, <1>6 DEF Inv

-----------------------------------------------------------------------------
(* Pages and storage *)

LEMMA PageFacts ==
  ASSUME Inv, NEW t \in Pages
  PROVE  /\ copy[t] # Closed => Well(copy[t]) /\ copy[t] \in Records
         /\ Waits(copy[t], answers[t])
         /\ answers[t] \in SUBSET Nat /\ answers' = answers =>
                answers' = [answers EXCEPT ![t] = answers[t]]
         /\ copy' = copy => copy' = [copy EXCEPT ![t] = copy[t]]
         /\ puts \in Seq(Records) /\ \A i \in DOMAIN puts : Well(puts[i])
BY DEF Inv, TypeInv, PageInv, StorageInv, Well

\* A page whose record has no escrow yet updates it.
LEMMA EarlyUpdateInv ==
  ASSUME Inv, NEW t \in Pages, copy[t] # Closed, Step(copy[t]) \in {1, 2},
         NEW swap, Well(swap), UpdateSwap(t, swap),
         UNCHANGED <<escrows, finals, gaia, answers, recovering>>
  PROVE  Inv'
<1>1. answers[t] = {}
  BY PageFacts DEF Waits
<1>2. {} \in SUBSET Nat /\ Waits(swap, {})
  BY DEF Waits
<1>3. answers' = [answers EXCEPT ![t] = {}]
  BY <1>1 DEF Inv, TypeInv
<1> QED
  BY <1>2, <1>3, UpdateInv

LEMMA EarlyRecords ==
  ASSUME Inv, NEW t \in Pages, copy[t] # Closed, Step(copy[t]) \in {1, 2}
  PROVE  /\ Well([copy[t] EXCEPT !.warned = TRUE])
         /\ Well([copy[t] EXCEPT !.pendingBtc = TRUE])
         /\ Well(WithPayment(copy[t]))
<1>1. copy[t] \in Records /\ Well(copy[t])
  BY PageFacts
<1>2. copy[t].final = 0 /\ copy[t].escrow = 0
  BY <1>1 DEF Step, Records
<1>3. ASSUME NEW swap \in Records, swap.final = 0, swap.escrow = 0
      PROVE  Well(swap)
  BY <1>3 DEF Well, Inv, ChainInv
<1>4. /\ [copy[t] EXCEPT !.warned = TRUE] \in Records
      /\ [copy[t] EXCEPT !.pendingBtc = TRUE] \in Records
      /\ WithPayment(copy[t]) \in Records
  BY <1>1 DEF Records, WithPayment
<1>5. /\ [copy[t] EXCEPT !.warned = TRUE].final = 0
      /\ [copy[t] EXCEPT !.warned = TRUE].escrow = 0
      /\ [copy[t] EXCEPT !.pendingBtc = TRUE].final = 0
      /\ [copy[t] EXCEPT !.pendingBtc = TRUE].escrow = 0
      /\ WithPayment(copy[t]).final = 0 /\ WithPayment(copy[t]).escrow = 0
  BY <1>1, <1>2 DEF Records, WithPayment
<1> QED
  BY <1>3, <1>4, <1>5

LEMMA WatchInv ==
  ASSUME Inv, NEW t \in Pages, WatchConfirmed(t)
  PROVE  Inv'
<1>1. /\ copy[t] # Closed /\ Step(copy[t]) \in {1, 2}
      /\ UNCHANGED <<escrows, finals, gaia, answers, recovering>>
  BY DEF WatchConfirmed, At, chain
<1>2. CASE copy[t].pendingBtc
  BY <1>1, <1>2, EarlyRecords, EarlyUpdateInv DEF WatchConfirmed
<1>3. CASE ~copy[t].pendingBtc
  <2> DEFINE first == [copy[t] EXCEPT !.pendingBtc = TRUE]
             second == WithPayment(copy[t])
  <2>1. copy' = [copy EXCEPT ![t] = second] /\ puts' = puts \o <<first, second>>
    BY <1>3 DEF WatchConfirmed
  <2>2. Well(first) /\ Well(second)
    BY <1>1, EarlyRecords
  <2> HIDE DEF first, second
  <2>3. first \in Records /\ second \in Records /\ second # Closed
    BY <2>2 DEF Well
  <2>4. puts \in Seq(Records) /\ \A i \in DOMAIN puts : Well(puts[i])
    BY PageFacts
  <2>5. puts' = Append(Append(puts, first), second)
    BY <2>1, <2>3, <2>4
  <2>6. /\ puts' \in Seq(Records) /\ DOMAIN puts' = 1 .. Len(puts) + 2
        /\ puts'[Len(puts) + 1] = first /\ puts'[Len(puts) + 2] = second
        /\ \A i \in 1 .. Len(puts) : puts'[i] = puts[i]
    BY <2>3, <2>4, <2>5, AppendProperties
  <2>7. \A i \in DOMAIN puts' : Well(puts'[i])
    BY <2>2, <2>4, <2>6
  <2>8. answers[t] = {} /\ Waits(second, {})
    BY <1>1, PageFacts DEF Waits
  <2>9. answers' = [answers EXCEPT ![t] = {}]
    BY <1>1, <2>8 DEF Inv, TypeInv
  <2> QED
    BY <1>1, <2>1, <2>2, <2>3, <2>6, <2>7, <2>8, <2>9, PageStep
<1> QED
  BY <1>2, <1>3

LEMMA AnswerInv ==
  ASSUME Inv, NEW t \in Pages, NEW i \in answers[t],
         AnswerEscrow(t, i) \/ AnswerFinalize(t, i)
  PROVE  Inv'
<1>1. /\ copy[t] # Closed /\ Well(copy[t]) /\ copy[t] \in Records
      /\ Waits(copy[t], answers[t])
  BY PageFacts DEF AnswerEscrow, AnswerFinalize, At
<1>2. /\ answers' = [answers EXCEPT ![t] = {}]
      /\ UNCHANGED <<escrows, finals, gaia, recovering>>
  BY DEF AnswerEscrow, AnswerFinalize, chain
<1>3. CASE AnswerEscrow(t, i)
  <2> DEFINE swap == [copy[t] EXCEPT !.escrow = i]
  <2>1. Step(copy[t]) = 3 /\ UpdateSwap(t, swap)
    BY <1>3 DEF AnswerEscrow, At
  <2>2. i \in 1 .. Len(escrows)
    BY <1>1, <2>1 DEF Waits
  <2>3. copy[t].final = 0 /\ copy[t].btc
    BY <1>1, <2>1 DEF Step, Records
  <2>4. Well(swap)
    <3>1. /\ swap \in Records /\ swap.escrow = i /\ swap.final = copy[t].final
          /\ swap.btc = copy[t].btc
      BY <1>1, <2>2 DEF Records
    <3>2. i \in 0 .. Len(escrows)
      BY <2>2 DEF Inv, ChainInv
    <3> QED
      BY <2>2, <2>3, <3>1, <3>2 DEF Well
  <2> HIDE DEF swap
  <2>5. Waits(swap, {})
    BY DEF Waits
  <2> QED
    BY <1>2, <2>1, <2>4, <2>5, UpdateInv
<1>4. CASE AnswerFinalize(t, i)
  <2> DEFINE swap == [copy[t] EXCEPT !.final = i]
  <2>1. Step(copy[t]) = 4 /\ UpdateSwap(t, swap)
    BY <1>4 DEF AnswerFinalize, At
  <2>2. i \in Nat \ {0} /\ escrows[copy[t].escrow] = "success"
    BY <1>1, <2>1 DEF Waits
  <2>3. copy[t].escrow > 0
    BY <2>1 DEF Step
  <2>4. Well(swap)
    <3>1. swap \in Records /\ swap.escrow = copy[t].escrow /\ swap.btc = copy[t].btc
      BY <1>1, <2>2 DEF Records
    <3> QED
      BY <1>1, <2>2, <2>3, <3>1 DEF Well
  <2> HIDE DEF swap
  <2>5. Waits(swap, {})
    BY DEF Waits
  <2> QED
    BY <1>2, <2>1, <2>4, <2>5, UpdateInv
<1> QED
  BY <1>3, <1>4

LEMMA AnswerRecoverInv ==
  ASSUME Inv, NEW t \in Pages, AnswerRecover(t)
  PROVE  Inv'
<1> DEFINE swap == [copy[t] EXCEPT !.recovery = TRUE]
<1>1. copy[t] # Closed
  BY DEF AnswerRecover, Inv, PageInv
<1>2. copy[t] \in Records /\ Well(copy[t]) /\ Waits(copy[t], answers[t])
  BY <1>1, PageFacts
<1>3. swap \in Records /\ Well(swap) /\ Step(swap) = Step(copy[t])
      /\ swap.escrow = copy[t].escrow
  BY <1>2 DEF Well, Records, Step
<1>4. UpdateSwap(t, swap) /\ recovering' \subseteq recovering
      /\ UNCHANGED <<escrows, finals, gaia, answers>>
  BY DEF AnswerRecover, chain
<1> HIDE DEF swap
<1>5. Waits(swap, answers[t])
  BY <1>1, <1>2, <1>3 DEF Waits
<1>6. answers' = [answers EXCEPT ![t] = answers[t]] /\ answers[t] \in SUBSET Nat
  BY <1>4 DEF Inv, TypeInv
<1> QED
  BY <1>3, <1>4, <1>5, <1>6, UpdateInv

\* Opened, closed, left, or recovering
LEMMA ViewInv ==
  ASSUME Inv, NEW t \in Pages,
         Open(t) \/ Close(t) \/ Leave(t) \/ PressRecover(t)
  PROVE  Inv'
<1>1. puts' = puts /\ UNCHANGED <<escrows, finals, gaia>>
  BY DEF Open, Close, Leave, PressRecover, chain
<1>2. puts' \in Seq(Records) /\ \A i \in DOMAIN puts' : Well(puts'[i])
  BY <1>1, PageFacts
<1>3. answers \in [Pages -> SUBSET Nat] /\ copy \in [Pages -> Records \cup {Closed}]
  BY DEF Inv, TypeInv
<1>4. \A c : Waits(c, {})
  BY DEF Waits
<1>5. CASE Open(t)
  <2>1. answers[t] = {} /\ t \notin recovering
    BY <1>5 DEF Open, Inv, PageInv, Waits
  <2>2. answers' = [answers EXCEPT ![t] = {}]
    BY <1>3, <1>5, <2>1 DEF Open
  <2>3. Well(gaia)
    BY DEF Inv, StorageInv
  <2> QED
    BY <1>1, <1>2, <1>4, <1>5, <2>1, <2>2, <2>3, PageStep DEF Open
<1>6. CASE Close(t)
  BY <1>1, <1>2, <1>4, <1>6, PageStep DEF Close
<1>7. CASE Leave(t)
  <2>1. answers' = [answers EXCEPT ![t] = {}]
    BY <1>3, <1>7 DEF Leave
  <2> QED
    BY <1>1, <1>2, <1>4, <1>7, <2>1, PageStep DEF Leave
<1>8. CASE PressRecover(t)
  <2>1. copy[t] # Closed /\ Well(copy[t]) /\ Waits(copy[t], answers[t])
    BY <1>8, PageFacts DEF PressRecover, OffersRecovery, At
  <2>2. /\ copy' = [copy EXCEPT ![t] = copy[t]]
        /\ answers' = [answers EXCEPT ![t] = answers[t]]
        /\ answers[t] \in SUBSET Nat /\ recovering' = recovering \cup {t}
    BY <1>3, <1>8 DEF PressRecover
  <2> QED
    BY <1>1, <1>2, <2>1, <2>2, PageStep
<1> QED
  BY <1>5, <1>6, <1>7, <1>8

LEMMA PutInv ==
  ASSUME Inv, NEW i \in DOMAIN puts, PutArrives(i) \/ PutFails(i)
  PROVE  Inv'
<1>1. /\ puts' = RemoveAt(puts, i) /\ (gaia' = gaia \/ gaia' = puts[i])
      /\ UNCHANGED <<escrows, finals, copy, answers, recovering>>
  BY DEF PutArrives, PutFails, chain
<1>2. puts' \in Seq(Records) /\ \A j \in DOMAIN puts' : Well(puts'[j])
  BY <1>1, RemovedPut
<1>3. Well(gaia')
  BY <1>1 DEF Inv, StorageInv
<1>4. TypeInv' /\ ChainInv' /\ StorageInv'
  BY <1>1, <1>2, <1>3 DEF Inv, TypeInv, ChainInv, StorageInv, Succeeded, Well
<1>5. ASSUME NEW t \in Pages
      PROVE  PageInv(t)'
  BY <1>1 DEF Inv, PageInv, Waits, Well
<1> QED
  BY <1>4, <1>5 DEF Inv

-----------------------------------------------------------------------------
(* The invariant *)

LEMMA InitInv == Init => Inv
<1> SUFFICES ASSUME Init PROVE Inv
  OBVIOUS
<1>1. Well(gaia)
  BY DEF Init, ReadySwap, Well, Records
<1>2. TypeInv
  BY DEF Init, TypeInv
<1>3. ChainInv /\ StorageInv
  BY <1>1 DEF Init, ChainInv, StorageInv
<1>4. ASSUME NEW t \in Pages
      PROVE  PageInv(t)
  BY DEF Init, PageInv, Waits
<1> QED
  BY <1>2, <1>3, <1>4 DEF Inv

LEMMA NextInv == Inv /\ [Next]_vars => Inv'
<1> SUFFICES ASSUME Inv, [Next]_vars PROVE Inv'
  OBVIOUS
<1>0. finals \in Seq(TxStatuses)
  BY DEF Inv, ChainInv
<1>1. CASE SendBitcoin \/ ConfirmBitcoin \/ Age \/ SupplierRedeems
  BY <1>0, <1>1, ElsewhereInv DEF SendBitcoin, ConfirmBitcoin, Age, SupplierRedeems
<1>2. ASSUME NEW f \in Fees, ChangeFee(f)
      PROVE  Inv'
  BY <1>0, <1>2, ElsewhereInv DEF ChangeFee
<1>3. CASE MineFirst \/ MineFinals
  BY <1>3, MineEscrowInv, MineFinalInv DEF MineFirst, MineFinals
<1>4. ASSUME NEW i \in DOMAIN puts, PutArrives(i) \/ PutFails(i)
      PROVE  Inv'
  BY <1>4, PutInv
<1>5. ASSUME NEW t \in Pages, Open(t) \/ Close(t) \/ Leave(t) \/ PressRecover(t)
      PROVE  Inv'
  BY <1>5, ViewInv
<1>6. ASSUME NEW t \in Pages, Warn(t) \/ WatchUnconfirmed(t)
      PROVE  Inv'
  <2>1. /\ copy[t] # Closed /\ Step(copy[t]) \in {1, 2}
        /\ UNCHANGED <<escrows, finals, gaia, answers, recovering>>
    BY <1>6 DEF Warn, WatchUnconfirmed, At, chain
  <2> QED
    BY <1>6, <2>1, EarlyRecords, EarlyUpdateInv DEF Warn, WatchUnconfirmed
<1>7. ASSUME NEW t \in Pages, WatchConfirmed(t)
      PROVE  Inv'
  BY <1>7, WatchInv
<1>8. ASSUME NEW t \in Pages, PressEscrow(t) \/ PressFinalize(t)
      PROVE  Inv'
  BY <1>8, PressEscrowInv, PressFinalizeInv
<1>9. ASSUME NEW t \in Pages, Answer(t) \/ AnswerRecover(t)
      PROVE  Inv'
  BY <1>9, AnswerInv, AnswerRecoverInv DEF Answer
<1>10. CASE UNCHANGED vars
  BY <1>0, <1>10, ElsewhereInv DEF vars, chain
<1> QED
  BY <1>1, <1>2, <1>3, <1>4, <1>5, <1>6, <1>7, <1>8, <1>9, <1>10 DEF Next, PutDone

(* Whichever put arrives last and whichever page acts, the secret is disclosed
   only for a payment that is escrowed, and every record that has a
   finalization names the escrow that succeeded. *)
THEOREM SecretKept == Spec => []SecretKeptUntilEscrowed
  BY InitInv, NextInv, InvSecret, PTL DEF Spec

-----------------------------------------------------------------------------
(* The steps of a page *)

\* A record that differs from a page's only by what has been added
Beyond(swap, old) ==
    /\ old.warned => swap.warned
    /\ old.btc => swap.btc
    /\ old.escrow > 0 => swap.escrow > 0
    /\ old.final > 0 => swap.final > 0

LEMMA BeyondStep ==
  ASSUME NEW old \in Records, NEW swap \in Records, Beyond(swap, old)
  PROVE  Step(old) <= Step(swap)
BY DEF Beyond, Step, Records

LEMMA NeverBackStep ==
  ASSUME Inv, [Next]_vars, NEW t \in Pages, copy[t] # Closed, copy'[t] # Closed
  PROVE  Step(copy[t]) <= Step(copy'[t])
<1>0. /\ copy \in [Pages -> Records \cup {Closed}]
      /\ copy[t] \in Records /\ answers[t] \subseteq Nat
      /\ copy'[t] \in Records
  BY NextInv, PageFacts DEF Inv, TypeInv
<1> DEFINE Same == copy'[t] = copy[t]
<1>a. ASSUME NEW u \in Pages, u # t, NEW c, copy' = [copy EXCEPT ![u] = c]
      PROVE  Same
  BY <1>0, <1>a
<1>b. ASSUME NEW swap, Beyond(swap, copy[t]), copy' = [copy EXCEPT ![t] = swap]
      PROVE  Beyond(copy'[t], copy[t])
  BY <1>0, <1>b
<1>c. Same => Beyond(copy'[t], copy[t])
  BY DEF Beyond
<1> SUFFICES Beyond(copy'[t], copy[t])
  BY <1>0, BeyondStep
<1> HIDE DEF Same
<1>1. CASE copy' = copy
  BY <1>1, <1>c DEF Same
<1>2. ASSUME NEW u \in Pages, Open(u) \/ Close(u) \/ Leave(u)
      PROVE  Beyond(copy'[t], copy[t])
  <2>1. PICK c : copy' = [copy EXCEPT ![u] = c] /\ (c = Closed \/ copy[u] = Closed)
    BY <1>2 DEF Open, Close, Leave
  <2>2. u # t
    BY <1>0, <2>1
  <2> QED
    BY <1>a, <1>c, <2>1, <2>2
<1>3. ASSUME NEW u \in Pages, NEW swap, UpdateSwap(u, swap), Beyond(swap, copy[u])
      PROVE  Beyond(copy'[t], copy[t])
  BY <1>3, <1>a, <1>b, <1>c DEF UpdateSwap
<1>4. ASSUME NEW u \in Pages, copy[u] \in Records
      PROVE  /\ Beyond([copy[u] EXCEPT !.warned = TRUE], copy[u])
             /\ Beyond([copy[u] EXCEPT !.pendingBtc = TRUE], copy[u])
             /\ Beyond(WithPayment(copy[u]), copy[u])
             /\ Beyond([copy[u] EXCEPT !.recovery = TRUE], copy[u])
             /\ \A i \in Nat : i > 0 =>
                  /\ Beyond([copy[u] EXCEPT !.escrow = i], copy[u])
                  /\ Beyond([copy[u] EXCEPT !.final = i], copy[u])
  BY <1>4 DEF Beyond, WithPayment, Records
<1>5. ASSUME NEW u \in Pages, Warn(u) \/ WatchUnconfirmed(u)
      PROVE  Beyond(copy'[t], copy[t])
  <2>1. copy[u] \in Records
    BY <1>5, PageFacts DEF Warn, WatchUnconfirmed, At
  <2> QED
    BY <1>3, <1>4, <1>5, <2>1 DEF Warn, WatchUnconfirmed
<1>6. ASSUME NEW u \in Pages, WatchConfirmed(u)
      PROVE  Beyond(copy'[t], copy[t])
  <2>1. /\ copy[u] \in Records
        /\ copy' = [copy EXCEPT ![u] = WithPayment(copy[u])]
    BY <1>6, PageFacts DEF WatchConfirmed, At, UpdateSwap
  <2> QED
    BY <1>4, <1>a, <1>b, <1>c, <2>1
<1>7. ASSUME NEW u \in Pages, NEW i \in answers[u],
             AnswerEscrow(u, i) \/ AnswerFinalize(u, i)
      PROVE  Beyond(copy'[t], copy[t])
  <2>1. copy[u] \in Records /\ i \in Nat /\ i > 0
    BY <1>7, PageFacts DEF AnswerEscrow, AnswerFinalize, At, Waits
  <2> QED
    BY <1>3, <1>4, <1>7, <2>1 DEF AnswerEscrow, AnswerFinalize
<1>8. ASSUME NEW u \in Pages, AnswerRecover(u)
      PROVE  Beyond(copy'[t], copy[t])
  <2>1. copy[u] \in Records
    BY <1>8, PageFacts DEF AnswerRecover, Inv, PageInv
  <2> QED
    BY <1>3, <1>4, <1>8, <2>1 DEF AnswerRecover
<1>9. CASE SendBitcoin \/ ConfirmBitcoin \/ Age \/ SupplierRedeems
  BY <1>1, <1>9 DEF SendBitcoin, ConfirmBitcoin, Age, SupplierRedeems
<1>10. CASE MineFirst \/ MineFinals
  BY <1>1, <1>10 DEF MineFirst, MineFinals, MineEscrow, MineFinal
<1>11. ASSUME NEW f \in Fees, ChangeFee(f)
       PROVE  Beyond(copy'[t], copy[t])
  BY <1>1, <1>11 DEF ChangeFee
<1>12. ASSUME NEW i \in DOMAIN puts, PutArrives(i) \/ PutFails(i)
       PROVE  Beyond(copy'[t], copy[t])
  BY <1>1, <1>12 DEF PutArrives, PutFails
<1>13. ASSUME NEW u \in Pages, PressEscrow(u) \/ PressFinalize(u) \/ PressRecover(u)
       PROVE  Beyond(copy'[t], copy[t])
  BY <1>1, <1>13 DEF PressEscrow, PressFinalize, PressRecover
<1>14. CASE UNCHANGED vars
  BY <1>1, <1>14 DEF vars
<1> QED
  BY <1>2, <1>5, <1>6, <1>7, <1>8, <1>9, <1>10, <1>11, <1>12, <1>13, <1>14
  DEF Next, PutDone, Answer

(* An open page never goes back to an earlier step, whatever storage holds. *)
THEOREM NeverBack == Spec => StepNeverBack
<1> DEFINE Forward == \A t \in Pages :
        copy[t] # Closed /\ copy'[t] # Closed => Step(copy[t]) <= Step(copy'[t])
<1>1. Inv /\ [Next]_vars => [Forward]_vars
  BY NeverBackStep
<1>2. [][Forward]_vars => StepNeverBack
  BY DEF StepNeverBack
<1> HIDE DEF Forward
<1> QED
  BY <1>1, <1>2, InitInv, NextInv, PTL DEF Spec
=============================================================================
