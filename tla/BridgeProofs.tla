---------------------------- MODULE BridgeProofs ----------------------------
(***************************************************************************)
(* Proofs about Bridge for every number of suppliers, swappers and swaps,   *)
(* and every expiration: keys lead to their suppliers, no swapper is paid    *)
(* for a HTLC it takes back, no payment serves two outbound swaps, the       *)
(* contract implements SwapLedger, and its tokens, escrows and volumes are   *)
(* the sums of what the swaps hold.                                          *)
(***************************************************************************)
EXTENDS Bridge, FoldTheorems, TLAPS

-----------------------------------------------------------------------------
(* Keys *)

KeysInv ==
    /\ supplierKey \in [Controllers -> Keys \cup {None}]
    /\ supplierByKey \in [Keys -> Controllers \cup {None}]
    /\ KeysInverse

LEMMA KeysStep == KeysInv /\ [Next]_bridgeVars => KeysInv'
<1> SUFFICES ASSUME KeysInv, [Next]_bridgeVars PROVE KeysInv'
    OBVIOUS
<1> USE NamesAssumption DEF KeysInv, KeysInverse, None
<1>0. CASE UNCHANGED suppliers
    BY <1>0 DEF suppliers
<1>1. ASSUME NEW c \in Controllers, NEW key \in Keys, NEW inFee, NEW outFee, NEW amount,
             RegisterSupplier(c, key, inFee, outFee, amount)
      PROVE  KeysInv'
    BY <1>1 DEF RegisterSupplier, Registered
<1>2. ASSUME NEW c \in Controllers, NEW key \in Keys, UpdateSupplierPublicKey(c, key)
      PROVE  KeysInv'
    BY <1>2 DEF UpdateSupplierPublicKey, RenewKey, Registered
<1>3. ASSUME NEW c \in Controllers, NEW inFee, NEW outFee,
             UpdateSupplierFees(c, inFee, outFee)
      PROVE  KeysInv'
    BY <1>3 DEF UpdateSupplierFees
<1>4. CASE UNCHANGED bridgeVars
    BY <1>0, <1>4 DEF bridgeVars
<1>5. ASSUME NEW c \in Controllers, SupplierCalls(c) PROVE KeysInv'
    BY <1>0, <1>1, <1>2, <1>3, <1>5 DEF SupplierCalls, AddFunds, RemoveFunds
<1>6. ASSUME NEW u \in Swappers, InitializeSwapper(u) PROVE KeysInv'
    BY <1>0, <1>6 DEF InitializeSwapper
<1>7. ASSUME NEW t \in Txids, InboundCalls(t) PROVE KeysInv'
    BY <1>0, <1>7 DEF InboundCalls, EscrowSwap, FinalizeSwap, FinalizeFails,
                      RevokeExpiredInbound
<1>8. CASE OutboundCalls
    BY <1>0, <1>8 DEF OutboundCalls, InitiateOutboundSwap, FinalizeOutboundSwap,
                      RevokeExpiredOutbound
<1>9. CASE Bitcoin
    BY <1>0, <1>9 DEF Bitcoin, BitcoinBlock, SendHtlc, RedeemHtlc, RefundHtlc, Spend, Pay
<1> QED
    BY <1>4, <1>5, <1>6, <1>7, <1>8, <1>9 DEF Next

\* supplier-by-id and supplier-by-public-key stay inverse to each other,
\* whoever registers and whatever keys are changed.
THEOREM KeysAgree == Spec => []KeysInverse
<1>1. Init => KeysInv
    BY NamesAssumption DEF Init, KeysInv, KeysInverse, None
<1>2. KeysInv => KeysInverse
    BY DEF KeysInv
<1> QED
    BY <1>1, <1>2, KeysStep, PTL DEF Spec

-----------------------------------------------------------------------------
(* Who is paid cannot be refunded *)

HtlcRecords ==
    [swapper : Swappers, recipient : Keys, csv : Csvs, sats : Sats, burn : Nat,
     spent : {"no", "redeemed", "refunded"}]
RefundAt(t) == htlcs[t].burn + htlcs[t].csv

\* A Stacks block has at least the bitcoin height of its own height, and at
\* most MaxMissed bitcoin blocks are ahead.
ClockInv ==
    /\ burn \in Nat /\ burnAt \in Seq(Nat)
    /\ Len(burnAt) <= burn /\ burn <= Len(burnAt) + MaxMissed
    /\ \A m \in 1 .. Len(burnAt) : m <= burnAt[m]

HtlcInv ==
    /\ htlcs \in [DOMAIN htlcs -> HtlcRecords]
    /\ \A t \in DOMAIN htlcs : htlcs[t].spent = "refunded" => burn >= RefundAt(t)

\* An escrow ends EscrowExpiration blocks before its HTLC, but for the blocks
\* the proof skipped.
EscrowInv ==
    \A t \in DOMAIN inboundSwaps :
        /\ t \in DOMAIN htlcs
        /\ inboundSwaps[t].expiration \in Int
        /\ inboundSwaps[t].expiration <= RefundAt(t) - EscrowExpiration + MaxPrevBlocks

RevealInv ==
    \A t \in DOMAIN revealed :
        /\ t \in Txids /\ t \in DOMAIN htlcs
        /\ revealed[t] \in Nat /\ revealed[t] <= burn
        /\ htlcs[t].spent = "no" => burn <= revealed[t] + RedeemWithin

PaidInv ==
    \A t \in FinalizedInbound :
        /\ t \in DOMAIN revealed
        /\ htlcs[t].spent # "refunded"
        /\ revealed[t] <= RefundAt(t) - EscrowExpiration + MaxPrevBlocks + MaxMissed

SwapInv == ClockInv /\ HtlcInv /\ EscrowInv /\ RevealInv /\ PaidInv

LEMMA HtlcNumbers ==
    ASSUME SwapInv, NEW t \in DOMAIN htlcs
    PROVE  /\ htlcs[t].burn \in Nat /\ htlcs[t].csv \in Nat
           /\ htlcs[t].spent \in {"no", "redeemed", "refunded"}
           /\ RefundAt(t) \in Nat
BY ExpirationAssumption DEF SwapInv, HtlcInv, HtlcRecords, RefundAt

\* The invariant is enough: no swapper gets both.
LEMMA PaidNotRefundable == SwapInv => SwapperNeverBoth
<1> SUFFICES ASSUME SwapInv, NEW t \in FinalizedInbound
             PROVE  /\ htlcs[t].spent # "refunded"
                    /\ htlcs[t].spent = "no" => burn < RefundAt(t)
    BY DEF SwapperNeverBoth, RefundAt
<1>1. t \in DOMAIN revealed /\ t \in DOMAIN htlcs
    BY DEF SwapInv, PaidInv, RevealInv
<1>2. RefundAt(t) \in Nat
    BY <1>1, HtlcNumbers
<1> QED
    BY <1>1, <1>2, ExpirationAssumption, TimelyAssumption
       DEF SwapInv, PaidInv, RevealInv, ClockInv

LEMMA BlockStep == SwapInv /\ BitcoinBlock => SwapInv'
<1> SUFFICES ASSUME SwapInv, BitcoinBlock PROVE SwapInv'
    OBVIOUS
<1>1. /\ htlcs' = htlcs /\ revealed' = revealed /\ inboundSwaps' = inboundSwaps
      /\ preimages' = preimages /\ burn' = burn + 1
    BY DEF BitcoinBlock, bitcoin, inbound
<1>2. ClockInv'
  <2>1. CASE burnAt' = Append(burnAt, burn + 1)
    <3>1. /\ burnAt' \in Seq(Nat) /\ Len(burnAt') = Len(burnAt) + 1
          /\ \A m \in 1 .. Len(burnAt) : burnAt'[m] = burnAt[m]
          /\ burnAt'[Len(burnAt) + 1] = burn + 1
        BY <2>1 DEF SwapInv, ClockInv
    <3> QED
        BY <1>1, <3>1, ExpirationAssumption DEF SwapInv, ClockInv
  <2>2. CASE Missed < MaxMissed /\ UNCHANGED burnAt
    BY <1>1, <2>2, ExpirationAssumption DEF SwapInv, ClockInv, Missed, height
  <2> QED
    BY <2>1, <2>2 DEF BitcoinBlock
<1>3. HtlcInv'
  <2>1. \A t \in DOMAIN htlcs : RefundAt(t) \in Nat
    BY HtlcNumbers
  <2> QED
    BY <1>1, <2>1 DEF SwapInv, HtlcInv, ClockInv, RefundAt
<1>4. EscrowInv'
    BY <1>1 DEF SwapInv, EscrowInv, RefundAt
<1>5. RevealInv'
    BY <1>1, ExpirationAssumption
       DEF SwapInv, RevealInv, ClockInv, BitcoinBlock, NoneOverdue, Has
<1>6. PaidInv'
    BY <1>1 DEF SwapInv, PaidInv, FinalizedInbound, RefundAt
<1> QED
    BY <1>2, <1>3, <1>4, <1>5, <1>6 DEF SwapInv

LEMMA SendStep ==
    ASSUME SwapInv, NEW t \in Txids, NEW u \in Swappers, NEW key \in Keys,
           NEW csv \in Csvs, NEW sats \in Sats, SendHtlc(t, u, key, csv, sats)
    PROVE  SwapInv'
<1> DEFINE htlc == [swapper |-> u, recipient |-> key, csv |-> csv, sats |-> sats,
                    burn |-> burn, spent |-> "no"]
<1>1. /\ burn' = burn /\ burnAt' = burnAt /\ revealed' = revealed
      /\ inboundSwaps' = inboundSwaps /\ preimages' = preimages
      /\ htlcs' = Put(htlcs, t, htlc) /\ t \notin DOMAIN htlcs
    BY DEF SendHtlc, clocks, inbound, Has
<1>2. /\ DOMAIN htlcs' = DOMAIN htlcs \cup {t}
      /\ htlcs'[t] = htlc
      /\ \A x \in DOMAIN htlcs : htlcs'[x] = htlcs[x]
    BY <1>1 DEF Put
<1>3. htlc \in HtlcRecords
    BY DEF HtlcRecords, SwapInv, ClockInv
<1>4. HtlcInv'
  <2>1. htlcs' = [x \in DOMAIN htlcs' |-> htlcs'[x]]
    BY <1>1 DEF Put
  <2> QED
    BY <1>1, <1>2, <1>3, <2>1 DEF SwapInv, HtlcInv, RefundAt
<1>5. EscrowInv'
    BY <1>1, <1>2 DEF SwapInv, EscrowInv, RefundAt
<1>6. RevealInv'
    BY <1>1, <1>2 DEF SwapInv, RevealInv
<1>7. PaidInv'
    BY <1>1, <1>2 DEF SwapInv, PaidInv, RevealInv, FinalizedInbound, RefundAt
<1> QED
    BY <1>1, <1>4, <1>5, <1>6, <1>7 DEF SwapInv, ClockInv

LEMMA SpendStep ==
    ASSUME SwapInv, NEW t \in Txids, NEW how \in {"redeemed", "refunded"}, Spend(t, how),
           how = "refunded" => burn >= RefundAt(t)
    PROVE  SwapInv'
<1>1. /\ burn' = burn /\ burnAt' = burnAt /\ revealed' = revealed
      /\ inboundSwaps' = inboundSwaps /\ preimages' = preimages
      /\ htlcs' = [htlcs EXCEPT ![t].spent = how]
      /\ t \in DOMAIN htlcs /\ htlcs[t].spent = "no"
    BY DEF Spend, Unspent, clocks, inbound, Has
<1>2. /\ htlcs' \in [DOMAIN htlcs -> HtlcRecords] /\ DOMAIN htlcs' = DOMAIN htlcs
      /\ htlcs'[t].spent = how
      /\ \A x \in DOMAIN htlcs : /\ htlcs'[x].burn = htlcs[x].burn
                                 /\ htlcs'[x].csv = htlcs[x].csv
                                 /\ x # t => htlcs'[x].spent = htlcs[x].spent
    BY <1>1 DEF SwapInv, HtlcInv, HtlcRecords
<1>3. HtlcInv'
    BY <1>1, <1>2 DEF SwapInv, HtlcInv, RefundAt
<1>4. EscrowInv'
    BY <1>1, <1>2 DEF SwapInv, EscrowInv, RefundAt
<1>5. RevealInv'
    BY <1>1, <1>2 DEF SwapInv, RevealInv
<1>6. PaidInv'
  <2>1. ASSUME t \in FinalizedInbound PROVE how # "refunded"
    <3>1. burn < RefundAt(t) /\ RefundAt(t) \in Nat /\ burn \in Nat
        BY <1>1, <2>1, PaidNotRefundable, HtlcNumbers
           DEF SwapperNeverBoth, RefundAt, SwapInv, ClockInv
    <3> QED
        BY <3>1
  <2> QED
    BY <1>1, <1>2, <2>1 DEF SwapInv, PaidInv, RevealInv, FinalizedInbound, RefundAt
<1> QED
    BY <1>1, <1>3, <1>4, <1>5, <1>6 DEF SwapInv, ClockInv

LEMMA EscrowStep ==
    ASSUME SwapInv, NEW t \in Txids, NEW c \in Controllers, NEW m \in 1 .. height,
           EscrowSwap(t, c, m)
    PROVE  SwapInv'
<1>1. /\ burn' = burn /\ burnAt' = burnAt /\ revealed' = revealed
      /\ htlcs' = htlcs /\ preimages' = preimages
      /\ t \in DOMAIN htlcs /\ WasTxMined(t, m)
    BY DEF EscrowSwap, clocks, bitcoin, Has
<1>2. PICK swap : /\ inboundSwaps' = Put(inboundSwaps, t, swap)
                  /\ swap.expiration = m + (htlcs[t].csv - EscrowExpiration)
    BY DEF EscrowSwap, EscrowUntil
<1>3. /\ m \in Nat /\ m <= burnAt[m] /\ burnAt[m] \in Nat
    BY DEF SwapInv, ClockInv, height
<1>4. burnAt[m] - htlcs[t].burn <= MaxPrevBlocks
    BY <1>1, <1>3, HtlcNumbers, ExpirationAssumption DEF WasTxMined
<1>5. /\ swap.expiration \in Int
      /\ swap.expiration <= RefundAt(t) - EscrowExpiration + MaxPrevBlocks
    BY <1>1, <1>2, <1>3, <1>4, HtlcNumbers, ExpirationAssumption DEF RefundAt
<1>6. /\ DOMAIN inboundSwaps' = DOMAIN inboundSwaps \cup {t}
      /\ inboundSwaps'[t] = swap
      /\ \A x \in DOMAIN inboundSwaps : x # t => inboundSwaps'[x] = inboundSwaps[x]
    BY <1>2 DEF Put
<1>7. EscrowInv'
    BY <1>1, <1>5, <1>6 DEF SwapInv, EscrowInv, RefundAt
<1> QED
    BY <1>1, <1>7 DEF SwapInv, ClockInv, HtlcInv, RevealInv, PaidInv, FinalizedInbound,
                      RefundAt

LEMMA RevealStep ==
    ASSUME SwapInv, NEW t \in Txids, t \in DOMAIN inboundSwaps, Reveal(t), burn' = burn,
           htlcs' = htlcs
    PROVE  /\ RevealInv'
           /\ t \in DOMAIN revealed' /\ revealed'[t] \in Nat /\ revealed'[t] <= burn
           /\ DOMAIN revealed \subseteq DOMAIN revealed'
           /\ \A x \in DOMAIN revealed : revealed'[x] = revealed[x]
<1>1. t \in DOMAIN htlcs /\ burn \in Nat
    BY DEF SwapInv, EscrowInv, ClockInv
<1>2. CASE t \in DOMAIN revealed
    BY <1>2 DEF Reveal, Has, SwapInv, RevealInv
<1>3. CASE t \notin DOMAIN revealed
  <2>1. /\ DOMAIN revealed' = DOMAIN revealed \cup {t} /\ revealed'[t] = burn
        /\ \A x \in DOMAIN revealed : revealed'[x] = revealed[x]
    BY <1>3 DEF Put, Reveal, Has
  <2> QED
    BY <1>1, <2>1, ExpirationAssumption DEF SwapInv, RevealInv
<1> QED
    BY <1>2, <1>3

LEMMA FinalizeStep ==
    ASSUME SwapInv, NEW t \in Txids, NEW u \in Principals, FinalizeSwap(t, u)
    PROVE  SwapInv'
<1>1. /\ burn' = burn /\ burnAt' = burnAt /\ htlcs' = htlcs
      /\ inboundSwaps' = inboundSwaps /\ preimages' = Put(preimages, t, "preimage")
      /\ t \in DOMAIN inboundSwaps /\ inboundSwaps[t].expiration >= height /\ Reveal(t)
    BY DEF FinalizeSwap, MayFinalize, clocks, Has
<1>2. t \in DOMAIN htlcs
    BY <1>1 DEF SwapInv, EscrowInv
<1>3. /\ burn <= RefundAt(t) - EscrowExpiration + MaxPrevBlocks + MaxMissed
      /\ burn < RefundAt(t)
  <2>1. /\ inboundSwaps[t].expiration \in Int
        /\ inboundSwaps[t].expiration <= RefundAt(t) - EscrowExpiration + MaxPrevBlocks
    BY <1>1 DEF SwapInv, EscrowInv
  <2>2. /\ height \in Nat /\ burn \in Nat /\ burn <= height + MaxMissed
    BY DEF SwapInv, ClockInv, height
  <2>3. RefundAt(t) \in Nat
    BY <1>2, HtlcNumbers
  <2> QED
    BY <1>1, <2>1, <2>2, <2>3, ExpirationAssumption, TimelyAssumption
<1>4. htlcs[t].spent # "refunded"
    BY <1>2, <1>3, HtlcNumbers DEF SwapInv, HtlcInv, ClockInv
<1>5. /\ RevealInv' /\ t \in DOMAIN revealed' /\ revealed'[t] \in Nat /\ revealed'[t] <= burn
      /\ DOMAIN revealed \subseteq DOMAIN revealed'
      /\ \A x \in DOMAIN revealed : revealed'[x] = revealed[x]
    BY <1>1, RevealStep
<1>6. FinalizedInbound' = FinalizedInbound \cup {t}
  <2>1. /\ DOMAIN preimages' = DOMAIN preimages \cup {t} /\ preimages'[t] = "preimage"
        /\ \A x \in DOMAIN preimages : x # t => preimages'[x] = preimages[x]
    BY <1>1 DEF Put
  <2> QED
    BY <2>1 DEF FinalizedInbound
<1>7. revealed'[t] <= RefundAt(t) - EscrowExpiration + MaxPrevBlocks + MaxMissed
    BY <1>2, <1>3, <1>5, HtlcNumbers, ExpirationAssumption DEF SwapInv, ClockInv
<1>8. PaidInv'
    BY <1>1, <1>4, <1>5, <1>6, <1>7 DEF SwapInv, PaidInv, RefundAt
<1> QED
    BY <1>1, <1>5, <1>8 DEF SwapInv, ClockInv, HtlcInv, EscrowInv, RefundAt

LEMMA FailStep ==
    ASSUME SwapInv, NEW t \in Txids, NEW u \in Principals, FinalizeFails(t, u)
    PROVE  SwapInv'
<1>1. /\ burn' = burn /\ burnAt' = burnAt /\ htlcs' = htlcs
      /\ inboundSwaps' = inboundSwaps /\ preimages' = preimages
      /\ t \in DOMAIN inboundSwaps /\ Reveal(t)
    BY DEF FinalizeFails, clocks, inbound, Has
<1>2. /\ RevealInv' /\ DOMAIN revealed \subseteq DOMAIN revealed'
      /\ \A x \in DOMAIN revealed : revealed'[x] = revealed[x]
    BY <1>1, RevealStep
<1>3. PaidInv'
    BY <1>1, <1>2 DEF SwapInv, PaidInv, FinalizedInbound, RefundAt
<1> QED
    BY <1>1, <1>2, <1>3 DEF SwapInv, ClockInv, HtlcInv, EscrowInv, RefundAt

LEMMA RevokeStep ==
    ASSUME SwapInv, NEW t \in Txids, RevokeExpiredInbound(t)
    PROVE  SwapInv'
<1>1. /\ burn' = burn /\ burnAt' = burnAt /\ htlcs' = htlcs /\ revealed' = revealed
      /\ inboundSwaps' = inboundSwaps
      /\ preimages' = Put(preimages, t, RevokedPreimage) /\ t \notin DOMAIN preimages
    BY DEF RevokeExpiredInbound, MayRevokeInbound, clocks, bitcoin, Has
<1>2. FinalizedInbound' = FinalizedInbound
  <2>1. /\ DOMAIN preimages' = DOMAIN preimages \cup {t} /\ preimages'[t] = RevokedPreimage
        /\ \A x \in DOMAIN preimages : x # t => preimages'[x] = preimages[x]
    BY <1>1 DEF Put
  <2> QED
    BY <1>1, <2>1 DEF FinalizedInbound, RevokedPreimage
<1> QED
    BY <1>1, <1>2 DEF SwapInv, ClockInv, HtlcInv, EscrowInv, RevealInv, PaidInv, RefundAt

LEMMA SwapStep == SwapInv /\ [Next]_bridgeVars => SwapInv'
<1> SUFFICES ASSUME SwapInv, [Next]_bridgeVars PROVE SwapInv'
    OBVIOUS
<1>0. CASE UNCHANGED <<burn, burnAt, htlcs, revealed, inboundSwaps, preimages>>
    BY <1>0 DEF SwapInv, ClockInv, HtlcInv, EscrowInv, RevealInv, PaidInv,
                FinalizedInbound, RefundAt
<1>1. CASE UNCHANGED bridgeVars
    BY <1>0, <1>1 DEF bridgeVars, clocks, bitcoin, inbound
<1>2. ASSUME NEW c \in Controllers, SupplierCalls(c) PROVE SwapInv'
    BY <1>0, <1>2 DEF SupplierCalls, RegisterSupplier, UpdateSupplierPublicKey, AddFunds,
                      RemoveFunds, UpdateSupplierFees, clocks, bitcoin, inbound
<1>3. ASSUME NEW u \in Swappers, InitializeSwapper(u) PROVE SwapInv'
    BY <1>0, <1>3 DEF InitializeSwapper, clocks, bitcoin, inbound
<1>4. ASSUME NEW t \in Txids, InboundCalls(t) PROVE SwapInv'
    BY <1>4, EscrowStep, FinalizeStep, FailStep, RevokeStep DEF InboundCalls
<1>5. CASE OutboundCalls
    BY <1>0, <1>5 DEF OutboundCalls, InitiateOutboundSwap, FinalizeOutboundSwap,
                      RevokeExpiredOutbound, clocks, bitcoin, inbound
<1>6. CASE Bitcoin
  <2>1. ASSUME NEW p \in Payments, NEW u \in Swappers, NEW sats \in Sats, Pay(p, u, sats)
        PROVE  SwapInv'
    BY <1>0, <2>1 DEF Pay, clocks, inbound
  <2>2. ASSUME NEW t \in Txids, RedeemHtlc(t) PROVE SwapInv'
    BY <2>2, SpendStep DEF RedeemHtlc
  <2>3. ASSUME NEW t \in Txids, RefundHtlc(t) PROVE SwapInv'
    BY <2>3, SpendStep DEF RefundHtlc, RefundAt
  <2> QED
    BY <1>6, <2>1, <2>2, <2>3, BlockStep, SendStep DEF Bitcoin
<1> QED
    BY <1>1, <1>2, <1>3, <1>4, <1>5, <1>6 DEF Next

\* No swapper is paid by finalize-swap and refunded by the script of its HTLC,
\* for every expiration the contract accepts, provided that the bitcoin blocks
\* without a Stacks block, those the proof of the transaction skipped and those
\* the supplier takes to redeem are fewer than ESCROW_EXPIRATION together.
THEOREM NeverBoth == Spec => []SwapperNeverBoth
<1>1. Init => SwapInv
    BY ExpirationAssumption
       DEF Init, Empty, SwapInv, ClockInv, HtlcInv, EscrowInv, RevealInv, PaidInv,
           FinalizedInbound
<1> QED
    BY <1>1, SwapStep, PaidNotRefundable, PTL DEF Spec

-----------------------------------------------------------------------------
(* Every outbound swap has a payment of its own *)

\* Swaps are numbered in order, and what is completed was initiated.
NumberedInv ==
    /\ nextOutbound \in Nat
    /\ DOMAIN outboundSwaps = 0 .. nextOutbound - 1
    /\ DOMAIN completed \subseteq DOMAIN outboundSwaps

OutboundInv == NumberedInv /\ OutboundPaidOnce

LEMMA InitiateStep ==
    ASSUME OutboundInv, NEW u \in Swappers, NEW xbtc, NEW c \in Controllers,
           InitiateOutboundSwap(u, xbtc, c)
    PROVE  OutboundInv'
<1>1. /\ nextOutbound' = nextOutbound + 1 /\ payments' = payments
      /\ completed' = completed /\ completedTxids' = completedTxids
      /\ \E swap : outboundSwaps' = Put(outboundSwaps, nextOutbound, swap)
    BY DEF InitiateOutboundSwap, bitcoin
<1>2. /\ DOMAIN outboundSwaps' = DOMAIN outboundSwaps \cup {nextOutbound}
      /\ \A i \in DOMAIN outboundSwaps :
           i # nextOutbound => outboundSwaps'[i] = outboundSwaps[i]
    BY <1>1 DEF Put
<1>3. NumberedInv'
    BY <1>1, <1>2 DEF OutboundInv, NumberedInv
<1>4. \A i \in FinalizedOutbound : outboundSwaps'[i] = outboundSwaps[i]
    BY <1>2 DEF OutboundInv, NumberedInv, FinalizedOutbound
<1>5. OutboundPaidOnce'
    BY <1>1, <1>4 DEF OutboundInv, OutboundPaidOnce, FinalizedOutbound, Has
<1> QED
    BY <1>3, <1>5 DEF OutboundInv

LEMMA CompleteStep ==
    ASSUME OutboundInv, NEW i, NEW p \in Payments, FinalizeOutboundSwap(i, p)
    PROVE  OutboundInv'
<1>1. /\ nextOutbound' = nextOutbound /\ payments' = payments
      /\ outboundSwaps' = outboundSwaps
      /\ i \in DOMAIN outboundSwaps /\ p \in DOMAIN payments
      /\ payments[p].to = outboundSwaps[i].swapper
      /\ payments[p].sats >= outboundSwaps[i].sats
    BY DEF FinalizeOutboundSwap, bitcoin, Has
<1>2. i \notin DOMAIN completed /\ p \notin DOMAIN completedTxids
    BY DEF FinalizeOutboundSwap, MayFinalizeOutbound, Has
<1>3. /\ DOMAIN completed' = DOMAIN completed \cup {i} /\ completed'[i] = p
      /\ \A x \in DOMAIN completed : completed'[x] = completed[x]
    BY <1>2 DEF FinalizeOutboundSwap, Put
<1>4. /\ DOMAIN completedTxids' = DOMAIN completedTxids \cup {p}
      /\ completedTxids'[p] = i
      /\ \A x \in DOMAIN completedTxids : completedTxids'[x] = completedTxids[x]
    BY <1>2 DEF FinalizeOutboundSwap, Put
<1>5. FinalizedOutbound' = FinalizedOutbound \cup {i}
    BY <1>2, <1>3 DEF FinalizedOutbound
<1>6. NumberedInv'
    BY <1>1, <1>3 DEF OutboundInv, NumberedInv
<1>7. ASSUME NEW x \in FinalizedOutbound'
      PROVE  /\ completed'[x] \in DOMAIN payments
             /\ payments[completed'[x]].to = outboundSwaps[x].swapper
             /\ payments[completed'[x]].sats >= outboundSwaps[x].sats
             /\ completed'[x] \in DOMAIN completedTxids'
             /\ completedTxids'[completed'[x]] = x
  <2>1. CASE x = i
    BY <1>1, <1>3, <1>4, <2>1
  <2>2. CASE x \in FinalizedOutbound
    BY <1>3, <1>4, <2>2 DEF OutboundInv, OutboundPaidOnce, FinalizedOutbound, Has
  <2> QED
    BY <1>5, <2>1, <2>2
<1>8. \A q \in DOMAIN completedTxids' : completedTxids'[q] \in FinalizedOutbound'
    BY <1>4, <1>5 DEF OutboundInv, OutboundPaidOnce
<1>9. OutboundPaidOnce'
    BY <1>1, <1>7, <1>8 DEF OutboundPaidOnce, Has
<1> QED
    BY <1>6, <1>9 DEF OutboundInv

LEMMA RevokeOutboundStep ==
    ASSUME OutboundInv, NEW i, RevokeExpiredOutbound(i)
    PROVE  OutboundInv'
<1>1. /\ nextOutbound' = nextOutbound /\ payments' = payments
      /\ outboundSwaps' = outboundSwaps /\ completedTxids' = completedTxids
      /\ i \in DOMAIN outboundSwaps /\ i \notin DOMAIN completed
    BY DEF RevokeExpiredOutbound, OutboundRevocable, bitcoin, Has
<1>2. /\ DOMAIN completed' = DOMAIN completed \cup {i}
      /\ completed'[i] = RevokedTxid
      /\ \A x \in DOMAIN completed : completed'[x] = completed[x]
    BY <1>1 DEF RevokeExpiredOutbound, Put
<1>3. FinalizedOutbound' = FinalizedOutbound
    BY <1>1, <1>2, NamesAssumption DEF FinalizedOutbound, RevokedTxid
<1>4. \A x \in FinalizedOutbound : completed'[x] = completed[x]
    BY <1>2 DEF FinalizedOutbound
<1> QED
    BY <1>1, <1>2, <1>3, <1>4 DEF OutboundInv, NumberedInv, OutboundPaidOnce, Has

LEMMA PayStep ==
    ASSUME OutboundInv, NEW p, NEW u, NEW sats, Pay(p, u, sats)
    PROVE  OutboundInv'
<1>1. /\ nextOutbound' = nextOutbound /\ completed' = completed
      /\ outboundSwaps' = outboundSwaps /\ completedTxids' = completedTxids
    BY DEF Pay, outbound
<1>2. /\ DOMAIN payments \subseteq DOMAIN payments'
      /\ \A x \in DOMAIN payments : payments'[x] = payments[x]
    BY DEF Pay, Put, Has
<1> QED
    BY <1>1, <1>2 DEF OutboundInv, NumberedInv, OutboundPaidOnce, FinalizedOutbound, Has

LEMMA OutboundStep == OutboundInv /\ [Next]_bridgeVars => OutboundInv'
<1> SUFFICES ASSUME OutboundInv, [Next]_bridgeVars PROVE OutboundInv'
    OBVIOUS
<1>0. CASE UNCHANGED <<payments, outbound>>
    BY <1>0 DEF OutboundInv, NumberedInv, OutboundPaidOnce, FinalizedOutbound, Has, outbound
<1>1. CASE UNCHANGED bridgeVars
    BY <1>0, <1>1 DEF bridgeVars, bitcoin
<1>2. ASSUME NEW c \in Controllers, SupplierCalls(c) PROVE OutboundInv'
    BY <1>0, <1>2 DEF SupplierCalls, RegisterSupplier, UpdateSupplierPublicKey, AddFunds,
                      RemoveFunds, UpdateSupplierFees, bitcoin
<1>3. ASSUME NEW u \in Swappers, InitializeSwapper(u) PROVE OutboundInv'
    BY <1>0, <1>3 DEF InitializeSwapper, bitcoin
<1>4. ASSUME NEW t \in Txids, InboundCalls(t) PROVE OutboundInv'
    BY <1>0, <1>4 DEF InboundCalls, EscrowSwap, FinalizeSwap, FinalizeFails,
                      RevokeExpiredInbound, bitcoin
<1>5. CASE OutboundCalls
    BY <1>5, InitiateStep, CompleteStep, RevokeOutboundStep DEF OutboundCalls
<1>6. CASE Bitcoin
    BY <1>0, <1>6, PayStep
       DEF Bitcoin, BitcoinBlock, SendHtlc, RedeemHtlc, RefundHtlc, Spend, bitcoin
<1> QED
    BY <1>1, <1>2, <1>3, <1>4, <1>5, <1>6 DEF Next

\* A supplier gets the xBTC of an outbound swap for a bitcoin payment of its
\* own, large enough and to its swapper, however many swaps are open at once,
\* revoked in between, or could be served by the same payment.
THEOREM PaidOwnPayment == Spec => []OutboundPaidOnce
<1>1. Init => OutboundInv
    BY DEF Init, Empty, OutboundInv, NumberedInv, OutboundPaidOnce, FinalizedOutbound
<1>2. OutboundInv => OutboundPaidOnce
    BY DEF OutboundInv
<1> QED
    BY <1>1, <1>2, OutboundStep, PTL DEF Spec

-----------------------------------------------------------------------------
(* The contract implements the ledger *)

\* A supplier that is not registered has no funds; what a swap is made of.
Registers ==
    /\ supplierKey \in [Controllers -> Keys \cup {None}]
    /\ fees \in [Controllers -> [in : InFees, out : OutFees] \cup {None}]
    /\ \A c \in Controllers :
         IF Registered(c) THEN fees[c] \in [in : InFees, out : OutFees] ELSE funds[c] = 0

Amounts == funds \in [Controllers -> Nat] /\ wbtc \in [Owners -> Nat]

Parts(swap) ==
    /\ swap.xbtc \in Nat \ {0}
    /\ swap.supplier \in Controllers /\ Registered(swap.supplier)
    /\ swap.swapper \in Swappers

SwapParts ==
    /\ DOMAIN inboundSwaps \subseteq Txids
    /\ DOMAIN preimages \subseteq DOMAIN inboundSwaps
    /\ NumberedInv /\ nextOutbound <= MaxOutbound
    /\ \A t \in DOMAIN inboundSwaps : Parts(inboundSwaps[t])
    /\ \A i \in DOMAIN outboundSwaps : Parts(outboundSwaps[i])

LedgerInv == Registers /\ Amounts /\ SwapParts

Locks == [w \in Swaps |-> Locked(w)]
Backers == [w \in Swaps |-> Backer(w)]
LedgerStep == [Ledger!Next]_(Ledger!ledgerVars)

LEMMA FeesPaid ==
    ASSUME NEW sats \in Nat, NEW fee \in InFees \cup OutFees
    PROVE  SwapAmount(sats, fee) \in Int
<1>1. fee.rate \in Int /\ fee.base \in Int
  BY AmountsAssumption
<1>2. sats * (10000 - fee.rate) \in Int
  BY <1>1
<1>3. (sats * (10000 - fee.rate)) \div 10000 \in Int
  BY <1>2
<1> QED
  BY <1>1, <1>3 DEF SwapAmount

LEMMA Owned ==
    /\ Contract \in Owners /\ Exchange \in Owners /\ Contract # Exchange
    /\ Principals \subseteq Owners
    /\ \A p \in Principals : p # Contract /\ p # Exchange
BY NamesAssumption DEF Owners, Contract, Exchange, Principals

\* A transfer takes from the one what it gives to the other.
LEMMA TransferMoves ==
    ASSUME wbtc \in [Owners -> Nat], NEW from \in Owners, NEW to \in Owners, from # to,
           NEW amount \in Nat, MayTransfer(from, amount)
    PROVE  /\ Transferred(from, to, amount) \in [Owners -> Nat]
           /\ Transferred(from, to, amount)[from] = wbtc[from] - amount
           /\ Transferred(from, to, amount)[to] = wbtc[to] + amount
           /\ \A o \in Owners \ {from, to} : Transferred(from, to, amount)[o] = wbtc[o]
           /\ amount # 0
BY DEF Transferred, MayTransfer

\* One swap changes what it holds.
LEMMA OneLock ==
    ASSUME NEW w \in Swaps, \A v \in Swaps \ {w} : Locked(v)' = Locked(v)
    PROVE  /\ Locks' = [Locks EXCEPT ![w] = Locks'[w]]
           /\ Locks[w] = Locked(w) /\ Locks'[w] = Locked(w)'
BY DEF Locks

LEMMA SameBackers ==
    ASSUME UNCHANGED <<inboundSwaps, outboundSwaps>>
    PROVE  UNCHANGED Backers
BY DEF Backers, Backer, Has

LEMMA SameSwaps ==
    ASSUME UNCHANGED <<inboundSwaps, preimages, outboundSwaps, completed>>
    PROVE  UNCHANGED <<Locks, Backers, Settled>>
BY SameBackers DEF Locks, Locked, Settled, OpenInbound, OpenOutbound

\* A step that moves nothing
LEMMA NothingMoves ==
    ASSUME UNCHANGED <<inboundSwaps, preimages, outboundSwaps, completed, funds, wbtc>>
    PROVE  LedgerStep
BY SameSwaps DEF LedgerStep, Ledger!ledgerVars, Locks, Backers

LEMMA MoveStep ==
    ASSUME LedgerInv, NEW c \in Controllers,
           UNCHANGED <<inboundSwaps, preimages, outboundSwaps, completed>>,
           NEW amount \in Nat, funds' = [funds EXCEPT ![c] = amount],
           wbtc'[Contract] = wbtc[Contract] + (amount - funds[c])
    PROVE  LedgerStep
<1>1. UNCHANGED <<Locks, Backers, Settled>>
  BY SameSwaps
<1>2. funds'[c] = amount /\ funds' = [funds EXCEPT ![c] = funds'[c]]
  BY DEF LedgerInv, Amounts
<1>3. Ledger!Move(c)
  BY <1>1, <1>2 DEF Ledger!Move, Locks, Backers
<1> QED
  BY <1>3 DEF LedgerStep, Ledger!Next

\* A swap that is made is with its supplier, and no other changes its own.
LEMMA InboundBacker ==
    ASSUME NEW t \in Txids, NEW swap, inboundSwaps' = Put(inboundSwaps, t, swap),
           UNCHANGED outboundSwaps
    PROVE  Backers' = [Backers EXCEPT ![<<"in", t>>] = swap.supplier]
<1> DEFINE w == <<"in", t>>
<1>1. w \in Swaps /\ w[1] = "in" /\ w[2] = t
  BY DEF Swaps
<1>2. Backer(w)' = swap.supplier
  BY <1>1 DEF Backer, Has, Put
<1>3. ASSUME NEW v \in Swaps \ {w} PROVE Backer(v)' = Backer(v)
  <2>1. v[1] = "in" => v[2] # t
    BY DEF Swaps
  <2> QED
    BY <2>1 DEF Backer, Has, Put
<1> QED
  BY <1>1, <1>2, <1>3 DEF Backers

LEMMA OutboundBacker ==
    ASSUME NEW i \in OutboundIds, NEW swap, outboundSwaps' = Put(outboundSwaps, i, swap),
           UNCHANGED inboundSwaps
    PROVE  Backers' = [Backers EXCEPT ![<<"out", i>>] = swap.supplier]
<1> DEFINE w == <<"out", i>>
<1>1. w \in Swaps /\ w[1] = "out" /\ w[2] = i
  BY DEF Swaps
<1>2. Backer(w)' = swap.supplier
  BY <1>1 DEF Backer, Has, Put
<1>3. ASSUME NEW v \in Swaps \ {w} PROVE Backer(v)' = Backer(v)
  <2>1. v[1] = "in" \/ (v[1] = "out" /\ v[2] # i)
    BY DEF Swaps
  <2> QED
    BY <2>1 DEF Backer, Has, Put
<1> QED
  BY <1>1, <1>2, <1>3 DEF Backers

\* Only one inbound, or outbound, swap is touched.
LEMMA InboundLock ==
    ASSUME NEW t \in Txids, UNCHANGED <<outboundSwaps, completed>>,
           \A x \in Txids \ {t} :
              /\ x \in OpenInbound' <=> x \in OpenInbound
              /\ x \in OpenInbound => inboundSwaps'[x] = inboundSwaps[x]
    PROVE  /\ <<"in", t>> \in Swaps
           /\ Locks' = [Locks EXCEPT ![<<"in", t>>] = Locks'[<<"in", t>>]]
           /\ Locks[<<"in", t>>] = IF t \in OpenInbound THEN inboundSwaps[t].xbtc ELSE 0
           /\ Locks'[<<"in", t>>] = IF t \in OpenInbound' THEN inboundSwaps'[t].xbtc ELSE 0
<1> DEFINE w == <<"in", t>>
<1>1. w \in Swaps /\ w[1] = "in" /\ w[2] = t
  BY DEF Swaps
<1>2. ASSUME NEW v \in Swaps \ {w} PROVE Locked(v)' = Locked(v)
  <2>1. CASE v[1] = "in"
    <3>1. v[2] \in Txids \ {t}
      BY <2>1 DEF Swaps
    <3> QED
      BY <2>1, <3>1 DEF Locked
  <2>2. CASE v[1] # "in"
    BY <2>2 DEF Locked, OpenOutbound
  <2> QED
    BY <2>1, <2>2
<1>3. /\ Locks' = [Locks EXCEPT ![w] = Locks'[w]]
      /\ Locks[w] = Locked(w) /\ Locks'[w] = Locked(w)'
  BY <1>1, <1>2, OneLock
<1> QED
  BY <1>1, <1>3 DEF Locked

LEMMA OutboundLock ==
    ASSUME NEW i \in OutboundIds, UNCHANGED <<inboundSwaps, preimages>>,
           \A x \in OutboundIds \ {i} :
              /\ x \in OpenOutbound' <=> x \in OpenOutbound
              /\ x \in OpenOutbound => outboundSwaps'[x] = outboundSwaps[x]
    PROVE  /\ <<"out", i>> \in Swaps
           /\ Locks' = [Locks EXCEPT ![<<"out", i>>] = Locks'[<<"out", i>>]]
           /\ Locks[<<"out", i>>] = IF i \in OpenOutbound THEN outboundSwaps[i].xbtc ELSE 0
           /\ Locks'[<<"out", i>>] = IF i \in OpenOutbound' THEN outboundSwaps'[i].xbtc ELSE 0
<1> DEFINE w == <<"out", i>>
<1>1. w \in Swaps /\ w[1] = "out" /\ w[2] = i
  BY DEF Swaps
<1>2. ASSUME NEW v \in Swaps \ {w} PROVE Locked(v)' = Locked(v)
  <2>1. CASE v[1] = "out"
    <3>1. v[2] \in OutboundIds \ {i}
      BY <2>1 DEF Swaps
    <3> QED
      BY <2>1, <3>1 DEF Locked
  <2>2. CASE v[1] # "out"
    <3>1. v[1] = "in"
      BY <2>2 DEF Swaps
    <3> QED
      BY <3>1 DEF Locked, OpenInbound
  <2> QED
    BY <2>1, <2>2
<1>3. /\ Locks' = [Locks EXCEPT ![w] = Locks'[w]]
      /\ Locks[w] = Locked(w) /\ Locks'[w] = Locked(w)'
  BY <1>1, <1>2, OneLock
<1> QED
  BY <1>1, <1>3 DEF Locked

\* The steps of the ledger, said of Locks and Settled.
LEMMA OpensFromFunds ==
    ASSUME NEW w \in Swaps, NEW c \in Controllers, w \notin Settled, Locks[w] = 0,
           Locks' = [Locks EXCEPT ![w] = Locks'[w]], Locks'[w] \in Nat \ {0},
           Backers' = [Backers EXCEPT ![w] = c], UNCHANGED <<Settled, wbtc>>, funds[c] >= Locks'[w],
           funds' = [funds EXCEPT ![c] = @ - Locks'[w]]
    PROVE  LedgerStep
<1>1. Ledger!OpenFromFunds(w, c)
  BY DEF Ledger!OpenFromFunds, Ledger!Lock, Locks, Backers
<1> QED
  BY <1>1 DEF LedgerStep, Ledger!Next

LEMMA OpensFromOutside ==
    ASSUME NEW w \in Swaps, NEW c \in Controllers, w \notin Settled, Locks[w] = 0,
           Locks' = [Locks EXCEPT ![w] = Locks'[w]], Locks'[w] \in Nat \ {0},
           Backers' = [Backers EXCEPT ![w] = c], UNCHANGED <<Settled, funds>>,
           wbtc'[Contract] = wbtc[Contract] + Locks'[w]
    PROVE  LedgerStep
<1>1. Ledger!OpenFromOutside(w, c)
  BY DEF Ledger!OpenFromOutside, Ledger!Lock, Locks, Backers
<1> QED
  BY <1>1 DEF LedgerStep, Ledger!Next

LEMMA SettlesToFunds ==
    ASSUME NEW w \in Swaps, Locks[w] > 0,
           Settled' = Settled \cup {w}, Locks' = [Locks EXCEPT ![w] = 0],
           funds' = [funds EXCEPT ![Backers[w]] = @ + Locks[w]], UNCHANGED <<Backers, wbtc>>
    PROVE  LedgerStep
<1>1. Ledger!SettleToFunds(w)
  BY DEF Ledger!SettleToFunds, Ledger!Unlock, Locks, Backers
<1> QED
  BY <1>1 DEF LedgerStep, Ledger!Next

LEMMA SettlesToOutside ==
    ASSUME NEW w \in Swaps, Locks[w] > 0,
           Settled' = Settled \cup {w}, Locks' = [Locks EXCEPT ![w] = 0],
           wbtc'[Contract] = wbtc[Contract] - Locks[w], UNCHANGED <<Backers, funds>>
    PROVE  LedgerStep
<1>1. Ledger!SettleToOutside(w)
  BY DEF Ledger!SettleToOutside, Ledger!Unlock, Locks, Backers
<1> QED
  BY <1>1 DEF LedgerStep, Ledger!Next

\* Swaps that stay as they are keep their parts.
LEMMA PartsKept ==
    ASSUME SwapParts, UNCHANGED <<inboundSwaps, preimages, outboundSwaps, nextOutbound, completed>>,
           \A c \in Controllers : Registered(c) => Registered(c)'
    PROVE  SwapParts'
BY DEF SwapParts, Parts, NumberedInv

LEMMA NothingStep ==
    ASSUME LedgerInv,
           UNCHANGED <<supplierKey, fees, funds, wbtc, inboundSwaps, preimages,
                       outboundSwaps, nextOutbound, completed>>
    PROVE  LedgerInv' /\ LedgerStep
<1>1. SwapParts'
  BY PartsKept DEF LedgerInv, Registered
<1> QED
  BY <1>1, NothingMoves DEF LedgerInv, Registers, Amounts, Registered

-----------------------------------------------------------------------------
(* Suppliers *)

LEMMA RegisterStep ==
    ASSUME LedgerInv, NEW c \in Controllers, NEW key \in Keys, NEW inFee \in InFees,
           NEW outFee \in OutFees, NEW amount \in Sats,
           RegisterSupplier(c, key, inFee, outFee, amount)
    PROVE  LedgerInv' /\ LedgerStep
<1>1. /\ c \in Owners /\ Contract \in Owners /\ c # Contract /\ amount \in Nat
  BY Owned, AmountsAssumption DEF Principals
<1>2. /\ UNCHANGED <<inboundSwaps, preimages, outboundSwaps, nextOutbound, completed>>
      /\ ~Registered(c) /\ MayTransfer(c, amount)
      /\ supplierKey' = [supplierKey EXCEPT ![c] = key]
      /\ fees' = [fees EXCEPT ![c] = [in |-> inFee, out |-> outFee]]
      /\ wbtc' = Transferred(c, Contract, amount)
      /\ funds' = [funds EXCEPT ![c] = amount]
  BY DEF RegisterSupplier, inbound, outbound
<1>3. /\ wbtc' \in [Owners -> Nat] /\ wbtc'[Contract] = wbtc[Contract] + amount
  BY <1>1, <1>2, TransferMoves DEF LedgerInv, Amounts
<1>4. Registers'
  <2>1. key # None
    BY NamesAssumption DEF None
  <2>2. [in |-> inFee, out |-> outFee] \in [in : InFees, out : OutFees]
    OBVIOUS
  <2> QED
    BY <1>2, <2>1, <2>2 DEF LedgerInv, Amounts, Registers, Registered
<1>5. Amounts'
  BY <1>1, <1>2, <1>3 DEF LedgerInv, Amounts
<1>6. SwapParts'
  BY <1>2, PartsKept, NamesAssumption DEF LedgerInv, Registers, Registered, None
<1>7. funds[c] = 0
  BY <1>2 DEF LedgerInv, Registers
<1>8. LedgerStep
  <2>1. amount = amount - funds[c]
    BY <1>1, <1>7
  <2> QED
    BY <1>1, <1>2, <1>3, <2>1, MoveStep
<1> QED
  BY <1>4, <1>5, <1>6, <1>8 DEF LedgerInv

LEMMA AddStep ==
    ASSUME LedgerInv, NEW c \in Controllers, NEW amount \in Sats, AddFunds(c, amount)
    PROVE  LedgerInv' /\ LedgerStep
<1>1. /\ c \in Owners /\ Contract \in Owners /\ c # Contract /\ amount \in Nat
  BY Owned, AmountsAssumption DEF Principals
<1>2. /\ UNCHANGED <<supplierKey, fees, inboundSwaps, preimages, outboundSwaps,
                     nextOutbound, completed>>
      /\ Registered(c) /\ MayTransfer(c, amount)
      /\ wbtc' = Transferred(c, Contract, amount)
      /\ funds' = [funds EXCEPT ![c] = funds[c] + amount]
  BY DEF AddFunds, inbound, outbound, suppliers
<1>3. /\ wbtc' \in [Owners -> Nat] /\ wbtc'[Contract] = wbtc[Contract] + amount
  BY <1>1, <1>2, TransferMoves DEF LedgerInv, Amounts
<1>4. Amounts' /\ Registers'
  BY <1>1, <1>2, <1>3 DEF LedgerInv, Amounts, Registers, Registered
<1>5. SwapParts'
  BY <1>2, PartsKept DEF LedgerInv, Registered
<1>6. LedgerStep
  <2>1. funds[c] + amount \in Nat /\ amount = (funds[c] + amount) - funds[c]
    BY <1>1 DEF LedgerInv, Amounts
  <2> QED
    BY <1>2, <1>3, <2>1, MoveStep
<1> QED
  BY <1>4, <1>5, <1>6 DEF LedgerInv

LEMMA RemoveStep ==
    ASSUME LedgerInv, NEW c \in Controllers, NEW amount \in Sats, RemoveFunds(c, amount)
    PROVE  LedgerInv' /\ LedgerStep
<1>1. /\ c \in Owners /\ Contract \in Owners /\ c # Contract /\ amount \in Nat
  BY Owned, AmountsAssumption DEF Principals
<1>2. /\ UNCHANGED <<supplierKey, fees, inboundSwaps, preimages, outboundSwaps,
                     nextOutbound, completed>>
      /\ Registered(c) /\ funds[c] >= amount /\ MayTransfer(Contract, amount)
      /\ wbtc' = Transferred(Contract, c, amount)
      /\ funds' = [funds EXCEPT ![c] = funds[c] - amount]
  BY DEF RemoveFunds, MayRemove, inbound, outbound, suppliers
<1>3. /\ wbtc' \in [Owners -> Nat] /\ wbtc'[Contract] = wbtc[Contract] - amount
      /\ wbtc[Contract] \in Nat
  BY <1>1, <1>2, TransferMoves DEF LedgerInv, Amounts
<1>4. funds[c] - amount \in Nat /\ funds[c] \in Nat
  BY <1>1, <1>2 DEF LedgerInv, Amounts
<1>5. Amounts' /\ Registers'
  BY <1>2, <1>3, <1>4 DEF LedgerInv, Amounts, Registers, Registered
<1>6. SwapParts'
  BY <1>2, PartsKept DEF LedgerInv, Registered
<1>7. wbtc'[Contract] = wbtc[Contract] + ((funds[c] - amount) - funds[c])
  BY <1>1, <1>3, <1>4
<1>8. LedgerStep
  BY <1>2, <1>4, <1>7, MoveStep
<1> QED
  BY <1>5, <1>6, <1>8 DEF LedgerInv

LEMMA FeesStep ==
    ASSUME LedgerInv, NEW c \in Controllers, NEW inFee \in InFees, NEW outFee \in OutFees,
           UpdateSupplierFees(c, inFee, outFee)
    PROVE  LedgerInv' /\ LedgerStep
<1>1. /\ UNCHANGED <<supplierKey, funds, wbtc, inboundSwaps, preimages, outboundSwaps,
                     nextOutbound, completed>>
      /\ fees' = [fees EXCEPT ![c] = [in |-> inFee, out |-> outFee]]
  BY DEF UpdateSupplierFees, inbound, outbound
<1>2. [in |-> inFee, out |-> outFee] \in [in : InFees, out : OutFees]
  OBVIOUS
<1>3. Registers' /\ Amounts'
  BY <1>1, <1>2 DEF LedgerInv, Registers, Amounts, Registered
<1>4. SwapParts'
  BY <1>1, PartsKept DEF LedgerInv, Registered
<1> QED
  BY <1>1, <1>3, <1>4, NothingMoves DEF LedgerInv

LEMMA KeyStep ==
    ASSUME LedgerInv, NEW c \in Controllers, NEW key \in Keys, UpdateSupplierPublicKey(c, key)
    PROVE  LedgerInv' /\ LedgerStep
<1>1. /\ UNCHANGED <<fees, funds, wbtc, inboundSwaps, preimages, outboundSwaps,
                     nextOutbound, completed>>
      /\ supplierKey' = [supplierKey EXCEPT ![c] = key] /\ Registered(c)
  BY DEF UpdateSupplierPublicKey, inbound, outbound
<1>2. \A d \in Controllers : Registered(d)' <=> Registered(d)
  BY <1>1, NamesAssumption DEF LedgerInv, Registers, Registered, None
<1>3. Registers' /\ Amounts'
  BY <1>1, <1>2 DEF LedgerInv, Registers, Amounts
<1>4. SwapParts'
  BY <1>1, <1>2, PartsKept DEF LedgerInv
<1> QED
  BY <1>1, <1>3, <1>4, NothingMoves DEF LedgerInv

-----------------------------------------------------------------------------
(* Swaps *)

LEMMA OpensStep ==
    ASSUME LedgerInv, SwapInv, NEW t \in Txids, NEW c \in Controllers, NEW m \in 1 .. height,
           EscrowSwap(t, c, m)
    PROVE  LedgerInv' /\ LedgerStep
<1> DEFINE xbtc == SwapAmount(htlcs[t].sats, fees[c].in)
           swap == [swapper |-> htlcs[t].swapper, xbtc |-> xbtc, supplier |-> c,
                    expiration |-> EscrowUntil(htlcs[t].csv, m)]
<1>1. /\ UNCHANGED <<supplierKey, fees, wbtc, preimages, outboundSwaps, nextOutbound,
                     completed>>
      /\ t \in DOMAIN htlcs /\ Registered(c) /\ xbtc > 0 /\ funds[c] >= xbtc
      /\ t \notin DOMAIN inboundSwaps /\ inboundSwaps' = Put(inboundSwaps, t, swap)
      /\ funds' = [funds EXCEPT ![c] = funds[c] - xbtc]
  BY DEF EscrowSwap, suppliers, outbound, Has
<1>2. htlcs[t].sats \in Nat /\ htlcs[t].swapper \in Swappers
  BY <1>1, AmountsAssumption DEF SwapInv, HtlcInv, HtlcRecords
<1>3. xbtc \in Nat \ {0}
  <2>1. fees[c].in \in InFees
    BY <1>1 DEF LedgerInv, Registers
  <2>2. xbtc \in Int
    BY <1>2, <2>1, FeesPaid
  <2> QED
    BY <1>1, <2>2
<1> HIDE DEF xbtc
<1>4. Parts(swap)
  BY <1>1, <1>2, <1>3 DEF Parts
<1>5. /\ DOMAIN inboundSwaps' = DOMAIN inboundSwaps \cup {t}
      /\ inboundSwaps'[t] = swap
      /\ \A x \in DOMAIN inboundSwaps : inboundSwaps'[x] = inboundSwaps[x]
  BY <1>1 DEF Put
<1>6. funds[c] - xbtc \in Nat
  BY <1>1, <1>3 DEF LedgerInv, Amounts
<1>7. Registers' /\ Amounts'
  BY <1>1, <1>6 DEF LedgerInv, Registers, Amounts, Registered
<1>8. SwapParts'
  BY <1>1, <1>4, <1>5 DEF LedgerInv, SwapParts, NumberedInv, Parts, Registered
<1>9. t \notin OpenInbound /\ t \in OpenInbound' /\ t \notin DOMAIN preimages
  BY <1>1, <1>5 DEF OpenInbound, LedgerInv, SwapParts
<1>10. \A x \in Txids \ {t} : /\ x \in OpenInbound' <=> x \in OpenInbound
                              /\ x \in OpenInbound => inboundSwaps'[x] = inboundSwaps[x]
  BY <1>1, <1>5 DEF OpenInbound
<1> DEFINE w == <<"in", t>>
<1>11. /\ w \in Swaps /\ Locks' = [Locks EXCEPT ![w] = Locks'[w]]
       /\ Locks[w] = 0 /\ Locks'[w] = xbtc
  BY <1>1, <1>5, <1>9, <1>10, InboundLock
<1>12. Backers' = [Backers EXCEPT ![w] = c]
  BY <1>1, InboundBacker
<1>13. w \notin Settled /\ Settled' = Settled
  BY <1>1, <1>9 DEF Settled
<1> HIDE DEF w
<1>14. LedgerStep
  BY <1>1, <1>3, <1>11, <1>12, <1>13, OpensFromFunds
<1> QED
  BY <1>7, <1>8, <1>14 DEF LedgerInv

\* A preimage, or a revocation, ends an open inbound swap.
LEMMA InboundEnds ==
    ASSUME LedgerInv, NEW t \in Txids, NEW how, t \in DOMAIN inboundSwaps,
           t \notin DOMAIN preimages, preimages' = Put(preimages, t, how),
           UNCHANGED <<supplierKey, inboundSwaps, outboundSwaps, nextOutbound, completed>>
    PROVE  /\ SwapParts'
           /\ <<"in", t>> \in Swaps /\ Locks[<<"in", t>>] = inboundSwaps[t].xbtc
           /\ Locks' = [Locks EXCEPT ![<<"in", t>>] = 0]
           /\ Settled' = Settled \cup {<<"in", t>>}
           /\ UNCHANGED Backers /\ Backers[<<"in", t>>] = inboundSwaps[t].supplier
<1>1. DOMAIN preimages' = DOMAIN preimages \cup {t}
  BY DEF Put
<1>2. SwapParts'
  BY <1>1 DEF LedgerInv, SwapParts, NumberedInv, Parts, Registered
<1>3. t \in OpenInbound /\ t \notin OpenInbound'
  BY <1>1 DEF OpenInbound
<1>4. \A x \in Txids \ {t} : /\ x \in OpenInbound' <=> x \in OpenInbound
                             /\ x \in OpenInbound => inboundSwaps'[x] = inboundSwaps[x]
  BY <1>1 DEF OpenInbound
<1>5. /\ <<"in", t>> \in Swaps /\ Locks[<<"in", t>>] = inboundSwaps[t].xbtc
      /\ Locks' = [Locks EXCEPT ![<<"in", t>>] = 0]
  BY <1>3, <1>4, InboundLock
<1>6. Settled' = Settled \cup {<<"in", t>>}
  BY <1>1 DEF Settled
<1>7. UNCHANGED Backers /\ Backers[<<"in", t>>] = inboundSwaps[t].supplier
  BY <1>5, SameBackers DEF Backers, Backer, Has
<1> QED
  BY <1>2, <1>5, <1>6, <1>7

LEMMA PaysStep ==
    ASSUME LedgerInv, NEW t \in Txids, NEW u \in Principals, FinalizeSwap(t, u)
    PROVE  LedgerInv' /\ LedgerStep
<1> DEFINE swap == inboundSwaps[t]
           paid == Transferred(Contract, swap.swapper, swap.xbtc)
<1>1. /\ UNCHANGED <<supplierKey, fees, funds, inboundSwaps, outboundSwaps, nextOutbound,
                     completed>>
      /\ t \in DOMAIN inboundSwaps /\ t \notin DOMAIN preimages
      /\ preimages' = Put(preimages, t, "preimage")
      /\ MayTransfer(Contract, swap.xbtc) /\ paid[u] >= swap.xbtc
      /\ wbtc' = [paid EXCEPT ![u] = @ - swap.xbtc, ![Exchange] = @ + swap.xbtc]
  BY DEF FinalizeSwap, MayFinalize, suppliers, outbound, Has
<1>2. swap.xbtc \in Nat \ {0} /\ swap.swapper \in Swappers
  BY <1>1 DEF LedgerInv, SwapParts, Parts
<1>3. /\ Contract \in Owners /\ Exchange \in Owners /\ Contract # Exchange
      /\ swap.swapper \in Owners /\ swap.swapper # Contract
      /\ u \in Owners /\ u # Contract /\ u # Exchange
  BY <1>2, Owned DEF Principals
<1>4. paid \in [Owners -> Nat] /\ paid[Contract] = wbtc[Contract] - swap.xbtc
  BY <1>1, <1>2, <1>3, TransferMoves DEF LedgerInv, Amounts
<1> HIDE DEF paid, swap
<1>5. /\ wbtc' \in [Owners -> Nat] /\ wbtc'[Contract] = wbtc[Contract] - swap.xbtc
  BY <1>1, <1>2, <1>3, <1>4
<1>6. Registers' /\ Amounts'
  BY <1>1, <1>5 DEF LedgerInv, Registers, Amounts, Registered
<1> DEFINE w == <<"in", t>>
<1>7. /\ SwapParts' /\ w \in Swaps /\ Locks[w] = swap.xbtc
      /\ Locks' = [Locks EXCEPT ![w] = 0] /\ Settled' = Settled \cup {w}
      /\ UNCHANGED Backers
  BY <1>1, InboundEnds DEF swap
<1> HIDE DEF w
<1>8. LedgerStep
  <2>1. Locks[w] > 0 /\ wbtc'[Contract] = wbtc[Contract] - Locks[w] /\ UNCHANGED funds
    BY <1>1, <1>2, <1>5, <1>7
  <2> QED
    BY <1>7, <2>1, SettlesToOutside
<1> QED
  BY <1>6, <1>7, <1>8 DEF LedgerInv

LEMMA ReturnsStep ==
    ASSUME LedgerInv, NEW t \in Txids, RevokeExpiredInbound(t)
    PROVE  LedgerInv' /\ LedgerStep
<1> DEFINE swap == inboundSwaps[t]
           c == swap.supplier
<1>1. /\ UNCHANGED <<supplierKey, fees, wbtc, inboundSwaps, outboundSwaps, nextOutbound,
                     completed>>
      /\ t \in DOMAIN inboundSwaps /\ t \notin DOMAIN preimages
      /\ preimages' = Put(preimages, t, RevokedPreimage)
      /\ funds' = [funds EXCEPT ![c] = @ + swap.xbtc]
  BY DEF RevokeExpiredInbound, MayRevokeInbound, suppliers, outbound, Has
<1>2. swap.xbtc \in Nat \ {0} /\ c \in Controllers /\ Registered(c)
  BY <1>1 DEF LedgerInv, SwapParts, Parts
<1> HIDE DEF swap, c
<1>3. funds' \in [Controllers -> Nat] /\ \A d \in Controllers \ {c} : funds'[d] = funds[d]
  BY <1>1, <1>2 DEF LedgerInv, Amounts
<1>4. Registers' /\ Amounts'
  BY <1>1, <1>2, <1>3 DEF LedgerInv, Registers, Amounts, Registered
<1> DEFINE w == <<"in", t>>
<1>5. /\ SwapParts' /\ w \in Swaps /\ Locks[w] = swap.xbtc
      /\ Locks' = [Locks EXCEPT ![w] = 0] /\ Settled' = Settled \cup {w}
      /\ UNCHANGED Backers /\ Backers[w] = c
  BY <1>1, InboundEnds DEF swap, c
<1> HIDE DEF w
<1>6. LedgerStep
  <2>1. /\ Locks[w] > 0 /\ UNCHANGED wbtc
        /\ funds' = [funds EXCEPT ![Backers[w]] = @ + Locks[w]]
    BY <1>1, <1>2, <1>5
  <2> QED
    BY <1>5, <2>1, SettlesToFunds
<1> QED
  BY <1>4, <1>5, <1>6 DEF LedgerInv

LEMMA PlacesStep ==
    ASSUME LedgerInv, NEW u \in Swappers, NEW xbtc \in Sats, NEW c \in Controllers,
           InitiateOutboundSwap(u, xbtc, c)
    PROVE  LedgerInv' /\ LedgerStep
<1> DEFINE i == nextOutbound
           swap == [sats |-> SwapAmount(xbtc, fees[c].out), xbtc |-> xbtc, supplier |-> c,
                    swapper |-> u, createdAt |-> burnHeight]
<1>1. /\ UNCHANGED <<supplierKey, fees, funds, inboundSwaps, preimages, completed>>
      /\ Registered(c) /\ MayTransfer(u, xbtc) /\ i < MaxOutbound
      /\ wbtc' = Transferred(u, Contract, xbtc)
      /\ outboundSwaps' = Put(outboundSwaps, i, swap) /\ nextOutbound' = i + 1
  BY DEF InitiateOutboundSwap, suppliers, inbound
<1>2. /\ xbtc \in Nat /\ u \in Owners /\ Contract \in Owners /\ u # Contract
      /\ MaxOutbound \in Nat
  BY Owned, AmountsAssumption DEF Principals
<1>3. /\ wbtc' \in [Owners -> Nat] /\ wbtc'[Contract] = wbtc[Contract] + xbtc
      /\ xbtc \in Nat \ {0}
  BY <1>1, <1>2, TransferMoves DEF LedgerInv, Amounts
<1>4. Parts(swap)
  BY <1>1, <1>3 DEF Parts
<1>5. /\ i \in Nat /\ DOMAIN outboundSwaps = 0 .. i - 1
      /\ DOMAIN completed \subseteq DOMAIN outboundSwaps
  BY DEF LedgerInv, SwapParts, NumberedInv
<1>6. /\ i \in OutboundIds /\ i \notin DOMAIN outboundSwaps /\ i \notin DOMAIN completed
  BY <1>1, <1>2, <1>5 DEF OutboundIds
<1>7. /\ DOMAIN outboundSwaps' = DOMAIN outboundSwaps \cup {i} /\ outboundSwaps'[i] = swap
      /\ \A x \in DOMAIN outboundSwaps : outboundSwaps'[x] = outboundSwaps[x]
  BY <1>1, <1>6 DEF Put
<1>8. DOMAIN outboundSwaps' = 0 .. nextOutbound' - 1
  <2>1. \A n \in Nat : 0 .. (n + 1) - 1 = (0 .. n - 1) \cup {n}
    OBVIOUS
  <2>2. 0 .. (i + 1) - 1 = DOMAIN outboundSwaps \cup {i}
    BY <1>5, <2>1
  <2> QED
    BY <1>1, <1>7, <2>2
<1>9. Registers' /\ Amounts'
  BY <1>1, <1>3 DEF LedgerInv, Registers, Amounts, Registered
<1>10. SwapParts'
  <2>1. NumberedInv' /\ nextOutbound' <= MaxOutbound
    BY <1>1, <1>2, <1>5, <1>7, <1>8 DEF NumberedInv
  <2>2. \A x \in DOMAIN outboundSwaps' : Parts(outboundSwaps'[x])
    BY <1>4, <1>7 DEF LedgerInv, SwapParts
  <2>3. \A s : Parts(s)' <=> Parts(s)
    BY <1>1 DEF Parts, Registered
  <2> QED
    BY <1>1, <2>1, <2>2, <2>3 DEF LedgerInv, SwapParts
<1>11. /\ i \notin OpenOutbound /\ i \in OpenOutbound'
       /\ \A x \in OutboundIds \ {i} :
            /\ x \in OpenOutbound' <=> x \in OpenOutbound
            /\ x \in OpenOutbound => outboundSwaps'[x] = outboundSwaps[x]
  BY <1>1, <1>6, <1>7 DEF OpenOutbound
<1> DEFINE w == <<"out", i>>
<1>12. /\ w \in Swaps /\ Locks' = [Locks EXCEPT ![w] = Locks'[w]]
       /\ Locks[w] = 0 /\ Locks'[w] = xbtc
  BY <1>1, <1>6, <1>7, <1>11, OutboundLock
<1>13. Backers' = [Backers EXCEPT ![w] = c]
  BY <1>1, <1>6, OutboundBacker
<1>14. w \notin Settled /\ Settled' = Settled
  BY <1>1, <1>6 DEF Settled
<1> HIDE DEF w
<1>15. LedgerStep
  BY <1>1, <1>3, <1>12, <1>13, <1>14, OpensFromOutside
<1> QED
  BY <1>9, <1>10, <1>15 DEF LedgerInv

\* A payment, or a revocation, ends an open outbound swap.
LEMMA OutboundEnds ==
    ASSUME LedgerInv, NEW i, NEW how, i \in DOMAIN outboundSwaps, i \notin DOMAIN completed,
           completed' = Put(completed, i, how),
           UNCHANGED <<supplierKey, inboundSwaps, preimages, outboundSwaps, nextOutbound>>
    PROVE  /\ SwapParts'
           /\ <<"out", i>> \in Swaps /\ Locks[<<"out", i>>] = outboundSwaps[i].xbtc
           /\ Locks' = [Locks EXCEPT ![<<"out", i>>] = 0]
           /\ Settled' = Settled \cup {<<"out", i>>}
           /\ UNCHANGED Backers /\ Backers[<<"out", i>>] = outboundSwaps[i].supplier
<1>1. DOMAIN completed' = DOMAIN completed \cup {i}
  BY DEF Put
<1>2. SwapParts'
  BY <1>1 DEF LedgerInv, SwapParts, NumberedInv, Parts, Registered
<1>3. i \in OutboundIds
  BY AmountsAssumption DEF OutboundIds, LedgerInv, SwapParts, NumberedInv
<1>4. i \in OpenOutbound /\ i \notin OpenOutbound'
  BY <1>1 DEF OpenOutbound
<1>5. \A x \in OutboundIds \ {i} :
        /\ x \in OpenOutbound' <=> x \in OpenOutbound
        /\ x \in OpenOutbound => outboundSwaps'[x] = outboundSwaps[x]
  BY <1>1 DEF OpenOutbound
<1>6. /\ <<"out", i>> \in Swaps /\ Locks[<<"out", i>>] = outboundSwaps[i].xbtc
      /\ Locks' = [Locks EXCEPT ![<<"out", i>>] = 0]
  BY <1>3, <1>4, <1>5, OutboundLock
<1>7. Settled' = Settled \cup {<<"out", i>>}
  BY <1>1 DEF Settled
<1>8. UNCHANGED Backers /\ Backers[<<"out", i>>] = outboundSwaps[i].supplier
  BY <1>6, SameBackers DEF Backers, Backer, Has
<1> QED
  BY <1>2, <1>6, <1>7, <1>8

LEMMA PaidStep ==
    ASSUME LedgerInv, NEW i \in OutboundIds, NEW p, FinalizeOutboundSwap(i, p)
    PROVE  LedgerInv' /\ LedgerStep
<1> DEFINE swap == outboundSwaps[i]
           c == swap.supplier
<1>1. /\ UNCHANGED <<supplierKey, fees, wbtc, inboundSwaps, preimages, outboundSwaps,
                     nextOutbound>>
      /\ i \in DOMAIN outboundSwaps /\ i \notin DOMAIN completed
      /\ completed' = Put(completed, i, p)
      /\ funds' = [funds EXCEPT ![c] = @ + swap.xbtc]
  BY DEF FinalizeOutboundSwap, MayFinalizeOutbound, suppliers, inbound, Has
<1>2. swap.xbtc \in Nat \ {0} /\ c \in Controllers /\ Registered(c)
  BY <1>1 DEF LedgerInv, SwapParts, Parts
<1> HIDE DEF swap, c
<1>3. funds' \in [Controllers -> Nat] /\ \A d \in Controllers \ {c} : funds'[d] = funds[d]
  BY <1>1, <1>2 DEF LedgerInv, Amounts
<1>4. Registers' /\ Amounts'
  BY <1>1, <1>2, <1>3 DEF LedgerInv, Registers, Amounts, Registered
<1> DEFINE w == <<"out", i>>
<1>5. /\ SwapParts' /\ w \in Swaps /\ Locks[w] = swap.xbtc
      /\ Locks' = [Locks EXCEPT ![w] = 0] /\ Settled' = Settled \cup {w}
      /\ UNCHANGED Backers /\ Backers[w] = c
  BY <1>1, OutboundEnds DEF swap, c
<1> HIDE DEF w
<1>6. LedgerStep
  <2>1. /\ Locks[w] > 0 /\ UNCHANGED wbtc
        /\ funds' = [funds EXCEPT ![Backers[w]] = @ + Locks[w]]
    BY <1>1, <1>2, <1>5
  <2> QED
    BY <1>5, <2>1, SettlesToFunds
<1> QED
  BY <1>4, <1>5, <1>6 DEF LedgerInv

LEMMA RefundsStep ==
    ASSUME LedgerInv, NEW i \in OutboundIds, RevokeExpiredOutbound(i)
    PROVE  LedgerInv' /\ LedgerStep
<1> DEFINE swap == outboundSwaps[i]
<1>1. /\ UNCHANGED <<supplierKey, fees, funds, inboundSwaps, preimages, outboundSwaps,
                     nextOutbound>>
      /\ i \in DOMAIN outboundSwaps /\ i \notin DOMAIN completed
      /\ completed' = Put(completed, i, RevokedTxid)
      /\ MayTransfer(Contract, swap.xbtc)
      /\ wbtc' = Transferred(Contract, swap.swapper, swap.xbtc)
  BY DEF RevokeExpiredOutbound, OutboundRevocable, suppliers, inbound, Has
<1>2. swap.xbtc \in Nat \ {0} /\ swap.swapper \in Swappers
  BY <1>1 DEF LedgerInv, SwapParts, Parts
<1>3. /\ Contract \in Owners /\ swap.swapper \in Owners /\ swap.swapper # Contract
  BY <1>2, Owned DEF Principals
<1> HIDE DEF swap
<1>4. wbtc' \in [Owners -> Nat] /\ wbtc'[Contract] = wbtc[Contract] - swap.xbtc
  BY <1>1, <1>2, <1>3, TransferMoves DEF LedgerInv, Amounts
<1>5. Registers' /\ Amounts'
  BY <1>1, <1>4 DEF LedgerInv, Registers, Amounts, Registered
<1> DEFINE w == <<"out", i>>
<1>6. /\ SwapParts' /\ w \in Swaps /\ Locks[w] = swap.xbtc
      /\ Locks' = [Locks EXCEPT ![w] = 0] /\ Settled' = Settled \cup {w}
      /\ UNCHANGED Backers
  BY <1>1, OutboundEnds DEF swap
<1> HIDE DEF w
<1>7. LedgerStep
  <2>1. Locks[w] > 0 /\ wbtc'[Contract] = wbtc[Contract] - Locks[w] /\ UNCHANGED funds
    BY <1>1, <1>2, <1>4, <1>6
  <2> QED
    BY <1>6, <2>1, SettlesToOutside
<1> QED
  BY <1>5, <1>6, <1>7 DEF LedgerInv

-----------------------------------------------------------------------------
LEMMA LedgerNext == LedgerInv /\ SwapInv /\ [Next]_bridgeVars => LedgerInv' /\ LedgerStep
<1> SUFFICES ASSUME LedgerInv, SwapInv, [Next]_bridgeVars PROVE LedgerInv' /\ LedgerStep
  OBVIOUS
<1>1. CASE UNCHANGED bridgeVars
  BY <1>1, NothingStep DEF bridgeVars, suppliers, inbound, outbound
<1>2. ASSUME NEW c \in Controllers, SupplierCalls(c) PROVE LedgerInv' /\ LedgerStep
  BY <1>2, RegisterStep, AddStep, RemoveStep, FeesStep, KeyStep DEF SupplierCalls
<1>3. ASSUME NEW u \in Swappers, InitializeSwapper(u) PROVE LedgerInv' /\ LedgerStep
  BY <1>3, NothingStep DEF InitializeSwapper, suppliers, inbound, outbound
<1>4. ASSUME NEW t \in Txids, InboundCalls(t) PROVE LedgerInv' /\ LedgerStep
  <2>1. ASSUME NEW u \in Principals, FinalizeFails(t, u) PROVE LedgerInv' /\ LedgerStep
    BY <2>1, NothingStep DEF FinalizeFails, suppliers, inbound, outbound
  <2> QED
    BY <1>4, <2>1, OpensStep, PaysStep, ReturnsStep DEF InboundCalls
<1>5. CASE OutboundCalls
  BY <1>5, PlacesStep, PaidStep, RefundsStep DEF OutboundCalls
<1>6. CASE Bitcoin
  BY <1>6, NothingStep DEF Bitcoin, BitcoinBlock, SendHtlc, RedeemHtlc, RefundHtlc, Spend,
                           Pay, suppliers, inbound, outbound
<1> QED
  BY <1>1, <1>2, <1>3, <1>4, <1>5, <1>6 DEF Next

LEMMA LedgerInit == Init => LedgerInv /\ Ledger!Init
<1> SUFFICES ASSUME Init PROVE LedgerInv /\ Ledger!Init
  OBVIOUS
<1>1. Registers
  BY DEF Init, Registers, Registered
<1>2. Amounts
  BY AmountsAssumption DEF Init, Amounts
<1>3. SwapParts
  BY AmountsAssumption DEF Init, Empty, SwapParts, NumberedInv
<1>4. wbtc[Contract] = 0
  BY Owned DEF Init
<1>5. [w \in Swaps |-> Locked(w)] = [w \in Swaps |-> 0]
  BY DEF Init, Empty, Locked, OpenInbound, OpenOutbound
<1>6. Settled = {}
  BY DEF Init, Empty, Settled
<1>7. [w \in Swaps |-> Backer(w)] = [w \in Swaps |-> None]
  BY DEF Init, Empty, Backer, Has
<1> QED
  BY <1>1, <1>2, <1>3, <1>4, <1>5, <1>6, <1>7 DEF LedgerInv, Ledger!Init, Init

\* Every call of the contract moves value as SwapLedger allows, whoever calls,
\* in whatever order, and whatever the fees: into a swap once, and out of it
\* once and whole, to its supplier or to the outside.
THEOREM ImplementsLedger == Spec => BridgeImplementsLedger
<1>1. Init => SwapInv
  BY ExpirationAssumption
     DEF Init, Empty, SwapInv, ClockInv, HtlcInv, EscrowInv, RevealInv, PaidInv,
         FinalizedInbound
<1> QED
  BY <1>1, LedgerInit, LedgerNext, SwapStep, PTL
     DEF Spec, BridgeImplementsLedger, Ledger!Spec, LedgerStep
-----------------------------------------------------------------------------
(* What the contract owes and owns, summed over the swaps *)

\* Every swap holds some tokens.
Holding(swaps, S) == \A x \in S : swaps[x].xbtc \in Nat

LEMMA XbtcSame ==
    ASSUME NEW swaps, NEW others, NEW S, IsFiniteSet(S), Holding(swaps, S),
           \A x \in S : others[x] = swaps[x]
    PROVE  Xbtc(others, S) = Xbtc(swaps, S)
<1>1. \A x \in S : /\ [y \in S |-> swaps[y].xbtc][x] \in Int
                   /\ [y \in S |-> others[y].xbtc][x] = [y \in S |-> swaps[y].xbtc][x]
  BY DEF Holding
<1> QED
  BY <1>1, SumSame DEF Xbtc

LEMMA XbtcMore ==
    ASSUME NEW swaps, NEW others, NEW S, IsFiniteSet(S), Holding(swaps, S),
           NEW t, t \notin S, others[t].xbtc \in Nat,
           \A x \in S : others[x] = swaps[x]
    PROVE  Xbtc(others, S \cup {t}) = Xbtc(swaps, S) + others[t].xbtc
<1> DEFINE f == [x \in S \cup {t} |-> others[x].xbtc]
           g == [x \in S |-> swaps[x].xbtc]
<1>1. \A x \in S \cup {t} : f[x] \in Int
  BY DEF Holding
<1>2. \A x \in S : g[x] \in Int /\ f[x] = g[x]
  BY DEF Holding
<1>3. f[t] = others[t].xbtc
  OBVIOUS
<1> HIDE DEF f, g
<1>4. SumFunctionOnSet(f, S \cup {t}) = SumFunctionOnSet(f, S) + f[t]
  BY <1>1, SumAdd
<1>5. SumFunctionOnSet(f, S) = SumFunctionOnSet(g, S)
  BY <1>2, SumSame
<1> QED
  BY <1>3, <1>4, <1>5 DEF Xbtc, f, g

LEMMA XbtcLess ==
    ASSUME NEW swaps, NEW S, IsFiniteSet(S), Holding(swaps, S), NEW t \in S
    PROVE  Xbtc(swaps, S \ {t}) = Xbtc(swaps, S) - swaps[t].xbtc
<1> DEFINE R == S \ {t}
<1>1. IsFiniteSet(R) /\ Holding(swaps, R) /\ t \notin R /\ R \cup {t} = S
  BY FS_RemoveElement DEF Holding
<1>2. swaps[t].xbtc \in Nat
  BY DEF Holding
<1> HIDE DEF R
<1>3. Xbtc(swaps, S) = Xbtc(swaps, R) + swaps[t].xbtc
  BY <1>1, <1>2, XbtcMore
<1>4. Xbtc(swaps, R) \in Int
  <2>1. \A x \in R : [y \in R |-> swaps[y].xbtc][x] \in Int
    BY <1>1 DEF Holding
  <2> QED
    BY <1>1, <2>1, SumType DEF Xbtc
<1> QED
  BY <1>2, <1>3, <1>4 DEF R

LEMMA XbtcNat ==
    ASSUME NEW swaps, NEW S, IsFiniteSet(S), Holding(swaps, S)
    PROVE  Xbtc(swaps, S) \in Nat
<1>1. \A x \in S : [y \in S |-> swaps[y].xbtc][x] \in Nat
  BY DEF Holding
<1> QED
  BY <1>1, SumNat DEF Xbtc

LEMMA XbtcNone == \A swaps : Xbtc(swaps, {}) = 0
BY SumEquation, FS_EmptySet DEF Xbtc

-----------------------------------------------------------------------------
OpenOf(c) == {t \in OpenInbound : inboundSwaps[t].supplier = c}
PaidTo(u) == {t \in FinalizedInbound : inboundSwaps[t].swapper = u}
SentTo(u) == {i \in FinalizedOutbound : outboundSwaps[i].swapper = u}

\* Volumes and escrows are numbers, and finitely many swaps were made.
SummedType ==
    /\ IsFiniteSet(DOMAIN inboundSwaps)
    /\ escrow \in [Controllers -> Int]
    /\ inboundVolume \in [Swappers -> Int] /\ outboundVolume \in [Swappers -> Int]

SummedInv ==
    SummedType /\ EscrowMatchesSwaps /\ ContractSolvent /\ VolumesCountFinalized

\* Every set of swaps that is summed is finite, and its swaps hold tokens.
LEMMA Summable ==
    ASSUME LedgerInv, IsFiniteSet(DOMAIN inboundSwaps)
    PROVE  /\ \A S \in SUBSET DOMAIN inboundSwaps :
                IsFiniteSet(S) /\ Holding(inboundSwaps, S)
           /\ \A S \in SUBSET DOMAIN outboundSwaps :
                IsFiniteSet(S) /\ Holding(outboundSwaps, S)
           /\ \A c : OpenOf(c) \subseteq DOMAIN inboundSwaps
           /\ \A u : PaidTo(u) \subseteq DOMAIN inboundSwaps
           /\ \A u : SentTo(u) \subseteq DOMAIN outboundSwaps
           /\ OpenInbound \subseteq DOMAIN inboundSwaps
           /\ OpenOutbound \subseteq DOMAIN outboundSwaps
<1>1. IsFiniteSet(DOMAIN outboundSwaps)
  <2>1. nextOutbound - 1 \in Int /\ DOMAIN outboundSwaps = 0 .. nextOutbound - 1
    BY DEF LedgerInv, SwapParts, NumberedInv
  <2> QED
    BY <2>1, FS_Interval
<1>2. Holding(inboundSwaps, DOMAIN inboundSwaps) /\ Holding(outboundSwaps, DOMAIN outboundSwaps)
  BY DEF LedgerInv, SwapParts, Parts, Holding
<1>3. /\ DOMAIN preimages \subseteq DOMAIN inboundSwaps
      /\ DOMAIN completed \subseteq DOMAIN outboundSwaps
  BY DEF LedgerInv, SwapParts, NumberedInv
<1>4. /\ \A c : OpenOf(c) \subseteq DOMAIN inboundSwaps
      /\ \A u : PaidTo(u) \subseteq DOMAIN inboundSwaps
      /\ \A u : SentTo(u) \subseteq DOMAIN outboundSwaps
      /\ OpenInbound \subseteq DOMAIN inboundSwaps
      /\ OpenOutbound \subseteq DOMAIN outboundSwaps
  BY <1>3 DEF OpenOf, PaidTo, SentTo, OpenInbound, OpenOutbound, FinalizedInbound,
              FinalizedOutbound
<1>5. \A S \in SUBSET DOMAIN inboundSwaps : IsFiniteSet(S) /\ Holding(inboundSwaps, S)
  BY <1>2, FS_Subset DEF Holding
<1>6. \A S \in SUBSET DOMAIN outboundSwaps : IsFiniteSet(S) /\ Holding(outboundSwaps, S)
  BY <1>1, <1>2, FS_Subset DEF Holding
<1> QED
  BY <1>4, <1>5, <1>6

\* A supplier's funds change by what the contract's tokens do.
LEMMA FundsMove ==
    ASSUME LedgerInv, NEW c \in Controllers, NEW amount \in Int,
           funds' = [funds EXCEPT ![c] = funds[c] + amount]
    PROVE  SumFunctionOnSet(funds', Controllers) = SumFunctionOnSet(funds, Controllers) + amount
<1> DEFINE after == funds'
<1>1. \A x \in Controllers : funds[x] \in Int /\ after[x] \in Int
  BY DEF LedgerInv, Amounts
<1>2. \A x \in Controllers \ {c} : after[x] = funds[x]
  BY DEF LedgerInv, Amounts
<1>3. after[c] - funds[c] = amount
  BY DEF LedgerInv, Amounts
<1> HIDE DEF after
<1>4. SumFunctionOnSet(after, Controllers)
        = SumFunctionOnSet(funds, Controllers) + (after[c] - funds[c])
  BY <1>1, <1>2, ControllersAssumption, SumChange
<1> QED
  BY <1>3, <1>4 DEF after

LEMMA FundsType ==
    ASSUME LedgerInv
    PROVE  SumFunctionOnSet(funds, Controllers) \in Int /\ wbtc[Contract] \in Int
<1>1. \A x \in Controllers : funds[x] \in Int
  BY DEF LedgerInv, Amounts
<1> QED
  BY <1>1, ControllersAssumption, SumType, Owned DEF LedgerInv, Amounts

LEMMA SummedSame ==
    ASSUME LedgerInv, SummedInv,
           UNCHANGED <<inboundSwaps, preimages, outboundSwaps, completed, escrow,
                       inboundVolume, outboundVolume>>,
           NEW moved \in Int,
           SumFunctionOnSet(funds', Controllers) = SumFunctionOnSet(funds, Controllers) + moved,
           wbtc'[Contract] = wbtc[Contract] + moved
    PROVE  SummedInv'
<1>1. SummedType' /\ EscrowMatchesSwaps' /\ VolumesCountFinalized'
  BY DEF SummedInv, SummedType, EscrowMatchesSwaps, VolumesCountFinalized, XbtcIn, XbtcOut,
         OpenInbound, FinalizedInbound, FinalizedOutbound
<1>2. XbtcIn(OpenInbound) \in Int /\ XbtcOut(OpenOutbound) \in Int
  BY Summable, XbtcNat DEF SummedInv, SummedType, XbtcIn, XbtcOut
<1>3. XbtcIn(OpenInbound)' = XbtcIn(OpenInbound) /\ XbtcOut(OpenOutbound)' = XbtcOut(OpenOutbound)
  BY DEF XbtcIn, XbtcOut, OpenInbound, OpenOutbound
<1>4. ContractSolvent'
  BY <1>2, <1>3, FundsType DEF SummedInv, ContractSolvent
<1> QED
  BY <1>1, <1>4 DEF SummedInv

LEMMA StillSums ==
    ASSUME LedgerInv, SummedInv,
           UNCHANGED <<funds, wbtc, inboundSwaps, preimages, outboundSwaps, completed, escrow,
                       inboundVolume, outboundVolume>>
    PROVE  SummedInv'
<1>1. SumFunctionOnSet(funds', Controllers) = SumFunctionOnSet(funds, Controllers) + 0
  BY FundsType
<1>2. 0 \in Int /\ wbtc'[Contract] = wbtc[Contract] + 0
  BY FundsType
<1> QED
  BY <1>1, <1>2, SummedSame

\* An escrow opens: the supplier's funds become the swap's.
LEMMA OpensSums ==
    ASSUME LedgerInv, SwapInv, SummedInv, NEW t \in Txids, NEW c \in Controllers,
           NEW m \in 1 .. height, EscrowSwap(t, c, m), LedgerInv'
    PROVE  SummedInv'
<1> DEFINE xbtc == inboundSwaps'[t].xbtc
<1>1. /\ UNCHANGED <<wbtc, preimages, outboundSwaps, completed, inboundVolume, outboundVolume>>
      /\ t \notin DOMAIN inboundSwaps
      /\ DOMAIN inboundSwaps' = DOMAIN inboundSwaps \cup {t}
      /\ \A x \in DOMAIN inboundSwaps : inboundSwaps'[x] = inboundSwaps[x]
      /\ inboundSwaps'[t].supplier = c
      /\ funds' = [funds EXCEPT ![c] = funds[c] - xbtc]
      /\ escrow' = [escrow EXCEPT ![c] = escrow[c] + xbtc]
  BY DEF EscrowSwap, outbound, Has, Put
<1>2. xbtc \in Nat
  BY <1>1 DEF LedgerInv, SwapParts, Parts
<1> HIDE DEF xbtc
<1>3. /\ OpenInbound' = OpenInbound \cup {t} /\ OpenOf(c)' = OpenOf(c) \cup {t}
      /\ \A d \in Controllers \ {c} : OpenOf(d)' = OpenOf(d)
      /\ \A u : PaidTo(u)' = PaidTo(u)
      /\ DOMAIN preimages \subseteq DOMAIN inboundSwaps
  BY <1>1 DEF OpenInbound, OpenOf, PaidTo, FinalizedInbound, LedgerInv, SwapParts
<1>4. \A S \in SUBSET DOMAIN inboundSwaps :
        /\ IsFiniteSet(S) /\ Holding(inboundSwaps, S) /\ t \notin S
        /\ \A x \in S : inboundSwaps'[x] = inboundSwaps[x]
        /\ Xbtc(inboundSwaps, S) \in Int
  BY <1>1, Summable, XbtcNat DEF SummedInv, SummedType
<1>5. \A S \in SUBSET DOMAIN inboundSwaps :
        /\ Xbtc(inboundSwaps', S) = Xbtc(inboundSwaps, S)
        /\ Xbtc(inboundSwaps', S \cup {t}) = Xbtc(inboundSwaps, S) + xbtc
  <2> DEFINE after == inboundSwaps'
  <2>1. xbtc = after[t].xbtc
    BY DEF xbtc
  <2>2. \A S \in SUBSET DOMAIN inboundSwaps : \A x \in S : after[x] = inboundSwaps[x]
    BY <1>4
  <2> HIDE DEF after
  <2>3. \A S \in SUBSET DOMAIN inboundSwaps :
        /\ Xbtc(after, S) = Xbtc(inboundSwaps, S)
        /\ Xbtc(after, S \cup {t}) = Xbtc(inboundSwaps, S) + xbtc
    BY <1>2, <1>4, <2>1, <2>2, XbtcSame, XbtcMore
  <2> QED
    BY <2>3 DEF after
<1>6. SummedType'
  BY <1>1, <1>2, FS_AddElement DEF SummedInv, SummedType
<1>7. EscrowMatchesSwaps'
  <2>1. escrow'[c] = escrow[c] + xbtc /\ \A d \in Controllers \ {c} : escrow'[d] = escrow[d]
    BY <1>1 DEF SummedInv, SummedType
  <2>2. \A d \in Controllers : escrow[d] = Xbtc(inboundSwaps, OpenOf(d))
                               /\ OpenOf(d) \in SUBSET DOMAIN inboundSwaps
    BY Summable DEF SummedInv, SummedType, EscrowMatchesSwaps, XbtcIn, OpenOf
  <2>3. ASSUME NEW d \in Controllers PROVE escrow'[d] = Xbtc(inboundSwaps', OpenOf(d)')
    <3>1. escrow[d] = Xbtc(inboundSwaps, OpenOf(d)) /\ OpenOf(d) \in SUBSET DOMAIN inboundSwaps
      BY <2>2
    <3>2. CASE d = c
      <4>1. Xbtc(inboundSwaps', OpenOf(c) \cup {t}) = Xbtc(inboundSwaps, OpenOf(c)) + xbtc
        BY <1>5, <3>1, <3>2
      <4>2. OpenOf(c)' = OpenOf(c) \cup {t}
        BY <1>3
      <4> QED
        BY <2>1, <3>1, <3>2, <4>1, <4>2
    <3>3. CASE d # c
      <4>1. Xbtc(inboundSwaps', OpenOf(d)) = Xbtc(inboundSwaps, OpenOf(d))
        BY <1>5, <3>1
      <4>2. OpenOf(d)' = OpenOf(d)
        BY <1>3, <3>3
      <4> QED
        BY <2>1, <3>1, <3>3, <4>1, <4>2
    <3> QED
      BY <3>2, <3>3
  <2> QED
    BY <2>3 DEF EscrowMatchesSwaps, XbtcIn, OpenOf
<1>8. ContractSolvent'
  <2> DEFINE moved == 0 - xbtc
  <2>1. SumFunctionOnSet(funds', Controllers) = SumFunctionOnSet(funds, Controllers) + moved
    <3>1. funds[c] \in Int /\ moved \in Int /\ funds[c] - xbtc = funds[c] + moved
      BY <1>2 DEF LedgerInv, Amounts
    <3> HIDE DEF moved
    <3>2. funds' = [funds EXCEPT ![c] = funds[c] + moved]
      BY <1>1, <3>1
    <3> QED
      BY <3>1, <3>2, FundsMove
  <2>2. XbtcIn(OpenInbound)' = XbtcIn(OpenInbound) + xbtc /\ XbtcIn(OpenInbound) \in Int
    BY <1>3, <1>4, <1>5, Summable DEF XbtcIn, SummedInv, SummedType
  <2>3. XbtcOut(OpenOutbound)' = XbtcOut(OpenOutbound) /\ XbtcOut(OpenOutbound) \in Int
    BY <1>1, Summable, XbtcNat DEF XbtcOut, OpenOutbound, SummedInv, SummedType
  <2> QED
    BY <1>1, <1>2, <2>1, <2>2, <2>3, FundsType DEF SummedInv, ContractSolvent
<1>9. VolumesCountFinalized'
  <2>1. \A u \in Swappers : inboundVolume[u] = Xbtc(inboundSwaps, PaidTo(u))
                            /\ PaidTo(u) \in SUBSET DOMAIN inboundSwaps
                            /\ outboundVolume[u] = Xbtc(outboundSwaps, SentTo(u))
    BY Summable DEF SummedInv, SummedType, VolumesCountFinalized, XbtcIn, XbtcOut, PaidTo, SentTo
  <2>2. ASSUME NEW u \in Swappers PROVE inboundVolume'[u] = Xbtc(inboundSwaps', PaidTo(u)')
    <3>1. PaidTo(u)' = PaidTo(u)
      BY <1>3
    <3>2. Xbtc(inboundSwaps', PaidTo(u)) = Xbtc(inboundSwaps, PaidTo(u))
      BY <1>5, <2>1
    <3> QED
      BY <1>1, <2>1, <3>1, <3>2
  <2>3. \A u \in Swappers : outboundVolume'[u] = Xbtc(outboundSwaps', SentTo(u)')
    BY <1>1, <2>1 DEF SentTo, FinalizedOutbound
  <2> QED
    BY <2>2, <2>3 DEF VolumesCountFinalized, XbtcIn, XbtcOut, PaidTo, SentTo
<1> QED
  BY <1>6, <1>7, <1>8, <1>9 DEF SummedInv

\* An inbound swap ends: what it held leaves its supplier's escrow.
LEMMA InboundEndSums ==
    ASSUME LedgerInv, SummedInv, NEW t \in OpenInbound, NEW how,
           preimages' = Put(preimages, t, how),
           UNCHANGED <<inboundSwaps, outboundSwaps, completed>>,
           escrow' = [escrow EXCEPT ![inboundSwaps[t].supplier] = @ - inboundSwaps[t].xbtc]
    PROVE  /\ EscrowMatchesSwaps' /\ escrow' \in [Controllers -> Int]
           /\ XbtcIn(OpenInbound)' = XbtcIn(OpenInbound) - inboundSwaps[t].xbtc
           /\ XbtcIn(OpenInbound) \in Int /\ inboundSwaps[t].xbtc \in Nat
           /\ XbtcOut(OpenOutbound)' = XbtcOut(OpenOutbound) /\ XbtcOut(OpenOutbound) \in Int
<1> DEFINE xbtc == inboundSwaps[t].xbtc
<1>0. PICK c \in Controllers : c = inboundSwaps[t].supplier
  BY DEF OpenInbound, LedgerInv, SwapParts, Parts
<1>1. OpenInbound' = OpenInbound \ {t} /\ OpenOf(c)' = OpenOf(c) \ {t} /\ t \in OpenOf(c)
      /\ \A d \in Controllers \ {c} : OpenOf(d)' = OpenOf(d)
  BY <1>0 DEF OpenInbound, OpenOf, Put
<1>2. xbtc \in Nat /\ t \in DOMAIN inboundSwaps
  BY DEF OpenInbound, LedgerInv, SwapParts, Parts
<1>3. \A S \in SUBSET DOMAIN inboundSwaps :
        /\ IsFiniteSet(S) /\ Holding(inboundSwaps, S) /\ Xbtc(inboundSwaps, S) \in Int
        /\ t \in S => Xbtc(inboundSwaps, S \ {t}) = Xbtc(inboundSwaps, S) - xbtc
  BY Summable, XbtcNat, XbtcLess DEF SummedInv, SummedType
<1> HIDE DEF xbtc
<1>4. escrow' \in [Controllers -> Int]
      /\ escrow'[c] = escrow[c] - xbtc /\ \A d \in Controllers \ {c} : escrow'[d] = escrow[d]
  <2>1. escrow' = [escrow EXCEPT ![c] = escrow[c] - xbtc]
    BY <1>0 DEF xbtc
  <2>2. escrow \in [Controllers -> Int] /\ escrow[c] - xbtc \in Int
    BY <1>2 DEF SummedInv, SummedType
  <2> QED
    BY <1>2, <2>1, <2>2
<1>5. EscrowMatchesSwaps'
  <2>1. \A d \in Controllers : escrow[d] = Xbtc(inboundSwaps, OpenOf(d))
                               /\ OpenOf(d) \in SUBSET DOMAIN inboundSwaps
    BY Summable DEF SummedInv, SummedType, EscrowMatchesSwaps, XbtcIn, OpenOf
  <2>2. escrow'[c] = Xbtc(inboundSwaps, OpenOf(c) \ {t})
    BY <1>1, <1>2, <1>3, <1>4, <2>1
  <2>3. ASSUME NEW d \in Controllers PROVE escrow'[d] = Xbtc(inboundSwaps, OpenOf(d)')
    <3>1. CASE d = c
      BY <1>1, <2>2, <3>1
    <3>2. CASE d # c
      BY <1>1, <1>4, <2>1, <3>2
    <3> QED
      BY <3>1, <3>2
  <2> QED
    BY <2>3 DEF EscrowMatchesSwaps, XbtcIn, OpenOf
<1>6. XbtcIn(OpenInbound)' = XbtcIn(OpenInbound) - xbtc /\ XbtcIn(OpenInbound) \in Int
  BY <1>1, <1>3, Summable DEF XbtcIn, SummedInv, SummedType
<1>7. XbtcOut(OpenOutbound)' = XbtcOut(OpenOutbound) /\ XbtcOut(OpenOutbound) \in Int
  BY Summable, XbtcNat DEF XbtcOut, OpenOutbound, SummedInv, SummedType
<1> QED
  BY <1>2, <1>4, <1>5, <1>6, <1>7 DEF xbtc

\* A paid swap leaves its supplier's escrow and counts in its swapper's volume.
LEMMA PaysSums ==
    ASSUME LedgerInv, SummedInv, NEW t \in Txids, NEW u \in Principals, FinalizeSwap(t, u)
    PROVE  SummedInv'
<1> DEFINE swap == inboundSwaps[t]
           paid == Transferred(Contract, swap.swapper, swap.xbtc)
<1>1. /\ UNCHANGED <<funds, inboundSwaps, outboundSwaps, completed, outboundVolume>>
      /\ t \in OpenInbound /\ t \notin DOMAIN preimages
      /\ preimages' = Put(preimages, t, "preimage")
      /\ escrow' = [escrow EXCEPT ![swap.supplier] = @ - swap.xbtc]
      /\ inboundVolume' = [inboundVolume EXCEPT ![swap.swapper] = @ + swap.xbtc]
      /\ wbtc' = [paid EXCEPT ![u] = @ - swap.xbtc, ![Exchange] = @ + swap.xbtc]
      /\ MayTransfer(Contract, swap.xbtc)
  BY DEF FinalizeSwap, MayFinalize, OpenInbound, outbound, Has
<1>2. swap.xbtc \in Nat \ {0} /\ swap.swapper \in Swappers /\ t \in DOMAIN inboundSwaps
  BY <1>1 DEF OpenInbound, LedgerInv, SwapParts, Parts
<1>3. /\ EscrowMatchesSwaps' /\ escrow' \in [Controllers -> Int]
      /\ XbtcIn(OpenInbound)' = XbtcIn(OpenInbound) - swap.xbtc
      /\ XbtcIn(OpenInbound) \in Int
      /\ XbtcOut(OpenOutbound)' = XbtcOut(OpenOutbound) /\ XbtcOut(OpenOutbound) \in Int
  BY <1>1, InboundEndSums
<1>4. wbtc'[Contract] = wbtc[Contract] - swap.xbtc
  <2>1. /\ Contract \in Owners /\ Exchange \in Owners /\ Contract # Exchange
        /\ swap.swapper \in Owners /\ swap.swapper # Contract
        /\ u \in Owners /\ u # Contract /\ u # Exchange
    BY <1>2, Owned DEF Principals
  <2>2. paid \in [Owners -> Nat] /\ paid[Contract] = wbtc[Contract] - swap.xbtc
    BY <1>1, <1>2, <2>1, TransferMoves DEF LedgerInv, Amounts
  <2> HIDE DEF paid, swap
  <2> QED
    BY <1>1, <2>1, <2>2
<1> HIDE DEF paid, swap
<1>5. ContractSolvent'
  BY <1>1, <1>2, <1>3, <1>4, FundsType DEF SummedInv, ContractSolvent
<1>6. FinalizedInbound' = FinalizedInbound \cup {t} /\ t \notin FinalizedInbound
  BY <1>1 DEF FinalizedInbound, Put
<1>v. PICK v \in Swappers : v = swap.swapper
  BY <1>2
<1>7. PaidTo(v)' = PaidTo(v) \cup {t} /\ t \notin PaidTo(v)
      /\ \A w \in Swappers \ {v} : PaidTo(w)' = PaidTo(w)
  BY <1>v, <1>1, <1>6 DEF PaidTo, swap
<1>8. Xbtc(inboundSwaps, PaidTo(v) \cup {t}) = Xbtc(inboundSwaps, PaidTo(v)) + swap.xbtc
  <2>1. PaidTo(v) \in SUBSET DOMAIN inboundSwaps /\ swap.xbtc \in Nat
    BY <1>2, Summable DEF SummedInv, SummedType
  <2>2. IsFiniteSet(PaidTo(v)) /\ Holding(inboundSwaps, PaidTo(v))
    BY <2>1, Summable DEF SummedInv, SummedType
  <2> QED
    BY <1>7, <2>1, <2>2, XbtcMore DEF swap
<1>9. /\ inboundVolume' \in [Swappers -> Int] /\ inboundVolume'[v] = inboundVolume[v] + swap.xbtc
      /\ \A w \in Swappers \ {v} : inboundVolume'[w] = inboundVolume[w]
  BY <1>v, <1>1, <1>2 DEF SummedInv, SummedType
<1>10. VolumesCountFinalized'
  <2>1. \A w \in Swappers : /\ inboundVolume[w] = Xbtc(inboundSwaps, PaidTo(w))
                            /\ outboundVolume[w] = Xbtc(outboundSwaps, SentTo(w))
    BY DEF SummedInv, VolumesCountFinalized, XbtcIn, XbtcOut, PaidTo, SentTo
  <2>3. ASSUME NEW w \in Swappers PROVE inboundVolume'[w] = Xbtc(inboundSwaps, PaidTo(w)')
    <3>1. CASE w = v
      BY <1>7, <1>8, <1>9, <2>1, <3>1
    <3>2. CASE w # v
      BY <1>7, <1>9, <2>1, <3>2
    <3> QED
      BY <3>1, <3>2
  <2>4. \A w \in Swappers : outboundVolume'[w] = Xbtc(outboundSwaps', SentTo(w)')
    BY <1>1, <2>1 DEF SentTo, FinalizedOutbound
  <2> QED
    BY <1>1, <2>3, <2>4 DEF VolumesCountFinalized, XbtcIn, XbtcOut, PaidTo, SentTo
<1>11. SummedType'
  BY <1>1, <1>3, <1>9 DEF SummedInv, SummedType
<1> QED
  BY <1>3, <1>5, <1>10, <1>11 DEF SummedInv

\* A revoked swap's escrow goes back to its supplier's funds.
LEMMA ReturnsSums ==
    ASSUME LedgerInv, SummedInv, NEW t \in Txids, RevokeExpiredInbound(t)
    PROVE  SummedInv'
<1> DEFINE c == inboundSwaps[t].supplier
           xbtc == inboundSwaps[t].xbtc
<1>1. /\ UNCHANGED <<wbtc, inboundSwaps, outboundSwaps, completed, inboundVolume, outboundVolume>>
      /\ t \in OpenInbound /\ t \notin DOMAIN preimages
      /\ preimages' = Put(preimages, t, RevokedPreimage)
      /\ escrow' = [escrow EXCEPT ![c] = @ - xbtc]
      /\ funds' = [funds EXCEPT ![c] = funds[c] + xbtc]
  BY DEF RevokeExpiredInbound, MayRevokeInbound, OpenInbound, outbound, Has
<1>2. xbtc \in Nat /\ xbtc \in Int /\ c \in Controllers
  BY <1>1 DEF OpenInbound, LedgerInv, SwapParts, Parts
<1>3. /\ EscrowMatchesSwaps' /\ escrow' \in [Controllers -> Int]
      /\ XbtcIn(OpenInbound)' = XbtcIn(OpenInbound) - xbtc /\ XbtcIn(OpenInbound) \in Int
      /\ XbtcOut(OpenOutbound)' = XbtcOut(OpenOutbound) /\ XbtcOut(OpenOutbound) \in Int
  BY <1>1, InboundEndSums
<1> HIDE DEF c, xbtc
<1>4. SumFunctionOnSet(funds', Controllers) = SumFunctionOnSet(funds, Controllers) + xbtc
  BY <1>1, <1>2, FundsMove
<1>5. ContractSolvent'
  BY <1>1, <1>2, <1>3, <1>4, FundsType DEF SummedInv, ContractSolvent
<1>6. FinalizedInbound' = FinalizedInbound
  BY <1>1 DEF FinalizedInbound, Put, RevokedPreimage
<1>7. SummedType'
  BY <1>1, <1>3 DEF SummedInv, SummedType
<1>8. VolumesCountFinalized'
  <2>1. FinalizedOutbound' = FinalizedOutbound
    BY <1>1 DEF FinalizedOutbound
  <2> QED
    BY <1>1, <1>6, <2>1 DEF SummedInv, VolumesCountFinalized, XbtcIn, XbtcOut
<1> QED
  BY <1>3, <1>5, <1>7, <1>8 DEF SummedInv

\* An outbound swap is placed: its tokens come from the swapper.
LEMMA PlacesSums ==
    ASSUME LedgerInv, SummedInv, NEW u \in Swappers, NEW xbtc \in Sats, NEW c \in Controllers,
           InitiateOutboundSwap(u, xbtc, c)
    PROVE  SummedInv'
<1> DEFINE i == nextOutbound
           after == outboundSwaps'
<1>1. /\ UNCHANGED <<funds, escrow, inboundSwaps, preimages, inboundVolume, completed,
                     outboundVolume>>
      /\ MayTransfer(u, xbtc) /\ wbtc' = Transferred(u, Contract, xbtc)
      /\ DOMAIN after = DOMAIN outboundSwaps \cup {i} /\ i \notin DOMAIN outboundSwaps
      /\ after[i].xbtc = xbtc /\ xbtc \in Nat
      /\ \A x \in DOMAIN outboundSwaps : after[x] = outboundSwaps[x]
      /\ DOMAIN completed \subseteq DOMAIN outboundSwaps
  <2>1. i \notin DOMAIN outboundSwaps /\ DOMAIN completed \subseteq DOMAIN outboundSwaps
    BY DEF LedgerInv, SwapParts, NumberedInv
  <2> QED
    BY <2>1, AmountsAssumption DEF InitiateOutboundSwap, inbound, Put
<1>2. wbtc'[Contract] = wbtc[Contract] + xbtc
  BY <1>1, Owned, TransferMoves DEF LedgerInv, Amounts, Principals
<1>3. /\ OpenOutbound' = OpenOutbound \cup {i} /\ i \notin OpenOutbound
      /\ OpenOutbound \in SUBSET DOMAIN outboundSwaps
      /\ \A w : SentTo(w)' = SentTo(w) /\ SentTo(w) \in SUBSET DOMAIN outboundSwaps
  BY <1>1 DEF OpenOutbound, SentTo, FinalizedOutbound
<1>4. \A S \in SUBSET DOMAIN outboundSwaps :
        IsFiniteSet(S) /\ Holding(outboundSwaps, S) /\ Xbtc(outboundSwaps, S) \in Int
  BY Summable, XbtcNat DEF SummedInv, SummedType
<1> HIDE DEF i, after
<1>5. \A S \in SUBSET DOMAIN outboundSwaps : Xbtc(after, S) = Xbtc(outboundSwaps, S)
  BY <1>1, <1>4, XbtcSame
<1>6. Xbtc(after, OpenOutbound \cup {i}) = Xbtc(outboundSwaps, OpenOutbound) + xbtc
  BY <1>1, <1>3, <1>4, XbtcMore
<1>7. ContractSolvent'
  <2>1. XbtcOut(OpenOutbound)' = XbtcOut(OpenOutbound) + xbtc /\ XbtcOut(OpenOutbound) \in Int
    BY <1>3, <1>4, <1>6 DEF XbtcOut, after
  <2>2. XbtcIn(OpenInbound)' = XbtcIn(OpenInbound) /\ XbtcIn(OpenInbound) \in Int
    BY <1>1, Summable, XbtcNat DEF XbtcIn, OpenInbound, SummedInv, SummedType
  <2> QED
    BY <1>1, <1>2, <2>1, <2>2, FundsType DEF SummedInv, ContractSolvent
<1>8. SummedType' /\ EscrowMatchesSwaps'
  BY <1>1 DEF SummedInv, SummedType, EscrowMatchesSwaps, XbtcIn, OpenInbound
<1>9. VolumesCountFinalized'
  <2>1. \A w \in Swappers : /\ inboundVolume[w] = Xbtc(inboundSwaps, PaidTo(w))
                            /\ outboundVolume[w] = Xbtc(outboundSwaps, SentTo(w))
    BY DEF SummedInv, VolumesCountFinalized, XbtcIn, XbtcOut, PaidTo, SentTo
  <2>2. \A w \in Swappers : inboundVolume'[w] = Xbtc(inboundSwaps', PaidTo(w)')
    BY <1>1, <2>1 DEF PaidTo, FinalizedInbound
  <2>3. \A w \in Swappers : outboundVolume'[w] = Xbtc(outboundSwaps', SentTo(w)')
    BY <1>1, <1>3, <1>5, <2>1 DEF after
  <2> QED
    BY <2>2, <2>3 DEF VolumesCountFinalized, XbtcIn, XbtcOut, PaidTo, SentTo
<1> QED
  BY <1>7, <1>8, <1>9 DEF SummedInv

\* An outbound swap ends: it is open no longer.
LEMMA OutboundEndSums ==
    ASSUME LedgerInv, SummedInv, NEW i \in OpenOutbound, NEW how,
           completed' = Put(completed, i, how),
           UNCHANGED <<inboundSwaps, preimages, outboundSwaps>>
    PROVE  /\ XbtcOut(OpenOutbound)' = XbtcOut(OpenOutbound) - outboundSwaps[i].xbtc
           /\ XbtcOut(OpenOutbound) \in Int /\ outboundSwaps[i].xbtc \in Nat
           /\ XbtcIn(OpenInbound)' = XbtcIn(OpenInbound) /\ XbtcIn(OpenInbound) \in Int
<1>1. OpenOutbound' = OpenOutbound \ {i}
  BY DEF OpenOutbound, Put
<1>2. outboundSwaps[i].xbtc \in Nat
  BY DEF OpenOutbound, LedgerInv, SwapParts, Parts
<1>3. /\ XbtcOut(OpenOutbound)' = XbtcOut(OpenOutbound) - outboundSwaps[i].xbtc
      /\ XbtcOut(OpenOutbound) \in Int
  BY <1>1, Summable, XbtcNat, XbtcLess DEF XbtcOut, SummedInv, SummedType
<1>4. XbtcIn(OpenInbound)' = XbtcIn(OpenInbound) /\ XbtcIn(OpenInbound) \in Int
  BY Summable, XbtcNat DEF XbtcIn, OpenInbound, SummedInv, SummedType
<1> QED
  BY <1>2, <1>3, <1>4

\* A paid supplier gets the swap's tokens, and its swapper's volume counts it.
LEMMA PaidSums ==
    ASSUME LedgerInv, SummedInv, NEW i \in OutboundIds, NEW p \in Payments,
           FinalizeOutboundSwap(i, p)
    PROVE  SummedInv'
<1> DEFINE xbtc == outboundSwaps[i].xbtc
<1>1. /\ UNCHANGED <<wbtc, escrow, inboundSwaps, preimages, inboundVolume, outboundSwaps>>
      /\ i \in OpenOutbound /\ completed' = Put(completed, i, p)
  BY DEF FinalizeOutboundSwap, MayFinalizeOutbound, OpenOutbound, inbound, Has
<1>2. xbtc \in Nat /\ xbtc \in Int /\ i \in DOMAIN outboundSwaps
  BY <1>1 DEF OpenOutbound, LedgerInv, SwapParts, Parts
<1>3. PICK c \in Controllers : c = outboundSwaps[i].supplier
  BY <1>1 DEF OpenOutbound, LedgerInv, SwapParts, Parts
<1>4. PICK v \in Swappers : v = outboundSwaps[i].swapper
  BY <1>1 DEF OpenOutbound, LedgerInv, SwapParts, Parts
<1>5. /\ funds' = [funds EXCEPT ![c] = funds[c] + xbtc]
      /\ outboundVolume' = [outboundVolume EXCEPT ![v] = outboundVolume[v] + xbtc]
  BY <1>3, <1>4 DEF FinalizeOutboundSwap
<1>6. /\ XbtcOut(OpenOutbound)' = XbtcOut(OpenOutbound) - xbtc
      /\ XbtcOut(OpenOutbound) \in Int
      /\ XbtcIn(OpenInbound)' = XbtcIn(OpenInbound) /\ XbtcIn(OpenInbound) \in Int
  BY <1>1, OutboundEndSums
<1>7. /\ i \notin FinalizedOutbound /\ FinalizedOutbound' = FinalizedOutbound \cup {i}
  BY <1>1 DEF OpenOutbound, FinalizedOutbound, Put
<1>8. /\ SentTo(v)' = SentTo(v) \cup {i} /\ i \notin SentTo(v)
      /\ \A w \in Swappers \ {v} : SentTo(w)' = SentTo(w)
  BY <1>1, <1>4, <1>7 DEF SentTo
<1>9. Xbtc(outboundSwaps, SentTo(v) \cup {i}) = Xbtc(outboundSwaps, SentTo(v)) + xbtc
  <2>1. SentTo(v) \in SUBSET DOMAIN outboundSwaps
    BY Summable DEF SummedInv, SummedType
  <2>2. IsFiniteSet(SentTo(v)) /\ Holding(outboundSwaps, SentTo(v))
    BY <2>1, Summable DEF SummedInv, SummedType
  <2> QED
    BY <1>2, <1>8, <2>2, XbtcMore
<1> HIDE DEF xbtc
<1>10. SumFunctionOnSet(funds', Controllers) = SumFunctionOnSet(funds, Controllers) + xbtc
  BY <1>2, <1>5, FundsMove
<1>11. ContractSolvent'
  BY <1>1, <1>2, <1>6, <1>10, FundsType DEF SummedInv, ContractSolvent
<1>12. /\ outboundVolume' \in [Swappers -> Int]
       /\ outboundVolume'[v] = outboundVolume[v] + xbtc
       /\ \A w \in Swappers \ {v} : outboundVolume'[w] = outboundVolume[w]
  <2>1. outboundVolume \in [Swappers -> Int] /\ outboundVolume[v] + xbtc \in Int
    BY <1>2 DEF SummedInv, SummedType
  <2> QED
    BY <1>5, <2>1
<1>13. SummedType' /\ EscrowMatchesSwaps'
  BY <1>1, <1>12 DEF SummedInv, SummedType, EscrowMatchesSwaps, XbtcIn, OpenInbound
<1>14. VolumesCountFinalized'
  <2>1. \A w \in Swappers : /\ inboundVolume[w] = Xbtc(inboundSwaps, PaidTo(w))
                            /\ outboundVolume[w] = Xbtc(outboundSwaps, SentTo(w))
    BY DEF SummedInv, VolumesCountFinalized, XbtcIn, XbtcOut, PaidTo, SentTo
  <2>2. \A w \in Swappers : inboundVolume'[w] = Xbtc(inboundSwaps', PaidTo(w)')
    BY <1>1, <2>1 DEF PaidTo, FinalizedInbound
  <2>3. ASSUME NEW w \in Swappers PROVE outboundVolume'[w] = Xbtc(outboundSwaps, SentTo(w)')
    <3>1. CASE w = v
      BY <1>8, <1>9, <1>12, <2>1, <3>1
    <3>2. CASE w # v
      BY <1>8, <1>12, <2>1, <3>2
    <3> QED
      BY <3>1, <3>2
  <2> QED
    BY <1>1, <2>2, <2>3 DEF VolumesCountFinalized, XbtcIn, XbtcOut, PaidTo, SentTo
<1> QED
  BY <1>11, <1>13, <1>14 DEF SummedInv

\* A revoked outbound swap's tokens go back to its swapper, and count for none.
LEMMA RefundsSums ==
    ASSUME LedgerInv, SummedInv, NEW i \in OutboundIds, RevokeExpiredOutbound(i)
    PROVE  SummedInv'
<1> DEFINE xbtc == outboundSwaps[i].xbtc
           v == outboundSwaps[i].swapper
<1>1. /\ UNCHANGED <<funds, escrow, inboundSwaps, preimages, inboundVolume, outboundSwaps,
                     outboundVolume>>
      /\ i \in OpenOutbound /\ completed' = Put(completed, i, RevokedTxid)
      /\ MayTransfer(Contract, xbtc) /\ wbtc' = Transferred(Contract, v, xbtc)
  BY DEF RevokeExpiredOutbound, OutboundRevocable, OpenOutbound, inbound, Has
<1>2. xbtc \in Nat /\ v \in Swappers
  BY <1>1 DEF OpenOutbound, LedgerInv, SwapParts, Parts
<1>3. /\ XbtcOut(OpenOutbound)' = XbtcOut(OpenOutbound) - xbtc
      /\ XbtcOut(OpenOutbound) \in Int
      /\ XbtcIn(OpenInbound)' = XbtcIn(OpenInbound) /\ XbtcIn(OpenInbound) \in Int
  BY <1>1, OutboundEndSums
<1> HIDE DEF xbtc, v
<1>4. wbtc'[Contract] = wbtc[Contract] - xbtc
  BY <1>1, <1>2, Owned, TransferMoves DEF LedgerInv, Amounts, Principals
<1>5. ContractSolvent'
  BY <1>1, <1>2, <1>3, <1>4, FundsType DEF SummedInv, ContractSolvent
<1>6. FinalizedOutbound' = FinalizedOutbound
  BY <1>1, NamesAssumption DEF FinalizedOutbound, OpenOutbound, Put, RevokedTxid
<1>7. SummedType' /\ EscrowMatchesSwaps'
  BY <1>1 DEF SummedInv, SummedType, EscrowMatchesSwaps, XbtcIn, OpenInbound
<1>8. VolumesCountFinalized'
  BY <1>1, <1>6 DEF SummedInv, VolumesCountFinalized, XbtcIn, XbtcOut, FinalizedInbound
<1> QED
  BY <1>5, <1>7, <1>8 DEF SummedInv

\* Suppliers move what they say, and calls about names move nothing.
LEMMA MovesSums ==
    ASSUME LedgerInv, SummedInv, NEW c \in Controllers, SupplierCalls(c)
    PROVE  SummedInv'
<1> DEFINE swaps == <<inboundSwaps, preimages, outboundSwaps, completed, escrow, inboundVolume,
                      outboundVolume>>
<1>1. /\ c \in Owners /\ Contract \in Owners /\ c # Contract
      /\ Sats \subseteq Nat /\ funds[c] \in Nat
  BY Owned, AmountsAssumption DEF Principals, LedgerInv, Amounts
<1>2. ASSUME NEW key \in Keys, NEW inFee \in InFees, NEW outFee \in OutFees,
             NEW amount \in Sats, RegisterSupplier(c, key, inFee, outFee, amount)
      PROVE  SummedInv'
  <2>1. UNCHANGED swaps /\ wbtc' = Transferred(c, Contract, amount) /\ MayTransfer(c, amount)
    BY <1>2 DEF RegisterSupplier, inbound, outbound
  <2>2. amount \in Int /\ wbtc'[Contract] = wbtc[Contract] + amount
    BY <1>1, <2>1, TransferMoves DEF LedgerInv, Amounts
  <2>3. funds[c] = 0 /\ funds' = [funds EXCEPT ![c] = funds[c] + amount]
    <3>1. funds[c] = 0
      BY <1>2 DEF RegisterSupplier, LedgerInv, Registers
    <3>2. funds' = [funds EXCEPT ![c] = amount] /\ amount = funds[c] + amount
      BY <1>2, <2>2, <3>1 DEF RegisterSupplier
    <3> QED
      BY <3>1, <3>2
  <2> QED
    BY <2>1, <2>2, <2>3, FundsMove, SummedSame
<1>3. ASSUME NEW amount \in Sats, AddFunds(c, amount) PROVE SummedInv'
  <2>1. UNCHANGED swaps /\ wbtc' = Transferred(c, Contract, amount) /\ MayTransfer(c, amount)
    BY <1>3 DEF AddFunds, inbound, outbound
  <2>2. amount \in Int /\ wbtc'[Contract] = wbtc[Contract] + amount
    BY <1>1, <2>1, TransferMoves DEF LedgerInv, Amounts
  <2>3. funds' = [funds EXCEPT ![c] = funds[c] + amount]
    BY <1>3 DEF AddFunds
  <2> QED
    BY <2>1, <2>2, <2>3, FundsMove, SummedSame
<1>4. ASSUME NEW amount \in Sats, RemoveFunds(c, amount) PROVE SummedInv'
  <2> DEFINE moved == 0 - amount
  <2>1. /\ UNCHANGED swaps /\ wbtc' = Transferred(Contract, c, amount)
        /\ MayTransfer(Contract, amount) /\ funds' = [funds EXCEPT ![c] = funds[c] - amount]
    BY <1>4 DEF RemoveFunds, inbound, outbound
  <2>2. amount \in Nat /\ wbtc'[Contract] = wbtc[Contract] - amount /\ wbtc[Contract] \in Nat
    BY <1>1, <2>1, TransferMoves DEF LedgerInv, Amounts
  <2>3. /\ moved \in Int /\ wbtc'[Contract] = wbtc[Contract] + moved
        /\ funds[c] - amount = funds[c] + moved
    BY <1>1, <2>2
  <2> HIDE DEF moved, swaps
  <2>4. SumFunctionOnSet(funds', Controllers) = SumFunctionOnSet(funds, Controllers) + moved
    BY <2>1, <2>3, FundsMove
  <2> QED
    BY <2>1, <2>3, <2>4, SummedSame DEF swaps
<1>5. ASSUME UNCHANGED swaps, UNCHANGED <<funds, wbtc>> PROVE SummedInv'
  BY <1>5, StillSums
<1>6. ASSUME NEW key \in Keys, UpdateSupplierPublicKey(c, key) PROVE SummedInv'
  BY <1>5, <1>6 DEF UpdateSupplierPublicKey, inbound, outbound
<1>7. ASSUME NEW inFee \in InFees, NEW outFee \in OutFees,
             UpdateSupplierFees(c, inFee, outFee)
      PROVE  SummedInv'
  BY <1>5, <1>7 DEF UpdateSupplierFees, inbound, outbound
<1> QED
  BY <1>2, <1>3, <1>4, <1>6, <1>7 DEF SupplierCalls

LEMMA SummedNext == LedgerInv /\ SwapInv /\ SummedInv /\ [Next]_bridgeVars => SummedInv'
<1> SUFFICES ASSUME LedgerInv, SwapInv, SummedInv, [Next]_bridgeVars PROVE SummedInv'
  OBVIOUS
<1>0. LedgerInv'
  BY LedgerNext
<1>1. CASE UNCHANGED bridgeVars
  BY <1>1, StillSums DEF bridgeVars, inbound, outbound
<1>2. ASSUME NEW c \in Controllers, SupplierCalls(c) PROVE SummedInv'
  BY <1>2, MovesSums
<1>3. ASSUME NEW u \in Swappers, InitializeSwapper(u) PROVE SummedInv'
  BY <1>3, StillSums DEF InitializeSwapper, inbound, outbound
<1>4. ASSUME NEW t \in Txids, InboundCalls(t) PROVE SummedInv'
  <2>1. ASSUME NEW c \in Controllers, NEW m \in 1 .. height, EscrowSwap(t, c, m)
        PROVE  SummedInv'
    BY <1>0, <2>1, OpensSums
  <2>2. ASSUME NEW u \in Principals, FinalizeFails(t, u) PROVE SummedInv'
    BY <2>2, StillSums DEF FinalizeFails, inbound, outbound
  <2> QED
    BY <1>4, <2>1, <2>2, PaysSums, ReturnsSums DEF InboundCalls
<1>5. CASE OutboundCalls
  BY <1>5, PlacesSums, PaidSums, RefundsSums DEF OutboundCalls
<1>6. CASE Bitcoin
  BY <1>6, StillSums DEF Bitcoin, BitcoinBlock, SendHtlc, RedeemHtlc, RefundHtlc, Spend, Pay,
                         inbound, outbound
<1> QED
  BY <1>1, <1>2, <1>3, <1>4, <1>5, <1>6 DEF Next

LEMMA SummedInit == Init => SummedInv
<1> SUFFICES ASSUME Init PROVE SummedInv
  OBVIOUS
<1>1. SummedType
  BY FS_EmptySet DEF Init, Empty, SummedType
<1>2. /\ OpenInbound = {} /\ OpenOutbound = {}
      /\ FinalizedInbound = {} /\ FinalizedOutbound = {}
  BY DEF Init, Empty, OpenInbound, OpenOutbound, FinalizedInbound, FinalizedOutbound
<1>3. \A S : S = {} => XbtcIn(S) = 0 /\ XbtcOut(S) = 0
  BY XbtcNone DEF XbtcIn, XbtcOut
<1>4. EscrowMatchesSwaps
  BY <1>2, <1>3 DEF Init, EscrowMatchesSwaps
<1>5. VolumesCountFinalized
  BY <1>2, <1>3 DEF Init, VolumesCountFinalized
<1>6. SumFunctionOnSet(funds, Controllers) = 0
  BY ControllersAssumption, SumZero DEF Init
<1>7. wbtc[Contract] = 0
  BY Owned DEF Init
<1> QED
  BY <1>1, <1>2, <1>3, <1>4, <1>5, <1>6, <1>7 DEF SummedInv, ContractSolvent

BridgeInv == LedgerInv /\ SwapInv /\ KeysInv /\ SummedInv

LEMMA BridgeHolds == Spec => []BridgeInv
<1>1. Init => BridgeInv
  <2>1. Init => SwapInv
    BY ExpirationAssumption
       DEF Init, Empty, SwapInv, ClockInv, HtlcInv, EscrowInv, RevealInv, PaidInv,
           FinalizedInbound
  <2>2. Init => KeysInv
    BY NamesAssumption DEF Init, KeysInv, KeysInverse, None
  <2> QED
    BY <2>1, <2>2, LedgerInit, SummedInit DEF BridgeInv
<1>2. BridgeInv /\ [Next]_bridgeVars => BridgeInv'
  BY LedgerNext, SwapStep, KeysStep, SummedNext DEF BridgeInv
<1> QED
  BY <1>1, <1>2, PTL DEF Spec

\* supplier-escrow is, at every moment, what the supplier's open inbound swaps
\* hold: no order of escrows, payments and revocations makes them drift apart.
THEOREM EscrowsMatch == Spec => []EscrowMatchesSwaps
<1>1. BridgeInv => EscrowMatchesSwaps
  BY DEF BridgeInv, SummedInv
<1> QED
  BY <1>1, BridgeHolds, PTL

\* The contract owns exactly the funds of its suppliers and what the open swaps
\* of both directions hold, for every fee and every order of calls.
THEOREM Solvent == Spec => []ContractSolvent
<1>1. BridgeInv => ContractSolvent
  BY DEF BridgeInv, SummedInv
<1> QED
  BY <1>1, BridgeHolds, PTL

\* user-inbound-volume-map and user-outbound-volume-map count every finalized
\* swap once, and no other.
THEOREM VolumesCount == Spec => []VolumesCountFinalized
<1>1. BridgeInv => VolumesCountFinalized
  BY DEF BridgeInv, SummedInv
<1> QED
  BY <1>1, BridgeHolds, PTL

\* No balance of the contract's maps goes below zero, and only swaps that were
\* made are over: the uint subtraction from an escrow never underflows, as the
\* escrow is a sum of what swaps hold.
THEOREM BridgeTypes == Spec => []TypeOK
<1>1. BridgeInv => TypeOK
  <2> SUFFICES ASSUME BridgeInv PROVE TypeOK
    OBVIOUS
  <2>1. ASSUME NEW c \in Controllers PROVE escrow[c] \in Nat
    <3>1. escrow[c] = Xbtc(inboundSwaps, OpenOf(c))
      BY DEF BridgeInv, SummedInv, EscrowMatchesSwaps, XbtcIn, OpenOf
    <3> QED
      BY <3>1, Summable, XbtcNat DEF BridgeInv, SummedInv, SummedType
  <2>2. /\ \A c \in Controllers : funds[c] \in Nat
        /\ \A o \in Owners : wbtc[o] \in Nat
    BY DEF BridgeInv, LedgerInv, Amounts
  <2>3. /\ DOMAIN preimages \subseteq DOMAIN inboundSwaps
        /\ DOMAIN completed \subseteq DOMAIN outboundSwaps
        /\ DOMAIN outboundSwaps = 0 .. nextOutbound - 1
    BY DEF BridgeInv, LedgerInv, SwapParts, NumberedInv
  <2> QED
    BY <2>1, <2>2, <2>3 DEF TypeOK, BridgeInv, KeysInv
<1> QED
  BY <1>1, BridgeHolds, PTL

\* Whatever the maps let a caller take out of the contract, its tokens cover, and
\* the escrow covers the swap that leaves it.
TransfersCovered ==
    /\ \A c \in Controllers, amount \in Nat :
         MayRemove(c, amount) => wbtc[Contract] >= amount
    /\ \A t \in Txids :
         MayFinalize(t) \/ MayRevokeInbound(t) =>
             /\ wbtc[Contract] >= inboundSwaps[t].xbtc
             /\ escrow[inboundSwaps[t].supplier] >= inboundSwaps[t].xbtc
    /\ \A i \in OutboundIds :
         OutboundRevocable(i) => wbtc[Contract] >= outboundSwaps[i].xbtc

\* One swap of a set holds no more than the set.
LEMMA XbtcPart ==
    ASSUME NEW swaps, NEW S, IsFiniteSet(S), Holding(swaps, S), NEW t \in S
    PROVE  swaps[t].xbtc \in Nat /\ swaps[t].xbtc <= Xbtc(swaps, S)
<1> DEFINE f == [x \in S |-> swaps[x].xbtc]
<1>1. (\A x \in S : f[x] \in Nat) /\ f[t] = swaps[t].xbtc
  BY DEF Holding
<1> HIDE DEF f
<1>2. f[t] <= SumFunctionOnSet(f, S)
  BY <1>1, SumPart
<1> QED
  BY <1>1, <1>2 DEF Xbtc, f

\* The contract owns each of the parts it owes.
LEMMA OwnsParts ==
    ASSUME BridgeInv
    PROVE  /\ \A c \in Controllers : funds[c] \in Nat /\ funds[c] <= wbtc[Contract]
           /\ Xbtc(inboundSwaps, OpenInbound) <= wbtc[Contract]
           /\ Xbtc(outboundSwaps, OpenOutbound) <= wbtc[Contract]
           /\ {Xbtc(inboundSwaps, OpenInbound), Xbtc(outboundSwaps, OpenOutbound),
               wbtc[Contract]} \subseteq Nat
<1>1. LedgerInv /\ ContractSolvent /\ IsFiniteSet(DOMAIN inboundSwaps)
  BY DEF BridgeInv, SummedInv, SummedType
<1> DEFINE all == SumFunctionOnSet(funds, Controllers)
           in == Xbtc(inboundSwaps, OpenInbound)
           out == Xbtc(outboundSwaps, OpenOutbound)
<1>2. \A c \in Controllers : funds[c] \in Nat
  BY <1>1 DEF LedgerInv, Amounts
<1>3. all \in Nat /\ \A c \in Controllers : funds[c] <= all
  BY <1>2, ControllersAssumption, SumNat, SumPart
<1>4. in \in Nat /\ out \in Nat
  BY <1>1, Summable, XbtcNat
<1>5. wbtc[Contract] = all + in + out
  BY <1>1 DEF ContractSolvent, XbtcIn, XbtcOut
<1> HIDE DEF all, in, out
<1>6. in <= wbtc[Contract] /\ out <= wbtc[Contract] /\ wbtc[Contract] \in Nat
      /\ all <= wbtc[Contract]
  BY <1>3, <1>4, <1>5
<1>7. ASSUME NEW c \in Controllers PROVE funds[c] <= wbtc[Contract]
  BY <1>2, <1>3, <1>6
<1> QED
  BY <1>2, <1>4, <1>6, <1>7 DEF in, out

\* remove-funds, finalize-swap and the two revocations are never refused for
\* want of the contract's tokens, and the uint subtraction from supplier-escrow never
\* underflows: no supplier and no swapper can be left with a claim the contract
\* cannot pay.
THEOREM ClaimsArePaid == Spec => []TransfersCovered
<1>1. BridgeInv => TransfersCovered
  <2> SUFFICES ASSUME BridgeInv PROVE TransfersCovered
    OBVIOUS
  <2>1. LedgerInv /\ EscrowMatchesSwaps /\ IsFiniteSet(DOMAIN inboundSwaps)
    BY DEF BridgeInv, SummedInv, SummedType
  <2>2. ASSUME NEW c \in Controllers, NEW amount \in Nat, MayRemove(c, amount)
        PROVE  wbtc[Contract] >= amount
    BY <2>2, OwnsParts DEF MayRemove
  <2>3. ASSUME NEW t \in Txids, t \in OpenInbound
        PROVE  /\ wbtc[Contract] >= inboundSwaps[t].xbtc
               /\ escrow[inboundSwaps[t].supplier] >= inboundSwaps[t].xbtc
    <3> DEFINE c == inboundSwaps[t].supplier
    <3>1. c \in Controllers /\ t \in OpenOf(c)
      BY <2>1, <2>3 DEF LedgerInv, SwapParts, Parts, OpenInbound, OpenOf
    <3>2. escrow[c] = Xbtc(inboundSwaps, OpenOf(c))
      BY <2>1, <3>1 DEF EscrowMatchesSwaps, XbtcIn, OpenOf
    <3> HIDE DEF c
    <3>3. /\ IsFiniteSet(OpenOf(c)) /\ Holding(inboundSwaps, OpenOf(c))
          /\ IsFiniteSet(OpenInbound) /\ Holding(inboundSwaps, OpenInbound)
      BY <2>1, Summable
    <3>4. /\ inboundSwaps[t].xbtc \in Nat
          /\ inboundSwaps[t].xbtc <= Xbtc(inboundSwaps, OpenOf(c))
          /\ inboundSwaps[t].xbtc <= Xbtc(inboundSwaps, OpenInbound)
          /\ Xbtc(inboundSwaps, OpenOf(c)) \in Nat
      BY <2>3, <3>1, <3>3, XbtcPart, XbtcNat
    <3>5. inboundSwaps[t].xbtc <= wbtc[Contract]
      BY <3>4, OwnsParts
    <3> QED
      BY <3>2, <3>4, <3>5, OwnsParts DEF c
  <2>4. ASSUME NEW i \in OpenOutbound PROVE wbtc[Contract] >= outboundSwaps[i].xbtc
    <3>1. IsFiniteSet(OpenOutbound) /\ Holding(outboundSwaps, OpenOutbound)
      BY <2>1, Summable
    <3>2. /\ outboundSwaps[i].xbtc \in Nat
          /\ outboundSwaps[i].xbtc <= Xbtc(outboundSwaps, OpenOutbound)
      BY <3>1, XbtcPart
    <3> QED
      BY <3>2, OwnsParts
  <2>5. \A t \in Txids : MayFinalize(t) \/ MayRevokeInbound(t) => t \in OpenInbound
    BY DEF MayFinalize, MayRevokeInbound, OpenInbound, Has
  <2>6. \A i \in OutboundIds : OutboundRevocable(i) => i \in OpenOutbound
    BY DEF OutboundRevocable, OpenOutbound, Has
  <2> QED
    BY <2>2, <2>3, <2>4, <2>5, <2>6 DEF TransfersCovered
<1> QED
  BY <1>1, BridgeHolds, PTL
=============================================================================
