------------------------------- MODULE Bridge -------------------------------
(***************************************************************************)
(* The swap bridge between bitcoin and wrapped bitcoin                      *)
(* (degen-bridge-testnet-v3.clar): suppliers lend xBTC to inbound swaps,    *)
(* which pay it for bitcoin locked in an HTLC, and get xBTC for bitcoin they *)
(* send in outbound swaps.                                                  *)
(*                                                                         *)
(* Two clocks run: block-height counts Stacks blocks, burn-block-height     *)
(* bitcoin blocks, of which some carry no Stacks block.  An HTLC is refunded *)
(* by bitcoin blocks (its csv), an escrow expires by Stacks blocks.         *)
(* Supplier and swapper ids are identified with the principals that         *)
(* registered them, and min-to-receive, which can only make a call fail, is  *)
(* left out.  Bitcoin, the wrapped token and the exchange are external; a    *)
(* preimage is its swapper's alone until a call carries it, whether that     *)
(* call succeeds or not.                                                    *)
(***************************************************************************)
EXTENDS Integers, FiniteSets, Functions, Sequences

CONSTANTS
    Controllers,        \* the principals that may register as suppliers
    Swappers,           \* the principals that swap
    Keys,               \* the suppliers' bitcoin public keys
    Txids,              \* HTLC transactions, each with a hash of its own
    Payments,           \* bitcoin transactions of suppliers to swappers
    InFees, OutFees,    \* the fees, [rate, base], a supplier may ask for
    Sats,               \* the amounts swapped, and moved by suppliers
    Csvs,               \* the expirations of HTLCs
    MinExpiration,      \* 250
    EscrowExpiration,   \* 200
    MaxHtlcExpiration,  \* 550
    OutboundExpiration, \* 200
    Supply,             \* what every principal owns at first
    MaxOutbound,        \* bound of next-outbound-id
    MaxPrevBlocks,      \* 10
    MaxBurn,            \* bound of burn-block-height
    MaxMissed,          \* bitcoin blocks without a Stacks block, at most
    RedeemWithin        \* bitcoin blocks in which a supplier redeems an HTLC

ASSUME NamesAssumption ==
    /\ "none" \notin Controllers \cup Keys /\ "revoked" \notin Payments
    /\ {"bridge", "amm"} \cap (Controllers \cup Swappers) = {}
ASSUME ControllersAssumption == IsFiniteSet(Controllers)
ASSUME AmountsAssumption ==
    /\ Sats \subseteq Nat /\ Supply \in Nat /\ MaxOutbound \in Nat
    /\ InFees \cup OutFees \subseteq [rate : Int, base : Int]
ASSUME ExpirationAssumption ==
    /\ Csvs \subseteq Nat
    /\ EscrowExpiration \in Nat /\ MaxPrevBlocks \in Nat
    /\ MaxMissed \in Nat /\ RedeemWithin \in Nat
\* Missing blocks and a late redemption fit in the blocks (200) between the end
\* of an escrow and that of its HTLC.
ASSUME TimelyAssumption == MaxPrevBlocks + MaxMissed + RedeemWithin < EscrowExpiration

VARIABLES
    burn, burnAt,                      \* the bitcoin height; that of each
                                       \* Stacks block
    htlcs, revealed, payments,         \* bitcoin; when a preimage was known
    wbtc,                              \* external: who owns how much
    supplierKey, supplierByKey, fees,  \* supplier-by-id, -by-public-key
    swapperIds,                        \* the registered swappers
    funds, escrow,                     \* supplier-funds, supplier-escrow
    inboundSwaps, preimages,           \* inbound-swaps, inbound-preimages
    outboundSwaps, nextOutbound,       \* outbound-swaps, next-outbound-id
    completed, completedTxids,         \* completed-outbound-swaps, -txids
    inboundVolume, outboundVolume      \* user-inbound-volume-map, ...

clocks == <<burn, burnAt>>
bitcoin == <<htlcs, revealed, payments>>
suppliers == <<supplierKey, supplierByKey, fees>>
inbound == <<escrow, inboundSwaps, preimages, inboundVolume>>
outbound == <<outboundSwaps, nextOutbound, completed, completedTxids,
              outboundVolume>>
bridgeVars == <<clocks, bitcoin, wbtc, suppliers, swapperIds, funds, inbound,
                outbound>>

-----------------------------------------------------------------------------
None == "none"
RevokedPreimage == "revoked"
RevokedTxid == "revoked"
Contract == "bridge"
Exchange == "amm"

\* A map of the contract is a function of the keys it has.
Empty == [x \in {} |-> None]
Has(map, key) == key \in DOMAIN map
Put(map, key, value) ==
    [x \in DOMAIN map \cup {key} |-> IF x = key THEN value ELSE map[x]]

Principals == Controllers \cup Swappers
Owners == Principals \cup {Contract, Exchange}
OutboundIds == 0 .. MaxOutbound - 1
Registered(c) == supplierKey[c] # None

height == Len(burnAt)           \* block-height
burnHeight == burnAt[height]    \* burn-block-height, as calls see it
Missed == burn - height

Init ==
    /\ burn = 1 /\ burnAt = <<1>>
    /\ wbtc = [p \in Owners |-> IF p \in Principals THEN Supply ELSE 0]
    /\ supplierKey = [c \in Controllers |-> None]
    /\ supplierByKey = [k \in Keys |-> None]
    /\ fees = [c \in Controllers |-> None]
    /\ swapperIds = {}
    /\ funds = [c \in Controllers |-> 0]
    /\ escrow = [c \in Controllers |-> 0]
    /\ nextOutbound = 0
    /\ htlcs = Empty /\ revealed = Empty /\ payments = Empty
    /\ inboundSwaps = Empty /\ preimages = Empty
    /\ outboundSwaps = Empty /\ completed = Empty /\ completedTxids = Empty
    /\ inboundVolume = [u \in Swappers |-> 0]
    /\ outboundVolume = [u \in Swappers |-> 0]

\* transfer: the token refuses to move nothing, or more than there is.
MayTransfer(from, amount) == amount > 0 /\ wbtc[from] >= amount
Transferred(from, to, amount) ==
    [wbtc EXCEPT ![from] = @ - amount, ![to] = @ + amount]

\* A rate, in basis points, may be below 0, and so may a base fee.
ValidateFee(fee) == fee.rate > -10000 /\ fee.rate < 10000

\* get-swap-amount, an error (here: not above 0) when the fees eat it all.  The
\* division truncates, as \div does: no valid rate takes the dividend below 0.
SwapAmount(amount, fee) == ((amount * (10000 - fee.rate)) \div 10000) - fee.base

-----------------------------------------------------------------------------
(* Suppliers and swappers *)

RegisterSupplier(c, key, inFee, outFee, amount) ==
    /\ ~Registered(c)
    /\ ValidateFee(inFee) /\ ValidateFee(outFee)
    /\ supplierByKey[key] = None
    /\ MayTransfer(c, amount)
    /\ supplierKey' = [supplierKey EXCEPT ![c] = key]
    /\ supplierByKey' = [supplierByKey EXCEPT ![key] = c]
    /\ fees' = [fees EXCEPT ![c] = [in |-> inFee, out |-> outFee]]
    /\ wbtc' = Transferred(c, Contract, amount)
    /\ funds' = [funds EXCEPT ![c] = amount]
    /\ UNCHANGED <<clocks, bitcoin, swapperIds, inbound, outbound>>

AddFunds(c, amount) ==
    /\ Registered(c)
    /\ MayTransfer(c, amount)
    /\ wbtc' = Transferred(c, Contract, amount)
    /\ funds' = [funds EXCEPT ![c] = @ + amount]
    /\ UNCHANGED <<clocks, bitcoin, suppliers, swapperIds, inbound, outbound>>

\* Mutant of MayRemove: what the supplier owns is not looked at.
MayRemoveUnfunded(c, amount) == Registered(c)

MayRemove(c, amount) == Registered(c) /\ funds[c] >= amount

RemoveFunds(c, amount) ==
    /\ MayRemove(c, amount)
    /\ MayTransfer(Contract, amount)
    /\ wbtc' = Transferred(Contract, c, amount)
    /\ funds' = [funds EXCEPT ![c] = @ - amount]
    /\ UNCHANGED <<clocks, bitcoin, suppliers, swapperIds, inbound, outbound>>

UpdateSupplierFees(c, inFee, outFee) ==
    /\ Registered(c)
    /\ ValidateFee(inFee) /\ ValidateFee(outFee)
    /\ fees' = [fees EXCEPT ![c] = [in |-> inFee, out |-> outFee]]
    /\ UNCHANGED <<clocks, bitcoin, wbtc, supplierKey, supplierByKey,
                   swapperIds, funds, inbound, outbound>>

\* Mutant of RenewKey: the old key still leads to the supplier.
RenewKeyKeepingOld(c, key) == [supplierByKey EXCEPT ![key] = c]

\* The key is inserted before the old one is deleted, so it must be new.
RenewKey(c, key) == [supplierByKey EXCEPT ![key] = c, ![supplierKey[c]] = None]

UpdateSupplierPublicKey(c, key) ==
    /\ Registered(c)
    /\ supplierByKey[key] = None
    /\ supplierByKey' = RenewKey(c, key)
    /\ supplierKey' = [supplierKey EXCEPT ![c] = key]
    /\ UNCHANGED <<clocks, bitcoin, wbtc, fees, swapperIds, funds, inbound,
                   outbound>>

InitializeSwapper(u) ==
    /\ u \notin swapperIds
    /\ swapperIds' = swapperIds \cup {u}
    /\ UNCHANGED <<clocks, bitcoin, wbtc, suppliers, funds, inbound, outbound>>
-----------------------------------------------------------------------------
(* Time and bitcoin, external.  A supplier redeems in time. *)

NoneOverdue ==
    \A t \in Txids : Has(revealed, t) /\ htlcs[t].spent = "no"
        => burn < revealed[t] + RedeemWithin

BitcoinBlock ==
    /\ burn < MaxBurn
    /\ NoneOverdue
    /\ burn' = burn + 1
    /\ \/ burnAt' = Append(burnAt, burn + 1)
       \/ Missed < MaxMissed /\ UNCHANGED burnAt
    /\ UNCHANGED <<bitcoin, wbtc, suppliers, swapperIds, funds, inbound, outbound>>

SendHtlc(t, u, key, csv, sats) ==
    /\ ~Has(htlcs, t)
    /\ htlcs' = Put(htlcs, t,
           [swapper |-> u, recipient |-> key, csv |-> csv, sats |-> sats,
            burn |-> burn, spent |-> "no"])
    /\ UNCHANGED <<clocks, revealed, payments, wbtc, suppliers, swapperIds, funds,
                   inbound, outbound>>

Unspent(t) == Has(htlcs, t) /\ htlcs[t].spent = "no"
Spend(t, how) ==
    /\ Unspent(t)
    /\ htlcs' = [htlcs EXCEPT ![t].spent = how]
    /\ UNCHANGED <<clocks, revealed, payments, wbtc, suppliers, swapperIds, funds,
                   inbound, outbound>>

\* The script's two branches: the preimage, or csv blocks since the output.
RedeemHtlc(t) == Has(revealed, t) /\ Spend(t, "redeemed")
RefundHtlc(t) ==
    Unspent(t) /\ burn >= htlcs[t].burn + htlcs[t].csv /\ Spend(t, "refunded")

Pay(p, u, sats) ==
    /\ ~Has(payments, p)
    /\ payments' = Put(payments, p, [to |-> u, sats |-> sats])
    /\ UNCHANGED <<clocks, htlcs, revealed, wbtc, suppliers, swapperIds, funds,
                   inbound, outbound>>

-----------------------------------------------------------------------------
(* Inbound swaps *)

\* was-tx-mined-prev?: m is a past Stacks block, and the transaction is in its
\* bitcoin block or in one that at most ten parents lead back to.
WasTxMined(t, m) ==
    /\ m < height
    /\ burnAt[m] - htlcs[t].burn \in 0 .. MaxPrevBlocks

ValidateExpiration(csv, m) ==
    /\ csv > (height - m) + MinExpiration
    /\ csv < MaxHtlcExpiration

\* Mutant of EscrowUntil: the escrow lasts as long as the HTLC.
EscrowUntilRefund(csv, m) == m + csv

\* The expiration of an escrow
EscrowUntil(csv, m) == m + (csv - EscrowExpiration)

EscrowSwap(t, c, m) ==
    LET htlc == htlcs[t]
        xbtc == SwapAmount(htlc.sats, fees[c].in) IN
    /\ Has(htlcs, t) /\ WasTxMined(t, m)
    /\ Registered(c) /\ supplierKey[c] = htlc.recipient
    /\ xbtc > 0 /\ funds[c] >= xbtc
    /\ ValidateExpiration(htlc.csv, m)
    /\ htlc.swapper \in swapperIds
    /\ ~Has(inboundSwaps, t)
    /\ inboundSwaps' = Put(inboundSwaps, t,
           [swapper |-> htlc.swapper, xbtc |-> xbtc, supplier |-> c,
            expiration |-> EscrowUntil(htlc.csv, m)])
    /\ funds' = [funds EXCEPT ![c] = @ - xbtc]
    /\ escrow' = [escrow EXCEPT ![c] = @ + xbtc]
    /\ UNCHANGED <<clocks, bitcoin, wbtc, suppliers, swapperIds, preimages,
                   inboundVolume, outbound>>

Knows(u, t) == u = inboundSwaps[t].swapper \/ Has(revealed, t)
Reveal(t) == revealed' = IF Has(revealed, t) THEN revealed ELSE Put(revealed, t, burn)

MayFinalize(t) ==
    /\ Has(inboundSwaps, t) /\ ~Has(preimages, t)
    /\ inboundSwaps[t].expiration >= height

\* The swapper is paid, and the exchange takes as much from the caller.
FinalizeSwap(t, u) ==
    LET swap == inboundSwaps[t]
        paid == Transferred(Contract, swap.swapper, swap.xbtc) IN
    /\ MayFinalize(t) /\ Knows(u, t)
    /\ MayTransfer(Contract, swap.xbtc)
    /\ paid[u] >= swap.xbtc
    /\ wbtc' = [paid EXCEPT ![u] = @ - swap.xbtc, ![Exchange] = @ + swap.xbtc]
    /\ preimages' = Put(preimages, t, "preimage")
    /\ escrow' = [escrow EXCEPT ![swap.supplier] = @ - swap.xbtc]
    /\ inboundVolume' = [inboundVolume EXCEPT ![swap.swapper] = @ + swap.xbtc]
    /\ Reveal(t)
    /\ UNCHANGED <<clocks, htlcs, payments, suppliers, swapperIds, funds,
                   inboundSwaps, outbound>>

\* The call is refused (expired, or by the exchange) but carried the preimage.
FinalizeFails(t, u) ==
    /\ Has(inboundSwaps, t) /\ Knows(u, t) /\ ~Has(revealed, t)
    /\ Reveal(t)
    /\ UNCHANGED <<clocks, htlcs, payments, wbtc, suppliers, swapperIds, funds,
                   inbound, outbound>>

\* Mutant of MayRevokeInbound: a finalized swap may be revoked.
MayRevokeFinalized(t) ==
    Has(inboundSwaps, t) /\ inboundSwaps[t].expiration <= height

MayRevokeInbound(t) ==
    /\ Has(inboundSwaps, t) /\ ~Has(preimages, t)
    /\ inboundSwaps[t].expiration <= height

RevokeExpiredInbound(t) ==
    LET swap == inboundSwaps[t] IN
    /\ MayRevokeInbound(t)
    /\ preimages' = Put(preimages, t, RevokedPreimage)
    /\ escrow' = [escrow EXCEPT ![swap.supplier] = @ - swap.xbtc]
    /\ funds' = [funds EXCEPT ![swap.supplier] = @ + swap.xbtc]
    /\ UNCHANGED <<clocks, bitcoin, wbtc, suppliers, swapperIds, inboundSwaps,
                   inboundVolume, outbound>>

-----------------------------------------------------------------------------
(* Outbound swaps *)

InitiateOutboundSwap(u, xbtc, c) ==
    LET sats == SwapAmount(xbtc, fees[c].out) IN
    /\ Registered(c) /\ sats > 0
    /\ MayTransfer(u, xbtc)
    /\ nextOutbound < MaxOutbound
    /\ wbtc' = Transferred(u, Contract, xbtc)
    /\ outboundSwaps' = Put(outboundSwaps, nextOutbound,
           [sats |-> sats, xbtc |-> xbtc, supplier |-> c, swapper |-> u,
            createdAt |-> burnHeight])
    /\ nextOutbound' = nextOutbound + 1
    /\ UNCHANGED <<clocks, bitcoin, suppliers, swapperIds, funds, inbound, completed,
                   completedTxids, outboundVolume>>

\* Mutant of MayFinalizeOutbound: a transaction may pay for several swaps.
MayFinalizeByOldTx(i, p) == ~Has(completed, i)

MayFinalizeOutbound(i, p) == ~Has(completed, i) /\ ~Has(completedTxids, p)

FinalizeOutboundSwap(i, p) ==
    LET swap == outboundSwaps[i] IN
    /\ Has(outboundSwaps, i) /\ Has(payments, p)
    /\ payments[p].to = swap.swapper /\ payments[p].sats >= swap.sats
    /\ MayFinalizeOutbound(i, p)
    /\ completed' = Put(completed, i, p)
    /\ completedTxids' = Put(completedTxids, p, i)
    /\ funds' = [funds EXCEPT ![swap.supplier] = @ + swap.xbtc]
    /\ outboundVolume' = [outboundVolume EXCEPT ![swap.swapper] = @ + swap.xbtc]
    /\ UNCHANGED <<clocks, bitcoin, wbtc, suppliers, swapperIds, inbound,
                   outboundSwaps, nextOutbound>>

\* Mutant of OutboundRevocable: a finalized swap may be revoked.
OutboundAlwaysRevocable(i) ==
    /\ Has(outboundSwaps, i)
    /\ burnHeight >= outboundSwaps[i].createdAt + OutboundExpiration

\* validate-outbound-revocable
OutboundRevocable(i) ==
    /\ Has(outboundSwaps, i) /\ ~Has(completed, i)
    /\ burnHeight >= outboundSwaps[i].createdAt + OutboundExpiration

RevokeExpiredOutbound(i) ==
    LET swap == outboundSwaps[i] IN
    /\ OutboundRevocable(i)
    /\ MayTransfer(Contract, swap.xbtc)
    /\ wbtc' = Transferred(Contract, swap.swapper, swap.xbtc)
    /\ completed' = Put(completed, i, RevokedTxid)
    /\ UNCHANGED <<clocks, bitcoin, suppliers, swapperIds, funds, inbound,
                   outboundSwaps, nextOutbound, completedTxids, outboundVolume>>

-----------------------------------------------------------------------------
SupplierCalls(c) ==
    \/ \E key \in Keys :
         \/ \E inFee \in InFees, outFee \in OutFees, amount \in Sats :
              RegisterSupplier(c, key, inFee, outFee, amount)
         \/ UpdateSupplierPublicKey(c, key)
    \/ \E amount \in Sats : AddFunds(c, amount) \/ RemoveFunds(c, amount)
    \/ \E inFee \in InFees, outFee \in OutFees : UpdateSupplierFees(c, inFee, outFee)

InboundCalls(t) ==
    \/ \E c \in Controllers, m \in 1 .. height : EscrowSwap(t, c, m)
    \/ \E u \in Principals : FinalizeSwap(t, u) \/ FinalizeFails(t, u)
    \/ RevokeExpiredInbound(t)

OutboundCalls ==
    \/ \E u \in Swappers, xbtc \in Sats, c \in Controllers :
         InitiateOutboundSwap(u, xbtc, c)
    \/ \E i \in OutboundIds :
         \/ \E p \in Payments : FinalizeOutboundSwap(i, p)
         \/ RevokeExpiredOutbound(i)

Bitcoin ==
    \/ BitcoinBlock
    \/ \E t \in Txids :
         \/ \E u \in Swappers, key \in Keys, csv \in Csvs, sats \in Sats :
              SendHtlc(t, u, key, csv, sats)
         \/ RedeemHtlc(t) \/ RefundHtlc(t)
    \/ \E p \in Payments, u \in Swappers, sats \in Sats : Pay(p, u, sats)

Next ==
    \/ \E c \in Controllers : SupplierCalls(c)
    \/ \E u \in Swappers : InitializeSwapper(u)
    \/ \E t \in Txids : InboundCalls(t)
    \/ OutboundCalls
    \/ Bitcoin

Spec == Init /\ [][Next]_bridgeVars

-----------------------------------------------------------------------------
(* Properties *)

OpenInbound == DOMAIN inboundSwaps \ DOMAIN preimages
OpenOutbound == DOMAIN outboundSwaps \ DOMAIN completed
FinalizedInbound == {t \in DOMAIN preimages : preimages[t] = "preimage"}
FinalizedOutbound == {i \in DOMAIN completed : completed[i] \in Payments}

\* What some swaps of a map hold
Xbtc(swaps, S) == SumFunctionOnSet([x \in S |-> swaps[x].xbtc], S)
XbtcIn(S) == Xbtc(inboundSwaps, S)
XbtcOut(S) == Xbtc(outboundSwaps, S)

\* Every balance the maps hold is a uint, and only swaps that were made are
\* over.
TypeOK ==
    /\ \A c \in Controllers : funds[c] \in Nat /\ escrow[c] \in Nat
    /\ \A o \in Owners : wbtc[o] \in Nat
    /\ supplierKey \in [Controllers -> Keys \cup {None}]
    /\ supplierByKey \in [Keys -> Controllers \cup {None}]
    /\ DOMAIN preimages \subseteq DOMAIN inboundSwaps
    /\ DOMAIN completed \subseteq DOMAIN outboundSwaps
    /\ DOMAIN outboundSwaps = 0 .. nextOutbound - 1

\* supplier-escrow is the sum of the supplier's swaps that are neither
\* finalized nor revoked, whatever order they were escrowed and ended in.
EscrowMatchesSwaps ==
    \A c \in Controllers :
        escrow[c] = XbtcIn({t \in OpenInbound : inboundSwaps[t].supplier = c})

\* The contract owns exactly the suppliers' funds and what the swaps still open
\* in either direction need: no payment can find it short.
ContractSolvent ==
    wbtc[Contract] = SumFunctionOnSet(funds, Controllers) + XbtcIn(OpenInbound)
                     + XbtcOut(OpenOutbound)

\* supplier-by-id and supplier-by-public-key agree, and no two suppliers
\* share a key, through registrations and changes of keys.
KeysInverse ==
    \A c \in Controllers, k \in Keys : supplierKey[c] = k <=> supplierByKey[k] = c

\* A finalized outbound swap has a bitcoin payment of its own, to its swapper
\* and large enough, and completed-outbound-swap-txids names that swap.
OutboundPaidOnce ==
    /\ \A i \in FinalizedOutbound :
         LET p == completed[i] IN
         /\ Has(payments, p) /\ payments[p].to = outboundSwaps[i].swapper
         /\ payments[p].sats >= outboundSwaps[i].sats
         /\ Has(completedTxids, p) /\ completedTxids[p] = i
    /\ \A p \in DOMAIN completedTxids : completedTxids[p] \in FinalizedOutbound

\* No swapper both gets the xBTC of an inbound swap and takes the bitcoin
\* back: once the swap is finalized the supplier has had the time to redeem
\* the HTLC before it can be refunded, whatever Stacks blocks are missing and
\* whichever block the proof of the transaction started from.
SwapperNeverBoth ==
    \A t \in FinalizedInbound :
        /\ htlcs[t].spent # "refunded"
        /\ htlcs[t].spent = "no" => burn < htlcs[t].burn + htlcs[t].csv

\* The volume of a user is that of the swaps finalized for it, none twice.
VolumesCountFinalized ==
    \A u \in Swappers :
        /\ inboundVolume[u] =
             XbtcIn({t \in FinalizedInbound : inboundSwaps[t].swapper = u})
        /\ outboundVolume[u] =
             XbtcOut({i \in FinalizedOutbound : outboundSwaps[i].swapper = u})

-----------------------------------------------------------------------------
(* The ledger the contract implements *)

Swaps == ({"in"} \X Txids) \cup ({"out"} \X OutboundIds)
Locked(w) ==
    IF w[1] = "in"
    THEN IF w[2] \in OpenInbound THEN inboundSwaps[w[2]].xbtc ELSE 0
    ELSE IF w[2] \in OpenOutbound THEN outboundSwaps[w[2]].xbtc ELSE 0
Backer(w) ==
    IF w[1] = "in"
    THEN IF Has(inboundSwaps, w[2]) THEN inboundSwaps[w[2]].supplier ELSE None
    ELSE IF Has(outboundSwaps, w[2]) THEN outboundSwaps[w[2]].supplier ELSE None
Settled == ({"in"} \X DOMAIN preimages) \cup ({"out"} \X DOMAIN completed)

Ledger == INSTANCE SwapLedger WITH
    Suppliers <- Controllers, Swaps <- Swaps, Nobody <- None, free <- funds,
    locked <- [w \in Swaps |-> Locked(w)],
    backer <- [w \in Swaps |-> Backer(w)],
    settled <- Settled, vault <- wbtc[Contract]

\* Every call moves value as the ledger allows: into a swap once, out of it
\* once and whole, back to no other supplier than the swap's own, and the
\* contract's tokens with it.
BridgeImplementsLedger == Ledger!Spec
=============================================================================
