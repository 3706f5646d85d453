----------------------------- MODULE MCBridge -----------------------------
(* Fees for TLC.  With Discount 2 sats are 3 xBTC less a base fee of 2; with
   OutboundFees 3 xBTC are 2 sats either way, and 1 xBTC is refused or is 1 sat.
   A rate of all there is is refused. *)
EXTENDS Bridge, TLC

Fee(rate, base) == [rate |-> rate, base |-> base]

OneOff == {Fee(0, 1)}
Discount == {Fee(-5000, 2)}
OutboundFees == {Fee(0, 1), Fee(5000, -1), Fee(10000, 0)}
=============================================================================
