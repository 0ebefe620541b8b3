--------------------------- MODULE MCCreditCharge ---------------------------
(* Two charges race for one source beside a refund of it, an operator's       *)
(* adjustment and a charge of another source.                                 *)
EXTENDS CreditCharge

CONSTANTS c1, c2, c3, rf, adj, msg, call

MCRequests == {c1, c2, c3, rf, adj}
MCSources == {msg, call}
MCPrices == {0, 1}
MCAsk ==
    [r \in Requests |->
        CASE r \in {c1, c2} -> [kind |-> "charge", source |-> msg, amount |-> 1]
          [] r = c3 -> [kind |-> "charge", source |-> call, amount |-> 2]
          [] r = rf -> [kind |-> "refund", source |-> msg, amount |-> 0]
          [] r = adj -> [kind |-> "adjust", source |-> msg, amount |-> -1]]
=============================================================================
