----------------------------- MODULE MCRecovery -----------------------------
(* Small instances of Recovery for TLC: two partitions, both symbols on    *)
(* the same one, one of them against the router's default.                 *)
EXTENDS Recovery

MCStart == RegisterSymbolOnPartition(RegisterSymbol(NewPartitioned(2), 1), 2, 1)

(* Two orders that queue, one that trades with either, an order for the    *)
(* other symbol, a modify that loses the place in the queue, and a cancel. *)
MCOrder(id, side, quantity) ==
    [id |-> id, side |-> side, type |-> "Limit", price |-> 1,
     quantity |-> quantity, tif |-> "GoodTillCancel"]

MCCommands ==
    {[kind |-> "NewOrder", symbol |-> 1, order |-> MCOrder(1, "Buy", 1)],
     [kind |-> "NewOrder", symbol |-> 1, order |-> MCOrder(2, "Buy", 2)],
     [kind |-> "NewOrder", symbol |-> 1, order |-> MCOrder(3, "Sell", 2)],
     [kind |-> "NewOrder", symbol |-> 2, order |-> MCOrder(1, "Sell", 1)],
     [kind |-> "Modify", symbol |-> 1, id |-> 1, new_price |-> 1, new_quantity |-> 2],
     [kind |-> "Cancel", symbol |-> 1, id |-> 2]}
=============================================================================
