---------------------------- MODULE PriceTimeBook ----------------------------
(***************************************************************************)
(* What an order book promises its caller: every call takes effect at once *)
(* on a set of resting orders, and returns the trades and the result that  *)
(* price-time priority dictates.  With Capacity at least the number of ids *)
(* this is naive::OrderBook; with the size of the pool it is               *)
(* fast::OrderBook.                                                        *)
(***************************************************************************)
EXTENDS PriceTime

CONSTANT MaxSequence   \* bound on the sequence numbers handed to the book

VARIABLES
    call,      \* the last call: an input, chosen by the caller
    resting,   \* the set of resting orders
    clock,     \* the last sequence number that was used
    trades,    \* the trades of the last call
    result     \* what the last call returned

vars == <<call, resting, clock, trades, result>>

AddCall(o) == [name |-> "AddOrder", order |-> o]
CancelCall(id) == [name |-> "CancelOrder", id |-> id]
ModifyCall(id, p, q) ==
    [name |-> "ModifyOrder", id |-> id, new_price |-> p, new_quantity |-> q]

NoCall == [name |-> "none"]

(* The call takes effect; a sequence number is used up when it matches.    *)
Takes(outcome) ==
    /\ outcome.executed => clock < MaxSequence
    /\ clock' = IF outcome.executed THEN clock + 1 ELSE clock
    /\ result' = outcome.result
    /\ trades' = outcome.trades
    /\ resting' = outcome.resting

Init ==
    /\ call = NoCall
    /\ resting = {}
    /\ clock = 0
    /\ trades = << >>
    /\ result = Rejected("None")

Next ==
    \/ /\ call'.name = "AddOrder"
       /\ call'.order \in NewOrder
       /\ Takes(Added(resting, call'.order, clock + 1))
    \/ /\ call'.name = "CancelOrder"
       /\ call'.id \in OrderIds
       /\ Takes(Cancelled(resting, call'.id))
    \/ /\ call'.name = "ModifyOrder"
       /\ call'.id \in OrderIds
       /\ call'.new_price \in Price
       /\ call'.new_quantity \in OrderQuantities
       /\ Takes(Modified(resting, call'.id, call'.new_price, call'.new_quantity,
                         clock + 1))

Spec == Init /\ [][Next]_vars
=============================================================================
