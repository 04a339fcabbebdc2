--------------------------- MODULE FastRefinement ---------------------------
(***************************************************************************)
(* fast::OrderBook implements PriceTimeBook with the capacity of its pool: *)
(* an order that would have to rest in a full book is refused and changes  *)
(* nothing.  As in NaiveRefinement, call and last keep what the caller saw *)
(* of the latest completed call.                                           *)
(***************************************************************************)
EXTENDS FastOrderBook

VARIABLES
    call,   \* the latest completed call and its arguments
    last    \* the book, the trades and the result it left

hvars == <<vars, call, last>>

Promise ==
    INSTANCE PriceTimeBook WITH
        Capacity <- PoolCapacity, resting <- last.resting, clock <- last.clock,
        trades <- last.trades, result <- last.result

Visible ==
    [resting |-> {Promise!Named(id, pool.slots[index[id]].order) :
                     id \in DOMAIN index},
     clock |-> clock, trades |-> trades, result |-> result]

(* The call that Finish returns from.                                      *)
CallInProgress ==
    IF op.replaces THEN Promise!ModifyCall(op.id, op.price, op.quantity)
    ELSE Promise!AddCall([id |-> op.id, side |-> op.side, type |-> op.type,
                          price |-> op.price, quantity |-> op.quantity,
                          tif |-> op.tif])

Completes(c) == call' = IF pc' = "idle" THEN c ELSE call

HInit == Init /\ call = Promise!NoCall /\ last = Visible

HNext ==
    /\ \/ \E o \in NewOrder : AddOrder(o) /\ Completes(Promise!AddCall(o))
       \/ \E id \in OrderIds : CancelOrder(id) /\ Completes(Promise!CancelCall(id))
       \/ \E id \in OrderIds, p \in Price, q \in OrderQuantities :
             ModifyOrder(id, p, q) /\ Completes(Promise!ModifyCall(id, p, q))
       \/ Match /\ UNCHANGED call
       \/ Finish /\ Completes(CallInProgress)
    /\ last' = IF pc' = "idle" THEN Visible' ELSE last

HSpec == HInit /\ [][HNext]_hvars

(* Every call of AddOrder, CancelOrder and ModifyOrder has the effect, the *)
(* trades and the result that price-time priority prescribes for a book    *)
(* with room for PoolCapacity orders.                                      *)
ImplementsPriceTime == Promise!Spec
=============================================================================
