------------------------------ MODULE BookTypes ------------------------------
(***************************************************************************)
(* The vocabulary of the order books (types.hpp, order.hpp, trade.hpp):    *)
(* sides, order types, times in force, statuses, reject reasons, the price *)
(* order of each side and the test that decides whether two prices cross.  *)
(* Both book implementations and the price-time specification use it.      *)
(***************************************************************************)
EXTENDS Integers

CONSTANTS
    OrderIds,         \* the order ids clients use (uint64, never 0)
    kInvalidOrderId,  \* the id 0, which every book refuses
    MaxPrice,         \* prices of commands are 0..MaxPrice; 0 stands for every price <= 0
    OrderQuantities,  \* the quantities commands carry
    QuantityModulus   \* 2^64 in the code: quantities are uint64 and wrap

ASSUME OrderIdsAssumption == kInvalidOrderId \notin OrderIds
ASSUME MaxPriceAssumption == MaxPrice \in Nat
ASSUME QuantityAssumption ==
    /\ QuantityModulus \in Nat \ {0}
    /\ OrderQuantities \subseteq 0 .. (QuantityModulus - 1)

Side == {"Buy", "Sell"}
OrderType == {"Limit", "Market"}
TimeInForce == {"GoodTillCancel", "ImmediateOrCancel", "FillOrKill"}
OrderStatus == {"New", "PartiallyFilled", "Filled", "Cancelled", "Rejected"}
RejectReason ==
    {"None", "UnknownOrder", "DuplicateOrderId", "InvalidQuantity",
     "InvalidPrice", "InvalidSymbol", "SelfMatchPrevented",
     "MarketOrderNoLiquidity", "FillOrKillNotFilled", "PoolExhausted"}

Quantity == 0 .. (QuantityModulus - 1)
Price == 0 .. MaxPrice
LevelPrice == 1 .. MaxPrice

opposite(s) == IF s = "Buy" THEN "Sell" ELSE "Buy"

(* The comparators of the two std::maps: bids highest first, asks lowest.  *)
Better(s, p, q) == IF s = "Buy" THEN p > q ELSE p < q

(* begin() of the map of side s, whose keys are the set S.                 *)
Best(s, S) == CHOOSE p \in S : \A q \in S : ~Better(s, q, p)

PriceCrosses(aggressor_side, limit_price, level_price, is_market) ==
    \/ is_market
    \/ aggressor_side = "Buy" /\ level_price <= limit_price
    \/ aggressor_side = "Sell" /\ level_price >= limit_price

(* The arguments of AddOrder.                                              *)
NewOrder ==
    [id : OrderIds \cup {kInvalidOrderId}, side : Side, type : OrderType,
     price : Price, quantity : OrderQuantities, tif : TimeInForce]

(* An order resting in a book.  Its id is the name of its list node.       *)
Order ==
    [side : Side, type : OrderType, price : LevelPrice, quantity : Quantity,
     remaining_quantity : Quantity, tif : TimeInForce,
     sequence_number : Nat, status : OrderStatus]

(* The part of a Trade that varies within one call; the aggressor, its     *)
(* side and the sequence number are those of the call.                     *)
Trade == [resting_order_id : OrderIds, price : LevelPrice, quantity : Quantity]

(* The fields AddResult, CancelResult and ModifyResult have between them.  *)
Result ==
    [success : BOOLEAN, reject_reason : RejectReason, lost_priority : BOOLEAN,
     final_status : OrderStatus, filled_quantity : Quantity,
     remaining_quantity : Quantity]

Rejected(reason) ==
    [success |-> FALSE, reject_reason |-> reason, lost_priority |-> FALSE,
     final_status |-> "Rejected", filled_quantity |-> 0,
     remaining_quantity |-> 0]
=============================================================================
