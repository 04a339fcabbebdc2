------------------------------ MODULE PriceTime ------------------------------
(***************************************************************************)
(* Price-time priority stated without price levels, queues, an index or a  *)
(* loop: a book is a set of resting orders, priority compares price and    *)
(* then sequence number, and what each resting order trades is given by    *)
(* the quantity that is ahead of it.  This is the reference definition     *)
(* both order books are checked against.                                   *)
(***************************************************************************)
EXTENDS BookTypes, Sequences, SequencesExt, FiniteSets, FiniteSetsExt

CONSTANT Capacity      \* how many orders may rest at once

(* The order o resting under the name id.                                  *)
Named(id, o) ==
    [id |-> id, side |-> o.side, type |-> o.type, price |-> o.price,
     quantity |-> o.quantity, remaining_quantity |-> o.remaining_quantity,
     tif |-> o.tif, sequence_number |-> o.sequence_number, status |-> o.status]

Ids(R) == {r.id : r \in R}
Find(R, id) == CHOOSE r \in R : r.id = id
Liquidity(R) == MapThenSumSet(LAMBDA r : r.remaining_quantity, R)

(* The sum as a Quantity, which wraps.                                     *)
Aggregate(R) == Liquidity(R) % QuantityModulus

(* r is matched before x, two orders on the same side.                     *)
Outranks(r, x) ==
    \/ Better(r.side, r.price, x.price)
    \/ r.price = x.price /\ r.sequence_number < x.sequence_number

(* The resting orders that order o may trade with.                         *)
Crossing(R, o) ==
    {r \in R : /\ r.side = opposite(o.side)
               /\ PriceCrosses(o.side, o.price, r.price, o.type = "Market")}

-----------------------------------------------------------------------------
(* What happens when o trades against the book R.                          *)

Fill(R, o, r) ==
    LET ahead == Liquidity({x \in Crossing(R, o) : Outranks(x, r)})
    IN  Min({r.remaining_quantity, Max({0, o.quantity - ahead})})

Unfilled(R, o) == Max({0, o.quantity - Liquidity(Crossing(R, o))})

Hit(R, o) == {r \in Crossing(R, o) : Fill(R, o, r) > 0}

TradesOf(R, o) ==
    LET inOrder == SetToSortSeq(Hit(R, o), Outranks)
    IN  [i \in DOMAIN inOrder |->
            [resting_order_id |-> inOrder[i].id, price |-> inOrder[i].price,
             quantity |-> Fill(R, o, inOrder[i])]]

(* The orders of R that are still there afterwards.                        *)
Left(R, o) ==
    (R \ Hit(R, o))
    \cup {[r EXCEPT !.remaining_quantity = @ - Fill(R, o, r),
                    !.status = "PartiallyFilled"] :
             r \in {x \in Hit(R, o) : Fill(R, o, x) < x.remaining_quantity}}

(* An outcome: what a call returned, what it traded, the book it left and  *)
(* whether it got as far as matching.                                      *)
Refused(R, reason) ==
    [result |-> Rejected(reason), trades |-> << >>, resting |-> R,
     executed |-> FALSE]

(* The order o trades against the book R and what is left of it may rest.  *)
Executed(R, o, seq, replaces) ==
    LET q == o.quantity
        left == Unfilled(R, o)
        filled == q - left
        rests == o.type = "Limit" /\ o.tif = "GoodTillCancel" /\ left > 0
        others == Left(R, o)
    IN  IF rests /\ Cardinality(others) >= Capacity
        THEN [Refused(R, "PoolExhausted") EXCEPT !.executed = TRUE]
        ELSE [result |-> [success |-> TRUE, reject_reason |-> "None",
                          lost_priority |-> replaces,
                          final_status |->
                             IF filled = q THEN "Filled"
                             ELSE IF ~rests THEN "Cancelled"
                             ELSE IF filled > 0 THEN "PartiallyFilled" ELSE "New",
                          filled_quantity |-> filled,
                          remaining_quantity |-> IF rests THEN left ELSE 0],
              trades |-> TradesOf(R, o),
              resting |-> others \cup
                 IF ~rests THEN {}
                 ELSE {[id |-> o.id, side |-> o.side, type |-> o.type,
                        price |-> o.price, quantity |-> q,
                        remaining_quantity |-> left, tif |-> o.tif,
                        sequence_number |-> seq,
                        status |-> IF filled > 0 THEN "PartiallyFilled" ELSE "New"]},
              executed |-> TRUE]

(* Why an order is refused before it trades.                               *)
Refusal(R, o) ==
    IF o.id = kInvalidOrderId THEN "UnknownOrder"
    ELSE IF o.id \in Ids(R) THEN "DuplicateOrderId"
    ELSE IF o.quantity = 0 THEN "InvalidQuantity"
    ELSE IF o.type = "Limit" /\ o.price <= 0 THEN "InvalidPrice"
    ELSE IF o.type = "Market" /\ \A r \in R : r.side = o.side
         THEN "MarketOrderNoLiquidity"
    ELSE IF o.tif = "FillOrKill" /\ Aggregate(Crossing(R, o)) < o.quantity
         THEN "FillOrKillNotFilled"
    ELSE "None"

-----------------------------------------------------------------------------
(* The three calls.                                                        *)

Added(R, o, seq) ==
    IF Refusal(R, o) # "None" THEN Refused(R, Refusal(R, o))
    ELSE Executed(R, o, seq, FALSE)

Cancelled(R, id) ==
    IF id \notin Ids(R) THEN Refused(R, "UnknownOrder")
    ELSE [result |-> [Rejected("None") EXCEPT !.success = TRUE],
          trades |-> << >>, resting |-> R \ {Find(R, id)}, executed |-> FALSE]

(* A smaller quantity at the same price keeps the order's place.           *)
Amended(R, r, new_quantity) ==
    [result |-> [success |-> TRUE, reject_reason |-> "None",
                 lost_priority |-> FALSE, final_status |-> "PartiallyFilled",
                 filled_quantity |-> 0, remaining_quantity |-> new_quantity],
     trades |-> << >>,
     resting |-> (R \ {r}) \cup
        {[r EXCEPT !.remaining_quantity = new_quantity,
                   !.quantity = @ - (r.remaining_quantity - new_quantity)]},
     executed |-> FALSE]

Modified(R, id, new_price, new_quantity, seq) ==
    LET r == Find(R, id)
    IN  IF id \notin Ids(R) THEN Refused(R, "UnknownOrder")
        ELSE IF new_quantity = 0 THEN Refused(R, "InvalidQuantity")
        ELSE IF new_price <= 0 THEN Refused(R, "InvalidPrice")
        ELSE IF new_price = r.price /\ new_quantity <= r.remaining_quantity
        THEN Amended(R, r, new_quantity)
        ELSE Executed(R \ {r},
                      [id |-> id, side |-> r.side, type |-> r.type,
                       price |-> new_price, quantity |-> new_quantity,
                       tif |-> r.tif], seq, TRUE)
=============================================================================
