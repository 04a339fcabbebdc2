------------------------- MODULE MCPartitionedEngine -------------------------
(* A small instance of PartitionedEngine for TLC.                          *)
EXTENDS PartitionedEngine

(* Resting and crossing orders of one price, cancels, and modifies that    *)
(* keep or lose the place in the queue.                                    *)
MCCommands ==
    {c \in NewOrderCommand :
        /\ c.order.id # kInvalidOrderId /\ c.order.price = 1
        /\ c.order.type = "Limit" /\ c.order.tif = "GoodTillCancel"}
    \cup CancelCommand
    \cup {c \in ModifyCommand : c.new_price = 1 /\ c.new_quantity > 0}

(* Order ids are only compared for equality.                               *)
Symmetry == Permutations(OrderIds)
=============================================================================
