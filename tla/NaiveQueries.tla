---------------------------- MODULE NaiveQueries ----------------------------
(***************************************************************************)
(* The members of naive::OrderBook that read a book between two calls, and *)
(* RestoreOrder, which rebuilds one from what AllRestingOrders returned.   *)
(***************************************************************************)
EXTENDS NaiveOrderBook, SequencesExt

QuantityAt(side, price) ==
    IF price \in DOMAIN levels[side] THEN levels[side][price].total_quantity ELSE 0

OrderCountAt(side, price) ==
    IF price \in DOMAIN levels[side] THEN Len(levels[side][price].orders) ELSE 0

TotalOrderCount == Cardinality(DOMAIN index)

(* The prices of one side in iteration order.                              *)
PricesInOrder(side) ==
    SetToSortSeq(DOMAIN levels[side], LAMBDA p, q : Better(side, p, q))

(* Mutant: the loop stops after the level that reached the depth.          *)
LevelsOneMore(side, depth) ==
    LET prices == PricesInOrder(side)
        n == IF depth = 0 THEN Len(prices) ELSE Min({depth + 1, Len(prices)})
    IN  [i \in 1 .. n |-> <<prices[i], QuantityAt(side, prices[i])>>]

(* BidLevels and AskLevels.                                                *)
Levels(side, depth) ==
    LET prices == PricesInOrder(side)
        n == IF depth = 0 THEN Len(prices) ELSE Min({depth, Len(prices)})
    IN  [i \in 1 .. n |-> <<prices[i], QuantityAt(side, prices[i])>>]

(* The orders of one side, level by level.                                 *)
SideOrders(side) ==
    LET prices == PricesInOrder(side)
        ids == FlattenSeq([i \in DOMAIN prices |-> levels[side][prices[i]].orders])
    IN  [i \in DOMAIN ids |-> [id |-> ids[i], order |-> node[ids[i]]]]

AllRestingOrders == SideOrders("Buy") \o SideOrders("Sell")

-----------------------------------------------------------------------------
EmptyBook ==
    [levels |-> [s \in Side |-> [p \in {} |-> p]],
     node |-> [id \in {} |-> id], index |-> [id \in {} |-> id]]

(* RestoreOrder: InsertResting of a copy.                                  *)
RestoreOrder(b, r) ==
    [levels |-> InsertedLevels(b.levels, r.id, r.order),
     node |-> Put(b.node, r.id, r.order),
     index |-> Put(b.index, r.id, [side |-> r.order.side, price |-> r.order.price])]

-----------------------------------------------------------------------------
(* Restoring what AllRestingOrders returned, in its order, into an empty   *)
(* book gives the same book: every queue in the same order, the same       *)
(* totals and the same index, after any sequence of calls.                 *)
RestoreReproduces ==
    pc = "idle" =>
        FoldLeft(RestoreOrder, EmptyBook, AllRestingOrders)
            = [levels |-> levels, node |-> node, index |-> index]

(* The orders that rest on a side at a price, found without the levels.    *)
RestingAt(side, price) ==
    {id \in DOMAIN node : node[id].side = side /\ node[id].price = price}

(* The depth BidLevels and AskLevels show is that of the orders: the best  *)
(* prices first, no level left out before the depth is reached, each with  *)
(* the sum of its orders; and the counts add up to the size of the index.  *)
DepthShown ==
    pc = "idle" =>
        /\ \A side \in Side, depth \in 0 .. (MaxPrice + 1) :
            LET shown == Levels(side, depth)
                prices == {p \in LevelPrice : RestingAt(side, p) # {}}
            IN  /\ Len(shown) = IF depth = 0 \/ depth > Cardinality(prices)
                                THEN Cardinality(prices) ELSE depth
                /\ \A i \in DOMAIN shown :
                      /\ Cardinality({p \in prices : Better(side, p, shown[i][1])}) = i - 1
                      /\ shown[i][2] =
                           MapThenSumSet(LAMBDA id : node[id].remaining_quantity,
                                         RestingAt(side, shown[i][1])) % QuantityModulus
        /\ TotalOrderCount =
             MapThenSumSet(LAMBDA l : OrderCountAt(l[1], l[2]), Side \X LevelPrice)
=============================================================================
