---------------------------- MODULE FastOrderBook ----------------------------
(***************************************************************************)
(* me::fast::OrderBook: the same price levels as the naive book, but the   *)
(* orders live in the slots of an ObjectPool and form intrusive doubly     *)
(* linked lists, so that adding and removing an order is pointer surgery   *)
(* on reused memory.  The matching loop is stepped as in NaiveOrderBook.   *)
(***************************************************************************)
EXTENDS LevelMaps, ObjectPool, SequencesExt, FiniteSetsExt

CONSTANT MaxSequence     \* bound on the sequence numbers handed to the book

VARIABLES
    levels,  \* bids_ = levels["Buy"], asks_ = levels["Sell"]: price -> PriceLevel
    index,   \* index_: order id -> slot of its Node
    pool,    \* pool_
    clock,   \* the last sequence number the caller assigned
    pc,      \* where the call in progress is
    op,      \* its arguments and locals
    trades,  \* the trades of the call in progress, or of the last one
    result   \* what the last call returned

book == <<levels, index, pool>>
vars == <<levels, index, pool, clock, pc, op, trades, result>>

Pointer == Slots \cup {nullptr}
Node == [id : OrderIds, order : Order, prev : Pointer, next : Pointer]
PriceLevel == [total_quantity : Quantity, count : Nat, head : Pointer, tail : Pointer]

NoOp ==
    [id |-> kInvalidOrderId, side |-> "Buy", type |-> "Limit", price |-> 0,
     quantity |-> 0, tif |-> "GoodTillCancel", replaces |-> FALSE,
     remaining |-> 0, level_it |-> End, node |-> nullptr]

-----------------------------------------------------------------------------
(* PriceLevel::PushBack and Unlink, as the new slots and the new level.    *)

PushBackSlots(slots, level, n) ==
    LET linked == [slots EXCEPT ![n].prev = level.tail, ![n].next = nullptr]
    IN  IF level.tail = nullptr THEN linked
        ELSE [linked EXCEPT ![level.tail].next = n]

PushBackLevel(level, n) ==
    [level EXCEPT !.head = IF level.tail = nullptr THEN n ELSE @,
                  !.tail = n,
                  !.count = @ + 1]

(* Mutant: next->prev keeps pointing to the unlinked node.                 *)
UnlinkSlotsForwardOnly(slots, n) ==
    LET prev == slots[n].prev
        next == slots[n].next
    IN  [i \in DOMAIN slots |->
            IF i = n THEN [slots[i] EXCEPT !.prev = nullptr, !.next = nullptr]
            ELSE IF i = prev THEN [slots[i] EXCEPT !.next = next]
            ELSE slots[i]]

UnlinkSlots(slots, n) ==
    LET prev == slots[n].prev
        next == slots[n].next
    IN  [i \in DOMAIN slots |->
            IF i = n THEN [slots[i] EXCEPT !.prev = nullptr, !.next = nullptr]
            ELSE IF i = prev THEN [slots[i] EXCEPT !.next = next]
            ELSE IF i = next THEN [slots[i] EXCEPT !.prev = prev]
            ELSE slots[i]]

UnlinkLevel(slots, level, n) ==
    [level EXCEPT !.head = IF slots[n].prev = nullptr THEN slots[n].next ELSE @,
                  !.tail = IF slots[n].next = nullptr THEN slots[n].prev ELSE @,
                  !.count = @ - 1]

(* PriceLevel() value-initialised by operator[] when the price is new.     *)
LevelAt(lv, s, p) ==
    IF p \in DOMAIN lv[s] THEN lv[s][p]
    ELSE [total_quantity |-> 0, count |-> 0, head |-> nullptr, tail |-> nullptr]

(* The members that read the book.                                         *)
QuantityAt(side, price) == LevelAt(levels, side, price).total_quantity
OrderCountAt(side, price) == LevelAt(levels, side, price).count
TotalOrderCount == Cardinality(DOMAIN index)

AvailableCrossingQuantity(lv, side, type, limit_price) ==
    LET s == opposite(side)
        crossing == {p \in DOMAIN lv[s] :
                        PriceCrosses(side, limit_price, p, type = "Market")}
    IN  MapThenSumSet(LAMBDA p : lv[s][p].total_quantity, crossing)
            % QuantityModulus

-----------------------------------------------------------------------------
(* InsertResting once Acquire has found a slot.                            *)
InsertResting(id, o) ==
    LET n == pool.free_head
        acquired == Acquire(pool, [id |-> id, order |-> o,
                                   prev |-> nullptr, next |-> nullptr])
        level == LevelAt(levels, o.side, o.price)
    IN  /\ pool' = [acquired EXCEPT !.slots = PushBackSlots(@, level, n)]
        /\ levels' = SetLevel(levels, o.side, o.price,
                        [PushBackLevel(level, n) EXCEPT
                            !.total_quantity = (@ + o.remaining_quantity)
                                                   % QuantityModulus])
        /\ index' = Put(index, id, n)

(* Mutant: the total loses the original quantity of the order instead of   *)
(* what was left of it.                                                    *)
RemovedLevelsByQuantity(n) ==
    LET o == pool.slots[n].order
        level == [UnlinkLevel(pool.slots, levels[o.side][o.price], n) EXCEPT
                     !.total_quantity = (@ - o.quantity) % QuantityModulus]
    IN  IF level.count = 0 THEN EraseLevel(levels, o.side, o.price)
        ELSE SetLevel(levels, o.side, o.price, level)

(* RemoveFromBook of the node n: the new levels and the new pool.          *)
RemovedLevels(n) ==
    LET o == pool.slots[n].order
        level == [UnlinkLevel(pool.slots, levels[o.side][o.price], n) EXCEPT
                     !.total_quantity = (@ - o.remaining_quantity)
                                            % QuantityModulus]
    IN  IF level.count = 0 THEN EraseLevel(levels, o.side, o.price)
        ELSE SetLevel(levels, o.side, o.price, level)

(* Mutant: the slot is unlinked but not released.                          *)
RemovedPoolKeeps(n) == [pool EXCEPT !.slots = UnlinkSlots(@, n)]

RemovedPool(n) ==
    Release([pool EXCEPT !.slots = UnlinkSlots(@, n)], n)

(* The early returns of AddOrder, in their order.                          *)
AddRejectReason(lv, ix, o) ==
    IF o.id = kInvalidOrderId THEN "UnknownOrder"
    ELSE IF o.id \in DOMAIN ix THEN "DuplicateOrderId"
    ELSE IF o.quantity = 0 THEN "InvalidQuantity"
    ELSE IF o.type = "Limit" /\ o.price <= 0 THEN "InvalidPrice"
    ELSE IF o.type = "Market" /\ DOMAIN lv[opposite(o.side)] = {}
         THEN "MarketOrderNoLiquidity"
    ELSE IF /\ o.tif = "FillOrKill"
            /\ AvailableCrossingQuantity(lv, o.side, o.type, o.price) < o.quantity
         THEN "FillOrKillNotFilled"
    ELSE "None"

(* AddOrder up to the call of Match, on the book (lv, ix, pl).             *)
EnterAddOrder(lv, ix, pl, o, replaces) ==
    LET reason == AddRejectReason(lv, ix, o)
    IN  /\ levels' = lv
        /\ index' = ix
        /\ pool' = pl
        /\ trades' = << >>
        /\ IF reason # "None"
           THEN /\ result' = [Rejected(reason) EXCEPT !.lost_priority = replaces]
                /\ UNCHANGED <<pc, op, clock>>
           ELSE /\ clock' = clock + 1
                /\ pc' = "level"
                /\ op' = [id |-> o.id, side |-> o.side, type |-> o.type,
                          price |-> o.price, quantity |-> o.quantity,
                          tif |-> o.tif, replaces |-> replaces,
                          remaining |-> o.quantity,
                          level_it |-> Begin(lv, opposite(o.side)),
                          node |-> nullptr]
                /\ UNCHANGED result

AddOrder(o) ==
    /\ pc = "idle"
    /\ clock < MaxSequence
    /\ EnterAddOrder(levels, index, pool, o, FALSE)

-----------------------------------------------------------------------------
(* The matching loop (the lambda match_against).                           *)

(* Mutant: the level is matched from its newest order.                     *)
EnterLevelAtTail ==
    /\ pc = "level"
    /\ op.remaining > 0
    /\ op.level_it # End
    /\ PriceCrosses(op.side, op.price, op.level_it, op.type = "Market")
    /\ pc' = "order"
    /\ op' = [op EXCEPT !.node = levels[opposite(op.side)][op.level_it].tail]
    /\ UNCHANGED <<levels, index, pool, clock, trades, result>>

EnterLevel ==
    /\ pc = "level"
    /\ op.remaining > 0
    /\ op.level_it # End
    /\ PriceCrosses(op.side, op.price, op.level_it, op.type = "Market")
    /\ pc' = "order"
    /\ op' = [op EXCEPT !.node = levels[opposite(op.side)][op.level_it].head]
    /\ UNCHANGED <<levels, index, pool, clock, trades, result>>

LeaveMatch ==
    /\ pc = "level"
    /\ \/ op.remaining = 0
       \/ op.level_it = End
       \/ ~PriceCrosses(op.side, op.price, op.level_it, op.type = "Market")
    /\ pc' = "rest"
    /\ UNCHANGED <<levels, index, pool, clock, op, trades, result>>

(* Mutant: next is read from the slot after Release, when the union holds  *)
(* the link of the free list.                                              *)
NextNodeAfterRelease(n) ==
    IF pool.slots[n].order.remaining_quantity <= op.remaining
    THEN pool.free_head ELSE pool.slots[n].next

(* Node* next = node->next, read before the node may be unlinked and       *)
(* released.                                                               *)
NextNode(n) == pool.slots[n].next

(* One iteration of the inner loop.                                        *)
MatchOrder ==
    LET s == opposite(op.side)
        level == levels[s][op.level_it]
        n == op.node
        resting == pool.slots[n].order
        trade_qty == IF op.remaining <= resting.remaining_quantity
                     THEN op.remaining ELSE resting.remaining_quantity
        left == resting.remaining_quantity - trade_qty
        total == (level.total_quantity - trade_qty) % QuantityModulus
    IN  /\ pc = "order"
        /\ op.remaining > 0
        /\ n # nullptr
        /\ trades' = Append(trades, [resting_order_id |-> pool.slots[n].id,
                                     price |-> resting.price,
                                     quantity |-> trade_qty])
        /\ \/ /\ left = 0
              /\ levels' = SetLevel(levels, s, op.level_it,
                               [UnlinkLevel(pool.slots, level, n) EXCEPT
                                   !.total_quantity = total])
              /\ index' = Erase(index, pool.slots[n].id)
              /\ pool' = Release([pool EXCEPT !.slots = UnlinkSlots(@, n)], n)
           \/ /\ left # 0
              /\ pool' = [pool EXCEPT !.slots[n].order.remaining_quantity = left,
                                      !.slots[n].order.status = "PartiallyFilled"]
              /\ levels' = SetLevel(levels, s, op.level_it,
                               [level EXCEPT !.total_quantity = total])
              /\ UNCHANGED index
        /\ op' = [op EXCEPT !.remaining = @ - trade_qty, !.node = NextNode(n)]
        /\ UNCHANGED <<clock, pc, result>>

LeaveLevel ==
    LET s == opposite(op.side)
    IN  /\ pc = "order"
        /\ op.remaining = 0 \/ op.node = nullptr
        /\ pc' = "level"
        /\ op' = [op EXCEPT !.level_it = Following(levels, s, op.level_it),
                            !.node = nullptr]
        /\ levels' = IF levels[s][op.level_it].count = 0
                     THEN EraseLevel(levels, s, op.level_it) ELSE levels
        /\ UNCHANGED <<index, pool, clock, trades, result>>

(* The rest of AddOrder after Match, and of ModifyOrder around it.         *)
Finish ==
    LET filled == op.quantity - op.remaining
        can_rest == /\ op.type = "Limit"
                    /\ op.tif = "GoodTillCancel"
                    /\ op.remaining > 0
        order == [side |-> op.side, type |-> op.type, price |-> op.price,
                  quantity |-> op.quantity, remaining_quantity |-> op.remaining,
                  tif |-> op.tif, sequence_number |-> clock,
                  status |-> IF filled > 0 THEN "PartiallyFilled" ELSE "New"]
        returned == [success |-> TRUE, reject_reason |-> "None",
                     lost_priority |-> op.replaces, final_status |-> "New",
                     filled_quantity |-> filled, remaining_quantity |-> 0]
    IN  /\ pc = "rest"
        /\ pc' = "idle"
        /\ op' = NoOp
        /\ \/ /\ can_rest /\ pool.free_head # nullptr
              /\ InsertResting(op.id, order)
              /\ result' = [returned EXCEPT !.final_status = order.status,
                                            !.remaining_quantity = op.remaining]
           \/ /\ can_rest /\ pool.free_head = nullptr
              /\ result' = [returned EXCEPT
                               !.success = filled > 0,
                               !.reject_reason = "PoolExhausted",
                               !.final_status = IF filled > 0 THEN "Filled"
                                                ELSE "Rejected"]
              /\ UNCHANGED book
           \/ /\ ~can_rest
              /\ result' = [returned EXCEPT
                               !.final_status = IF filled = op.quantity
                                                THEN "Filled" ELSE "Cancelled"]
              /\ UNCHANGED book
        /\ UNCHANGED <<clock, trades>>

-----------------------------------------------------------------------------
CancelOrder(id) ==
    /\ pc = "idle"
    /\ trades' = << >>
    /\ \/ /\ id \notin DOMAIN index
          /\ result' = Rejected("UnknownOrder")
          /\ UNCHANGED book
       \/ /\ id \in DOMAIN index
          /\ levels' = RemovedLevels(index[id])
          /\ index' = Erase(index, id)
          /\ pool' = RemovedPool(index[id])
          /\ result' = [Rejected("None") EXCEPT !.success = TRUE]
    /\ UNCHANGED <<clock, pc, op>>

ModifyRejectReason(id, new_price, new_quantity) ==
    IF id \notin DOMAIN index THEN "UnknownOrder"
    ELSE IF new_quantity = 0 THEN "InvalidQuantity"
    ELSE IF new_price <= 0 THEN "InvalidPrice"
    ELSE "None"

RejectModify(id, new_price, new_quantity) ==
    /\ pc = "idle"
    /\ ModifyRejectReason(id, new_price, new_quantity) # "None"
    /\ trades' = << >>
    /\ result' = Rejected(ModifyRejectReason(id, new_price, new_quantity))
    /\ UNCHANGED <<levels, index, pool, clock, pc, op>>

(* price_unchanged && qty_decrease_only.                                   *)
KeepsPriority(o, new_price, new_quantity) ==
    new_price = o.price /\ new_quantity <= o.remaining_quantity

AmendInPlace(id, new_price, new_quantity) ==
    LET n == index[id]
        snapshot == pool.slots[n].order
        level == levels[snapshot.side][snapshot.price]
        delta == snapshot.remaining_quantity - new_quantity
    IN  /\ pc = "idle"
        /\ ModifyRejectReason(id, new_price, new_quantity) = "None"
        /\ KeepsPriority(snapshot, new_price, new_quantity)
        /\ pool' = [pool EXCEPT !.slots[n].order.remaining_quantity = new_quantity,
                                !.slots[n].order.quantity = @ - delta]
        /\ levels' = SetLevel(levels, snapshot.side, snapshot.price,
                         [level EXCEPT !.total_quantity =
                             (@ - delta) % QuantityModulus])
        /\ trades' = << >>
        /\ result' = [success |-> TRUE, reject_reason |-> "None",
                      lost_priority |-> FALSE,
                      final_status |-> "PartiallyFilled",
                      filled_quantity |-> 0,
                      remaining_quantity |-> new_quantity]
        /\ UNCHANGED <<index, clock, pc, op>>

(* The cancel/replace: the slot of the order is released and the order is  *)
(* added again from the copy of it in snapshot.                            *)
ReplaceOrder(id, new_price, new_quantity) ==
    LET n == index[id]
        snapshot == pool.slots[n].order
    IN  /\ pc = "idle"
        /\ clock < MaxSequence
        /\ ModifyRejectReason(id, new_price, new_quantity) = "None"
        /\ ~KeepsPriority(snapshot, new_price, new_quantity)
        /\ EnterAddOrder(RemovedLevels(n), Erase(index, id), RemovedPool(n),
                         [id |-> id, side |-> snapshot.side,
                          type |-> snapshot.type, price |-> new_price,
                          quantity |-> new_quantity, tif |-> snapshot.tif],
                         TRUE)

ModifyOrder(id, new_price, new_quantity) ==
    \/ RejectModify(id, new_price, new_quantity)
    \/ AmendInPlace(id, new_price, new_quantity)
    \/ ReplaceOrder(id, new_price, new_quantity)

-----------------------------------------------------------------------------
Init ==
    /\ levels = [s \in Side |-> [p \in {} |-> p]]
    /\ index = [id \in {} |-> id]
    /\ pool = NewPool
    /\ clock = 0
    /\ pc = "idle"
    /\ op = NoOp
    /\ trades = << >>
    /\ result = Rejected("None")

Match == EnterLevel \/ MatchOrder \/ LeaveLevel \/ LeaveMatch

Next ==
    \/ \E o \in NewOrder : AddOrder(o)
    \/ \E id \in OrderIds : CancelOrder(id)
    \/ \E id \in OrderIds, p \in Price, q \in OrderQuantities : ModifyOrder(id, p, q)
    \/ Match
    \/ Finish

Spec == Init /\ [][Next]_vars

-----------------------------------------------------------------------------
(* Properties.                                                             *)

Live == {i \in Slots : ~IsFree(pool, i)}

(* The list of a level, from its head along next, and its nodes' orders.   *)
ListOf(level) == Chain(level.head, [i \in Live |-> pool.slots[i].next])

(* The lists are what PushBack and Unlink promise: from head along next    *)
(* each ends at tail after count nodes, prev is the inverse of next, and   *)
(* every live slot is on exactly the list of its order's side and price,   *)
(* in order of arrival.  Only the level the inner loop is working on is    *)
(* ever empty: InsertResting takes its slot before operator[] can create a *)
(* level.                                                                  *)
QueuesLinked ==
    /\ \A s \in Side : IsMap(levels[s], LevelPrice, PriceLevel)
    /\ \A s \in Side : \A p \in DOMAIN levels[s] :
        LET level == levels[s][p]
            list == ListOf(level)
        IN  /\ Len(list) = level.count
            /\ list = << >> =>
                  pc = "order" /\ s = opposite(op.side) /\ p = op.level_it
            /\ level.head = IF list = << >> THEN nullptr ELSE Head(list)
            /\ level.tail = IF list = << >> THEN nullptr ELSE Last(list)
            /\ \A i \in 1 .. Len(list) :
                  /\ pool.slots[list[i]].prev =
                        IF i = 1 THEN nullptr ELSE list[i - 1]
                  /\ pool.slots[list[i]].order.side = s
                  /\ pool.slots[list[i]].order.price = p
            /\ \A i \in 2 .. Len(list) :
                  pool.slots[list[i - 1]].order.sequence_number
                      < pool.slots[list[i]].order.sequence_number
    /\ \A i \in Live :
        LET o == pool.slots[i].order IN
        /\ o.price \in DOMAIN levels[o.side]
        /\ i \in ToSet(ListOf(levels[o.side][o.price]))

(* Slots are neither leaked nor released twice: each is a link of the free *)
(* list or a node, never both, and a node holds the one order whose index_ *)
(* entry points to it.                                                     *)
PoolExact ==
    /\ pool \in [slots : [Slots -> Node \cup [next_free : Pointer]],
                 free_head : Pointer, in_use : 0 .. PoolCapacity]
    /\ FreeListExact(pool)
    /\ Cardinality(DOMAIN index) = pool.in_use
    /\ \A id \in DOMAIN index : index[id] \in Live /\ pool.slots[index[id]].id = id

(* The node pointer of the inner loop is null or on the list of the level  *)
(* being matched: the next saved before Release never dangles.             *)
CursorLive ==
    pc = "order" /\ op.node # nullptr =>
        op.node \in ToSet(ListOf(levels[opposite(op.side)][op.level_it]))

(* The slots that hold the orders of a side at a price.                    *)
RestingAt(s, p) ==
    {i \in Live : pool.slots[i].order.side = s /\ pool.slots[i].order.price = p}

(* The cached total_quantity and count of a level, which QuantityAt and    *)
(* OrderCountAt return, are those of the orders in the pool, at every      *)
(* price and at every iteration of the matching loop; and the counts add   *)
(* up to the size of the index.                                            *)
TotalsAgree ==
    /\ \A s \in Side, p \in LevelPrice :
        /\ QuantityAt(s, p) =
              MapThenSumSet(LAMBDA i : pool.slots[i].order.remaining_quantity,
                            RestingAt(s, p)) % QuantityModulus
        /\ OrderCountAt(s, p) = Cardinality(RestingAt(s, p))
    /\ TotalOrderCount = MapThenSumSet(LAMBDA l : OrderCountAt(l[1], l[2]), Side \X LevelPrice)

(* Pool exhaustion strikes only a call that traded nothing, so an order is *)
(* never half done: one that traded and still has something left has       *)
(* released the slot of an order it filled.                                *)
ExhaustedTradesNothing ==
    [][pc' = "idle" /\ result'.reject_reason = "PoolExhausted" =>
          ~result'.success /\ trades' = << >> /\ result'.filled_quantity = 0]_vars
=============================================================================
