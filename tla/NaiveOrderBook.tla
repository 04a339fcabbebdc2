--------------------------- MODULE NaiveOrderBook ---------------------------
(***************************************************************************)
(* me::naive::OrderBook: std::map price levels, std::list FIFO queues and  *)
(* an order-id index.  AddOrder and ModifyOrder run the matching loop one  *)
(* iteration per step: a call that reaches Match is in progress (pc is not *)
(* "idle") until Finish returns its result, and no other call starts in    *)
(* between, since a book belongs to one thread.                            *)
(***************************************************************************)
EXTENDS LevelMaps, Sequences, FiniteSetsExt

CONSTANT MaxSequence     \* bound on the sequence numbers handed to the book

ASSUME MaxSequenceAssumption == MaxSequence \in Nat

VARIABLES
    levels,  \* bids_ = levels["Buy"], asks_ = levels["Sell"]: price -> PriceLevel
    node,    \* the Order held by each live std::list node, named by its id
    index,   \* index_: order id -> Locator
    clock,   \* the last sequence number the caller assigned
    pc,      \* where the call in progress is
    op,      \* its arguments and locals
    trades,  \* the trades of the call in progress, or of the last one
    result   \* what the last call returned

book == <<levels, node, index>>
vars == <<levels, node, index, clock, pc, op, trades, result>>

PriceLevel == [total_quantity : Quantity, orders : Seq(OrderIds)]
Locator == [side : Side, price : LevelPrice]

NoOp ==
    [id |-> kInvalidOrderId, side |-> "Buy", type |-> "Limit", price |-> 0,
     quantity |-> 0, tif |-> "GoodTillCancel", replaces |-> FALSE,
     remaining |-> 0, level_it |-> End, order_it |-> 1]

-----------------------------------------------------------------------------
(* std::list: erase of the node at position i, and the position of the     *)
(* node loc.it points to.                                                  *)
EraseAt(orders, i) == SubSeq(orders, 1, i - 1) \o SubSeq(orders, i + 1, Len(orders))
Position(orders, id) == CHOOSE i \in 1 .. Len(orders) : orders[i] = id

(* Mutant: counts the levels that do not cross as well.                    *)
AvailableCrossingQuantityOfAll(lv, side, type, limit_price) ==
    MapThenSumSet(LAMBDA p : lv[opposite(side)][p].total_quantity,
                  DOMAIN lv[opposite(side)]) % QuantityModulus

AvailableCrossingQuantity(lv, side, type, limit_price) ==
    LET s == opposite(side)
        crossing == {p \in DOMAIN lv[s] :
                        PriceCrosses(side, limit_price, p, type = "Market")}
    IN  MapThenSumSet(LAMBDA p : lv[s][p].total_quantity, crossing)
            % QuantityModulus

(* PriceLevel() value-initialised by operator[] when the price is new.     *)
LevelAt(lv, s, p) ==
    IF p \in DOMAIN lv[s] THEN lv[s][p]
    ELSE [total_quantity |-> 0, orders |-> << >>]

-----------------------------------------------------------------------------
(* InsertResting and RemoveFromBook, as the new values of the three maps.  *)

(* Mutant: push_front instead of push_back.                                *)
InsertedLevelsAtFront(lv, id, o) ==
    LET level == LevelAt(lv, o.side, o.price)
    IN  SetLevel(lv, o.side, o.price,
            [total_quantity |-> (level.total_quantity + o.remaining_quantity)
                                    % QuantityModulus,
             orders |-> <<id>> \o level.orders])

InsertedLevels(lv, id, o) ==
    LET level == LevelAt(lv, o.side, o.price)
    IN  SetLevel(lv, o.side, o.price,
            [total_quantity |-> (level.total_quantity + o.remaining_quantity)
                                    % QuantityModulus,
             orders |-> Append(level.orders, id)])

RemovedLevels(lv, nd, loc, id) ==
    LET level == lv[loc.side][loc.price]
        rest == EraseAt(level.orders, Position(level.orders, id))
    IN  IF rest = << >>
        THEN EraseLevel(lv, loc.side, loc.price)
        ELSE SetLevel(lv, loc.side, loc.price,
                [total_quantity |-> (level.total_quantity
                                        - nd[id].remaining_quantity)
                                        % QuantityModulus,
                 orders |-> rest])

(* The early returns of AddOrder, in their order.                          *)
AddRejectReason(lv, ix, o) ==
    IF o.id = kInvalidOrderId THEN "UnknownOrder"
    ELSE IF o.id \in DOMAIN ix THEN "DuplicateOrderId"
    ELSE IF o.quantity = 0 THEN "InvalidQuantity"
    ELSE IF o.type = "Limit" /\ o.price <= 0 THEN "InvalidPrice"
    ELSE IF o.type = "Market" /\ DOMAIN lv[opposite(o.side)] = {}
         THEN "MarketOrderNoLiquidity"
    ELSE IF /\ o.tif = "FillOrKill"
            /\ AvailableCrossingQuantity(lv, o.side, o.type, o.price) < o.quantity
         THEN "FillOrKillNotFilled"
    ELSE "None"

(* AddOrder up to the call of Match, on the book (lv, nd, ix): the call    *)
(* returns a rejection, or enters Match at the best opposite level.        *)
EnterAddOrder(lv, nd, ix, o, replaces) ==
    LET reason == AddRejectReason(lv, ix, o)
    IN  /\ levels' = lv
        /\ node' = nd
        /\ index' = ix
        /\ trades' = << >>
        /\ IF reason # "None"
           THEN /\ result' = [Rejected(reason) EXCEPT !.lost_priority = replaces]
                /\ UNCHANGED <<pc, op, clock>>
           ELSE /\ clock' = clock + 1
                /\ pc' = "level"
                /\ op' = [id |-> o.id, side |-> o.side, type |-> o.type,
                          price |-> o.price, quantity |-> o.quantity,
                          tif |-> o.tif, replaces |-> replaces,
                          remaining |-> o.quantity,
                          level_it |-> Begin(lv, opposite(o.side)),
                          order_it |-> 1]
                /\ UNCHANGED result

AddOrder(o) ==
    /\ pc = "idle"
    /\ clock < MaxSequence
    /\ EnterAddOrder(levels, node, index, o, FALSE)

-----------------------------------------------------------------------------
(* The matching loop.                                                      *)

(* Head of the outer loop: a crossing level and something left to fill.    *)
EnterLevel ==
    /\ pc = "level"
    /\ op.remaining > 0
    /\ op.level_it # End
    /\ PriceCrosses(op.side, op.price, op.level_it, op.type = "Market")
    /\ pc' = "order"
    /\ op' = [op EXCEPT !.order_it = 1]
    /\ UNCHANGED <<levels, node, index, clock, trades, result>>

(* The outer loop ends: filled, out of levels, or the break at a level     *)
(* that does not cross.                                                    *)
LeaveMatch ==
    /\ pc = "level"
    /\ \/ op.remaining = 0
       \/ op.level_it = End
       \/ ~PriceCrosses(op.side, op.price, op.level_it, op.type = "Market")
    /\ pc' = "rest"
    /\ UNCHANGED <<levels, node, index, clock, op, trades, result>>

(* One iteration of the inner loop: a trade against the order at order_it. *)
MatchOrder ==
    LET s == opposite(op.side)
        level == levels[s][op.level_it]
        id == level.orders[op.order_it]
        resting == node[id]
        trade_qty == IF op.remaining <= resting.remaining_quantity
                     THEN op.remaining ELSE resting.remaining_quantity
        left == resting.remaining_quantity - trade_qty
        total == (level.total_quantity - trade_qty) % QuantityModulus
    IN  /\ pc = "order"
        /\ op.remaining > 0
        /\ op.order_it <= Len(level.orders)
        /\ trades' = Append(trades, [resting_order_id |-> id,
                                     price |-> resting.price,
                                     quantity |-> trade_qty])
        /\ \/ /\ left = 0
              /\ index' = Erase(index, id)
              /\ node' = Erase(node, id)
              /\ levels' = SetLevel(levels, s, op.level_it,
                               [total_quantity |-> total,
                                orders |-> EraseAt(level.orders, op.order_it)])
              /\ op' = [op EXCEPT !.remaining = @ - trade_qty]
           \/ /\ left # 0
              /\ node' = [node EXCEPT ![id].remaining_quantity = left,
                                      ![id].status = "PartiallyFilled"]
              /\ levels' = SetLevel(levels, s, op.level_it,
                               [level EXCEPT !.total_quantity = total])
              /\ op' = [op EXCEPT !.remaining = @ - trade_qty,
                                  !.order_it = @ + 1]
              /\ UNCHANGED index
        /\ UNCHANGED <<clock, pc, result>>

(* Mutant: the emptied level is not erased and level_it does not move.     *)
LeaveLevelStays ==
    /\ pc = "order"
    /\ \/ op.remaining = 0
       \/ op.order_it > Len(levels[opposite(op.side)][op.level_it].orders)
    /\ pc' = "level"
    /\ UNCHANGED <<levels, node, index, clock, op, trades, result>>

(* The inner loop ends: an emptied level is erased, level_it moves on.     *)
LeaveLevel ==
    LET s == opposite(op.side)
        level == levels[s][op.level_it]
    IN  /\ pc = "order"
        /\ op.remaining = 0 \/ op.order_it > Len(level.orders)
        /\ pc' = "level"
        /\ op' = [op EXCEPT !.level_it = Following(levels, s, op.level_it)]
        /\ levels' = IF level.orders = << >>
                     THEN EraseLevel(levels, s, op.level_it) ELSE levels
        /\ UNCHANGED <<node, index, clock, trades, result>>

(* The rest of AddOrder after Match, and of ModifyOrder around it.         *)
Finish ==
    LET filled == op.quantity - op.remaining
        can_rest == /\ op.type = "Limit"
                    /\ op.tif = "GoodTillCancel"
                    /\ op.remaining > 0
        order == [side |-> op.side, type |-> op.type, price |-> op.price,
                  quantity |-> op.quantity, remaining_quantity |-> op.remaining,
                  tif |-> op.tif, sequence_number |-> clock,
                  status |-> IF filled > 0 THEN "PartiallyFilled" ELSE "New"]
    IN  /\ pc = "rest"
        /\ pc' = "idle"
        /\ op' = NoOp
        /\ \/ /\ can_rest
              /\ levels' = InsertedLevels(levels, op.id, order)
              /\ node' = Put(node, op.id, order)
              /\ index' = Put(index, op.id, [side |-> op.side, price |-> op.price])
              /\ result' = [success |-> TRUE, reject_reason |-> "None",
                            lost_priority |-> op.replaces,
                            final_status |-> order.status,
                            filled_quantity |-> filled,
                            remaining_quantity |-> op.remaining]
           \/ /\ ~can_rest
              /\ result' = [success |-> TRUE, reject_reason |-> "None",
                            lost_priority |-> op.replaces,
                            final_status |-> IF filled = op.quantity
                                             THEN "Filled" ELSE "Cancelled",
                            filled_quantity |-> filled,
                            remaining_quantity |-> 0]
              /\ UNCHANGED book
        /\ UNCHANGED <<clock, trades>>

-----------------------------------------------------------------------------
CancelOrder(id) ==
    /\ pc = "idle"
    /\ trades' = << >>
    /\ \/ /\ id \notin DOMAIN index
          /\ result' = Rejected("UnknownOrder")
          /\ UNCHANGED book
       \/ /\ id \in DOMAIN index
          /\ levels' = RemovedLevels(levels, node, index[id], id)
          /\ node' = Erase(node, id)
          /\ index' = Erase(index, id)
          /\ result' = [Rejected("None") EXCEPT !.success = TRUE]
    /\ UNCHANGED <<clock, pc, op>>

ModifyRejectReason(id, new_price, new_quantity) ==
    IF id \notin DOMAIN index THEN "UnknownOrder"
    ELSE IF new_quantity = 0 THEN "InvalidQuantity"
    ELSE IF new_price <= 0 THEN "InvalidPrice"
    ELSE "None"

RejectModify(id, new_price, new_quantity) ==
    /\ pc = "idle"
    /\ ModifyRejectReason(id, new_price, new_quantity) # "None"
    /\ trades' = << >>
    /\ result' = Rejected(ModifyRejectReason(id, new_price, new_quantity))
    /\ UNCHANGED <<levels, node, index, clock, pc, op>>

(* Mutant: only the price decides.                                         *)
KeepsPriorityAnyQuantity(id, new_price, new_quantity) ==
    new_price = node[id].price

(* price_unchanged && qty_decrease_only.                                   *)
KeepsPriority(id, new_price, new_quantity) ==
    /\ new_price = node[id].price
    /\ new_quantity <= node[id].remaining_quantity

(* The in-place amend.                                                     *)
AmendInPlace(id, new_price, new_quantity) ==
    LET loc == index[id]
        level == levels[loc.side][loc.price]
        delta == node[id].remaining_quantity - new_quantity
    IN  /\ pc = "idle"
        /\ ModifyRejectReason(id, new_price, new_quantity) = "None"
        /\ KeepsPriority(id, new_price, new_quantity)
        /\ node' = [node EXCEPT ![id].remaining_quantity = new_quantity,
                                ![id].quantity = @ - delta]
        /\ levels' = SetLevel(levels, loc.side, loc.price,
                         [level EXCEPT !.total_quantity =
                             (@ - delta) % QuantityModulus])
        /\ trades' = << >>
        /\ result' = [success |-> TRUE, reject_reason |-> "None",
                      lost_priority |-> FALSE,
                      final_status |-> "PartiallyFilled",
                      filled_quantity |-> 0,
                      remaining_quantity |-> new_quantity]
        /\ UNCHANGED <<index, clock, pc, op>>

(* The cancel/replace: RemoveFromBook, then AddOrder of the same order     *)
(* with the new price and quantity.                                        *)
ReplaceOrder(id, new_price, new_quantity) ==
    /\ pc = "idle"
    /\ clock < MaxSequence
    /\ ModifyRejectReason(id, new_price, new_quantity) = "None"
    /\ ~KeepsPriority(id, new_price, new_quantity)
    /\ EnterAddOrder(RemovedLevels(levels, node, index[id], id),
                     Erase(node, id), Erase(index, id),
                     [id |-> id, side |-> node[id].side, type |-> node[id].type,
                      price |-> new_price, quantity |-> new_quantity,
                      tif |-> node[id].tif],
                     TRUE)

ModifyOrder(id, new_price, new_quantity) ==
    \/ RejectModify(id, new_price, new_quantity)
    \/ AmendInPlace(id, new_price, new_quantity)
    \/ ReplaceOrder(id, new_price, new_quantity)

-----------------------------------------------------------------------------
Init ==
    /\ levels = [s \in Side |-> [p \in {} |-> p]]
    /\ node = [id \in {} |-> id]
    /\ index = [id \in {} |-> id]
    /\ clock = 0
    /\ pc = "idle"
    /\ op = NoOp
    /\ trades = << >>
    /\ result = Rejected("None")

Match == EnterLevel \/ MatchOrder \/ LeaveLevel \/ LeaveMatch

Next ==
    \/ \E o \in NewOrder : AddOrder(o)
    \/ \E id \in OrderIds : CancelOrder(id)
    \/ \E id \in OrderIds, p \in Price, q \in OrderQuantities : ModifyOrder(id, p, q)
    \/ Match
    \/ Finish

Spec == Init /\ [][Next]_vars

-----------------------------------------------------------------------------
(* Properties.                                                             *)

OpType ==
    [id : OrderIds \cup {kInvalidOrderId}, side : Side, type : OrderType,
     price : Price, quantity : Quantity, tif : TimeInForce,
     replaces : BOOLEAN, remaining : Quantity, level_it : Price, order_it : Nat]

(* Every variable has the type the headers declare, with quantities and    *)
(* totals inside the uint64 range.                                         *)
TypeOK ==
    /\ DOMAIN levels = Side
    /\ \A s \in Side : IsMap(levels[s], LevelPrice, PriceLevel)
    /\ IsMap(node, OrderIds, Order)
    /\ IsMap(index, OrderIds, Locator)
    /\ clock \in 0 .. MaxSequence
    /\ pc \in {"idle", "level", "order", "rest"}
    /\ op \in OpType
    /\ trades \in Seq(Trade)
    /\ result \in Result

(* A locator of ix leads to the level of lv whose list holds its node.     *)
Located(lv, nd, ix) ==
    \A id \in DOMAIN ix :
        LET loc == ix[id] IN
        /\ loc.price \in DOMAIN lv[loc.side]
        /\ \E i \in 1 .. Len(lv[loc.side][loc.price].orders) :
               lv[loc.side][loc.price].orders[i] = id
        /\ nd[id].side = loc.side
        /\ nd[id].price = loc.price

(* A listed node is in ix, under its level, and listed once.               *)
Indexed(lv, ix) ==
    \A s \in Side : \A p \in DOMAIN lv[s] :
        LET orders == lv[s][p].orders IN
        \A i \in 1 .. Len(orders) :
            /\ orders[i] \in DOMAIN ix
            /\ ix[orders[i]] = [side |-> s, price |-> p]
            /\ \A j \in 1 .. Len(orders) : orders[i] = orders[j] => i = j

(* index_ and the lists name the same orders: a locator leads to the level *)
(* whose list holds its node, once, and a listed node has its locator      *)
(* (InsertResting, RemoveFromBook and the erasures of Match).              *)
IndexAgrees ==
    /\ DOMAIN node = DOMAIN index
    /\ Located(levels, node, index)
    /\ Indexed(levels, index)

(* Only the level the inner loop is working on is ever empty: a level that *)
(* lost its last order is erased, so BestBid and BestAsk name real orders. *)
NoEmptyLevel ==
    \A s \in Side : \A p \in DOMAIN levels[s] :
        levels[s][p].orders = << >> =>
            pc = "order" /\ s = opposite(op.side) /\ p = op.level_it

(* The book is never crossed: AddOrder rests an order only once Match has  *)
(* consumed every opposite level it crosses.                               *)
NotCrossed ==
    \A b \in DOMAIN levels["Buy"], a \in DOMAIN levels["Sell"] : b < a

Fifo(lv, nd) ==
    \A s \in Side : \A p \in DOMAIN lv[s] :
        LET orders == lv[s][p].orders IN
        \A i, j \in 1 .. Len(orders) :
            i < j => nd[orders[i]].sequence_number
                        < nd[orders[j]].sequence_number

(* Each list is in the order in which its orders (re)entered the book:     *)
(* orders join at the back and an in-place amend moves none.               *)
TimePriority == Fifo(levels, node)

(* What rests is a good-till-cancel limit order with something left, and   *)
(* its status is New exactly as long as nothing of it has traded, through  *)
(* partial fills and in-place amends alike.                                *)
RestingOrders ==
    \A id \in DOMAIN node :
        LET o == node[id] IN
        /\ o.type = "Limit" /\ o.tif = "GoodTillCancel"
        /\ 0 < o.remaining_quantity
        /\ o.remaining_quantity <= o.quantity
        /\ o.status = IF o.remaining_quantity = o.quantity
                      THEN "New" ELSE "PartiallyFilled"

(* The iterators of the matching loop stay valid across the erasures: in   *)
(* the loop level_it is the best opposite level as long as something is    *)
(* left to fill, and order_it is at its first order.                       *)
CursorsValid ==
    LET s == opposite(op.side) IN
    /\ pc = "level" =>
        /\ op.level_it = End \/ op.level_it \in DOMAIN levels[s]
        /\ op.remaining > 0 => op.level_it = Begin(levels, s)
    /\ pc = "order" =>
        /\ op.level_it \in DOMAIN levels[s]
        /\ op.level_it = Begin(levels, s)
        /\ PriceCrosses(op.side, op.price, op.level_it, op.type = "Market")
        /\ op.order_it \in 1 .. Len(levels[s][op.level_it].orders) + 1
        /\ op.remaining > 0 => op.order_it = 1

(* What the call in progress relies on: its order is not in the book, is   *)
(* newer than everything that is, and a limit order comes out of the loop  *)
(* with something left only if no opposite level crosses it.               *)
CallInvariant ==
    /\ \A id \in DOMAIN node : node[id].sequence_number <= clock
    /\ pc # "idle" =>
        /\ op.id \in OrderIds \ DOMAIN index
        /\ 0 < op.quantity
        /\ op.remaining <= op.quantity
        /\ op.type = "Limit" => op.price > 0
        /\ \A id \in DOMAIN node : node[id].sequence_number < clock
    /\ pc = "rest" /\ op.remaining > 0 =>
        \A p \in DOMAIN levels[opposite(op.side)] :
            ~PriceCrosses(op.side, op.price, p, op.type = "Market")

(* The inductive invariant of the proofs.                                  *)
IInv ==
    /\ TypeOK
    /\ IndexAgrees
    /\ NoEmptyLevel
    /\ NotCrossed
    /\ TimePriority
    /\ RestingOrders
    /\ CursorsValid
    /\ CallInvariant

(* A fill-or-kill order that passed the pre-check of AddOrder is filled to *)
(* the last unit by the matching loop.                                     *)
FillOrKillFills ==
    pc = "rest" /\ op.tif = "FillOrKill" => op.remaining = 0

(* A cancel/replace never loses the order: once ModifyOrder has removed    *)
(* it, the AddOrder that puts it back cannot be rejected.                  *)
ReplaceSucceeds == result.lost_priority => result.success

(* Price-time priority: every trade takes the oldest order at the best     *)
(* opposite price, and only at a price the aggressor accepts.              *)
TradesAtBest ==
    [][\A t \in {trades'[i] : i \in (Len(trades) + 1) .. Len(trades')} :
          LET s == opposite(op.side)
              resting == node[t.resting_order_id]
          IN  /\ resting.side = s
              /\ t.price = resting.price
              /\ PriceCrosses(op.side, op.price, t.price, op.type = "Market")
              /\ \A id \in DOMAIN node :
                    node[id].side = s /\ id # t.resting_order_id =>
                        \/ Better(s, resting.price, node[id].price)
                        \/ /\ resting.price = node[id].price
                           /\ resting.sequence_number < node[id].sequence_number
      ]_vars

(* The levels of a side at level iterator p and behind it.                 *)
Ahead(lv, s, p) == {q \in DOMAIN lv[s] : p # End /\ ~Better(s, q, p)}

(* What the call in progress has left to do: units to fill, levels to      *)
(* visit, and the test of the outer loop.                                  *)
Work ==
    op.remaining + 2 * Cardinality(Ahead(levels, opposite(op.side), op.level_it))
                 + IF pc = "level" THEN 1 ELSE 0

(* Every call returns: each step of the two nested loops of Match leaves   *)
(* less to do, whatever was erased under the iterators, and the number of  *)
(* iterations is bounded by the quantity and the levels.                   *)
LoopProgress == [][pc = "level" \/ pc = "order" => Work' < Work]_vars

(* QuantityAt is the aggregate of a BookUpdate event; events.hpp says that *)
(* 0 means the level was removed entirely.                                 *)
ZeroMeansRemoved ==
    \A s \in Side : \A p \in DOMAIN levels[s] :
        pc = "idle" => levels[s][p].total_quantity # 0
=============================================================================
