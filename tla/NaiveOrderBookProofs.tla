------------------------ MODULE NaiveOrderBookProofs ------------------------
(***************************************************************************)
(* Proofs that the naive book keeps its index, lists, price order, time    *)
(* priority and loop iterators consistent, for every set of order ids,     *)
(* every price range, every quantity width and every sequence bound.       *)
(***************************************************************************)
EXTENDS NaiveMatchProofs, FiniteSetTheorems

(* The provers may spend twenty seconds on a leaf.                         *)
USE SMTT(20), Z3T(20), ZenonT(20)

-----------------------------------------------------------------------------
(* A consistent book between two calls, and one without the order id.      *)
BookOK(lv, nd, ix) ==
    /\ MapsOK(lv, nd, ix)
    /\ Located(lv, nd, ix) /\ Indexed(lv, ix) /\ Fifo(lv, nd)
    /\ \A t \in Side : \A r \in DOMAIN lv[t] : lv[t][r].orders # << >>

Without(id, lv, nd, ix) ==
    /\ \A t \in Side : DOMAIN lv[t] \subseteq DOMAIN levels[t]
    /\ DOMAIN nd = DOMAIN node \ {id}
    /\ DOMAIN ix = DOMAIN index \ {id}
    /\ \A x \in DOMAIN nd : nd[x] = node[x]

(* RemoveFromBook of an order that rests, between two calls.               *)
LEMMA RemoveFromBookOK ==
  ASSUME IInv, pc = "idle", NEW id \in DOMAIN index,
         NEW lv, lv = RemovedLevels(levels, node, index[id], id),
         NEW nd, nd = Erase(node, id), NEW ix, ix = Erase(index, id)
  PROVE  BookOK(lv, nd, ix) /\ Without(id, lv, nd, ix)
<1>1. /\ MapsOK(levels, node, index) /\ LevelsOK(levels)
      /\ IsMap(node, OrderIds, Order) /\ IsMap(index, OrderIds, Locator)
      /\ DOMAIN node = DOMAIN index
      /\ Located(levels, node, index) /\ Indexed(levels, index) /\ Fifo(levels, node)
  BY Facts DEF MapsOK
<1>0. PICK s, p, level, k, rest :
         /\ s = index[id].side /\ p = index[id].price
         /\ level = levels[s][p]
         /\ k = Position(level.orders, id)
         /\ rest = EraseAt(level.orders, k)
  OBVIOUS
<1>2. /\ s \in Side /\ p \in LevelPrice /\ p \in DOMAIN levels[s]
      /\ \E i \in 1 .. Len(level.orders) : level.orders[i] = id
  BY <1>0, <1>1, BookFields, Zenon DEF Located
<1>3. /\ level \in PriceLevel /\ level.orders \in Seq(OrderIds)
      /\ level.total_quantity \in Quantity
      /\ node[id].remaining_quantity \in Quantity
  BY <1>0, <1>1, <1>2, BookFields, Zenon DEF Order
<1>4. k \in 1 .. Len(level.orders) /\ level.orders[k] = id
  BY <1>0, <1>2, Zenon DEF Position
<1>5. rest \in Seq(OrderIds)
  BY <1>0, <1>3, <1>4, EraseAtProperties, Zenon
<1>6. /\ LevelsOK(lv) /\ OnlyLevel(levels, lv, s, p, rest)
      /\ p \in DOMAIN lv[s] => rest # << >>
  <2>1. CASE rest = << >>
    <3>1. lv = EraseLevel(levels, s, p)
      BY <2>1, <1>0 DEF RemovedLevels
    <3> QED BY <3>1, <2>1, <1>1, <1>2, EraseLevelOK
  <2>2. CASE rest # << >>
    <3>1. PICK l : l = [total_quantity |->
                           (level.total_quantity - node[id].remaining_quantity)
                              % QuantityModulus,
                        orders |-> rest]
      BY Zenon
    <3>2. lv = SetLevel(levels, s, p, l)
      BY <2>2, <3>1, <1>0, Zenon DEF RemovedLevels
    <3>3. level.total_quantity - node[id].remaining_quantity \in Int
      BY <1>3, QuantityAssumption DEF Quantity
    <3>4. (level.total_quantity - node[id].remaining_quantity) % QuantityModulus
             \in Quantity
      BY <3>3, Wraps
    <3>5. l \in PriceLevel /\ l.orders = rest
      BY <3>1, <3>4, <1>5 DEF PriceLevel
    <3>6. /\ LevelsOK(SetLevel(levels, s, p, l))
          /\ OnlyLevel(levels, SetLevel(levels, s, p, l), s, p, l.orders)
      BY <3>5, <1>1, <1>2, SetLevelOK
    <3> QED BY <2>2, <3>2, <3>5, <3>6
  <2> QED BY <2>1, <2>2
<1>7. /\ IsMap(nd, OrderIds, Order) /\ IsMap(ix, OrderIds, Locator)
      /\ DOMAIN nd = DOMAIN node \ {id} /\ DOMAIN ix = DOMAIN index \ {id}
      /\ \A x \in DOMAIN nd : nd[x] = node[x]
  BY <1>1 DEF IsMap, Erase
<1>8. MapsOK(lv, nd, ix)
  BY <1>1, <1>6, <1>7 DEF MapsOK
<1>9. Located(lv, nd, ix) /\ Indexed(lv, ix) /\ Fifo(lv, nd)
  <2>1. /\ k \in 1 .. Len(levels[s][p].orders) /\ id = levels[s][p].orders[k]
        /\ OnlyLevel(levels, lv, s, p, EraseAt(levels[s][p].orders, k))
    BY <1>0, <1>4, <1>6, Zenon
  <2>2. /\ Located(lv, Erase(node, id), Erase(index, id))
        /\ Indexed(lv, Erase(index, id))
        /\ Fifo(lv, Erase(node, id))
    BY <2>1, <1>1, <1>2, <1>6, UnlistKeeps, Zenon
  <2> QED BY <2>2
<1>10. \A t \in Side : \A r \in DOMAIN lv[t] :
          r \in DOMAIN levels[t] /\ lv[t][r].orders # << >>
  <2> TAKE t \in Side
  <2> TAKE r \in DOMAIN lv[t]
  <2>1. CASE t = s /\ r = p
    BY <2>1, <1>2, <1>6 DEF OnlyLevel
  <2>2. CASE ~(t = s /\ r = p)
    <3>1. r \in DOMAIN levels[t] /\ lv[t][r] = levels[t][r]
      BY <2>2, <1>2, <1>6, OtherLevels
    <3> QED BY <3>1 DEF NoEmptyLevel, IInv
  <2> QED BY <2>1, <2>2
<1> QED BY <1>7, <1>8, <1>9, <1>10 DEF BookOK, Without

LEMMA ResultTypes ==
  ASSUME NEW reason \in RejectReason, NEW b \in BOOLEAN
  PROVE  /\ Rejected(reason) \in Result
         /\ [Rejected(reason) EXCEPT !.lost_priority = b] \in Result
         /\ [Rejected(reason) EXCEPT !.success = b] \in Result
<1>1. 0 \in Quantity /\ "Rejected" \in OrderStatus
  BY QuantityAssumption DEF Quantity, OrderStatus
<1>2. Rejected(reason) \in Result
  BY <1>1 DEF Rejected, Result
<1> QED BY <1>2 DEF Result

(* Fewer levels cannot cross where more did not.                           *)
LEMMA FewerLevels ==
  ASSUME IInv, \A t \in Side : DOMAIN levels'[t] \subseteq DOMAIN levels[t]
  PROVE  NotCrossed'
BY DEF IInv, NotCrossed, Side

LEMMA CancelOrderInv ==
  ASSUME IInv, NEW id \in OrderIds, CancelOrder(id)
  PROVE  IInv'
<1>1. /\ pc = "idle" /\ pc' = "idle" /\ op' = op /\ clock' = clock
      /\ trades' = << >> /\ op \in OpType /\ clock \in 0 .. MaxSequence
  BY DEF CancelOrder, IInv, TypeOK
<1>2. trades' \in Seq(Trade)
  BY <1>1
<1>3. \A x \in DOMAIN node : node[x].sequence_number <= clock
  BY DEF IInv, CallInvariant
<1>4. CASE id \notin DOMAIN index
  <2>1. UNCHANGED book /\ result' = Rejected("UnknownOrder")
    BY <1>4 DEF CancelOrder
  <2>2. result' \in Result
    BY <2>1, ResultTypes, Zenon DEF RejectReason
  <2>3. TypeOK'
    BY <1>1, <1>2, <2>1, <2>2, SameBook DEF TypeOK
  <2>4. NoEmptyLevel' /\ CursorsValid' /\ CallInvariant'
    BY <1>1, <2>1 DEF NoEmptyLevel, CursorsValid, CallInvariant, IInv, book
  <2> QED BY <2>1, <2>3, <2>4, SameBook DEF IInv
<1>5. CASE id \in DOMAIN index
  <2>1. /\ levels' = RemovedLevels(levels, node, index[id], id)
        /\ node' = Erase(node, id) /\ index' = Erase(index, id)
        /\ result' = [Rejected("None") EXCEPT !.success = TRUE]
    BY <1>5 DEF CancelOrder
  <2>2. result' \in Result
    BY <2>1, ResultTypes, Zenon DEF RejectReason
  <2>3. /\ MapsOK(levels', node', index')
        /\ Located(levels', node', index') /\ Indexed(levels', index')
        /\ Fifo(levels', node')
        /\ \A t \in Side : \A r \in DOMAIN levels'[t] : levels'[t][r].orders # << >>
        /\ \A t \in Side : DOMAIN levels'[t] \subseteq DOMAIN levels[t]
        /\ DOMAIN node' = DOMAIN node \ {id}
        /\ \A x \in DOMAIN node' : node'[x] = node[x]
    <3>1. BookOK(levels', node', index') /\ Without(id, levels', node', index')
      BY <2>1, <1>1, <1>5, RemoveFromBookOK
    <3> QED BY <3>1 DEF BookOK, Without
  <2>4. NotCrossed'
    BY <2>3, FewerLevels
  <2>5. RestingOrders'
    BY <2>3 DEF RestingOrders, IInv
  <2>6. \A x \in DOMAIN node' : node'[x].sequence_number <= clock'
    BY <1>1, <1>3, <2>3
  <2> QED BY <1>1, <1>2, <2>2, <2>3, <2>4, <2>5, <2>6, ReturnInv
<1> QED BY <1>4, <1>5


(* A call that returns with the book as it was.                            *)
LEMMA RejectModifyInv ==
  ASSUME IInv, NEW id \in OrderIds, NEW p \in Price, NEW q \in OrderQuantities,
         RejectModify(id, p, q)
  PROVE  IInv'
<1>1. /\ pc = "idle" /\ pc' = "idle" /\ op' = op /\ clock' = clock
      /\ trades' = << >> /\ UNCHANGED book
      /\ result' = Rejected(ModifyRejectReason(id, p, q))
  BY DEF RejectModify, book
<1>2. ModifyRejectReason(id, p, q) \in RejectReason
  BY DEF ModifyRejectReason, RejectReason
<1>3. result' \in Result
  BY <1>1, <1>2, ResultTypes, Zenon
<1>4. TypeOK'
  BY <1>1, <1>3, SameBook DEF TypeOK, IInv
<1>5. NoEmptyLevel' /\ CursorsValid' /\ CallInvariant'
  BY <1>1 DEF NoEmptyLevel, CursorsValid, CallInvariant, IInv, book
<1> QED BY <1>1, <1>4, <1>5, SameBook DEF IInv

LEMMA AmendInPlaceInv ==
  ASSUME IInv, NEW id \in OrderIds, NEW new_price \in Price,
         NEW new_quantity \in OrderQuantities,
         AmendInPlace(id, new_price, new_quantity)
  PROVE  IInv'
<1>0. PICK s, p, level, delta, o2 :
         /\ s = index[id].side /\ p = index[id].price /\ level = levels[s][p]
         /\ delta = node[id].remaining_quantity - new_quantity
         /\ o2 = [node[id] EXCEPT !.remaining_quantity = new_quantity,
                                  !.quantity = node[id].quantity - delta]
  BY Zenon
<1>1. /\ pc = "idle" /\ pc' = "idle" /\ op' = op /\ clock' = clock
      /\ trades' = << >> /\ index' = index
      /\ id \in DOMAIN index /\ new_quantity # 0
      /\ new_quantity <= node[id].remaining_quantity
      /\ levels' = SetLevel(levels, s, p,
                      [level EXCEPT !.total_quantity =
                          (level.total_quantity - delta) % QuantityModulus])
      /\ node' = [node EXCEPT ![id].remaining_quantity = new_quantity,
                              ![id].quantity = node[id].quantity - delta]
      /\ result' = [success |-> TRUE, reject_reason |-> "None",
                    lost_priority |-> FALSE, final_status |-> "PartiallyFilled",
                    filled_quantity |-> 0, remaining_quantity |-> new_quantity]
  <2>1. id \in DOMAIN index /\ new_quantity # 0
    BY DEF AmendInPlace, ModifyRejectReason
  <2>2. id \in DOMAIN node /\ node[id] \in Order
    BY <2>1, Facts, BookFields DEF MapsOK
  <2>3. node' = [node EXCEPT ![id].remaining_quantity = new_quantity,
                             ![id].quantity = node[id].quantity - delta]
    BY <2>2, <1>0, Zenon DEF AmendInPlace, Order
  <2>4. levels' = SetLevel(levels, s, p,
                     [level EXCEPT !.total_quantity =
                         (level.total_quantity - delta) % QuantityModulus])
    BY <1>0, Zenon DEF AmendInPlace
  <2> QED BY <2>1, <2>3, <2>4, Zenon DEF AmendInPlace, KeepsPriority
<1>2. /\ MapsOK(levels, node, index) /\ LevelsOK(levels)
      /\ IsMap(node, OrderIds, Order) /\ IsMap(index, OrderIds, Locator)
      /\ DOMAIN node = DOMAIN index
      /\ Located(levels, node, index) /\ Indexed(levels, index) /\ Fifo(levels, node)
  BY Facts DEF MapsOK
<1>3. /\ s \in Side /\ p \in LevelPrice /\ p \in DOMAIN levels[s]
      /\ level \in PriceLevel /\ level.total_quantity \in Quantity
      /\ level.orders \in Seq(OrderIds) /\ node[id] \in Order
  BY <1>0, <1>1, <1>2, BookFields, Zenon DEF Located
<1>4. /\ new_quantity \in Quantity /\ 0 < new_quantity
      /\ node[id].quantity - delta \in Quantity
      /\ new_quantity <= node[id].quantity - delta
      /\ (new_quantity = node[id].quantity - delta)
            <=> (node[id].remaining_quantity = node[id].quantity)
      /\ level.total_quantity - delta \in Int
  <2>1. PICK a \in Quantity, b \in Quantity :
           a = node[id].remaining_quantity /\ b = node[id].quantity
    BY <1>3 DEF Order
  <2>2. a <= b /\ delta = a - new_quantity /\ new_quantity <= a
    BY <2>1, <1>0, <1>1, <1>2 DEF RestingOrders, IInv
  <2>3. /\ new_quantity \in Quantity /\ 0 < new_quantity
        /\ b - delta \in Quantity /\ new_quantity <= b - delta
        /\ (new_quantity = b - delta) <=> (a = b)
        /\ delta \in Int
    BY <2>1, <2>2, <1>1, QuantityAssumption DEF Quantity
  <2>4. level.total_quantity - delta \in Int
    BY <2>3, <1>3, QuantityAssumption DEF Quantity
  <2> QED BY <2>1, <2>3, <2>4
<1>5. /\ o2 \in Order /\ o2.side = node[id].side /\ o2.price = node[id].price
      /\ o2.sequence_number = node[id].sequence_number
      /\ o2.type = node[id].type /\ o2.tif = node[id].tif
      /\ o2.status = node[id].status
      /\ o2.remaining_quantity = new_quantity
      /\ o2.quantity = node[id].quantity - delta
  BY <1>0, <1>3, <1>4, Zenon DEF Order
<1>6. /\ IsMap(node', OrderIds, Order) /\ DOMAIN node' = DOMAIN node
      /\ node'[id] = o2
      /\ \A x \in DOMAIN node \ {id} : node'[x] = node[x]
  <2>1. node' = [node EXCEPT ![id] = o2]
    BY <1>0, <1>1, <1>2, <1>3, Zenon DEF Order
  <2> QED BY <2>1, <1>1, <1>2, <1>5 DEF IsMap
<1>7. /\ LevelsOK(levels') /\ OnlyLevel(levels, levels', s, p, levels[s][p].orders)
      /\ DOMAIN levels'[s] = DOMAIN levels[s]
      /\ levels'[s][p].orders = level.orders
  <2>1. PICK l : l = [level EXCEPT !.total_quantity =
                         (level.total_quantity - delta) % QuantityModulus]
    BY Zenon
  <2>2. (level.total_quantity - delta) % QuantityModulus \in Quantity
    BY <1>4, Wraps
  <2>3. l \in PriceLevel /\ l.orders = level.orders
    BY <2>1, <2>2, <1>3 DEF PriceLevel
  <2>4. /\ LevelsOK(SetLevel(levels, s, p, l))
        /\ OnlyLevel(levels, SetLevel(levels, s, p, l), s, p, l.orders)
        /\ SetLevel(levels, s, p, l)[s][p] = l
        /\ DOMAIN SetLevel(levels, s, p, l)[s] = DOMAIN levels[s] \cup {p}
    <3>1. LevelsOK(levels) /\ s \in Side /\ p \in LevelPrice /\ l \in PriceLevel
      BY <2>3, <1>2, <1>3, Zenon
    <3> QED BY <3>1, SetLevelOK
  <2>5. levels' = SetLevel(levels, s, p, l) /\ DOMAIN levels[s] \cup {p} = DOMAIN levels[s]
    BY <2>1, <1>1, <1>3
  <2> QED BY <2>3, <2>4, <2>5, <1>0, Zenon
<1>8. Located(levels', node', index') /\ Indexed(levels', index') /\ Fifo(levels', node')
  <2>1. \A x \in DOMAIN index : /\ node'[x].side = node[x].side
                                /\ node'[x].price = node[x].price
                                /\ node'[x].sequence_number = node[x].sequence_number
    BY <1>2, <1>5, <1>6
  <2>2. /\ Located(levels', node', index) /\ Indexed(levels', index)
        /\ Fifo(levels', node')
    BY <2>1, <1>2, <1>3, <1>7, SameListsKeep
  <2> QED BY <2>2, <1>1
<1>9. MapsOK(levels', node', index')
  BY <1>1, <1>2, <1>6, <1>7 DEF MapsOK
<1>10. \A t \in Side : \A r \in DOMAIN levels'[t] :
          r \in DOMAIN levels[t] /\ levels'[t][r].orders # << >>
  <2> TAKE t \in Side
  <2> TAKE r \in DOMAIN levels'[t]
  <2>1. r \in DOMAIN levels[t] /\ levels'[t][r].orders = levels[t][r].orders
    <3>1. CASE t = s /\ r = p
      BY <3>1, <1>0, <1>3, <1>7
    <3>2. CASE ~(t = s /\ r = p)
      BY <3>2, <1>3, <1>7, OtherLevels
    <3> QED BY <3>1, <3>2
  <2> QED BY <2>1, <1>1 DEF NoEmptyLevel, IInv
<1>11. NotCrossed'
  BY <1>10, FewerLevels
<1>12. RestingOrders'
  <2> SUFFICES ASSUME NEW x \in DOMAIN node'
               PROVE  /\ node'[x].type = "Limit" /\ node'[x].tif = "GoodTillCancel"
                      /\ 0 < node'[x].remaining_quantity
                      /\ node'[x].remaining_quantity <= node'[x].quantity
                      /\ node'[x].status =
                            IF node'[x].remaining_quantity = node'[x].quantity
                            THEN "New" ELSE "PartiallyFilled"
    BY DEF RestingOrders
  <2>1. CASE x = id
    BY <2>1, <1>1, <1>2, <1>4, <1>5, <1>6 DEF RestingOrders, IInv
  <2>2. CASE x # id
    BY <2>2, <1>6 DEF RestingOrders, IInv
  <2> QED BY <2>1, <2>2
<1>13. \A x \in DOMAIN node' : node'[x].sequence_number <= clock'
  BY <1>1, <1>5, <1>6 DEF IInv, CallInvariant
<1>14. result' \in Result
  BY <1>1, <1>4, QuantityAssumption DEF Result, RejectReason, OrderStatus, Quantity
<1>15. op' \in OpType /\ clock' \in 0 .. MaxSequence /\ trades' \in Seq(Trade)
  BY <1>1 DEF IInv, TypeOK
<1> QED BY <1>1, <1>8, <1>9, <1>10, <1>11, <1>12, <1>13, <1>14, <1>15, ReturnInv


-----------------------------------------------------------------------------
(* What AddOrder has established once none of its early returns was taken. *)
LEMMA AddAccepts ==
  ASSUME NEW lv, NEW ix, NEW o
  PROVE  /\ AddRejectReason(lv, ix, o) \in RejectReason
         /\ AddRejectReason(lv, ix, o) = "None" =>
               /\ o.id # kInvalidOrderId /\ o.id \notin DOMAIN ix
               /\ o.quantity # 0
               /\ o.type = "Limit" => ~(o.price <= 0)
BY DEF AddRejectReason, RejectReason

(* AddOrder on the book, or on the book ModifyOrder took the order from.   *)
LEMMA EnterAddOrderInv ==
  ASSUME IInv, pc = "idle", clock < MaxSequence,
         NEW lv, NEW nd, NEW ix, BookOK(lv, nd, ix),
         \A t \in Side : DOMAIN lv[t] \subseteq DOMAIN levels[t],
         DOMAIN nd \subseteq DOMAIN node, \A x \in DOMAIN nd : nd[x] = node[x],
         NEW o \in [id : OrderIds \cup {kInvalidOrderId}, side : Side,
                    type : OrderType, price : Price, quantity : Quantity,
                    tif : TimeInForce],
         NEW replaces \in BOOLEAN, EnterAddOrder(lv, nd, ix, o, replaces)
  PROVE  IInv'
<1>1. levels' = lv /\ node' = nd /\ index' = ix /\ trades' = << >>
  BY DEF EnterAddOrder
<1>2. /\ MapsOK(levels', node', index') /\ LevelsOK(lv)
      /\ Located(levels', node', index') /\ Indexed(levels', index')
      /\ Fifo(levels', node')
      /\ \A t \in Side : \A r \in DOMAIN levels'[t] : levels'[t][r].orders # << >>
      /\ trades' \in Seq(Trade)
  BY <1>1 DEF BookOK, MapsOK
<1>3. NotCrossed'
  BY <1>1, FewerLevels
<1>4. RestingOrders'
  BY <1>1 DEF RestingOrders, IInv
<1>5. /\ \A x \in DOMAIN node' : node'[x].sequence_number <= clock
      /\ \A x \in DOMAIN node' : node'[x].sequence_number \in Nat
  BY <1>1, <1>2 DEF IInv, CallInvariant, MapsOK, IsMap, Order
<1>6. clock \in Nat /\ clock \in 0 .. MaxSequence /\ op \in OpType
  BY MaxSequenceAssumption DEF IInv, TypeOK
<1>7. CASE AddRejectReason(lv, ix, o) # "None"
  <2>1. /\ result' = [Rejected(AddRejectReason(lv, ix, o)) EXCEPT !.lost_priority = replaces]
        /\ pc' = pc /\ op' = op /\ clock' = clock
    BY <1>7 DEF EnterAddOrder
  <2>2. result' \in Result
    BY <2>1, AddAccepts, ResultTypes, Zenon
  <2> QED BY <1>2, <1>3, <1>4, <1>5, <1>6, <2>1, <2>2, ReturnInv
<1>8. CASE AddRejectReason(lv, ix, o) = "None"
  <2>0. PICK first : first = Begin(lv, opposite(o.side))
    OBVIOUS
  <2>1. /\ clock' = clock + 1 /\ pc' = "level" /\ result' = result
        /\ op' = [id |-> o.id, side |-> o.side, type |-> o.type,
                  price |-> o.price, quantity |-> o.quantity,
                  tif |-> o.tif, replaces |-> replaces,
                  remaining |-> o.quantity, level_it |-> first, order_it |-> 1]
    BY <1>8, <2>0 DEF EnterAddOrder
  <2>2. opposite(o.side) \in Side
    BY DEF opposite, Side
  <2>3. /\ first \in Price
        /\ first = End \/ first \in DOMAIN lv[opposite(o.side)]
    BY <2>0, <2>2, <1>2, BeginOK, Zenon
  <2>4. /\ op' \in OpType /\ op'.id = o.id /\ op'.side = o.side
        /\ op'.type = o.type /\ op'.price = o.price
        /\ op'.quantity = o.quantity /\ op'.remaining = o.quantity
        /\ op'.level_it = first
    BY <2>1, <2>3 DEF OpType
  <2>5. TypeOK'
    <3>1. clock' \in 0 .. MaxSequence
      BY <2>1, <1>6, MaxSequenceAssumption
    <3> QED BY <3>1, <2>1, <2>4, <1>2, Zenon DEF TypeOK, MapsOK, LevelsOK, IInv
  <2>6. IndexAgrees' /\ TimePriority' /\ NoEmptyLevel'
    BY <1>2, Zenon DEF IndexAgrees, TimePriority, NoEmptyLevel, MapsOK
  <2>7. CursorsValid'
    BY <2>0, <2>1, <2>3, <2>4, <1>1 DEF CursorsValid
  <2>8. CallInvariant'
    <3>1. /\ o.id \in OrderIds \ DOMAIN ix /\ 0 < o.quantity
          /\ o.quantity <= o.quantity
          /\ o.type = "Limit" => o.price > 0
      BY <1>8, AddAccepts, QuantityAssumption, MaxPriceAssumption DEF Quantity, Price
    <3>2. \A x \in DOMAIN node' : /\ node'[x].sequence_number <= clock'
                                  /\ node'[x].sequence_number < clock'
      BY <2>1, <1>5, <1>6
    <3> QED BY <3>1, <3>2, <2>1, <2>4, <1>1 DEF CallInvariant
  <2> QED BY <1>3, <1>4, <2>5, <2>6, <2>7, <2>8 DEF IInv
<1> QED BY <1>7, <1>8

LEMMA AddOrderInv ==
  ASSUME IInv, NEW o \in NewOrder, AddOrder(o)
  PROVE  IInv'
<1>1. /\ pc = "idle" /\ clock < MaxSequence
      /\ EnterAddOrder(levels, node, index, o, FALSE)
  BY Zenon DEF AddOrder
<1>2. BookOK(levels, node, index)
  BY <1>1, Facts, Zenon DEF BookOK, NoEmptyLevel, IInv
<1>3. o \in [id : OrderIds \cup {kInvalidOrderId}, side : Side,
             type : OrderType, price : Price, quantity : Quantity,
             tif : TimeInForce]
  BY QuantityAssumption, Zenon DEF NewOrder, Quantity
<1> QED BY <1>1, <1>2, <1>3, EnterAddOrderInv, Zenon

LEMMA ReplaceOrderInv ==
  ASSUME IInv, NEW id \in OrderIds, NEW new_price \in Price,
         NEW new_quantity \in OrderQuantities,
         ReplaceOrder(id, new_price, new_quantity)
  PROVE  IInv'
<1>0. PICK lv, nd, ix, o :
         /\ lv = RemovedLevels(levels, node, index[id], id)
         /\ nd = Erase(node, id) /\ ix = Erase(index, id)
         /\ o = [id |-> id, side |-> node[id].side, type |-> node[id].type,
                 price |-> new_price, quantity |-> new_quantity,
                 tif |-> node[id].tif]
  BY Zenon
<1>1. /\ pc = "idle" /\ clock < MaxSequence /\ id \in DOMAIN index
      /\ EnterAddOrder(lv, nd, ix, o, TRUE)
  BY <1>0, Zenon DEF ReplaceOrder, ModifyRejectReason
<1>2. BookOK(lv, nd, ix) /\ Without(id, lv, nd, ix)
  BY <1>0, <1>1, RemoveFromBookOK
<1>3. node[id] \in Order /\ new_quantity \in Quantity
  BY <1>1, Facts, BookFields, QuantityAssumption DEF Quantity
<1>4. o \in [id : OrderIds \cup {kInvalidOrderId}, side : Side,
             type : OrderType, price : Price, quantity : Quantity,
             tif : TimeInForce]
  BY <1>0, <1>3 DEF Order
<1>5. /\ \A t \in Side : DOMAIN lv[t] \subseteq DOMAIN levels[t]
      /\ DOMAIN nd \subseteq DOMAIN node
      /\ \A x \in DOMAIN nd : nd[x] = node[x]
  BY <1>2 DEF Without
<1> QED BY <1>1, <1>2, <1>4, <1>5, EnterAddOrderInv, Zenon

-----------------------------------------------------------------------------
(* Every step of the book preserves the invariant.                         *)
LEMMA NextInv == IInv /\ [Next]_vars => IInv'
<1> SUFFICES ASSUME IInv, [Next]_vars PROVE IInv'
  OBVIOUS
<1>1. CASE UNCHANGED vars
  <2>1. UNCHANGED book /\ pc' = pc /\ op' = op /\ clock' = clock
        /\ trades' = trades /\ result' = result
    BY <1>1 DEF vars, book
  <2>2. TypeOK'
    BY <2>1, SameBook DEF TypeOK, IInv
  <2>3. NoEmptyLevel' /\ CursorsValid' /\ CallInvariant'
    BY <2>1 DEF NoEmptyLevel, CursorsValid, CallInvariant, IInv, book
  <2> QED BY <2>1, <2>2, <2>3, SameBook DEF IInv
<1>2. ASSUME NEW o \in NewOrder, AddOrder(o) PROVE IInv'
  BY <1>2, AddOrderInv
<1>3. ASSUME NEW id \in OrderIds, CancelOrder(id) PROVE IInv'
  BY <1>3, CancelOrderInv
<1>4. ASSUME NEW id \in OrderIds, NEW p \in Price, NEW q \in OrderQuantities,
             ModifyOrder(id, p, q)
      PROVE  IInv'
  BY <1>4, RejectModifyInv, AmendInPlaceInv, ReplaceOrderInv DEF ModifyOrder
<1>5. CASE Match
  BY <1>5, EnterLevelInv, MatchOrderInv, LeaveLevelInv, LeaveMatchInv DEF Match
<1>6. CASE Finish
  BY <1>6, FinishInv
<1> QED BY <1>1, <1>2, <1>3, <1>4, <1>5, <1>6 DEF Next

(* The inductive invariant holds in every reachable state of the book.     *)
THEOREM Invariance == Spec => []IInv
BY InitInv, NextInv, PTL DEF Spec

(* Quantities, totals, ids and loop cursors stay inside their types, for   *)
(* every width of the quantity type.                                       *)
THEOREM TypeCorrect == Spec => []TypeOK
<1>1. IInv => TypeOK
  BY DEF IInv
<1> QED BY <1>1, Invariance, PTL

(* index_ and the lists of the levels always name the same orders.         *)
THEOREM IndexAlwaysAgrees == Spec => []IndexAgrees
<1>1. IInv => IndexAgrees
  BY DEF IInv
<1> QED BY <1>1, Invariance, PTL

(* No bid is ever at or above an ask, in the middle of a call included.    *)
THEOREM NeverCrossed == Spec => []NotCrossed
<1>1. IInv => NotCrossed
  BY DEF IInv
<1> QED BY <1>1, Invariance, PTL

(* The queue of a level is always in order of arrival.                     *)
THEOREM AlwaysFifo == Spec => []TimePriority
<1>1. IInv => TimePriority
  BY DEF IInv
<1> QED BY <1>1, Invariance, PTL

(* No level without orders survives the loop that emptied it.              *)
THEOREM NoEmptyLevelSurvives == Spec => []NoEmptyLevel
<1>1. IInv => NoEmptyLevel
  BY DEF IInv
<1> QED BY <1>1, Invariance, PTL

(* Only good-till-cancel limit orders with something left rest, and their  *)
(* status tells whether any of it has traded.                              *)
THEOREM OnlyLiveOrdersRest == Spec => []RestingOrders
<1>1. IInv => RestingOrders
  BY DEF IInv
<1> QED BY <1>1, Invariance, PTL

(* The iterators of the matching loop are never used past an erasure.      *)
THEOREM IteratorsStayValid == Spec => []CursorsValid
<1>1. IInv => CursorsValid
  BY DEF IInv
<1> QED BY <1>1, Invariance, PTL


-----------------------------------------------------------------------------
(* ModifyOrder re-adds what RestingOrders says can rest, so that none of   *)
(* the early returns of AddOrder applies.                                  *)
LEMMA ReplaceAccepted ==
  ASSUME IInv, NEW id \in OrderIds, NEW new_price \in Price,
         NEW new_quantity \in OrderQuantities,
         ReplaceOrder(id, new_price, new_quantity)
  PROVE  result' = result
<1>0. PICK lv, nd, ix, o :
         /\ lv = RemovedLevels(levels, node, index[id], id)
         /\ nd = Erase(node, id) /\ ix = Erase(index, id)
         /\ o = [id |-> id, side |-> node[id].side, type |-> node[id].type,
                 price |-> new_price, quantity |-> new_quantity,
                 tif |-> node[id].tif]
  BY Zenon
<1>1. /\ id \in DOMAIN index /\ new_quantity # 0 /\ ~(new_price <= 0)
      /\ EnterAddOrder(lv, nd, ix, o, TRUE)
  BY <1>0, Zenon DEF ReplaceOrder, ModifyRejectReason
<1>2. /\ o.id = id /\ o.quantity = new_quantity /\ o.price = new_price
      /\ o.type = "Limit" /\ o.tif = "GoodTillCancel"
  BY <1>0, <1>1, Facts DEF MapsOK, RestingOrders, IInv
<1>3. id \notin DOMAIN ix /\ id # kInvalidOrderId
  BY <1>0, OrderIdsAssumption DEF Erase
<1>4. AddRejectReason(lv, ix, o) = "None"
  BY <1>1, <1>2, <1>3 DEF AddRejectReason
<1> QED BY <1>1, <1>4 DEF EnterAddOrder

(* A cancel/replace that removed the order always puts it back.            *)
THEOREM ReplaceNeverLosesTheOrder == Spec => []ReplaceSucceeds
<1>1. Init => ReplaceSucceeds
  BY DEF Init, ReplaceSucceeds, Rejected
<1>2. IInv /\ ReplaceSucceeds /\ [Next]_vars => ReplaceSucceeds'
  <2> SUFFICES ASSUME IInv, ReplaceSucceeds, [Next]_vars PROVE ReplaceSucceeds'
    OBVIOUS
  <2>1. CASE UNCHANGED vars
    BY <2>1 DEF vars, ReplaceSucceeds
  <2>2. ASSUME NEW o \in NewOrder, AddOrder(o) PROVE ReplaceSucceeds'
    BY <2>2 DEF AddOrder, EnterAddOrder, ReplaceSucceeds, Rejected
  <2>3. ASSUME NEW id \in OrderIds, CancelOrder(id) PROVE ReplaceSucceeds'
    BY <2>3 DEF CancelOrder, ReplaceSucceeds, Rejected
  <2>4. ASSUME NEW id \in OrderIds, NEW p \in Price, NEW q \in OrderQuantities,
               ModifyOrder(id, p, q)
        PROVE  ReplaceSucceeds'
    <3>1. CASE RejectModify(id, p, q)
      BY <3>1 DEF RejectModify, ReplaceSucceeds, Rejected
    <3>2. CASE AmendInPlace(id, p, q)
      BY <3>2 DEF AmendInPlace, ReplaceSucceeds
    <3>3. CASE ReplaceOrder(id, p, q)
      BY <3>3, ReplaceAccepted DEF ReplaceSucceeds
    <3> QED BY <2>4, <3>1, <3>2, <3>3 DEF ModifyOrder
  <2>5. CASE Match
    BY <2>5, Zenon DEF Match, EnterLevel, MatchOrder, LeaveLevel, LeaveMatch, ReplaceSucceeds
  <2>6. CASE Finish
    <3>1. result'.success = TRUE
      BY <2>6 DEF Finish
    <3> QED BY <3>1 DEF ReplaceSucceeds
  <2> QED BY <2>1, <2>2, <2>3, <2>4, <2>5, <2>6 DEF Next
<1> QED BY <1>1, <1>2, Invariance, PTL DEF Spec

-----------------------------------------------------------------------------
(* An order at price p outranks every other order of its side: it is       *)
(* better priced, or as well priced and older.                             *)
OutranksAll(s, p, first) ==
    /\ node[first].side = s
    /\ node[first].price = p
    /\ \A x \in DOMAIN node :
          node[x].side = s /\ x # first =>
             \/ Better(s, p, node[x].price)
             \/ /\ p = node[x].price
                /\ node[first].sequence_number < node[x].sequence_number

(* The first order of the best level does.                                 *)
LEMMA FirstOfBestOutranks ==
  ASSUME IInv, NEW s \in Side, NEW p \in DOMAIN levels[s], p = Begin(levels, s),
         1 \in 1 .. Len(levels[s][p].orders), NEW first,
         first = levels[s][p].orders[1]
  PROVE  OutranksAll(s, p, first)
<1>1. /\ MapsOK(levels, node, index) /\ LevelsOK(levels) /\ DOMAIN node = DOMAIN index
      /\ Located(levels, node, index) /\ Indexed(levels, index) /\ Fifo(levels, node)
  BY Facts DEF MapsOK
<1>2. first \in DOMAIN index /\ index[first] = [side |-> s, price |-> p]
  <2>1. \A i \in 1 .. Len(levels[s][p].orders) :
           /\ levels[s][p].orders[i] \in DOMAIN index
           /\ index[levels[s][p].orders[i]] = [side |-> s, price |-> p]
    BY <1>1, Zenon DEF Indexed
  <2> QED BY <2>1, Zenon
<1>3. node[first].side = s /\ node[first].price = p
  BY <1>1, <1>2 DEF Located
<1>4. ASSUME NEW x \in DOMAIN node, node[x].side = s, x # first
      PROVE  \/ Better(s, p, node[x].price)
             \/ /\ p = node[x].price
                /\ node[first].sequence_number < node[x].sequence_number
  <2>1. PICK q : q = index[x].price /\ node[x].price = q /\ index[x].side = s
                 /\ q \in DOMAIN levels[s]
    BY <1>1, <1>4, Zenon DEF Located
  <2>2. PICK i \in 1 .. Len(levels[s][q].orders) : levels[s][q].orders[i] = x
    BY <1>1, <1>4, <2>1 DEF Located
  <2>3. CASE q = p
    <3>1. i # 1 /\ 1 < i
      BY <2>2, <2>3, <1>4
    <3>2. node[first].sequence_number < node[x].sequence_number
      BY <2>2, <2>3, <3>1, <1>1 DEF Fifo
    <3> QED BY <2>1, <2>3, <3>2
  <2>4. CASE q # p
    <3>1. ~Better(s, q, p)
      BY <2>1, <1>1, BeginOK
    <3>2. p \in LevelPrice /\ q \in LevelPrice
      BY <2>1, <1>1, BookFields
    <3> QED BY <2>1, <2>4, <3>1, <3>2, MaxPriceAssumption DEF Better, LevelPrice
  <2> QED BY <2>3, <2>4
<1> QED BY <1>3, <1>4 DEF OutranksAll

(* Every trade is with the oldest order at the best opposite price, at     *)
(* that order's price, and at a price the aggressor accepts.               *)
THEOREM PriceTimePriority == Spec => TradesAtBest
<1> DEFINE AtBest(t) ==
       LET s == opposite(op.side)
           resting == node[t.resting_order_id]
       IN  /\ resting.side = s
           /\ t.price = resting.price
           /\ PriceCrosses(op.side, op.price, t.price, op.type = "Market")
           /\ \A id \in DOMAIN node :
                 node[id].side = s /\ id # t.resting_order_id =>
                     \/ Better(s, resting.price, node[id].price)
                     \/ /\ resting.price = node[id].price
                        /\ resting.sequence_number < node[id].sequence_number
       Step == \A t \in {trades'[i] : i \in (Len(trades) + 1) .. Len(trades')} : AtBest(t)
<1>1. IInv /\ [Next]_vars => [Step]_vars
  <2> SUFFICES ASSUME IInv, Next PROVE Step
    OBVIOUS
  <2>0. trades \in Seq(Trade) /\ Len(trades) \in Nat
    BY LenProperties DEF IInv, TypeOK
  <2>1. CASE trades' = << >> \/ trades' = trades
    <3>1. (Len(trades) + 1) .. Len(trades') = {}
      BY <2>0, <2>1
    <3> QED BY <3>1
  <2>2. CASE MatchOrder
    <3>1. PICK s, p, first, t :
             /\ s = opposite(op.side) /\ p = op.level_it
             /\ first = levels[s][p].orders[1]
             /\ t = trades'[Len(trades) + 1]
      OBVIOUS
    <3>2. /\ s \in Side /\ p \in DOMAIN levels[s] /\ p = Begin(levels, s)
          /\ PriceCrosses(op.side, op.price, p, op.type = "Market")
          /\ 1 \in 1 .. Len(levels[s][p].orders) /\ op.order_it = 1
      BY <2>2, <3>1, MatchOrderFacts
    <3>3. PICK u : trades' = Append(trades, u) /\ u.resting_order_id = first
                   /\ u.price = node[first].price
      <4>1. PICK qty : trades' = Append(trades, [resting_order_id |-> first,
                                                 price |-> node[first].price,
                                                 quantity |-> qty])
        BY <2>2, <3>1, <3>2, Zenon DEF MatchOrder
      <4> QED BY <4>1
    <3>4. Len(trades') = Len(trades) + 1 /\ t = u
      BY <2>0, <3>1, <3>3
    <3>5. {trades'[i] : i \in (Len(trades) + 1) .. Len(trades')} = {t}
      <4>1. (Len(trades) + 1) .. Len(trades') = {Len(trades) + 1}
        BY <2>0, <3>4
      <4> QED BY <4>1, <3>1
    <3>6. OutranksAll(s, p, first)
      BY <3>1, <3>2, FirstOfBestOutranks
    <3>7. AtBest(t)
      BY <3>1, <3>2, <3>3, <3>4, <3>6, Zenon DEF OutranksAll
    <3> HIDE DEF AtBest
    <3> QED BY <3>5, <3>7
  <2>3. MatchOrder \/ trades' = << >> \/ trades' = trades
    <3>1. ASSUME NEW o \in NewOrder, AddOrder(o) PROVE trades' = << >>
      BY <3>1 DEF AddOrder, EnterAddOrder
    <3>2. ASSUME NEW id \in OrderIds, CancelOrder(id) PROVE trades' = << >>
      BY <3>2 DEF CancelOrder
    <3>3. ASSUME NEW id \in OrderIds, NEW p \in Price, NEW q \in OrderQuantities,
                 ModifyOrder(id, p, q)
          PROVE  trades' = << >>
      BY <3>3 DEF ModifyOrder, RejectModify, AmendInPlace, ReplaceOrder, EnterAddOrder
    <3>4. CASE Match
      BY <3>4 DEF Match, EnterLevel, LeaveLevel, LeaveMatch
    <3>5. CASE Finish
      BY <3>5, Zenon DEF Finish
    <3> QED BY <3>1, <3>2, <3>3, <3>4, <3>5 DEF Next
  <2> QED BY <2>1, <2>2, <2>3
<1>2. [][Step]_vars <=> TradesAtBest
  BY DEF TradesAtBest
<1> HIDE DEF Step
<1> QED BY <1>1, <1>2, Invariance, PTL DEF Spec

-----------------------------------------------------------------------------
(* The matching loop terminates.                                           *)

(* The levels at or behind an iterator can be counted.                     *)
LEMMA AheadFinite ==
  ASSUME NEW lv, LevelsOK(lv), NEW s \in Side, NEW p
  PROVE  /\ IsFiniteSet(Ahead(lv, s, p))
         /\ Cardinality(Ahead(lv, s, p)) \in Nat
<1>1. Ahead(lv, s, p) \in SUBSET LevelPrice
  BY DEF Ahead, LevelsOK, IsMap
<1>2. IsFiniteSet(LevelPrice)
  BY FS_Interval, MaxPriceAssumption DEF LevelPrice
<1>3. IsFiniteSet(Ahead(lv, s, p))
  BY <1>1, <1>2, FS_Subset
<1> QED BY <1>3, FS_CardinalityType

(* Behind the level the iterator leaves there is at least one level less.  *)
LEMMA FollowingIsAhead ==
  ASSUME NEW lv, LevelsOK(lv), NEW lv2, LevelsOK(lv2), NEW s \in Side,
         DOMAIN lv2[s] \subseteq DOMAIN lv[s], NEW p \in DOMAIN lv[s]
  PROVE  Cardinality(Ahead(lv2, s, Following(lv, s, p)))
            < Cardinality(Ahead(lv, s, p))
<1> DEFINE next == Following(lv, s, p)
           worse == {q \in DOMAIN lv[s] : Better(s, p, q)}
<1>1. DOMAIN lv[s] \subseteq LevelPrice /\ p \in LevelPrice
  BY DEF LevelsOK, IsMap
<1>2. next # End => next \in LevelPrice /\ Better(s, p, next)
  <2>1. CASE worse = {}
    BY <2>1 DEF Following
  <2>2. CASE worse # {}
    <3>1. worse \in SUBSET LevelPrice
      BY <1>1
    <3>2. next = Best(s, worse)
      BY <2>2 DEF Following
    <3> QED BY <2>2, <3>1, <3>2, BestExists
  <2> QED BY <2>1, <2>2
<1> HIDE DEF next
<1>3. Ahead(lv2, s, next) \in SUBSET (Ahead(lv, s, p) \ {p})
  BY <1>1, <1>2, MaxPriceAssumption DEF Ahead, Better, LevelPrice, End
<1>4. p \in Ahead(lv, s, p)
  BY <1>1, MaxPriceAssumption DEF Ahead, Better, LevelPrice, End
<1>5. /\ IsFiniteSet(Ahead(lv, s, p) \ {p})
      /\ Cardinality(Ahead(lv, s, p) \ {p}) = Cardinality(Ahead(lv, s, p)) - 1
  BY <1>4, AheadFinite, FS_RemoveElement
<1>6. Cardinality(Ahead(lv2, s, next)) <= Cardinality(Ahead(lv, s, p)) - 1
  BY <1>3, <1>5, FS_Subset
<1> QED BY <1>6, AheadFinite DEF next

(* A fill takes something from the aggressor and erases no level.          *)
LEMMA MatchOrderFills ==
  ASSUME IInv, MatchOrder
  PROVE  /\ op'.remaining \in Nat /\ op'.remaining < op.remaining
         /\ op'.side = op.side /\ op'.level_it = op.level_it
         /\ DOMAIN levels'[opposite(op.side)] = DOMAIN levels[opposite(op.side)]
<1>0. PICK s, p, level, id, trade_qty, left, total :
         /\ s = opposite(op.side) /\ p = op.level_it /\ level = levels[s][p]
         /\ id = level.orders[1]
         /\ trade_qty = IF op.remaining <= node[id].remaining_quantity
                        THEN op.remaining ELSE node[id].remaining_quantity
         /\ left = node[id].remaining_quantity - trade_qty
         /\ total = (level.total_quantity - trade_qty) % QuantityModulus
  OBVIOUS
<1>1. /\ s \in Side /\ p \in DOMAIN levels[s] /\ id \in DOMAIN index
      /\ op.remaining \in Quantity /\ 0 < op.remaining /\ op.order_it = 1
      /\ op \in OpType
  BY <1>0, MatchOrderFacts, Zenon
<1>2. node[id].remaining_quantity \in Quantity /\ 0 < node[id].remaining_quantity
  BY <1>1, Facts, BookFields DEF IInv, RestingOrders, Order, MapsOK, IndexAgrees
<1>3. /\ 0 < trade_qty /\ trade_qty \in Quantity
      /\ op.remaining - trade_qty \in Quantity
  <2>1. PICK a \in Quantity, b \in Quantity :
           /\ a = op.remaining /\ b = node[id].remaining_quantity
           /\ 0 < a /\ 0 < b
    BY <1>1, <1>2
  <2>2. trade_qty = IF a <= b THEN a ELSE b
    BY <2>1, <1>0, Zenon
  <2> QED BY <2>1, <2>2, TradeQuantity
<1>4. \/ op' = [op EXCEPT !.remaining = op.remaining - trade_qty]
      \/ op' = [op EXCEPT !.remaining = op.remaining - trade_qty,
                          !.order_it = 2]
  <2>1. CASE left = 0
    BY <1>0, <1>1, <2>1, Zenon DEF MatchOrder
  <2>2. CASE left # 0
    <3>1. op' = [op EXCEPT !.remaining = op.remaining - trade_qty,
                           !.order_it = op.order_it + 1]
      BY <1>0, <1>1, <2>2, Zenon DEF MatchOrder
    <3> QED BY <3>1, <1>1
  <2> QED BY <2>1, <2>2
<1>5. \E l : levels' = SetLevel(levels, s, p, l)
  BY <1>0, <1>1, Zenon DEF MatchOrder
<1>6. DOMAIN levels'[s] = DOMAIN levels[s]
  BY <1>1, <1>5, Facts DEF SetLevel, Put, MapsOK, LevelsOK
<1>7. /\ op'.remaining = op.remaining - trade_qty
      /\ op'.side = op.side /\ op'.level_it = op.level_it
  BY <1>1, <1>4, Zenon DEF OpType
<1>8. op'.remaining \in Nat /\ op'.remaining < op.remaining
  BY <1>1, <1>3, <1>7, QuantityAssumption DEF Quantity
<1> QED BY <1>0, <1>6, <1>7, <1>8, Zenon

(* Every call returns: each step of the loops of Match lowers a natural    *)
(* number that the quantity and the levels of the book bound.              *)
THEOREM CallsTerminate == Spec => LoopProgress
<1> DEFINE s == opposite(op.side)
           n == Cardinality(Ahead(levels, s, op.level_it))
           Step == pc = "level" \/ pc = "order" => Work' < Work
<1>1. IInv /\ IInv' /\ [Next]_vars => [Step]_vars
  <2> SUFFICES ASSUME IInv, IInv', Next, pc = "level" \/ pc = "order"
               PROVE  Work' < Work
    OBVIOUS
  <2>1. /\ s \in Side /\ LevelsOK(levels) /\ LevelsOK(levels')
        /\ op \in OpType /\ op.remaining \in Nat /\ n \in Nat
    <3>1. s \in Side /\ LevelsOK(levels)
      BY Facts, Zenon DEF MapsOK
    <3>2. op \in OpType /\ LevelsOK(levels')
      BY DEF IInv, TypeOK, LevelsOK
    <3>3. op.remaining \in Nat
      BY <3>2, QuantityAssumption DEF OpType, Quantity
    <3>4. n \in Nat
      BY <3>1, AheadFinite, Zenon
    <3> QED BY <3>1, <3>2, <3>3, <3>4, Zenon
  <2>2. Work = op.remaining + 2 * n + IF pc = "level" THEN 1 ELSE 0
    BY DEF Work
  <2>3. CASE EnterLevel
    <3>1. /\ pc = "level" /\ pc' = "order" /\ levels' = levels
          /\ op'.remaining = op.remaining /\ op'.side = op.side
          /\ op'.level_it = op.level_it
      BY <2>1, <2>3 DEF EnterLevel, OpType
    <3>2. Work' = op.remaining + 2 * n + 0
      BY <3>1 DEF Work
    <3> QED BY <2>1, <2>2, <3>1, <3>2
  <2>4. CASE LeaveMatch
    <3>1. pc = "level" /\ pc' = "rest" /\ levels' = levels /\ op' = op
      BY <2>4 DEF LeaveMatch
    <3>2. Work' = op.remaining + 2 * n + 0
      BY <3>1 DEF Work
    <3> QED BY <2>1, <2>2, <3>1, <3>2
  <2>5. CASE MatchOrder
    <3>1. /\ pc = "order" /\ pc' = "order"
          /\ op'.remaining \in Nat /\ op'.remaining < op.remaining
          /\ op'.side = op.side /\ op'.level_it = op.level_it
          /\ DOMAIN levels'[s] = DOMAIN levels[s]
      BY <2>5, MatchOrderFacts, MatchOrderFills
    <3>2. Ahead(levels', s, op.level_it) = Ahead(levels, s, op.level_it)
      BY <3>1 DEF Ahead
    <3>3. Work' = op'.remaining + 2 * n + 0
      BY <3>1, <3>2 DEF Work
    <3> QED BY <2>1, <2>2, <3>1, <3>3
  <2>6. CASE LeaveLevel
    <3>1. /\ pc = "order" /\ pc' = "level" /\ op'.remaining = op.remaining
          /\ op'.side = op.side
          /\ op'.level_it = Following(levels, s, op.level_it)
          /\ op.level_it \in DOMAIN levels[s]
          /\ levels' = levels \/ levels' = EraseLevel(levels, s, op.level_it)
      BY <2>1, <2>6 DEF LeaveLevel, OpType, IInv, CursorsValid
    <3>2. DOMAIN levels'[s] \subseteq DOMAIN levels[s]
      BY <2>1, <3>1 DEF EraseLevel, Erase, LevelsOK
    <3> DEFINE m == Cardinality(Ahead(levels', s, op'.level_it))
    <3>3. m < n /\ m \in Nat
      BY <2>1, <3>1, <3>2, FollowingIsAhead, AheadFinite
    <3>4. Work' = op.remaining + 2 * m + 1
      BY <3>1 DEF Work
    <3> HIDE DEF m, n
    <3> QED BY <2>1, <2>2, <3>1, <3>3, <3>4
  <2>7. Match
    <3>1. ASSUME NEW o \in NewOrder, AddOrder(o) PROVE FALSE
      BY <3>1 DEF AddOrder
    <3>2. ASSUME NEW id \in OrderIds, CancelOrder(id) PROVE FALSE
      BY <3>2 DEF CancelOrder
    <3>3. ASSUME NEW id \in OrderIds, NEW p \in Price, NEW q \in OrderQuantities,
                 ModifyOrder(id, p, q)
          PROVE  FALSE
      BY <3>3, Zenon DEF ModifyOrder, RejectModify, AmendInPlace, ReplaceOrder
    <3>4. ~Finish
      BY Zenon DEF Finish
    <3> QED BY <3>1, <3>2, <3>3, <3>4 DEF Next
  <2> QED BY <2>3, <2>4, <2>5, <2>6, <2>7 DEF Match
<1>2. [][Step]_vars <=> LoopProgress
  BY DEF LoopProgress
<1> HIDE DEF Step
<1> QED BY <1>1, <1>2, Invariance, PTL DEF Spec

=============================================================================
