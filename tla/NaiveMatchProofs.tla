-------------------------- MODULE NaiveMatchProofs --------------------------
(***************************************************************************)
(* The steps of the match loop keep the inductive invariant of the naive   *)
(* book: entering a level, one fill, leaving the level or the loop, and the *)
(* end of AddOrder that rests or discards what is left.                    *)
(***************************************************************************)
EXTENDS NaiveBookLemmas

(* The provers may spend twenty seconds on a leaf.                         *)
USE SMTT(20), Z3T(20), ZenonT(20)

-----------------------------------------------------------------------------
(* The invariant holds of an empty book.                                   *)
LEMMA InitInv == Init => IInv
<1> SUFFICES ASSUME Init PROVE IInv
  OBVIOUS
<1> USE DEF Init
<1>1. TypeOK
  <2>1. op \in OpType
    BY MaxPriceAssumption, QuantityAssumption
       DEF OpType, NoOp, End, Side, OrderType, TimeInForce, Price, Quantity
  <2>2. result \in Result
    BY QuantityAssumption
       DEF Result, Rejected, RejectReason, OrderStatus, Quantity
  <2>3. clock \in 0 .. MaxSequence
    BY MaxSequenceAssumption
  <2> QED BY <2>1, <2>2, <2>3 DEF TypeOK, IsMap
<1>2. IndexAgrees /\ TimePriority /\ NoEmptyLevel
  BY DEF IndexAgrees, Located, Indexed, TimePriority, Fifo, NoEmptyLevel
<1>3. NotCrossed /\ RestingOrders
  BY DEF NotCrossed, RestingOrders, Side
<1>4. CursorsValid /\ CallInvariant
  BY DEF CursorsValid, CallInvariant
<1> QED BY <1>1, <1>2, <1>3, <1>4 DEF IInv

(* The facts about the state that every action lemma starts from.          *)
LEMMA Facts ==
  ASSUME IInv
  PROVE  /\ MapsOK(levels, node, index)
         /\ Located(levels, node, index)
         /\ Indexed(levels, index)
         /\ Fifo(levels, node)
         /\ opposite(op.side) \in Side
         /\ op.side \in Side
BY DEF IInv, TypeOK, IndexAgrees, TimePriority, MapsOK, LevelsOK, OpType,
       opposite, Side

(* begin() of a side is End or one of its levels.                          *)
LEMMA BeginOK ==
  ASSUME NEW lv, LevelsOK(lv), NEW s \in Side
  PROVE  /\ Begin(lv, s) \in Price
         /\ DOMAIN lv[s] = {} => Begin(lv, s) = End
         /\ DOMAIN lv[s] # {} =>
               /\ Begin(lv, s) \in DOMAIN lv[s]
               /\ Begin(lv, s) # End
               /\ \A q \in DOMAIN lv[s] : ~Better(s, q, Begin(lv, s))
<1>1. DOMAIN lv[s] \in SUBSET LevelPrice
  BY DEF LevelsOK, IsMap
<1>2. CASE DOMAIN lv[s] = {}
  BY <1>2, MaxPriceAssumption DEF Begin, End, Price
<1>3. CASE DOMAIN lv[s] # {}
  BY <1>1, <1>3, BestExists, MaxPriceAssumption DEF Begin, End, Price, LevelPrice
<1> QED BY <1>2, <1>3

(* The book part of the invariant depends on the three maps alone.         *)
LEMMA SameBook ==
  ASSUME IInv, UNCHANGED book
  PROVE  /\ DOMAIN levels' = Side
         /\ \A s \in Side : IsMap(levels'[s], LevelPrice, PriceLevel)
         /\ IsMap(node', OrderIds, Order)
         /\ IsMap(index', OrderIds, Locator)
         /\ IndexAgrees'
         /\ NotCrossed'
         /\ TimePriority'
         /\ RestingOrders'
BY DEF IInv, TypeOK, book, IndexAgrees, NotCrossed, TimePriority, RestingOrders

LEMMA EnterLevelInv ==
  ASSUME IInv, EnterLevel
  PROVE  IInv'
<1> DEFINE s == opposite(op.side)
<1>1. UNCHANGED book /\ s \in Side /\ op \in OpType /\ LevelsOK(levels)
  BY Facts DEF EnterLevel, book, IInv, TypeOK, MapsOK
<1>2. op' \in OpType /\ pc = "level" /\ pc' = "order"
      /\ op'.side = op.side /\ op'.remaining = op.remaining
      /\ op'.level_it = op.level_it /\ op'.price = op.price
      /\ op'.type = op.type /\ op'.order_it = 1
      /\ op'.id = op.id /\ op'.quantity = op.quantity
  BY <1>1 DEF EnterLevel, OpType
<1>3. TypeOK'
  BY <1>1, <1>2, SameBook DEF EnterLevel, TypeOK, IInv
<1>4. NoEmptyLevel'
  BY <1>1, <1>2 DEF NoEmptyLevel, IInv, book
<1>5. CursorsValid'
  <2>1. /\ op.level_it = Begin(levels, s) /\ op.level_it # End
        /\ PriceCrosses(op.side, op.price, op.level_it, op.type = "Market")
    BY <1>2 DEF EnterLevel, IInv, CursorsValid
  <2>2. op.level_it \in DOMAIN levels[s]
    BY <2>1, <1>1, BeginOK
  <2>3. Len(levels[s][op.level_it].orders) \in Nat
    BY <2>2, <1>1, BookFields, Facts
  <2> QED BY <1>1, <1>2, <2>1, <2>2, <2>3 DEF CursorsValid, book
<1>6. CallInvariant'
  BY <1>1, <1>2 DEF CallInvariant, IInv, EnterLevel, book
<1> QED BY <1>1, <1>3, <1>4, <1>5, <1>6, SameBook DEF IInv

(* Behind the best opposite level that does not cross, none crosses.       *)
LEMMA BestDoesNotCross ==
  ASSUME NEW s \in Side, NEW limit \in Price, NEW b \in Price, NEW q \in Price,
         ~Better(opposite(s), q, b), ~PriceCrosses(s, limit, b, FALSE)
  PROVE  ~PriceCrosses(s, limit, q, FALSE)
BY MaxPriceAssumption DEF Side, Price, Better, opposite, PriceCrosses

LEMMA LeaveMatchInv ==
  ASSUME IInv, LeaveMatch
  PROVE  IInv'
<1> DEFINE s == opposite(op.side)
<1>1. UNCHANGED book /\ s \in Side /\ op \in OpType /\ LevelsOK(levels)
  BY Facts DEF LeaveMatch, book, IInv, TypeOK, MapsOK
<1>2. op' = op /\ pc = "level" /\ pc' = "rest" /\ clock' = clock
  BY DEF LeaveMatch
<1>3. TypeOK'
  BY <1>1, <1>2, SameBook DEF LeaveMatch, TypeOK, IInv
<1>4. NoEmptyLevel' /\ CursorsValid'
  BY <1>1, <1>2 DEF NoEmptyLevel, CursorsValid, IInv, book
<1>5. ASSUME op.remaining > 0, NEW p \in DOMAIN levels[s]
      PROVE  ~PriceCrosses(op.side, op.price, p, op.type = "Market")
  <2>1. /\ op.level_it = Begin(levels, s) /\ op.level_it # End
        /\ op.level_it \in DOMAIN levels[s]
        /\ ~Better(s, p, op.level_it)
    BY <1>1, <1>2, <1>5, BeginOK DEF IInv, CursorsValid
  <2>2. ~PriceCrosses(op.side, op.price, op.level_it, op.type = "Market")
    BY <1>1, <1>5, <2>1 DEF LeaveMatch, OpType, Quantity
  <2>3. p \in Price /\ op.level_it \in Price
    BY <1>1, <2>1, MaxPriceAssumption DEF LevelsOK, IsMap, LevelPrice, Price
  <2>4. (op.type = "Market") = FALSE
    BY <2>2 DEF PriceCrosses
  <2> QED BY <1>1, <2>1, <2>2, <2>3, <2>4, BestDoesNotCross, Zenon DEF OpType
<1>6. CallInvariant'
  BY <1>1, <1>2, <1>5 DEF CallInvariant, IInv, book
<1> QED BY <1>1, <1>3, <1>4, <1>6, SameBook DEF IInv

(* total_quantity stays inside its type whatever is added or taken.        *)
LEMMA Wraps ==
  ASSUME NEW x \in Int
  PROVE  x % QuantityModulus \in Quantity
BY QuantityAssumption DEF Quantity

(* std::min of what the aggressor and the resting order have left.         *)
LEMMA TradeQuantity ==
  ASSUME NEW a \in Quantity, NEW b \in Quantity, 0 < a, 0 < b,
         NEW t, t = IF a <= b THEN a ELSE b
  PROVE  /\ t \in Quantity /\ 0 < t
         /\ a - t \in Quantity /\ a - t <= a
         /\ b - t \in Quantity /\ b - t < b
         /\ b - t # 0 => a - t = 0
BY QuantityAssumption DEF Quantity

(* Where the inner loop is when its body runs: at the first order of the   *)
(* best opposite level, which crosses.                                     *)
LEMMA MatchOrderFacts ==
  ASSUME IInv, MatchOrder
  PROVE  /\ opposite(op.side) \in Side
         /\ op.level_it \in LevelPrice
         /\ op.level_it \in DOMAIN levels[opposite(op.side)]
         /\ op.level_it = Begin(levels, opposite(op.side))
         /\ PriceCrosses(op.side, op.price, op.level_it, op.type = "Market")
         /\ levels[opposite(op.side)][op.level_it] \in PriceLevel
         /\ op.order_it = 1
         /\ Len(levels[opposite(op.side)][op.level_it].orders) \in Nat
         /\ 1 \in 1 .. Len(levels[opposite(op.side)][op.level_it].orders)
         /\ levels[opposite(op.side)][op.level_it].orders[1] \in DOMAIN index
         /\ op.remaining \in Quantity /\ 0 < op.remaining
         /\ pc = "order" /\ pc' = "order" /\ clock' = clock /\ result' = result
         /\ op \in OpType
<1> DEFINE s == opposite(op.side)
<1>1. /\ pc = "order" /\ pc' = "order" /\ clock' = clock /\ result' = result
      /\ op \in OpType
      /\ op.remaining > 0 /\ op.order_it <= Len(levels[s][op.level_it].orders)
  BY Zenon DEF MatchOrder, IInv, TypeOK
<1>2. /\ s \in Side /\ op.level_it \in DOMAIN levels[s]
      /\ op.level_it = Begin(levels, s) /\ op.order_it = 1
      /\ PriceCrosses(op.side, op.price, op.level_it, op.type = "Market")
  BY <1>1, Facts DEF IInv, CursorsValid
<1> HIDE DEF s
<1>3. MapsOK(levels, node, index) /\ Indexed(levels, index)
  BY Facts
<1>4. /\ levels[s][op.level_it] \in PriceLevel /\ op.level_it \in LevelPrice
      /\ Len(levels[s][op.level_it].orders) \in Nat
  BY <1>2, <1>3, BookFields
<1>5. 1 \in 1 .. Len(levels[s][op.level_it].orders)
  BY <1>1, <1>2, <1>4
<1>6. levels[s][op.level_it].orders[1] \in DOMAIN index
  BY <1>2, <1>3, <1>5, Zenon DEF Indexed
<1>7. op.remaining \in Quantity /\ 0 < op.remaining
  BY <1>1 DEF OpType, Quantity
<1> QED BY <1>1, <1>2, <1>4, <1>5, <1>6, <1>7 DEF s

(* The properties that only look at which levels exist.                    *)
LEMMA SameLevels ==
  ASSUME IInv, \A t \in Side : DOMAIN levels'[t] = DOMAIN levels[t]
  PROVE  /\ NotCrossed'
         /\ \A t \in Side : Begin(levels', t) = Begin(levels, t)
BY DEF IInv, NotCrossed, Side, Begin

LEMMA MatchOrderInv ==
  ASSUME IInv, MatchOrder
  PROVE  IInv'
<1>0. PICK s, p, level, id, trade_qty, left, total :
         /\ s = opposite(op.side) /\ p = op.level_it /\ level = levels[s][p]
         /\ id = level.orders[1]
         /\ trade_qty = IF op.remaining <= node[id].remaining_quantity
                        THEN op.remaining ELSE node[id].remaining_quantity
         /\ left = node[id].remaining_quantity - trade_qty
         /\ total = (level.total_quantity - trade_qty) % QuantityModulus
  OBVIOUS
<1>1. /\ s \in Side /\ p \in LevelPrice /\ p \in DOMAIN levels[s]
      /\ p = Begin(levels, s) /\ op.level_it = p /\ op.order_it = 1
      /\ PriceCrosses(op.side, op.price, p, op.type = "Market")
      /\ level \in PriceLevel /\ Len(level.orders) \in Nat
      /\ 1 \in 1 .. Len(level.orders)
      /\ id \in DOMAIN index
      /\ op.remaining \in Quantity /\ 0 < op.remaining
      /\ pc = "order" /\ pc' = "order" /\ clock' = clock /\ result' = result
      /\ op \in OpType
  BY <1>0, MatchOrderFacts, Zenon
<1>2. /\ MapsOK(levels, node, index) /\ LevelsOK(levels)
      /\ IsMap(node, OrderIds, Order) /\ IsMap(index, OrderIds, Locator)
      /\ DOMAIN node = DOMAIN index
      /\ Located(levels, node, index) /\ Indexed(levels, index) /\ Fifo(levels, node)
  BY Facts DEF MapsOK
<1>3. /\ node[id] \in Order /\ id \in OrderIds
      /\ node[id].remaining_quantity \in Quantity
      /\ 0 < node[id].remaining_quantity
  BY <1>1, <1>2, BookFields DEF IInv, RestingOrders, Order
<1>4. /\ trade_qty \in Quantity /\ 0 < trade_qty
      /\ op.remaining - trade_qty \in Quantity
      /\ op.remaining - trade_qty <= op.remaining
      /\ left \in Quantity /\ left < node[id].remaining_quantity
      /\ left # 0 => op.remaining - trade_qty = 0
  <2>1. PICK a \in Quantity, b \in Quantity :
           /\ a = op.remaining /\ b = node[id].remaining_quantity
           /\ 0 < a /\ 0 < b
    BY <1>1, <1>3
  <2>2. /\ trade_qty = IF a <= b THEN a ELSE b
        /\ left = b - trade_qty
    BY <2>1, <1>0, Zenon
  <2>3. /\ trade_qty \in Quantity /\ 0 < trade_qty
        /\ a - trade_qty \in Quantity /\ a - trade_qty <= a
        /\ left \in Quantity /\ left < b
        /\ left # 0 => a - trade_qty = 0
    BY <2>1, <2>2, TradeQuantity
  <2> QED BY <2>1, <2>3
<1>5. total \in Quantity
  <2>1. level.total_quantity - trade_qty \in Int
    BY <1>1, <1>4, QuantityAssumption DEF PriceLevel, Quantity
  <2> QED BY <2>1, <1>0, Wraps, Zenon
<1>6. trades' \in Seq(Trade)
  <2>1. trades' = Append(trades, [resting_order_id |-> id,
                                  price |-> node[id].price,
                                  quantity |-> trade_qty])
    BY <1>0, <1>1, Zenon DEF MatchOrder
  <2>2. [resting_order_id |-> id, price |-> node[id].price,
         quantity |-> trade_qty] \in Trade
    BY <1>3, <1>4 DEF Trade, Order
  <2> QED BY <2>1, <2>2, AppendProperties DEF IInv, TypeOK
<1>7. CASE left = 0
  <2>1. /\ index' = Erase(index, id) /\ node' = Erase(node, id)
        /\ levels' = SetLevel(levels, s, p,
                        [total_quantity |-> total,
                         orders |-> EraseAt(level.orders, 1)])
        /\ op' = [op EXCEPT !.remaining = op.remaining - trade_qty]
    BY <1>0, <1>1, <1>7, Zenon DEF MatchOrder
  <2>2. /\ op' \in OpType /\ op'.side = op.side /\ op'.type = op.type
        /\ op'.price = op.price /\ op'.id = op.id /\ op'.quantity = op.quantity
        /\ op'.level_it = p /\ op'.order_it = 1
        /\ op'.remaining = op.remaining - trade_qty
    BY <2>1, <1>1, <1>4 DEF OpType
  <2>3. PICK l \in PriceLevel : l = [total_quantity |-> total,
                                    orders |-> EraseAt(level.orders, 1)]
    BY <1>1, <1>5, EraseAtProperties, Zenon DEF PriceLevel
  <2>4. /\ LevelsOK(levels')
        /\ OnlyLevel(levels, levels', s, p, EraseAt(level.orders, 1))
        /\ levels'[s][p].orders = EraseAt(level.orders, 1)
        /\ DOMAIN levels'[s] = DOMAIN levels[s]
    <3>1. levels' = SetLevel(levels, s, p, l) /\ l.orders = EraseAt(level.orders, 1)
      BY <2>1, <2>3
    <3>2. DOMAIN levels[s] \cup {p} = DOMAIN levels[s]
      BY <1>1
    <3>3. /\ LevelsOK(SetLevel(levels, s, p, l))
          /\ OnlyLevel(levels, SetLevel(levels, s, p, l), s, p, l.orders)
          /\ SetLevel(levels, s, p, l)[s][p] = l
          /\ DOMAIN SetLevel(levels, s, p, l)[s] = DOMAIN levels[s] \cup {p}
      <4>1. LevelsOK(levels) /\ s \in Side /\ p \in LevelPrice /\ l \in PriceLevel
        BY <2>3, <1>1, <1>2, Zenon
      <4> QED BY <4>1, SetLevelOK
    <3> QED BY <3>1, <3>2, <3>3, Zenon
  <2>5. /\ IsMap(node', OrderIds, Order) /\ IsMap(index', OrderIds, Locator)
        /\ DOMAIN node' = DOMAIN node \ {id} /\ DOMAIN index' = DOMAIN index \ {id}
        /\ \A x \in DOMAIN node \ {id} : node'[x] = node[x]
    BY <2>1, <1>2 DEF IsMap, Erase
  <2>6. Located(levels', node', index') /\ Indexed(levels', index') /\ Fifo(levels', node')
    <3>1. /\ 1 \in 1 .. Len(levels[s][p].orders) /\ id = levels[s][p].orders[1]
          /\ OnlyLevel(levels, levels', s, p, EraseAt(levels[s][p].orders, 1))
      BY <1>0, <1>1, <2>4, Zenon
    <3>2. /\ Located(levels', Erase(node, id), Erase(index, id))
          /\ Indexed(levels', Erase(index, id))
          /\ Fifo(levels', Erase(node, id))
      BY <3>1, <2>4, <1>1, <1>2, UnlistKeeps
    <3> QED BY <2>1, <3>2
  <2>7. \A t \in Side : DOMAIN levels'[t] = DOMAIN levels[t]
    BY <2>4 DEF OnlyLevel
  <2>8. TypeOK'
    BY <1>1, <1>6, <2>2, <2>4, <2>5 DEF TypeOK, IInv, LevelsOK
  <2>9. IndexAgrees' /\ TimePriority'
    BY <2>5, <2>6, <1>2 DEF IndexAgrees, TimePriority
  <2>10. NoEmptyLevel'
    <3> SUFFICES ASSUME NEW t \in Side, NEW r \in DOMAIN levels'[t],
                        levels'[t][r].orders = << >>
                 PROVE  pc' = "order" /\ t = opposite(op'.side) /\ r = op'.level_it
      BY DEF NoEmptyLevel
    <3>1. CASE t = s /\ r = p
      BY <3>1, <1>0, <1>1, <2>2, Zenon
    <3>2. CASE ~(t = s /\ r = p)
      <4>1. r \in DOMAIN levels[t] /\ levels[t][r].orders = << >>
        BY <3>2, <1>1, <2>4, OtherLevels
      <4> QED BY <4>1, <3>2, <1>0, Zenon DEF NoEmptyLevel, IInv
    <3> QED BY <3>1, <3>2
  <2>11. RestingOrders'
    BY <2>5 DEF RestingOrders, IInv
  <2>12. CursorsValid'
    <3>1. Len(levels'[s][p].orders) \in Nat
      BY <2>4, <1>1, EraseAtProperties DEF PriceLevel
    <3>2. Begin(levels', s) = p /\ p \in DOMAIN levels'[s] /\ opposite(op'.side) = s
      BY <1>0, <1>1, <2>2, <2>7, SameLevels, Zenon
    <3> QED BY <1>1, <2>2, <3>1, <3>2 DEF CursorsValid
  <2>13. CallInvariant'
    <3>1. op'.remaining <= op'.quantity
      BY <1>1, <1>4, <2>2, QuantityAssumption DEF CallInvariant, IInv, OpType, Quantity
    <3> QED BY <1>1, <2>2, <2>5, <3>1 DEF CallInvariant, IInv
  <2> QED BY <2>7, <2>8, <2>9, <2>10, <2>11, <2>12, <2>13, SameLevels DEF IInv
<1>8. CASE left # 0
  <2>1. /\ index' = index
        /\ node' = [node EXCEPT ![id].remaining_quantity = left,
                                ![id].status = "PartiallyFilled"]
        /\ levels' = SetLevel(levels, s, p, [level EXCEPT !.total_quantity = total])
        /\ op' = [op EXCEPT !.remaining = op.remaining - trade_qty, !.order_it = 2]
    <3>1. op.order_it + 1 = 2
      BY <1>1
    <3> QED BY <1>0, <1>1, <1>8, <3>1, Zenon DEF MatchOrder
  <2>2. /\ op' \in OpType /\ op'.side = op.side /\ op'.type = op.type
        /\ op'.price = op.price /\ op'.id = op.id /\ op'.quantity = op.quantity
        /\ op'.level_it = p /\ op'.order_it = 2
        /\ op'.remaining = 0
    BY <2>1, <1>1, <1>4, <1>8, Zenon DEF OpType
  <2>3. PICK l \in PriceLevel : /\ l = [level EXCEPT !.total_quantity = total]
                               /\ l.orders = level.orders
    <3>1. [level EXCEPT !.total_quantity = total] \in PriceLevel
      BY <1>1, <1>5 DEF PriceLevel
    <3>2. [level EXCEPT !.total_quantity = total].orders = level.orders
      BY <1>1 DEF PriceLevel
    <3> QED BY <3>1, <3>2, Zenon
  <2>4. /\ LevelsOK(levels')
        /\ OnlyLevel(levels, levels', s, p, level.orders)
        /\ levels'[s][p].orders = level.orders
        /\ DOMAIN levels'[s] = DOMAIN levels[s]
    <3>1. levels' = SetLevel(levels, s, p, l) /\ l.orders = level.orders
      BY <2>1, <2>3
    <3>2. DOMAIN levels[s] \cup {p} = DOMAIN levels[s]
      BY <1>1
    <3>3. /\ LevelsOK(SetLevel(levels, s, p, l))
          /\ OnlyLevel(levels, SetLevel(levels, s, p, l), s, p, l.orders)
          /\ SetLevel(levels, s, p, l)[s][p] = l
          /\ DOMAIN SetLevel(levels, s, p, l)[s] = DOMAIN levels[s] \cup {p}
      <4>1. LevelsOK(levels) /\ s \in Side /\ p \in LevelPrice /\ l \in PriceLevel
        BY <2>3, <1>1, <1>2, Zenon
      <4> QED BY <4>1, SetLevelOK
    <3> QED BY <3>1, <3>2, <3>3, Zenon
  <2>5. /\ IsMap(node', OrderIds, Order) /\ DOMAIN node' = DOMAIN node
        /\ \A x \in DOMAIN node \ {id} : node'[x] = node[x]
        /\ node'[id].remaining_quantity = left
        /\ node'[id].status = "PartiallyFilled"
        /\ node'[id].side = node[id].side /\ node'[id].price = node[id].price
        /\ node'[id].sequence_number = node[id].sequence_number
        /\ node'[id].type = node[id].type /\ node'[id].tif = node[id].tif
        /\ node'[id].quantity = node[id].quantity
    <3>1. "PartiallyFilled" \in OrderStatus
      BY DEF OrderStatus
    <3> QED BY <2>1, <1>1, <1>2, <1>3, <1>4, <3>1, Zenon DEF IsMap, Order
  <2>6. Located(levels', node', index') /\ Indexed(levels', index') /\ Fifo(levels', node')
    <3>1. \A x \in DOMAIN index :
             /\ node'[x].side = node[x].side
             /\ node'[x].price = node[x].price
             /\ node'[x].sequence_number = node[x].sequence_number
      BY <2>5, <1>2
    <3>2. OnlyLevel(levels, levels', s, p, levels[s][p].orders)
      BY <2>4, <1>0, Zenon
    <3>3. /\ Located(levels', node', index) /\ Indexed(levels', index)
          /\ Fifo(levels', node')
      BY <2>4, <1>1, <1>2, <3>1, <3>2, SameListsKeep
    <3> QED BY <2>1, <3>3
  <2>7. \A t \in Side : DOMAIN levels'[t] = DOMAIN levels[t]
    BY <2>4 DEF OnlyLevel
  <2>8. TypeOK'
    BY <1>1, <1>2, <1>6, <2>1, <2>2, <2>4, <2>5, Zenon DEF TypeOK, IInv, LevelsOK
  <2>9. IndexAgrees' /\ TimePriority'
    BY <2>1, <2>5, <2>6, <1>2 DEF IndexAgrees, TimePriority
  <2>10. NoEmptyLevel'
    <3> SUFFICES ASSUME NEW t \in Side, NEW r \in DOMAIN levels'[t],
                        levels'[t][r].orders = << >>
                 PROVE  pc' = "order" /\ t = opposite(op'.side) /\ r = op'.level_it
      BY DEF NoEmptyLevel
    <3>1. CASE t = s /\ r = p
      BY <3>1, <1>0, <1>1, <2>2, Zenon
    <3>2. CASE ~(t = s /\ r = p)
      <4>1. r \in DOMAIN levels[t] /\ levels[t][r].orders = << >>
        BY <3>2, <1>1, <2>4, OtherLevels
      <4> QED BY <4>1, <3>2, <1>0, Zenon DEF NoEmptyLevel, IInv
    <3> QED BY <3>1, <3>2
  <2>11. RestingOrders'
    <3>1. /\ 0 < left /\ left <= node[id].quantity /\ left # node[id].quantity
      BY <1>1, <1>2, <1>3, <1>4, <1>8, QuantityAssumption
         DEF RestingOrders, IInv, Order, Quantity
    <3> QED BY <2>5, <1>1, <3>1 DEF RestingOrders, IInv
  <2>12. CursorsValid'
    <3>1. Begin(levels', s) = p /\ p \in DOMAIN levels'[s] /\ opposite(op'.side) = s
      BY <1>0, <1>1, <2>2, <2>7, SameLevels, Zenon
    <3> QED BY <1>1, <2>2, <2>4, <3>1 DEF CursorsValid
  <2>13. CallInvariant'
    <3>1. \A x \in DOMAIN node' :
             node'[x].sequence_number = node[x].sequence_number
      BY <2>5
    <3>2. op'.remaining <= op'.quantity
      BY <1>1, <2>2, QuantityAssumption DEF OpType, Quantity
    <3> QED BY <1>1, <2>1, <2>2, <2>5, <3>1, <3>2 DEF CallInvariant, IInv
  <2> QED BY <2>7, <2>8, <2>9, <2>10, <2>11, <2>12, <2>13, SameLevels DEF IInv
<1> QED BY <1>7, <1>8

(* ++level_it from the best level of a side: the other levels are the      *)
(* worse ones, so it leads to what begin() is once this level is erased.   *)
LEMMA FollowingOK ==
  ASSUME NEW lv, LevelsOK(lv), NEW s \in Side, NEW p \in DOMAIN lv[s],
         p = Begin(lv, s)
  PROVE  /\ Following(lv, s, p) \in Price
         /\ Following(lv, s, p) = End \/ Following(lv, s, p) \in DOMAIN lv[s]
         /\ Following(lv, s, p) = Begin(EraseLevel(lv, s, p), s)
<1> DEFINE worse == {q \in DOMAIN lv[s] : Better(s, p, q)}
<1>1. DOMAIN lv[s] \in SUBSET LevelPrice /\ p \in LevelPrice
  BY DEF LevelsOK, IsMap
<1>2. \A q \in DOMAIN lv[s] : ~Better(s, q, p)
  BY BeginOK
<1>3. worse = DOMAIN lv[s] \ {p}
  <2>1. \A q \in DOMAIN lv[s] : q # p => Better(s, p, q)
    BY <1>1, <1>2, MaxPriceAssumption DEF Better, LevelPrice
  <2>2. ~Better(s, p, p)
    BY <1>2
  <2> QED BY <2>1, <2>2
<1>4. DOMAIN EraseLevel(lv, s, p)[s] = DOMAIN lv[s] \ {p}
  BY <1>1, EraseLevelOK
<1>5. Following(lv, s, p) = IF worse = {} THEN End ELSE Best(s, worse)
  BY DEF Following
<1> HIDE DEF worse
<1>6. Following(lv, s, p) = Begin(EraseLevel(lv, s, p), s)
  BY <1>3, <1>4, <1>5 DEF Begin
<1>7. worse # {} => Best(s, worse) \in worse
  BY <1>1, <1>3, BestExists
<1>8. Following(lv, s, p) = End \/ Following(lv, s, p) \in DOMAIN lv[s]
  BY <1>3, <1>5, <1>7
<1>9. Following(lv, s, p) \in Price
  BY <1>1, <1>8, MaxPriceAssumption DEF End, LevelPrice, Price
<1> QED BY <1>6, <1>8, <1>9

LEMMA LeaveLevelInv ==
  ASSUME IInv, LeaveLevel
  PROVE  IInv'
<1>0. PICK s, p, next :
         s = opposite(op.side) /\ p = op.level_it /\ next = Following(levels, s, p)
  OBVIOUS
<1>1. /\ MapsOK(levels, node, index) /\ LevelsOK(levels)
      /\ Located(levels, node, index) /\ Indexed(levels, index) /\ Fifo(levels, node)
      /\ s \in Side /\ DOMAIN node = DOMAIN index /\ op \in OpType
  BY <1>0, Facts DEF MapsOK, IInv, TypeOK
<1>2. /\ pc = "order" /\ pc' = "level" /\ node' = node /\ index' = index
      /\ clock' = clock /\ trades' = trades /\ result' = result
      /\ op' = [op EXCEPT !.level_it = next]
      /\ levels' = IF levels[s][p].orders = << >>
                   THEN EraseLevel(levels, s, p) ELSE levels
      /\ op.remaining = 0 \/ op.order_it > Len(levels[s][p].orders)
  BY <1>0 DEF LeaveLevel
<1>3. /\ p \in DOMAIN levels[s] /\ p = Begin(levels, s)
      /\ op.order_it \in 1 .. Len(levels[s][p].orders) + 1
      /\ op.remaining > 0 => op.order_it = 1
  BY <1>0, <1>2 DEF IInv, CursorsValid
<1>4. /\ p \in LevelPrice /\ levels[s][p].orders \in Seq(OrderIds)
      /\ Len(levels[s][p].orders) \in Nat
  BY <1>1, <1>3, BookFields
<1>5. /\ next \in Price
      /\ next = End \/ next \in DOMAIN levels[s]
      /\ next = Begin(EraseLevel(levels, s, p), s)
  BY <1>0, <1>1, <1>3, FollowingOK
<1>6. /\ op' \in OpType /\ op'.side = op.side /\ op'.type = op.type
      /\ op'.price = op.price /\ op'.id = op.id /\ op'.quantity = op.quantity
      /\ op'.level_it = next /\ op'.remaining = op.remaining
      /\ opposite(op'.side) = s
  BY <1>0, <1>1, <1>2, <1>5 DEF OpType
<1>7. /\ LevelsOK(levels') /\ OnlyLevel(levels, levels', s, p, levels[s][p].orders)
      /\ levels[s][p].orders = << >> => DOMAIN levels'[s] = DOMAIN levels[s] \ {p}
  <2>1. CASE levels[s][p].orders = << >>
    BY <2>1, <1>1, <1>2, <1>4, EraseLevelOK
  <2>2. CASE levels[s][p].orders # << >>
    BY <2>2, <1>1, <1>2, <1>3 DEF OnlyLevel
  <2> QED BY <2>1, <2>2
<1>8. Located(levels', node, index) /\ Indexed(levels', index) /\ Fifo(levels', node)
  BY <1>1, <1>3, <1>7, SameListsKeep
<1>9. IndexAgrees' /\ TimePriority' /\ RestingOrders'
  BY <1>1, <1>2, <1>8 DEF IndexAgrees, TimePriority, RestingOrders, IInv
<1>10. TypeOK'
  BY <1>2, <1>6, <1>7 DEF TypeOK, IInv, LevelsOK
<1>11. ASSUME NEW t \in Side, NEW r \in DOMAIN levels'[t]
       PROVE  r \in DOMAIN levels[t]
  BY <1>1, <1>3, <1>7, OtherLevels
<1>12. NotCrossed'
  BY <1>11 DEF NotCrossed, IInv, Side
<1>13. NoEmptyLevel'
  <2> SUFFICES ASSUME NEW t \in Side, NEW r \in DOMAIN levels'[t],
                      levels'[t][r].orders = << >>
               PROVE  FALSE
    BY DEF NoEmptyLevel
  <2>1. CASE t = s /\ r = p
    BY <2>1, <1>2, <1>7
  <2>2. CASE ~(t = s /\ r = p)
    <3>1. r \in DOMAIN levels[t] /\ levels[t][r].orders = << >>
      BY <2>2, <1>1, <1>7, OtherLevels
    <3> QED BY <3>1, <2>2, <1>0 DEF NoEmptyLevel, IInv
  <2> QED BY <2>1, <2>2
<1>14. CursorsValid'
  <2>1. CASE levels[s][p].orders = << >>
    <3>1. levels' = EraseLevel(levels, s, p) /\ LevelsOK(levels')
      BY <2>1, <1>2, <1>7
    <3>2. next = Begin(levels', s)
      BY <3>1, <1>5
    <3>3. next = End \/ next \in DOMAIN levels'[s]
      BY <3>1, <3>2, <1>1, BeginOK
    <3> QED BY <3>2, <3>3, <1>2, <1>6 DEF CursorsValid
  <2>2. CASE levels[s][p].orders # << >>
    <3>1. Len(levels[s][p].orders) # 0
      BY <2>2, <1>4, EmptySeq
    <3>2. ~(op.remaining > 0)
      BY <3>1, <1>2, <1>3, <1>4 DEF OpType
    <3>3. levels' = levels
      BY <2>2, <1>2
    <3> QED BY <3>2, <3>3, <1>2, <1>5, <1>6 DEF CursorsValid
  <2> QED BY <2>1, <2>2
<1>15. CallInvariant'
  BY <1>2, <1>6 DEF CallInvariant, IInv
<1> QED BY <1>9, <1>10, <1>12, <1>13, <1>14, <1>15 DEF IInv


(* A new book that is consistent, without empty levels, not crossed and    *)
(* with nothing newer than the clock, when no call is in progress.         *)
LEMMA ReturnInv ==
  ASSUME pc' = "idle", clock' \in 0 .. MaxSequence, op' \in OpType,
         trades' \in Seq(Trade), result' \in Result,
         MapsOK(levels', node', index'),
         Located(levels', node', index'), Indexed(levels', index'),
         Fifo(levels', node'),
         \A t \in Side : \A r \in DOMAIN levels'[t] : levels'[t][r].orders # << >>,
         NotCrossed', RestingOrders',
         \A x \in DOMAIN node' : node'[x].sequence_number <= clock'
  PROVE  IInv'
<1>1. TypeOK'
  BY DEF TypeOK, MapsOK, LevelsOK
<1>2. IndexAgrees' /\ TimePriority'
  BY DEF IndexAgrees, TimePriority, MapsOK
<1>3. NoEmptyLevel'
  BY DEF NoEmptyLevel
<1>4. CursorsValid' /\ CallInvariant'
  BY DEF CursorsValid, CallInvariant
<1> QED BY <1>1, <1>2, <1>3, <1>4 DEF IInv

LEMMA NoOpType == NoOp \in OpType
BY MaxPriceAssumption, QuantityAssumption
   DEF OpType, NoOp, End, Side, OrderType, TimeInForce, Price, Quantity

LEMMA FinishInv ==
  ASSUME IInv, Finish
  PROVE  IInv'
<1>1. /\ pc = "rest" /\ pc' = "idle" /\ op' = NoOp /\ clock' = clock
      /\ trades' = trades /\ op \in OpType /\ clock \in 0 .. MaxSequence
      /\ trades \in Seq(Trade)
  BY DEF Finish, IInv, TypeOK
<1>2. /\ MapsOK(levels, node, index) /\ LevelsOK(levels)
      /\ IsMap(node, OrderIds, Order) /\ IsMap(index, OrderIds, Locator)
      /\ DOMAIN node = DOMAIN index
      /\ Located(levels, node, index) /\ Indexed(levels, index) /\ Fifo(levels, node)
  BY Facts DEF MapsOK
<1>3. /\ op.id \in OrderIds \ DOMAIN index /\ 0 < op.quantity
      /\ op.remaining <= op.quantity
      /\ op.type = "Limit" => op.price > 0
      /\ \A x \in DOMAIN node : node[x].sequence_number < clock
      /\ op.remaining > 0 =>
            \A r \in DOMAIN levels[opposite(op.side)] :
               ~PriceCrosses(op.side, op.price, r, op.type = "Market")
  BY <1>1 DEF IInv, CallInvariant
<1>4. /\ op.quantity \in Quantity /\ op.remaining \in Quantity
      /\ op.quantity - op.remaining \in Quantity
      /\ op.side \in Side /\ op.type \in OrderType /\ op.price \in Price
      /\ op.tif \in TimeInForce /\ op.replaces \in BOOLEAN
      /\ opposite(op.side) \in Side /\ opposite(op.side) # op.side
  BY <1>1, <1>3, QuantityAssumption DEF OpType, Quantity, Side, opposite
<1>5. \A t \in Side : \A r \in DOMAIN levels[t] : levels[t][r].orders # << >>
  BY <1>1 DEF IInv, NoEmptyLevel
<1>6. \A x \in DOMAIN node : node[x].sequence_number <= clock
  BY DEF IInv, CallInvariant
<1>7. CASE ~(op.type = "Limit" /\ op.tif = "GoodTillCancel" /\ op.remaining > 0)
  <2>1. /\ levels' = levels /\ node' = node /\ index' = index
        /\ result' = [success |-> TRUE, reject_reason |-> "None",
                      lost_priority |-> op.replaces,
                      final_status |-> IF op.quantity - op.remaining = op.quantity
                                       THEN "Filled" ELSE "Cancelled",
                      filled_quantity |-> op.quantity - op.remaining,
                      remaining_quantity |-> 0]
    BY <1>7 DEF Finish, book
  <2>2. result' \in Result
    BY <2>1, <1>4, QuantityAssumption DEF Result, RejectReason, OrderStatus, Quantity
  <2>3. NotCrossed' /\ RestingOrders'
    BY <2>1 DEF IInv, NotCrossed, RestingOrders
  <2> QED BY <2>1, <2>2, <2>3, <1>1, <1>2, <1>5, <1>6, NoOpType, ReturnInv
<1>8. CASE op.type = "Limit" /\ op.tif = "GoodTillCancel" /\ op.remaining > 0
  <2>0. PICK s, p, o, q, l :
           /\ s = op.side /\ p = op.price
           /\ o = [side |-> op.side, type |-> op.type, price |-> op.price,
                   quantity |-> op.quantity, remaining_quantity |-> op.remaining,
                   tif |-> op.tif, sequence_number |-> clock,
                   status |-> IF op.quantity - op.remaining > 0
                              THEN "PartiallyFilled" ELSE "New"]
           /\ q = Append(LevelAt(levels, s, p).orders, op.id)
           /\ l = [total_quantity |->
                      (LevelAt(levels, s, p).total_quantity + o.remaining_quantity)
                         % QuantityModulus,
                   orders |-> q]
    BY Zenon
  <2>1. /\ levels' = SetLevel(levels, s, p, l)
        /\ node' = Put(node, op.id, o)
        /\ index' = Put(index, op.id, [side |-> s, price |-> p])
        /\ result' = [success |-> TRUE, reject_reason |-> "None",
                      lost_priority |-> op.replaces, final_status |-> o.status,
                      filled_quantity |-> op.quantity - op.remaining,
                      remaining_quantity |-> op.remaining]
    BY <1>8, <2>0, Zenon DEF Finish, InsertedLevels
  <2>2. /\ s \in Side /\ p \in LevelPrice
        /\ [side |-> s, price |-> p] \in Locator
    <3>1. s \in Side /\ p \in Price /\ p > 0
      BY <1>3, <1>4, <1>8, <2>0, Zenon
    <3>2. p \in LevelPrice
      BY <3>1, MaxPriceAssumption DEF Price, LevelPrice
    <3> QED BY <3>1, <3>2 DEF Locator
  <2>3. /\ o \in Order /\ o.side = s /\ o.price = p
        /\ o.remaining_quantity = op.remaining /\ o.quantity = op.quantity
        /\ o.sequence_number = clock /\ o.type = "Limit"
        /\ o.tif = "GoodTillCancel" /\ o.status \in OrderStatus
        /\ o.status = IF o.remaining_quantity = o.quantity
                      THEN "New" ELSE "PartiallyFilled"
    <3>1. clock \in Nat
      BY <1>1, MaxSequenceAssumption
    <3>2. (op.quantity - op.remaining > 0) <=> (op.remaining # op.quantity)
      BY <1>3, <1>4, QuantityAssumption DEF Quantity
    <3>3. (IF op.quantity - op.remaining > 0 THEN "PartiallyFilled" ELSE "New")
             \in OrderStatus
      BY DEF OrderStatus
    <3> QED BY <3>1, <3>2, <3>3, <2>0, <2>2, <1>4, <1>8 DEF Order
  <2>4. /\ LevelAt(levels, s, p).orders \in Seq(OrderIds)
        /\ LevelAt(levels, s, p).total_quantity \in Quantity
    <3>1. CASE p \in DOMAIN levels[s]
      BY <3>1, <2>2, <1>2, BookFields DEF LevelAt
    <3>2. CASE p \notin DOMAIN levels[s]
      BY <3>2, QuantityAssumption DEF LevelAt, Quantity
    <3> QED BY <3>1, <3>2
  <2>5. l \in PriceLevel /\ l.orders = q /\ q # << >>
    <3>1. q \in Seq(OrderIds) /\ q # << >>
      BY <2>0, <2>4, <1>3, AppendProperties
    <3>2. LevelAt(levels, s, p).total_quantity + o.remaining_quantity \in Int
      BY <2>3, <2>4, <1>4, QuantityAssumption DEF Quantity
    <3>3. (LevelAt(levels, s, p).total_quantity + o.remaining_quantity)
             % QuantityModulus \in Quantity
      BY <3>2, Wraps
    <3> QED BY <3>1, <3>3, <2>0 DEF PriceLevel
  <2>6. /\ LevelsOK(levels') /\ OnlyLevel(levels, levels', s, p, q)
        /\ levels'[s][p].orders = q /\ DOMAIN levels'[s] = DOMAIN levels[s] \cup {p}
    <3>1. /\ LevelsOK(SetLevel(levels, s, p, l))
          /\ OnlyLevel(levels, SetLevel(levels, s, p, l), s, p, l.orders)
          /\ SetLevel(levels, s, p, l)[s][p] = l
          /\ DOMAIN SetLevel(levels, s, p, l)[s] = DOMAIN levels[s] \cup {p}
      <4>1. LevelsOK(levels) /\ s \in Side /\ p \in LevelPrice /\ l \in PriceLevel
        BY <2>2, <2>5, <1>2, Zenon
      <4> QED BY <4>1, SetLevelOK
    <3> QED BY <2>1, <2>5, <3>1, Zenon
  <2>7. /\ IsMap(node', OrderIds, Order) /\ IsMap(index', OrderIds, Locator)
        /\ DOMAIN node' = DOMAIN node \cup {op.id}
        /\ DOMAIN index' = DOMAIN index \cup {op.id}
        /\ node'[op.id] = o
        /\ \A x \in DOMAIN node \ {op.id} : node'[x] = node[x]
    <3>1. PICK loc \in Locator : loc = [side |-> s, price |-> p]
      BY <2>2
    <3>2. /\ IsMap(Put(node, op.id, o), OrderIds, Order)
          /\ DOMAIN Put(node, op.id, o) = DOMAIN node \cup {op.id}
          /\ \A x \in DOMAIN node \ {op.id} : Put(node, op.id, o)[x] = node[x]
          /\ Put(node, op.id, o)[op.id] = o
      <4>1. IsMap(node, OrderIds, Order) /\ op.id \in OrderIds /\ o \in Order
        BY <2>3, <1>2, <1>3, Zenon
      <4> QED BY <4>1 DEF IsMap, Put
    <3>3. /\ IsMap(Put(index, op.id, loc), OrderIds, Locator)
          /\ DOMAIN Put(index, op.id, loc) = DOMAIN index \cup {op.id}
      <4>1. IsMap(index, OrderIds, Locator) /\ op.id \in OrderIds
        BY <1>2, <1>3, Zenon
      <4> QED BY <4>1, <3>1 DEF IsMap, Put
    <3> QED BY <2>1, <3>1, <3>2, <3>3, Zenon
  <2>8. MapsOK(levels', node', index')
    BY <2>6, <2>7, <1>2 DEF MapsOK
  <2>9. Located(levels', node', index') /\ Indexed(levels', index') /\ Fifo(levels', node')
    <3>1. /\ OnlyLevel(levels, levels', s, p, Append(LevelAt(levels, s, p).orders, op.id))
          /\ p \in DOMAIN levels'[s]
          /\ \A x \in DOMAIN node : node[x].sequence_number < o.sequence_number
      BY <2>0, <2>3, <2>6, <1>3, Zenon
    <3>2. /\ Located(levels', Put(node, op.id, o), Put(index, op.id, [side |-> s, price |-> p]))
          /\ Indexed(levels', Put(index, op.id, [side |-> s, price |-> p]))
          /\ Fifo(levels', Put(node, op.id, o))
      BY <3>1, <2>2, <2>3, <2>6, <1>2, <1>3, AppendKeeps, Zenon
    <3> QED BY <3>2, <2>1
  <2>10. \A t \in Side : \A r \in DOMAIN levels'[t] : levels'[t][r].orders # << >>
    <3> TAKE t \in Side
    <3> TAKE r \in DOMAIN levels'[t]
    <3>1. CASE t = s /\ r = p
      BY <3>1, <2>5, <2>6
    <3>2. CASE ~(t = s /\ r = p)
      BY <3>2, <1>5, <2>2, <2>6, OtherLevels
    <3> QED BY <3>1, <3>2
  <2>11. NotCrossed'
    <3>1. /\ DOMAIN levels'[s] = DOMAIN levels[s] \cup {p}
          /\ levels'[opposite(s)] = levels[opposite(s)]
      BY <2>0, <2>6, <1>4, Zenon DEF OnlyLevel
    <3>2. \A r \in DOMAIN levels[opposite(s)] : ~PriceCrosses(s, p, r, FALSE)
      BY <1>3, <1>8, <2>0 DEF PriceCrosses
    <3>3. \A t \in Side : \A r \in DOMAIN levels[t] : r \in LevelPrice
      BY <1>2, BookFields
    <3>4. CASE s = "Buy"
      <4>1. \A r \in DOMAIN levels["Sell"] : p < r
        BY <3>2, <3>3, <3>4, <2>2, MaxPriceAssumption
           DEF PriceCrosses, opposite, Side, LevelPrice
      <4> QED BY <3>1, <3>4, <4>1 DEF NotCrossed, IInv, opposite
    <3>5. CASE s = "Sell"
      <4>1. \A r \in DOMAIN levels["Buy"] : r < p
        BY <3>2, <3>3, <3>5, <2>2, MaxPriceAssumption
           DEF PriceCrosses, opposite, Side, LevelPrice
      <4> QED BY <3>1, <3>5, <4>1 DEF NotCrossed, IInv, opposite
    <3> QED BY <3>4, <3>5, <2>2 DEF Side
  <2>12. RestingOrders'
    <3> SUFFICES ASSUME NEW x \in DOMAIN node'
                 PROVE  /\ node'[x].type = "Limit" /\ node'[x].tif = "GoodTillCancel"
                        /\ 0 < node'[x].remaining_quantity
                        /\ node'[x].remaining_quantity <= node'[x].quantity
                        /\ node'[x].status =
                              IF node'[x].remaining_quantity = node'[x].quantity
                              THEN "New" ELSE "PartiallyFilled"
      BY DEF RestingOrders
    <3>1. CASE x = op.id
      BY <3>1, <1>3, <1>4, <1>8, <2>3, <2>7 DEF Quantity
    <3>2. CASE x # op.id
      <4>1. x \in DOMAIN node /\ node'[x] = node[x]
        BY <3>2, <2>7
      <4> QED BY <4>1 DEF RestingOrders, IInv
    <3> QED BY <3>1, <3>2
  <2>13. \A x \in DOMAIN node' : node'[x].sequence_number <= clock'
    BY <1>1, <1>6, <2>3, <2>7, MaxSequenceAssumption
  <2>14. result' \in Result
    BY <2>1, <2>3, <1>4 DEF Result, RejectReason
  <2> QED BY <1>1, <2>8, <2>9, <2>10, <2>11, <2>12, <2>13, <2>14, NoOpType, ReturnInv
<1> QED BY <1>7, <1>8

=============================================================================
