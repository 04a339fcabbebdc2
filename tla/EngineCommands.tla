--------------------------- MODULE EngineCommands ---------------------------
(***************************************************************************)
(* What me::MatchingEngine::Process does with one command: a function of   *)
(* the engine and the command.  An engine is its books and its next        *)
(* sequence number; a book is the set of its resting orders and answers a  *)
(* call with the outcome PriceTime prescribes, which is what               *)
(* naive::OrderBook is shown to implement.                                 *)
(***************************************************************************)
EXTENDS PriceTime

CONSTANT Symbols      \* the symbol ids commands carry

NewOrderCommand == [kind : {"NewOrder"}, symbol : Symbols, order : NewOrder]
CancelCommand == [kind : {"Cancel"}, symbol : Symbols, id : OrderIds]
ModifyCommand ==
    [kind : {"Modify"}, symbol : Symbols, id : OrderIds, new_price : Price,
     new_quantity : OrderQuantities]

(* A MatchingEngine as constructed: no books, next_seq_ = 1.               *)
NewEngine == [books |-> [s \in {} |-> {}], next_seq |-> 1]

(* books_.try_emplace: registering a symbol again changes nothing.         *)
Registered(e, symbol) ==
    [e EXCEPT !.books = [s \in DOMAIN e.books \cup {symbol} |->
                            IF s \in DOMAIN e.books THEN e.books[s] ELSE {}]]

(* QuantityAt of the naive book.                                           *)
QuantityAt(R, s, p) == Aggregate({r \in R : r.side = s /\ r.price = p})

-----------------------------------------------------------------------------
(* The events.                                                             *)

RejectedEvent(symbol, id, reason) ==
    [kind |-> "Rejected", symbol |-> symbol, id |-> id, reason |-> reason]

AcceptedEvent(symbol, o, result) ==
    [kind |-> "Accepted", symbol |-> symbol, id |-> o.id, side |-> o.side,
     price |-> o.price, filled |-> result.filled_quantity,
     remaining |-> result.remaining_quantity, status |-> result.final_status]

CancelledEvent(symbol, id) ==
    [kind |-> "Cancelled", symbol |-> symbol, id |-> id]

(* Mutant: reports the quantity asked for, not what is left after trading. *)
ModifiedEventAsked(symbol, id, new_price, result) ==
    [kind |-> "Modified", symbol |-> symbol, id |-> id, new_price |-> new_price,
     remaining |-> result.remaining_quantity + result.filled_quantity,
     lost_priority |-> result.lost_priority]

ModifiedEvent(symbol, id, new_price, result) ==
    [kind |-> "Modified", symbol |-> symbol, id |-> id, new_price |-> new_price,
     remaining |-> result.remaining_quantity,
     lost_priority |-> result.lost_priority]

TradeEvents(symbol, id, trades) ==
    [i \in DOMAIN trades |->
        [kind |-> "Trade", symbol |-> symbol, aggressor |-> id,
         resting |-> trades[i].resting_order_id, price |-> trades[i].price,
         quantity |-> trades[i].quantity]]

(* One BookUpdateEvent per touched level, with the aggregate of R.         *)
BookUpdates(symbol, R, touched) ==
    [i \in DOMAIN touched |->
        [kind |-> "BookUpdate", symbol |-> symbol, side |-> touched[i].side,
         price |-> touched[i].price,
         aggregate |-> QuantityAt(R, touched[i].side, touched[i].price)]]

AddTouched(touched, side, price) ==
    LET level == [side |-> side, price |-> price]
    IN  IF level \in ToSet(touched) THEN touched ELSE Append(touched, level)

TouchedByTrades(side, trades) ==
    FoldLeft(LAMBDA touched, t : AddTouched(touched, opposite(side), t.price),
             << >>, trades)

-----------------------------------------------------------------------------
(* Process, by kind of command: the engine and the events afterwards.      *)

(* The command used up a sequence number and left the book R.              *)
Processed(e, symbol, R, out) ==
    [engine |-> [books |-> [e.books EXCEPT ![symbol] = R],
                 next_seq |-> e.next_seq + 1],
     events |-> out]

RejectCommand(e, symbol, R, id, reason) ==
    Processed(e, symbol, R, <<RejectedEvent(symbol, id, reason)>>)

UnknownSymbol(e, symbol, id) ==
    [engine |-> [e EXCEPT !.next_seq = @ + 1],
     events |-> <<RejectedEvent(symbol, id, "InvalidSymbol")>>]

(* The levels a new order touches: where it traded and where it rests.     *)
TouchedByNewOrder(o, outcome) ==
    LET rests == /\ outcome.result.remaining_quantity > 0
                 /\ outcome.result.final_status # "Cancelled"
    IN  IF rests
        THEN AddTouched(TouchedByTrades(o.side, outcome.trades), o.side, o.price)
        ELSE TouchedByTrades(o.side, outcome.trades)

NewOrderAnswered(e, symbol, o, outcome) ==
    IF ~outcome.result.success
    THEN RejectCommand(e, symbol, outcome.resting, o.id, outcome.result.reject_reason)
    ELSE Processed(e, symbol, outcome.resting,
                   <<AcceptedEvent(symbol, o, outcome.result)>>
                   \o TradeEvents(symbol, o.id, outcome.trades)
                   \o BookUpdates(symbol, outcome.resting, TouchedByNewOrder(o, outcome)))

ProcessNewOrder(e, c) ==
    IF c.symbol \notin DOMAIN e.books THEN UnknownSymbol(e, c.symbol, c.order.id)
    ELSE NewOrderAnswered(e, c.symbol, c.order,
                          Added(e.books[c.symbol], c.order, e.next_seq))

CancelAnswered(e, symbol, id, existing, outcome) ==
    IF ~outcome.result.success
    THEN RejectCommand(e, symbol, outcome.resting, id, outcome.result.reject_reason)
    ELSE Processed(e, symbol, outcome.resting,
                   <<CancelledEvent(symbol, id)>>
                   \o BookUpdates(symbol, outcome.resting,
                         <<[side |-> existing.side, price |-> existing.price]>>))

ProcessCancel(e, c) ==
    LET R == e.books[c.symbol]
    IN  IF c.symbol \notin DOMAIN e.books THEN UnknownSymbol(e, c.symbol, c.id)
        ELSE CancelAnswered(e, c.symbol, c.id, Find(R, c.id), Cancelled(R, c.id))

(* Mutant: the level the order left is not reported.                       *)
TouchedByModifyNewOnly(existing, new_price, trades) ==
    AddTouched(TouchedByTrades(existing.side, trades), existing.side, new_price)

(* The levels a modify touches: where it traded, where the order was and   *)
(* where it went.                                                          *)
TouchedByModify(existing, new_price, trades) ==
    LET old == AddTouched(TouchedByTrades(existing.side, trades),
                          existing.side, existing.price)
    IN  IF new_price # existing.price
        THEN AddTouched(old, existing.side, new_price) ELSE old

ModifyAnswered(e, c, existing, outcome) ==
    IF ~outcome.result.success
    THEN RejectCommand(e, c.symbol, outcome.resting, c.id, outcome.result.reject_reason)
    ELSE Processed(e, c.symbol, outcome.resting,
                   <<ModifiedEvent(c.symbol, c.id, c.new_price, outcome.result)>>
                   \o TradeEvents(c.symbol, c.id, outcome.trades)
                   \o BookUpdates(c.symbol, outcome.resting,
                         TouchedByModify(existing, c.new_price, outcome.trades)))

ProcessModify(e, c) ==
    LET R == e.books[c.symbol]
    IN  IF c.symbol \notin DOMAIN e.books THEN UnknownSymbol(e, c.symbol, c.id)
        ELSE ModifyAnswered(e, c, Find(R, c.id),
                            Modified(R, c.id, c.new_price, c.new_quantity, e.next_seq))

(* std::visit over the kinds of command.                                   *)
Process(e, c) ==
    CASE c.kind = "NewOrder" -> ProcessNewOrder(e, c)
      [] c.kind = "Cancel" -> ProcessCancel(e, c)
      [] c.kind = "Modify" -> ProcessModify(e, c)
=============================================================================
