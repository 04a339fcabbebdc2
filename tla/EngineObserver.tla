--------------------------- MODULE EngineObserver ---------------------------
(***************************************************************************)
(* Two receivers of the engine's events that keep state of their own: a    *)
(* market-data subscriber, who replaces the aggregate of a level at each   *)
(* BookUpdateEvent, and a client, who keeps the open orders from accepted, *)
(* trade, cancelled and modified events.  Neither sees the books.          *)
(***************************************************************************)
EXTENDS MatchingEngine

VARIABLES
    depth,   \* the subscriber: symbol, side and price -> aggregate quantity
    open     \* the client: the orders it believes are open

ovars == <<vars, depth, open>>

books == engine.books

Level == [symbol : Symbols, side : Side, price : LevelPrice]

SeeDepth(d, e) ==
    IF e.kind = "BookUpdate"
    THEN [d EXCEPT ![[symbol |-> e.symbol, side |-> e.side, price |-> e.price]] =
                      e.aggregate]
    ELSE d

OpenOrder(e, price) ==
    [symbol |-> e.symbol, id |-> e.id, price |-> price, remaining |-> e.remaining]

IsOpen(o, symbol, id) == o.symbol = symbol /\ o.id = id

SeeOpen(seen, e) ==
    CASE e.kind = "Accepted" ->
            seen \cup IF e.remaining > 0 THEN {OpenOrder(e, e.price)} ELSE {}
      [] e.kind = "Modified" ->
            {o \in seen : ~IsOpen(o, e.symbol, e.id)}
            \cup IF e.remaining > 0 THEN {OpenOrder(e, e.new_price)} ELSE {}
      [] e.kind = "Cancelled" -> {o \in seen : ~IsOpen(o, e.symbol, e.id)}
      [] e.kind = "Trade" ->
            LET hit == {o \in seen : IsOpen(o, e.symbol, e.resting)}
                after == {[o EXCEPT !.remaining = @ - e.quantity] : o \in hit}
            IN  (seen \ hit) \cup {o \in after : o.remaining > 0}
      [] OTHER -> seen

OInit ==
    /\ Init
    /\ depth = [l \in Level |-> 0]
    /\ open = {}

ONext ==
    /\ Next
    /\ depth' = FoldLeft(SeeDepth, depth, events')
    /\ open' = FoldLeft(SeeOpen, open, events')

OSpec == OInit /\ [][ONext]_ovars

-----------------------------------------------------------------------------
(* The book updates of a command cover every level it changed: a           *)
(* subscriber who missed none knows the depth of every book.               *)
DepthIsExact ==
    \A l \in Level :
        depth[l] = IF l.symbol \in DOMAIN books
                   THEN QuantityAt(books[l.symbol], l.side, l.price) ELSE 0

(* The accepted, trade, cancelled and modified events of an order tell     *)
(* whether it is open, at what price and with how much left: also when a   *)
(* modify re-enters the book and trades on the way.                        *)
OpenOrdersAreExact ==
    open = {[symbol |-> s, id |-> r.id, price |-> r.price,
             remaining |-> r.remaining_quantity] :
               <<s, r>> \in UNION {{s} \X books[s] : s \in DOMAIN books}}
=============================================================================
