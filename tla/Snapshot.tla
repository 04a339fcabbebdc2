------------------------------ MODULE Snapshot ------------------------------
(***************************************************************************)
(* WriteSnapshot and LoadSnapshot.  The file is the sequence of values the *)
(* writer emits; the bytes of a value, and of an order record, are those   *)
(* of Codec and Protocol.  A file cut inside a value reads like one cut    *)
(* before it, since every read checks that its bytes are there.            *)
(***************************************************************************)
EXTENDS Partitions

kMagic == "MESN"
kVersion == 1

(* naive::OrderBook::AllRestingOrders: bids, then asks, each side best     *)
(* level first and in queue order within a level.                          *)
AllRestingOrders(R) ==
    SetToSortSeq({r \in R : r.side = "Buy"}, Outranks)
    \o SetToSortSeq({r \in R : r.side = "Sell"}, Outranks)

BookCells(symbol, R) == <<symbol, Cardinality(R)>> \o AllRestingOrders(R)

(* order is the order in which the unordered_map of books is iterated.     *)
PartitionCells(e, order) ==
    LET symbols == SelectSeq(order, LAMBDA s : s \in DOMAIN e.books)
    IN  <<e.next_seq, Len(symbols)>>
        \o FlattenSeq([i \in DOMAIN symbols |-> BookCells(symbols[i], e.books[symbols[i]])])

WriteSnapshot(pe, order) ==
    <<kMagic, kVersion, PartitionCount(pe)>>
    \o FlattenSeq([i \in 1 .. PartitionCount(pe) |-> PartitionCells(pe.parts[i - 1], order)])

-----------------------------------------------------------------------------
(* LoadSnapshot, one value at a time.  A loader expects the value named by *)
(* expect, has books and orders still to come, and ends up "done" or       *)
(* "throws".  A book ranks the orders of a level by sequence number; fifo  *)
(* says that the queues the records were appended to have that order too.  *)

Loader ==
    [expect |-> "magic", pe |-> NewPartitioned(0), p |-> 0, next_seq |-> 0,
     books |-> 0, symbol |-> 0, orders |-> 0, fifo |-> TRUE]

Throws(l) == [l EXCEPT !.expect = "throws"]

(* The head of the loop over partitions.                                   *)
NextPartition(l) ==
    [l EXCEPT !.expect = IF l.p < PartitionCount(l.pe) THEN "next_seq" ELSE "done"]

(* Mutant: the sequence numbers start again at 1.                          *)
NextBookUnnumbered(l) ==
    IF l.books > 0 THEN [l EXCEPT !.expect = "symbol", !.books = @ - 1]
    ELSE NextPartition([l EXCEPT !.p = @ + 1])

(* The head of the loop over books; SetNextSequenceNumber after it.        *)
NextBook(l) ==
    IF l.books > 0 THEN [l EXCEPT !.expect = "symbol", !.books = @ - 1]
    ELSE NextPartition([l EXCEPT !.pe.parts[l.p].next_seq = l.next_seq, !.p = @ + 1])

(* The head of the loop over orders.                                       *)
NextRecord(l) ==
    IF l.orders > 0 THEN [l EXCEPT !.expect = "order", !.orders = @ - 1]
    ELSE NextBook(l)

LoadBook(l, order_count) ==
    NextRecord([l EXCEPT !.orders = order_count,
                         !.pe = RegisterSymbolOnPartition(l.pe, l.symbol, l.p)])

(* MatchingEngine::RestoreOrder: the order goes to the back of its level.  *)
RestoreOrder(l, o) ==
    LET book == l.pe.parts[l.p].books[l.symbol]
        level == {r \in book : r.side = o.side /\ r.price = o.price}
    IN  NextRecord([l EXCEPT !.pe.parts[l.p].books[l.symbol] = book \cup {o},
                             !.fifo = @ /\ \A r \in level : r.sequence_number < o.sequence_number])

LoadValue(l, v) ==
    CASE l.expect = "magic" ->
            IF v = kMagic THEN [l EXCEPT !.expect = "version"] ELSE Throws(l)
      [] l.expect = "version" ->
            IF v = kVersion THEN [l EXCEPT !.expect = "partition_count"] ELSE Throws(l)
      [] l.expect = "partition_count" ->
            NextPartition([l EXCEPT !.pe = NewPartitioned(v)])
      [] l.expect = "next_seq" ->
            [l EXCEPT !.expect = "symbol_count", !.next_seq = v]
      [] l.expect = "symbol_count" -> NextBook([l EXCEPT !.books = v])
      [] l.expect = "symbol" -> [l EXCEPT !.expect = "order_count", !.symbol = v]
      [] l.expect = "order_count" -> LoadBook(l, v)
      [] l.expect = "order" -> RestoreOrder(l, v)
      [] OTHER -> l

(* Mutant: a file that ends early is taken for what it holds so far.       *)
LoadSnapshotLenient(cells) ==
    LET l == FoldLeft(LoadValue, Loader, cells)
    IN  [ok |-> Len(cells) > 2, fifo |-> l.fifo, pe |-> l.pe]

(* Reading past the end throws: only a loader that is done returned.       *)
LoadSnapshot(cells) ==
    LET after[n \in 0 .. Len(cells)] ==
            IF n = 0 THEN Loader ELSE LoadValue(after[n - 1], cells[n])
        l == after[Len(cells)]
    IN  [ok |-> l.expect = "done", fifo |-> l.fifo, pe |-> l.pe]
=============================================================================
