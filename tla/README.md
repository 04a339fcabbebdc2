# A TLA+ verification of the matching engine

TLA+ models of this repository, from the order books and the lock-free queue
through the wire format, the journal, snapshots and recovery to the gateway
session and the server that puts them together. TLC checks them on small
instances; TLAPS proves theorems about the naive order book, the queue, the
frame decoder, the session and the server for every value of the constants.
`PROJECT.json` maps each definition to the source lines it models and lists
runs, mutants, hazards, findings and theorems.

## 1. Inventory

| Part | State | Operations | Interacts with |
|------|-------|------------|----------------|
| `naive::OrderBook` | `bids_`, `asks_` (price levels with a FIFO list and a cached total), `index_` | `AddOrder`, `CancelOrder`, `ModifyOrder`; `RestoreOrder`, `AllRestingOrders` for recovery | called by `MatchingEngine` on one thread |
| `fast::OrderBook` | the same maps, orders in pool slots, intrusive lists | the same three calls | `ObjectPool` |
| `ObjectPool` | slots, `free_head_`, `in_use_` | `Acquire`, `Release` | `fast::OrderBook` |
| `MatchingEngine` | `books_`, `next_seq_` | `RegisterSymbol`, `Process`, `RestoreOrder`, `SetNextSequenceNumber` | books below, `PartitionedEngine` above |
| `PartitionedEngine`, `SymbolRouter` | partitions, `overrides_` | `RegisterSymbol`, `RegisterSymbolOnPartition`, `Dispatch` | engines |
| `SpscQueue` | `head_`, `tail_`, the two cached cursors, `buffer_` | `TryPush`, `TryPop` | one producer and one consumer thread |
| `AsyncJournalWriter`, `MarketDataPublisher` | queue, `running_`, `dropped_`, worker thread | `TryAppend` / `Publish`, `Run`, `Stop` | engine thread, journal file, sink |
| `JournalWriter`, `ReadJournal` | an append-only file of frames | `Append`, `Flush`, `ReadJournal` | crash and restart |
| `WriteSnapshot`, `LoadSnapshot` | a snapshot file | write, load, replay | engine, journal |
| `FrameDecoder`, protocol codec | `buffer_`, `read_offset_` | `Feed`, `TryExtractFrame`, `Compact`; encode and decode | session reader, journal |
| `GatewaySession`, `TcpGateway` | `alive_`, `stopping_`, two queues, three kinds of threads | `Start`, `Stop`, reader, writer and accept loops | sockets, engine thread |
| `gateway_server` | sessions, shutdown flag | main loop, shutdown | everything |
| `send_order` | decoder | connect, send, receive until the timeout (not modelled) | `gateway_server` |

What is hard here: iterators and pointers that outlive erasures inside the
matching loop; a replace that removes an order before it re-adds it; totals
cached beside the orders they sum, in a type that wraps; pool slots that are
reused while a loop still walks the list; stale cursors and memory order in the
ring; shutdown racing late pushes; crashes between write, dispatch, snapshot and
rotation; torn journal records; queues at their limit; and threads blocked in
system calls when someone wants to join them.

What correctness means: price-time priority, an uncrossed book, an index that
agrees with the lists, totals that agree with the orders, no leaked or doubly
used slot, a queue that is a FIFO, a worker that loses nothing it accepted, an
event stream from which the books can be followed, frames and messages that come
back as they were sent, files that give back the engine, and a server that
serves everyone and ends when told to.

## 2. Modules

| Module | Models | Notes |
|--------|--------|-------|
| `BookTypes` | `types.hpp`, `order.hpp`, `trade.hpp`, `PriceCrosses` | vocabulary shared by both books |
| `LevelMaps` | the `std::map` and `std::unordered_map` operations used by the books | external containers, from how the books use them |
| `NaiveOrderBook` | `naive::OrderBook` | one action per call and per iteration of the matching loop; its properties |
| `NaiveBookLemmas`, `NaiveMatchProofs`, `NaiveOrderBookProofs` | | TLAPS proofs: containers, matching loop, the other calls and the theorems |
| `PriceTime` | what the calls of a book should do, on a set of orders | no levels, queues, index or loop: a fill is computed from the quantity ahead of an order |
| `PriceTimeBook` | the promise of a book to its caller | abstract specification |
| `NaiveRefinement`, `FastRefinement` | | the books with a history variable for the call that returned last (`HSpec`), and the refinement mapping to `PriceTimeBook` |
| `ObjectPool` | `ObjectPool<T>` | a slot is a live object or a free-list link, as in the union |
| `FastOrderBook` | `fast::OrderBook` | pointers are slot numbers; `PushBack`, `Unlink`, `Acquire`, `Release` written out |
| `BoundedFifo` | the promise of a bounded queue | abstract specification |
| `SpscQueue` | `SpscQueue<T>` | one action per access to shared memory |
| `AsyncWorker` | `AsyncJournalWriter`, `MarketDataPublisher` | the queue composed with producer, worker and `Stop` |
| `NaiveQueries` | the members of `naive::OrderBook` that read a book, and `RestoreOrder` | on the states of `NaiveOrderBook` |
| `EngineCommands` | `MatchingEngine::Process` | as a function of engine and command, by kind of command; books answer as `PriceTime` says |
| `MatchingEngine` | `MatchingEngine` | the state machine of one engine |
| `EngineObserver` | a subscriber and a client that only see events | what the event stream must be sufficient for |
| `Partitions` | `PartitionedEngine`, `SymbolRouter` | as functions of the partitions and their routes |
| `Snapshot` | `WriteSnapshot`, `LoadSnapshot` | a file is the sequence of values written; the loader takes them one at a time |
| `PartitionedEngine` | `PartitionedEngine` restarted from snapshots | runs beside one engine that owns every symbol |
| `Framing`, `FrameDecoder` | `frame_decoder.hpp` | on bytes; `FramesOf` is the reference |
| `Codec`, `Protocol` | `binary_codec.hpp`, `protocol.cpp`, the order records of `snapshot.cpp` | layouts of encoder and decoder written down separately |
| `Wire` | a connection from encoder to decoder | composes `Protocol`, `Framing` and `FrameDecoder`: values are encoded, framed, cut by `recv`, put together and decoded |
| `JournalFile` | `JournalWriter`, `ReadJournal` | files of bytes with crashes and power loss |
| `Recovery` | checkpoint and recovery as the recovery test does them and `docs/recovery.md` describes them | composes `Snapshot`, `Partitions` and journal files |
| `GatewaySession` | `GatewaySession` | peer, reader, writer and engine-driving thread |
| `GatewayServer` | `gateway_server`, `TcpGateway` | accept thread, main loop, workers, signal, shutdown |
| `SpscQueueProofs`, `FrameDecoderProofs`, `GatewaySessionProofs`, `GatewayServerProofs` | | TLAPS proofs about the modules they are named after |
| `MC...` | | instances for TLC: symmetry sets, views, sets of commands |

### Correspondence

*Order books.* `levels["Buy"]` and `levels["Sell"]` are `bids_` and `asks_`. In
the naive model `node` holds the `Order` of every live list node, named by its
id, and a level holds the list as a sequence of ids; `index` is `index_`. A call
that reaches `Match` is in progress while `pc` is not `"idle"`: `"level"` is the
head of the outer loop, `"order"` the head of the inner one, `"rest"` the code
after the call of `Match`; `op` holds arguments and locals (`remaining`,
`level_it`, `order_it`). No other call starts in between, because a book belongs
to one thread. A call that is rejected before it matches is one step. Trader
ids, symbols and timestamps are copied by the code and never tested, and are
left out. A price `<= 0` is represented by 0. Quantities are `uint64`, so sums
are taken modulo `QuantityModulus`. `clock` counts the sequence numbers handed to calls that
match; the number of a rejected call leaves no trace in a book.

*Fast book.* `pool.slots[i]` is either a `Node` or `[next_free |-> j]`. `op.node`
is the pointer of the inner loop; `NextNode` is the read of `node->next` that
happens before the slot may be released.

*SPSC queue.* `TryPush` is `PushBegin` (relaxed load of the own cursor and the
test on the cached one), `PushLoad` (acquire load), `PushWrite` (slot),
`PushStore` (release store); `TryPop` likewise. An acquire load returns any
value between the one this thread saw last and the latest (`MayLoad`): this is
what coherence and acquire/release allow for a cursor that only moves forward.
Cursors wrap at `CursorModulus`. A slot that was moved from holds `Empty`.

*Workers.* The producer calls `TryAppend` for numbered items and, at the end,
`Stop`. The load of `running_` may still return true after `Stop` stored false.
Once it returned false, the acquire/release pair makes all earlier pushes
visible, so the drain loads the exact `head_` (`HeadLoads`).

*Engine.* `engine.books` maps a registered symbol to the set of orders resting in its
book. Using `PriceTime` here instead of the stepped book is justified by
`ImplementsPriceTime` of `naive_book` (every call of the naive book has exactly the
outcome of `Added`, `Cancelled` or `Modified`). `events` is `out_events` of the last
command, without sequence number, timestamp and trader.

*Frames.* `buffer` and `read_offset` are the decoder's members. `caller` follows
the loop the header prescribes: `Feed`, then `TryExtractFrame` until it returns
false. `TryExtractFrame` is three actions, one per outcome, each with the
`Compact` that outcome calls. A byte is a number below `ByteModulus`.

*Messages.* A layout is a list of fields with their kinds. `WriteValue` and
`ReadValue` do what the writer and reader do to bytes, the cast of a signed price
included. `U32Bytes` and `U64Bytes` are constants: the code's 4 and 8 would need
numbers TLC does not have, and no step depends on the width being that large.

*Snapshot.* The file is the sequence of values written, and a cut between two of
them stands for a cut inside one, because every read checks first that its bytes
are there (`ShortIsRefused` for the order records). The books of a partition are
in an `unordered_map`, so they are written in any order. `RestoreOrder` puts an
order at the back of its level, while the engine's books rank a level by sequence
number; `fifo` of the loader says that every record came behind the older ones,
so that both orders are the same.

*Journal.* `Append` is `BeginAppend`, any number of `Write`s and `Return` with its
`Flush`. A process crash keeps what `write()` took, a power loss any part of what
`fsync` did not cover. `RotatingSpec` opens a new file after a torn one,
`ReopeningSpec` reopens the same path, as `gateway_server` does.

*Recovery.* A command is appended, then dispatched. A checkpoint writes the
snapshot (begin: the file is truncated, and what it held is gone; finish: it is
complete) and starts a new journal file; a crash or a power loss may strike
between any two of these. There is one snapshot path, as in `gateway_server`. A
recovery is that of the test: `LoadSnapshot`, which throws when the file is
missing or cut, and then the journal files created after the snapshot; it opens a
fresh journal, as a checkpoint does. A recovery that throws ends in `"failed"`.
This is the protocol of the library's own test. `gateway_server` writes the
files and never reads them: it starts with an empty engine.

*Session.* `reader` and `writer` are the program counters of the two loops;
`"blocked"` is inside `recv()`, `"sending"` and `"drainSending"` inside a `send()`
that waits because the peer does not read (`unread` has reached `SendBuffer`). How `recv` cuts the stream is left to
`FrameDecoder`, how the queues work inside to `SpscQueue`. `stop` is the progress
of `Stop`, called by the engine-driving thread. `peer` may close or reset at any
time. `CloseWakes` says whether `close()` ends another thread's `recv()` or `send()`
of the same descriptor. Linux leaves the call blocked; Darwin, the platform
`docs/performance.md` names, is taken to end it.

*Server.* A command is a pair of session and number, the engine the sequence of
commands dispatched to it. The main loop takes one step each for copying the
sessions, popping a command, appending, dispatching and publishing it. `accept` may
fail at any time (`AcceptFails`), which ends the accept loop and nothing else. A worker's
`Stop` returns when its queue is drained, which is what `async_worker` shows.
`overtaken` counts, for a session that waits, how often each other one was served.

## 3. Runs

| Run | Checks | Instance |
|-----|--------|----------|
| `naive_book` | `IInv`, `FillOrKillFills`, `RestoreReproduces`, `DepthShown`, `TradesAtBest`, `LoopProgress`, `ImplementsPriceTime` | 4 ids, prices 0..2, quantities {0, 1, 3} modulo 4, 4 matching calls; 153 thousand states |
| `naive_aggregate` | `ZeroMeansRemoved`, which is violated (section 7) | 2 ids, 1 price, quantities {1, 3} modulo 4 |
| `fast_book` | `QueuesLinked`, `PoolExact`, `CursorLive`, `TotalsAgree`, `ExhaustedTradesNothing`, `ImplementsPriceTime` | 4 ids, pool of 3, prices 0..2, quantities {1, 2} modulo 4, 4 matching calls; 190 thousand states |
| `async_worker` | `NoDataRace`, `ImplementsFifo`, `StopDrains`, `StopReturns`, `AcceptedIsHandled` | capacity 4, cursors modulo 8, 9 items; 24 thousand states |
| `engine_events` | `DepthIsExact`, `OpenOrdersAreExact` | 2 symbols, 3 ids, prices 0..2, quantities {1, 2} modulo 4, 4 commands; 80 thousand states |
| `wire` | `RoundTrip`, `ShortIsRefused`, `CutsDoNotMatter`, `UnreadIsTheRest`, `ErrorIsReal`, `BufferBounded` | bytes modulo 256, numbers of 2 and 3 bytes, frames of up to 32 bytes; 34 thousand states |
| `partitioned_engine` | `SameAsOneEngine`, `SnapshotAllOrNothing` | 2 partitions, 2 symbols with the same default, 3 ids, 3 commands; 14 thousand states |
| `recovery` | `EngineIsHistory`, `CheckpointSuffices` | 2 partitions, 2 symbols, 3 of 6 commands, 2 checkpoints, 2 crashes; 323 thousand states |
| `journal_file` | `AppendsSurvive` | 2 commands with bodies of 1 and 2 bytes, 3 appends, 2 writers; 22 thousand states |
| `journal_reopened` | `OnlyCorruptionThrows`, which is violated (section 7) | the same, with one path that is opened again |
| `gateway_session` | `CommandsInOrder`, `ReportsInOrder`, `CommandsArrive`, `StopReturns` | queues of 1 element, a connection that holds 1 report, 3 frames, 1 or 2 reports per command; 180 thousand states |
| `gateway_server` | `JournalInOrder`, `SessionsTakeTurns`, `ExitIsComplete`, `CommandsApplied`, `ShutdownCompletes` | 2 clients with 2 and 3 commands, queues of 1 element; 98 thousand states |

Why the bounds are enough.

- *Books.* Two prices per side give a crossing level, a non-crossing one and an
  iterator that moves past a level; with 0 the invalid price is tried too.
  Four ids allow a queue of three and an aggressor, so erasing at head, middle and
  tail happens. The quantities give partial, exact and multi-level fills and
  totals that wrap at modulus 4. A pool smaller
  than the number of ids runs empty and is refilled by fills, cancels and
  replaces.
- *Queue and worker.* A ring of capacity 4 with cursors modulo 8 is full, empty and
  wrapped in every combination, and nine items take each cursor past its wrap.
  `CursorModulus > Capacity + 1` is assumed, and true of 2^64.
- *Engine.* Four commands reach a modify that trades and what follows it, in one
  of two books that may share an order id.
- *Wire.* Every kind of message, each field at the edges of its width; every
  proper prefix of a message; frames of 0, 1, 2, the largest and one more than the largest
  size; every way of cutting the stream into chunks.
- *Files.* Two crashes strike an engine that was itself recovered; with two
  checkpoints the second one truncates a snapshot that was whole. Three commands
  queue, trade and change places on both sides of a checkpoint.
- *Session and server.* With one element the queues are full after the first
  push, and the writer waits in its second send. The second client sends one command more than `SessionsTakeTurns` lets
  pass.

Symmetry in order ids (and symbols) is used only in runs without liveness; the
modules compare them for equality only. The views of the book and engine runs
leave out what no action reads and the properties use only in its next value:
`events`, and of an idle book the last call with its trades and its result.
Deadlock is checked except in `wire`,
`journal_file`, `journal_reopened` and `recovery`, whose bounded inputs run out.
In `AsyncWorker`, `GatewaySession` and `GatewayServer` `Terminated` is the state
after `Stop` or `main` returned, or after the process was killed.

## 4. Fairness

- `AsyncWorker`: weak fairness of the engine thread's steps inside a call and of
  the worker's steps (both threads are scheduled), and strong fairness of loading
  the latest value of `running_` and of `head_`: the C++ standard asks that a
  store to an atomic becomes visible in finite time, so a thread that keeps
  loading does not see old values for ever. Nothing makes the producer call
  `TryAppend` or `Stop`.
- `GatewaySession`: weak fairness of the reader, the writer, the engine-driving
  thread and the rest of a `Stop` that was called. The peer need not send, read
  or leave, so a send may wait for ever, and `Stop` need not be called.
- `GatewayServer`: weak fairness of the accept thread, the main loop and the two
  workers. Clients need not send, the signal need not come, and a failure of
  `accept` is never forced (`AcceptFails` is not part of the fair steps).

In the last two, liveness rests on `CloseWakes = TRUE` as well (section 7). That
the matching loop ends is stated without fairness, as a measure that every
iteration makes smaller (`LoopProgress`).

## 5. Proofs

Seven modules hold proofs; all are for every value of the constants that the
named `ASSUME`s admit.

| Module | Theorem | States |
|--------|---------|--------|
| `NaiveOrderBookProofs` | `Invariance` | `[]IInv` |
| | `TypeCorrect`, `IndexAlwaysAgrees`, `NoEmptyLevelSurvives`, `NeverCrossed`, `AlwaysFifo`, `OnlyLiveOrdersRest`, `IteratorsStayValid` | the conjuncts of `IInv`, one by one |
| | `ReplaceNeverLosesTheOrder` | `[]ReplaceSucceeds` |
| | `PriceTimePriority` | the action property `TradesAtBest` |
| | `CallsTerminate` | the action property `LoopProgress` |
| `SpscQueueProofs` | `CursorsStayOrdered`, `NoSlotIsShared` | `[](QueueTypeOK /\ CursorsOrdered)`, `[]NoDataRace` |
| `FrameDecoderProofs` | `UnreadBytesKept`, `ErrorsAreReal`, `BufferIsBounded` | `[](TypeOK /\ UnreadIsTheRest)`, `[]ErrorIsReal`, `[]BufferBounded` |
| `GatewaySessionProofs` | `ReportsKeepOrder`, `DeadSessionsShow` | `[]ReportsInOrder`, `[]DeadSessionShows` |
| `GatewayServerProofs` | `TurnsAreTaken` | `[]SessionsTakeTurns` |

*Naive book.* Assumptions: 0 is not a client's id, `MaxPrice` is a natural number,
quantities lie below a positive modulus. No conjunct of `IInv` is inductive by
itself. That the book is not crossed after `Finish` needs that the loop ends
with something left only when no opposite level crosses; that needs that the
loop works on the best level (`CursorsValid`), which needs that a level left
behind was emptied and erased or the order was filled (`NoEmptyLevel`, and
`order_it = 1` while something is left). That a filled order can be erased from
its list, and only from its list, needs `IndexAgrees`; that an append keeps a
list in time order needs `CallInvariant` (everything in the book is older than
the call in progress). So `IInv` is the conjunction of the eight, and
`naive_book` checks it as well. `NaiveBookLemmas` has the facts about the
containers, `NaiveMatchProofs` one lemma per step of the loop, and
`NaiveOrderBookProofs` one per call. Termination then needs only the measure
`Work`: the quantity left, twice the levels at and behind the iterator, and one
for the test of the outer loop. A step of the inner loop fills at least one unit, and leaving
a level takes it out of the set ahead.

*Queue.* Assumptions: the capacity is positive and divides the modulus, and the
modulus exceeds it by more than one. The inductive invariant says that the producer's
cached tail, tail, the consumer's cached head and head lie in this order on the
circle, with at most one capacity between the first and the last, and that a thread in the middle of a call has
seen room (or an element) that the other one cannot take away. Two distinct
cursors less than a capacity apart use different slots, because the capacity
divides the modulus.

*Frame decoder.* Assumptions: a byte has more than one value, and the limit on a
frame fits in three bytes (as the code's 64 KiB does). The invariant is `TypeOK` with `UnreadIsTheRest`,
`ErrorIsReal` and `BufferBounded`. With the second the
decoder reads the same declared length in its buffer as a reader of the whole
stream would, whatever `Compact` moved, and the last two follow from the exits of
`TryExtractFrame`.

*Session.* `ReportsInOrder` is inductive together with `HandEmpty`: the writer has
no message in hand when it goes for the next. `DeadSessionShows` needs types only.

*Server.* Between two rounds of the main loop every session was overtaken at
most once by each other one; within a round, session t adds one when it is
passed, and what s brought from the round before is forgotten once s had its turn
(`Turns`). This needs that the copy never holds a session that was not handed
over and connected (`Accounted`) and that nobody overtakes a session that waits
for nothing (`NoneWaits`).

Only model-checked, and why:

- liveness (`StopReturns`, `AcceptedIsHandled`, `CommandsArrive`,
  `CommandsApplied`, `ShutdownCompletes`): out of the prover's reach;
- what sums over sets or folds over sequences compute (`TotalsAgree`,
  `DepthShown`, `FillOrKillFills`, `CutsDoNotMatter`, `RoundTrip`, replay and
  snapshots): these need induction over data;
- the refinements of `PriceTimeBook`, whose definitions are such sums, and of
  `BoundedFifo`;
- the pointers of the fast book, the events of the engine, the journal file.

## 6. Properties and the code behind them

- `IInv`: index, lists, levels and the iterators of the matching loop describe the
  same orders, the book is not crossed and every queue is in time order, after
  each iteration of the loop and each of the places that update them.
- `TradesAtBest`, `ImplementsPriceTime`: price-time priority, on one step and on
  whole calls. The second also says that a replace cannot lose its order, in the
  fast book not even with a full pool, because the slot it released is the one it
  takes.
- `LoopProgress`: the matching loop ends, whatever it erases under its iterators.
- `FillOrKillFills`: although the pre-check adds in a type that wraps, the sum is
  never more than what is there, so an admitted order is filled.
- `DepthShown`, `TotalsAgree`, `RestoreReproduces`: what the members that read a
  book report, and that `RestoreOrder` rebuilds the book that `AllRestingOrders`
  listed.
- `ExhaustedTradesNothing`: the branch at `fast/order_book.cpp:205` that reports
  trades together with `PoolExhausted` is never taken: an order that traded and
  has something left filled an order completely and released its slot.
- `QueuesLinked`, `PoolExact`, `CursorLive`: pointer surgery on reused slots.
- `NoDataRace`, `ImplementsFifo`, `StopDrains`, `StopReturns`,
  `AcceptedIsHandled`: the ring and the workers behind it.
- `DepthIsExact`, `OpenOrdersAreExact`: the event stream.
- `CutsDoNotMatter`, `UnreadIsTheRest`, `ErrorIsReal`, `BufferBounded`: frames do
  not depend on where `recv` cuts, and the buffer does not grow with the stream.
- `RoundTrip`, `ShortIsRefused`: encoder and decoder, which list fields
  separately, agree; a body that lost bytes is never taken for another message.
- `SameAsOneEngine`, `SnapshotAllOrNothing`: partitioning and restoring from a
  snapshot are invisible to clients; the records come in queue order, and a cut
  snapshot is refused.
- `EngineIsHistory`, `CheckpointSuffices`: a recovery gives the engine that
  applied each journaled command once, or throws; and after a checkpoint that was
  completed no crash of the process makes it throw, until the next checkpoint
  truncates the file.
  From that moment until it is written again there is no snapshot: a crash then
  leaves nothing that `LoadSnapshot` accepts (`SnapshotReplacedWhole` in `Recovery`
  does not hold; no document promises it).
- `AppendsSurvive`: an `Append` that returned is read back.
- `CommandsInOrder`, `CommandsArrive`, `ReportsInOrder`, `StopReturns`: back-pressure
  in a session loses, repeats and reorders nothing, a peer that does not read keeps
  no command from the engine, and nothing of this blocks `Stop`. What happens after
  a frame that does not decode, where code and documents disagree (section 7), is
  left out of `CommandsArrive`.
- `JournalInOrder`, `ExitIsComplete`, `SessionsTakeTurns`, `CommandsApplied`,
  `ShutdownCompletes`: what the server's journal and last snapshot hold, its
  fairness to clients, and its end.

Each property of each passing run has a mutant, an operator beside the
definition it mutates (commented as such), under which TLC reports that
property violated.

## 7. Where documents and code disagree

Two runs show a disagreement:

- `naive_aggregate`: `events.hpp:55-56` and `docs/protocol.md:55-56` say that a
  `BookUpdate` with aggregate quantity 0 means the level was removed. `AddOrder`
  does not bound a quantity from above and `InsertResting` adds into a `uint64`,
  so orders that sum to 2^64 leave a level in the book that reports 0.
- `journal_reopened`: `docs/recovery.md:58-62` says a corrupt record followed by
  more data "cannot be produced by a torn tail write". `JournalWriter` reopens
  its file with `O_APPEND` behind a torn record, as `gateway_server` does at every
  start, and `ReadJournal` then throws.

The models show more, which have no run of their own. Each is obtained
by the change named last.

- `docs/recovery.md:41-43` says that the implementation rotates the journal at a
  snapshot and that recovery replays only the journal files created after it.
  `gateway_server` writes its snapshot at the end and appends to the same journal
  in its next run. `ExitIsComplete` of `gateway_server` shows what it leaves: a
  snapshot and a journal that hold the same commands, so that loading the one
  and replaying the other applies them twice. With `RecoveredUnrotated` for
  `Recovered`, which replays such a journal, `EngineIsHistory` is violated.
- `docs/recovery.md:12` says that commands are written to the journal before they
  are applied. In `gateway_server` a worker writes them later. `WrittenAhead` as an
  invariant of `gateway_server` is violated.
- `protocol.hpp:25-27` says that the caller should treat a body that does not decode
  as a protocol violation, on which `docs/protocol.md:21-23` closes the connection.
  `gateway_session.cpp:42` drops the message and goes on. `MalformedEndsSession` as
  an invariant of `gateway_session` is violated.
- `tcp_gateway.hpp:42` takes a failed `accept` for "listener closed". Any failure
  ends the loop, and later connections are never accepted. `ConnectionsAccepted`
  as a property of `gateway_server` is violated.
- `gateway_session.cpp:17` says that closing the socket "unblocks a thread parked in
  recv()", `tcp_gateway.hpp:31` and `tcp_socket.hpp:56-57` say the same of
  `accept`. Linux does not end these calls, and the joins that follow wait.
  `CloseWakes = FALSE`: `StopReturns` is violated (a waiting `send()` is not ended
  either), and the server ends in a
  deadlock; with `CHECK_DEADLOCK FALSE` as well `ShutdownCompletes` is violated.
- `docs/protocol.md:21-23` says that the connection is closed on an oversized
  frame. The reader clears `alive_` and returns, and the socket stays open.
  `OversizedCloses` as a property of `gateway_session` is violated.
- `gateway_session.cpp:65` says "Drain remaining outbound messages before
  exiting". `Stop` has closed the socket by then, and what is drained is lost.
  `DrainSends` as an invariant of `gateway_session` is violated.
- `tcp_socket.hpp:35` says that `SendAll` returns false on error. A send after the
  peer reset the connection raises `SIGPIPE`, which nobody handles.
  `SendAllReturns` as an invariant of `gateway_session` is violated.
- `gateway_server.cpp:3-4` says that every command is journaled before it is
  applied. The result of `TryAppend` is ignored, and a command that finds the
  queue full is applied only. `EveryCommandJournaled` as an invariant of
  `gateway_server` is violated.

## 8. Not modelled

- `send_order`: argument parsing and printing around one send and a receive loop
  with a timeout; its frames and messages are those of `Wire`.
- Which thread drops the last `shared_ptr` of a session. In this repository only
  the destructor calls `GatewaySession::Stop`, and the threads' own `shared_ptr`s
  keep it from running while they are alive; if the last of them runs it, it joins
  its own thread. The model is about `Stop` as a public member that the
  engine-driving thread calls.
- The reuse of a closed descriptor's number by another connection while a thread
  still uses it.
- A failed `fsync`, whose result the code ignores, and a `WriteSnapshot` that throws
  in `gateway_server`, which ends the process (in `Recovery` it is a crash).
- A restart of `gateway_server` from its files: it never loads them.
- A second pin of a symbol, and one after it was routed, which the comment of
  `Pin` rules out.
- `Publish` before `Start`, and a second `Start`, of the market data publisher.
- Setting up sockets, logging, timestamps and trader ids, which are copied and
  never tested, and the benchmarks.
- Gaps in market data: `Publish` drops events when its queue is full, and no
  component detects or repairs that, so there is nothing to state about a
  subscriber who missed some.
