# A TLA+ model of the asio message system

The repository is a small messaging library over boost::asio: a client
(`MsgClient`, `BusStub`) and a server (`MsgServer`, `MsgBus`) exchange protobuf
messages over TCP, as requests with replies, as publications to subscribers, and
as requests delivered from one client to another. These modules model its core,
state what makes it correct, check that with TLC on small instances, and prove
part of it with TLAPS for every instance.

All paths below are relative to `src/asio/`.

## Inventory

| Component | State | Operations | Threads |
|---|---|---|---|
| `RequestMessage` (`internal/AsioClient.*`) | `cache_`: message id to request, with its callback and deadline timer | `put`, `startTimer`, `pick`, `onTimeout` | application, io, response |
| `AsioClient` | `pendingList_`, `isOnline_`, `addressIndex_`, socket, `tempBuf_`, heartbeat timer, `id_`, two io_services | `start`, `stop`, `postMessage`, `postOrderMessage`, `sendMessage`, `publishMessage`, and the handlers `doConnect`, `doRead`, `startWrite`, write completion, `doClose`, `doHeartbeat`, `doResponse` | application, io, response |
| `DeliverHandler`, `PublishHandler`, `BusStub` | handler maps, a `ThreadPool` | `onPackage`, `replyDeliver`, `publishMessage` | response, pool |
| `MsgClient` | none | forwards to `AsioClient` unless it has stopped | application |
| `ThreadPool` | `queue_`, `running_`, `threads_` | `start`, `run`, `take`, `threadFunc`, `stop` | callers, workers, stopper |
| `Session` | `writeDeque_`, `readBuffer_`, socket | `doRead`, `writeBuffer`, `doWrite`, `replyMessage`, `publishMessage` | io; posted to by all |
| `SessionRoom` | `sessionCache_`, `subscribeCache_`, `deliverCache_`, two mutexes | `join`, `leave`, `addSubscribe`, `delSubscribe`, `publishMessage`, `deliverPackage` | io, pool, application |
| `TaskManager` | `workers_`, `pool_`, `handler_` | `handleMessage` | io |
| `AsioServer`, `MsgServer` | acceptor, io_service | `startAccept`, `doSubscribe`, `doHeartbeat`, `publishMessage`, `stop` | io, pool, application |
| `MsgBus` | `msgSessionCache_`: message id to session | `preHandleMessage` | io |
| `ProtoHelp`, `Buffer` | read and write indices, the bytes | `encode`, `decode`, `gotoFlag`, `append`, `retrieve`, `makeSpace` | io |
| generated messages (`proto/pb_*.pb.*`, 14 classes) | members, unknown fields, cached sizes | accessors, `Clear`, `_InternalParse`, `_InternalSerialize`, `ByteSizeLong`, `MergeFrom`, `CopyFrom`, `InternalSwap` | any, one at a time |
| `tool/strutil`, `tool/util` | none | pure functions | any |

How they interact: an application thread makes a message, registers its callback
with `RequestMessage`, and posts `startWrite` to the io thread. The io thread
writes packages one after the other; the completion of a write starts the timer
of the request. On the server the io thread of all sessions decodes the message
and `TaskManager` gives it to a worker (ordered requests) or to the pool. The
thread that executes it posts the reply back to the io thread, which writes it.
The client's io thread reads the reply and posts it to the response thread, which
picks the request and runs its callback. A timeout runs the same callback from the
io thread. The bus is a server whose io thread passes what it does not know itself to
other sessions: a request to every session with a deliver handler of its type, the first
answer back to the session that asked, a publication to the sessions with a deliver
handler.

What is hard here: callbacks reached from two threads; asio operations that
complete after the socket they were started on has been closed and opened again;
a write list that outlives connections; message ids that wrap; locks that are
taken one after the other where one would have to cover both; condition variables
with several waiters; threads that stop while work is queued. `PROJECT.json` lists
each such place with its line and the properties that watch it.

What makes each part correct:

* requests: a callback runs at most once, with its own answer or a timeout, never
  for a call that reported an error, and does run;
* the write list: nothing is lost, duplicated or reordered, one write at a time,
  and it keeps moving;
* the connection: the client comes online, and its io thread never runs out of work;
* heartbeats go on while the client is online;
* the pool: tasks in order, once, within the limit; no lost wake-up; `stop`
  returns;
* the server: ordered requests are answered in order, every request is answered,
  subscribers that were confirmed receive what is published afterwards;
* the wire format: however the stream is cut into reads, the messages that come out
  are the ones that went in, once and in order, from a buffer that stays small;
* messages: what is parsed is what was serialised, in as many bytes as was announced, also
  by a peer with an older `.proto`; the functions of a class agree on its members;
* the bus: a caller is called back, with the answer to its own request, and one answer
  is routed for a request however many stubs answer.

## Modules

* `RpcContract`: what `postMessage` promises a caller, as a specification of two
  variables (which requests are registered, what each callback has reported).
* `RequestMessage`: the table. `startTimer` is two actions because it calls
  `async_wait` after releasing its lock; `pick` with the callback that follows is
  one, because the entry is erased under the lock and its caller then owns the
  request alone. `waits` counts the waits on the timer of a request, `due` the
  timeout handlers that are already queued and, being bound to the id, outlive it.
  Destroying a request aborts its waits (`WaitsKept`).
* `AsioClient`: the client as a whole. It contains `RequestMessage` (`RM`), the
  queue of the io thread (`ioQ`), the queue of the response thread (`respQ`), the
  socket with its outstanding operations, and the other end of the connection. A
  handler is one action (`RunX` is the handler `X`), except the write completion
  (`RunWrittenFind`, `RunWrittenRest`) and `doConnect` (`RunDoConnect`,
  `RunConnected`: application threads see `isOnline_` before the subscription is
  posted). `postMessage` is two actions, `put` and `postPackage`. Closing the
  socket queues all outstanding operations as aborted (`Aborted`); `async_connect`
  closes the socket before it connects it. Which of a broken connection's
  operations fails first, and whether `shutdown` throws, is left open. Of the bytes of the
  stream it keeps what the callbacks depend on: the messages that end in what a read
  returned (`tempBuf_`), whether the read ended within one (`half`), and whether bytes that
  do not belong together have met in `readBuffer_` (`mixedUp`). They meet when a connection
  is made while half a message of an earlier one lies there, and when a second read
  overwrites `tempBuf_` before the first is decoded. From then on the loop of `doRead`
  (`DecodeMixedUp`) may return packages nobody sent, with any header, skip messages, or wait
  with some unread (`readBuffer_`). Until then it hands on what has arrived (`DecodeInStep`).
* `ThreadPool`: `run`, `take`, `threadFunc` and `stop`, cut where a thread takes
  or leaves the mutex or waits on a condition variable. The read of `running_`
  in `threadFunc` is a data race: a worker may see the value it last saw under
  the mutex (`seen`).
* `Server`: `AsioServer`, `Session`, `SessionRoom` and `TaskManager` together. A
  topic stands for a message type with a type name. `leave` and `publishMessage`
  are cut between their two locks, a subscription at each of its topics.
* `Buffer`: `append`, `retrieve`, `peek`, `makeSpace` as operators on a record of the
  memory and the two indices (`kCheapPrepend` is 0).
* `Codec`: one direction of one connection: `encode` and the write (`Send`), the bytes on
  the way, `doRead` and one action per way a pass through `decode` can end. A byte is
  the pair of its frame and its position in it, so bytes of two connections can be told
  apart although the code cannot. `failed` and `misled` record that content did not
  parse, or that something was taken for a header that is none; in the second case the
  header can say anything, so decoding waits, skips or returns a package, as it likes.
  `msgbus` is the build: with `MSGBUS`, what does not begin with `ProtoBase` is handed on
  unparsed.
* `WireFormat`: the part of the protobuf runtime that the generated code calls, which is not
  in the repository: varints of 32 and 64 bits as sequences of base-128 digits (a negative
  int32 has ten), tags, strings with their UTF-8 check, packed lists, unknown fields and
  groups.
* `PbBase`, `PbSimple`: the fourteen generated classes. Each generated function is a table
  taken from its code: the members it constructs or clears (`XNew`, `XClear`), what its
  accessors can set (`XAccess`), which tag it parses into which member (`XParse`), what it
  writes and counts, in which order (`XSerialize`, `XByteSize`), how it merges a member
  (`XMerge`) and what it exchanges (`XSwap`). The tables are independent of each other, as
  the functions are, so that they can disagree.
* `ProtoMessage`: the life of a message over those classes: two messages are built by
  calls of accessors, `Swap`, `MergeFrom` and `CopyFrom`, `encode` serialises them, and
  `decode` parses the announced bytes, any other window of the bytes, or the announced bytes
  with a class an older `.proto` could have had.
* `MsgBus`: clients, stubs and the bus. `BusRead` is `preHandleMessage` for one package, with
  one case per message type (`HandleRequest`, `HandleAnswer`, `HandlePublication`,
  `HandleBase`); `Leave` and `DoSubscribe` are what the bus's `SessionRoom` and pool do.
  One message type is modelled. A session is a pair of FIFO channels, which is what
  `NothingLost` of `AsioClient` and `Server` shows of them. Here `deliverPackage` is one
  step: between its two locks only a subscription can come, and that changes nothing for
  the ids already read, since sessions leave on the same io thread. `IdInUse`, `reused`,
  `served`, `arrived` and `routed` are history for the properties.
* `Subsequence`: the subsequence of a queue at given positions, which is how `Server` says
  what one session, and `AsioClient` what one kind of handler, has in the shared queue of
  the io thread.
* `RequestMessageProofs`, `AsioClientProofs`, `ThreadPoolProofs`, `ServerProofs`,
  `MsgBusProofs`, `BufferProofs`, `CodecProofs`, `SubsequenceProofs`: the theorems.
* `MCRequestMessage`, `MCClient`, `MCThreadPool`, `MCServer`, `MCCodec`, `MCProtoMessage`,
  `MCMsgBus`: the modules TLC runs.

Operators such as `PickNoErase` that stand before the definition they resemble are
faulty variants of it (a dropped guard, a missing reset, a swapped order). No
specification uses them; `PROJECT.json` pairs them with the property that fails when
the variant takes the place of the definition, which shows that the property can fail.

Data is abstracted to what the properties tell apart: the n-th message a client
makes is the number n, with the id `++id_ % INT_MAX` gives it (`MsgId`, computed
with the width of the counter as a constant); a reply is the number of its request;
a package on the server is the request it answers. In `Server`, where a session has one
connection and one read at a time, a read delivers some number of whole messages; `Codec`
is about what justifies that, and about the bytes of one connection after another. In
`MsgBus` nothing is mixed up: a connection that is lost takes its half message along.

## Runs

| Run | Instance | Checks |
|---|---|---|
| `request_message` | 3 requests over 2 ids, at most 2 waits and handlers per id | `AtMostOnce`; `ArmedIsCalled` |
| `client_faults` | 3 messages (subscription, heartbeats, requests), 1 lost connection | `SingleWriter`, `HeartbeatAlive`, `NeverOutOfWork` |
| `client_faults_live` | 2 requests, 2 lost connections, each at any point of a message, 1 package found in mixed-up bytes at a time, 2 addresses with a server at the second, `stop` and a second `start` anywhere | `AnswerIsOwn`; refinement of `RpcContract`; `AttemptedIsCalled`, `AcceptedIsCalled`, `ComesOnline` |
| `client_bus_stub` | 2 messages (publications, heartbeats, subscription), 1 lost connection, 1 message pushed by the server and answered by the pool, `stop` and a second `start` anywhere | `NothingLost` |
| `client_id_wrap` | 3 requests whose counter passes INT_MAX (here 3), 1 lost connection, no reconnecting | `LostMeansStopped` |
| `thread_pool` | 2 workers, 2 callers, 3 tasks, a queue of 1 | `OnePlace`, `FIFO`; `QueuedIsExecuted`, `PlaceIsTaken`, `StopReturns` |
| `server` | 2 sessions of 2 messages (ordered requests, subscriptions), 2 workers, `stop` anywhere | `NothingLost`, `AnswersInOrder`; `RequestIsAnswered` |
| `server_room` | 2 sessions of 1 message (subscribing, unsubscribing, malformed, a request, an unknown type), 2 topics, 1 lost connection, 2 publications | `OneWrite`, `SubscribedStays`, `PublishReaches` |
| `codec` | 3 frames of 5 kinds of message (empty, compressed with a flag inside, unparsable, unknown, too long), reads of up to 5 bytes, 1 lost connection, both builds | `TailOfStream`, `Exact`, `NothingSkipped`, `OrderKept`, `BufferBound` |
| `proto_message` | 14 classes, 2 messages, 3 calls, values around the boundaries of varints and UTF-8, every window of the bytes | `ExactContent`, `ConcatIsMerge`, `StableContent`, `OldReaderKeepsAll`; `SwapAndCopyExact` |
| `bus` | 2 callers, 2 stubs that both answer, 2 requests, 1 lost connection | `OwnAnswer`, `RoutedOnce` |
| `bus_live` | 1 caller, 2 stubs of which one answers with a `ProtoBase` message and publishes, 2 listeners, 1 lost connection | `OnlyDeliverersHear`; `ServedIsCalled` |

The bounds are constants: `MaxReq`, `MaxPushes`, `MaxFaults`, `MaxMixed`, `MaxWaits` of the client,
`MaxSessions`, `MaxSends`, `MaxFaults`, `MaxPublish` of the server, the set of tasks
of the pool, `MaxEdits` of the messages, `MaxReq`, `MaxPub` and `MaxFaults` of the bus. They are large enough for what can go wrong to happen: two requests share
an id while a third is answered; a package is queued behind one that fails; the aborted
handlers of one connection run on the next one; a second caller waits for a place a
first one takes; a session leaves while another subscribes and a third thread
publishes. `IntMax` stands for INT_MAX and `Drawn` for the messages made before the
modelled ones, so that the counter is near its end. `MaxWaits` is never reached by the
client: there it is larger than the number of writes. Past `MaxReq` a heartbeat posts
nothing more. A message is cut by at most one read. `MaxMixed` is 1 in `client_faults_live`,
which is about answers, and 0 in the other runs of the client, which are not: there
mixed-up bytes still skip, hold back and repeat messages. In `codec` the lengths are scaled down: a header of 3 can be cut
behind its flag, a read of 5 can bring the end of an unparsable frame and a whole frame
behind it, and memory of 4 has to grow and to be used again. In `proto_message` the numbers
are those around which the encoding changes its length, and negative ones; the strings
include one that is not UTF-8; the messages may hold a field nobody knows. In `bus` callers
and stubs are alike among themselves, which `SYMMETRY` uses (the properties are
invariants): with two requests both callers draw the same id, one of them can come
before, between or after the two answers to the other, and a caller or stub can come back
as a new session while the bus still remembers the old one.

The type invariants of `RequestMessage`, `AsioClient`, `ThreadPool`, `Server`, `MsgBus` and
`Codec`, `QueueBound` and `NotForgotten` are proved (see below) and therefore not repeated
as runs.

Deadlock is not checked: with all bounded work done a client, server or pool
rightly waits for ever.

### What the runs show beyond the properties

Some properties carry a condition because the code does less than one would wish.
These are results of the model, reproduced with TLC while the properties were
written:

* After a failed write `pendingList_` keeps its packages and `startWrite` takes them
  for being written, so the client is online again and never writes anything
  (`internal/AsioClient.cpp:319`). Hence `~writeFailed` in `SingleWriter` and
  `writeFailed` in `AcceptedIsCalled`; `AttemptedIsCalled` has no such condition:
  the timer of the request whose write failed is started all the same.
* The read that `doClose` aborts reports an error, which posts another `doClose`.
  Such chains can close each other's connections for ever, so that a client which
  has lost a connection need not come back for good. Hence `ComesOnline` speaks of the first connection.
* After a reconnect two reads can be outstanding on one `tempBuf_`, and the second may
  overwrite what the first has read before it is decoded: answers can be read twice or be
  lost, and bytes are mixed up.
* The client keeps half a frame in `readBuffer_` when it reconnects
  (`internal/AsioClient.cpp:283`, nothing clears it in 327-343 or 175-209), so the bytes of
  the next connection complete it. What `decode` makes of them can carry the header of any
  request, also of one whose call reported an error, and content that answers nothing. Hence
  `mixedUp` in `AnswerIsOwn`, which says that this is all that can go wrong: no answer to
  one request reaches the callback of another. Hence also `Reported`: `RpcContract` is
  implemented by the answers and timeouts that callbacks are given.
* When ids wrap, the completion of one write can start the timer of another request
  that has the same id, before that one has been accepted. A callback still runs at most
  once and `AnswerIsOwn` holds; the contract that nothing is called before it is accepted
  does not.
* A caller that waits for a place in the queue of a pool and is notified can be overtaken
  by another one before it has the mutex, and must wait again, as often as others come
  (`internal/ThreadPool.h:63`). `PlaceIsTaken` says that no place stays free while callers
  wait, and nothing of whose turn it is.
* `stop` wakes none of the callers blocked in `sendMessage`, and a later `start`
  runs nothing, because `io_` is never reset. The liveness properties exclude a stopped client.
* `decode` that meets unparsable content returns nothing and `doRead` leaves its loop
  (`internal/ProtoHelp.cpp:210`, `internal/AsioClient.cpp:287`): complete messages
  behind it wait for the next read, and since one read then drops one bad frame only,
  `readBuffer_` may grow. Hence `Unparsable` in `Exact` and `failed` in `BufferBound`.
* In `Codec`, where the bytes after a lost connection are followed one by one: one message
  can be returned that nobody sent, or decoding waits for bytes that will not come. Hence
  `losses` in `Exact`.
* Content of a message that is skipped is searched for a flag, so content with the two
  flag bytes misleads `decode` (`Misleading`); inside a known message the flag is harmless.
* `pacSize` is compared as a `size_t` before its sign is looked at, so a negative one
  waits for ever and the check that follows (`internal/ProtoHelp.cpp:153`) only ever sees
  lengths of frames that have arrived in full.
* The bus knows a request by its id alone, and all clients count from 1. A request whose id
  is in use at the bus, because an earlier one of that id waits for its answer or because a
  second stub has yet to answer it, can be given the answer to the other request, or none
  (`msgbus.cpp:45`, `msgbus.cpp:53`). `OwnAnswer` says that this is the only way to a wrong
  answer.
* Publications go to the sessions with a deliver handler of the type (`msgbus.cpp:68`). A stub
  that only called `addHandlePublish` is subscribed and confirmed, and hears nothing;
  `OnlyDeliverersHear` records that.
* A stub that answers with a message of `ProtoBase`, such as `CommonRsp`, is not heard: the
  bus parses the answer itself and `preHandleMessage` returns (`msgbus.cpp:34`). Hence
  `served` leaves such stubs out.
* Nothing but an answer removes an entry of `msgSessionCache_`.
* A string that is not UTF-8 is serialised and refused by the receiver (`ExactContent`).

## Fairness

* Client: the io and the response thread run what is queued, asynchronous operations
  complete, deadlines pass (weak fairness of each). A timeout handler waits in the same
  FIFO queue as the others while the model takes it in any order, so it gets strong
  fairness: it has its turn even if handlers keep coming. Nothing is assumed of the
  application, the server, or the heartbeat timer.
* Pool: each worker, and each caller inside `run`, goes on when it can; tasks
  return. No assumption on spurious wake-ups, nor that anyone submits or stops.
* Server: io thread, workers and pool run what they have, operations complete. Nobody
  has to connect, send or publish.
* Bus: its io thread reads what has arrived, its pool executes subscriptions, and the
  response thread and the pool of every client go on. Nobody has to connect, call, answer
  in time or lose a connection; a timeout may come at any moment and is not assumed to.

## Proofs

For any sets of requests, ids and replies (assuming only that the null pointer, the
missing id and the timeout result are none of them), `RequestMessageProofs` proves
`TypeCorrect`, `CallbackAtMostOnce`, `RequestNotForgotten` and, as a refinement,
`TableImplementsContract`. `AtMostOnce` is not inductive: nothing in it
keeps a request that was called from being picked again. The invariant `IInv` adds that
an entry of the cache lies under its own id and has not been called
(`CacheIsPending`), that timers and calls exist for registered requests only
(`OnlyAfterPut`), and that a queued timeout handler stems from an expired request of its
id (`DueIsExpired`, which the contract of the client needs). The step is `NextIInv`, with lemmas
for `put` and for `pick`, which every callback goes through.

Liveness is beyond the prover, but what stands behind it is not. Each liveness property
rests on a safety fact: that whatever it waits for is under way, so that the fair steps have
something to do. These *safety cores* are proved for every component:

| Liveness property | Theorems behind it |
|---|---|
| `ArmedIsCalled` | `DeadlineIsHandled`, `TimerNeverSilent` |
| `AttemptedIsCalled`, `AcceptedIsCalled` | `AttemptedIsTimedHolds`, `NeverWaitsForNothing`, with `SingleWriterHolds` |
| `ComesOnline`, `LostMeansStopped` | `NeverOutOfWorkHolds` |
| `QueuedIsExecuted`, `PlaceIsTaken`, `StopReturns` | `WakeupsSuffice`, `PoolNeverStandsStill` |
| `RequestIsAnswered` | `NoRequestIsDropped`, `SessionsNeverStall` |
| `ServedIsCalled` | `NeverForgotten` |

For the table, `DueInv` says that only requests that were put expire, and that an expired
request that is not called and keeps its id has a timeout handler queued. The case to argue is
a callback that takes away the last handler of an id: the request of that id is then the one
that is called (`PickDueInv`).

For any numbers of messages, faults, pushed messages and addresses, with and without
reconnecting, heartbeats and handlers, `AsioClientProofs` proves the type invariant, the
five safety invariants of the client and two refinements. Its invariants come in layers,
each of which rests on those before it:

* `TypeInv`: types, and `IInv` of the table. That the client uses the table by the table's
  own steps only is `UsesTable`, so every theorem of
  `RequestMessageProofs` holds of the client: `CalledOnceHolds` follows.
* `CoreInv` adds `SingleWriter`, which is inductive once the types are there: every action
  changes the handlers of a write in one of few ways (`Writer`).
* `NothingLost` then is kept by every action, as only the completion of the one write
  removes the front of the list.
* `MadeInv` says that answers, wherever they are, are answers to messages that were put
  into the table under their own id. It rests on the two before it: what the peer answers
  was written, and what was written was accepted. Mixed-up bytes do not disturb it, because
  what they add answers nobody; that they are the only source of such packages is
  `GenuineInv`. `AnswerIsOwnHolds` follows from both.
* `KeepsAtIt` is what makes `NeverOutOfWork` true: a client that reconnects always has a
  read or connect outstanding or a queued handler that starts one. `NeverOutOfWork` alone
  (some work, of any kind) is not inductive.
* `HeartbeatAlive` is inductive given `CoreInv`: the heartbeat is on the timer, queued, in
  the list, or in the table waiting for its answer or its deadline.
* `AcceptedInv` says that only accepted messages are written, timed, answered and called
  with an answer or a timeout.
  It needs `PlainClient` (different ids, no answers to delivered requests): otherwise a
  written package can start the timer of a message whose call reported an error, which is
  the behaviour described under "What the runs show". Under that hypothesis, which the run
  `client_faults_live` meets, `ContractHolds` shows that the client implements `RpcContract`.
* `UnderWayInv` is the layer of the safety cores: a request whose write was attempted is
  timed until it is called (`AttemptedIsTimed`). It is inductive with three facts: the request
  between the two halves of `startTimer` has the id of the package whose completion is being
  handled (`ArmedAtHead`); a failed package stays at the front and nothing is written after it
  (`FailedIsFinal`); and `DueInv` of the table, which carries over to the client. What
  `sendMessage` blocks on is then timed, or its package is queued or in the list
  (`NeverWaitsForNothing`), and the list moves by `SingleWriter`. These facts except requests
  whose id was given away meanwhile: the table forgets them, as under "What the runs show".

For any finite numbers of workers, callers and tasks and any limit, `ThreadPoolProofs` proves
`PoolTypeCorrect`, `TasksInOrder` and `LimitIsKept` from the invariant `PoolInv`. What
it adds is `HasTask`: a caller inside `run` has a task, and so has a worker about to
execute, which keeps the empty task out of the queue. `TaskInOnePlace` follows from
`PlaceInv`, which says of the sets of places of a task what `OnePlace` says of their sizes:
at most one of queue, worker, caller and done, at most once each; a task nobody submitted
is nowhere, and callers outside `run` and workers that do not execute hold none.

`WakeupsSuffice` is proved from `WakeInv` by counting: while a worker waits on `notEmpty_`,
there are at least as many workers inside `take` as queued tasks, and while a caller waits on
`notFull_`, at least as many callers inside `run` as free places. Weaker forms (some worker is
awake while the queue is not empty) are not inductive with several waiters: two tasks could be
left to one awakened worker, and whether the next `notify_one` comes depends on it. `LifeInv`
adds that the pool runs between `start` and `stop` and loses no worker in between. The counts
need `Workers` and `Callers` to be finite, which `PoolAssumption` says; a program starts
finitely many threads.

For any numbers of sessions, messages, topics, workers, publications and lost connections,
`ServerProofs` proves the type invariant and the five safety invariants of the server.
`ServerInv` has four parts:

* `WriteInv`: for each session at most one write is outstanding, as an operation or a
  queued handler, exactly one while there is something to write and no write has failed,
  and a write fails on a lost connection only.
* `RoomInv`: who is in the room, in a topic or owed a publication was connected
  (`RoomKnown`); the session of an unsubscription under way is revoked (`UnsubRevokes`);
  the loop of a subscription has recorded the topics behind it (`LoopDone`); between its
  two locks `publishMessage` holds every session it owes (`IdsHeld`).
* `OrderInv`: a session has one read (`OneRead`), and its requests pass through the inbox,
  the read, the worker and the queue in the order they were sent, each in one of these
  places (`ReadInOrder`, `PoolOnce`, `WorkerInOrder`); a publication is posted to a session
  once. The answers are then in order because their requests were.
* `LostNothing`, for each session, about the subsequence of the io queue that is its own.

`ReadInv` adds that an open session has a read outstanding or queued (`OpenIsRead`), which
needs that reads fail on lost connections only (`FailedReadIsLost`). From it and `ServerInv`
follow `NoRequestIsDropped`, an action property: no step of any thread takes a request the
server can execute out of the chain of inbox, read, worker or pool, and answer, unless the
session's own connection is lost (`RequestsStay`); and `SessionsNeverStall`: an open
session is read, and one that has an answer to write is being written (`NothingStalls`, from
`LostNothing` and `WriteInv`).

For any clients, stubs, requests, publications and lost connections, `MsgBusProofs` proves
the type invariant and the three safety invariants of the bus from `BusInv`: a client
never draws an id twice, so that client and id identify a request (`RequestsKnown`); an
entry of `msgSessionCache_` names a session that asked with that id (`RouteOwned`), and
there is a request of that id not answered yet for it (`RouteCounted`, which gives
`RoutedOnce`); while the bus remembers a request whose id was free, all deliveries and
answers with the id are those of this request (`RouteExact`, `AnswersOwned`, which give
`OwnAnswer`); and publications are only where deliverers are (`PublishedToDeliverers`).

`NeverForgotten` is proved from `ServedInv`. A request that was delivered, is not called back
and is not `Spoiled` is in one of two stages (`ServedStage`): its answer is on the way to the
session that asked, or `msgSessionCache_` names that session and *every* stub that got it and
is still connected has the request or its answer. Every and not some: stubs come off one at
a time and `Spoiled` says only that one is left. `SessionInv` has what the steps need: a session
that is connected is in the room and the latest of its client, so that one that was lost never
comes back; a caller keeps a request in its table until it is called; and the id of a
subscription is none of the client's requests, so that the bus's own answer to a subscription
picks no request (`SubscriptionsOwned`). The step to look at is a second request with an id in
use: it takes the route of the first, which is then spoiled. Publications, subscriptions and
packages of ProtoBase are quiet steps (`QuietStep`).

`SubsequenceProofs` has what `Server` and `AsioClient` need of `Pick`: how the subsequence
of one receiver changes when the queue grows at its end and loses an element.

For any messages, any lengths of header, reads and initial memory, any cutting of the
stream and any number of lost connections, `CodecProofs` proves `CodecTypeCorrect`,
`BytesInOrder` (`TailOfStream`) and `MemoryBounded` (`BufferBound`). `BufferProofs` has
what they need of the buffer: `append` and `retrieve` keep `Holds`, that the readable bytes
are the last ones of what was read. The invariant `CodecInv` adds that all bytes stem
from frames that were sent (so that looking up the message of a byte makes sense), and
`LessThanFrame`: what is left when `doRead` reads again is less than a frame, which bounds
what `append` has to make room for. `LeastNat`, from the well-foundedness of the
numbers, shows that the search of `gotoFlag` ends.

The same module proves what `decode` makes of these bytes: `OrderIsKept` (`OrderKept`),
`NothingIsSkipped` (`NothingSkipped`) and `DecodesExactly` (`Exact`). The argument is about
`Stream`, all bytes that were read or are on the way and the first byte of the next frame,
and `Gone`, how many of them `readBuffer_` no longer holds; `decode` never changes the
former and only increases the latter.

* `OrderInv` holds over lost connections too. The bytes of the stream are in the order of the
  frames (`StreamOrdered`), and an intact frame that was handed on is good and lies before
  `Gone` (`PostedIsGone`), so the next one, which starts behind `Gone`, has a larger number.
  A lost connection leaves one place where a byte is followed by another than the next
  (`Breaks`). A complete frame that is not intact has such a place in it, and takes it out of
  the stream that is left: mixed messages and breaks together are not more than the losses
  (`LossesCounted`).
* On one connection the stream consists of whole frames (`WholeFrames`). As long as no
  message that is skipped looks like a header, `readBuffer_` starts with a frame or inside
  one that is skipped, every good frame that starts before `Gone` was handed on, and when
  `doRead` reads again no whole frame is left unless some content does not parse
  (`CleanInv`). The step of it: `gotoFlag` passes no first byte of a frame
  (`SkipsNoStart`), and the flag it stops at is the first byte of a frame (`FlagIsStart`),
  because a flag inside a good message is never reached and one that is skipped has none.

The invariants were checked with TLC on the instances of the runs before they were proved.

Only model-checked:

* the messages (`ExactContent`, `ConcatIsMerge`, `StableContent`, `OldReaderKeepsAll`,
  `SwapAndCopyExact`): `WireFormat` is recursive over bytes, which is beyond the prover;
* all liveness properties (`ArmedIsCalled`, `AttemptedIsCalled`, `AcceptedIsCalled`,
  `ComesOnline`, `LostMeansStopped`, `QueuedIsExecuted`, `PlaceIsTaken`, `StopReturns`,
  `RequestIsAnswered`, `ServedIsCalled`): the prover does not reason about fairness and
  `ENABLED`. That something is under way whenever they wait is proved, that the fair steps
  then lead to the end is checked.

## Not modelled

* In `MsgBus`: a package is bound to the session its client is on when it is posted, and the
  subscription of a new session goes first on it. In the code the package waits in io_'s
  queue or `pendingList_` and may be written on the next session, and other packages can
  go ahead of the subscription: both are in `AsioClient`, and what they add to the bus is a
  request that comes later, or from a stub not yet subscribed. Messages mixed up from two
  connections do not occur there.
* `PostMade` takes the tests of `io_.stopped()` and `isOnline_` and the `post` as one step
  of the application thread.
* In `Codec` once decoding is misled (`DecodeMisled`): that content may fail to parse or to
  uncompress with header and name already consumed, and that lengths out of range reach
  assertions or exceptions. No property says anything from there on.
* The handlers of aborted waits of a request: they return without effect, being given an
  error, and a request is only destroyed when it is no longer in the table.
* Byte order conversion, compression itself and failures of `encode`, which do not
  happen for the generated messages; the operations of `Buffer` nobody calls.
* The order in which a session's subscriptions and unsubscriptions take effect: the pool may
  execute them in any order, and no property depends on it. A subscription executed after
  its session left leaves an id in the caches; ids are not used again.
* Of the generated code: arenas, reflection and descriptors, `release_` and `set_allocated_`
  as far as ownership goes (the value they leave is that of the setters), and use of one
  message by two threads at a time.
* How MsgBus's heartbeats and subscriptions are answered is in `Server`; the bus run keeps
  only what they do to ids and caches.
* Exceptions of `resolve`; several endpoints behind one address.
* The race on `heartbeatTimer_` between the io and the response thread: each use of the
  timer is one step.
* `ThreadPool::start` runs before the pool is shared and is one step. `destory` of
  `TaskManager` is never called, nor are `setConnectSuccess` and `setMaxQueueSize`
  inside the repository; the queue limit is modelled all the same.
* `waitConnected`, which only polls `isOnline_`; the Qt code, the Connector window and the
  example server, which keep no state of the protocol.
* `strutil` and `util`: of all their functions the library calls `HasPrefixString`, whose
  outcome is in `Codec` and `MsgBus`, the clock, and `FromVector` for a log line. The others are pure string
  conversions that no component depends on.

## Plan

Done: `RpcContract`, `RequestMessage` and its proofs; `AsioClient`; `ThreadPool` and
its proofs; `Server`; `Buffer` and `Codec` and their proofs; `WireFormat`, `PbBase`,
`PbSimple` and `ProtoMessage`; `MsgBus`.

The safety invariants of all components but the messages are proved, and so are the safety
facts behind the liveness properties. What is left:

1. The messages: proofs about `WireFormat` need induction over bytes and a form of it without
   recursive operators.
2. The order of a session's subscriptions and unsubscriptions, which no property depends on.
