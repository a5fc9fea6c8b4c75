----------------------------- MODULE AsioClient -----------------------------
(***************************************************************************)
(* The client of the message system (class AsioClient), as MsgClient and   *)
(* BusStub use it, with the TCP connection and the server at its far end.  *)
(*                                                                         *)
(* Four kinds of threads act: application threads post messages and stop   *)
(* the client; the io thread runs the handlers queued on io_ one at a      *)
(* time; the response thread runs the ones queued on ioDoResponse_; the    *)
(* threads of DeliverHandler's pool answer delivered requests.  A handler  *)
(* is one action, except two: the completion of a write, whose             *)
(* startTimer() leaves a lock half way (see RequestMessage), and           *)
(* doConnect(), which lets other threads post before it subscribes.        *)
(*                                                                         *)
(* boost::asio is external: an asynchronous operation completes by putting *)
(* its handler on ioQ, and closing the socket completes all of them with   *)
(* operation_aborted.  The data of a message is the number of the request  *)
(* it is or answers: the n-th message the client makes is message n.       *)
(*                                                                         *)
(* Of the bytes of the stream only this is kept: which messages end in     *)
(* what a read returned, whether it ends within one, and whether bytes     *)
(* that do not belong together have met in readBuffer_.  What decode()     *)
(* makes of such bytes is nearly arbitrary here; Codec models it in detail.*)
(***************************************************************************)
EXTENDS Integers, Sequences, SequencesExt, Subsequence

CONSTANTS MaxReq,      \* bound: messages the client makes
          MaxPushes,   \* bound: messages the server sends unasked
          MaxFaults,   \* bound: connections that are lost
          MaxMixed,    \* bound: packages one doRead() finds in mixed-up bytes
          MaxWaits,    \* bound of RequestMessage, never reached here
          AppKinds,    \* what the application posts: subset of {"req", "pub"}
          Subscribes,  \* whether handlerList_ is non-empty
          Delivers,    \* whether a DeliverHandler is among the handlers
          Heartbeats,  \* heartbeatSeconds_ > 0
          Reconnects,  \* reconnectSeconds_ > 0
          Addresses,   \* addressList_.size()
          Reachable,   \* the addresses a server listens at
          IntMax,      \* INT_MAX
          Drawn,       \* the messages the client had made before Init
          CanStop,     \* whether the application may call stop()
          eTimeout, NoData, NoId

ASSUME ClientAssumption ==
    /\ {MaxReq, MaxPushes, MaxFaults, MaxMixed, MaxWaits, Drawn} \subseteq Nat
    /\ AppKinds \subseteq {"req", "pub"}
    /\ {Subscribes, Delivers, Heartbeats, Reconnects, CanStop} \subseteq BOOLEAN
    /\ Delivers => Subscribes
    /\ Addresses \in Nat \ {0} /\ Reachable \subseteq 0..(Addresses - 1)
    /\ IntMax \in Nat \ {0}

VARIABLES kind,          \* what each message made so far is, in id_ order
          code,          \* per message, what postPackage() returned
          posted,        \* the packages accepted by postPackage(), in order
          wire,          \* the packages whose write succeeded, in order
          writeFailed,   \* whether a write has failed
          cache_, idOf, arming, waits, expired, due, calls,  \* requestMessage_
          pendingList_,
          isOnline_,
          addressIndex_,
          sock,          \* state of socket_
          reads, writes, \* outstanding async_read_some and async_write
          tempBuf_,      \* the messages that end in what tempBuf_ holds
          readBuffer_,   \* messages kept back in readBuffer_
          half,          \* whether the bytes last read end within a message
          mixedUp,       \* whether bytes of two connections, or of two reads
                         \* in one tempBuf_, have met in readBuffer_
          heartbeatWait, \* whether heartbeatTimer_ has a wait outstanding
          ioQ,           \* handlers queued on io_
          respQ,         \* messages queued on ioDoResponse_ for doResponse()
          tasks,         \* delivered requests in DeliverHandler's pool
          life,          \* how far start() and stop() have come
          ioStopped,     \* io_.stopped()
          respStopped,   \* ioDoResponse_.stopped()
          peer,          \* requests the server has and did not answer
          inbound,       \* messages on their way from the server
          pushes, faults \* messages pushed and connections lost so far

tableVars == <<cache_, idOf, arming, waits, expired, due, calls>>
msgVars   == <<kind, code, posted>>
writeVars == <<pendingList_, writes, wire, writeFailed>>
streamVars == <<tempBuf_, readBuffer_, half, mixedUp>>
readVars  == <<reads, streamVars>>
connVars  == <<isOnline_, addressIndex_, sock>>
lifeVars  == <<life, ioStopped, respStopped>>
netVars   == <<peer, inbound, pushes, faults>>

vars == <<tableVars, msgVars, writeVars, readVars, connVars, lifeVars, netVars,
          heartbeatWait, ioQ, respQ, tasks>>

-----------------------------------------------------------------------------
(* ++id_ for the n-th message: a 32-bit int that wraps to INT_MIN. *)
Counter(n) ==
    LET size == 2 * (IntMax + 1)
        m == (Drawn + n) % size
    IN  IF m > IntMax THEN m - size ELSE m

(* ++id_ % INT_MAX, with the sign of the dividend as in C++. *)
MsgId(n) ==
    IF Counter(n) >= 0 THEN Counter(n) % IntMax ELSE -((-Counter(n)) % IntMax)

Msgs == 1..MaxReq
Rsps == 0..MaxReq   \* what a callback may be given: 0 is nobody's answer
Ids == {MsgId(n) : n \in Msgs}

ASSUME TableAssumption ==
    /\ NoData \notin Msgs /\ eTimeout \notin Rsps
    /\ NoId \notin Ids

RM == INSTANCE RequestMessage WITH Data <- Msgs

(* A package to be written: message n, or (n = 0) the answer to a          *)
(* delivered request, which carries the header of that request.            *)
Package(n) == [n |-> n, id |-> MsgId(n)]
DeliverAnswer(id) == [n |-> 0, id |-> id]
Packages == {Package(n) : n \in Msgs} \cup {DeliverAnswer(id) : id \in Ids}

(* A message from the server: the answer to request n, or a pushed one;    *)
(* and what decode() may return of mixed-up bytes, whose header can say    *)
(* anything and whose content is nobody's answer.                          *)
Answer(n) == [type |-> "REQREP", n |-> n, id |-> MsgId(n)]
Push(t, id) == [type |-> t, n |-> 0, id |-> id]
Pushes == {Push(t, id) : t \in {"DELIVER", "PUBSUB"}, id \in Ids}
Mixed == Pushes \cup {Push("REQREP", id) : id \in Ids}
Inputs == {Answer(n) : n \in Msgs} \cup Mixed

(* The handlers io_ runs. *)
StartWrite(p)      == [h |-> "startWrite", p |-> p]
Written(p, ok)     == [h |-> "written", p |-> p, ok |-> ok]
DoRead(ok)         == [h |-> "doRead", ok |-> ok]
DoConnect(ok)      == [h |-> "doConnect", ok |-> ok]
Connected          == [h |-> "connected"]   \* doConnect() after isOnline_ is set
DoClose            == [h |-> "doClose"]
DoHeartbeat        == [h |-> "doHeartbeat"]

Handlers ==
    [h : {"startWrite"}, p : Packages] \cup [h : {"written"}, p : Packages, ok : BOOLEAN]
    \cup [h : {"doRead", "doConnect"}, ok : BOOLEAN]
    \cup [h : {"connected", "doClose", "doHeartbeat"}]

Kinds == {"req", "pub", "sub", "heartbeat"}
Codes == {"none", "eSuccess", "eDisconnect", "eServiceStopped"}

TypeOK ==
    /\ kind \in Seq(Kinds) /\ Len(kind) <= MaxReq
    /\ code \in [Msgs -> Codes]
    /\ posted \in Seq(Packages) /\ wire \in Seq(Packages)
    /\ RM!TypeOK
    /\ pendingList_ \in Seq(Packages) /\ writes \in Seq(Packages)
    /\ writeFailed \in BOOLEAN
    /\ isOnline_ \in BOOLEAN /\ addressIndex_ \in 0..(Addresses - 1)
    /\ sock \in {"closed", "connecting", "connected", "broken"}
    /\ reads \in Nat /\ tempBuf_ \in Seq(Inputs) /\ readBuffer_ \in Seq(Inputs)
    /\ half \in BOOLEAN /\ mixedUp \in BOOLEAN
    /\ heartbeatWait \in BOOLEAN
    /\ ioQ \in Seq(Handlers) /\ respQ \in Seq(Inputs)
    /\ tasks \in Seq(Inputs)
    /\ life \in {"new", "running", "stopping", "joined", "restarted"}
    /\ ioStopped \in BOOLEAN /\ respStopped \in BOOLEAN
    /\ peer \subseteq Msgs /\ inbound \in Seq(Inputs)
    /\ pushes \in 0..MaxPushes /\ faults \in 0..MaxFaults

Init ==
    /\ kind = <<>> /\ code = [n \in Msgs |-> "none"]
    /\ posted = <<>> /\ wire = <<>> /\ writeFailed = FALSE
    /\ RM!Init
    /\ pendingList_ = <<>> /\ writes = <<>>
    /\ isOnline_ = FALSE /\ addressIndex_ = 0 /\ sock = "closed"
    /\ reads = 0 /\ tempBuf_ = <<>> /\ readBuffer_ = <<>>
    /\ half = FALSE /\ mixedUp = FALSE
    /\ heartbeatWait = FALSE
    /\ ioQ = <<>> /\ respQ = <<>> /\ tasks = <<>>
    /\ life = "new" /\ ioStopped = FALSE /\ respStopped = FALSE
    /\ peer = {} /\ inbound = <<>> /\ pushes = 0 /\ faults = 0

-----------------------------------------------------------------------------
(***************************************************************************)
(* What the handlers are made of.  q is the rest of the io queue.          *)
(***************************************************************************)

(* Handler h is at the head of the queue. *)
AtHead(h) == ioQ # <<>> /\ Head(ioQ).h = h

(* The io thread is in the middle of a handler.  A stop() lets it finish.  *)
InHandler == arming # NoData \/ AtHead("connected")

(* The io thread is free to run the handler at the head of the queue. *)
Runs(h) == life # "new" /\ ~ioStopped /\ ~InHandler /\ AtHead(h)

(* The handlers of the outstanding operations, completed with              *)
(* operation_aborted because the socket is closed.                         *)
Aborted ==
    [i \in 1..reads |-> DoRead(FALSE)]
    \o (IF sock = "connecting" THEN <<DoConnect(FALSE)>> ELSE <<>>)
    \o [i \in 1..Len(writes) |-> Written(writes[i], FALSE)]

(* Every attempt goes to the first address. *)
NextAddressFirst(i) == 0

(* connect() starts again at the front of addressList_. *)
NextAddress(i) == IF i >= Addresses THEN 0 ELSE i

(* connect(): async_connect closes socket_ before it connects it.  Nothing *)
(* clears readBuffer_.                                                     *)
Connect(index, q) ==
    /\ addressIndex_' = NextAddress(index)
    /\ sock' = "connecting"
    /\ reads' = 0 /\ writes' = <<>>
    /\ ioQ' = q \o Aborted
    /\ peer' = {} /\ inbound' = <<>>

(* startRead(): a read on a closed socket fails at once. *)
StartRead(q) ==
    IF sock = "closed"
    THEN ioQ' = Append(q, DoRead(FALSE)) /\ UNCHANGED reads
    ELSE ioQ' = q /\ reads' = reads + 1

(* doRead() that reads on after an error. *)
ReadErrorIgnored(q) == StartRead(q)

(* doRead(), after an error: close(). *)
ReadError(q) == ioQ' = Append(q, DoClose) /\ UNCHANGED reads

(* startWrite(): write the package at the front of the list. *)
WriteFront(list, q) ==
    IF sock = "closed"
    THEN ioQ' = Append(q, Written(Head(list), FALSE)) /\ UNCHANGED writes
    ELSE ioQ' = q /\ writes' = Append(writes, Head(list))

(* The completion of a write that does not go on with the list. *)
WriteNextForgotten(list, q) == ioQ' = q /\ UNCHANGED writes

(* The completion of a write: go on while packages are left. *)
WriteNext(list, q) ==
    IF list # <<>> THEN WriteFront(list, q) ELSE ioQ' = q /\ UNCHANGED writes

(* pendingList_.push_front(), and the push_back() of startWrite(pac). *)
EnqueueFirst(list, p) == <<p>> \o list
Enqueue(list, p) == Append(list, p)

(* startTimer() called only when the write succeeded. *)
TimerAfterSuccess(p, ok) ==
    \/ arming # NoData /\ ok /\ RM!StartTimerWait
    \/ arming # NoData /\ ~ok /\ arming' = NoData
       /\ UNCHANGED <<cache_, idOf, waits, expired, due, calls>>
    \/ arming = NoData /\ ~ioStopped /\ cache_[p.id] = NoData /\ UNCHANGED tableVars

(* startTimer() after its lock: async_wait if a request was found, also    *)
(* when io_ was stopped in the meantime.                                   *)
TimerRest(p, ok) ==
    \/ arming # NoData /\ RM!StartTimerWait
    \/ arming = NoData /\ ~ioStopped /\ cache_[p.id] = NoData /\ UNCHANGED tableVars

(* What postPackage() answers. *)
PackageCode(online) ==
    IF ioStopped THEN "eServiceStopped"
    ELSE IF ~online THEN "eDisconnect"
    ELSE "eSuccess"

(* postPackage() that posts startWrite() also when it answers an error. *)
PostPackageAnyway(p, online, q) ==
    ioQ' = Append(q, StartWrite(p)) /\ posted' = Append(posted, p)

(* postPackage(): post startWrite() unless stopped or offline. *)
PostPackage(p, online, q) ==
    IF PackageCode(online) = "eSuccess"
    THEN ioQ' = Append(q, StartWrite(p)) /\ posted' = Append(posted, p)
    ELSE ioQ' = q /\ UNCHANGED posted

(* postMessage() called by a handler; past MaxReq nothing is posted. *)
PostFromIo(k, online, q) ==
    IF Len(kind) = MaxReq
    THEN ioQ' = q /\ UNCHANGED <<msgVars, tableVars>>
    ELSE LET n == Len(kind) + 1
         IN  /\ kind' = Append(kind, k)
             /\ code' = [code EXCEPT ![n] = PackageCode(online)]
             /\ RM!Put(n, MsgId(n))
             /\ PostPackage(Package(n), online, q)

(* startSubscribe(): subscribe for all handlers, if there are any. *)
StartSubscribe(q) ==
    IF Subscribes
    THEN PostFromIo("sub", isOnline_, q)
    ELSE ioQ' = q /\ UNCHANGED <<msgVars, tableVars>>

(* startHeartbeatTimer(): a new timer replaces the one there was. *)
StartHeartbeatTimer == heartbeatWait' = (heartbeatWait \/ Heartbeats)

(* The callback of a heartbeat does nothing. *)
CallbackIdle(id) == UNCHANGED heartbeatWait

(* The callback of a heartbeat arms heartbeatTimer_ again; every other     *)
(* callback is the application's.                                          *)
Callback(id) ==
    heartbeatWait' = (\/ heartbeatWait
                      \/ cache_[id] # NoData /\ kind[cache_[id]] = "heartbeat")

-----------------------------------------------------------------------------
(***************************************************************************)
(* Application threads                                                     *)
(***************************************************************************)

(* start(): connect, then make the two threads.  After stop() both         *)
(* services are still stopped: the new threads return at once and nothing  *)
(* completes any more.                                                     *)
Start ==
    /\ \/ life = "new" /\ life' = "running"
       \/ life = "joined" /\ life' = "restarted"
    /\ Connect(addressIndex_, ioQ)
    /\ UNCHANGED <<tableVars, msgVars, pendingList_, wire, writeFailed, streamVars, isOnline_,
                   ioStopped, respStopped, pushes, faults, heartbeatWait, respQ, tasks>>

(* MsgClient posts nothing once the client has stopped. *)
MsgClientPosts == "req" \in AppKinds /\ ~ioStopped

(* postMessage() or postOrderMessage(), up to and including put(). *)
PostMessage ==
    /\ MsgClientPosts /\ Len(kind) < MaxReq
    /\ kind' = Append(kind, "req")
    /\ RM!Put(Len(kind) + 1, MsgId(Len(kind) + 1))
    /\ UNCHANGED <<code, posted, writeVars, readVars, connVars, lifeVars, netVars,
                   heartbeatWait, ioQ, respQ, tasks>>

(* publishMessage(): takes an id, but no entry in the table. *)
PublishMessage ==
    /\ "pub" \in AppKinds /\ Len(kind) < MaxReq
    /\ kind' = Append(kind, "pub")
    /\ UNCHANGED <<code, posted, tableVars, writeVars, readVars, connVars, lifeVars,
                   netVars, heartbeatWait, ioQ, respQ, tasks>>

(* postMessage() and publishMessage(), the call of postPackage(). *)
PostMade(n) ==
    /\ n <= Len(kind) /\ kind[n] \in {"req", "pub"} /\ code[n] = "none"
    /\ code' = [code EXCEPT ![n] = PackageCode(isOnline_)]
    /\ PostPackage(Package(n), isOnline_, ioQ)
    /\ UNCHANGED <<kind, tableVars, writeVars, readVars, connVars, lifeVars, netVars,
                   heartbeatWait, respQ, tasks>>

(* stop(), its first call: io_.stop(). *)
StopIo ==
    /\ CanStop /\ life = "running"
    /\ life' = "stopping" /\ ioStopped' = TRUE
    /\ UNCHANGED <<tableVars, msgVars, writeVars, readVars, connVars, respStopped,
                   netVars, heartbeatWait, ioQ, respQ, tasks>>

(* stop(), the rest: ioDoResponse_.stop(), close(), and the joins, which   *)
(* wait for the handler the io thread is in.                               *)
StopRest ==
    /\ life = "stopping" /\ ~InHandler
    /\ life' = "joined" /\ respStopped' = TRUE
    /\ ioQ' = Append(ioQ, DoClose)
    /\ UNCHANGED <<tableVars, msgVars, writeVars, readVars, connVars, ioStopped,
                   netVars, heartbeatWait, respQ, tasks>>

-----------------------------------------------------------------------------
(***************************************************************************)
(* Handlers of the io thread                                               *)
(***************************************************************************)

(* startWrite(pac) that starts a write whatever is in progress. *)
RunStartWriteAlways ==
    /\ Runs("startWrite")
    /\ pendingList_' = Append(pendingList_, Head(ioQ).p)
    /\ WriteFront(<<Head(ioQ).p>>, Tail(ioQ))
    /\ UNCHANGED <<wire, writeFailed, tableVars, msgVars, readVars, connVars, lifeVars, netVars,
                   heartbeatWait, respQ, tasks>>

(* startWrite(pac): queue the package; write it if the list was empty. *)
RunStartWrite ==
    /\ Runs("startWrite")
    /\ pendingList_' = Enqueue(pendingList_, Head(ioQ).p)
    /\ IF pendingList_ = <<>>
       THEN WriteFront(pendingList_', Tail(ioQ))
       ELSE ioQ' = Tail(ioQ) /\ UNCHANGED writes
    /\ UNCHANGED <<wire, writeFailed, tableVars, msgVars, readVars, connVars, lifeVars, netVars,
                   heartbeatWait, respQ, tasks>>

(* A write completed: startTimer() finds the request and drops the lock. *)
RunWrittenFind ==
    /\ Runs("written")
    /\ RM!StartTimerFind(Head(ioQ).p.id)
    /\ UNCHANGED <<msgVars, writeVars, readVars, connVars, lifeVars, netVars,
                   heartbeatWait, ioQ, respQ, tasks>>

(* The rest of the handler, taking the package off the list in any case.   *)
RunWrittenRestPops ==
    /\ life # "new" /\ AtHead("written")
    /\ TimerRest(Head(ioQ).p, Head(ioQ).ok)
    /\ pendingList_' = Tail(pendingList_)
    /\ IF Head(ioQ).ok
       THEN /\ wire' = Append(wire, Head(pendingList_))
            /\ WriteNext(Tail(pendingList_), Tail(ioQ))
            /\ UNCHANGED writeFailed
       ELSE /\ ioQ' = Append(Tail(ioQ), DoClose)
            /\ writeFailed' = TRUE
            /\ UNCHANGED <<writes, wire>>
    /\ UNCHANGED <<msgVars, readVars, connVars, lifeVars, netVars, heartbeatWait,
                   respQ, tasks>>

(* The rest of the handler, also after a stop() in between: async_wait,    *)
(* then go on with the next package, or close() after an error.            *)
RunWrittenRest ==
    /\ life # "new" /\ AtHead("written")
    /\ TimerRest(Head(ioQ).p, Head(ioQ).ok)
    /\ IF Head(ioQ).ok
       THEN /\ pendingList_' = Tail(pendingList_)
            /\ wire' = Append(wire, Head(pendingList_))
            /\ WriteNext(Tail(pendingList_), Tail(ioQ))
            /\ UNCHANGED writeFailed
       ELSE /\ ioQ' = Append(Tail(ioQ), DoClose)
            /\ writeFailed' = TRUE
            /\ UNCHANGED <<pendingList_, writes, wire>>
    /\ UNCHANGED <<msgVars, readVars, connVars, lifeVars, netVars, heartbeatWait,
                   respQ, tasks>>

(* The handler of another read is queued: tempBuf_ is overwritten before   *)
(* it is decoded.                                                          *)
Decoding(q) == \E i \in 1..Len(q) : q[i].h = "doRead" /\ q[i].ok

(* The loop of decode() hands on the messages that have arrived in full.   *)
DecodeInStep == respQ' = respQ \o tempBuf_ /\ UNCHANGED readBuffer_

(* The loop when bytes are mixed up in readBuffer_: it can find packages   *)
(* that nobody sent, skip messages, and wait with some still unread.       *)
DecodeMixedUp ==
    LET arrived == readBuffer_ \o tempBuf_
    IN  \E found \in SeqOf(Mixed, MaxMixed), first \in 1..(Len(arrived) + 1),
           last \in 0..Len(arrived) :
            /\ respQ' = respQ \o found \o SubSeq(arrived, first, last)
            /\ readBuffer_' = SubSeq(arrived, last + 1, Len(arrived))

(* doRead(): append, decode and read on, or close().  What tempBuf_ holds  *)
(* is dead when no other read has completed.                               *)
RunDoRead ==
    /\ Runs("doRead")
    /\ \/ Head(ioQ).ok /\ ~mixedUp /\ DecodeInStep /\ StartRead(Tail(ioQ))
       \/ Head(ioQ).ok /\ mixedUp /\ DecodeMixedUp /\ StartRead(Tail(ioQ))
       \/ ~Head(ioQ).ok /\ ReadError(Tail(ioQ)) /\ UNCHANGED <<readBuffer_, respQ>>
    /\ tempBuf_' = IF Decoding(Tail(ioQ)) THEN tempBuf_ ELSE <<>>
    /\ UNCHANGED <<half, mixedUp, tableVars, msgVars, writeVars, connVars, lifeVars, netVars,
                   heartbeatWait, tasks>>

(* doConnect(), connected: from here on isOnline_ lets application threads *)
(* post, ahead of the subscription too.  async_connect turns success into  *)
(* an error when the socket was closed.                                    *)
RunDoConnect ==
    /\ Runs("doConnect") /\ Head(ioQ).ok /\ sock # "closed"
    /\ isOnline_' = TRUE
    /\ reads' = reads + 1
    /\ ioQ' = <<Connected>> \o Tail(ioQ)
    /\ UNCHANGED <<tableVars, msgVars, writeVars, streamVars, addressIndex_, sock, lifeVars,
                   netVars, heartbeatWait, respQ, tasks>>

(* doConnect(), the rest: subscribe and start the heartbeat timer. *)
RunConnected ==
    /\ AtHead("connected")
    /\ StartSubscribe(Tail(ioQ))
    /\ StartHeartbeatTimer
    /\ UNCHANGED <<writeVars, readVars, connVars, lifeVars, netVars, respQ, tasks>>

(* doConnect(), failed: after a pause, connect to the next address. *)
RunDoConnectFailed ==
    /\ Runs("doConnect") /\ ~(Head(ioQ).ok /\ sock # "closed")
    /\ isOnline_' = FALSE
    /\ IF Reconnects
       THEN Connect(addressIndex_ + 1, Tail(ioQ))
       ELSE ioQ' = Tail(ioQ) /\ UNCHANGED <<addressIndex_, sock, reads, writes, peer, inbound>>
    /\ UNCHANGED <<pendingList_, wire, writeFailed, streamVars, tableVars, msgVars, lifeVars,
                   pushes, faults, heartbeatWait, respQ, tasks>>

(* doClose(), closing the socket: shutdown() throws, and close() is not    *)
(* reached, when the connection is already gone.                           *)
CloseSocket(q) ==
    /\ UNCHANGED addressIndex_
    /\ \/ /\ sock \in {"connected", "broken"}
          /\ sock' = "closed" /\ reads' = 0 /\ writes' = <<>>
          /\ ioQ' = q \o Aborted
          /\ peer' = {} /\ inbound' = <<>>
       \/ /\ sock # "connected"
          /\ ioQ' = q
          /\ UNCHANGED <<sock, reads, writes, peer, inbound>>

(* doClose() that leaves reconnecting to others. *)
RunDoCloseOnly ==
    /\ Runs("doClose")
    /\ isOnline_' = FALSE
    /\ CloseSocket(Tail(ioQ))
    /\ UNCHANGED <<pendingList_, wire, writeFailed, streamVars, tableVars, msgVars, lifeVars,
                   pushes, faults, heartbeatWait, respQ, tasks>>

(* doClose(): close, and after a pause connect to the same address. *)
RunDoClose ==
    /\ Runs("doClose")
    /\ isOnline_' = FALSE
    /\ IF Reconnects THEN Connect(addressIndex_, Tail(ioQ)) ELSE CloseSocket(Tail(ioQ))
    /\ UNCHANGED <<pendingList_, wire, writeFailed, streamVars, tableVars, msgVars, lifeVars,
                   pushes, faults, heartbeatWait, respQ, tasks>>

(* doHeartbeat(): post a heartbeat, whose callback arms the timer again. *)
RunDoHeartbeat ==
    /\ Runs("doHeartbeat")
    /\ PostFromIo("heartbeat", isOnline_, Tail(ioQ))
    /\ UNCHANGED <<writeVars, readVars, connVars, lifeVars, netVars, heartbeatWait,
                   respQ, tasks>>

(* The handler of an expired request timer. *)
RunOnTimeout(id) ==
    /\ life # "new" /\ ~ioStopped /\ ~InHandler
    /\ RM!OnTimeout(id)
    /\ Callback(id)
    /\ UNCHANGED <<msgVars, writeVars, readVars, connVars, lifeVars, netVars,
                   ioQ, respQ, tasks>>

IoStep ==
    \/ RunStartWrite \/ RunWrittenFind \/ RunWrittenRest \/ RunDoRead
    \/ RunDoConnect \/ RunConnected \/ RunDoConnectFailed \/ RunDoClose \/ RunDoHeartbeat

-----------------------------------------------------------------------------
(***************************************************************************)
(* The response thread, and the pool of DeliverHandler                     *)
(***************************************************************************)

(* onPackage() of the handlers: DeliverHandler gives a delivered request   *)
(* to its pool; PublishHandler calls the application.                      *)
OnPackage(m) == tasks' = IF m.type = "DELIVER" /\ Delivers THEN Append(tasks, m) ELSE tasks

(* doResponse(): an answer goes to the callback of its request, anything   *)
(* else to the handlers.                                                   *)
DoResponse ==
    /\ life # "new" /\ ~respStopped /\ respQ # <<>>
    /\ respQ' = Tail(respQ)
    /\ LET m == Head(respQ)
       IN  IF m.type = "REQREP"
           THEN RM!OnResponse(m.id, m.n) /\ Callback(m.id) /\ UNCHANGED tasks
           ELSE OnPackage(m) /\ UNCHANGED <<tableVars, heartbeatWait>>
    /\ UNCHANGED <<msgVars, writeVars, readVars, connVars, lifeVars, netVars, ioQ>>

(* replyDeliver(): a pool thread posts the answer of a delivered request. *)
ReplyDeliver ==
    \E i \in 1..Len(tasks) :
        /\ tasks' = RemoveAt(tasks, i)
        /\ PostPackage(DeliverAnswer(tasks[i].id), isOnline_, ioQ)
        /\ UNCHANGED <<kind, code, tableVars, writeVars, readVars, connVars, lifeVars,
                       netVars, heartbeatWait, respQ>>

-----------------------------------------------------------------------------
(***************************************************************************)
(* boost::asio, the network and the server                                 *)
(***************************************************************************)

(* The connection is made, or refused when nobody listens there.  Half a   *)
(* message of an earlier connection is still in readBuffer_, or will be.   *)
ConnectCompletes ==
    /\ ~ioStopped /\ sock = "connecting"
    /\ LET ok == addressIndex_ \in Reachable
       IN  /\ sock' = IF ok THEN "connected" ELSE "broken"
           /\ ioQ' = Append(ioQ, DoConnect(ok))
           /\ half' = (half /\ ~ok)
           /\ mixedUp' = (mixedUp \/ (half /\ ok))
    /\ UNCHANGED <<tableVars, msgVars, writeVars, reads, tempBuf_, readBuffer_, isOnline_,
                   addressIndex_, lifeVars, netVars, heartbeatWait, respQ, tasks>>

(* A write completes; on a lost connection its data goes nowhere, or it    *)
(* fails.                                                                  *)
WriteCompletes ==
    \E ok \in BOOLEAN :
        /\ ~ioStopped /\ writes # <<>>
        /\ sock = "broken" \/ (sock = "connected" /\ ok)
        /\ writes' = Tail(writes)
        /\ ioQ' = Append(ioQ, Written(Head(writes), ok))
        /\ LET n == Head(writes).n
           IN  peer' = IF sock = "connected" /\ n # 0 /\ kind[n] # "pub"
                       THEN peer \cup {n} ELSE peer
        /\ UNCHANGED <<tableVars, msgVars, pendingList_, wire, writeFailed, readVars, connVars,
                       lifeVars, inbound, pushes, faults, heartbeatWait, respQ, tasks>>

(* A read completes with some of what has arrived: the ends of len         *)
(* messages, and the beginning of one more if it is cut.  (As a bound, one *)
(* message is cut at one place.)                                           *)
ReadCompletes ==
    \E len \in 0..Len(inbound), cut \in BOOLEAN :
        /\ ~ioStopped /\ sock = "connected" /\ reads > 0
        /\ cut => len < Len(inbound)
        /\ len > 0 \/ (cut /\ ~half)
        /\ half' = cut
        /\ reads' = reads - 1
        /\ tempBuf_' = SubSeq(inbound, 1, len) \o SubSeq(tempBuf_, len + 1, Len(tempBuf_))
        /\ mixedUp' = (mixedUp \/ Decoding(ioQ))
        /\ inbound' = SubSeq(inbound, len + 1, Len(inbound))
        /\ ioQ' = Append(ioQ, DoRead(TRUE))
        /\ UNCHANGED <<readBuffer_, tableVars, msgVars, writeVars, connVars, lifeVars, peer,
                       pushes, faults, heartbeatWait, respQ, tasks>>

(* A read fails on a lost connection. *)
ReadFails ==
    /\ ~ioStopped /\ sock = "broken" /\ reads > 0
    /\ reads' = reads - 1
    /\ ioQ' = Append(ioQ, DoRead(FALSE))
    /\ UNCHANGED <<tableVars, msgVars, writeVars, streamVars, connVars, lifeVars, netVars,
                   heartbeatWait, respQ, tasks>>

(* The deadline of a request passes. *)
TimerFires(d) ==
    /\ ~ioStopped
    /\ RM!TimerFires(d)
    /\ UNCHANGED <<msgVars, writeVars, readVars, connVars, lifeVars, netVars,
                   heartbeatWait, ioQ, respQ, tasks>>

(* The heartbeat timer expires; past MaxReq no more heartbeat is modelled. *)
HeartbeatFires ==
    /\ ~ioStopped /\ heartbeatWait /\ Len(kind) < MaxReq
    /\ heartbeatWait' = FALSE
    /\ ioQ' = Append(ioQ, DoHeartbeat)
    /\ UNCHANGED <<tableVars, msgVars, writeVars, readVars, connVars, lifeVars, netVars,
                   respQ, tasks>>

(* What keeps io_.run() from returning. *)
IoHasWork ==
    \/ ioQ # <<>> \/ reads > 0 \/ writes # <<>> \/ sock = "connecting"
    \/ heartbeatWait \/ arming # NoData
    \/ \E d \in Msgs : waits[d] > 0
    \/ \E id \in Ids : due[id] > 0

(* Out of work, io_.run() returns and io_ counts as stopped. *)
IoRunsOut ==
    /\ life = "running" /\ ~ioStopped /\ ~IoHasWork
    /\ ioStopped' = TRUE
    /\ UNCHANGED <<tableVars, msgVars, writeVars, readVars, connVars, life, respStopped,
                   netVars, heartbeatWait, ioQ, respQ, tasks>>

(* The server answers a request it has, in any order. *)
ServerReplies(n) ==
    /\ sock = "connected" /\ n \in peer
    /\ peer' = peer \ {n}
    /\ inbound' = Append(inbound, Answer(n))
    /\ UNCHANGED <<tableVars, msgVars, writeVars, readVars, connVars, lifeVars, pushes,
                   faults, heartbeatWait, ioQ, respQ, tasks>>

(* The server publishes, or delivers a request of another client, whose id *)
(* may be any.                                                             *)
ServerPushes ==
    /\ sock = "connected" /\ pushes < MaxPushes
    /\ pushes' = pushes + 1
    /\ \E m \in Pushes : inbound' = Append(inbound, m)
    /\ UNCHANGED <<tableVars, msgVars, writeVars, readVars, connVars, lifeVars, peer,
                   faults, heartbeatWait, ioQ, respQ, tasks>>

(* The connection is lost with all that was under way.  What the client    *)
(* has read of a message stays where it is.                                *)
ConnectionLost ==
    /\ sock = "connected" /\ faults < MaxFaults
    /\ sock' = "broken"
    /\ faults' = faults + 1
    /\ peer' = {} /\ inbound' = <<>>
    /\ UNCHANGED <<tableVars, msgVars, writeVars, readVars, isOnline_, addressIndex_,
                   lifeVars, pushes, heartbeatWait, ioQ, respQ, tasks>>

-----------------------------------------------------------------------------
AppStep ==
    \/ Start \/ StopIo \/ StopRest
    \/ PostMessage \/ PublishMessage
    \/ \E n \in Msgs : PostMade(n)

AsioStep ==
    \/ ConnectCompletes \/ WriteCompletes \/ ReadCompletes \/ ReadFails
    \/ HeartbeatFires \/ IoRunsOut
    \/ \E d \in Msgs : TimerFires(d)

ServerStep ==
    \/ ServerPushes \/ ConnectionLost
    \/ \E n \in Msgs : ServerReplies(n)

Next ==
    \/ AppStep \/ IoStep \/ AsioStep \/ ServerStep
    \/ \E id \in Ids : RunOnTimeout(id)
    \/ DoResponse \/ ReplyDeliver

(* The threads keep running and operations complete.  The handler of an    *)
(* expired timer waits in the queue of io_ like any other, so it has its   *)
(* turn whatever handlers keep coming: strong fairness.  Nothing is        *)
(* assumed of the application, of the heartbeat timer or of the server.    *)
Fairness ==
    /\ WF_vars(life = "new" /\ Start)
    /\ WF_vars(IoStep)
    /\ \A id \in Ids : SF_vars(RunOnTimeout(id))
    /\ \A d \in Msgs : WF_vars(TimerFires(d))
    /\ WF_vars(DoResponse)
    /\ WF_vars(ConnectCompletes) /\ WF_vars(WriteCompletes)
    /\ WF_vars(ReadCompletes \/ ReadFails)
    /\ WF_vars(IoRunsOut)

Spec == Init /\ [][Next]_vars

FairSpec == Spec /\ Fairness

-----------------------------------------------------------------------------
(***************************************************************************)
(* Properties                                                              *)
(***************************************************************************)

(* The callback of n is awaited: sendMessage() blocks on isWait. *)
Blocked(n) == n <= Len(kind) /\ code[n] = "eSuccess" /\ kind[n] # "pub" /\ calls[n] = <<>>

(* The places of the handlers h in queue q. *)
Of(q, h) == {i \in 1..Len(q) : q[i].h = h}

(* The packages whose startWrite() waits in the io queue, in order. *)
WritesIn(q) ==
    LET w == Pick(q, Of(q, "startWrite"))
    IN  [i \in 1..Len(w) |-> w[i].p]
QueuedWrites == WritesIn(ioQ)

WriteHandlers == Pick(ioQ, Of(ioQ, "written"))

(* asio allows one async_write at a time on a socket: whatever fails and   *)
(* reconnects, at most one write or write handler is outstanding, and it   *)
(* is the one of the package at the front of pendingList_.  Nor does the   *)
(* list stall: with packages in it there is one, also after a lost         *)
(* connection, until a write fails.  (Then it stalls for good: nothing     *)
(* clears the list.)                                                       *)
SingleWriter ==
    /\ Len(writes) + Len(WriteHandlers) <= 1
    /\ \A i \in 1..Len(writes) : pendingList_ # <<>> /\ writes[i] = Head(pendingList_)
    /\ \A i \in 1..Len(WriteHandlers) :
           pendingList_ # <<>> /\ WriteHandlers[i].p = Head(pendingList_)
    /\ pendingList_ # <<>> /\ ~writeFailed => Len(writes) + Len(WriteHandlers) = 1

(* Every package postPackage() accepted is written, in pendingList_ or on  *)
(* its way there, once and in the order it was accepted, across            *)
(* reconnections and stop().                                               *)
NothingLost == posted = wire \o pendingList_ \o QueuedWrites

(* A callback is given the answer to its own request, or a timeout, unless *)
(* another request had the same id, or it is given what decode() made of   *)
(* bytes that do not belong together: no answer to one request ever        *)
(* reaches another, and until a connection is lost in the middle of a      *)
(* message, or two reads meet in tempBuf_, nothing else does.              *)
AnswerIsOwn ==
    \A n \in Msgs : RM!OwnId(n) /\ calls[n] # <<>> =>
        calls[n] \in {<<n>>, <<eTimeout>>} \/ (mixedUp /\ calls[n] = <<0>>)

(* The results a callback was given, those of mixed-up bytes left out. *)
Reported(n) == IF calls[n] = <<0>> THEN <<>> ELSE calls[n]

Contract == INSTANCE RpcContract WITH
    Reqs <- Msgs,
    Results <- Msgs \cup {eTimeout},
    registered <- {n \in Msgs : code[n] = "eSuccess" /\ kind[n] # "pub"},
    reported <- [n \in Msgs |-> Reported(n)]

(* A callback runs at most once, even when message ids wrap and repeat. *)
CalledOnce == RM!AtMostOnce

(* postMessage() keeps its contract: the callback runs at most once, and   *)
(* never when the call reported an error (the callback of sendMessage()    *)
(* refers to the stack frame that has then returned).  This is said of     *)
(* answers and timeouts: a header of mixed-up bytes can name any request,  *)
(* also one whose call reported an error.                                  *)
ImplementsContract == Contract!Spec

(* io_ has no work object, so the client must never run out of handlers    *)
(* and operations while it reconnects: else it would stop for good.        *)
NeverOutOfWork == life = "running" /\ ~ioStopped /\ Reconnects => IoHasWork

(* While the client is online a heartbeat is under way: the timer is to be *)
(* started or runs, or its handler is queued, or a posted heartbeat has    *)
(* not been called back yet.                                               *)
HeartbeatAlive ==
    Heartbeats /\ isOnline_ /\ Len(kind) < MaxReq =>
        \/ heartbeatWait
        \/ AtHead("connected") \/ Contains(ioQ, DoHeartbeat)
        \/ \E n \in 1..Len(kind) : kind[n] = "heartbeat" /\ Blocked(n)

(* sendMessage() returns: an accepted request is called back, also when    *)
(* connections are lost, unless a write has failed or the client stopped.  *)
AcceptedIsCalled ==
    \A n \in Msgs : Blocked(n) ~> (~Blocked(n) \/ ioStopped \/ writeFailed)

(* A request whose write was attempted is called back even if the write    *)
(* failed, unless the client is stopped: its timer is started either way.  *)
AttemptedIsCalled ==
    \A n \in Msgs :
        Contains(ioQ, Written(Package(n), TRUE)) \/ Contains(ioQ, Written(Package(n), FALSE))
        ~> (~Blocked(n) \/ ioStopped)

(* With a server at one of the addresses, the client comes online: it      *)
(* tries the addresses in turn.  (After a lost connection it need not: two *)
(* chains of connect() can abort each other for ever.)                     *)
ComesOnline == Reconnects /\ Reachable # {} => <>(isOnline_ \/ ioStopped)

(* A client that does not reconnect stops once its connection is lost:     *)
(* postPackage() then answers eServiceStopped instead of queueing.         *)
LostMeansStopped == ~Reconnects => (faults > 0 ~> ioStopped)
=============================================================================
