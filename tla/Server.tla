------------------------------- MODULE Server -------------------------------
(***************************************************************************)
(* The server: AsioServer (accepting, subscriptions, heartbeats), its      *)
(* Sessions (one per connection), the SessionRoom they join, and the       *)
(* TaskManager that executes requests.                                     *)
(*                                                                         *)
(* One io thread accepts, reads, writes and removes sessions.  A request   *)
(* marked isorder is executed by the worker thread its session id selects; *)
(* any other by a thread of the pool, where requests overtake each other.  *)
(* The application publishes from a thread of its own.  sessionMutex_ and  *)
(* protoMutex_ are taken one after the other, never together, so leave()   *)
(* and publishMessage() are two actions each, and a subscription one for   *)
(* every topic it names.                                                   *)
(*                                                                         *)
(* A topic is a message type (PUBSUB or DELIVER) with a type name, so that *)
(* topics stands for subscribeCache_ and deliverCache_ together.           *)
(***************************************************************************)
EXTENDS Naturals, Sequences, SequencesExt, FiniteSets, Subsequence

CONSTANTS MaxSessions,  \* bound: connections accepted
          MaxSends,     \* bound: messages one client sends
          MaxFaults,    \* bound: connections lost
          MaxPublish,   \* bound: messages published
          Kinds,        \* the messages clients send
          Topics,       \* what can be subscribed to
          Published,    \* the topic the application publishes
          Workers,      \* workers_.size()
          CanStop       \* whether the application may call stop()

ASSUME ServerAssumption ==
    /\ {MaxSessions, MaxSends, MaxFaults, MaxPublish} \subseteq Nat
    /\ Kinds \subseteq {"req", "order", "sub", "unsub", "badsub", "unknown"}
    /\ Published \in Topics
    /\ Workers \in Nat \ {0} /\ CanStop \in BOOLEAN

VARIABLES conn,          \* per session id: the connection
          sent,          \* per session: messages its client sent so far
          inbox,         \* per session: messages on their way to the server
          reading,       \* per session: a read is outstanding
          writing,       \* per session: a write is outstanding
          writeDeque_,   \* per session
          posted,        \* per session: what postPackage() was given
          written,       \* per session: what was written
          sessionCache_, \* the sessions in the room
          topics,        \* topic -> session ids
          leaving,       \* the session leave() has removed from one map only
          ioQ,           \* handlers queued on io_
          ioStopped,     \* io_.stopped()
          workerQ,       \* per worker: the ordered requests it was given
          pool,          \* requests in the pool
          pub,           \* where publishMessage() is
          published,     \* messages published so far
          faults,
          acked,         \* sessions whose subscription was answered
          revoked        \* sessions that sent an unsubscription

sessionVars == <<conn, sent, inbox, reading, writing, writeDeque_, posted, written>>
roomVars == <<sessionCache_, topics, leaving, ioStopped>>
taskVars == <<workerQ, pool>>
pubVars == <<pub, published>>
histVars == <<faults, acked, revoked>>
vars == <<sessionVars, roomVars, taskVars, pubVars, histVars, ioQ>>

Sessions == 1..MaxSessions
NoSession == 0

(* A message of a client, and the package that answers it or is published. *)
Request(n, k) == [n |-> n, k |-> k]
Requests == {Request(n, k) : n \in 1..MaxSends, k \in Kinds}
Publication(n) == [n |-> n, k |-> "pub"]
Packages == Requests \cup {Publication(n) : n \in 1..MaxPublish}

(* The handlers of the io thread. *)
ReadDone(s, in, ok) == [h |-> "doRead", s |-> s, in |-> in, ok |-> ok]
WriteDone(s, ok)    == [h |-> "doWrite", s |-> s, ok |-> ok]
WriteBuffer(s, p)   == [h |-> "writeBuffer", s |-> s, p |-> p]
Handlers ==
    [h : {"doRead"}, s : Sessions, in : Seq(Requests), ok : BOOLEAN]
    \cup [h : {"doWrite"}, s : Sessions, ok : BOOLEAN]
    \cup [h : {"writeBuffer"}, s : Sessions, p : Packages]

(* A request in the pool, with the topics its loop has not handled yet. *)
PoolTask(s, r) == [s |-> s, r |-> r, todo |-> IF r.k \in {"sub", "unsub"} THEN Topics ELSE {}]
WorkerTask(s, r) == [s |-> s, r |-> r]

TypeOK ==
    /\ conn \in [Sessions -> {"none", "open", "lost"}]
    /\ sent \in [Sessions -> 0..MaxSends]
    /\ inbox \in [Sessions -> Seq(Requests)]
    /\ reading \in [Sessions -> BOOLEAN]
    /\ writing \in [Sessions -> BOOLEAN]
    /\ writeDeque_ \in [Sessions -> Seq(Packages)]
    /\ posted \in [Sessions -> Seq(Packages)]
    /\ written \in [Sessions -> Seq(Packages)]
    /\ sessionCache_ \subseteq Sessions
    /\ topics \in [Topics -> SUBSET Sessions]
    /\ leaving \in Sessions \cup {NoSession} /\ ioStopped \in BOOLEAN
    /\ ioQ \in Seq(Handlers)
    /\ workerQ \in [0..(Workers - 1) -> Seq([s : Sessions, r : Requests])]
    /\ pool \subseteq [s : Sessions, r : Requests, todo : SUBSET Topics]
    /\ pub \in [at : {"idle", "ids", "done"}, ids : SUBSET Sessions, owed : SUBSET Sessions]
    /\ published \in 0..MaxPublish /\ faults \in 0..MaxFaults
    /\ acked \subseteq Sessions /\ revoked \subseteq Sessions

Init ==
    /\ conn = [s \in Sessions |-> "none"]
    /\ sent = [s \in Sessions |-> 0]
    /\ inbox = [s \in Sessions |-> <<>>]
    /\ reading = [s \in Sessions |-> FALSE]
    /\ writing = [s \in Sessions |-> FALSE]
    /\ writeDeque_ = [s \in Sessions |-> <<>>]
    /\ posted = [s \in Sessions |-> <<>>]
    /\ written = [s \in Sessions |-> <<>>]
    /\ sessionCache_ = {} /\ topics = [t \in Topics |-> {}] /\ leaving = NoSession
    /\ ioQ = <<>> /\ ioStopped = FALSE
    /\ workerQ = [w \in 0..(Workers - 1) |-> <<>>] /\ pool = {}
    /\ pub = [at |-> "idle", ids |-> {}, owed |-> {}] /\ published = 0
    /\ faults = 0 /\ acked = {} /\ revoked = {}

-----------------------------------------------------------------------------
(***************************************************************************)
(* The io thread                                                           *)
(***************************************************************************)
Runs(h) == ~ioStopped /\ leaving = NoSession /\ ioQ # <<>> /\ Head(ioQ).h = h

(* join() under the session's own id. *)
JoinRoom(s) == sessionCache_' = sessionCache_ \cup {s}

(* startAccept(): a new Session joins the room and reads.  Session ids are *)
(* given out in order and never again.                                     *)
Accept(s) ==
    /\ ~ioStopped /\ leaving = NoSession
    /\ conn[s] = "none" /\ \A r \in 1..(s - 1) : conn[r] # "none"
    /\ conn' = [conn EXCEPT ![s] = "open"]
    /\ JoinRoom(s)
    /\ reading' = [reading EXCEPT ![s] = TRUE]
    /\ UNCHANGED <<sent, inbox, writing, writeDeque_, posted, written, topics, leaving, ioStopped,
                   taskVars, pubVars, histVars, ioQ>>

(* The worker of an ordered request: by session id, or by message number. *)
WorkerByMessage(s, r) == r.n % Workers
WorkerOf(s, r) == s % Workers

(* handleMessage() of the messages of one read, in their order. *)
HandleMessages(s, in) ==
    /\ workerQ' = [w \in DOMAIN workerQ |->
           LET mine == Pick(in, {i \in 1..Len(in) : in[i].k = "order" /\ WorkerOf(s, in[i]) = w})
           IN  workerQ[w] \o [i \in 1..Len(mine) |-> WorkerTask(s, mine[i])]]
    /\ pool' = pool \cup {PoolTask(s, r) : r \in {x \in ToSet(in) : x.k \notin {"order", "unknown"}}}

(* doRead(): decode, hand the messages on, and read again. *)
RunDoRead ==
    /\ Runs("doRead") /\ Head(ioQ).ok
    /\ HandleMessages(Head(ioQ).s, Head(ioQ).in)
    /\ reading' = [reading EXCEPT ![Head(ioQ).s] = TRUE]
    /\ ioQ' = Tail(ioQ)
    /\ UNCHANGED <<conn, sent, inbox, writing, writeDeque_, posted, written, roomVars,
                   pubVars, histVars>>

(* leave() that takes the session out of the room last. *)
RunLeaveLate ==
    /\ Runs("doRead") \/ Runs("doWrite")
    /\ ~Head(ioQ).ok
    /\ leaving' = Head(ioQ).s
    /\ ioQ' = Tail(ioQ)
    /\ UNCHANGED <<sessionVars, sessionCache_, topics, ioStopped, taskVars, pubVars, histVars>>

(* leave(), under sessionMutex_: after a failed read, or a failed write. *)
RunLeave ==
    /\ Runs("doRead") \/ Runs("doWrite")
    /\ ~Head(ioQ).ok
    /\ sessionCache_' = sessionCache_ \ {Head(ioQ).s}
    /\ leaving' = Head(ioQ).s
    /\ ioQ' = Tail(ioQ)
    /\ UNCHANGED <<sessionVars, topics, ioStopped, taskVars, pubVars, histVars>>

(* leave(), under protoMutex_. *)
RunLeaveTopics ==
    /\ leaving # NoSession
    /\ topics' = [t \in Topics |-> topics[t] \ {leaving}]
    /\ leaving' = NoSession
    /\ UNCHANGED <<sessionVars, sessionCache_, ioStopped, taskVars, pubVars, histVars, ioQ>>

(* push_front() and push_back() on writeDeque_. *)
EnqueueFirst(deque, p) == <<p>> \o deque
Enqueue(deque, p) == Append(deque, p)

(* writeBuffer(): a write that is always started, and one that is started  *)
(* when none is in progress.                                               *)
RunWriteBufferAlways ==
    /\ Runs("writeBuffer")
    /\ LET s == Head(ioQ).s
       IN  /\ writeDeque_' = [writeDeque_ EXCEPT ![s] = Enqueue(@, Head(ioQ).p)]
           /\ writing' = [writing EXCEPT ![s] = TRUE]
    /\ ioQ' = Tail(ioQ)
    /\ UNCHANGED <<conn, sent, inbox, reading, posted, written, roomVars, taskVars,
                   pubVars, histVars>>

RunWriteBuffer ==
    /\ Runs("writeBuffer")
    /\ LET s == Head(ioQ).s
       IN  /\ writeDeque_' = [writeDeque_ EXCEPT ![s] = Enqueue(@, Head(ioQ).p)]
           /\ writing' = [writing EXCEPT ![s] = @ \/ writeDeque_[s] = <<>>]
    /\ ioQ' = Tail(ioQ)
    /\ UNCHANGED <<conn, sent, inbox, reading, posted, written, roomVars, taskVars,
                   pubVars, histVars>>

(* doWrite() that stops after one buffer; doWrite() that goes on. *)
GoOnNever(deque) == FALSE
GoOn(deque) == deque # <<>>

(* doWrite(), written: go on with the next buffer. *)
RunDoWrite ==
    /\ Runs("doWrite") /\ Head(ioQ).ok
    /\ LET s == Head(ioQ).s
       IN  /\ written' = [written EXCEPT ![s] = Append(@, Head(writeDeque_[s]))]
           /\ writeDeque_' = [writeDeque_ EXCEPT ![s] = Tail(@)]
           /\ writing' = [writing EXCEPT ![s] = GoOn(Tail(writeDeque_[s]))]
    /\ ioQ' = Tail(ioQ)
    /\ UNCHANGED <<conn, sent, inbox, reading, posted, roomVars, taskVars, pubVars, histVars>>

IoStep ==
    RunDoRead \/ RunLeave \/ RunLeaveTopics \/ RunWriteBuffer \/ RunDoWrite

-----------------------------------------------------------------------------
(***************************************************************************)
(* Workers, pool and application                                           *)
(***************************************************************************)

(* postPackage() to the first session only. *)
PostToOne(S, p) ==
    LET one == {s \in S : \A r \in S : s <= r}
    IN  /\ posted' = [s \in Sessions |-> IF s \in one THEN Append(posted[s], p) ELSE posted[s]]
        /\ ioQ' = ioQ \o [i \in 1..Cardinality(one) |-> WriteBuffer(SetToSeq(one)[i], p)]

(* postPackage() of package p to each session of S. *)
PostTo(S, p) ==
    /\ posted' = [s \in Sessions |-> IF s \in S THEN Append(posted[s], p) ELSE posted[s]]
    /\ ioQ' = ioQ \o [i \in 1..Cardinality(S) |-> WriteBuffer(SetToSeq(S)[i], p)]

(* replyMessage(): the answer carries the header of the request. *)
ReplyMessage(s, r) == PostTo({s}, r)

(* A worker executes its next ordered request and answers it. *)
WorkerExecutes(w) ==
    /\ workerQ[w] # <<>>
    /\ workerQ' = [workerQ EXCEPT ![w] = Tail(@)]
    /\ ReplyMessage(Head(workerQ[w]).s, Head(workerQ[w]).r)
    /\ UNCHANGED <<conn, sent, inbox, reading, writing, writeDeque_, written, roomVars,
                   pool, pubVars, histVars>>

(* addSubscribe() and delSubscribe(), each under protoMutex_. *)
ChangeTopic(k, s, t) ==
    [topics EXCEPT ![t] = IF k = "sub" THEN @ \cup {s} ELSE @ \ {s}]

(* doSubscribe(): the loop over the topics. *)
Subscribe(task, t) ==
    /\ task \in pool /\ t \in task.todo
    /\ topics' = ChangeTopic(task.r.k, task.s, t)
    /\ pool' = (pool \ {task}) \cup {[task EXCEPT !.todo = @ \ {t}]}
    /\ UNCHANGED <<sessionVars, sessionCache_, leaving, ioStopped, workerQ, pubVars, histVars, ioQ>>

(* A request is executed in the pool, or a subscription has been recorded: *)
(* answer it.  A malformed subscription gets no answer.                    *)
PoolExecutes(task) ==
    /\ task \in pool /\ task.todo = {}
    /\ pool' = pool \ {task}
    /\ IF task.r.k = "badsub" THEN UNCHANGED <<posted, ioQ>> ELSE ReplyMessage(task.s, task.r)
    /\ acked' = IF task.r.k = "sub" THEN acked \cup {task.s} ELSE acked
    /\ UNCHANGED <<conn, sent, inbox, reading, writing, writeDeque_, written, roomVars,
                   workerQ, pubVars, faults, revoked>>

(* publishMessage(), under protoMutex_: who has subscribed. *)
PublishIds ==
    /\ pub.at # "ids" /\ published < MaxPublish
    /\ published' = published + 1
    /\ pub' = [at |-> "ids", ids |-> topics[Published], owed |-> acked \ revoked]
    /\ UNCHANGED <<sessionVars, roomVars, taskVars, histVars, ioQ>>

(* publishMessage(), under sessionMutex_: post to those still in the room. *)
PublishPosts ==
    /\ pub.at = "ids"
    /\ pub' = [pub EXCEPT !.at = "done"]
    /\ PostTo(pub.ids \cap sessionCache_, Publication(published))
    /\ UNCHANGED <<conn, sent, inbox, reading, writing, writeDeque_, written, roomVars,
                   taskVars, published, histVars>>

(* stop(): the io thread ends with the handler it is in; the workers and   *)
(* the pool go on.                                                         *)
Stop ==
    /\ CanStop /\ ~ioStopped
    /\ ioStopped' = TRUE
    /\ UNCHANGED <<sessionVars, sessionCache_, topics, leaving, taskVars, pubVars,
                   histVars, ioQ>>

-----------------------------------------------------------------------------
(***************************************************************************)
(* boost::asio, the network and the clients                                *)
(***************************************************************************)
ClientSends(s, k) ==
    /\ conn[s] = "open" /\ sent[s] < MaxSends
    /\ sent' = [sent EXCEPT ![s] = @ + 1]
    /\ inbox' = [inbox EXCEPT ![s] = Append(@, Request(sent[s] + 1, k))]
    /\ revoked' = IF k = "unsub" THEN revoked \cup {s} ELSE revoked
    /\ UNCHANGED <<conn, reading, writing, writeDeque_, posted, written, roomVars, taskVars,
                   pubVars, faults, acked, ioQ>>

ReadCompletes(s) ==
    /\ ~ioStopped /\ conn[s] = "open" /\ reading[s]
    /\ \E len \in 1..Len(inbox[s]) :
           /\ ioQ' = Append(ioQ, ReadDone(s, SubSeq(inbox[s], 1, len), TRUE))
           /\ inbox' = [inbox EXCEPT ![s] = SubSeq(@, len + 1, Len(@))]
    /\ reading' = [reading EXCEPT ![s] = FALSE]
    /\ UNCHANGED <<conn, sent, writing, writeDeque_, posted, written, roomVars, taskVars,
                   pubVars, histVars>>

ReadFails(s) ==
    /\ ~ioStopped /\ conn[s] = "lost" /\ reading[s]
    /\ ioQ' = Append(ioQ, ReadDone(s, <<>>, FALSE))
    /\ reading' = [reading EXCEPT ![s] = FALSE]
    /\ UNCHANGED <<conn, sent, inbox, writing, writeDeque_, posted, written, roomVars,
                   taskVars, pubVars, histVars>>

WriteCompletes(s) ==
    /\ ~ioStopped /\ writing[s]
    /\ \E ok \in BOOLEAN : (ok \/ conn[s] = "lost") /\ ioQ' = Append(ioQ, WriteDone(s, ok))
    /\ writing' = [writing EXCEPT ![s] = FALSE]
    /\ UNCHANGED <<conn, sent, inbox, reading, writeDeque_, posted, written, roomVars,
                   taskVars, pubVars, histVars>>

ConnectionLost(s) ==
    /\ conn[s] = "open" /\ faults < MaxFaults
    /\ conn' = [conn EXCEPT ![s] = "lost"]
    /\ inbox' = [inbox EXCEPT ![s] = <<>>]
    /\ faults' = faults + 1
    /\ UNCHANGED <<sent, reading, writing, writeDeque_, posted, written, roomVars, taskVars,
                   pubVars, acked, revoked, ioQ>>

PoolStep ==
    \E task \in pool : PoolExecutes(task) \/ \E t \in Topics : Subscribe(task, t)

AsioStep(s) == ReadCompletes(s) \/ ReadFails(s) \/ WriteCompletes(s)

Next ==
    \/ IoStep \/ PoolStep \/ PublishIds \/ PublishPosts \/ Stop
    \/ \E w \in DOMAIN workerQ : WorkerExecutes(w)
    \/ \E s \in Sessions :
           \/ Accept(s) \/ AsioStep(s) \/ ConnectionLost(s)
           \/ \E k \in Kinds : ClientSends(s, k)

(* The threads run what they have and operations complete; nobody has to   *)
(* connect, send or publish.                                               *)
Fairness ==
    /\ WF_vars(IoStep)
    /\ WF_vars(PoolStep)
    /\ \A w \in 0..(Workers - 1) : WF_vars(WorkerExecutes(w))
    /\ \A s \in Sessions :
           WF_vars(ReadCompletes(s) \/ ReadFails(s)) /\ WF_vars(WriteCompletes(s))

Spec == Init /\ [][Next]_vars

FairSpec == Spec /\ Fairness

-----------------------------------------------------------------------------
(***************************************************************************)
(* Properties                                                              *)
(***************************************************************************)
(* The handlers of kind h of session s in a queue, in order. *)
Of(q, s, h) == Pick(q, {i \in 1..Len(q) : q[i].h = h /\ q[i].s = s})
QueuedFor(s, h) == Of(ioQ, s, h)

(* Whatever postPackage() is given for a session is written, in its deque  *)
(* or on its way there, once and in order, though workers, pool threads    *)
(* and publishers post to it at the same time.                             *)
NothingLost ==
    \A s \in Sessions :
        LET q == QueuedFor(s, "writeBuffer")
        IN  posted[s] = written[s] \o writeDeque_[s] \o [i \in 1..Len(q) |-> q[i].p]

(* A session has at most one write outstanding, and one whenever its deque *)
(* is not empty, until the connection is lost.                             *)
OneWrite ==
    \A s \in Sessions :
        LET n == (IF writing[s] THEN 1 ELSE 0) + Len(QueuedFor(s, "doWrite"))
        IN  /\ n <= 1
            /\ conn[s] = "open" => (n = 1 <=> writeDeque_[s] # <<>>)

(* Ordered requests of a session are answered in the order the client sent *)
(* them, and no request of any kind is answered twice or to another        *)
(* session.                                                                *)
AnswersInOrder ==
    \A s \in Sessions : \A i, j \in 1..Len(posted[s]) :
        i < j =>
            /\ posted[s][i] # posted[s][j]
            /\ posted[s][i].k = "order" /\ posted[s][j].k = "order"
                   => posted[s][i].n < posted[s][j].n

(* A session in the room whose subscription was answered is recorded for   *)
(* every topic of it, unless it asked to be removed: another session that  *)
(* leaves in between does not disturb it.                                  *)
SubscribedStays ==
    \A s \in (acked \ revoked) \cap sessionCache_, t \in Topics : s \in topics[t]

(* A message is published to every session whose subscription had been     *)
(* answered before the call, unless the session has left meanwhile.        *)
PublishReaches ==
    pub.at = "done" =>
        \A s \in pub.owed \cap sessionCache_ : Contains(posted[s], Publication(published))

(* The client gets its answer: a request the server can execute is         *)
(* answered, unless the connection is lost or the server stopped.          *)
RequestIsAnswered ==
    \A s \in Sessions, r \in Requests :
        r.k \notin {"badsub", "unknown"} =>
            (Contains(inbox[s], r) ~> (Contains(written[s], r) \/ conn[s] = "lost" \/ ioStopped))
=============================================================================
