------------------------------- MODULE MsgBus -------------------------------
(***************************************************************************)
(* The message bus (asio/msgbus.cpp) with the clients and stubs around it. *)
(*                                                                         *)
(* A request that a client sends to the bus is delivered to every session  *)
(* that has a deliver handler for its type; the bus remembers in           *)
(* msgSessionCache_ which session asked, by the message id alone, and      *)
(* sends the first answer with that id back to it.  Every client counts    *)
(* its ids from 1, so ids of different clients are usually equal.          *)
(*                                                                         *)
(* One message type is modelled (a type only selects an entry of the       *)
(* caches).  A session is a pair of FIFO channels: Server shows that a     *)
(* Session writes what is posted to it in order, AsioClient the same for   *)
(* the client.  The bus runs its handlers on one io thread, and its        *)
(* subscriptions in the pool of its TaskManager.                           *)
(***************************************************************************)
EXTENDS Naturals, Sequences, FiniteSets, SequencesExt

CONSTANTS
    Clients,       \* AsioClients connected to the bus
    NoSession,     \* no session
    Callers,       \* those that post requests
    Publishers,    \* those that publish
    Deliverers,    \* stubs with addHandleDeliver
    BaseRepliers,  \* deliverers that answer with a message of ProtoBase
    Listeners,     \* stubs with addHandlePublish
    MaxFaults,     \* bound on lost connections
    MaxReq,        \* bound on requests
    MaxPub         \* bound on publications

ASSUME BusAssumption ==
    /\ Callers \cup Publishers \cup Deliverers \cup Listeners \subseteq Clients
    /\ BaseRepliers \subseteq Deliverers
    /\ NoSession \notin Clients \X Nat
    /\ {MaxFaults, MaxReq, MaxPub} \subseteq Nat

VARIABLES
    online,        \* client -> its session, NoSession when it is not connected
    lastId,        \* client -> id_, the last message id it drew
    open,          \* client -> requests in its requestMessage_ table
    tasks,         \* client -> deliveries in the pool of its DeliverHandler
    heard,         \* client -> publications its PublishHandler was called with
    up, down,      \* session -> packages on their way to and from the bus
    room,          \* SessionRoom::sessionCache_
    subs,          \* subscriptions in the bus's pool
    deliverCache,  \* SessionRoom::deliverCache_ of the type
    subscribeCache,\* SessionRoom::subscribeCache_ of the type
    route,         \* MsgBus::msgSessionCache_: id -> session, NoSession when absent
    opened,        \* client -> sessions it has had
    faults,        \* connections lost so far
    \* history of the properties
    req,           \* the requests: client, id and session
    pubs,          \* publications so far
    outcome,       \* request -> what its callback was called with
    reused,        \* requests that reached the bus with an id in use there
    served,        \* request -> sessions it went to whose answer can be routed
    arrived,       \* id -> requests that reached the bus
    routed         \* id -> answers the bus sent back

clientVars == <<online, lastId, open, tasks, heard>>
roomVars == <<room, subs, deliverCache, subscribeCache, opened>>
history == <<req, pubs, outcome, reused, served, arrived, routed>>
vars == <<clientVars, up, down, roomVars, route, faults, history>>

\* The k-th connection of client c.  The bus numbers its sessions in the order
\* they are accepted; it only ever compares their numbers for equality.
Sessions == Clients \X (1..(MaxFaults + 1))
Requests == 1..MaxReq
Ids == 1..(MaxReq + MaxPub + MaxFaults + 1)
NoOutcome == 0
TimedOut == MaxReq + 1

Pac(type, id, num, base) == [type |-> type, id |-> id, num |-> num, base |-> base]
Attached(s) == \E c \in Clients : online[c] = s

\* The packages in chan after pac was posted to each session of ids that is in
\* the room: SessionRoom::deliverPackage.  What is written to a session whose
\* connection is lost reaches nobody.
deliverPackage(chan, ids, pac) ==
    [s \in Sessions |-> IF s \in ids \cap room /\ Attached(s)
                        THEN Append(chan[s], pac) ELSE chan[s]]

Packages == [type : {"SUB", "REQREP", "DELIVER", "PUBSUB"}, id : Ids, num : Nat, base : BOOLEAN]

TypeOK ==
    /\ online \in [Clients -> Sessions \cup {NoSession}]
    /\ lastId \in [Clients -> Nat]
    /\ open \in [Clients -> SUBSET Requests]
    /\ tasks \in [Clients -> SUBSET Packages]
    /\ heard \in [Clients -> Seq(Nat)]
    /\ up \in [Sessions -> Seq(Packages)]
    /\ down \in [Sessions -> Seq(Packages)]
    /\ room \subseteq Sessions
    /\ subs \subseteq [session : Sessions, id : Ids]
    /\ deliverCache \subseteq Sessions
    /\ subscribeCache \subseteq Sessions
    /\ route \in [Ids -> Sessions \cup {NoSession}]
    /\ opened \in [Clients -> 0..(MaxFaults + 1)]
    /\ faults \in 0..MaxFaults
    /\ req \in Seq([from : Clients, id : Ids, session : Sessions])
    /\ pubs \in 0..MaxPub
    /\ outcome \in [Requests -> Nat]
    /\ reused \subseteq Requests
    /\ served \in [Requests -> SUBSET Sessions]
    /\ arrived \in [Ids -> Nat]
    /\ routed \in [Ids -> Nat]

Init ==
    /\ online = [c \in Clients |-> NoSession]
    /\ lastId = [c \in Clients |-> 0]
    /\ open = [c \in Clients |-> {}]
    /\ tasks = [c \in Clients |-> {}]
    /\ heard = [c \in Clients |-> <<>>]
    /\ up = [s \in Sessions |-> <<>>]
    /\ down = [s \in Sessions |-> <<>>]
    /\ room = {} /\ subs = {}
    /\ deliverCache = {} /\ subscribeCache = {}
    /\ route = [i \in Ids |-> NoSession]
    /\ opened = [c \in Clients |-> 0]
    /\ faults = 0
    /\ req = <<>> /\ pubs = 0
    /\ outcome = [r \in Requests |-> NoOutcome]
    /\ reused = {}
    /\ served = [r \in Requests |-> {}]
    /\ arrived = [i \in Ids |-> 0]
    /\ routed = [i \in Ids |-> 0]

(***************************************************************************)
(* Connections.  A client with handlers subscribes as soon as it is        *)
(* connected; the subscription draws an id.                                *)
(***************************************************************************)
HasHandlers(c) == c \in Deliverers \cup Listeners

Connect(c) ==
    LET s == <<c, opened[c] + 1>>
    IN  /\ online[c] = NoSession /\ s \in Sessions
        /\ opened' = [opened EXCEPT ![c] = @ + 1]
        /\ online' = [online EXCEPT ![c] = s]
        /\ room' = room \cup {s}
        /\ IF HasHandlers(c)
           THEN /\ lastId' = [lastId EXCEPT ![c] = @ + 1]
                /\ up' = [up EXCEPT ![s] = <<Pac("SUB", lastId'[c], 0, TRUE)>>]
           ELSE UNCHANGED <<lastId, up>>
        /\ UNCHANGED <<open, tasks, heard, down, subs, deliverCache, subscribeCache,
                       route, faults, history>>

\* The connection breaks: what the bus wrote is lost, what the client wrote may
\* still be read.
Disconnect(c) ==
    /\ online[c] # NoSession /\ faults < MaxFaults
    /\ faults' = faults + 1
    /\ online' = [online EXCEPT ![c] = NoSession]
    /\ down' = [down EXCEPT ![online[c]] = <<>>]
    /\ UNCHANGED <<lastId, open, tasks, heard, up, roomVars, route, history>>

\* The bus notices: SessionRoom::leave.
Leave(s) ==
    /\ s \in room /\ ~Attached(s)
    /\ room' = room \ {s}
    /\ deliverCache' = deliverCache \ {s}
    /\ subscribeCache' = subscribeCache \ {s}
    /\ up' = [up EXCEPT ![s] = <<>>]
    /\ UNCHANGED <<clientVars, down, subs, opened, route, faults, history>>

(***************************************************************************)
(* The clients.                                                            *)
(***************************************************************************)
PostMessage(c) ==
    LET r == Len(req) + 1
    IN  /\ c \in Callers /\ online[c] # NoSession /\ r \in Requests
        /\ lastId' = [lastId EXCEPT ![c] = @ + 1]
        /\ open' = [open EXCEPT ![c] = @ \cup {r}]
        /\ req' = Append(req, [from |-> c, id |-> lastId'[c], session |-> online[c]])
        /\ up' = [up EXCEPT ![online[c]] = Append(@, Pac("REQREP", lastId'[c], r, FALSE))]
        /\ UNCHANGED <<online, tasks, heard, down, roomVars, route, faults,
                       pubs, outcome, reused, served, arrived, routed>>

PublishMessage(c) ==
    LET p == pubs + 1
    IN  /\ c \in Publishers /\ online[c] # NoSession /\ p <= MaxPub
        /\ lastId' = [lastId EXCEPT ![c] = @ + 1]
        /\ pubs' = p
        /\ up' = [up EXCEPT ![online[c]] = Append(@, Pac("PUBSUB", lastId'[c], p, FALSE))]
        /\ UNCHANGED <<online, open, tasks, heard, down, roomVars, route, faults,
                       req, outcome, reused, served, arrived, routed>>

\* doResponse: an answer is picked by its id, anything else goes to the handlers.
OnAnswer(c, pac) ==
    LET own == {r \in open[c] : req[r].id = pac.id}
    IN  /\ open' = [open EXCEPT ![c] = @ \ own]
        /\ outcome' = [r \in Requests |-> IF r \in own THEN pac.num ELSE outcome[r]]
        /\ UNCHANGED <<tasks, heard>>

OnPackage(c, pac) ==
    /\ tasks' = IF pac.type = "DELIVER" /\ c \in Deliverers
                THEN [tasks EXCEPT ![c] = @ \cup {pac}] ELSE tasks
    /\ heard' = IF pac.type = "PUBSUB" /\ c \in Listeners
                THEN [heard EXCEPT ![c] = Append(@, pac.num)] ELSE heard
    /\ UNCHANGED <<open, outcome>>

DoResponse(c) ==
    LET s == online[c]
    IN  /\ s # NoSession
        /\ down[s] # <<>>
        /\ down' = [down EXCEPT ![s] = Tail(@)]
        /\ IF Head(down[s]).type = "REQREP" THEN OnAnswer(c, Head(down[s]))
           ELSE OnPackage(c, Head(down[s]))
        /\ UNCHANGED <<online, lastId, up, roomVars, route, faults,
                       req, pubs, reused, served, arrived, routed>>

\* Mutant: the answer gets an id of the stub instead of the request's.
ReplyDeliverOwnId(c, pac) ==
    /\ pac \in tasks[c]
    /\ tasks' = [tasks EXCEPT ![c] = @ \ {pac}]
    /\ lastId' = [lastId EXCEPT ![c] = IF @ < Cardinality(Ids) THEN @ + 1 ELSE @]
    /\ up' = IF online[c] = NoSession THEN up
             ELSE [up EXCEPT ![online[c]] = Append(@, [pac EXCEPT !.id = lastId'[c]])]
    /\ UNCHANGED <<online, open, heard, down, roomVars, route, faults, history>>

\* A pool thread of the stub answers with the header of the request; the answer
\* is dropped when the stub is not connected.
ReplyDeliver(c, pac) ==
    /\ pac \in tasks[c]
    /\ tasks' = [tasks EXCEPT ![c] = @ \ {pac}]
    /\ up' = IF online[c] = NoSession THEN up
             ELSE [up EXCEPT ![online[c]] = Append(@, [pac EXCEPT !.base = c \in BaseRepliers])]
    /\ UNCHANGED <<online, lastId, open, heard, down, roomVars, route, faults, history>>

Timeout(c, r) ==
    /\ r \in open[c]
    /\ open' = [open EXCEPT ![c] = @ \ {r}]
    /\ outcome' = [outcome EXCEPT ![r] = TimedOut]
    /\ UNCHANGED <<online, lastId, tasks, heard, up, down, roomVars, route, faults,
                   req, pubs, reused, served, arrived, routed>>

(***************************************************************************)
(* The bus: MsgBus::preHandleMessage for one package of session s.         *)
(***************************************************************************)
Everywhere == UNION ({Range(up[s]) : s \in Sessions} \cup {Range(down[s]) : s \in Sessions}
                     \cup {tasks[c] : c \in Clients})

\* An id is in use while the bus remembers it or a delivery or an answer with it
\* is under way.
IdInUse(i) ==
    \/ route[i] # NoSession
    \/ \E pac \in Everywhere : pac.type = "DELIVER" /\ pac.id = i

\* Mutant: the package is passed on as a request.
HandleRequestUnchanged(s, pac) ==
    /\ route' = [route EXCEPT ![pac.id] = s]
    /\ down' = deliverPackage(down, deliverCache, pac)
    /\ arrived' = [arrived EXCEPT ![pac.id] = @ + 1]
    /\ reused' = reused
    /\ served' = [served EXCEPT ![pac.num] = deliverCache \cap room]
    /\ UNCHANGED <<subs, routed>>

HandleRequest(s, pac) ==
    LET to == {t \in deliverCache \cap room :
                  Attached(t) /\ t[1] \notin BaseRepliers}
    IN  /\ route' = [route EXCEPT ![pac.id] = s]
        /\ down' = deliverPackage(down, deliverCache, [pac EXCEPT !.type = "DELIVER"])
        /\ arrived' = [arrived EXCEPT ![pac.id] = @ + 1]
        /\ reused' = IF IdInUse(pac.id) THEN reused \cup {pac.num} ELSE reused
        /\ served' = [served EXCEPT ![pac.num] = to]
        /\ UNCHANGED <<subs, routed>>

\* Mutant: the bus goes on remembering who asked.
HandleAnswerKeeps(pac) ==
    LET id == route[pac.id]
    IN  /\ down' = IF id # NoSession
                   THEN deliverPackage(down, {id}, [pac EXCEPT !.type = "REQREP"]) ELSE down
        /\ routed' = IF id # NoSession THEN [routed EXCEPT ![pac.id] = @ + 1] ELSE routed
        /\ UNCHANGED <<route, subs, arrived, reused, served>>

HandleAnswer(pac) ==
    LET id == route[pac.id]
    IN  /\ route' = [route EXCEPT ![pac.id] = NoSession]
        /\ down' = IF id # NoSession
                   THEN deliverPackage(down, {id}, [pac EXCEPT !.type = "REQREP"]) ELSE down
        /\ routed' = IF id # NoSession THEN [routed EXCEPT ![pac.id] = @ + 1] ELSE routed
        /\ UNCHANGED <<subs, arrived, reused, served>>

\* Mutant: publications go to the sessions of subscribeCache_ as well.
HandlePublicationToAll(pac) ==
    /\ down' = deliverPackage(down, deliverCache \cup subscribeCache, pac)
    /\ UNCHANGED <<subs, route, arrived, reused, served, routed>>

\* Publications too go to the sessions of deliverCache_.
HandlePublication(pac) ==
    /\ down' = deliverPackage(down, deliverCache, pac)
    /\ UNCHANGED <<subs, route, arrived, reused, served, routed>>

\* A message of ProtoBase was parsed (msgPtr is set): preHandleMessage returns,
\* and handleMessage finds a handler for subscriptions only.
HandleBase(s, pac) ==
    /\ subs' = IF pac.type = "SUB" THEN subs \cup {[session |-> s, id |-> pac.id]} ELSE subs
    /\ UNCHANGED <<down, route, arrived, reused, served, routed>>

BusRead(s) ==
    LET pac == Head(up[s])
    IN  /\ s \in room /\ up[s] # <<>>
        /\ up' = [up EXCEPT ![s] = Tail(@)]
        /\ \/ pac.base /\ HandleBase(s, pac)
           \/ ~pac.base /\ pac.type = "REQREP" /\ HandleRequest(s, pac)
           \/ ~pac.base /\ pac.type = "DELIVER" /\ HandleAnswer(pac)
           \/ ~pac.base /\ pac.type = "PUBSUB" /\ HandlePublication(pac)
        /\ UNCHANGED <<clientVars, room, deliverCache, subscribeCache, opened,
                       faults,
                       req, pubs, outcome>>

\* doSubscribe in the pool: the session may have left in the meantime.  What it
\* asked for are the handlers of the client that opened it.
DoSubscribe(sub) ==
    LET c == sub.session[1]
    IN  /\ subs' = subs \ {sub}
        /\ deliverCache' = IF c \in Deliverers THEN deliverCache \cup {sub.session}
                           ELSE deliverCache
        /\ subscribeCache' = IF c \in Listeners THEN subscribeCache \cup {sub.session}
                             ELSE subscribeCache
        /\ down' = deliverPackage(down, {sub.session}, Pac("REQREP", sub.id, 0, TRUE))
        /\ UNCHANGED <<clientVars, up, room, opened, route, faults, history>>

Next ==
    \/ \E c \in Clients :
          \/ Connect(c) \/ Disconnect(c) \/ PostMessage(c) \/ PublishMessage(c)
          \/ DoResponse(c)
          \/ \E pac \in tasks[c] : ReplyDeliver(c, pac)
          \/ \E r \in open[c] : Timeout(c, r)
    \/ \E s \in Sessions : Leave(s) \/ BusRead(s)
    \/ \E sub \in subs : DoSubscribe(sub)

Spec == Init /\ [][Next]_vars

(***************************************************************************)
(* The io thread and the pool of the bus, the response thread and the pool *)
(* of every client run as long as they have work.  Nothing makes anyone    *)
(* connect, call, or lose a connection.                                    *)
(***************************************************************************)
Fairness ==
    /\ \A c \in Clients : /\ WF_vars(DoResponse(c))
                          /\ WF_vars(\E pac \in tasks[c] : ReplyDeliver(c, pac))
    /\ \A s \in Sessions : WF_vars(BusRead(s))
    /\ WF_vars(\E sub \in subs : DoSubscribe(sub))

FairSpec == Spec /\ Fairness

-----------------------------------------------------------------------------
Answered(r) == outcome[r] \in Requests

\* A caller gets the answer to its own request, although the bus knows requests
\* by their id alone: the answer to another one reaches it only when its id was
\* in use at the bus as its request came in (msgSessionCache_ held it, or a
\* second stub had not answered an earlier request of that id yet).
OwnAnswer ==
    \A r \in Requests : Answered(r) /\ outcome[r] # r => r \in reused

\* However many stubs answer a request, and whoever reconnects meanwhile: the
\* bus sends back at most one answer for each request it took in, and none to a
\* session that never asked with that id.
RoutedOnce ==
    /\ \A i \in Ids : routed[i] <= arrived[i]
    /\ \A s \in Sessions : \A k \in DOMAIN down[s] :
          down[s][k].type = "REQREP" /\ ~down[s][k].base =>
              \E r \in DOMAIN req : req[r].session = s /\ req[r].id = down[s][k].id

\* Only clients with a deliver handler of the type hear a publication through the
\* bus: preHandleMessage looks up deliverCache_ for publications too, and never
\* subscribeCache_.  A client that only has a publish handler hears nothing, also
\* after it or the stub reconnected.
OnlyDeliverersHear ==
    \A c \in Clients : heard[c] # <<>> => c \in Deliverers

\* A request that was delivered to a stub is called back while the caller and
\* one such stub stay connected, unless its id was used again too early.
Spoiled(r) ==
    /\ r \in DOMAIN req
    /\ \/ ~Attached(req[r].session)
       \/ \A s \in served[r] : ~Attached(s)
       \/ \E q \in DOMAIN req : q # r /\ req[q].id = req[r].id /\ {q, r} \cap reused # {}

ServedIsCalled ==
    \A r \in Requests :
        served[r] # {} ~> (outcome[r] # NoOutcome \/ Spoiled(r))
=============================================================================
