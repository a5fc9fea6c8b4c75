---------------------------- MODULE MsgBusProofs ----------------------------
(***************************************************************************)
(* Theorems about MsgBus, for any clients, stubs, requests, publications   *)
(* and lost connections.                                                   *)
(***************************************************************************)
EXTENDS MsgBus, SequenceTheorems, TLAPS

(* A session belongs to the client that opened it. *)
OwnSession == \A c \in Clients : online[c] # NoSession => online[c][1] = c

(* A client draws an id when it connects, asks and publishes. *)
IdsDrawn ==
    /\ Len(req) <= MaxReq
    /\ \A c \in Clients : lastId[c] <= opened[c] + Len(req) + pubs

(* A client never uses an id twice, so a request is known by its client    *)
(* and its id.                                                             *)
RequestsKnown ==
    /\ \A q \in DOMAIN req :
           req[q].session[1] = req[q].from /\ req[q].id <= lastId[req[q].from]
    /\ \A q, r \in DOMAIN req : req[q].from = req[r].from /\ req[q].id = req[r].id => q = r
    /\ \A c \in Clients : \A r \in open[c] : r \in DOMAIN req /\ req[r].from = c

(* Package p is on its way to or from the bus, or with a stub. *)
UnderWay(p) ==
    \/ \E s \in Sessions : p \in Range(up[s]) \/ p \in Range(down[s])
    \/ \E c \in Clients : p \in tasks[c]

(* Request q is the one that session s asked with id i. *)
Asked(q, s, i) == q \in DOMAIN req /\ req[q].session = s /\ req[q].id = i

(* A request comes over the session that asked, and what is delivered is a *)
(* request.                                                                *)
PackagesOwned ==
    /\ \A s \in Sessions : \A p \in Range(up[s]) :
           p.type = "REQREP" => ~p.base /\ Asked(p.num, s, p.id)
    /\ \A p : UnderWay(p) /\ p.type = "DELIVER" => p.num \in DOMAIN req
    /\ \A c \in Clients : \A p \in tasks[c] : p.type = "DELIVER"

(* msgSessionCache_ remembers sessions that asked, and a request it has    *)
(* not answered yet for each of them.                                      *)
RouteOwned == \A i \in Ids : route[i] # NoSession => \E q : Asked(q, route[i], i)
RouteCounted ==
    \A i \in Ids : routed[i] + (IF route[i] # NoSession THEN 1 ELSE 0) <= arrived[i]

(* While the bus remembers a request whose id was free, the deliveries and *)
(* answers with the id are those of the request.                           *)
RouteExact ==
    \A i \in Ids : \A q : Asked(q, route[i], i) /\ q \notin reused =>
        \A p : UnderWay(p) /\ p.type = "DELIVER" /\ p.id = i => p.num = q

(* An answer goes to a session that asked with its id, and is the answer   *)
(* to the request when its id was free.                                    *)
AnswersOwned ==
    \A s \in Sessions : \A p \in Range(down[s]) : p.type = "REQREP" =>
        IF p.base THEN p.num = 0
        ELSE /\ \E q : Asked(q, s, p.id)
             /\ \A q : Asked(q, s, p.id) /\ q \notin reused => p.num = q

(* Publications go to the sessions of deliverCache_. *)
PublishedToDeliverers ==
    /\ \A s \in deliverCache : s[1] \in Deliverers
    /\ \A s \in Sessions : \A p \in Range(down[s]) : p.type = "PUBSUB" => s[1] \in Deliverers

BusInv ==
    /\ TypeOK /\ OwnSession /\ IdsDrawn /\ RequestsKnown /\ PackagesOwned
    /\ RouteOwned /\ RouteCounted /\ RouteExact /\ AnswersOwned /\ PublishedToDeliverers
    /\ OwnAnswer /\ OnlyDeliverersHear

-----------------------------------------------------------------------------
(***************************************************************************)
(* Lemmas about the operators                                              *)
(***************************************************************************)

(* The bounds are numbers, and no session is NoSession. *)
LEMMA Bounds ==
    /\ MaxFaults \in Nat /\ MaxReq \in Nat /\ MaxPub \in Nat
    /\ NoSession \notin Sessions
    /\ \A s \in Sessions : s[1] \in Clients /\ s[2] \in 1..(MaxFaults + 1)
BY BusAssumption DEF Sessions

(* The fields of packages. *)
LEMMA Fields ==
    ASSUME NEW p \in Packages
    PROVE  /\ p.type \in {"SUB", "REQREP", "DELIVER", "PUBSUB"}
           /\ p.id \in Ids /\ p.num \in Nat /\ p.base \in BOOLEAN
           /\ \A t \in {"SUB", "REQREP", "DELIVER", "PUBSUB"} :
                  /\ [p EXCEPT !.type = t] \in Packages
                  /\ [p EXCEPT !.type = t].type = t /\ [p EXCEPT !.type = t].id = p.id
                  /\ [p EXCEPT !.type = t].num = p.num /\ [p EXCEPT !.type = t].base = p.base
           /\ \A b \in BOOLEAN :
                  /\ [p EXCEPT !.base = b] \in Packages
                  /\ [p EXCEPT !.base = b].type = p.type /\ [p EXCEPT !.base = b].id = p.id
                  /\ [p EXCEPT !.base = b].num = p.num /\ [p EXCEPT !.base = b].base = b
BY DEF Packages

(* The packages of a channel that gains or loses one. *)
LEMMA ChannelAppend ==
    ASSUME NEW q \in Seq(Packages), NEW e \in Packages
    PROVE  Append(q, e) \in Seq(Packages) /\ \A p : p \in Range(Append(q, e)) => p \in Range(q) \/ p = e
<1>1. Append(q, e) \in Seq(Packages)
  OBVIOUS
<1>2. ASSUME NEW p \in Range(Append(q, e)) PROVE p \in Range(q) \/ p = e
  <2>1. PICK k \in DOMAIN Append(q, e) : p = Append(q, e)[k]
    BY DEF Range
  <2>2. CASE k \in 1..Len(q)
    BY <2>1, <2>2 DEF Range
  <2>3. CASE k = Len(q) + 1
    BY <2>1, <2>3
  <2> QED
    BY <2>1, <2>2, <2>3
<1> QED
  BY <1>1, <1>2

(* The same for the package at the head. *)
LEMMA ChannelTail ==
    ASSUME NEW q \in Seq(Packages), q # <<>>
    PROVE  /\ Tail(q) \in Seq(Packages) /\ Head(q) \in Packages /\ Head(q) \in Range(q)
           /\ \A p \in Range(Tail(q)) : p \in Range(q)
<1>1. Tail(q) \in Seq(Packages) /\ Head(q) \in Packages /\ Head(q) = q[1] /\ 1 \in DOMAIN q
  OBVIOUS
<1>2. \A k \in DOMAIN Tail(q) : k + 1 \in DOMAIN q /\ Tail(q)[k] = q[k + 1]
  OBVIOUS
<1> QED
  BY <1>1, <1>2 DEF Range

(* An empty channel, and a channel with one package. *)
LEMMA ChannelSmall ==
    /\ \A p : p \notin Range(<<>>)
    /\ \A e \in Packages : <<e>> \in Seq(Packages) /\ \A p \in Range(<<e>>) : p = e
BY DEF Range

(* A package is delivered to the sessions of ids, at most. *)
LEMMA Delivered ==
    ASSUME NEW chan \in [Sessions -> Seq(Packages)], NEW ids, NEW pac \in Packages
    PROVE  /\ deliverPackage(chan, ids, pac) \in [Sessions -> Seq(Packages)]
           /\ \A s \in Sessions : \A p \in Range(deliverPackage(chan, ids, pac)[s]) :
                  p \in Range(chan[s]) \/ (p = pac /\ s \in ids)
<1>1. ASSUME NEW s \in Sessions
      PROVE  /\ deliverPackage(chan, ids, pac)[s] \in Seq(Packages)
             /\ \A p \in Range(deliverPackage(chan, ids, pac)[s]) :
                    p \in Range(chan[s]) \/ (p = pac /\ s \in ids)
  <2>1. chan[s] \in Seq(Packages)
    OBVIOUS
  <2>2. CASE s \in ids \cap room /\ Attached(s)
    <3>1. deliverPackage(chan, ids, pac)[s] = Append(chan[s], pac)
      BY <2>2 DEF deliverPackage
    <3> QED
      BY <2>1, <2>2, <3>1, ChannelAppend
  <2>3. CASE ~(s \in ids \cap room /\ Attached(s))
    <3>1. deliverPackage(chan, ids, pac)[s] = chan[s]
      BY <2>3 DEF deliverPackage
    <3> QED
      BY <2>1, <3>1
  <2> QED
    BY <2>2, <2>3
<1> QED
  BY <1>1 DEF deliverPackage

-----------------------------------------------------------------------------
(***************************************************************************)
(* The initial state, and steps that add no request and no answer          *)
(***************************************************************************)

(* Before anyone connects there is nothing to own. *)
LEMMA InitBusInv == Init => BusInv
<1> SUFFICES ASSUME Init PROVE BusInv
  OBVIOUS
<1>1. <<>> \in Seq(Packages) /\ <<>> \in Seq(Nat)
      /\ <<>> \in Seq([from : Clients, id : Ids, session : Sessions])
  OBVIOUS
<1>2. TypeOK
  <2>1. 0 \in 0..(MaxFaults + 1) /\ 0 \in 0..MaxFaults /\ 0 \in 0..MaxPub /\ NoOutcome \in Nat
    BY Bounds DEF NoOutcome
  <2> QED
    BY <1>1, <2>1 DEF Init, TypeOK
<1>3. Len(req) = 0 /\ DOMAIN req = {}
  BY DEF Init
<1>4. \A s \in Sessions : up[s] = <<>> /\ down[s] = <<>>
  BY DEF Init
<1>5. \A p : ~UnderWay(p)
  BY <1>4, ChannelSmall DEF Init, UnderWay
<1>6. OwnSession /\ RequestsKnown /\ OnlyDeliverersHear
  BY <1>3 DEF Init, OwnSession, RequestsKnown, OnlyDeliverersHear
<1>7. IdsDrawn
  BY <1>3, Bounds DEF Init, IdsDrawn
<1>8. PackagesOwned /\ AnswersOwned
  BY <1>4, <1>5, ChannelSmall DEF Init, PackagesOwned, AnswersOwned
<1>9. RouteOwned /\ RouteExact
  BY <1>3, <1>5 DEF Init, RouteOwned, RouteExact, Asked
<1>10. RouteCounted
  BY DEF Init, RouteCounted
<1>11. PublishedToDeliverers
  BY <1>4, ChannelSmall DEF Init, PublishedToDeliverers
<1>12. OwnAnswer
  BY Bounds DEF Init, OwnAnswer, Answered, NoOutcome, Requests
<1> QED
  BY <1>2, <1>6, <1>7, <1>8, <1>9, <1>10, <1>11, <1>12 DEF BusInv

(* The step adds no delivery, no request, no answer and no publication to  *)
(* the ones under way (a delivery may move on).                            *)
DeliversKept ==
    \A p : UnderWay(p)' /\ p.type = "DELIVER" =>
        \E o : UnderWay(o) /\ o.type = "DELIVER" /\ o.id = p.id /\ o.num = p.num
UpKept == \A s \in Sessions : \A p \in Range(up'[s]) : p.type = "REQREP" => p \in Range(up[s])
DownKept ==
    \A s \in Sessions : \A p \in Range(down'[s]) :
        p.type \in {"REQREP", "PUBSUB"} => p \in Range(down[s])
TasksDeliver == \A c \in Clients : \A p \in tasks'[c] : p.type = "DELIVER"

(* Such a step keeps routes, answers and publications. *)
LEMMA PackagesKept ==
    ASSUME BusInv, DeliversKept, UpKept, DownKept, TasksDeliver,
           UNCHANGED <<req, reused, route>>, deliverCache' \subseteq deliverCache
    PROVE  /\ PackagesOwned' /\ RouteOwned' /\ RouteExact'
           /\ AnswersOwned' /\ PublishedToDeliverers'
<1>1. \A q, s, i : Asked(q, s, i)' <=> Asked(q, s, i)
  BY DEF Asked
<1>2. \A s \in Sessions : \A p \in Range(up'[s]) : p.type = "REQREP" => ~p.base /\ Asked(p.num, s, p.id)'
  BY <1>1 DEF UpKept, BusInv, PackagesOwned
<1>3. \A p : UnderWay(p)' /\ p.type = "DELIVER" => p.num \in DOMAIN req
  BY DEF DeliversKept, BusInv, PackagesOwned
<1>4. PackagesOwned'
  BY <1>2, <1>3 DEF PackagesOwned, TasksDeliver
<1>5. RouteOwned'
  BY <1>1 DEF BusInv, RouteOwned
<1>6. RouteExact'
  BY <1>1 DEF BusInv, RouteExact, DeliversKept
<1>7. AnswersOwned'
  <2>1. SUFFICES ASSUME NEW s \in Sessions, NEW p \in Range(down'[s]), p.type = "REQREP"
                 PROVE  IF p.base THEN p.num = 0
                        ELSE /\ \E q : Asked(q, s, p.id)'
                             /\ \A q : Asked(q, s, p.id)' /\ q \notin reused' => p.num = q
    BY DEF AnswersOwned
  <2>2. p \in Range(down[s])
    BY <2>1 DEF DownKept
  <2> QED
    BY <1>1, <2>1, <2>2 DEF BusInv, AnswersOwned
<1>8. PublishedToDeliverers'
  BY DEF BusInv, PublishedToDeliverers, DownKept
<1> QED
  BY <1>4, <1>5, <1>6, <1>7, <1>8

-----------------------------------------------------------------------------
(***************************************************************************)
(* The clients                                                             *)
(***************************************************************************)

(* A step that gives no answer to a caller and publishes nothing to it. *)
LEMMA ResultsKept ==
    ASSUME BusInv, UNCHANGED <<outcome, reused, heard>>
    PROVE  OwnAnswer' /\ OnlyDeliverersHear'
BY DEF BusInv, OwnAnswer, Answered, OnlyDeliverersHear

(* The next id a client draws has the type of an id. *)
LEMMA NextId ==
    ASSUME BusInv, NEW c \in Clients, opened[c] + Len(req) + pubs < MaxFaults + 1 + MaxReq + MaxPub
    PROVE  lastId[c] + 1 \in Ids
<1>1. PICK l \in Nat, o \in Nat, n \in Nat, b \in Nat :
          l = lastId[c] /\ o = opened[c] /\ n = Len(req) /\ b = pubs
  <2>1. lastId[c] \in Nat /\ opened[c] \in Nat /\ pubs \in Nat
    BY Bounds DEF BusInv, TypeOK
  <2>2. Len(req) \in Nat
    BY LenProperties DEF BusInv, TypeOK
  <2> QED
    BY <2>1, <2>2
<1>2. l <= o + n + b
  BY <1>1 DEF BusInv, IdsDrawn
<1> QED
  BY <1>1, <1>2, Bounds, SMTT(60) DEF Ids

(* The fields of the requests. *)
LEMMA ReqFields ==
    ASSUME TypeOK, NEW q \in DOMAIN req
    PROVE  req[q].from \in Clients /\ req[q].id \in Ids /\ req[q].id \in Nat /\ req[q].session \in Sessions
<1>1. req \in Seq([from : Clients, id : Ids, session : Sessions])
  BY DEF TypeOK
<1>2. q \in 1..Len(req)
  BY <1>1
<1>3. req[q] \in [from : Clients, id : Ids, session : Sessions]
  BY <1>1, <1>2, ElementOfSeq, Zenon
<1> QED
  BY <1>3, Bounds DEF Ids

(* A client may draw ids, and forget requests. *)
LEMMA IdsGrow ==
    ASSUME BusInv, req' = req, NEW c \in Clients,
           lastId' \in [Clients -> Nat], lastId'[c] \in {lastId[c], lastId[c] + 1},
           \A d \in Clients : d # c => lastId'[d] = lastId[d],
           \A d \in Clients : open'[d] \subseteq open[d]
    PROVE  RequestsKnown'
<1>1. \A d \in Clients : lastId[d] \in Nat /\ lastId'[d] \in Nat
  BY DEF BusInv, TypeOK
<1>2. \A d \in Clients : lastId[d] <= lastId'[d]
  BY <1>1
<1>3. ASSUME NEW q \in DOMAIN req PROVE req[q].id <= lastId'[req[q].from]
  <2>1. req[q].from \in Clients /\ req[q].id \in Nat
    BY ReqFields DEF BusInv
  <2>2. req[q].id <= lastId[req[q].from]
    BY DEF BusInv, RequestsKnown
  <2> QED
    BY <1>1, <1>2, <2>1, <2>2
<1>4. \A d \in Clients : \A r \in open'[d] : r \in DOMAIN req /\ req[r].from = d
  BY DEF BusInv, RequestsKnown
<1> QED
  BY <1>3, <1>4 DEF BusInv, RequestsKnown

(* A client connects, and subscribes if it has handlers. *)
LEMMA ConnectInv ==
    ASSUME BusInv, NEW c \in Clients, Connect(c)
    PROVE  BusInv'
<1> USE DEF clientVars, roomVars, history
<1> DEFINE s == <<c, opened[c] + 1>>
<1>1. /\ s \in Sessions
      /\ opened' = [opened EXCEPT ![c] = @ + 1] /\ online' = [online EXCEPT ![c] = s]
      /\ room' = room \cup {s}
      /\ UNCHANGED <<open, tasks, heard, down, subs, deliverCache, subscribeCache, route, faults,
                     req, pubs, outcome, reused, served, arrived, routed>>
  BY DEF Connect
<1>2. s[1] = c /\ opened[c] \in Nat /\ opened[c] + 1 \in 1..(MaxFaults + 1)
  <2>1. s[2] = opened[c] + 1 /\ s[1] = c
    OBVIOUS
  <2>2. opened[c] \in Nat
    BY Bounds DEF BusInv, TypeOK
  <2> QED
    BY <1>1, <2>1, <2>2, Bounds
<1> HIDE DEF s
<1>3. Len(req) \in Nat /\ pubs \in Nat /\ Len(req) <= MaxReq /\ pubs <= MaxPub
  BY Bounds, LenProperties DEF BusInv, TypeOK, IdsDrawn
<1>4. lastId[c] \in Nat /\ lastId[c] + 1 \in Ids
  BY <1>2, <1>3, Bounds, NextId, SMTT(60) DEF BusInv, TypeOK
<1>5. /\ lastId' \in [Clients -> Nat] /\ lastId'[c] \in {lastId[c], lastId[c] + 1}
      /\ \A d \in Clients : d # c => lastId'[d] = lastId[d]
      /\ up' \in [Sessions -> Seq(Packages)]
      /\ \A t \in Sessions : \A p \in Range(up'[t]) : p \in Range(up[t]) \/ p.type = "SUB"
  <2>1. CASE HasHandlers(c)
    <3>1. lastId' = [lastId EXCEPT ![c] = @ + 1]
      BY <2>1 DEF Connect
    <3>2. up' = [up EXCEPT ![s] = <<Pac("SUB", lastId'[c], 0, TRUE)>>]
      BY <2>1 DEF Connect, s
    <3>3. lastId' \in [Clients -> Nat] /\ lastId'[c] = lastId[c] + 1
          /\ \A d \in Clients : d # c => lastId'[d] = lastId[d]
      BY <1>4, <3>1 DEF BusInv, TypeOK
    <3>4. PICK e \in Packages : e = Pac("SUB", lastId'[c], 0, TRUE) /\ e.type = "SUB"
      <4>1. PICK i \in Ids : i = lastId'[c]
        BY <1>4, <3>3
      <4>2. Pac("SUB", i, 0, TRUE) \in Packages /\ Pac("SUB", i, 0, TRUE).type = "SUB"
        BY DEF Pac, Packages
      <4> QED
        BY <4>1, <4>2
    <3>5. up' = [up EXCEPT ![s] = <<e>>] /\ <<e>> \in Seq(Packages)
      BY <3>2, <3>4, ChannelSmall
    <3>6. up' \in [Sessions -> Seq(Packages)]
      BY <1>1, <3>5 DEF BusInv, TypeOK
    <3>7. \A t \in Sessions : \A p \in Range(up'[t]) : p \in Range(up[t]) \/ p = e
      BY <1>1, <3>5, ChannelSmall DEF BusInv, TypeOK
    <3> QED
      BY <3>3, <3>4, <3>6, <3>7
  <2>2. CASE ~HasHandlers(c)
    BY <2>2 DEF Connect, BusInv, TypeOK
  <2> QED
    BY <2>1, <2>2
<1>6. TypeOK'
  <2>1. online' \in [Clients -> Sessions \cup {NoSession}] /\ room' \subseteq Sessions
    BY <1>1 DEF BusInv, TypeOK
  <2>2. opened' \in [Clients -> 0..(MaxFaults + 1)]
    BY <1>1, <1>2, Bounds DEF BusInv, TypeOK
  <2> QED
    BY <1>1, <1>5, <2>1, <2>2 DEF BusInv, TypeOK
<1>7. OwnSession'
  BY <1>1, <1>2 DEF BusInv, OwnSession, TypeOK
<1>8. IdsDrawn'
  <2>1. \A d \in Clients : lastId'[d] <= opened'[d] + Len(req) + pubs
    <3>1. SUFFICES ASSUME NEW d \in Clients PROVE lastId'[d] <= opened'[d] + Len(req) + pubs
      OBVIOUS
    <3>2. lastId[d] <= opened[d] + Len(req) + pubs /\ lastId[d] \in Nat /\ opened[d] \in Nat
      BY Bounds DEF BusInv, IdsDrawn, TypeOK
    <3>3. opened'[d] = IF d = c THEN opened[d] + 1 ELSE opened[d]
      BY <1>1 DEF BusInv, TypeOK
    <3> QED
      BY <1>3, <1>5, <3>2, <3>3
  <2> QED
    BY <1>1, <2>1 DEF BusInv, IdsDrawn
<1>9. RequestsKnown'
  BY <1>1, <1>5, <1>4, IdsGrow
<1>10. DeliversKept /\ UpKept /\ DownKept /\ TasksDeliver
  BY <1>1, <1>5 DEF DeliversKept, UpKept, DownKept, TasksDeliver, UnderWay, BusInv, PackagesOwned
<1>11. RouteCounted'
  BY <1>1 DEF BusInv, RouteCounted
<1> QED
  BY <1>1, <1>6, <1>7, <1>8, <1>9, <1>10, <1>11, PackagesKept, ResultsKept DEF BusInv

(* A connection breaks, and what the bus wrote is lost. *)
LEMMA DisconnectInv ==
    ASSUME BusInv, NEW c \in Clients, Disconnect(c)
    PROVE  BusInv'
<1> USE DEF clientVars, roomVars, history
<1>1. /\ online[c] # NoSession /\ faults' = faults + 1 /\ faults < MaxFaults
      /\ online' = [online EXCEPT ![c] = NoSession]
      /\ down' = [down EXCEPT ![online[c]] = <<>>]
      /\ UNCHANGED <<lastId, open, tasks, heard, up, roomVars, route, history>>
  BY DEF Disconnect
<1>2. PICK s \in Sessions : s = online[c]
  BY <1>1 DEF BusInv, TypeOK
<1>3. /\ down' \in [Sessions -> Seq(Packages)]
      /\ \A t \in Sessions : \A p \in Range(down'[t]) : p \in Range(down[t])
  <2>1. <<>> \in Seq(Packages)
    OBVIOUS
  <2> QED
    BY <1>1, <1>2, <2>1, ChannelSmall DEF BusInv, TypeOK
<1>4. TypeOK'
  <2>1. faults' \in 0..MaxFaults
    BY <1>1, Bounds DEF BusInv, TypeOK
  <2>2. online' \in [Clients -> Sessions \cup {NoSession}]
    BY <1>1 DEF BusInv, TypeOK
  <2> QED
    BY <1>1, <1>3, <2>1, <2>2 DEF BusInv, TypeOK
<1>5. OwnSession'
  BY <1>1 DEF BusInv, OwnSession, TypeOK
<1>6. IdsDrawn' /\ RequestsKnown' /\ RouteCounted'
  BY <1>1 DEF BusInv, IdsDrawn, RequestsKnown, RouteCounted
<1>7. DeliversKept /\ UpKept /\ DownKept /\ TasksDeliver
  BY <1>1, <1>3 DEF DeliversKept, UpKept, DownKept, TasksDeliver, UnderWay, BusInv, PackagesOwned
<1> QED
  BY <1>1, <1>4, <1>5, <1>6, <1>7, PackagesKept, ResultsKept DEF BusInv

(* A client publishes. *)
LEMMA PublishMessageInv ==
    ASSUME BusInv, NEW c \in Clients, PublishMessage(c)
    PROVE  BusInv'
<1> USE DEF clientVars, roomVars, history
<1>1. /\ online[c] # NoSession /\ pubs + 1 <= MaxPub /\ pubs' = pubs + 1
      /\ lastId' = [lastId EXCEPT ![c] = @ + 1]
      /\ up' = [up EXCEPT ![online[c]] = Append(@, Pac("PUBSUB", lastId'[c], pubs + 1, FALSE))]
      /\ UNCHANGED <<online, open, tasks, heard, down, roomVars, route, faults,
                     req, outcome, reused, served, arrived, routed>>
  BY DEF PublishMessage
<1>2. PICK s \in Sessions : s = online[c]
  BY <1>1 DEF BusInv, TypeOK
<1>3. /\ Len(req) \in Nat /\ pubs \in Nat /\ Len(req) <= MaxReq
      /\ opened[c] \in Nat /\ opened[c] <= MaxFaults + 1
  BY Bounds, LenProperties DEF BusInv, TypeOK, IdsDrawn
<1>4. lastId[c] \in Nat /\ lastId[c] + 1 \in Ids
  <2>1. opened[c] + Len(req) + pubs < MaxFaults + 1 + MaxReq + MaxPub
    BY <1>1, <1>3, Bounds
  <2> QED
    BY <2>1, NextId DEF BusInv, TypeOK
<1>5. /\ lastId' \in [Clients -> Nat] /\ lastId'[c] = lastId[c] + 1
      /\ \A d \in Clients : d # c => lastId'[d] = lastId[d]
  BY <1>1, <1>4 DEF BusInv, TypeOK
<1>6. PICK e \in Packages : e = Pac("PUBSUB", lastId'[c], pubs + 1, FALSE) /\ e.type = "PUBSUB"
  <2>1. PICK i \in Ids, n \in Nat : i = lastId'[c] /\ n = pubs + 1
    BY <1>3, <1>4, <1>5
  <2>2. Pac("PUBSUB", i, n, FALSE) \in Packages /\ Pac("PUBSUB", i, n, FALSE).type = "PUBSUB"
    BY DEF Pac, Packages
  <2> QED
    BY <2>1, <2>2
<1>7. /\ up' \in [Sessions -> Seq(Packages)]
      /\ \A t \in Sessions : \A p \in Range(up'[t]) : p \in Range(up[t]) \/ p = e
  <2>1. up[s] \in Seq(Packages) /\ up' = [up EXCEPT ![s] = Append(up[s], e)]
    BY <1>1, <1>2, <1>6 DEF BusInv, TypeOK
  <2>2. /\ Append(up[s], e) \in Seq(Packages)
        /\ \A p : p \in Range(Append(up[s], e)) => p \in Range(up[s]) \/ p = e
    BY <2>1, ChannelAppend
  <2> QED
    BY <2>1, <2>2 DEF BusInv, TypeOK
<1>8. TypeOK'
  <2>1. pubs' \in 0..MaxPub
    BY <1>1, <1>3, Bounds
  <2> QED
    BY <1>1, <1>5, <1>7, <2>1 DEF BusInv, TypeOK
<1>9. OwnSession' /\ RouteCounted'
  BY <1>1 DEF BusInv, OwnSession, RouteCounted
<1>10. IdsDrawn'
  <2>1. ASSUME NEW d \in Clients PROVE lastId'[d] <= opened[d] + Len(req) + pubs'
    <3>1. lastId[d] <= opened[d] + Len(req) + pubs /\ lastId[d] \in Nat /\ opened[d] \in Nat
      BY Bounds DEF BusInv, IdsDrawn, TypeOK
    <3> QED
      BY <1>1, <1>3, <1>5, <3>1
  <2> QED
    BY <1>1, <2>1 DEF BusInv, IdsDrawn
<1>11. RequestsKnown'
  BY <1>1, <1>5, IdsGrow
<1>12. DeliversKept /\ UpKept /\ DownKept /\ TasksDeliver
  BY <1>1, <1>6, <1>7 DEF DeliversKept, UpKept, DownKept, TasksDeliver, UnderWay, BusInv,
                          PackagesOwned
<1> QED
  BY <1>1, <1>8, <1>9, <1>10, <1>11, <1>12, PackagesKept, ResultsKept DEF BusInv

(* A stub answers a delivery with the header of the request. *)
LEMMA ReplyDeliverInv ==
    ASSUME BusInv, NEW c \in Clients, NEW pac \in tasks[c], ReplyDeliver(c, pac)
    PROVE  BusInv'
<1> USE DEF clientVars, roomVars, history
<1>1. /\ tasks' = [tasks EXCEPT ![c] = @ \ {pac}]
      /\ up' = IF online[c] = NoSession THEN up
               ELSE [up EXCEPT ![online[c]] = Append(@, [pac EXCEPT !.base = c \in BaseRepliers])]
      /\ UNCHANGED <<online, lastId, open, heard, down, roomVars, route, faults, history>>
  BY DEF ReplyDeliver
<1>2. pac \in Packages /\ pac.type = "DELIVER" /\ UnderWay(pac)
  BY DEF BusInv, TypeOK, PackagesOwned, UnderWay
<1>3. PICK e \in Packages : /\ e = [pac EXCEPT !.base = c \in BaseRepliers]
                            /\ e.type = "DELIVER" /\ e.id = pac.id /\ e.num = pac.num
  <2>1. (c \in BaseRepliers) \in BOOLEAN
    OBVIOUS
  <2>2. PICK b \in BOOLEAN : b = (c \in BaseRepliers)
    BY <2>1
  <2>3. [pac EXCEPT !.base = b] \in Packages /\ [pac EXCEPT !.base = b].type = pac.type
        /\ [pac EXCEPT !.base = b].id = pac.id /\ [pac EXCEPT !.base = b].num = pac.num
    BY <1>2 DEF Packages
  <2> QED
    BY <1>2, <2>2, <2>3
<1>4. /\ up' \in [Sessions -> Seq(Packages)]
      /\ \A t \in Sessions : \A p \in Range(up'[t]) : p \in Range(up[t]) \/ p = e
  <2>1. CASE online[c] = NoSession
    BY <1>1, <2>1 DEF BusInv, TypeOK
  <2>2. CASE online[c] # NoSession
    <3>1. PICK s \in Sessions : s = online[c]
      BY <2>2 DEF BusInv, TypeOK
    <3>2. up[s] \in Seq(Packages) /\ up' = [up EXCEPT ![s] = Append(up[s], e)]
      BY <1>1, <1>3, <2>2, <3>1 DEF BusInv, TypeOK
    <3>3. /\ Append(up[s], e) \in Seq(Packages)
          /\ \A p : p \in Range(Append(up[s], e)) => p \in Range(up[s]) \/ p = e
      BY <3>2, ChannelAppend
    <3> QED
      BY <3>2, <3>3 DEF BusInv, TypeOK
  <2> QED
    BY <2>1, <2>2
<1>5. tasks' \in [Clients -> SUBSET Packages] /\ \A d \in Clients : tasks'[d] \subseteq tasks[d]
  BY <1>1 DEF BusInv, TypeOK
<1>6. TypeOK'
  BY <1>1, <1>4, <1>5 DEF BusInv, TypeOK
<1>7. OwnSession' /\ IdsDrawn' /\ RequestsKnown' /\ RouteCounted'
  BY <1>1 DEF BusInv, OwnSession, IdsDrawn, RequestsKnown, RouteCounted
<1>8. DeliversKept
  <2>1. \A p : UnderWay(p)' => UnderWay(p) \/ p = e
    BY <1>1, <1>4, <1>5 DEF UnderWay
  <2> QED
    BY <1>2, <1>3, <2>1 DEF DeliversKept
<1>9. UpKept /\ DownKept /\ TasksDeliver
  BY <1>1, <1>3, <1>4, <1>5 DEF UpKept, DownKept, TasksDeliver, BusInv, PackagesOwned
<1> QED
  BY <1>1, <1>6, <1>7, <1>8, <1>9, PackagesKept, ResultsKept DEF BusInv

(* A request times out. *)
LEMMA TimeoutInv ==
    ASSUME BusInv, NEW c \in Clients, NEW r \in open[c], Timeout(c, r)
    PROVE  BusInv'
<1> USE DEF clientVars, roomVars, history
<1>1. /\ open' = [open EXCEPT ![c] = @ \ {r}] /\ outcome' = [outcome EXCEPT ![r] = TimedOut]
      /\ UNCHANGED <<online, lastId, tasks, heard, up, down, roomVars, route, faults,
                     req, pubs, reused, served, arrived, routed>>
  BY DEF Timeout
<1>2. TimedOut \in Nat /\ TimedOut \notin Requests /\ r \in Requests
  BY Bounds DEF TimedOut, Requests, BusInv, TypeOK
<1>3. TypeOK'
  BY <1>1, <1>2 DEF BusInv, TypeOK
<1>4. OwnSession' /\ IdsDrawn' /\ RouteCounted' /\ OnlyDeliverersHear'
  BY <1>1 DEF BusInv, OwnSession, IdsDrawn, RouteCounted, OnlyDeliverersHear
<1>5. RequestsKnown'
  BY <1>1 DEF BusInv, RequestsKnown, TypeOK
<1>6. DeliversKept /\ UpKept /\ DownKept /\ TasksDeliver
  BY <1>1 DEF DeliversKept, UpKept, DownKept, TasksDeliver, UnderWay, BusInv, PackagesOwned
<1>7. OwnAnswer'
  BY <1>1, <1>2 DEF BusInv, OwnAnswer, Answered, TypeOK
<1> QED
  BY <1>1, <1>3, <1>4, <1>5, <1>6, <1>7, PackagesKept DEF BusInv

(* A client posts a request: its id is new, so that nothing that is        *)
(* remembered or under way can be taken for it.                            *)
LEMMA PostMessageInv ==
    ASSUME BusInv, NEW c \in Clients, PostMessage(c)
    PROVE  BusInv'
<1> USE DEF clientVars, roomVars, history
<1>0. req \in Seq([from : Clients, id : Ids, session : Sessions])
  BY DEF BusInv, TypeOK
<1>1. /\ online[c] # NoSession /\ Len(req) + 1 \in Requests
      /\ lastId' = [lastId EXCEPT ![c] = @ + 1]
      /\ open' = [open EXCEPT ![c] = @ \cup {Len(req) + 1}]
      /\ req' = Append(req, [from |-> c, id |-> lastId'[c], session |-> online[c]])
      /\ up' = [up EXCEPT ![online[c]] = Append(@, Pac("REQREP", lastId'[c], Len(req) + 1, FALSE))]
      /\ UNCHANGED <<online, tasks, heard, down, roomVars, route, faults,
                     pubs, outcome, reused, served, arrived, routed>>
  BY DEF PostMessage
<1>2. PICK s \in Sessions : s = online[c] /\ s[1] = c
  BY <1>1 DEF BusInv, TypeOK, OwnSession
<1>3. /\ Len(req) \in Nat /\ pubs \in Nat /\ Len(req) + 1 <= MaxReq /\ pubs <= MaxPub
      /\ opened[c] \in Nat /\ opened[c] <= MaxFaults + 1
  BY <1>0, <1>1, Bounds DEF BusInv, TypeOK, Requests
<1>4. PICK l \in Nat : l = lastId[c] /\ l + 1 \in Ids
  <2>1. opened[c] + Len(req) + pubs < MaxFaults + 1 + MaxReq + MaxPub
    BY <1>3, Bounds
  <2> QED
    BY <2>1, NextId DEF BusInv, TypeOK
<1>5. /\ lastId' \in [Clients -> Nat] /\ lastId'[c] = l + 1
      /\ \A d \in Clients : d # c => lastId'[d] = lastId[d]
  BY <1>1, <1>4, SMTT(60) DEF BusInv, TypeOK
<1>6. PICK r \in Nat : r = Len(req) + 1 /\ r \in Requests
  BY <1>1, <1>3
<1>7. PICK e \in Packages :
          /\ e = Pac("REQREP", lastId'[c], Len(req) + 1, FALSE)
          /\ e.type = "REQREP" /\ e.id = l + 1 /\ e.num = r /\ ~e.base
  <2>1. PICK i \in Ids : i = l + 1
    BY <1>4
  <2>2. /\ Pac("REQREP", i, r, FALSE) \in Packages /\ Pac("REQREP", i, r, FALSE).type = "REQREP"
        /\ Pac("REQREP", i, r, FALSE).id = i /\ Pac("REQREP", i, r, FALSE).num = r
        /\ ~Pac("REQREP", i, r, FALSE).base
    BY DEF Pac, Packages
  <2> QED
    BY <1>5, <1>6, <2>1, <2>2
<1>8. /\ up' \in [Sessions -> Seq(Packages)]
      /\ \A t \in Sessions : \A p \in Range(up'[t]) : p \in Range(up[t]) \/ (p = e /\ t = s)
  <2>1. up[s] \in Seq(Packages) /\ up' = [up EXCEPT ![s] = Append(up[s], e)]
    BY <1>1, <1>2, <1>7 DEF BusInv, TypeOK
  <2>2. /\ Append(up[s], e) \in Seq(Packages)
        /\ \A p : p \in Range(Append(up[s], e)) => p \in Range(up[s]) \/ p = e
    BY <2>1, ChannelAppend
  <2> QED
    BY <2>1, <2>2 DEF BusInv, TypeOK
<1>9. PICK x \in [from : Clients, id : Ids, session : Sessions] :
          /\ req' = Append(req, x)
          /\ x.from = c /\ x.id = l + 1 /\ x.session = s
  <2>1. [from |-> c, id |-> lastId'[c], session |-> online[c]]
            \in [from : Clients, id : Ids, session : Sessions]
    BY <1>2, <1>4, <1>5
  <2> QED
    BY <1>1, <1>2, <1>5, <2>1
<1>10. /\ req' \in Seq([from : Clients, id : Ids, session : Sessions])
       /\ DOMAIN req' = DOMAIN req \cup {r} /\ r \notin DOMAIN req /\ Len(req') = r
       /\ \A q \in DOMAIN req : req'[q] = req[q]
       /\ req'[r] = x
  BY <1>0, <1>3, <1>6, <1>9
<1>11. TypeOK'
  <2>1. open' \in [Clients -> SUBSET Requests]
    BY <1>1, <1>6 DEF BusInv, TypeOK
  <2> QED
    BY <1>1, <1>5, <1>8, <1>10, <2>1 DEF BusInv, TypeOK
<1>12. OwnSession' /\ RouteCounted'
  BY <1>1 DEF BusInv, OwnSession, RouteCounted
<1>13. IdsDrawn'
  <2>1. ASSUME NEW d \in Clients PROVE lastId'[d] <= opened[d] + Len(req') + pubs
    <3>1. lastId[d] <= opened[d] + Len(req) + pubs /\ lastId[d] \in Nat /\ opened[d] \in Nat
      BY Bounds DEF BusInv, IdsDrawn, TypeOK
    <3>2. Len(req') = Len(req) + 1
      BY <1>6, <1>10
    <3>3. CASE d = c
      BY <1>3, <1>4, <1>5, <3>1, <3>2, <3>3
    <3>4. CASE d # c
      BY <1>3, <1>5, <3>1, <3>2, <3>4
    <3> QED
      BY <3>3, <3>4
  <2> QED
    BY <1>1, <1>3, <1>6, <1>10, <2>1 DEF BusInv, IdsDrawn
<1>14. \A q \in DOMAIN req : /\ req[q].from \in Clients /\ req[q].id \in Nat
                             /\ req[q].id <= lastId[req[q].from]
                             /\ req[q].from = c => req[q].id <= l /\ req[q].id # l + 1
  <2>1. \A q \in DOMAIN req : req[q].from \in Clients /\ req[q].id \in Nat
    BY ReqFields DEF BusInv
  <2>2. \A q \in DOMAIN req : req[q].id <= lastId[req[q].from]
    BY DEF BusInv, RequestsKnown
  <2>3. \A q \in DOMAIN req : req[q].from = c => req[q].id <= l
    BY <1>4, <2>2
  <2> QED
    BY <2>1, <2>2, <2>3
<1>15. RequestsKnown'
  <2>1. ASSUME NEW q \in DOMAIN req'
        PROVE  req'[q].session[1] = req'[q].from /\ req'[q].id <= lastId'[req'[q].from]
    <3>1. CASE q = r
      BY <1>2, <1>5, <1>9, <1>10, <3>1
    <3>2. CASE q \in DOMAIN req
      <4>1. lastId[req[q].from] \in Nat /\ lastId[req[q].from] <= lastId'[req[q].from]
            /\ lastId'[req[q].from] \in Nat
        <5>1. \A d \in Clients : lastId[d] \in Nat /\ lastId'[d] \in Nat
          BY <1>5 DEF BusInv, TypeOK
        <5>2. \A d \in Clients : lastId[d] <= lastId'[d]
          BY <1>4, <1>5, <5>1
        <5> QED
          BY <1>14, <3>2, <5>1, <5>2
      <4>2. req[q].id <= lastId'[req[q].from]
        BY <1>14, <3>2, <4>1
      <4> QED
        BY <1>10, <3>2, <4>2 DEF BusInv, RequestsKnown
    <3> QED
      BY <1>10, <3>1, <3>2
  <2>2. ASSUME NEW q \in DOMAIN req', NEW k \in DOMAIN req',
               req'[q].from = req'[k].from, req'[q].id = req'[k].id
        PROVE  q = k
    <3>1. \A m \in DOMAIN req : ~(req[m].from = x.from /\ req[m].id = x.id)
      BY <1>9, <1>14
    <3> QED
      BY <1>10, <2>2, <3>1 DEF BusInv, RequestsKnown
  <2>3. ASSUME NEW d \in Clients, NEW m \in open'[d] PROVE m \in DOMAIN req' /\ req'[m].from = d
    <3>1. m \in open[d] \/ (d = c /\ m = r)
      BY <1>1, <1>6 DEF BusInv, TypeOK
    <3> QED
      BY <1>9, <1>10, <3>1 DEF BusInv, RequestsKnown
  <2> QED
    BY <2>1, <2>2, <2>3 DEF RequestsKnown
(* Nobody asked with the new id over this session before. *)
<1>16. \A q, t, i : Asked(q, t, i)' <=> Asked(q, t, i) \/ (q = r /\ t = s /\ i = l + 1)
  BY <1>9, <1>10 DEF Asked
<1>17. \A q : ~Asked(q, s, l + 1)
  BY <1>2, <1>14 DEF Asked, BusInv, RequestsKnown
<1>18. \A p : UnderWay(p)' => UnderWay(p) \/ p = e
  BY <1>1, <1>8 DEF UnderWay
<1>19. PackagesOwned'
  <2>1. \A t \in Sessions : \A p \in Range(up'[t]) :
            p.type = "REQREP" => ~p.base /\ Asked(p.num, t, p.id)'
    BY <1>7, <1>8, <1>16 DEF BusInv, PackagesOwned
  <2>2. \A p : UnderWay(p)' /\ p.type = "DELIVER" => p.num \in DOMAIN req'
    BY <1>7, <1>10, <1>18 DEF BusInv, PackagesOwned
  <2> QED
    BY <1>1, <2>1, <2>2 DEF BusInv, PackagesOwned
<1>20. RouteOwned'
  BY <1>1, <1>16 DEF BusInv, RouteOwned
<1>21. RouteExact'
  <2>1. SUFFICES ASSUME NEW i \in Ids, NEW q, Asked(q, route[i], i)', q \notin reused,
                        NEW p, UnderWay(p)', p.type = "DELIVER", p.id = i
                 PROVE  p.num = q
    BY <1>1 DEF RouteExact
  <2>2. UnderWay(p)
    BY <1>7, <1>18, <2>1
  <2>3. CASE Asked(q, route[i], i)
    BY <2>1, <2>2, <2>3 DEF BusInv, RouteExact
  <2>4. CASE route[i] = s /\ i = l + 1
    BY <1>17, <2>4, Bounds DEF BusInv, RouteOwned
  <2>5. q \in DOMAIN req' /\ req'[q].session = route[i] /\ req'[q].id = i
    BY <1>1, <2>1 DEF Asked
  <2>6. Asked(q, route[i], i) \/ (route[i] = s /\ i = l + 1)
    BY <1>9, <1>10, <2>5 DEF Asked
  <2> QED
    BY <2>3, <2>4, <2>6
<1>22. AnswersOwned'
  <2>1. SUFFICES ASSUME NEW t \in Sessions, NEW p \in Range(down[t]), p.type = "REQREP", ~p.base
                 PROVE  /\ \E q : Asked(q, t, p.id)'
                        /\ \A q : Asked(q, t, p.id)' /\ q \notin reused => p.num = q
    BY <1>1 DEF BusInv, AnswersOwned
  <2>2. /\ \E q : Asked(q, t, p.id)
        /\ \A q : Asked(q, t, p.id) /\ q \notin reused => p.num = q
    BY <2>1 DEF BusInv, AnswersOwned
  <2>3. ~(t = s /\ p.id = l + 1)
    BY <1>17, <2>2
  <2> QED
    BY <1>16, <2>2, <2>3
<1>23. PublishedToDeliverers'
  BY <1>1 DEF BusInv, PublishedToDeliverers
<1> QED
  BY <1>1, <1>11, <1>12, <1>13, <1>15, <1>19, <1>20, <1>21, <1>22, <1>23, ResultsKept DEF BusInv

(* The response thread takes a package: an answer is for the request of    *)
(* its id, a delivery goes to the stub's pool, a publication is heard.     *)
LEMMA DoResponseInv ==
    ASSUME BusInv, NEW c \in Clients, DoResponse(c)
    PROVE  BusInv'
<1> USE DEF clientVars, roomVars, history
<1>1. /\ online[c] # NoSession /\ down[online[c]] # <<>>
      /\ down' = [down EXCEPT ![online[c]] = Tail(@)]
      /\ IF Head(down[online[c]]).type = "REQREP" THEN OnAnswer(c, Head(down[online[c]]))
         ELSE OnPackage(c, Head(down[online[c]]))
      /\ UNCHANGED <<online, lastId, up, roomVars, route, faults,
                     req, pubs, reused, served, arrived, routed>>
  BY DEF DoResponse
<1>2. PICK s \in Sessions : s = online[c] /\ s[1] = c
  BY <1>1 DEF BusInv, TypeOK, OwnSession
<1>3. down[s] \in Seq(Packages) /\ down[s] # <<>>
  BY <1>1, <1>2 DEF BusInv, TypeOK
<1>4. /\ Tail(down[s]) \in Seq(Packages) /\ Head(down[s]) \in Packages
      /\ Head(down[s]) \in Range(down[s])
      /\ \A p \in Range(Tail(down[s])) : p \in Range(down[s])
  BY <1>3, ChannelTail
<1>5. PICK pac \in Packages : pac = Head(down[s]) /\ pac \in Range(down[s])
  BY <1>4
<1>6. /\ down' \in [Sessions -> Seq(Packages)]
      /\ \A t \in Sessions : \A p \in Range(down'[t]) : p \in Range(down[t])
  BY <1>1, <1>2, <1>4 DEF BusInv, TypeOK
<1>7. pac.num \in Nat
  BY Fields
<1>8. OwnSession' /\ IdsDrawn' /\ RouteCounted'
  BY <1>1 DEF BusInv, OwnSession, IdsDrawn, RouteCounted
<1>9. UpKept /\ DownKept
  BY <1>1, <1>6 DEF UpKept, DownKept
<1>10. CASE pac.type = "REQREP"
  <2> DEFINE own == {r \in open[c] : req[r].id = pac.id}
  <2>1. /\ open' = [open EXCEPT ![c] = @ \ own]
        /\ outcome' = [r \in Requests |-> IF r \in own THEN pac.num ELSE outcome[r]]
        /\ UNCHANGED <<tasks, heard>>
    BY <1>1, <1>2, <1>5, <1>10 DEF OnAnswer
  <2> HIDE DEF own
  <2>2. TypeOK'
    <3>1. open' \in [Clients -> SUBSET Requests]
      BY <2>1 DEF BusInv, TypeOK
    <3>2. outcome' \in [Requests -> Nat]
      BY <1>7, <2>1 DEF BusInv, TypeOK
    <3> QED
      BY <1>1, <1>6, <2>1, <3>1, <3>2 DEF BusInv, TypeOK
  <2>3. RequestsKnown'
    BY <1>1, <2>1 DEF BusInv, RequestsKnown, TypeOK
  <2>4. DeliversKept /\ TasksDeliver
    BY <1>1, <1>6, <2>1 DEF DeliversKept, TasksDeliver, UnderWay, BusInv, PackagesOwned
  <2>5. OnlyDeliverersHear'
    BY <2>1 DEF BusInv, OnlyDeliverersHear
  <2>6. OwnAnswer'
    <3>1. SUFFICES ASSUME NEW r \in Requests, outcome'[r] \in Requests, outcome'[r] # r,
                          r \notin reused
                   PROVE  FALSE
      BY <1>1 DEF OwnAnswer, Answered
    <3>2. CASE r \notin own
      BY <2>1, <3>1, <3>2 DEF BusInv, OwnAnswer, Answered
    <3>3. CASE r \in own
      <4>1. /\ r \in DOMAIN req /\ req[r].from = c /\ req[r].id = pac.id
            /\ outcome'[r] = pac.num
        BY <2>1, <3>1, <3>3 DEF own, BusInv, RequestsKnown
      <4>2. pac.num # 0
        BY <3>1, <4>1, Bounds DEF Requests
      <4>3. ~pac.base
        BY <1>5, <1>10, <4>2 DEF BusInv, AnswersOwned
      <4>4. PICK q : Asked(q, s, pac.id)
        BY <1>5, <1>10, <4>3 DEF BusInv, AnswersOwned
      <4>5. q = r
        BY <1>2, <4>1, <4>4 DEF Asked, BusInv, RequestsKnown
      <4>6. pac.num = r
        BY <1>5, <1>10, <3>1, <4>3, <4>4, <4>5 DEF BusInv, AnswersOwned
      <4> QED
        BY <3>1, <4>1, <4>6
    <3> QED
      BY <3>2, <3>3
  <2> QED
    BY <1>1, <1>8, <1>9, <2>2, <2>3, <2>4, <2>5, <2>6, PackagesKept DEF BusInv
<1>11. CASE pac.type # "REQREP"
  <2>1. /\ tasks' = IF pac.type = "DELIVER" /\ c \in Deliverers
                    THEN [tasks EXCEPT ![c] = @ \cup {pac}] ELSE tasks
        /\ heard' = IF pac.type = "PUBSUB" /\ c \in Listeners
                    THEN [heard EXCEPT ![c] = Append(@, pac.num)] ELSE heard
        /\ UNCHANGED <<open, outcome>>
    BY <1>1, <1>2, <1>5, <1>11 DEF OnPackage
  <2>2. /\ tasks' \in [Clients -> SUBSET Packages]
        /\ \A d \in Clients : \A p \in tasks'[d] :
               p \in tasks[d] \/ (p = pac /\ pac.type = "DELIVER")
    <3>1. CASE pac.type = "DELIVER" /\ c \in Deliverers
      BY <2>1, <3>1 DEF BusInv, TypeOK
    <3>2. CASE ~(pac.type = "DELIVER" /\ c \in Deliverers)
      BY <2>1, <3>2 DEF BusInv, TypeOK
    <3> QED
      BY <3>1, <3>2
  <2>3. /\ heard' \in [Clients -> Seq(Nat)]
        /\ \A d \in Clients : heard'[d] = heard[d] \/ (d = c /\ pac.type = "PUBSUB")
    <3>1. CASE pac.type = "PUBSUB" /\ c \in Listeners
      <4>1. heard[c] \in Seq(Nat)
        BY DEF BusInv, TypeOK
      <4>2. Append(heard[c], pac.num) \in Seq(Nat)
        BY <1>7, <4>1
      <4> QED
        BY <2>1, <3>1, <4>2 DEF BusInv, TypeOK
    <3>2. CASE ~(pac.type = "PUBSUB" /\ c \in Listeners)
      BY <2>1, <3>2 DEF BusInv, TypeOK
    <3> QED
      BY <3>1, <3>2
  <2>4. TypeOK'
    BY <1>1, <1>6, <2>1, <2>2, <2>3 DEF BusInv, TypeOK
  <2>5. RequestsKnown' /\ OwnAnswer'
    BY <1>1, <2>1 DEF BusInv, RequestsKnown, OwnAnswer, Answered
  <2>6. DeliversKept /\ TasksDeliver
    <3>1. UnderWay(pac)
      BY <1>5 DEF UnderWay
    <3>2. \A p : UnderWay(p)' => UnderWay(p)
      BY <1>1, <1>6, <2>2, <3>1 DEF UnderWay
    <3> QED
      BY <2>2, <3>2 DEF DeliversKept, TasksDeliver, BusInv, PackagesOwned
  <2>7. OnlyDeliverersHear'
    <3>1. pac.type = "PUBSUB" => c \in Deliverers
      BY <1>2, <1>5 DEF BusInv, PublishedToDeliverers
    <3> QED
      BY <2>3, <3>1 DEF BusInv, OnlyDeliverersHear
  <2> QED
    BY <1>1, <1>8, <1>9, <2>4, <2>5, <2>6, <2>7, PackagesKept DEF BusInv
<1> QED
  BY <1>10, <1>11

-----------------------------------------------------------------------------
(***************************************************************************)
(* The bus                                                                 *)
(***************************************************************************)

(* A session leaves, with what it had written. *)
LEMMA LeaveInv ==
    ASSUME BusInv, NEW s \in Sessions, Leave(s)
    PROVE  BusInv'
<1> USE DEF clientVars, roomVars, history
<1>1. /\ room' = room \ {s} /\ deliverCache' = deliverCache \ {s}
      /\ subscribeCache' = subscribeCache \ {s} /\ up' = [up EXCEPT ![s] = <<>>]
      /\ UNCHANGED <<clientVars, down, subs, opened, route, faults, history>>
  BY DEF Leave
<1>2. /\ up' \in [Sessions -> Seq(Packages)]
      /\ \A t \in Sessions : \A p \in Range(up'[t]) : p \in Range(up[t])
  <2>1. <<>> \in Seq(Packages)
    OBVIOUS
  <2> QED
    BY <1>1, <2>1, ChannelSmall DEF BusInv, TypeOK
<1>3. TypeOK'
  BY <1>1, <1>2 DEF BusInv, TypeOK
<1>4. OwnSession' /\ IdsDrawn' /\ RequestsKnown' /\ RouteCounted'
  BY <1>1 DEF BusInv, OwnSession, IdsDrawn, RequestsKnown, RouteCounted
<1>5. DeliversKept /\ UpKept /\ DownKept /\ TasksDeliver
  BY <1>1, <1>2 DEF DeliversKept, UpKept, DownKept, TasksDeliver, UnderWay, BusInv, PackagesOwned
<1> QED
  BY <1>1, <1>3, <1>4, <1>5, PackagesKept, ResultsKept DEF BusInv

(* doSubscribe() records a deliverer and answers with a message of         *)
(* ProtoBase.                                                              *)
LEMMA DoSubscribeInv ==
    ASSUME BusInv, NEW sub \in subs, DoSubscribe(sub)
    PROVE  BusInv'
<1> USE DEF clientVars, roomVars, history
<1>1. sub.session \in Sessions /\ sub.id \in Ids
  BY DEF BusInv, TypeOK
<1>2. /\ subs' = subs \ {sub}
      /\ deliverCache' = IF sub.session[1] \in Deliverers THEN deliverCache \cup {sub.session}
                         ELSE deliverCache
      /\ subscribeCache' = IF sub.session[1] \in Listeners THEN subscribeCache \cup {sub.session}
                           ELSE subscribeCache
      /\ down' = deliverPackage(down, {sub.session}, Pac("REQREP", sub.id, 0, TRUE))
      /\ UNCHANGED <<clientVars, up, room, opened, route, faults, history>>
  BY DEF DoSubscribe
<1>3. PICK e \in Packages : /\ e = Pac("REQREP", sub.id, 0, TRUE)
                            /\ e.type = "REQREP" /\ e.num = 0 /\ e.base
  <2>1. PICK i \in Ids : i = sub.id
    BY <1>1
  <2>2. /\ Pac("REQREP", i, 0, TRUE) \in Packages /\ Pac("REQREP", i, 0, TRUE).type = "REQREP"
        /\ Pac("REQREP", i, 0, TRUE).num = 0 /\ Pac("REQREP", i, 0, TRUE).base
    BY DEF Pac, Packages
  <2> QED
    BY <2>1, <2>2
<1>4. down \in [Sessions -> Seq(Packages)] /\ down' = deliverPackage(down, {sub.session}, e)
  BY <1>2, <1>3 DEF BusInv, TypeOK
<1>5. /\ down' \in [Sessions -> Seq(Packages)]
      /\ \A t \in Sessions : \A p \in Range(down'[t]) : p \in Range(down[t]) \/ p = e
  <2> DEFINE after == deliverPackage(down, {sub.session}, e)
  <2>1. /\ after \in [Sessions -> Seq(Packages)]
        /\ \A t \in Sessions : \A p \in Range(after[t]) :
               p \in Range(down[t]) \/ (p = e /\ t \in {sub.session})
    BY <1>4, Delivered
  <2> HIDE DEF after
  <2>2. down' = after
    BY <1>4 DEF after
  <2> QED
    BY <2>1, <2>2
<1>6. TypeOK'
  BY <1>1, <1>2, <1>5 DEF BusInv, TypeOK
<1>7. OwnSession' /\ IdsDrawn' /\ RequestsKnown' /\ RouteCounted' /\ RouteOwned'
  BY <1>2 DEF BusInv, OwnSession, IdsDrawn, RequestsKnown, RouteCounted, RouteOwned, Asked
<1>8. \A p : UnderWay(p)' /\ p.type = "DELIVER" => UnderWay(p)
  BY <1>2, <1>3, <1>5 DEF UnderWay
<1>9. PackagesOwned'
  BY <1>2, <1>8 DEF BusInv, PackagesOwned, Asked
<1>10. RouteExact'
  BY <1>2, <1>8 DEF BusInv, RouteExact, Asked
<1>11. AnswersOwned'
  <2>1. SUFFICES ASSUME NEW t \in Sessions, NEW p \in Range(down'[t]), p.type = "REQREP"
                 PROVE  IF p.base THEN p.num = 0
                        ELSE /\ \E q : Asked(q, t, p.id)'
                             /\ \A q : Asked(q, t, p.id)' /\ q \notin reused' => p.num = q
    BY DEF AnswersOwned
  <2>2. CASE p \in Range(down[t])
    <3>1. \A q, u, i : Asked(q, u, i)' <=> Asked(q, u, i)
      BY <1>2 DEF Asked
    <3> QED
      BY <1>2, <2>1, <2>2, <3>1 DEF BusInv, AnswersOwned
  <2>3. CASE p = e
    BY <1>3, <2>3
  <2> QED
    BY <1>5, <2>2, <2>3
<1>12. PublishedToDeliverers'
  <2>1. \A s \in deliverCache' : s[1] \in Deliverers
    BY <1>2 DEF BusInv, PublishedToDeliverers
  <2> QED
    BY <1>3, <1>5, <2>1 DEF BusInv, PublishedToDeliverers
<1> QED
  BY <1>2, <1>6, <1>7, <1>9, <1>10, <1>11, <1>12, ResultsKept DEF BusInv

(* The bus reads packages: it adds none to those that come to it. *)
PackageRead ==
    /\ up' \in [Sessions -> Seq(Packages)]
    /\ \A t \in Sessions : \A p \in Range(up'[t]) : p \in Range(up[t])

(* preHandleMessage() of a request: its session is remembered, and the     *)
(* request is delivered.                                                   *)
LEMMA HandleRequestInv ==
    ASSUME BusInv, NEW s \in Sessions, NEW pac \in Packages, pac \in Range(up[s]),
           ~pac.base, pac.type = "REQREP", HandleRequest(s, pac), PackageRead,
           UNCHANGED <<clientVars, room, deliverCache, subscribeCache, opened, faults,
                       req, pubs, outcome>>
    PROVE  BusInv'
<1> USE DEF clientVars, PackageRead
<1> DEFINE e == [pac EXCEPT !.type = "DELIVER"]
<1>1. /\ route' = [route EXCEPT ![pac.id] = s]
      /\ down' = deliverPackage(down, deliverCache, e)
      /\ arrived' = [arrived EXCEPT ![pac.id] = @ + 1]
      /\ reused' = IF IdInUse(pac.id) THEN reused \cup {pac.num} ELSE reused
      /\ served' = [served EXCEPT ![pac.num] = {t \in deliverCache \cap room :
                                                   Attached(t) /\ t[1] \notin BaseRepliers}]
      /\ UNCHANGED <<subs, routed>>
  BY DEF HandleRequest
<1>2. /\ e \in Packages /\ e.type = "DELIVER" /\ e.id = pac.id /\ e.num = pac.num
      /\ pac.id \in Ids
  BY DEF Packages
<1> HIDE DEF e
<1>3. down' \in [Sessions -> Seq(Packages)]
      /\ \A t \in Sessions : \A p \in Range(down'[t]) : p \in Range(down[t]) \/ p = e
  <2> DEFINE after == deliverPackage(down, deliverCache, e)
  <2>1. down \in [Sessions -> Seq(Packages)]
    BY DEF BusInv, TypeOK
  <2>2. /\ after \in [Sessions -> Seq(Packages)]
        /\ \A t \in Sessions : \A p \in Range(after[t]) :
               p \in Range(down[t]) \/ (p = e /\ t \in deliverCache)
    BY <1>2, <2>1, Delivered
  <2> HIDE DEF after
  <2>3. down' = after
    BY <1>1 DEF after
  <2> QED
    BY <2>2, <2>3
<1>4. Asked(pac.num, s, pac.id) /\ pac.num \in Requests
  <2>1. Asked(pac.num, s, pac.id)
    BY DEF BusInv, PackagesOwned
  <2>2. req \in Seq([from : Clients, id : Ids, session : Sessions]) /\ Len(req) <= MaxReq
    BY DEF BusInv, TypeOK, IdsDrawn
  <2>3. pac.num \in 1..Len(req)
    BY <2>1, <2>2 DEF Asked
  <2> QED
    BY <2>1, <2>2, <2>3, Bounds DEF Requests
<1>5. \A q : Asked(q, s, pac.id) => q = pac.num
  BY <1>4 DEF Asked, BusInv, RequestsKnown
<1>6. \A q, t, i : Asked(q, t, i)' <=> Asked(q, t, i)
  BY DEF Asked
<1>7. \A p : UnderWay(p)' => UnderWay(p) \/ p = e
  BY <1>3 DEF UnderWay
<1>8. TypeOK'
  <2>1. route' \in [Ids -> Sessions \cup {NoSession}] /\ arrived' \in [Ids -> Nat]
    BY <1>1, <1>2 DEF BusInv, TypeOK
  <2>2. reused' \subseteq Requests
    BY <1>1, <1>4 DEF BusInv, TypeOK
  <2>3. served' \in [Requests -> SUBSET Sessions]
    <3>1. {t \in deliverCache \cap room : Attached(t) /\ t[1] \notin BaseRepliers} \in SUBSET Sessions
      BY DEF BusInv, TypeOK
    <3> QED
      BY <1>1, <1>4, <3>1 DEF BusInv, TypeOK
  <2> QED
    BY <1>1, <1>3, <2>1, <2>2, <2>3 DEF BusInv, TypeOK
<1>9. OwnSession' /\ IdsDrawn' /\ RequestsKnown'
  BY DEF BusInv, OwnSession, IdsDrawn, RequestsKnown
<1>10. PackagesOwned'
  <2>1. \A t \in Sessions : \A p \in Range(up'[t]) :
            p.type = "REQREP" => ~p.base /\ Asked(p.num, t, p.id)'
    BY <1>6 DEF BusInv, PackagesOwned
  <2>2. \A p : UnderWay(p)' /\ p.type = "DELIVER" => p.num \in DOMAIN req
    BY <1>2, <1>4, <1>7 DEF BusInv, PackagesOwned, Asked
  <2> QED
    BY <2>1, <2>2 DEF BusInv, PackagesOwned
<1>11. /\ route'[pac.id] = s /\ \A i \in Ids : i # pac.id => route'[i] = route[i]
       /\ arrived'[pac.id] = arrived[pac.id] + 1
       /\ \A i \in Ids : i # pac.id => arrived'[i] = arrived[i]
  BY <1>1, <1>2 DEF BusInv, TypeOK
<1>12. RouteOwned'
  <2>1. SUFFICES ASSUME NEW i \in Ids, route'[i] # NoSession
                 PROVE  \E q : q \in DOMAIN req' /\ req'[q].session = route'[i] /\ req'[q].id = i
    BY DEF RouteOwned, Asked
  <2>2. CASE i = pac.id
    BY <1>4, <1>11, <2>2 DEF Asked
  <2>3. CASE i # pac.id
    BY <1>11, <2>1, <2>3 DEF BusInv, RouteOwned, Asked
  <2> QED
    BY <2>2, <2>3
<1>13. RouteCounted'
  <2>1. SUFFICES ASSUME NEW i \in Ids
                 PROVE  routed[i] + (IF route'[i] # NoSession THEN 1 ELSE 0) <= arrived'[i]
    BY <1>1 DEF RouteCounted
  <2>2. routed[i] \in Nat /\ arrived[i] \in Nat
        /\ routed[i] + (IF route[i] # NoSession THEN 1 ELSE 0) <= arrived[i]
    BY DEF BusInv, TypeOK, RouteCounted
  <2>3. CASE i = pac.id
    BY <1>11, <2>2, <2>3
  <2>4. CASE i # pac.id
    BY <1>11, <2>2, <2>4
  <2> QED
    BY <2>3, <2>4
(* A request whose id is free is the only one with that id under way. *)
<1>14. pac.num \notin reused' => \A p : UnderWay(p) /\ p.type = "DELIVER" => p.id # pac.id
  <2>1. SUFFICES ASSUME pac.num \notin reused', NEW p, UnderWay(p), p.type = "DELIVER",
                        p.id = pac.id
                 PROVE  FALSE
    OBVIOUS
  <2>2. ~IdInUse(pac.id)
    BY <1>1, <2>1
  <2>3. p \in Everywhere
    BY <2>1 DEF UnderWay, Everywhere
  <2> QED
    BY <2>1, <2>2, <2>3 DEF IdInUse
<1>15. RouteExact'
  <2>1. SUFFICES ASSUME NEW i \in Ids, NEW q, q \in DOMAIN req, req[q].session = route'[i],
                        req[q].id = i, q \notin reused',
                        NEW p, UnderWay(p)', p.type = "DELIVER", p.id = i
                 PROVE  p.num = q
    BY DEF RouteExact, Asked
  <2>2. CASE i = pac.id
    <3>1. q = pac.num
      BY <1>5, <1>11, <2>1, <2>2 DEF Asked
    <3>2. p = e
      BY <1>7, <1>14, <2>1, <2>2, <3>1
    <3> QED
      BY <1>2, <3>1, <3>2
  <2>3. CASE i # pac.id
    <3>1. UnderWay(p)
      BY <1>2, <1>7, <2>1, <2>3
    <3>2. Asked(q, route[i], i) /\ q \notin reused
      BY <1>1, <1>11, <2>1, <2>3 DEF Asked
    <3> QED
      BY <2>1, <3>1, <3>2 DEF BusInv, RouteExact
  <2> QED
    BY <2>2, <2>3
<1>16. AnswersOwned'
  <2>1. SUFFICES ASSUME NEW t \in Sessions, NEW p \in Range(down'[t]), p.type = "REQREP"
                 PROVE  IF p.base THEN p.num = 0
                        ELSE /\ \E q : Asked(q, t, p.id)'
                             /\ \A q : Asked(q, t, p.id)' /\ q \notin reused' => p.num = q
    BY DEF AnswersOwned
  <2>2. p \in Range(down[t])
    BY <1>2, <1>3, <2>1
  <2>3. \A q : q \notin reused' => q \notin reused
    BY <1>1
  <2> QED
    BY <1>6, <2>1, <2>2, <2>3 DEF BusInv, AnswersOwned
<1>17. PublishedToDeliverers'
  BY <1>2, <1>3 DEF BusInv, PublishedToDeliverers
<1>18. OwnAnswer' /\ OnlyDeliverersHear'
  BY <1>1 DEF BusInv, OwnAnswer, Answered, OnlyDeliverersHear
<1> QED
  BY <1>8, <1>9, <1>10, <1>12, <1>13, <1>15, <1>16, <1>17, <1>18 DEF BusInv

(* preHandleMessage() of an answer: the first with an id goes to the       *)
(* session that is remembered, and the bus forgets it.                     *)
LEMMA HandleAnswerInv ==
    ASSUME BusInv, NEW s \in Sessions, NEW pac \in Packages, pac \in Range(up[s]),
           ~pac.base, pac.type = "DELIVER", HandleAnswer(pac), PackageRead,
           UNCHANGED <<clientVars, room, deliverCache, subscribeCache, opened, faults,
                       req, pubs, outcome>>
    PROVE  BusInv'
<1> USE DEF clientVars, PackageRead
<1> DEFINE e == [pac EXCEPT !.type = "REQREP"]
           asker == route[pac.id]
<1>1. /\ route' = [route EXCEPT ![pac.id] = NoSession]
      /\ down' = IF asker # NoSession THEN deliverPackage(down, {asker}, e) ELSE down
      /\ routed' = IF asker # NoSession THEN [routed EXCEPT ![pac.id] = @ + 1] ELSE routed
      /\ UNCHANGED <<subs, arrived, reused, served>>
  BY DEF HandleAnswer
<1>2. /\ e \in Packages /\ e.type = "REQREP" /\ e.id = pac.id /\ e.num = pac.num /\ ~e.base
      /\ pac.id \in Ids
  BY DEF Packages
<1> HIDE DEF e
<1>3. down' \in [Sessions -> Seq(Packages)]
      /\ \A t \in Sessions : \A p \in Range(down'[t]) :
             p \in Range(down[t]) \/ (p = e /\ t = asker /\ asker # NoSession)
  <2>1. down \in [Sessions -> Seq(Packages)]
    BY DEF BusInv, TypeOK
  <2>2. CASE asker # NoSession
    <3> DEFINE after == deliverPackage(down, {asker}, e)
    <3>1. /\ after \in [Sessions -> Seq(Packages)]
          /\ \A t \in Sessions : \A p \in Range(after[t]) :
                 p \in Range(down[t]) \/ (p = e /\ t \in {asker})
      BY <1>2, <2>1, Delivered
    <3> HIDE DEF after
    <3>2. down' = after
      BY <1>1, <2>2 DEF after
    <3> QED
      BY <2>2, <3>1, <3>2
  <2>3. CASE asker = NoSession
    BY <1>1, <2>1, <2>3
  <2> QED
    BY <2>2, <2>3
<1>4. UnderWay(pac)
  BY DEF UnderWay
<1>5. \A q, t, i : Asked(q, t, i)' <=> Asked(q, t, i)
  BY DEF Asked
<1>6. \A p : UnderWay(p)' /\ p.type = "DELIVER" => UnderWay(p)
  BY <1>2, <1>3 DEF UnderWay
<1>7. /\ route'[pac.id] = NoSession /\ \A i \in Ids : i # pac.id => route'[i] = route[i]
      /\ \A i \in Ids : i # pac.id => routed'[i] = routed[i]
      /\ routed'[pac.id] = routed[pac.id] + (IF asker # NoSession THEN 1 ELSE 0)
      /\ routed' \in [Ids -> Nat]
  <2>1. routed \in [Ids -> Nat] /\ route \in [Ids -> Sessions \cup {NoSession}]
    BY DEF BusInv, TypeOK
  <2>2. route'[pac.id] = NoSession /\ \A i \in Ids : i # pac.id => route'[i] = route[i]
    BY <1>1, <1>2, <2>1
  <2>3. CASE asker # NoSession
    BY <1>1, <1>2, <2>1, <2>2, <2>3
  <2>4. CASE asker = NoSession
    BY <1>1, <1>2, <2>1, <2>2, <2>4
  <2> QED
    BY <2>3, <2>4
<1>8. TypeOK'
  <2>1. route' \in [Ids -> Sessions \cup {NoSession}]
    BY <1>1, <1>2 DEF BusInv, TypeOK
  <2> QED
    BY <1>1, <1>3, <1>7, <2>1 DEF BusInv, TypeOK
<1>9. OwnSession' /\ IdsDrawn' /\ RequestsKnown'
  BY DEF BusInv, OwnSession, IdsDrawn, RequestsKnown
<1>10. PackagesOwned'
  <2>1. \A t \in Sessions : \A p \in Range(up'[t]) :
            p.type = "REQREP" => ~p.base /\ Asked(p.num, t, p.id)'
    BY <1>5 DEF BusInv, PackagesOwned
  <2>2. \A p : UnderWay(p)' /\ p.type = "DELIVER" => p.num \in DOMAIN req
    BY <1>6 DEF BusInv, PackagesOwned
  <2> QED
    BY <2>1, <2>2 DEF BusInv, PackagesOwned
<1>11. RouteOwned'
  <2>1. SUFFICES ASSUME NEW i \in Ids, route'[i] # NoSession
                 PROVE  \E q : q \in DOMAIN req' /\ req'[q].session = route'[i] /\ req'[q].id = i
    BY DEF RouteOwned, Asked
  <2>2. route'[i] = route[i]
    BY <1>7, <2>1
  <2> QED
    BY <2>1, <2>2 DEF BusInv, RouteOwned, Asked
<1>12. RouteCounted'
  <2>1. SUFFICES ASSUME NEW i \in Ids
                 PROVE  routed'[i] + (IF route'[i] # NoSession THEN 1 ELSE 0) <= arrived[i]
    BY <1>1 DEF RouteCounted
  <2>2. routed[i] \in Nat /\ arrived[i] \in Nat
        /\ routed[i] + (IF route[i] # NoSession THEN 1 ELSE 0) <= arrived[i]
    BY DEF BusInv, TypeOK, RouteCounted
  <2>3. CASE i = pac.id
    BY <1>7, <2>2, <2>3
  <2>4. CASE i # pac.id
    BY <1>7, <2>2, <2>4
  <2> QED
    BY <2>3, <2>4
<1>13. RouteExact'
  <2>1. SUFFICES ASSUME NEW i \in Ids, NEW q, q \in DOMAIN req, req[q].session = route'[i],
                        req[q].id = i, q \notin reused,
                        NEW p, UnderWay(p)', p.type = "DELIVER", p.id = i
                 PROVE  p.num = q
    BY <1>1 DEF RouteExact, Asked
  <2>2. req[q].session \in Sessions
    BY <2>1, ReqFields DEF BusInv
  <2>3. route'[i] = route[i]
    BY <1>7, <2>1, <2>2, Bounds
  <2>4. Asked(q, route[i], i)
    BY <2>1, <2>3 DEF Asked
  <2> QED
    BY <1>6, <2>1, <2>4 DEF BusInv, RouteExact
(* The answer that goes back is the one to the request the bus remembers. *)
<1>14. AnswersOwned'
  <2>1. SUFFICES ASSUME NEW t \in Sessions, NEW p \in Range(down'[t]), p.type = "REQREP"
                 PROVE  IF p.base THEN p.num = 0
                        ELSE /\ \E q : Asked(q, t, p.id)'
                             /\ \A q : Asked(q, t, p.id)' /\ q \notin reused' => p.num = q
    BY DEF AnswersOwned
  <2>2. CASE p \in Range(down[t])
    BY <1>1, <1>5, <2>1, <2>2 DEF BusInv, AnswersOwned
  <2>3. CASE p = e /\ t = asker /\ asker # NoSession
    <3>1. \E q : Asked(q, asker, pac.id)
      BY <1>2, <2>3 DEF BusInv, RouteOwned
    <3>2. \A q : Asked(q, asker, pac.id) /\ q \notin reused => pac.num = q
      BY <1>2, <1>4 DEF BusInv, RouteExact
    <3>3. p.id = pac.id /\ p.num = pac.num /\ ~p.base
      BY <1>2, <2>3
    <3> HIDE DEF asker
    <3> QED
      BY <1>1, <1>5, <2>3, <3>1, <3>2, <3>3
  <2> QED
    BY <1>3, <2>2, <2>3
<1>15. PublishedToDeliverers'
  BY <1>2, <1>3 DEF BusInv, PublishedToDeliverers
<1>16. OwnAnswer' /\ OnlyDeliverersHear'
  BY <1>1, ResultsKept
<1> QED
  BY <1>8, <1>9, <1>10, <1>11, <1>12, <1>13, <1>14, <1>15, <1>16 DEF BusInv

(* preHandleMessage() of a publication: it goes to the deliverers. *)
LEMMA HandlePublicationInv ==
    ASSUME BusInv, NEW pac \in Packages, ~pac.base, pac.type = "PUBSUB",
           HandlePublication(pac), PackageRead,
           UNCHANGED <<clientVars, room, deliverCache, subscribeCache, opened, faults,
                       req, pubs, outcome>>
    PROVE  BusInv'
<1> USE DEF clientVars, PackageRead
<1>1. down' = deliverPackage(down, deliverCache, pac)
      /\ UNCHANGED <<subs, route, arrived, reused, served, routed>>
  BY DEF HandlePublication
<1>2. down' \in [Sessions -> Seq(Packages)]
      /\ \A t \in Sessions : \A p \in Range(down'[t]) :
             p \in Range(down[t]) \/ (p = pac /\ t \in deliverCache)
  <2> DEFINE after == deliverPackage(down, deliverCache, pac)
  <2>1. down \in [Sessions -> Seq(Packages)]
    BY DEF BusInv, TypeOK
  <2>2. /\ after \in [Sessions -> Seq(Packages)]
        /\ \A t \in Sessions : \A p \in Range(after[t]) :
               p \in Range(down[t]) \/ (p = pac /\ t \in deliverCache)
    BY <2>1, Delivered
  <2> HIDE DEF after
  <2>3. down' = after
    BY <1>1 DEF after
  <2> QED
    BY <2>2, <2>3
<1>3. TypeOK'
  BY <1>1, <1>2 DEF BusInv, TypeOK
<1>4. OwnSession' /\ IdsDrawn' /\ RequestsKnown' /\ RouteCounted' /\ RouteOwned'
  BY <1>1 DEF BusInv, OwnSession, IdsDrawn, RequestsKnown, RouteCounted, RouteOwned, Asked
<1>5. \A p : UnderWay(p)' /\ p.type = "DELIVER" => UnderWay(p)
  BY <1>2 DEF UnderWay
<1>6. PackagesOwned'
  BY <1>5 DEF BusInv, PackagesOwned, Asked
<1>7. RouteExact'
  BY <1>1, <1>5 DEF BusInv, RouteExact, Asked
<1>8. AnswersOwned'
  <2>1. SUFFICES ASSUME NEW t \in Sessions, NEW p \in Range(down'[t]), p.type = "REQREP"
                 PROVE  IF p.base THEN p.num = 0
                        ELSE /\ \E q : Asked(q, t, p.id)'
                             /\ \A q : Asked(q, t, p.id)' /\ q \notin reused' => p.num = q
    BY DEF AnswersOwned
  <2>2. p \in Range(down[t])
    BY <1>2, <2>1
  <2>3. \A q, u, i : Asked(q, u, i)' <=> Asked(q, u, i)
    BY DEF Asked
  <2> QED
    BY <1>1, <2>1, <2>2, <2>3 DEF BusInv, AnswersOwned
<1>9. PublishedToDeliverers'
  BY <1>2 DEF BusInv, PublishedToDeliverers
<1> QED
  BY <1>1, <1>3, <1>4, <1>6, <1>7, <1>8, <1>9, ResultsKept DEF BusInv

(* A message of ProtoBase is answered by the bus itself. *)
LEMMA HandleBaseInv ==
    ASSUME BusInv, NEW s \in Sessions, NEW pac \in Packages, HandleBase(s, pac), PackageRead,
           UNCHANGED <<clientVars, room, deliverCache, subscribeCache, opened, faults,
                       req, pubs, outcome>>
    PROVE  BusInv'
<1> USE DEF clientVars, PackageRead
<1>1. /\ subs' = IF pac.type = "SUB" THEN subs \cup {[session |-> s, id |-> pac.id]} ELSE subs
      /\ UNCHANGED <<down, route, arrived, reused, served, routed>>
  BY DEF HandleBase
<1>2. TypeOK'
  <2>1. [session |-> s, id |-> pac.id] \in [session : Sessions, id : Ids]
    BY DEF Packages
  <2>2. subs' \subseteq [session : Sessions, id : Ids]
    BY <1>1, <2>1 DEF BusInv, TypeOK
  <2> QED
    BY <1>1, <2>2 DEF BusInv, TypeOK
<1>3. OwnSession' /\ IdsDrawn' /\ RequestsKnown' /\ RouteCounted'
  BY <1>1 DEF BusInv, OwnSession, IdsDrawn, RequestsKnown, RouteCounted
<1>4. DeliversKept /\ UpKept /\ DownKept /\ TasksDeliver
  BY <1>1 DEF DeliversKept, UpKept, DownKept, TasksDeliver, UnderWay, BusInv, PackagesOwned
<1> QED
  BY <1>1, <1>2, <1>3, <1>4, PackagesKept, ResultsKept DEF BusInv

(* The bus reads the next package of a session. *)
LEMMA BusReadInv ==
    ASSUME BusInv, NEW s \in Sessions, BusRead(s)
    PROVE  BusInv'
<1>1. PICK pac : pac = Head(up[s])
  OBVIOUS
<1>2. /\ up[s] # <<>> /\ up' = [up EXCEPT ![s] = Tail(@)]
      /\ \/ pac.base /\ HandleBase(s, pac)
         \/ ~pac.base /\ pac.type = "REQREP" /\ HandleRequest(s, pac)
         \/ ~pac.base /\ pac.type = "DELIVER" /\ HandleAnswer(pac)
         \/ ~pac.base /\ pac.type = "PUBSUB" /\ HandlePublication(pac)
      /\ UNCHANGED <<clientVars, room, deliverCache, subscribeCache, opened, faults,
                     req, pubs, outcome>>
  BY <1>1 DEF BusRead
<1>3. up \in [Sessions -> Seq(Packages)] /\ up[s] \in Seq(Packages)
  BY DEF BusInv, TypeOK
<1>4. /\ Tail(up[s]) \in Seq(Packages) /\ pac \in Packages /\ pac \in Range(up[s])
      /\ \A p \in Range(Tail(up[s])) : p \in Range(up[s])
  BY <1>1, <1>2, <1>3, ChannelTail
<1>5. PackageRead
  BY <1>2, <1>3, <1>4 DEF PackageRead
<1>6. CASE pac.base /\ HandleBase(s, pac)
  BY <1>2, <1>4, <1>5, <1>6, HandleBaseInv
<1>7. CASE ~pac.base /\ pac.type = "REQREP" /\ HandleRequest(s, pac)
  BY <1>2, <1>4, <1>5, <1>7, HandleRequestInv
<1>8. CASE ~pac.base /\ pac.type = "DELIVER" /\ HandleAnswer(pac)
  BY <1>2, <1>4, <1>5, <1>8, HandleAnswerInv
<1>9. CASE ~pac.base /\ pac.type = "PUBSUB" /\ HandlePublication(pac)
  BY <1>2, <1>4, <1>5, <1>9, HandlePublicationInv
<1> QED
  BY <1>2, <1>6, <1>7, <1>8, <1>9

-----------------------------------------------------------------------------
(***************************************************************************)
(* The theorems                                                            *)
(***************************************************************************)

(* The inductive invariant holds in every state of the bus. *)
THEOREM Inductive == Spec => []BusInv
<1>1. Init => BusInv
  BY InitBusInv
<1>2. BusInv /\ [Next]_vars => BusInv'
  <2> SUFFICES ASSUME BusInv, [Next]_vars PROVE BusInv'
    OBVIOUS
  <2>1. CASE UNCHANGED vars
    <3>1. UNCHANGED <<online, lastId, open, tasks, heard, up, down, room, subs, deliverCache,
                      subscribeCache, opened, route, faults, req, pubs, outcome, reused,
                      served, arrived, routed>>
      BY <2>1 DEF vars, clientVars, roomVars, history
    <3>2. TypeOK'
      BY <3>1 DEF BusInv, TypeOK
    <3>3. OwnSession' /\ IdsDrawn' /\ RequestsKnown' /\ RouteCounted'
      BY <3>1 DEF BusInv, OwnSession, IdsDrawn, RequestsKnown, RouteCounted
    <3>4. DeliversKept /\ UpKept /\ DownKept /\ TasksDeliver
      BY <3>1 DEF DeliversKept, UpKept, DownKept, TasksDeliver, UnderWay, BusInv, PackagesOwned
    <3> QED
      BY <3>1, <3>2, <3>3, <3>4, PackagesKept, ResultsKept DEF BusInv
  <2>2. CASE Next
    <3>1. ASSUME NEW c \in Clients, Connect(c) PROVE BusInv'
      BY <3>1, ConnectInv
    <3>2. ASSUME NEW c \in Clients, Disconnect(c) PROVE BusInv'
      BY <3>2, DisconnectInv
    <3>3. ASSUME NEW c \in Clients, PostMessage(c) PROVE BusInv'
      BY <3>3, PostMessageInv
    <3>4. ASSUME NEW c \in Clients, PublishMessage(c) PROVE BusInv'
      BY <3>4, PublishMessageInv
    <3>5. ASSUME NEW c \in Clients, DoResponse(c) PROVE BusInv'
      BY <3>5, DoResponseInv
    <3>6. ASSUME NEW c \in Clients, NEW pac \in tasks[c], ReplyDeliver(c, pac) PROVE BusInv'
      BY <3>6, ReplyDeliverInv
    <3>7. ASSUME NEW c \in Clients, NEW r \in open[c], Timeout(c, r) PROVE BusInv'
      BY <3>7, TimeoutInv
    <3>8. ASSUME NEW s \in Sessions, Leave(s) PROVE BusInv'
      BY <3>8, LeaveInv
    <3>9. ASSUME NEW s \in Sessions, BusRead(s) PROVE BusInv'
      BY <3>9, BusReadInv
    <3>10. ASSUME NEW sub \in subs, DoSubscribe(sub) PROVE BusInv'
      BY <3>10, DoSubscribeInv
    <3> QED
      BY <2>2, <3>1, <3>2, <3>3, <3>4, <3>5, <3>6, <3>7, <3>8, <3>9, <3>10 DEF Next
  <2> QED
    BY <2>1, <2>2
<1> QED
  BY <1>1, <1>2, PTL DEF Spec

(* The caches, tables and channels of the bus and its clients keep their   *)
(* types; in particular no client draws more ids than the bus counts by.   *)
THEOREM TypeCorrect == Spec => []TypeOK
<1>1. BusInv => TypeOK
  BY DEF BusInv
<1> QED
  BY <1>1, Inductive, PTL

(* A caller gets the answer to its own request, unless the id of the       *)
(* request was in use in msgSessionCache_ or by a delivery as it came in.  *)
THEOREM OwnAnswerHolds == Spec => []OwnAnswer
<1>1. BusInv => OwnAnswer
  BY DEF BusInv
<1> QED
  BY <1>1, Inductive, PTL

(* However many stubs answer, preHandleMessage() sends back at most one    *)
(* answer for each request it took in, to a session that asked with its id.*)
THEOREM RoutedOnceHolds == Spec => []RoutedOnce
<1>1. BusInv => RoutedOnce
  <2> SUFFICES ASSUME BusInv PROVE RoutedOnce
    OBVIOUS
  <2>1. ASSUME NEW i \in Ids PROVE routed[i] <= arrived[i]
    <3>1. routed[i] \in Nat /\ arrived[i] \in Nat
      BY DEF BusInv, TypeOK
    <3>2. routed[i] + (IF route[i] # NoSession THEN 1 ELSE 0) <= arrived[i]
      BY DEF BusInv, RouteCounted
    <3> QED
      BY <3>1, <3>2
  <2>2. ASSUME NEW s \in Sessions, NEW k \in DOMAIN down[s],
               down[s][k].type = "REQREP", ~down[s][k].base
        PROVE  \E r \in DOMAIN req : req[r].session = s /\ req[r].id = down[s][k].id
    <3>1. down[s][k] \in Range(down[s])
      BY DEF Range
    <3>2. \E q : Asked(q, s, down[s][k].id)
      BY <2>2, <3>1 DEF BusInv, AnswersOwned
    <3> QED
      BY <3>2 DEF Asked
  <2> QED
    BY <2>1, <2>2 DEF RoutedOnce
<1> QED
  BY <1>1, Inductive, PTL

(* Only clients with a deliver handler hear publications through the bus. *)
THEOREM OnlyDeliverersHearHolds == Spec => []OnlyDeliverersHear
<1>1. BusInv => OnlyDeliverersHear
  BY DEF BusInv
<1> QED
  BY <1>1, Inductive, PTL

-----------------------------------------------------------------------------
(***************************************************************************)
(* What ServedIsCalled waits for is under way                              *)
(***************************************************************************)

(* A request with id i is with the stub of session s: delivered to it, in  *)
(* the pool of its handlers, or answered and on its way to the bus.        *)
WithStub(s, i) ==
    \/ \E p \in Range(down[s]) : p.type = "DELIVER" /\ p.id = i
    \/ \E p \in tasks[s[1]] : p.id = i
    \/ \E p \in Range(up[s]) : p.type = "DELIVER" /\ ~p.base /\ p.id = i

(* An answer with id i is on its way to session s. *)
AnswerFor(s, i) ==
    \E p \in Range(down[s]) : p.type = "REQREP" /\ ~p.base /\ p.id = i

(* Request r is answered already, or the bus remembers who asked and every *)
(* stub that got it and is still connected has it.                         *)
ServedStage(r) ==
    \/ AnswerFor(req[r].session, req[r].id)
    \/ /\ route[req[r].id] = req[r].session
       /\ \A s \in served[r] : Attached(s) => WithStub(s, req[r].id)

(* Request r was delivered, is not called back, and nothing spoiled it. *)
Waiting(r) == served[r] # {} /\ outcome[r] = NoOutcome /\ ~Spoiled(r)

(* A client that is connected is in the room, with its latest session; a   *)
(* session is never connected again.                                       *)
AttachedInRoom ==
    \A c \in Clients : online[c] # NoSession => online[c] \in room /\ online[c][2] = opened[c]
SessionsOpened ==
    /\ \A r \in DOMAIN req : req[r].session[2] <= opened[req[r].session[1]]
    /\ \A r \in Requests : \A s \in served[r] : s[2] <= opened[s[1]]

(* Stubs whose answers can be routed were served requests that were made.  *)
ServedKnown ==
    \A r \in Requests : \A s \in served[r] :
        r \in DOMAIN req /\ s[1] \in Deliverers /\ s[1] \notin BaseRepliers

(* A caller keeps a request in its table until it is called back, and an   *)
(* answer carries the number of a request.                                 *)
OpenUntilCalled == \A r \in DOMAIN req : outcome[r] = NoOutcome => r \in open[req[r].from]
AnswersNumbered ==
    \A s \in Sessions : \A p \in Range(down[s]) :
        p.type = "REQREP" /\ ~p.base => p.num \in DOMAIN req

(* Client s[1] subscribed over session s with id i, and has no answer yet: *)
(* the id is none of its requests.                                         *)
Subscribing(s, i) ==
    \/ \E p \in Range(up[s]) : p.type = "SUB" /\ p.id = i
    \/ \E sub \in subs : sub.session = s /\ sub.id = i
    \/ \E p \in Range(down[s]) : p.type = "REQREP" /\ p.base /\ p.id = i
SubscriptionsOwned ==
    \A s \in Sessions, i \in Ids : Subscribing(s, i) =>
        i <= lastId[s[1]] /\ \A q \in DOMAIN req : req[q].from = s[1] => req[q].id # i

SessionInv ==
    /\ AttachedInRoom /\ SessionsOpened /\ ServedKnown
    /\ OpenUntilCalled /\ AnswersNumbered /\ SubscriptionsOwned

ServedInv == SessionInv /\ \A r \in Requests : Waiting(r) => ServedStage(r)

(* A request that ServedIsCalled waits for is never forgotten: its answer  *)
(* is on the way to the session that asked, or the bus knows that session  *)
(* and a stub that is connected has the request or its answer.             *)
ServedIsUnderWay ==
    \A r \in Requests : served[r] # {} =>
        \/ outcome[r] # NoOutcome \/ Spoiled(r)
        \/ AnswerFor(req[r].session, req[r].id)
        \/ /\ route[req[r].id] = req[r].session
           /\ \E s \in served[r] : Attached(s) /\ WithStub(s, req[r].id)

(* A channel keeps its packages when one is put at its end, and all but    *)
(* the head when the head is taken.                                        *)
LEMMA ChannelKeeps ==
    ASSUME NEW q \in Seq(Packages)
    PROVE  /\ \A e \in Packages :
                  e \in Range(Append(q, e)) /\ \A p \in Range(q) : p \in Range(Append(q, e))
           /\ q # <<>> => \A p \in Range(q) : p = Head(q) \/ p \in Range(Tail(q))
<1>1. ASSUME NEW e \in Packages
      PROVE  e \in Range(Append(q, e)) /\ \A p \in Range(q) : p \in Range(Append(q, e))
  <2>1. /\ Len(q) + 1 \in DOMAIN Append(q, e) /\ Append(q, e)[Len(q) + 1] = e
        /\ \A k \in DOMAIN q : k \in DOMAIN Append(q, e) /\ Append(q, e)[k] = q[k]
    OBVIOUS
  <2> QED
    BY <2>1 DEF Range
<1>2. ASSUME q # <<>>, NEW p \in Range(q) PROVE p = Head(q) \/ p \in Range(Tail(q))
  <2>1. PICK k \in DOMAIN q : p = q[k]
    BY <1>2 DEF Range
  <2>2. CASE k = 1
    BY <2>1, <2>2
  <2>3. CASE k # 1
    <3>1. k - 1 \in DOMAIN Tail(q) /\ Tail(q)[k - 1] = q[k]
      BY <1>2, <2>3
    <3> QED
      BY <2>1, <3>1 DEF Range
  <2> QED
    BY <2>2, <2>3
<1> QED
  BY <1>1, <1>2

(* A delivery takes nothing from a channel, and reaches the sessions of    *)
(* ids that are in the room and connected.                                 *)
LEMMA DeliveredKeeps ==
    ASSUME NEW chan \in [Sessions -> Seq(Packages)], NEW ids, NEW pac \in Packages
    PROVE  \A s \in Sessions :
               /\ \A p \in Range(chan[s]) : p \in Range(deliverPackage(chan, ids, pac)[s])
               /\ s \in ids /\ s \in room /\ Attached(s) =>
                      pac \in Range(deliverPackage(chan, ids, pac)[s])
<1> DEFINE after == deliverPackage(chan, ids, pac)
<1>1. SUFFICES ASSUME NEW s \in Sessions
               PROVE  /\ \A p \in Range(chan[s]) : p \in Range(after[s])
                      /\ s \in ids /\ s \in room /\ Attached(s) => pac \in Range(after[s])
  OBVIOUS
<1>2. chan[s] \in Seq(Packages)
  OBVIOUS
<1>3. CASE s \in ids \cap room /\ Attached(s)
  <2>1. after[s] = Append(chan[s], pac)
    BY <1>3 DEF deliverPackage
  <2> HIDE DEF after
  <2> QED
    BY <1>2, <2>1, ChannelKeeps
<1>4. CASE ~(s \in ids \cap room /\ Attached(s))
  <2>1. after[s] = chan[s]
    BY <1>4 DEF deliverPackage
  <2> HIDE DEF after
  <2> QED
    BY <1>4, <2>1
<1> QED
  BY <1>3, <1>4

(* The numbers of the requests. *)
LEMMA ReqNumbers ==
    ASSUME BusInv, NEW q \in DOMAIN req
    PROVE  q \in Requests /\ q # NoOutcome
<1>1. req \in Seq([from : Clients, id : Ids, session : Sessions]) /\ Len(req) <= MaxReq
  BY DEF BusInv, TypeOK, IdsDrawn
<1>2. q \in 1..Len(req) /\ Len(req) \in Nat
  BY <1>1
<1> QED
  BY <1>1, <1>2, Bounds DEF Requests, NoOutcome

(* Only the client that opened a session can have it connected. *)
LEMMA AttachedOwn ==
    ASSUME BusInv, NEW s \in Sessions, Attached(s)
    PROVE  s[1] \in Clients /\ online[s[1]] = s
<1>1. PICK c \in Clients : online[c] = s
  BY DEF Attached
<1>2. s # NoSession
  BY Bounds
<1> QED
  BY <1>1, <1>2 DEF BusInv, OwnSession

-----------------------------------------------------------------------------

(* A session that was opened and lost is never connected again. *)
DetachedStays == \A s \in Sessions : s[2] <= opened[s[1]] /\ Attached(s)' => Attached(s)

(* Requests that were made stay as they are. *)
ReqKept == \A q \in DOMAIN req : q \in DOMAIN req' /\ req'[q] = req[q]

(* No request is called back with nothing. *)
CalledStays == \A r \in DOMAIN req : outcome'[r] = NoOutcome => outcome[r] = NoOutcome

(* A stub that is connected and can be routed keeps the request until the  *)
(* bus has its answer.                                                     *)
StubsKeep ==
    \A s \in Sessions, i \in Ids :
        /\ s[1] \in Deliverers /\ s[1] \notin BaseRepliers /\ Attached(s)' /\ Attached(s)
        /\ WithStub(s, i)
        => WithStub(s, i)'

(* The answer stays on its way until the caller is called back. *)
AnswersStay ==
    \A r \in DOMAIN req, s \in Sessions, i \in Ids :
        /\ Asked(r, s, i) /\ outcome'[r] = NoOutcome /\ outcome[r] = NoOutcome
        /\ Attached(s)' /\ Attached(s) /\ AnswerFor(s, i)
        => AnswerFor(s, i)'

(* A request that waits after the step waited before it, if it was served. *)
LEMMA WaitedBefore ==
    ASSUME BusInv, SessionInv, DetachedStays, ReqKept, CalledStays, reused \subseteq reused',
           NEW r \in Requests, served'[r] = served[r], Waiting(r)'
    PROVE  /\ Waiting(r) /\ r \in DOMAIN req /\ req'[r] = req[r]
           /\ \E s \in Sessions, i \in Ids : Asked(r, s, i) /\ Attached(s)' /\ Attached(s)
<1>1. served[r] # {} /\ outcome'[r] = NoOutcome /\ ~Spoiled(r)'
  BY DEF Waiting
<1>2. r \in DOMAIN req /\ r \in DOMAIN req' /\ req'[r] = req[r]
  BY <1>1 DEF SessionInv, ServedKnown, ReqKept
<1>3. outcome[r] = NoOutcome
  BY <1>1, <1>2 DEF CalledStays
<1>4. PICK t \in Sessions, i \in Ids : t = req[r].session /\ i = req[r].id
  BY <1>2, ReqFields DEF BusInv
<1>5. /\ Attached(t)'
      /\ ~\A s \in served[r] : ~Attached(s)'
      /\ ~\E q \in DOMAIN req' : q # r /\ req'[q].id = i /\ {q, r} \cap reused' # {}
  BY <1>1, <1>2, <1>4 DEF Spoiled, Attached
<1>6. Attached(t)
  <2>1. t[2] <= opened[t[1]]
    BY <1>2, <1>4 DEF SessionInv, SessionsOpened
  <2> QED
    BY <1>5, <2>1 DEF DetachedStays
<1>7. PICK s \in served[r] : Attached(s)'
  BY <1>5
<1>8. Attached(s)
  <2>1. s \in Sessions
    BY DEF BusInv, TypeOK
  <2>2. s[2] <= opened[s[1]]
    BY DEF SessionInv, SessionsOpened
  <2> QED
    BY <1>7, <2>1, <2>2 DEF DetachedStays
<1>9. ~\E q \in DOMAIN req : q # r /\ req[q].id = req[r].id /\ {q, r} \cap reused # {}
  BY <1>4, <1>5 DEF ReqKept
<1>10. ~Spoiled(r)
  BY <1>4, <1>6, <1>8, <1>9 DEF Spoiled
<1> QED
  BY <1>1, <1>2, <1>3, <1>4, <1>5, <1>6, <1>10 DEF Waiting, Asked

(* A step that serves and routes nothing, and takes nothing away from the  *)
(* stubs and callers, keeps what was served under way.                     *)
LEMMA StagesKept ==
    ASSUME BusInv, ServedInv, DetachedStays, ReqKept, CalledStays, StubsKeep, AnswersStay,
           UNCHANGED <<served, reused, route>>
    PROVE  \A r \in Requests : Waiting(r)' => ServedStage(r)'
<1>1. SUFFICES ASSUME NEW r \in Requests, Waiting(r)' PROVE ServedStage(r)'
  OBVIOUS
<1>2. /\ Waiting(r) /\ r \in DOMAIN req /\ req'[r] = req[r]
      /\ \E s \in Sessions, i \in Ids : Asked(r, s, i) /\ Attached(s)' /\ Attached(s)
  <2>1. SessionInv /\ reused \subseteq reused' /\ served'[r] = served[r]
    BY DEF ServedInv
  <2> QED
    BY <1>1, <2>1, WaitedBefore
<1>3. PICK t \in Sessions, i \in Ids : Asked(r, t, i) /\ Attached(t)' /\ Attached(t)
  BY <1>2
<1>4. outcome[r] = NoOutcome /\ outcome'[r] = NoOutcome
  BY <1>1, <1>2 DEF Waiting
<1>5. req[r].session = t /\ req[r].id = i /\ req'[r].session = t /\ req'[r].id = i
  BY <1>2, <1>3 DEF Asked
<1>6. CASE AnswerFor(t, i)
  <2>1. AnswerFor(t, i)'
    BY <1>2, <1>3, <1>4, <1>6 DEF AnswersStay
  <2> QED
    BY <1>5, <2>1 DEF ServedStage, AnswerFor
<1>7. CASE route[i] = t /\ \A s \in served[r] : Attached(s) => WithStub(s, i)
  <2>1. ASSUME NEW s \in served[r], Attached(s)' PROVE WithStub(s, i)'
    <3>1. s \in Sessions
      BY DEF BusInv, TypeOK
    <3>2. s[1] \in Deliverers /\ s[1] \notin BaseRepliers /\ s[2] <= opened[s[1]]
      BY DEF ServedInv, SessionInv, ServedKnown, SessionsOpened
    <3>3. Attached(s)
      BY <2>1, <3>1, <3>2 DEF DetachedStays
    <3> QED
      BY <1>7, <2>1, <3>1, <3>2, <3>3 DEF StubsKeep
  <2>2. route'[i] = t /\ \A s \in served'[r] : Attached(s)' => WithStub(s, i)'
    BY <1>7, <2>1
  <2> QED
    BY <1>5, <2>2 DEF ServedStage, WithStub
<1>8. AnswerFor(t, i) \/ (route[i] = t /\ \A s \in served[r] : Attached(s) => WithStub(s, i))
  <2>1. ServedStage(r)
    BY <1>2 DEF ServedInv
  <2> QED
    BY <1>5, <2>1 DEF ServedStage
<1> QED
  BY <1>6, <1>7, <1>8

(* The parts of SessionInv after a step that connects nobody and asks      *)
(* nothing.                                                                *)
RoomKept == \A s \in room : Attached(s) => s \in room'
ServedSound ==
    \A r \in Requests : \A s \in served'[r] :
        /\ r \in DOMAIN req /\ s[1] \in Deliverers /\ s[1] \notin BaseRepliers
        /\ s[2] <= opened[s[1]]
OpenKept ==
    \A r \in DOMAIN req : outcome'[r] = NoOutcome =>
        outcome[r] = NoOutcome /\ (r \in open[req[r].from] => r \in open'[req[r].from])
NumberedKept ==
    \A s \in Sessions : \A p \in Range(down'[s]) :
        p.type = "REQREP" /\ ~p.base => p \in Range(down[s]) \/ p.num \in DOMAIN req
SubscribingKept ==
    \A s \in Sessions, i \in Ids : Subscribing(s, i)' => Subscribing(s, i)
IdsKept == \A c \in Clients : lastId[c] \in Nat /\ lastId'[c] \in Nat /\ lastId[c] <= lastId'[c]

(* Such a step keeps what is known of the sessions. *)
LEMMA SessionInvKept ==
    ASSUME BusInv, SessionInv, UNCHANGED <<online, opened, req>>, RoomKept, ServedSound,
           OpenKept, NumberedKept, SubscribingKept, IdsKept
    PROVE  SessionInv' /\ DetachedStays /\ ReqKept /\ CalledStays
<1>1. \A s : Attached(s)' <=> Attached(s)
  BY DEF Attached
<1>2. DetachedStays /\ ReqKept /\ CalledStays
  BY <1>1 DEF DetachedStays, ReqKept, CalledStays, OpenKept
<1>3. AttachedInRoom'
  BY DEF SessionInv, AttachedInRoom, RoomKept, Attached
<1>4. SessionsOpened' /\ ServedKnown'
  BY DEF SessionInv, SessionsOpened, ServedKnown, ServedSound
<1>5. OpenUntilCalled'
  BY DEF SessionInv, OpenUntilCalled, OpenKept
<1>6. AnswersNumbered'
  BY DEF SessionInv, AnswersNumbered, NumberedKept
<1>7. SubscriptionsOwned'
  <2>1. SUFFICES ASSUME NEW s \in Sessions, NEW i \in Ids, Subscribing(s, i)'
                 PROVE  /\ i <= lastId'[s[1]]
                        /\ \A q \in DOMAIN req : req[q].from = s[1] => req[q].id # i
    BY DEF SubscriptionsOwned
  <2>2. Subscribing(s, i)
    BY <2>1 DEF SubscribingKept
  <2>3. /\ i <= lastId[s[1]]
        /\ \A q \in DOMAIN req : req[q].from = s[1] => req[q].id # i
    BY <2>2 DEF SessionInv, SubscriptionsOwned
  <2>4. i \in Nat /\ s[1] \in Clients
    BY Bounds DEF Ids
  <2>5. lastId[s[1]] \in Nat /\ lastId'[s[1]] \in Nat /\ lastId[s[1]] <= lastId'[s[1]]
    BY <2>4 DEF IdsKept
  <2> QED
    BY <2>3, <2>4, <2>5
<1> QED
  BY <1>2, <1>3, <1>4, <1>5, <1>6, <1>7 DEF SessionInv

(* A step that connects nobody, asks, serves and routes nothing. *)
LEMMA QuietStep ==
    ASSUME BusInv, ServedInv, UNCHANGED <<online, opened, req, served, reused, route>>,
           RoomKept, OpenKept, NumberedKept, SubscribingKept, IdsKept, StubsKeep, AnswersStay
    PROVE  ServedInv'
<1>1. SessionInv
  BY DEF ServedInv
<1>2. ServedSound
  BY <1>1 DEF ServedSound, SessionInv, SessionsOpened, ServedKnown
<1>3. SessionInv' /\ DetachedStays /\ ReqKept /\ CalledStays
  BY <1>1, <1>2, SessionInvKept
<1>4. \A r \in Requests : Waiting(r)' => ServedStage(r)'
  BY <1>3, StagesKept
<1> QED
  BY <1>3, <1>4 DEF ServedInv

(* What most steps leave alone. *)
LEMMA QuietParts ==
    ASSUME BusInv
    PROVE  /\ room' = room => RoomKept
           /\ outcome' = outcome /\ open' = open => OpenKept
           /\ lastId' = lastId => IdsKept
           /\ down' = down => NumberedKept /\ AnswersStay
<1>1. \A c \in Clients : lastId[c] \in Nat
  BY DEF BusInv, TypeOK
<1>2. lastId' = lastId => IdsKept
  BY <1>1 DEF IdsKept
<1> QED
  BY <1>2 DEF RoomKept, OpenKept, NumberedKept, AnswersStay, AnswerFor

(* A client publishes. *)
LEMMA PublishMessageServed ==
    ASSUME BusInv, ServedInv, NEW c \in Clients, PublishMessage(c)
    PROVE  ServedInv'
<1> USE DEF clientVars, roomVars, history
<1>1. /\ online[c] # NoSession /\ lastId' = [lastId EXCEPT ![c] = @ + 1]
      /\ up' = [up EXCEPT ![online[c]] = Append(@, Pac("PUBSUB", lastId'[c], pubs + 1, FALSE))]
      /\ UNCHANGED <<online, open, tasks, heard, down, room, subs, opened, route, faults,
                     req, outcome, reused, served>>
  BY DEF PublishMessage
<1>2. PICK s \in Sessions : s = online[c]
  BY <1>1 DEF BusInv, TypeOK
<1>3. IdsKept
  <2>1. \A d \in Clients : lastId[d] \in Nat
    BY DEF BusInv, TypeOK
  <2> QED
    BY <1>1, <2>1 DEF IdsKept, BusInv, TypeOK
<1> DEFINE e == Pac("PUBSUB", lastId'[c], pubs + 1, FALSE)
<1>4. e \in Packages /\ e.type = "PUBSUB"
  <2>1. up' \in [Sessions -> Seq(Packages)]
    BY PublishMessageInv DEF BusInv, TypeOK
  <2>2. up[s] \in Seq(Packages) /\ up'[s] = Append(up[s], e) /\ up'[s] \in Seq(Packages)
    BY <1>1, <1>2, <2>1 DEF BusInv, TypeOK
  <2> HIDE DEF e
  <2>3. Len(up[s]) + 1 \in 1..Len(up'[s]) /\ up'[s][Len(up[s]) + 1] = e
    BY <2>2
  <2>4. e \in Packages
    BY <2>2, <2>3, ElementOfSeq
  <2> QED
    BY <2>4 DEF e, Pac
<1>5. up' = [up EXCEPT ![s] = Append(@, e)]
  BY <1>1, <1>2
<1> HIDE DEF e
<1>6. \A t \in Sessions :
          /\ \A p \in Range(up[t]) : p \in Range(up'[t])
          /\ \A p \in Range(up'[t]) : p \in Range(up[t]) \/ p = e
  BY <1>4, <1>5, ChannelKeeps, ChannelAppend DEF BusInv, TypeOK
<1>7. StubsKeep
  BY <1>1, <1>6 DEF StubsKeep, WithStub
<1>8. SubscribingKept
  BY <1>1, <1>4, <1>6 DEF SubscribingKept, Subscribing
<1> QED
  BY <1>1, <1>3, <1>7, <1>8, QuietStep, QuietParts

(* A stub answers a delivery: the answer takes its place. *)
LEMMA ReplyDeliverServed ==
    ASSUME BusInv, ServedInv, NEW c \in Clients, NEW pac \in tasks[c], ReplyDeliver(c, pac)
    PROVE  ServedInv'
<1> USE DEF clientVars, roomVars, history
<1>1. /\ tasks' = [tasks EXCEPT ![c] = @ \ {pac}]
      /\ up' = IF online[c] = NoSession THEN up
               ELSE [up EXCEPT ![online[c]] = Append(@, [pac EXCEPT !.base = c \in BaseRepliers])]
      /\ UNCHANGED <<online, lastId, open, heard, down, room, subs, opened, route, faults,
                     req, outcome, reused, served>>
  BY DEF ReplyDeliver
<1>2. pac \in Packages /\ pac.type = "DELIVER"
  BY DEF BusInv, TypeOK, PackagesOwned
<1>3. PICK e \in Packages : /\ e = [pac EXCEPT !.base = c \in BaseRepliers]
                            /\ e.type = "DELIVER" /\ e.id = pac.id
                            /\ c \notin BaseRepliers => ~e.base
  <2>0. (c \in BaseRepliers) \in BOOLEAN
    OBVIOUS
  <2>1. PICK b \in BOOLEAN : b = (c \in BaseRepliers)
    BY <2>0
  <2>2. /\ [pac EXCEPT !.base = b] \in Packages /\ [pac EXCEPT !.base = b].type = pac.type
        /\ [pac EXCEPT !.base = b].id = pac.id /\ [pac EXCEPT !.base = b].base = b
    BY <1>2 DEF Packages
  <2> QED
    BY <1>2, <2>1, <2>2
<1>4. \A t \in Sessions :
          /\ \A p \in Range(up[t]) : p \in Range(up'[t])
          /\ \A p \in Range(up'[t]) : p \in Range(up[t]) \/ p = e
          /\ t = online[c] => e \in Range(up'[t])
  <2>1. CASE online[c] = NoSession
    BY <1>1, <2>1, Bounds
  <2>2. CASE online[c] # NoSession
    <3>1. PICK s \in Sessions : s = online[c]
      BY <2>2 DEF BusInv, TypeOK
    <3>2. up[s] \in Seq(Packages) /\ up' = [up EXCEPT ![s] = Append(up[s], e)]
      BY <1>1, <1>3, <2>2, <3>1 DEF BusInv, TypeOK
    <3>3. /\ \A p \in Range(Append(up[s], e)) : p \in Range(up[s]) \/ p = e
          /\ \A p \in Range(up[s]) : p \in Range(Append(up[s], e))
          /\ e \in Range(Append(up[s], e))
      BY <3>2, ChannelAppend, ChannelKeeps
    <3> QED
      BY <3>1, <3>2, <3>3 DEF BusInv, TypeOK
  <2> QED
    BY <2>1, <2>2
<1>5. StubsKeep
  <2>1. SUFFICES ASSUME NEW s \in Sessions, NEW i \in Ids, s[1] \notin BaseRepliers,
                        Attached(s), WithStub(s, i)
                 PROVE  WithStub(s, i)'
    BY DEF StubsKeep
  <2>2. s[1] \in Clients /\ online[s[1]] = s
    BY <2>1, AttachedOwn
  <2>3. CASE \E p \in Range(down[s]) : p.type = "DELIVER" /\ p.id = i
    BY <1>1, <2>3 DEF WithStub
  <2>4. ASSUME NEW p \in tasks[s[1]], p.id = i PROVE WithStub(s, i)'
    <3>1. CASE s[1] = c /\ p = pac
      <4>1. e \in Range(up'[s])
        BY <1>4, <2>2, <3>1
      <4> QED
        BY <1>3, <2>1, <2>4, <3>1, <4>1 DEF WithStub
    <3>2. CASE ~(s[1] = c /\ p = pac)
      <4>1. p \in tasks'[s[1]]
        BY <1>1, <2>2, <2>4, <3>2 DEF BusInv, TypeOK
      <4> QED
        BY <2>4, <4>1 DEF WithStub
    <3> QED
      BY <3>1, <3>2
  <2>5. CASE \E p \in Range(up[s]) : p.type = "DELIVER" /\ ~p.base /\ p.id = i
    BY <1>4, <2>5 DEF WithStub
  <2> QED
    BY <2>1, <2>3, <2>4, <2>5 DEF WithStub
<1>6. SubscribingKept
  BY <1>1, <1>3, <1>4 DEF SubscribingKept, Subscribing
<1> QED
  BY <1>1, <1>5, <1>6, QuietStep, QuietParts

(* A request times out: it is called back. *)
LEMMA TimeoutServed ==
    ASSUME BusInv, ServedInv, NEW c \in Clients, NEW r \in open[c], Timeout(c, r)
    PROVE  ServedInv'
<1> USE DEF clientVars, roomVars, history
<1>1. /\ open' = [open EXCEPT ![c] = @ \ {r}] /\ outcome' = [outcome EXCEPT ![r] = TimedOut]
      /\ UNCHANGED <<online, lastId, tasks, heard, up, down, room, subs, opened, route, faults,
                     req, pubs, reused, served>>
  BY DEF Timeout
<1>2. TimedOut # NoOutcome /\ r \in Requests
  BY Bounds DEF TimedOut, NoOutcome, BusInv, TypeOK
<1>3. OpenKept
  <2>1. SUFFICES ASSUME NEW q \in DOMAIN req, outcome'[q] = NoOutcome
                 PROVE  outcome[q] = NoOutcome /\ (q \in open[req[q].from] => q \in open'[req[q].from])
    BY DEF OpenKept
  <2>2. q \in Requests /\ req[q].from \in Clients
    BY ReqNumbers, ReqFields DEF BusInv
  <2>3. q # r
    BY <1>1, <1>2, <2>1 DEF BusInv, TypeOK
  <2> QED
    BY <1>1, <1>2, <2>1, <2>2, <2>3 DEF BusInv, TypeOK
<1>4. StubsKeep
  BY <1>1 DEF StubsKeep, WithStub
<1>5. SubscribingKept
  BY <1>1 DEF SubscribingKept, Subscribing
<1> QED
  BY <1>1, <1>3, <1>4, <1>5, QuietStep, QuietParts

(* A session that is not connected leaves: no stub that is loses a         *)
(* request.                                                                *)
LEMMA LeaveServed ==
    ASSUME BusInv, ServedInv, NEW s \in Sessions, Leave(s)
    PROVE  ServedInv'
<1> USE DEF clientVars, roomVars, history
<1>1. /\ ~Attached(s) /\ room' = room \ {s} /\ up' = [up EXCEPT ![s] = <<>>]
      /\ UNCHANGED <<online, lastId, open, tasks, down, subs, opened, route, faults,
                     req, outcome, reused, served>>
  BY DEF Leave
<1>2. RoomKept
  BY <1>1 DEF RoomKept
<1>3. \A t \in Sessions : /\ t # s => up'[t] = up[t]
                          /\ t = s => up'[t] = <<>>
  BY <1>1 DEF BusInv, TypeOK
<1>4. StubsKeep
  <2>1. SUFFICES ASSUME NEW t \in Sessions, NEW i \in Ids, Attached(t), WithStub(t, i)
                 PROVE  WithStub(t, i)'
    BY DEF StubsKeep
  <2>2. up'[t] = up[t]
    BY <1>1, <1>3, <2>1
  <2> QED
    BY <1>1, <2>1, <2>2 DEF WithStub
<1>5. SubscribingKept
  BY <1>1, <1>3, ChannelSmall DEF SubscribingKept, Subscribing
<1> QED
  BY <1>1, <1>2, <1>4, <1>5, QuietStep, QuietParts

(* doSubscribe() answers with a message of ProtoBase. *)
LEMMA DoSubscribeServed ==
    ASSUME BusInv, ServedInv, NEW sub \in subs, DoSubscribe(sub)
    PROVE  ServedInv'
<1> USE DEF clientVars, roomVars, history
<1>1. sub.session \in Sessions /\ sub.id \in Ids
  BY DEF BusInv, TypeOK
<1>2. /\ subs' = subs \ {sub}
      /\ down' = deliverPackage(down, {sub.session}, Pac("REQREP", sub.id, 0, TRUE))
      /\ UNCHANGED <<online, lastId, open, tasks, up, room, opened, route, req, outcome,
                     reused, served>>
  BY DEF DoSubscribe
<1>3. PICK e \in Packages : /\ e = Pac("REQREP", sub.id, 0, TRUE)
                            /\ e.type = "REQREP" /\ e.id = sub.id /\ e.base
  <2>1. PICK i \in Ids : i = sub.id
    BY <1>1
  <2>2. /\ Pac("REQREP", i, 0, TRUE) \in Packages /\ Pac("REQREP", i, 0, TRUE).type = "REQREP"
        /\ Pac("REQREP", i, 0, TRUE).id = i /\ Pac("REQREP", i, 0, TRUE).base
    BY DEF Pac, Packages
  <2> QED
    BY <2>1, <2>2
<1>4. /\ \A t \in Sessions : \A p \in Range(down'[t]) :
             p \in Range(down[t]) \/ (p = e /\ t = sub.session)
      /\ \A t \in Sessions : \A p \in Range(down[t]) : p \in Range(down'[t])
  <2> DEFINE after == deliverPackage(down, {sub.session}, e)
  <2>1. down \in [Sessions -> Seq(Packages)]
    BY DEF BusInv, TypeOK
  <2>2. \A t \in Sessions : \A p \in Range(after[t]) :
            p \in Range(down[t]) \/ (p = e /\ t \in {sub.session})
    BY <2>1, Delivered
  <2>3. \A t \in Sessions : \A p \in Range(down[t]) : p \in Range(after[t])
    BY <2>1, DeliveredKeeps
  <2> HIDE DEF after
  <2>4. down' = after
    BY <1>2, <1>3 DEF after
  <2> QED
    BY <2>2, <2>3, <2>4
<1>5. NumberedKept
  BY <1>3, <1>4 DEF NumberedKept
<1>6. AnswersStay
  BY <1>4 DEF AnswersStay, AnswerFor
<1>7. StubsKeep
  BY <1>2, <1>4 DEF StubsKeep, WithStub
<1>8. SubscribingKept
  <2>1. Subscribing(sub.session, sub.id)
    BY DEF Subscribing
  <2> QED
    BY <1>2, <1>3, <1>4, <2>1 DEF SubscribingKept, Subscribing
<1> QED
  BY <1>2, <1>5, <1>6, <1>7, <1>8, QuietStep, QuietParts

(* The client reads an answer, a delivery or a publication. *)
LEMMA DoResponseServed ==
    ASSUME BusInv, ServedInv, NEW c \in Clients, DoResponse(c)
    PROVE  ServedInv'
<1> USE DEF clientVars, roomVars, history
<1>1. /\ online[c] # NoSession /\ down[online[c]] # <<>>
      /\ down' = [down EXCEPT ![online[c]] = Tail(@)]
      /\ IF Head(down[online[c]]).type = "REQREP" THEN OnAnswer(c, Head(down[online[c]]))
         ELSE OnPackage(c, Head(down[online[c]]))
      /\ UNCHANGED <<online, lastId, up, room, subs, opened, route, req, reused, served>>
  BY DEF DoResponse
<1>2. PICK s \in Sessions : s = online[c] /\ s[1] = c
  BY <1>1 DEF BusInv, TypeOK, OwnSession
<1>3. down[s] \in Seq(Packages) /\ down[s] # <<>>
  BY <1>1, <1>2 DEF BusInv, TypeOK
<1>4. /\ Head(down[s]) \in Packages /\ Head(down[s]) \in Range(down[s])
      /\ \A p \in Range(Tail(down[s])) : p \in Range(down[s])
      /\ \A p \in Range(down[s]) : p = Head(down[s]) \/ p \in Range(Tail(down[s]))
  BY <1>3, ChannelTail, ChannelKeeps
<1>5. PICK pac \in Packages : pac = Head(down[s]) /\ pac \in Range(down[s])
  BY <1>4
<1>6. /\ \A t \in Sessions : \A p \in Range(down'[t]) : p \in Range(down[t])
      /\ \A t \in Sessions : \A p \in Range(down[t]) :
             p \in Range(down'[t]) \/ (t = s /\ p = pac)
  BY <1>1, <1>2, <1>4, <1>5 DEF BusInv, TypeOK
<1>7. NumberedKept
  BY <1>6 DEF NumberedKept
<1>8. SubscribingKept
  BY <1>1, <1>6 DEF SubscribingKept, Subscribing
<1>9. CASE pac.type = "REQREP"
  <2> DEFINE own == {r \in open[c] : req[r].id = pac.id}
  <2>1. /\ open' = [open EXCEPT ![c] = @ \ own]
        /\ outcome' = [r \in Requests |-> IF r \in own THEN pac.num ELSE outcome[r]]
        /\ UNCHANGED <<tasks, heard>>
    BY <1>1, <1>2, <1>5, <1>9 DEF OnAnswer
  <2>2. \A r \in own : r \in DOMAIN req /\ req[r].from = c /\ req[r].id = pac.id
    BY DEF BusInv, RequestsKnown
  <2>3. \A r \in open[c] : req[r].id = pac.id => r \in own
    OBVIOUS
  <2> HIDE DEF own
  (* An answer to a subscription has no id of a request. *)
  <2>4. \A r \in own : ~pac.base
    <3>1. pac.id \in Ids
      BY Fields
    <3>2. pac.base => Subscribing(s, pac.id)
      BY <1>5, <1>9 DEF Subscribing
    <3> QED
      BY <1>2, <2>2, <3>1, <3>2 DEF ServedInv, SessionInv, SubscriptionsOwned
  <2>5. \A r \in own : pac.num # NoOutcome
    <3>1. ~pac.base => pac.num \in DOMAIN req
      BY <1>5, <1>9 DEF ServedInv, SessionInv, AnswersNumbered
    <3> QED
      BY <2>4, <3>1, ReqNumbers
  <2>6. ASSUME NEW r \in DOMAIN req, outcome'[r] = NoOutcome
        PROVE  r \notin own /\ outcome[r] = NoOutcome
    <3>1. r \in Requests
      BY ReqNumbers
    <3> QED
      BY <2>1, <2>5, <2>6, <3>1
  <2>7. OpenKept
    <3>1. ASSUME NEW r \in DOMAIN req, r \notin own, r \in open[req[r].from]
          PROVE  r \in open'[req[r].from]
      <4>1. req[r].from \in Clients
        BY ReqFields DEF BusInv
      <4> QED
        BY <2>1, <3>1, <4>1 DEF BusInv, TypeOK
    <3> QED
      BY <2>6, <3>1 DEF OpenKept
  <2>8. AnswersStay
    <3>1. SUFFICES ASSUME NEW r \in DOMAIN req, NEW t \in Sessions, NEW i \in Ids,
                          Asked(r, t, i), outcome'[r] = NoOutcome, outcome[r] = NoOutcome,
                          NEW p \in Range(down[t]), p.type = "REQREP", ~p.base, p.id = i
                   PROVE  AnswerFor(t, i)'
      BY DEF AnswersStay, AnswerFor
    <3>2. ~(t = s /\ p = pac)
      <4>1. SUFFICES ASSUME t = s, p = pac PROVE FALSE
        OBVIOUS
      <4>2. req[r].from = c /\ req[r].id = pac.id
        BY <1>2, <3>1, <4>1 DEF Asked, BusInv, RequestsKnown
      <4>3. r \in open[c]
        BY <3>1, <4>2 DEF ServedInv, SessionInv, OpenUntilCalled
      <4> QED
        BY <2>3, <2>6, <3>1, <4>2, <4>3
    <3>3. p \in Range(down'[t])
      BY <1>6, <3>2
    <3> QED
      BY <3>1, <3>3 DEF AnswerFor
  <2>9. StubsKeep
    <3>1. \A t \in Sessions : \A p \in Range(down[t]) :
              p.type = "DELIVER" => p \in Range(down'[t])
      BY <1>6, <1>9
    <3> QED
      BY <1>1, <2>1, <3>1 DEF StubsKeep, WithStub
  <2> QED
    BY <1>1, <1>7, <1>8, <2>7, <2>8, <2>9, QuietStep, QuietParts
<1>10. CASE pac.type # "REQREP"
  <2>1. /\ tasks' = IF pac.type = "DELIVER" /\ c \in Deliverers
                    THEN [tasks EXCEPT ![c] = @ \cup {pac}] ELSE tasks
        /\ UNCHANGED <<open, outcome>>
    BY <1>1, <1>2, <1>5, <1>10 DEF OnPackage
  <2>2. \A d \in Clients : tasks[d] \subseteq tasks'[d]
    BY <2>1 DEF BusInv, TypeOK
  <2>3. pac.type = "DELIVER" /\ c \in Deliverers => pac \in tasks'[c]
    BY <2>1 DEF BusInv, TypeOK
  <2>4. AnswersStay
    <3>1. \A t \in Sessions : \A p \in Range(down[t]) :
              p.type = "REQREP" => p \in Range(down'[t])
      BY <1>6, <1>10
    <3> QED
      BY <3>1 DEF AnswersStay, AnswerFor
  <2>5. StubsKeep
    <3>1. SUFFICES ASSUME NEW t \in Sessions, NEW i \in Ids, t[1] \in Deliverers, Attached(t),
                          WithStub(t, i)
                   PROVE  WithStub(t, i)'
      BY DEF StubsKeep
    <3>2. ASSUME NEW p \in Range(down[t]), p.type = "DELIVER", p.id = i PROVE WithStub(t, i)'
      <4>1. CASE t = s /\ p = pac
        BY <1>2, <2>3, <3>1, <3>2, <4>1 DEF WithStub
      <4>2. CASE ~(t = s /\ p = pac)
        BY <1>6, <3>2, <4>2 DEF WithStub
      <4> QED
        BY <4>1, <4>2
    <3>3. CASE \E p \in tasks[t[1]] : p.id = i
      <4>1. t[1] \in Clients
        BY Bounds
      <4> QED
        BY <2>2, <3>3, <4>1 DEF WithStub
    <3>4. CASE \E p \in Range(up[t]) : p.type = "DELIVER" /\ ~p.base /\ p.id = i
      BY <1>1, <3>4 DEF WithStub
    <3> QED
      BY <3>1, <3>2, <3>3, <3>4 DEF WithStub
  <2> QED
    BY <1>1, <1>7, <1>8, <2>1, <2>4, <2>5, QuietStep, QuietParts
<1> QED
  BY <1>9, <1>10

(* A client connects: its new session was never connected before, and the  *)
(* id it subscribes with is new.                                           *)
LEMMA ConnectServed ==
    ASSUME BusInv, ServedInv, NEW c \in Clients, Connect(c)
    PROVE  ServedInv'
<1> USE DEF clientVars, roomVars, history
<1>1. PICK s \in Sessions, o \in Nat :
          /\ s[1] = c /\ s[2] = o + 1 /\ o = opened[c] /\ s = <<c, opened[c] + 1>>
  <2>1. <<c, opened[c] + 1>> \in Sessions
    BY DEF Connect
  <2>2. opened[c] \in Nat
    BY Bounds DEF BusInv, TypeOK
  <2> QED
    BY <2>1, <2>2
<1>2. /\ online[c] = NoSession
      /\ opened' = [opened EXCEPT ![c] = o + 1] /\ online' = [online EXCEPT ![c] = s]
      /\ room' = room \cup {s}
      /\ UNCHANGED <<open, tasks, down, subs, route, req, outcome, reused, served>>
  BY <1>1 DEF Connect
<1>3. ~Attached(s)
  BY <1>1, <1>2, AttachedOwn, Bounds
<1>4. lastId[c] \in Nat
  BY DEF BusInv, TypeOK
<1>5. PICK e : e.type = "SUB" /\ e.id = lastId[c] + 1 /\ e = Pac("SUB", lastId[c] + 1, 0, TRUE)
  BY DEF Pac
<1>6. \/ /\ lastId' = [lastId EXCEPT ![c] = @ + 1] /\ up' = [up EXCEPT ![s] = <<e>>]
      \/ lastId' = lastId /\ up' = up
  <2>1. CASE HasHandlers(c)
    <3>1. lastId' = [lastId EXCEPT ![c] = @ + 1]
      BY <2>1 DEF Connect
    <3>2. up' = [up EXCEPT ![s] = <<Pac("SUB", lastId'[c], 0, TRUE)>>]
      BY <1>1, <2>1 DEF Connect
    <3>3. lastId'[c] = lastId[c] + 1
      BY <3>1 DEF BusInv, TypeOK
    <3> QED
      BY <1>5, <3>1, <3>2, <3>3
  <2>2. CASE ~HasHandlers(c)
    BY <2>2 DEF Connect
  <2> QED
    BY <2>1, <2>2
<1>7. /\ \A t \in Sessions : t # s => up'[t] = up[t]
      /\ \/ lastId'[c] = lastId[c] + 1 /\ up'[s] = <<e>>
         \/ up'[s] = up[s]
  BY <1>4, <1>6 DEF BusInv, TypeOK
<1>8. \A d \in Clients : lastId[d] \in Nat /\ lastId'[d] \in Nat /\ lastId[d] <= lastId'[d]
  <2>1. \A d \in Clients : lastId[d] \in Nat
    BY DEF BusInv, TypeOK
  <2>2. \A d \in Clients : lastId'[d] = lastId[d] \/ lastId'[d] = lastId[d] + 1
    BY <1>6 DEF BusInv, TypeOK
  <2> QED
    BY <2>1, <2>2
<1>9. \A d \in Clients : opened[d] \in Nat /\ opened'[d] \in Nat /\ opened[d] <= opened'[d]
  <2>1. \A d \in Clients : opened[d] \in Nat
    BY Bounds DEF BusInv, TypeOK
  <2> QED
    BY <1>1, <1>2, <2>1 DEF BusInv, TypeOK
<1>10. AttachedInRoom'
  <2>1. SUFFICES ASSUME NEW d \in Clients, online'[d] # NoSession
                 PROVE  online'[d] \in room' /\ online'[d][2] = opened'[d]
    BY DEF AttachedInRoom
  <2>2. CASE d = c
    BY <1>1, <1>2, <2>2 DEF BusInv, TypeOK
  <2>3. CASE d # c
    BY <1>2, <2>1, <2>3 DEF BusInv, TypeOK, ServedInv, SessionInv, AttachedInRoom
  <2> QED
    BY <2>2, <2>3
<1>11. SessionsOpened'
  <2>1. ASSUME NEW t \in Sessions, t[2] <= opened[t[1]] PROVE t[2] <= opened'[t[1]]
    <3>1. t[1] \in Clients /\ t[2] \in Nat
      BY Bounds
    <3>2. opened[t[1]] \in Nat /\ opened'[t[1]] \in Nat /\ opened[t[1]] <= opened'[t[1]]
      BY <1>9, <3>1
    <3> QED
      BY <2>1, <3>1, <3>2
  <2>2. \A r \in DOMAIN req : req[r].session \in Sessions /\ req[r].session[2] <= opened[req[r].session[1]]
    BY ReqFields DEF BusInv, ServedInv, SessionInv, SessionsOpened
  <2>3. \A r \in Requests : \A t \in served[r] : t \in Sessions /\ t[2] <= opened[t[1]]
    BY DEF BusInv, TypeOK, ServedInv, SessionInv, SessionsOpened
  <2> QED
    BY <1>2, <2>1, <2>2, <2>3 DEF SessionsOpened
<1>12. ServedKnown' /\ OpenUntilCalled' /\ AnswersNumbered'
  BY <1>2 DEF ServedInv, SessionInv, ServedKnown, OpenUntilCalled, AnswersNumbered
<1>13. SubscriptionsOwned'
  <2>1. SUFFICES ASSUME NEW t \in Sessions, NEW i \in Ids, Subscribing(t, i)'
                 PROVE  /\ i <= lastId'[t[1]]
                        /\ \A q \in DOMAIN req : req[q].from = t[1] => req[q].id # i
    BY <1>2 DEF SubscriptionsOwned
  <2>2. CASE Subscribing(t, i)
    <3>1. /\ i <= lastId[t[1]]
          /\ \A q \in DOMAIN req : req[q].from = t[1] => req[q].id # i
      BY <2>2 DEF ServedInv, SessionInv, SubscriptionsOwned
    <3>2. i \in Nat /\ t[1] \in Clients
      BY Bounds DEF Ids
    <3> QED
      BY <1>8, <3>1, <3>2
  <2>3. CASE ~Subscribing(t, i)
    <3>1. \E p \in Range(up'[t]) : p.type = "SUB" /\ p.id = i /\ p \notin Range(up[t])
      BY <1>2, <2>1, <2>3 DEF Subscribing
    <3>2. t = s /\ up'[s] = <<e>> /\ lastId'[c] = lastId[c] + 1
      BY <1>7, <3>1
    <3>3. i = lastId[c] + 1
      <4>1. \A p \in Range(<<e>>) : p = e
        BY DEF Range
      <4> QED
        BY <1>5, <3>1, <3>2, <4>1
    <3>4. \A q \in DOMAIN req : req[q].from = c => req[q].id \in Nat /\ req[q].id <= lastId[c]
      BY ReqFields DEF BusInv, RequestsKnown
    <3>5. \A q \in DOMAIN req : req[q].from = c => req[q].id # i
      BY <1>4, <3>3, <3>4
    <3> QED
      BY <1>1, <1>4, <3>2, <3>3, <3>5
  <2> QED
    BY <2>2, <2>3
<1>14. DetachedStays
  <2>1. SUFFICES ASSUME NEW t \in Sessions, t[2] <= opened[t[1]], NEW d \in Clients, online'[d] = t
                 PROVE  Attached(t)
    BY DEF DetachedStays, Attached
  <2>2. CASE d = c
    <3>1. t = s
      BY <1>2, <2>1, <2>2 DEF BusInv, TypeOK
    <3> QED
      BY <1>1, <2>1, <3>1
  <2>3. CASE d # c
    BY <1>2, <2>1, <2>3 DEF Attached, BusInv, TypeOK
  <2> QED
    BY <2>2, <2>3
<1>15. ReqKept /\ CalledStays /\ AnswersStay
  BY <1>2, QuietParts DEF ReqKept, CalledStays
<1>16. StubsKeep
  <2>1. \A t \in Sessions : Attached(t) => up'[t] = up[t]
    BY <1>3, <1>7
  <2> QED
    BY <1>2, <2>1 DEF StubsKeep, WithStub
<1>17. \A r \in Requests : Waiting(r)' => ServedStage(r)'
  BY <1>2, <1>14, <1>15, <1>16, StagesKept
<1> QED
  BY <1>10, <1>11, <1>12, <1>13, <1>17 DEF ServedInv, SessionInv

(* A connection breaks: only the session that is lost loses packages.      *)
LEMMA DisconnectServed ==
    ASSUME BusInv, ServedInv, NEW c \in Clients, Disconnect(c)
    PROVE  ServedInv'
<1> USE DEF clientVars, roomVars, history
<1>1. /\ online[c] # NoSession /\ online' = [online EXCEPT ![c] = NoSession]
      /\ down' = [down EXCEPT ![online[c]] = <<>>]
      /\ UNCHANGED <<lastId, open, tasks, up, room, subs, opened, route, req, outcome,
                     reused, served>>
  BY DEF Disconnect
<1>2. PICK s \in Sessions : s = online[c] /\ s[1] = c
  BY <1>1 DEF BusInv, TypeOK, OwnSession
<1>3. \A t \in Sessions : /\ t # s => down'[t] = down[t]
                          /\ \A p \in Range(down'[t]) : p \in Range(down[t])
  BY <1>1, <1>2, ChannelSmall DEF BusInv, TypeOK
<1>4. ASSUME NEW t \in Sessions, Attached(t)' PROVE Attached(t) /\ t # s
  <2>1. PICK d \in Clients : online'[d] = t
    BY <1>4 DEF Attached
  <2>2. d # c /\ online[d] = t
    BY <1>1, <2>1, Bounds DEF BusInv, TypeOK
  <2>3. t[1] = d
    BY <2>2, Bounds DEF BusInv, OwnSession
  <2> QED
    BY <1>2, <2>2, <2>3 DEF Attached
<1>5. AttachedInRoom'
  BY <1>1 DEF ServedInv, SessionInv, AttachedInRoom, BusInv, TypeOK
<1>6. SessionsOpened' /\ ServedKnown' /\ OpenUntilCalled'
  BY <1>1 DEF ServedInv, SessionInv, SessionsOpened, ServedKnown, OpenUntilCalled
<1>7. AnswersNumbered'
  BY <1>1, <1>3 DEF ServedInv, SessionInv, AnswersNumbered
<1>8. SubscriptionsOwned'
  <2>1. \A t \in Sessions, i \in Ids : Subscribing(t, i)' => Subscribing(t, i)
    BY <1>1, <1>3 DEF Subscribing
  <2> QED
    BY <1>1, <2>1 DEF ServedInv, SessionInv, SubscriptionsOwned
<1>9. DetachedStays /\ ReqKept /\ CalledStays
  BY <1>1, <1>4 DEF DetachedStays, ReqKept, CalledStays
<1>10. StubsKeep
  <2>1. \A t \in Sessions : Attached(t)' => down'[t] = down[t]
    BY <1>3, <1>4
  <2> QED
    BY <1>1, <2>1 DEF StubsKeep, WithStub
<1>11. AnswersStay
  <2>1. \A t \in Sessions : Attached(t)' => down'[t] = down[t]
    BY <1>3, <1>4
  <2> QED
    BY <2>1 DEF AnswersStay, AnswerFor
<1>12. \A r \in Requests : Waiting(r)' => ServedStage(r)'
  BY <1>1, <1>9, <1>10, <1>11, StagesKept
<1> QED
  BY <1>5, <1>6, <1>7, <1>8, <1>12 DEF ServedInv, SessionInv

(* A client asks: the request has a new number and a new id.               *)
LEMMA PostMessageServed ==
    ASSUME BusInv, ServedInv, NEW c \in Clients, PostMessage(c)
    PROVE  ServedInv'
<1> USE DEF clientVars, roomVars, history
<1>0. req \in Seq([from : Clients, id : Ids, session : Sessions])
  BY DEF BusInv, TypeOK
<1>1. /\ online[c] # NoSession /\ Len(req) + 1 \in Requests
      /\ lastId' = [lastId EXCEPT ![c] = @ + 1]
      /\ open' = [open EXCEPT ![c] = @ \cup {Len(req) + 1}]
      /\ req' = Append(req, [from |-> c, id |-> lastId'[c], session |-> online[c]])
      /\ up' = [up EXCEPT ![online[c]] = Append(@, Pac("REQREP", lastId'[c], Len(req) + 1, FALSE))]
      /\ UNCHANGED <<online, tasks, down, room, subs, opened, route, outcome, reused, served>>
  BY DEF PostMessage
<1>2. PICK s \in Sessions : s = online[c] /\ s[1] = c
  BY <1>1 DEF BusInv, TypeOK, OwnSession
<1>3. PICK r \in Nat : r = Len(req) + 1 /\ r \in Requests /\ r \notin DOMAIN req
  <2>1. Len(req) \in Nat /\ DOMAIN req = 1..Len(req)
    BY <1>0
  <2> QED
    BY <1>1, <2>1
<1>4. PICK l \in Nat : l = lastId[c]
  BY DEF BusInv, TypeOK
<1>5. lastId'[c] = l + 1 /\ \A d \in Clients : d # c => lastId'[d] = lastId[d]
  BY <1>1, <1>4 DEF BusInv, TypeOK
<1>6. PICK x : /\ req' = Append(req, x) /\ x = [from |-> c, id |-> l + 1, session |-> s]
               /\ x.from = c /\ x.id = l + 1 /\ x.session = s
  BY <1>1, <1>2, <1>5
<1>7. /\ DOMAIN req' = DOMAIN req \cup {r} /\ req'[r] = x
      /\ \A q \in DOMAIN req : req'[q] = req[q]
  <2> HIDE <1>1
  <2> QED
    BY <1>0, <1>3, <1>6
<1>8. PICK e : e = Pac("REQREP", lastId'[c], Len(req) + 1, FALSE) /\ e.type = "REQREP"
  <2>1. \A i, n : Pac("REQREP", i, n, FALSE).type = "REQREP"
    BY DEF Pac
  <2> QED
    BY <2>1
<1>9. \A t \in Sessions : /\ \A p \in Range(up[t]) : p \in Range(up'[t])
                          /\ \A p \in Range(up'[t]) : p \in Range(up[t]) \/ p = e
  <2>1. up[s] \in Seq(Packages) /\ up' = [up EXCEPT ![s] = Append(up[s], e)]
    BY <1>1, <1>2, <1>8 DEF BusInv, TypeOK
  <2>2. up' \in [Sessions -> Seq(Packages)]
    BY PostMessageInv DEF BusInv, TypeOK
  <2>3. e \in Packages
    <3>1. up'[s] = Append(up[s], e) /\ up'[s] \in Seq(Packages)
      BY <2>1, <2>2 DEF BusInv, TypeOK
    <3>2. Len(up[s]) + 1 \in 1..Len(up'[s]) /\ up'[s][Len(up[s]) + 1] = e
      BY <2>1, <3>1
    <3> QED
      BY <3>1, <3>2, ElementOfSeq
  <2>4. /\ \A p \in Range(Append(up[s], e)) : p \in Range(up[s]) \/ p = e
        /\ \A p \in Range(up[s]) : p \in Range(Append(up[s], e))
    BY <2>1, <2>3, ChannelAppend, ChannelKeeps
  <2> QED
    BY <2>1, <2>4 DEF BusInv, TypeOK
<1>10. served[r] = {}
  BY <1>3 DEF ServedInv, SessionInv, ServedKnown
<1>11. AttachedInRoom'
  BY <1>1 DEF ServedInv, SessionInv, AttachedInRoom
<1>12. SessionsOpened'
  <2>1. s[2] <= opened[s[1]]
    <3>1. s[2] = opened[c]
      BY <1>1, <1>2 DEF ServedInv, SessionInv, AttachedInRoom
    <3>2. opened[c] \in Nat
      BY Bounds DEF BusInv, TypeOK
    <3> QED
      BY <1>2, <3>1, <3>2
  <2>2. \A q \in DOMAIN req' : req'[q].session[2] <= opened[req'[q].session[1]]
    BY <1>6, <1>7, <2>1 DEF ServedInv, SessionInv, SessionsOpened
  <2> QED
    BY <1>1, <2>2 DEF ServedInv, SessionInv, SessionsOpened
<1>13. ServedKnown' /\ AnswersNumbered'
  BY <1>1, <1>7 DEF ServedInv, SessionInv, ServedKnown, AnswersNumbered
<1>14. OpenUntilCalled'
  <2>1. SUFFICES ASSUME NEW q \in DOMAIN req', outcome[q] = NoOutcome
                 PROVE  q \in open'[req'[q].from]
    BY <1>1 DEF OpenUntilCalled
  <2>2. CASE q = r
    BY <1>1, <1>3, <1>6, <1>7, <2>2 DEF BusInv, TypeOK
  <2>3. CASE q \in DOMAIN req
    <3>1. q \in open[req[q].from] /\ req[q].from \in Clients
      BY <2>1, <2>3, ReqFields DEF BusInv, ServedInv, SessionInv, OpenUntilCalled
    <3> QED
      BY <1>1, <1>7, <2>3, <3>1 DEF BusInv, TypeOK
  <2> QED
    BY <1>7, <2>2, <2>3
<1>15. SubscriptionsOwned'
  <2>1. SUFFICES ASSUME NEW t \in Sessions, NEW i \in Ids, Subscribing(t, i)'
                 PROVE  /\ i <= lastId'[t[1]]
                        /\ \A q \in DOMAIN req' : req'[q].from = t[1] => req'[q].id # i
    BY DEF SubscriptionsOwned
  <2>2. Subscribing(t, i)
    BY <1>1, <1>8, <1>9, <2>1 DEF Subscribing
  <2>3. /\ i <= lastId[t[1]]
        /\ \A q \in DOMAIN req : req[q].from = t[1] => req[q].id # i
    BY <2>2 DEF ServedInv, SessionInv, SubscriptionsOwned
  <2>4. i \in Nat /\ t[1] \in Clients /\ lastId[t[1]] \in Nat
    BY Bounds DEF Ids, BusInv, TypeOK
  <2>5. i <= lastId'[t[1]] /\ (t[1] = c => i # l + 1)
    <3>1. i <= lastId[t[1]]
      BY <2>3
    <3>2. CASE t[1] = c
      BY <1>4, <1>5, <2>4, <3>1, <3>2
    <3>3. CASE t[1] # c
      BY <1>5, <2>4, <3>1, <3>3
    <3> QED
      BY <3>2, <3>3
  <2> QED
    BY <1>6, <1>7, <2>3, <2>5
<1>16. DetachedStays
  BY <1>1 DEF DetachedStays, Attached
<1>17. ReqKept /\ CalledStays /\ AnswersStay
  BY <1>1, <1>7, QuietParts DEF ReqKept, CalledStays
<1>18. StubsKeep
  BY <1>1, <1>9 DEF StubsKeep, WithStub
<1>19. \A q \in Requests : Waiting(q)' => ServedStage(q)'
  BY <1>1, <1>16, <1>17, <1>18, StagesKept
<1> QED
  BY <1>11, <1>12, <1>13, <1>14, <1>15, <1>19 DEF ServedInv, SessionInv

-----------------------------------------------------------------------------

(* The bus takes package pac from session s, and the rest stays.           *)
HeadRead(s, pac) ==
    /\ \A t \in Sessions : \A p \in Range(up[t]) : p \in Range(up'[t]) \/ (t = s /\ p = pac)
    /\ \A t \in Sessions : \A p \in Range(up'[t]) : p \in Range(up[t])

(* A message of ProtoBase leaves the requests alone.                       *)
LEMMA HandleBaseServed ==
    ASSUME BusInv, ServedInv, NEW s \in Sessions, NEW pac \in Packages, pac \in Range(up[s]),
           pac.base, HandleBase(s, pac), HeadRead(s, pac),
           UNCHANGED <<clientVars, room, deliverCache, subscribeCache, opened, faults,
                       req, pubs, outcome>>
    PROVE  ServedInv'
<1> USE DEF clientVars
<1>1. /\ subs' = IF pac.type = "SUB" THEN subs \cup {[session |-> s, id |-> pac.id]} ELSE subs
      /\ UNCHANGED <<down, route, arrived, reused, served, routed>>
  BY DEF HandleBase
<1>2. StubsKeep
  BY <1>1 DEF StubsKeep, WithStub, HeadRead
<1>3. SubscribingKept
  BY <1>1 DEF SubscribingKept, Subscribing, HeadRead
<1> QED
  BY <1>1, <1>2, <1>3, QuietStep, QuietParts

(* A publication takes nothing from a channel.                             *)
LEMMA HandlePublicationServed ==
    ASSUME BusInv, ServedInv, NEW s \in Sessions, NEW pac \in Packages, ~pac.base,
           pac.type = "PUBSUB", HandlePublication(pac), HeadRead(s, pac),
           UNCHANGED <<clientVars, room, deliverCache, subscribeCache, opened, faults,
                       req, pubs, outcome>>
    PROVE  ServedInv'
<1> USE DEF clientVars
<1>1. down' = deliverPackage(down, deliverCache, pac)
      /\ UNCHANGED <<subs, route, arrived, reused, served, routed>>
  BY DEF HandlePublication
<1>2. /\ \A t \in Sessions : \A p \in Range(down'[t]) : p \in Range(down[t]) \/ p = pac
      /\ \A t \in Sessions : \A p \in Range(down[t]) : p \in Range(down'[t])
  <2> DEFINE after == deliverPackage(down, deliverCache, pac)
  <2>1. down \in [Sessions -> Seq(Packages)]
    BY DEF BusInv, TypeOK
  <2>2. \A t \in Sessions : \A p \in Range(after[t]) :
            p \in Range(down[t]) \/ (p = pac /\ t \in deliverCache)
    BY <2>1, Delivered
  <2>3. \A t \in Sessions : \A p \in Range(down[t]) : p \in Range(after[t])
    BY <2>1, DeliveredKeeps
  <2> HIDE DEF after
  <2>4. down' = after
    BY <1>1 DEF after
  <2> QED
    BY <2>2, <2>3, <2>4
<1>3. StubsKeep
  BY <1>2 DEF StubsKeep, WithStub, HeadRead
<1>4. SubscribingKept
  BY <1>1, <1>2 DEF SubscribingKept, Subscribing, HeadRead
<1>5. NumberedKept
  BY <1>2 DEF NumberedKept
<1>6. AnswersStay
  BY <1>2 DEF AnswersStay, AnswerFor
<1> QED
  BY <1>1, <1>3, <1>4, <1>5, <1>6, QuietStep, QuietParts

(* A request that comes in is with every stub it goes to, and the bus      *)
(* remembers who asked.  A request that the bus remembered with the same   *)
(* id is spoiled.                                                          *)
LEMMA HandleRequestServed ==
    ASSUME BusInv, ServedInv, NEW s \in Sessions, NEW pac \in Packages, pac \in Range(up[s]),
           ~pac.base, pac.type = "REQREP", HandleRequest(s, pac), HeadRead(s, pac),
           UNCHANGED <<clientVars, room, deliverCache, subscribeCache, opened, faults,
                       req, pubs, outcome>>
    PROVE  ServedInv'
<1> USE DEF clientVars
<1> DEFINE e == [pac EXCEPT !.type = "DELIVER"]
           to == {t \in deliverCache \cap room : Attached(t) /\ t[1] \notin BaseRepliers}
<1>1. /\ route' = [route EXCEPT ![pac.id] = s]
      /\ down' = deliverPackage(down, deliverCache, e)
      /\ reused' = IF IdInUse(pac.id) THEN reused \cup {pac.num} ELSE reused
      /\ served' = [served EXCEPT ![pac.num] = to]
      /\ subs' = subs
  BY DEF HandleRequest
<1>2. e \in Packages /\ e.type = "DELIVER" /\ e.id = pac.id /\ pac.id \in Ids
  BY DEF Packages
<1> HIDE DEF e
<1>3. /\ \A t \in Sessions : \A p \in Range(down'[t]) : p \in Range(down[t]) \/ p = e
      /\ \A t \in Sessions : \A p \in Range(down[t]) : p \in Range(down'[t])
      /\ \A t \in Sessions : t \in to => e \in Range(down'[t])
  <2> DEFINE after == deliverPackage(down, deliverCache, e)
  <2>1. down \in [Sessions -> Seq(Packages)]
    BY DEF BusInv, TypeOK
  <2>2. \A t \in Sessions : \A p \in Range(after[t]) :
            p \in Range(down[t]) \/ (p = e /\ t \in deliverCache)
    BY <1>2, <2>1, Delivered
  <2>3. \A t \in Sessions :
            /\ \A p \in Range(down[t]) : p \in Range(after[t])
            /\ t \in deliverCache /\ t \in room /\ Attached(t) => e \in Range(after[t])
    BY <1>2, <2>1, DeliveredKeeps
  <2> HIDE DEF after
  <2>4. down' = after
    BY <1>1 DEF after
  <2> QED
    BY <2>2, <2>3, <2>4
<1>4. PICK k \in DOMAIN req : k = pac.num /\ Asked(k, s, pac.id) /\ k \in Requests
  <2>1. Asked(pac.num, s, pac.id)
    BY DEF BusInv, PackagesOwned
  <2> QED
    BY <2>1, ReqNumbers DEF Asked
<1>5. /\ \A t \in to : /\ t \in Sessions /\ t[1] \in Deliverers /\ t[1] \notin BaseRepliers
                       /\ t[2] <= opened[t[1]]
  <2>1. SUFFICES ASSUME NEW t \in to
                 PROVE  /\ t \in Sessions /\ t[1] \in Deliverers /\ t[1] \notin BaseRepliers
                        /\ t[2] <= opened[t[1]]
    OBVIOUS
  <2>2. t \in Sessions /\ t[1] \in Deliverers /\ t[1] \notin BaseRepliers /\ Attached(t)
    BY DEF BusInv, TypeOK, PublishedToDeliverers
  <2>3. t[1] \in Clients /\ online[t[1]] = t /\ t # NoSession /\ t[2] \in Nat
    BY <2>2, AttachedOwn, Bounds
  <2>4. t[2] = opened[t[1]]
    BY <2>3 DEF ServedInv, SessionInv, AttachedInRoom
  <2> QED
    BY <2>2, <2>3, <2>4
<1> HIDE DEF to
<1>6. served'[k] = to /\ \A r \in Requests : r # k => served'[r] = served[r]
  BY <1>1, <1>4 DEF BusInv, TypeOK
<1>7. route'[pac.id] = s /\ \A i \in Ids : i # pac.id => route'[i] = route[i]
  BY <1>1, <1>2 DEF BusInv, TypeOK
<1>8. SessionInv' /\ DetachedStays /\ ReqKept /\ CalledStays
  <2>1. ServedSound
    <3>1. ASSUME NEW r \in Requests, NEW t \in served'[r]
          PROVE  /\ r \in DOMAIN req /\ t[1] \in Deliverers /\ t[1] \notin BaseRepliers
                 /\ t[2] <= opened[t[1]]
      <4>1. CASE r = k
        BY <1>4, <1>5, <1>6, <3>1, <4>1
      <4>2. CASE r # k
        BY <1>6, <3>1, <4>2 DEF ServedInv, SessionInv, SessionsOpened, ServedKnown
      <4> QED
        BY <4>1, <4>2
    <3> QED
      BY <3>1 DEF ServedSound
  <2>2. NumberedKept
    BY <1>2, <1>3 DEF NumberedKept
  <2>3. SubscribingKept
    BY <1>1, <1>2, <1>3 DEF SubscribingKept, Subscribing, HeadRead
  <2>4. SessionInv /\ RoomKept /\ OpenKept /\ IdsKept
    BY QuietParts DEF ServedInv
  <2> QED
    BY <2>1, <2>2, <2>3, <2>4, SessionInvKept
(* The request that came in. *)
<1>9. ServedStage(k)'
  <2>1. req'[k].session = s /\ req'[k].id = pac.id
    BY <1>4 DEF Asked
  <2>2. \A t \in to : WithStub(t, pac.id)'
    BY <1>2, <1>3, <1>5 DEF WithStub
  <2>3. route'[pac.id] = s /\ \A t \in served'[k] : WithStub(t, pac.id)'
    BY <1>6, <1>7, <2>2
  <2> QED
    BY <2>1, <2>3 DEF ServedStage, WithStub
(* The others. *)
<1>10. ASSUME NEW r \in Requests, r # k, Waiting(r)' PROVE ServedStage(r)'
  <2>1. /\ Waiting(r) /\ r \in DOMAIN req /\ req'[r] = req[r]
        /\ \E t \in Sessions, i \in Ids : Asked(r, t, i) /\ Attached(t)' /\ Attached(t)
    <3>1. SessionInv /\ reused \subseteq reused' /\ served'[r] = served[r]
      BY <1>1, <1>6, <1>10 DEF ServedInv
    <3> QED
      BY <1>8, <1>10, <3>1, WaitedBefore
  <2>2. PICK t \in Sessions, i \in Ids : Asked(r, t, i)
    BY <2>1
  <2>3. req[r].session = t /\ req[r].id = i /\ req'[r].session = t /\ req'[r].id = i
    BY <2>1, <2>2 DEF Asked
  <2>4. CASE AnswerFor(t, i)
    BY <1>3, <2>3, <2>4 DEF ServedStage, AnswerFor
  <2>5. CASE route[i] = t /\ \A u \in served[r] : Attached(u) => WithStub(u, i)
    <3>1. i # pac.id
      <4>1. SUFFICES ASSUME i = pac.id PROVE FALSE
        OBVIOUS
      <4>2. IdInUse(pac.id)
        BY <2>5, <4>1, Bounds DEF IdInUse
      <4>3. k \in reused'
        BY <1>1, <1>4, <4>2
      <4>4. req'[k].id = req'[r].id /\ k \in DOMAIN req' /\ r \in DOMAIN req'
        BY <1>4, <2>1, <2>3, <4>1 DEF Asked
      <4>5. Spoiled(r)'
        BY <1>10, <4>3, <4>4 DEF Spoiled
      <4> QED
        BY <1>10, <4>5 DEF Waiting
    <3>2. ASSUME NEW u \in served[r], Attached(u) PROVE WithStub(u, i)'
      <4>1. u \in Sessions /\ WithStub(u, i)
        BY <2>5, <3>2 DEF BusInv, TypeOK
      <4> QED
        BY <1>3, <4>1 DEF WithStub, HeadRead
    <3>3. route'[i] = t /\ \A u \in served'[r] : Attached(u)' => WithStub(u, i)'
      BY <1>6, <1>7, <1>10, <2>5, <3>1, <3>2 DEF Attached
    <3> QED
      BY <2>3, <3>3 DEF ServedStage, WithStub
  <2> QED
    BY <2>1, <2>3, <2>4, <2>5 DEF ServedInv, ServedStage
<1> QED
  BY <1>8, <1>9, <1>10 DEF ServedInv

(* An answer goes to the session the bus remembers: it is connected, so    *)
(* the answer is on its way.                                               *)
LEMMA HandleAnswerServed ==
    ASSUME BusInv, ServedInv, NEW s \in Sessions, NEW pac \in Packages, pac \in Range(up[s]),
           ~pac.base, pac.type = "DELIVER", HandleAnswer(pac), HeadRead(s, pac),
           UNCHANGED <<clientVars, room, deliverCache, subscribeCache, opened, faults,
                       req, pubs, outcome>>
    PROVE  ServedInv'
<1> USE DEF clientVars
<1>1. PICK asker : asker = route[pac.id]
  OBVIOUS
<1>2. PICK e \in Packages : /\ e = [pac EXCEPT !.type = "REQREP"] /\ e.type = "REQREP"
                            /\ e.id = pac.id /\ e.num = pac.num /\ ~e.base /\ pac.id \in Ids
  <2>1. /\ [pac EXCEPT !.type = "REQREP"] \in Packages /\ pac.id \in Ids
        /\ [pac EXCEPT !.type = "REQREP"].type = "REQREP"
        /\ [pac EXCEPT !.type = "REQREP"].id = pac.id
        /\ [pac EXCEPT !.type = "REQREP"].num = pac.num
        /\ ~[pac EXCEPT !.type = "REQREP"].base
    BY DEF Packages
  <2> QED
    BY <2>1
<1>3. /\ route' = [route EXCEPT ![pac.id] = NoSession]
      /\ down' = IF asker # NoSession THEN deliverPackage(down, {asker}, e) ELSE down
      /\ UNCHANGED <<subs, reused, served>>
  BY <1>1, <1>2 DEF HandleAnswer
<1>4. /\ \A t \in Sessions : \A p \in Range(down'[t]) : p \in Range(down[t]) \/ p = e
      /\ \A t \in Sessions : \A p \in Range(down[t]) : p \in Range(down'[t])
      /\ \A t \in Sessions : t = asker /\ t \in room /\ Attached(t) => e \in Range(down'[t])
  <2>1. down \in [Sessions -> Seq(Packages)]
    BY DEF BusInv, TypeOK
  <2>2. CASE asker # NoSession
    <3> DEFINE after == deliverPackage(down, {asker}, e)
    <3>1. \A t \in Sessions : \A p \in Range(after[t]) :
              p \in Range(down[t]) \/ (p = e /\ t \in {asker})
      BY <2>1, Delivered
    <3>2. \A t \in Sessions :
              /\ \A p \in Range(down[t]) : p \in Range(after[t])
              /\ t \in {asker} /\ t \in room /\ Attached(t) => e \in Range(after[t])
      BY <2>1, DeliveredKeeps
    <3> HIDE DEF after
    <3>3. down' = after
      BY <1>3, <2>2 DEF after
    <3> QED
      BY <3>1, <3>2, <3>3
  <2>3. CASE asker = NoSession
    BY <1>3, <2>3, Bounds
  <2> QED
    BY <2>2, <2>3
<1>5. \A i \in Ids : i # pac.id => route'[i] = route[i]
  BY <1>3 DEF BusInv, TypeOK
<1>6. SessionInv' /\ DetachedStays /\ ReqKept /\ CalledStays
  <2>1. ServedSound
    BY <1>3 DEF ServedSound, ServedInv, SessionInv, SessionsOpened, ServedKnown
  <2>2. NumberedKept
    <3>1. pac.num \in DOMAIN req
      BY DEF BusInv, PackagesOwned, UnderWay
    <3> QED
      BY <1>2, <1>4, <3>1 DEF NumberedKept
  <2>3. SubscribingKept
    BY <1>2, <1>3, <1>4 DEF SubscribingKept, Subscribing, HeadRead
  <2>4. SessionInv /\ RoomKept /\ OpenKept /\ IdsKept
    BY QuietParts DEF ServedInv
  <2> QED
    BY <2>1, <2>2, <2>3, <2>4, SessionInvKept
<1>7. ASSUME NEW r \in Requests, Waiting(r)' PROVE ServedStage(r)'
  <2>1. /\ Waiting(r) /\ r \in DOMAIN req /\ req'[r] = req[r]
        /\ \E t \in Sessions, i \in Ids : Asked(r, t, i) /\ Attached(t)' /\ Attached(t)
    <3>1. SessionInv /\ reused \subseteq reused' /\ served'[r] = served[r]
      BY <1>3 DEF ServedInv
    <3> QED
      BY <1>6, <1>7, <3>1, WaitedBefore
  <2>2. PICK t \in Sessions, i \in Ids : Asked(r, t, i) /\ Attached(t)
    BY <2>1
  <2>3. req[r].session = t /\ req[r].id = i /\ req'[r].session = t /\ req'[r].id = i
    BY <2>1, <2>2 DEF Asked
  <2>4. CASE AnswerFor(t, i)
    BY <1>4, <2>3, <2>4 DEF ServedStage, AnswerFor
  <2>5. CASE route[i] = t /\ \A u \in served[r] : Attached(u) => WithStub(u, i)
    <3>1. CASE i = pac.id
      <4>1. t[1] \in Clients /\ online[t[1]] = t /\ t # NoSession
        BY <2>2, AttachedOwn, Bounds
      <4>2. t \in room
        BY <4>1 DEF ServedInv, SessionInv, AttachedInRoom
      <4>3. e \in Range(down'[t])
        BY <1>1, <1>4, <2>2, <2>5, <3>1, <4>2
      <4> QED
        BY <1>2, <2>3, <3>1, <4>3 DEF ServedStage, AnswerFor
    <3>2. CASE i # pac.id
      <4>1. ASSUME NEW u \in served[r], Attached(u) PROVE WithStub(u, i)'
        <5>1. u \in Sessions /\ WithStub(u, i)
          BY <2>5, <4>1 DEF BusInv, TypeOK
        <5> QED
          BY <1>4, <3>2, <5>1 DEF WithStub, HeadRead
      <4>2. route'[i] = t /\ \A u \in served'[r] : Attached(u)' => WithStub(u, i)'
        BY <1>3, <1>5, <2>5, <3>2, <4>1 DEF Attached
      <4> QED
        BY <2>3, <4>2 DEF ServedStage, WithStub
    <3> QED
      BY <3>1, <3>2
  <2> QED
    BY <2>1, <2>3, <2>4, <2>5 DEF ServedInv, ServedStage
<1> QED
  BY <1>6, <1>7 DEF ServedInv

(* The bus reads the next package of a session.                            *)
LEMMA BusReadServed ==
    ASSUME BusInv, ServedInv, NEW s \in Sessions, BusRead(s)
    PROVE  ServedInv'
<1>1. PICK pac : pac = Head(up[s])
  OBVIOUS
<1>2. /\ up[s] # <<>> /\ up' = [up EXCEPT ![s] = Tail(@)]
      /\ \/ pac.base /\ HandleBase(s, pac)
         \/ ~pac.base /\ pac.type = "REQREP" /\ HandleRequest(s, pac)
         \/ ~pac.base /\ pac.type = "DELIVER" /\ HandleAnswer(pac)
         \/ ~pac.base /\ pac.type = "PUBSUB" /\ HandlePublication(pac)
      /\ UNCHANGED <<clientVars, room, deliverCache, subscribeCache, opened, faults,
                     req, pubs, outcome>>
  BY <1>1 DEF BusRead
<1>3. up \in [Sessions -> Seq(Packages)] /\ up[s] \in Seq(Packages)
  BY DEF BusInv, TypeOK
<1>4. /\ pac \in Packages /\ pac \in Range(up[s])
      /\ \A p \in Range(Tail(up[s])) : p \in Range(up[s])
      /\ \A p \in Range(up[s]) : p = pac \/ p \in Range(Tail(up[s]))
  BY <1>1, <1>2, <1>3, ChannelTail, ChannelKeeps
<1>5. HeadRead(s, pac)
  BY <1>2, <1>3, <1>4 DEF HeadRead
<1>6. CASE pac.base /\ HandleBase(s, pac)
  BY <1>2, <1>4, <1>5, <1>6, HandleBaseServed
<1>7. CASE ~pac.base /\ pac.type = "REQREP" /\ HandleRequest(s, pac)
  BY <1>2, <1>4, <1>5, <1>7, HandleRequestServed
<1>8. CASE ~pac.base /\ pac.type = "DELIVER" /\ HandleAnswer(pac)
  BY <1>2, <1>4, <1>5, <1>8, HandleAnswerServed
<1>9. CASE ~pac.base /\ pac.type = "PUBSUB" /\ HandlePublication(pac)
  BY <1>2, <1>4, <1>5, <1>9, HandlePublicationServed
<1> QED
  BY <1>2, <1>6, <1>7, <1>8, <1>9

-----------------------------------------------------------------------------

(* Nobody is connected and nothing was asked at the start.                 *)
LEMMA InitServed == Init => ServedInv
<1> SUFFICES ASSUME Init PROVE ServedInv
  OBVIOUS
<1>1. DOMAIN req = {} /\ \A r \in Requests : served[r] = {}
  BY DEF Init
<1>2. \A s \in Sessions : up[s] = <<>> /\ down[s] = <<>>
  BY DEF Init
<1>3. AttachedInRoom
  BY DEF Init, AttachedInRoom
<1>4. SessionsOpened /\ ServedKnown /\ OpenUntilCalled
  BY <1>1 DEF SessionsOpened, ServedKnown, OpenUntilCalled
<1>5. AnswersNumbered
  BY <1>2, ChannelSmall DEF AnswersNumbered
<1>6. SubscriptionsOwned
  <2>1. \A s \in Sessions, i \in Ids : ~Subscribing(s, i)
    BY <1>2, ChannelSmall DEF Subscribing, Init
  <2> QED
    BY <2>1 DEF SubscriptionsOwned
<1>7. \A r \in Requests : ~Waiting(r)
  BY <1>1 DEF Waiting
<1> QED
  BY <1>3, <1>4, <1>5, <1>6, <1>7 DEF ServedInv, SessionInv

(* Every step of the bus and its clients keeps what was served under way.  *)
LEMMA NextServed == BusInv /\ ServedInv /\ [Next]_vars => ServedInv'
<1> SUFFICES ASSUME BusInv, ServedInv, [Next]_vars PROVE ServedInv'
  OBVIOUS
<1>1. CASE UNCHANGED vars
  <2>1. UNCHANGED <<online, lastId, open, tasks, up, down, room, subs, opened, route, req,
                    outcome, reused, served>>
    BY <1>1 DEF vars, clientVars, roomVars, history
  <2>2. StubsKeep /\ SubscribingKept
    BY <2>1 DEF StubsKeep, WithStub, SubscribingKept, Subscribing
  <2> QED
    BY <2>1, <2>2, QuietStep, QuietParts
<1>2. CASE Next
  <2>1. ASSUME NEW c \in Clients, Connect(c) PROVE ServedInv'
    BY <2>1, ConnectServed
  <2>2. ASSUME NEW c \in Clients, Disconnect(c) PROVE ServedInv'
    BY <2>2, DisconnectServed
  <2>3. ASSUME NEW c \in Clients, PostMessage(c) PROVE ServedInv'
    BY <2>3, PostMessageServed
  <2>4. ASSUME NEW c \in Clients, PublishMessage(c) PROVE ServedInv'
    BY <2>4, PublishMessageServed
  <2>5. ASSUME NEW c \in Clients, DoResponse(c) PROVE ServedInv'
    BY <2>5, DoResponseServed
  <2>6. ASSUME NEW c \in Clients, NEW pac \in tasks[c], ReplyDeliver(c, pac) PROVE ServedInv'
    BY <2>6, ReplyDeliverServed
  <2>7. ASSUME NEW c \in Clients, NEW r \in open[c], Timeout(c, r) PROVE ServedInv'
    BY <2>7, TimeoutServed
  <2>8. ASSUME NEW s \in Sessions, Leave(s) PROVE ServedInv'
    BY <2>8, LeaveServed
  <2>9. ASSUME NEW s \in Sessions, BusRead(s) PROVE ServedInv'
    BY <2>9, BusReadServed
  <2>10. ASSUME NEW sub \in subs, DoSubscribe(sub) PROVE ServedInv'
    BY <2>10, DoSubscribeServed
  <2> QED
    BY <1>2, <2>1, <2>2, <2>3, <2>4, <2>5, <2>6, <2>7, <2>8, <2>9, <2>10 DEF Next
<1> QED
  BY <1>1, <1>2

(* The safety core of ServedIsCalled: while the caller and one stub that   *)
(* got a request stay connected, and its id is not used again too early,   *)
(* the bus never comes to a state from which the callback cannot come.     *)
(* Either the answer is on its way to the session that asked, or           *)
(* msgSessionCache_ still names that session and a stub that is connected  *)
(* holds the request or has answered.                                      *)
THEOREM NeverForgotten == Spec => []ServedIsUnderWay
<1>1. Init => ServedInv
  BY InitServed
<1>2. BusInv /\ ServedInv /\ [Next]_vars => ServedInv'
  BY NextServed
<1>3. ServedInv => ServedIsUnderWay
  <2>1. SUFFICES ASSUME ServedInv, NEW r \in Requests, Waiting(r)
                 PROVE  \/ AnswerFor(req[r].session, req[r].id)
                        \/ /\ route[req[r].id] = req[r].session
                           /\ \E s \in served[r] : Attached(s) /\ WithStub(s, req[r].id)
    BY DEF ServedIsUnderWay, Waiting
  <2>2. ServedStage(r)
    BY <2>1 DEF ServedInv
  <2>3. \E s \in served[r] : Attached(s)
    BY <2>1 DEF Waiting, Spoiled, ServedInv, SessionInv, ServedKnown
  <2> QED
    BY <2>2, <2>3 DEF ServedStage
<1> QED
  BY <1>1, <1>2, <1>3, Inductive, PTL DEF Spec
=============================================================================
