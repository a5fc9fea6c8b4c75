-------------------------- MODULE AsioClientProofs --------------------------
(***************************************************************************)
(* Theorems about AsioClient, for any number of messages, faults, pushes   *)
(* and addresses, with and without reconnecting, heartbeats and handlers.  *)
(*                                                                         *)
(* They come in layers, each an invariant that rests on the ones before:   *)
(* types and the table of requests, the one write, the packages, the       *)
(* answers; then the work of io_, the heartbeat and the contract.          *)
(***************************************************************************)
EXTENDS AsioClient, SubsequenceProofs

(* The theorems about the table of requests. *)
RMP == INSTANCE RequestMessageProofs WITH Data <- Msgs

TypeInv == TypeOK /\ RMP!IInv

(* The variables of the stream of bytes are meant one by one. *)
USE DEF streamVars

(* A package, a request or an answer is about a message that was made, and *)
(* an answer about one that was put into the table under its id.           *)
Put(n) == idOf[n] = MsgId(n)
AnswersPut(q) == \A i \in 1..Len(q) : q[i].n # 0 => Put(q[i].n)
MadeInv ==
    /\ \A n \in Msgs : idOf[n] # NoId => Put(n)
    /\ \A n \in 1..Len(kind) : kind[n] # "pub" => Put(n)
    /\ \A i \in 1..Len(posted) : posted[i].n <= Len(kind)
    /\ \A n \in peer : Put(n)
    /\ AnswersPut(inbound) /\ AnswersPut(tempBuf_) /\ AnswersPut(readBuffer_)
    /\ AnswersPut(respQ)

(* What keeps a client at work that reconnects: it reads or connects, or   *)
(* a handler that will is queued.                                          *)
KeepsAtIt ==
    life = "running" /\ ~ioStopped /\ Reconnects =>
        \/ reads > 0 \/ sock = "connecting"
        \/ \E i \in 1..Len(ioQ) : ioQ[i].h \in {"doRead", "doConnect", "doClose"}

(* The ids of the messages are different, and no answers of delivered      *)
(* requests are written, which carry the ids of others.                    *)
PlainClient == ~Delivers /\ \A m, n \in Msgs : MsgId(m) = MsgId(n) => m = n

(* Only accepted messages are written, timed and answered. *)
Accepted(n) == code[n] = "eSuccess"
AcceptedAnswers(q) == \A i \in 1..Len(q) : q[i].n # 0 => Accepted(q[i].n)
AcceptedInv ==
    /\ \A n \in Msgs : n > Len(kind) => code[n] = "none"
    /\ \A n \in Msgs : idOf[n] # NoId => n <= Len(kind) /\ kind[n] # "pub"
    /\ tasks = <<>>
    /\ \A i \in 1..Len(posted) : posted[i].n # 0 /\ Accepted(posted[i].n)
    /\ \A n \in peer : Accepted(n)
    /\ AcceptedAnswers(inbound) /\ AcceptedAnswers(tempBuf_) /\ AcceptedAnswers(readBuffer_)
    /\ AcceptedAnswers(respQ)
    /\ arming # NoData => Accepted(arming)
    /\ \A n \in Msgs : waits[n] > 0 \/ n \in expired \/ Reported(n) # <<>> => Accepted(n)

-----------------------------------------------------------------------------
(***************************************************************************)
(* The operators                                                           *)
(***************************************************************************)

(* What is made is a message, a package, an answer or a handler. *)
LEMMA Makes ==
    /\ \A n \in Msgs : MsgId(n) \in Ids /\ Package(n) \in Packages
    /\ \A id \in Ids : DeliverAnswer(id) \in Packages
    /\ \A n \in Msgs : Answer(n) \in Inputs
    /\ \A p \in Packages : StartWrite(p) \in Handlers
    /\ \A p \in Packages : \A ok \in BOOLEAN : Written(p, ok) \in Handlers
    /\ \A ok \in BOOLEAN : DoRead(ok) \in Handlers /\ DoConnect(ok) \in Handlers
    /\ {Connected, DoClose, DoHeartbeat} \subseteq Handlers
<1>1. /\ \A n \in Msgs : MsgId(n) \in Ids /\ Package(n) \in Packages
      /\ \A id \in Ids : DeliverAnswer(id) \in Packages
      /\ \A n \in Msgs : Answer(n) \in Inputs
  BY DEF Ids, Packages, Inputs
<1>2. /\ \A p \in Packages : StartWrite(p) \in Handlers
      /\ \A p \in Packages : \A ok \in BOOLEAN : Written(p, ok) \in Handlers
  BY DEF Handlers, StartWrite, Written
<1>3. \A ok \in BOOLEAN : DoRead(ok) \in Handlers /\ DoConnect(ok) \in Handlers
  BY DEF Handlers, DoRead, DoConnect
<1>4. {Connected, DoClose, DoHeartbeat} \subseteq Handlers
  BY DEF Handlers, Connected, DoClose, DoHeartbeat
<1> QED
  BY <1>1, <1>2, <1>3, <1>4

(* The fields of packages, of what the server sends, and of handlers. *)
LEMMA PackageFields ==
    ASSUME NEW p \in Packages
    PROVE  p.id \in Ids /\ (p.n = 0 \/ (p.n \in Msgs /\ p = Package(p.n) /\ p.id = MsgId(p.n)))
BY DEF Packages, Package, DeliverAnswer, Ids

(* The same for what the server sends. *)
LEMMA InputFields ==
    ASSUME NEW m \in Inputs
    PROVE  /\ m.id \in Ids /\ m.n \in Rsps
           /\ m.n # 0 => m.n \in Msgs /\ m.id = MsgId(m.n)
BY ClientAssumption DEF Inputs, Mixed, Pushes, Answer, Push, Ids, Msgs, Rsps

(* The same for handlers. *)
LEMMA HandlerFields ==
    ASSUME NEW x \in Handlers
    PROVE  /\ x.h \in {"startWrite", "written"} => x.p \in Packages
           /\ x.h \in {"written", "doRead", "doConnect"} => x.ok \in BOOLEAN
BY DEF Handlers

(* The kinds of the handlers that are made. *)
LEMMA HandlerKinds ==
    /\ \A p : StartWrite(p).h = "startWrite" /\ StartWrite(p).p = p
    /\ \A p, ok : Written(p, ok).h = "written" /\ Written(p, ok).p = p /\ Written(p, ok).ok = ok
    /\ \A ok : DoRead(ok).h = "doRead" /\ DoRead(ok).ok = ok
    /\ \A ok : DoConnect(ok).h = "doConnect" /\ DoConnect(ok).ok = ok
    /\ Connected.h = "connected" /\ DoClose.h = "doClose" /\ DoHeartbeat.h = "doHeartbeat"
BY DEF StartWrite, Written, DoRead, DoConnect, Connected, DoClose, DoHeartbeat

(* The handlers of operations that failed at once, and the like. *)
LEMMA MadeHandlers ==
    /\ \A p \in Packages : Written(p, FALSE) \in Handlers /\ Written(p, FALSE).h = "written"
    /\ DoRead(FALSE) \in Handlers /\ DoRead(FALSE).h = "doRead"
    /\ DoRead(TRUE) \in Handlers /\ DoRead(TRUE).h = "doRead"
    /\ DoConnect(TRUE) \in Handlers /\ DoConnect(TRUE).h = "doConnect"
    /\ DoConnect(FALSE) \in Handlers /\ DoConnect(FALSE).h = "doConnect"
<1>1. \A p \in Packages : Written(p, FALSE) \in Handlers /\ Written(p, FALSE).h = "written"
  BY DEF Handlers, Written
<1>2. DoRead(FALSE) \in Handlers /\ DoRead(FALSE).h = "doRead"
  BY DEF Handlers, DoRead
<1>3. DoRead(TRUE) \in Handlers /\ DoRead(TRUE).h = "doRead"
  BY DEF Handlers, DoRead
<1>4. /\ DoConnect(TRUE) \in Handlers /\ DoConnect(TRUE).h = "doConnect"
      /\ DoConnect(FALSE) \in Handlers /\ DoConnect(FALSE).h = "doConnect"
  BY DEF Handlers, DoConnect
<1> QED
  BY <1>1, <1>2, <1>3, <1>4

(* decode() moves messages on, and adds only what mixed-up bytes can say.  *)
LEMMA DecodeMoves ==
    ASSUME NEW S, DecodeInStep \/ (DecodeMixedUp /\ Mixed \subseteq S),
           tempBuf_ \in Seq(S), readBuffer_ \in Seq(S), respQ \in Seq(S)
    PROVE  respQ' \in Seq(S) /\ readBuffer_' \in Seq(S)
<1>1. CASE DecodeInStep
  BY <1>1 DEF DecodeInStep
<1>2. CASE DecodeMixedUp /\ Mixed \subseteq S
  <2>1. PICK arrived \in Seq(S) : arrived = readBuffer_ \o tempBuf_
    <3>1. readBuffer_ \o tempBuf_ \in Seq(S)
      OBVIOUS
    <3> QED
      BY <3>1, Zenon
  <2>2. PICK found \in SeqOf(Mixed, MaxMixed), first \in 1..(Len(arrived) + 1),
             last \in 0..Len(arrived) :
          /\ respQ' = respQ \o found \o SubSeq(arrived, first, last)
          /\ readBuffer_' = SubSeq(arrived, last + 1, Len(arrived))
    BY <1>2, <2>1 DEF DecodeMixedUp
  <2>3. found \in Seq(S)
    <3>1. PICK m \in Nat : found \in [1..m -> Mixed]
      <4>1. found \in UNION {[1..m -> Mixed] : m \in 0..MaxMixed}
        BY <2>2 DEF SeqOf
      <4>2. PICK m \in 0..MaxMixed : found \in [1..m -> Mixed]
        BY <4>1, Zenon
      <4>3. m \in Nat
        BY ClientAssumption
      <4> QED
        BY <4>2, <4>3, Zenon
    <3>2. found \in [1..m -> S]
      BY <1>2, <3>1
    <3> QED
      BY <3>1, <3>2
  <2>4. SubSeq(arrived, first, last) \in Seq(S) /\ SubSeq(arrived, last + 1, Len(arrived)) \in Seq(S)
    BY <2>1, <2>2
  <2> QED
    BY <2>2, <2>3, <2>4
<1> QED
  BY <1>1, <1>2

(* A read moves messages from the connection to tempBuf_. *)
LEMMA ReadMoves ==
    ASSUME NEW S, ReadCompletes, inbound \in Seq(S), tempBuf_ \in Seq(S)
    PROVE  tempBuf_' \in Seq(S) /\ inbound' \in Seq(S)
<1>1. PICK len \in 0..Len(inbound) :
        /\ tempBuf_' = SubSeq(inbound, 1, len) \o SubSeq(tempBuf_, len + 1, Len(tempBuf_))
        /\ inbound' = SubSeq(inbound, len + 1, Len(inbound))
  BY DEF ReadCompletes
<1>2. SubSeq(inbound, 1, len) \in Seq(S) /\ SubSeq(inbound, len + 1, Len(inbound)) \in Seq(S)
  BY <1>1
<1>3. SubSeq(tempBuf_, len + 1, Len(tempBuf_)) \in Seq(S)
  BY <1>1
<1> QED
  BY <1>1, <1>2, <1>3

(* The bounds are numbers. *)
LEMMA Bounds ==
    MaxReq \in Nat /\ MaxPushes \in Nat /\ MaxFaults \in Nat /\ Addresses \in Nat \ {0}
BY ClientAssumption

(* What the types say of the messages and the queue. *)
LEMMA MessageTypes ==
    ASSUME TypeOK
    PROVE  /\ kind \in Seq(Kinds) /\ Len(kind) \in Nat /\ Len(kind) <= MaxReq /\ MaxReq \in Nat
           /\ code \in [Msgs -> Codes] /\ posted \in Seq(Packages) /\ ioQ \in Seq(Handlers)
<1>1. kind \in Seq(Kinds) /\ Len(kind) <= MaxReq
  BY DEF TypeOK
<1>2. code \in [Msgs -> Codes] /\ posted \in Seq(Packages) /\ ioQ \in Seq(Handlers)
  BY DEF TypeOK
<1>3. Len(kind) \in Nat
  BY <1>1
<1> QED
  BY <1>1, <1>2, <1>3, Bounds

(* The address that is tried next is one of the list, or the one behind it. *)
LEMMA IndexType ==
    ASSUME TypeOK
    PROVE  /\ addressIndex_ \in Nat /\ addressIndex_ + 1 \in Nat
           /\ addressIndex_ + 1 <= Addresses /\ addressIndex_ <= Addresses
<1>1. addressIndex_ \in 0..(Addresses - 1)
  BY DEF TypeOK
<1> QED
  BY <1>1, Bounds

(* RM and RMP are instances of the same table. *)
LEMMA SameTable ==
    /\ RMP!TypeOK <=> RM!TypeOK
    /\ RMP!Init <=> RM!Init
    /\ RMP!AtMostOnce <=> RM!AtMostOnce
    /\ RMP!rmVars = RM!rmVars
    /\ RMP!Next <=> RM!Next
    /\ \A n : RMP!OwnId(n) <=> RM!OwnId(n)
<1> USE DEF RMP!Results, RM!Results, RMP!Held, RM!Held, RMP!WaitsKept, RM!WaitsKept,
            RMP!Pick, RM!Pick
<1>1. /\ RMP!TypeOK <=> RM!TypeOK
      /\ RMP!Init <=> RM!Init
      /\ RMP!AtMostOnce <=> RM!AtMostOnce
      /\ RMP!rmVars = RM!rmVars
      /\ \A n : RMP!OwnId(n) <=> RM!OwnId(n)
  BY DEF RMP!TypeOK, RM!TypeOK, RMP!Init, RM!Init, RMP!AtMostOnce, RM!AtMostOnce,
         RMP!rmVars, RM!rmVars, RMP!OwnId, RM!OwnId
<1>2. \A d, id : RMP!Put(d, id) <=> RM!Put(d, id)
  BY DEF RMP!Put, RM!Put
<1>3. \A id : RMP!StartTimerFind(id) <=> RM!StartTimerFind(id)
  BY DEF RMP!StartTimerFind, RM!StartTimerFind
<1>4. RMP!StartTimerWait <=> RM!StartTimerWait
  BY DEF RMP!StartTimerWait, RM!StartTimerWait
<1>5. \A d : RMP!TimerFires(d) <=> RM!TimerFires(d)
  BY DEF RMP!TimerFires, RM!TimerFires
<1>6. \A id : RMP!OnTimeout(id) <=> RM!OnTimeout(id)
  BY DEF RMP!OnTimeout, RM!OnTimeout
<1>7. \A id, r : RMP!OnResponse(id, r) <=> RM!OnResponse(id, r)
  BY DEF RMP!OnResponse, RM!OnResponse
<1>8. RMP!Next <=> RM!Next
  BY <1>2, <1>3, <1>4, <1>5, <1>6, <1>7 DEF RMP!Next, RM!Next
<1> QED
  BY <1>1, <1>8

(* The assumptions of the table hold for the client. *)
LEMMA TableAssumed == RMP!RMAssumption /\ RM!RMAssumption
BY ClientAssumption, TableAssumption DEF RMP!RMAssumption, RM!RMAssumption

(* The table keeps its invariant, whatever the client does. *)
LEMMA TableInv ==
    ASSUME RMP!IInv, RM!Next \/ UNCHANGED RM!rmVars
    PROVE  RMP!IInv'
<1>1. [RMP!Next]_(RMP!rmVars)
  BY SameTable DEF RMP!rmVars, RM!rmVars
<1> QED
  BY <1>1, TableAssumed, RMP!NextIInv

-----------------------------------------------------------------------------
(***************************************************************************)
(* The io queue                                                            *)
(***************************************************************************)

(* The handlers h of queue q, in order. *)
HandlersIn(q, h) == Pick(q, Of(q, h))

(* The handlers of a queue of two parts. *)
LEMMA HandlersConcat ==
    ASSUME NEW q \in Seq(Handlers), NEW r \in Seq(Handlers), NEW h
    PROVE  HandlersIn(q \o r, h) = HandlersIn(q, h) \o HandlersIn(r, h)
<1>1. Len(q) \in Nat /\ Len(r) \in Nat /\ Len(q \o r) = Len(q) + Len(r)
  OBVIOUS
<1>2. /\ \A i \in 1..Len(q) : (q \o r)[i] = q[i] /\ i \in 1..Len(q \o r)
      /\ \A i \in 1..Len(r) : (q \o r)[Len(q) + i] = r[i] /\ Len(q) + i \in 1..Len(q \o r)
  BY <1>1
<1>3. Joins(Of(q \o r, h), Of(q, h), Len(q), Of(r, h), Len(r))
  BY <1>1, <1>2 DEF Joins, Of
<1> QED
  BY <1>3, PickConcat DEF HandlersIn

(* The handlers of kind h have that kind. *)
LEMMA HandlersType ==
    ASSUME NEW q \in Seq(Handlers), NEW h
    PROVE  /\ HandlersIn(q, h) \in Seq(Handlers) /\ Len(HandlersIn(q, h)) \in Nat
           /\ \A i \in 1..Len(HandlersIn(q, h)) : HandlersIn(q, h)[i].h = h
<1>1. Of(q, h) \in SUBSET (1..Len(q))
  BY DEF Of
<1>2. /\ HandlersIn(q, h) \in Seq(Handlers)
      /\ Len(HandlersIn(q, h)) = Cardinality(Of(q, h)) /\ Cardinality(Of(q, h)) \in Nat
      /\ \A k \in 1..Cardinality(Of(q, h)) :
             Position(Of(q, h), k) \in Of(q, h) /\ HandlersIn(q, h)[k] = q[Position(Of(q, h), k)]
  BY <1>1, PickProperties DEF HandlersIn
<1> QED
  BY <1>2 DEF Of

(* No place holds such a handler: there are none. *)
LEMMA HandlersNone ==
    ASSUME NEW q \in Seq(Handlers), NEW h, \A i \in 1..Len(q) : q[i].h # h
    PROVE  HandlersIn(q, h) = <<>>
<1>1. Of(q, h) = {}
  BY DEF Of
<1> QED
  BY <1>1, PickNone DEF HandlersIn

(* A queue of one handler. *)
LEMMA HandlersOne ==
    ASSUME NEW x \in Handlers, NEW h
    PROVE  HandlersIn(<<x>>, h) = IF x.h = h THEN <<x>> ELSE <<>>
<1>1. <<x>> \in Seq(Handlers) /\ Len(<<x>>) = 1 /\ <<x>>[1] = x
  OBVIOUS
<1>2. CASE x.h = h
  <2>1. Of(<<x>>, h) = {1}
    BY <1>1, <1>2 DEF Of
  <2>2. 1 \in 1..Len(<<x>>)
    BY <1>1
  <2>3. Pick(<<x>>, {1}) = <<x>>
    BY <1>1, <2>2, PickOne
  <2> QED
    BY <1>2, <2>1, <2>3 DEF HandlersIn
<1>3. CASE x.h # h
  <2>1. \A i \in 1..Len(<<x>>) : <<x>>[i].h # h
    BY <1>1, <1>3
  <2> QED
    BY <1>1, <1>3, <2>1, HandlersNone
<1> QED
  BY <1>2, <1>3

(* The handler at the head, and those behind it. *)
LEMMA HandlersHead ==
    ASSUME NEW q \in Seq(Handlers), q # <<>>, NEW h
    PROVE  /\ Head(q) \in Handlers /\ Tail(q) \in Seq(Handlers) /\ Head(q) = q[1]
           /\ HandlersIn(q, h) = (IF Head(q).h = h THEN <<Head(q)>> ELSE <<>>) \o HandlersIn(Tail(q), h)
<1>1. /\ Head(q) \in Handlers /\ Tail(q) \in Seq(Handlers) /\ <<Head(q)>> \in Seq(Handlers)
      /\ q = <<Head(q)>> \o Tail(q) /\ Head(q) = q[1]
  OBVIOUS
<1>2. HandlersIn(<<Head(q)>> \o Tail(q), h) = HandlersIn(<<Head(q)>>, h) \o HandlersIn(Tail(q), h)
  BY <1>1, HandlersConcat
<1>3. HandlersIn(<<Head(q)>>, h) = IF Head(q).h = h THEN <<Head(q)>> ELSE <<>>
  BY <1>1, HandlersOne
<1> QED
  BY <1>1, <1>2, <1>3

(* A function on the first n numbers is a sequence of length n. *)
LEMMA FunSeq ==
    ASSUME NEW S, NEW n \in Nat, NEW f \in [1..n -> S]
    PROVE  f \in Seq(S) /\ Len(f) = n
OBVIOUS

(* Putting at the end and taking from the front. *)
LEMMA SeqFacts ==
    ASSUME NEW S
    PROVE  /\ <<>> \in Seq(S)
           /\ \A s \in Seq(S) : \A e \in S : Append(s, e) \in Seq(S) /\ Append(s, e) # <<>>
           /\ \A s \in Seq(S) : s # <<>> => Head(s) \in S /\ Tail(s) \in Seq(S)
<1>1. <<>> \in Seq(S)
  OBVIOUS
<1>2. ASSUME NEW s \in Seq(S), NEW e \in S PROVE Append(s, e) \in Seq(S) /\ Append(s, e) # <<>>
  <2>1. Append(s, e) \in Seq(S) /\ Len(Append(s, e)) = Len(s) + 1 /\ Len(s) \in Nat
    BY AppendProperties
  <2>2. Len(<<>>) = 0
    OBVIOUS
  <2> QED
    BY <2>1, <2>2
<1>3. ASSUME NEW s \in Seq(S), s # <<>> PROVE Head(s) \in S /\ Tail(s) \in Seq(S)
  BY <1>3
<1> QED
  BY <1>1, <1>2, <1>3

(* The sequence of one element, and of none. *)
LEMMA SeqOne ==
    ASSUME NEW S
    PROVE  /\ <<>> \in Seq(S) /\ Len(<<>>) = 0
           /\ \A x \in S : <<x>> \in Seq(S) /\ Len(<<x>>) = 1 /\ <<x>>[1] = x
OBVIOUS

(* All handlers of r are of the kinds H. *)
AllOf(r, H) == r \in Seq(Handlers) /\ \A i \in 1..Len(r) : r[i].h \in H

(* How a step changes the queue: it puts in handlers of the kinds H, most  *)
(* of them at the end, and may take a handler of the kinds G off its head. *)
QueueStep(H, G) ==
    \E l, q, r :
        /\ ioQ' = (l \o q) \o r /\ AllOf(l, H) /\ AllOf(r, H)
        /\ \/ q = ioQ
           \/ ioQ # <<>> /\ Head(ioQ).h \in G /\ q = Tail(ioQ)

(* Small sequences of handlers. *)
LEMMA AllOfSmall ==
    /\ \A H : AllOf(<<>>, H)
    /\ \A x \in Handlers : \A H : x.h \in H => AllOf(<<x>>, H)
BY DEF AllOf

(* The usual ways to change the queue. *)
LEMMA QueueSteps ==
    ASSUME ioQ \in Seq(Handlers), NEW H, NEW G
    PROVE  /\ ioQ' = ioQ => QueueStep(H, G)
           /\ \A x \in Handlers : x.h \in H /\ ioQ' = Append(ioQ, x) => QueueStep(H, G)
           /\ \A r : AllOf(r, H) /\ ioQ' = ioQ \o r => QueueStep(H, G)
           /\ ioQ # <<>> /\ Head(ioQ).h \in G =>
                  /\ ioQ' = Tail(ioQ) => QueueStep(H, G)
                  /\ \A x \in Handlers : x.h \in H /\ ioQ' = Append(Tail(ioQ), x) => QueueStep(H, G)
                  /\ \A x \in Handlers : x.h \in H /\ ioQ' = <<x>> \o Tail(ioQ) => QueueStep(H, G)
                  /\ \A r : AllOf(r, H) /\ ioQ' = Tail(ioQ) \o r => QueueStep(H, G)
<1>1. AllOf(<<>>, H) /\ \A x \in Handlers : x.h \in H => AllOf(<<x>>, H)
  BY AllOfSmall
<1>2. \A q \in Seq(Handlers) : <<>> \o q = q /\ q \o <<>> = q /\ \A x : Append(q, x) = q \o <<x>>
  OBVIOUS
<1>3. ASSUME ioQ # <<>> PROVE Tail(ioQ) \in Seq(Handlers)
  BY <1>3
<1>4. ASSUME NEW r, AllOf(r, H), ioQ' = ioQ \o r PROVE QueueStep(H, G)
  BY <1>1, <1>2, <1>4 DEF QueueStep
<1>5. ASSUME ioQ # <<>>, Head(ioQ).h \in G, NEW r, AllOf(r, H), ioQ' = Tail(ioQ) \o r
      PROVE  QueueStep(H, G)
  BY <1>1, <1>2, <1>3, <1>5 DEF QueueStep
<1>6. ASSUME ioQ # <<>>, Head(ioQ).h \in G, NEW x \in Handlers, x.h \in H, ioQ' = <<x>> \o Tail(ioQ)
      PROVE  QueueStep(H, G)
  <2>1. <<x>> \o Tail(ioQ) = (<<x>> \o Tail(ioQ)) \o <<>>
    BY <1>3, <1>6
  <2> QED
    BY <1>1, <1>6, <2>1 DEF QueueStep
<1>7. ioQ' = ioQ => QueueStep(H, G)
  BY <1>1, <1>2, <1>4
<1>8. \A x \in Handlers : x.h \in H /\ ioQ' = Append(ioQ, x) => QueueStep(H, G)
  BY <1>1, <1>2, <1>4
<1>9. ioQ # <<>> /\ Head(ioQ).h \in G /\ ioQ' = Tail(ioQ) => QueueStep(H, G)
  BY <1>1, <1>2, <1>3, <1>5
<1>10. \A x \in Handlers : ioQ # <<>> /\ Head(ioQ).h \in G /\ x.h \in H /\ ioQ' = Append(Tail(ioQ), x)
                           => QueueStep(H, G)
  BY <1>1, <1>2, <1>3, <1>5
<1> QED
  BY <1>4, <1>5, <1>6, <1>7, <1>8, <1>9, <1>10

(* The parts of a queue after a step. *)
LEMMA QueueParts ==
    ASSUME ioQ \in Seq(Handlers), NEW H, NEW G, QueueStep(H, G)
    PROVE  \E l, q, r \in Seq(Handlers) :
               /\ ioQ' = (l \o q) \o r /\ AllOf(l, H) /\ AllOf(r, H)
               /\ \/ q = ioQ
                  \/ ioQ # <<>> /\ Head(ioQ).h \in G /\ q = Tail(ioQ)
<1>1. PICK l, q, r :
        /\ ioQ' = (l \o q) \o r /\ AllOf(l, H) /\ AllOf(r, H)
        /\ \/ q = ioQ
           \/ ioQ # <<>> /\ Head(ioQ).h \in G /\ q = Tail(ioQ)
  BY DEF QueueStep
<1>2. l \in Seq(Handlers) /\ r \in Seq(Handlers)
  BY <1>1 DEF AllOf
<1>3. ioQ # <<>> => Tail(ioQ) \in Seq(Handlers)
  OBVIOUS
<1> QED
  BY <1>1, <1>2, <1>3

(* Handlers of another kind are kept, as many and in the same order. *)
LEMMA QueueKeeps ==
    ASSUME ioQ \in Seq(Handlers), NEW H, NEW G, QueueStep(H, G)
    PROVE  /\ ioQ' \in Seq(Handlers)
           /\ \A h : h \notin H /\ h \notin G => HandlersIn(ioQ', h) = HandlersIn(ioQ, h)
<1>1. PICK l \in Seq(Handlers), q \in Seq(Handlers), r \in Seq(Handlers) :
        /\ ioQ' = (l \o q) \o r /\ AllOf(l, H) /\ AllOf(r, H)
        /\ \/ q = ioQ
           \/ ioQ # <<>> /\ Head(ioQ).h \in G /\ q = Tail(ioQ)
  BY QueueParts
<1>2. l \in Seq(Handlers) /\ q \in Seq(Handlers) /\ r \in Seq(Handlers) /\ l \o q \in Seq(Handlers)
  OBVIOUS
<1>3. ASSUME NEW h, h \notin H, h \notin G PROVE HandlersIn(ioQ', h) = HandlersIn(ioQ, h)
  <2>1. HandlersIn(l, h) = <<>> /\ HandlersIn(r, h) = <<>>
    BY <1>1, <1>2, <1>3, HandlersNone DEF AllOf
  <2>2. HandlersIn(ioQ', h) = (HandlersIn(l, h) \o HandlersIn(q, h)) \o HandlersIn(r, h)
    <3>1. HandlersIn((l \o q) \o r, h) = HandlersIn(l \o q, h) \o HandlersIn(r, h)
      <4>1. PICK a \in Seq(Handlers) : a = l \o q
        BY <1>2
      <4>2. HandlersIn(a \o r, h) = HandlersIn(a, h) \o HandlersIn(r, h)
        BY HandlersConcat, ZenonT(60)
      <4> QED
        BY <4>1, <4>2
    <3>2. HandlersIn(l \o q, h) = HandlersIn(l, h) \o HandlersIn(q, h)
      BY <1>2, HandlersConcat, SMTT(60)
    <3> QED
      BY <1>1, <3>1, <3>2
  <2>3. HandlersIn(q, h) \in Seq(Handlers)
    BY <1>2, HandlersType
  <2>4. HandlersIn(ioQ', h) = HandlersIn(q, h)
    BY <2>1, <2>2, <2>3
  <2>5. CASE ioQ # <<>> /\ Head(ioQ).h \in G /\ q = Tail(ioQ)
    <3>1. HandlersIn(ioQ, h) = <<>> \o HandlersIn(q, h)
      BY <1>3, <2>5, HandlersHead
    <3> QED
      BY <2>3, <2>4, <3>1
  <2> QED
    BY <1>1, <2>4, <2>5
<1> QED
  BY <1>1, <1>2, <1>3

(* A handler of another kind keeps its place in the queue or moves up. *)
LEMMA QueueContains ==
    ASSUME ioQ \in Seq(Handlers), NEW H, NEW G, QueueStep(H, G),
           NEW i \in 1..Len(ioQ), i # 1 \/ ioQ[i].h \notin G
    PROVE  \E j \in 1..Len(ioQ') : ioQ'[j] = ioQ[i]
<1>1. PICK l \in Seq(Handlers), q \in Seq(Handlers), r \in Seq(Handlers) :
        /\ ioQ' = (l \o q) \o r /\ AllOf(l, H) /\ AllOf(r, H)
        /\ \/ q = ioQ
           \/ ioQ # <<>> /\ Head(ioQ).h \in G /\ q = Tail(ioQ)
  BY QueueParts
<1>2. l \in Seq(Handlers) /\ q \in Seq(Handlers) /\ r \in Seq(Handlers)
  OBVIOUS
<1>3. \E k \in 1..Len(q) : q[k] = ioQ[i]
  <2>1. CASE q = ioQ
    BY <2>1
  <2>2. CASE ioQ # <<>> /\ Head(ioQ).h \in G /\ q = Tail(ioQ)
    <3>1. i # 1
      BY <2>2
    <3>2. i - 1 \in 1..Len(q) /\ q[i - 1] = ioQ[i]
      BY <2>2, <3>1
    <3> QED
      BY <3>2
  <2> QED
    BY <1>1, <2>1, <2>2
<1>4. PICK k \in 1..Len(q) : q[k] = ioQ[i]
  BY <1>3
<1>5. Len(l) + k \in 1..Len((l \o q) \o r) /\ ((l \o q) \o r)[Len(l) + k] = q[k]
  <2>1. l \o q \in Seq(Handlers) /\ Len(l \o q) = Len(l) + Len(q) /\ (l \o q)[Len(l) + k] = q[k]
        /\ Len(l) + k \in 1..Len(l \o q)
    BY <1>2
  <2> QED
    BY <1>2, <2>1
<1> QED
  BY <1>1, <1>4, <1>5

(* What is in the queue after a step was there, or was put in. *)
LEMMA QueueFrom ==
    ASSUME ioQ \in Seq(Handlers), NEW H, NEW G, QueueStep(H, G), NEW j \in 1..Len(ioQ')
    PROVE  ioQ'[j].h \in H \/ \E i \in 1..Len(ioQ) : ioQ'[j] = ioQ[i]
<1>1. PICK l \in Seq(Handlers), q \in Seq(Handlers), r \in Seq(Handlers) :
        /\ ioQ' = (l \o q) \o r /\ AllOf(l, H) /\ AllOf(r, H)
        /\ \/ q = ioQ
           \/ ioQ # <<>> /\ Head(ioQ).h \in G /\ q = Tail(ioQ)
  BY QueueParts
<1>2. l \in Seq(Handlers) /\ q \in Seq(Handlers) /\ r \in Seq(Handlers)
  OBVIOUS
<1>3. ASSUME NEW k \in 1..Len(q) PROVE \E i \in 1..Len(ioQ) : q[k] = ioQ[i]
  <2>1. CASE q = ioQ
    BY <2>1
  <2>2. CASE ioQ # <<>> /\ Head(ioQ).h \in G /\ q = Tail(ioQ)
    <3>1. k + 1 \in 1..Len(ioQ) /\ q[k] = ioQ[k + 1]
      BY <2>2
    <3> QED
      BY <3>1
  <2> QED
    BY <1>1, <2>1, <2>2
<1>4. l \o q \in Seq(Handlers) /\ Len(l \o q) = Len(l) + Len(q)
      /\ Len(ioQ') = Len(l) + Len(q) + Len(r)
  BY <1>1, <1>2
<1>5. CASE j \in 1..Len(l)
  <2>1. ioQ'[j] = l[j]
    BY <1>1, <1>2, <1>4, <1>5
  <2> QED
    BY <1>1, <1>5, <2>1 DEF AllOf
<1>6. CASE j - Len(l) \in 1..Len(q)
  <2>1. ioQ'[j] = q[j - Len(l)]
    BY <1>1, <1>2, <1>4, <1>6
  <2> QED
    BY <1>3, <1>6, <2>1
<1>7. CASE j - Len(l) - Len(q) \in 1..Len(r)
  <2>1. ioQ'[j] = r[j - Len(l) - Len(q)]
    BY <1>1, <1>2, <1>4, <1>7
  <2> QED
    BY <1>1, <1>7, <2>1 DEF AllOf
<1> QED
  BY <1>2, <1>4, <1>5, <1>6, <1>7

-----------------------------------------------------------------------------
(***************************************************************************)
(* What each step does to the io queue                                     *)
(***************************************************************************)
AbortedKinds == {"doRead", "doConnect", "written"}

(* A closed socket queues the handlers of what was outstanding; no read    *)
(* among them succeeded.                                                   *)
LEMMA AbortedType ==
    ASSUME TypeOK
    PROVE  /\ AllOf(Aborted, AbortedKinds)
           /\ \A i \in 1..Len(Aborted) : ~Aborted[i].ok
           /\ HandlersIn(Aborted, "written") = [i \in 1..Len(writes) |-> Written(writes[i], FALSE)]
<1> DEFINE a == [i \in 1..reads |-> DoRead(FALSE)]
           b == IF sock = "connecting" THEN <<DoConnect(FALSE)>> ELSE <<>>
           c == [i \in 1..Len(writes) |-> Written(writes[i], FALSE)]
<1>1. reads \in Nat /\ writes \in Seq(Packages) /\ Len(writes) \in Nat
  BY DEF TypeOK
<1>2. /\ a \in Seq(Handlers) /\ Len(a) \in Nat
      /\ \A i \in 1..Len(a) : a[i].h = "doRead" /\ ~a[i].ok
  <2>1. DoRead(FALSE) \in Handlers
    BY Makes
  <2>2. DoRead(FALSE).h = "doRead" /\ ~DoRead(FALSE).ok
    BY DEF DoRead
  <2>3. a \in Seq(Handlers) /\ Len(a) = reads
    <3>1. a \in [1..reads -> Handlers]
      BY <2>1
    <3> QED
      BY <1>1, <3>1, FunSeq
  <2> QED
    BY <1>1, <2>2, <2>3
<1>3. /\ b \in Seq(Handlers) /\ Len(b) \in Nat
      /\ \A i \in 1..Len(b) : b[i].h = "doConnect" /\ ~b[i].ok
  <2>1. DoConnect(FALSE) \in Handlers
    BY Makes
  <2>2. DoConnect(FALSE).h = "doConnect" /\ ~DoConnect(FALSE).ok
    BY DEF DoConnect
  <2>3. CASE sock = "connecting"
    <3>1. b = <<DoConnect(FALSE)>>
      BY <2>3
    <3>2. PICK x \in Handlers : x = DoConnect(FALSE) /\ x.h = "doConnect" /\ ~x.ok
      BY <2>1, <2>2
    <3>3. b = <<x>>
      BY <3>1, <3>2
    <3> HIDE DEF b
    <3>4. b \in Seq(Handlers) /\ Len(b) = 1 /\ b[1] = x /\ Len(b) \in Nat
      BY <3>3
    <3>5. \A i \in 1..Len(b) : b[i] = x
      BY <3>4
    <3> QED
      BY <3>2, <3>4, <3>5, Zenon
  <2>4. CASE sock # "connecting"
    <3>1. b = <<>>
      BY <2>4
    <3> HIDE DEF b
    <3> QED
      BY <3>1
  <2> QED
    BY <2>3, <2>4
<1>4. /\ c \in Seq(Handlers) /\ Len(c) \in Nat
      /\ \A i \in 1..Len(c) : c[i].h = "written" /\ ~c[i].ok
  <2>1. ASSUME NEW i \in 1..Len(writes)
        PROVE  Written(writes[i], FALSE) \in Handlers
    <3>1. writes[i] \in Packages
      BY <1>1
    <3> QED
      BY <3>1, Makes
  <2>2. \A p : Written(p, FALSE).h = "written" /\ ~Written(p, FALSE).ok
    BY DEF Written
  <2>3. c \in Seq(Handlers) /\ Len(c) = Len(writes)
    <3>1. c \in [1..Len(writes) -> Handlers]
      BY <2>1
    <3> QED
      BY <1>1, <3>1, FunSeq, ZenonT(60)
  <2> QED
    BY <1>1, <2>2, <2>3
<1>5. Aborted = a \o b \o c
  BY DEF Aborted
<1> HIDE DEF a, b, c
<1>6. PICK ab \in Seq(Handlers) : ab = a \o b /\ Len(ab) = Len(a) + Len(b)
  <2>1. a \in Seq(Handlers) /\ b \in Seq(Handlers)
    BY <1>2, <1>3
  <2>2. a \o b \in Seq(Handlers) /\ Len(a \o b) = Len(a) + Len(b)
    BY <2>1, ConcatProperties, Zenon
  <2> QED
    BY <2>2, Zenon
<1>7. \A i \in 1..Len(ab) : ab[i].h \in {"doRead", "doConnect"} /\ ~ab[i].ok
  <2>1. ASSUME NEW i \in 1..Len(ab)
        PROVE  (i \in 1..Len(a) /\ ab[i] = a[i]) \/ (i - Len(a) \in 1..Len(b) /\ ab[i] = b[i - Len(a)])
    BY <1>2, <1>3, <1>6
  <2> QED
    BY <1>2, <1>3, <2>1
<1>8. /\ ab \o c \in Seq(Handlers)
      /\ \A i \in 1..Len(ab \o c) : (ab \o c)[i].h \in AbortedKinds /\ ~(ab \o c)[i].ok
  <2>1. ab \o c \in Seq(Handlers)
    BY <1>4
  <2>2. ASSUME NEW i \in 1..Len(ab \o c)
        PROVE  \/ i \in 1..Len(ab) /\ (ab \o c)[i] = ab[i]
               \/ i - Len(ab) \in 1..Len(c) /\ (ab \o c)[i] = c[i - Len(ab)]
    BY <1>4
  <2> QED
    BY <1>4, <1>7, <2>1, <2>2 DEF AbortedKinds
<1>9. HandlersIn(ab \o c, "written") = c
  <2>1. HandlersIn(ab \o c, "written") = HandlersIn(ab, "written") \o HandlersIn(c, "written")
    BY <1>4, HandlersConcat
  <2>2. HandlersIn(ab, "written") = <<>>
    BY <1>7, HandlersNone
  <2>3. HandlersIn(c, "written") = c
    <3>1. Of(c, "written") = 1..Len(c)
      BY <1>4 DEF Of
    <3>2. Lists([k \in 1..Len(c) |-> k], Len(c), 1..Len(c))
      BY <1>4 DEF Lists
    <3>3. Cardinality(1..Len(c)) = Len(c) /\ \A k \in 1..Len(c) : Position(1..Len(c), k) = k
      <4> DEFINE J == [k \in 1..Len(c) |-> k]
      <4>1. \A k \in 1..Len(c) : J[k] = k
        OBVIOUS
      <4>2. Lists(J, Len(c), 1..Len(c)) /\ Len(c) \in Nat /\ 1..Len(c) \in SUBSET (1..Len(c))
        BY <1>4, <3>2
      <4> HIDE DEF J
      <4>3. Cardinality(1..Len(c)) = Len(c) /\ \A k \in 1..Len(c) : Position(1..Len(c), k) = J[k]
        BY <4>2, Enumeration
      <4> QED
        BY <4>1, <4>3
    <3>4. HandlersIn(c, "written") = [k \in 1..Len(c) |-> c[k]]
      BY <3>1, <3>3 DEF HandlersIn, Pick
    <3> QED
      BY <1>4, <3>4
  <2> QED
    BY <1>4, <2>1, <2>2, <2>3
<1> QED
  BY <1>5, <1>6, <1>8, <1>9 DEF AllOf, c

(* connect() and the closing of the socket add the aborted operations. *)
LEMMA ConnectQueue ==
    ASSUME TypeOK, NEW index, NEW G
    PROVE  /\ Connect(index, ioQ) => QueueStep(AbortedKinds, G)
           /\ ioQ # <<>> /\ Head(ioQ).h \in G =>
                  /\ Connect(index, Tail(ioQ)) => QueueStep(AbortedKinds, G)
                  /\ CloseSocket(Tail(ioQ)) => QueueStep(AbortedKinds, G)
<1>1. ioQ \in Seq(Handlers) /\ AllOf(Aborted, AbortedKinds)
  BY AbortedType DEF TypeOK
<1> QED
  BY <1>1, QueueSteps DEF Connect, CloseSocket

(* postPackage() adds a startWrite() or nothing. *)
LEMMA PostPackageQueue ==
    ASSUME TypeOK, NEW p \in Packages, NEW online, NEW G
    PROVE  /\ PostPackage(p, online, ioQ) => QueueStep({"startWrite"}, G)
           /\ ioQ # <<>> /\ Head(ioQ).h \in G /\ PostPackage(p, online, Tail(ioQ))
                  => QueueStep({"startWrite"}, G)
<1>1. ioQ \in Seq(Handlers)
  BY DEF TypeOK
<1>2. StartWrite(p) \in Handlers /\ StartWrite(p).h \in {"startWrite"}
  BY Makes, HandlerKinds
<1>3. ASSUME PostPackage(p, online, ioQ) PROVE QueueStep({"startWrite"}, G)
  <2>1. ioQ' = Append(ioQ, StartWrite(p)) \/ ioQ' = ioQ
    BY <1>3 DEF PostPackage
  <2> QED
    BY <1>1, <1>2, <2>1, QueueSteps
<1>4. ASSUME ioQ # <<>>, Head(ioQ).h \in G, PostPackage(p, online, Tail(ioQ))
      PROVE  QueueStep({"startWrite"}, G)
  <2>1. ioQ' = Append(Tail(ioQ), StartWrite(p)) \/ ioQ' = Tail(ioQ)
    BY <1>4 DEF PostPackage
  <2> QED
    BY <1>1, <1>2, <1>4, <2>1, QueueSteps
<1> QED
  BY <1>3, <1>4

(* So does postMessage() in a handler. *)
LEMMA PostFromIoQueue ==
    ASSUME TypeOK, NEW k, NEW online, ioQ # <<>>, NEW G, Head(ioQ).h \in G,
           PostFromIo(k, online, Tail(ioQ))
    PROVE  QueueStep({"startWrite"}, G)
<1>1. ioQ \in Seq(Handlers) /\ kind \in Seq(Kinds) /\ Len(kind) <= MaxReq /\ MaxReq \in Nat
  BY MessageTypes
<1>2. CASE Len(kind) = MaxReq
  <2>1. ioQ' = Tail(ioQ)
    BY <1>2 DEF PostFromIo
  <2> QED
    BY <1>1, <2>1, QueueSteps
<1>3. CASE Len(kind) # MaxReq
  <2>1. Len(kind) + 1 \in Msgs
    BY <1>1, <1>3 DEF Msgs
  <2>2. PostPackage(Package(Len(kind) + 1), online, Tail(ioQ))
    BY <1>3 DEF PostFromIo
  <2>3. Package(Len(kind) + 1) \in Packages
    BY <2>1, Makes
  <2> QED
    BY <2>2, <2>3, PostPackageQueue
<1> QED
  BY <1>2, <1>3

(* The steps of application and pool threads. *)
LEMMA AppQueue ==
    ASSUME TypeOK
    PROVE  /\ Start => QueueStep(AbortedKinds, {})
           /\ \A n \in Msgs : PostMade(n) => QueueStep({"startWrite"}, {})
           /\ StopRest => QueueStep({"doClose"}, {})
           /\ ReplyDeliver => QueueStep({"startWrite"}, {})
<1>1. Start => QueueStep(AbortedKinds, {})
  BY ConnectQueue DEF Start
<1>2. ASSUME NEW n \in Msgs, PostMade(n) PROVE QueueStep({"startWrite"}, {})
  BY <1>2, Makes, PostPackageQueue DEF PostMade
<1>3. StopRest => QueueStep({"doClose"}, {})
  <2>1. DoClose \in Handlers /\ DoClose.h \in {"doClose"} /\ ioQ \in Seq(Handlers)
    BY Makes, HandlerKinds DEF TypeOK
  <2> QED
    BY <2>1, QueueSteps DEF StopRest
<1>4. ASSUME ReplyDeliver PROVE QueueStep({"startWrite"}, {})
  <2>1. PICK i \in 1..Len(tasks) : PostPackage(DeliverAnswer(tasks[i].id), isOnline_, ioQ)
    BY <1>4 DEF ReplyDeliver
  <2>2. tasks[i] \in Inputs
    BY DEF TypeOK
  <2>3. DeliverAnswer(tasks[i].id) \in Packages
    BY <2>2, InputFields, Makes
  <2> QED
    BY <2>1, <2>3, PostPackageQueue
<1> QED
  BY <1>1, <1>2, <1>3, <1>4

(* The handlers of the io thread. *)
LEMMA IoQueue ==
    ASSUME TypeOK
    PROVE  /\ RunStartWrite => QueueStep({"written"}, {"startWrite"})
           /\ RunWrittenRest => QueueStep({"written", "doClose"}, {"written"})
           /\ RunDoRead => QueueStep({"doRead", "doClose"}, {"doRead"})
           /\ RunDoConnect => QueueStep({"connected"}, {"doConnect"})
           /\ RunConnected => QueueStep({"startWrite"}, {"connected"})
           /\ RunDoConnectFailed => QueueStep(AbortedKinds, {"doConnect"})
           /\ RunDoClose => QueueStep(AbortedKinds, {"doClose"})
           /\ RunDoHeartbeat => QueueStep({"startWrite"}, {"doHeartbeat"})
<1>0. ioQ \in Seq(Handlers) /\ pendingList_ \in Seq(Packages)
  BY DEF TypeOK
<1>1. ASSUME RunStartWrite PROVE QueueStep({"written"}, {"startWrite"})
  <2>1. ioQ # <<>> /\ Head(ioQ).h = "startWrite"
    BY <1>1 DEF RunStartWrite, Runs, AtHead
  <2>2. PICK p \in Packages : p = Head(ioQ).p
    <3>1. Head(ioQ) \in Handlers
      BY <1>0, <2>1
    <3> QED
      BY <2>1, <3>1, HandlerFields
  <2>3. PICK list \in Seq(Packages) : list = Append(pendingList_, p) /\ list # <<>>
    <3>1. Append(pendingList_, p) \in Seq(Packages) /\ Append(pendingList_, p) # <<>>
      BY <1>0
    <3> QED
      BY <3>1, Zenon
  <2>4. list # <<>> /\ Head(list) \in Packages
    BY <2>3
  <2>5. Written(Head(list), FALSE) \in Handlers /\ Written(Head(list), FALSE).h \in {"written"}
    BY <2>4, MadeHandlers
  <2>6. ioQ' = Append(Tail(ioQ), Written(Head(list), FALSE)) \/ ioQ' = Tail(ioQ)
    BY <1>1, <2>2, <2>3 DEF RunStartWrite, WriteFront, Enqueue
  <2> QED
    BY <1>0, <2>1, <2>5, <2>6, QueueSteps
<1>2. ASSUME RunWrittenRest PROVE QueueStep({"written", "doClose"}, {"written"})
  <2>1. ioQ # <<>> /\ Head(ioQ).h = "written"
    BY <1>2 DEF RunWrittenRest, AtHead
  <2>2. DoClose \in Handlers /\ DoClose.h = "doClose"
    BY Makes, HandlerKinds
  <2>3. PICK list : list = Tail(pendingList_)
    OBVIOUS
  <2>4. \/ ioQ' = Append(Tail(ioQ), DoClose) \/ ioQ' = Tail(ioQ)
        \/ list # <<>> /\ Head(ioQ).ok /\ ioQ' = Append(Tail(ioQ), Written(Head(list), FALSE))
    BY <1>2, <2>3 DEF RunWrittenRest, WriteNext, WriteFront
  <2>5. CASE list # <<>> /\ Head(ioQ).ok /\ ioQ' = Append(Tail(ioQ), Written(Head(list), FALSE))
    <3>1. Head(list) \in Packages
      <4>1. CASE pendingList_ = <<>>
        <5>1. list = <<>>
          BY <2>3, <4>1
        <5> QED
          BY <2>5, <5>1
      <4>2. CASE pendingList_ # <<>>
        <5>1. list \in Seq(Packages)
          BY <1>0, <2>3, <4>2
        <5> QED
          BY <2>5, <5>1
      <4> QED
        BY <4>1, <4>2
    <3>2. Written(Head(list), FALSE) \in Handlers /\ Written(Head(list), FALSE).h = "written"
      BY <3>1, MadeHandlers
    <3> QED
      BY <1>0, <2>1, <2>5, <3>2, QueueSteps
  <2> QED
    BY <1>0, <2>1, <2>2, <2>4, <2>5, QueueSteps
<1>3. ASSUME RunDoRead PROVE QueueStep({"doRead", "doClose"}, {"doRead"})
  <2>1. ioQ # <<>> /\ Head(ioQ).h = "doRead"
    BY <1>3 DEF RunDoRead, Runs, AtHead
  <2>2. /\ DoClose \in Handlers /\ DoClose.h = "doClose"
        /\ DoRead(FALSE) \in Handlers /\ DoRead(FALSE).h = "doRead"
    BY Makes, HandlerKinds, MadeHandlers
  <2>3. \/ ioQ' = Tail(ioQ) \/ ioQ' = Append(Tail(ioQ), DoClose)
        \/ ioQ' = Append(Tail(ioQ), DoRead(FALSE))
    BY <1>3 DEF RunDoRead, StartRead, ReadError
  <2> QED
    BY <1>0, <2>1, <2>2, <2>3, QueueSteps
<1>4. ASSUME RunDoConnect PROVE QueueStep({"connected"}, {"doConnect"})
  <2>1. ioQ # <<>> /\ Head(ioQ).h = "doConnect" /\ ioQ' = <<Connected>> \o Tail(ioQ)
    BY <1>4 DEF RunDoConnect, Runs, AtHead
  <2>2. Connected \in Handlers /\ Connected.h = "connected"
    BY Makes, HandlerKinds
  <2> QED
    BY <1>0, <2>1, <2>2, QueueSteps
<1>5. ASSUME RunConnected PROVE QueueStep({"startWrite"}, {"connected"})
  <2>1. ioQ # <<>> /\ Head(ioQ).h \in {"connected"}
    BY <1>5 DEF RunConnected, AtHead
  <2>2. PostFromIo("sub", isOnline_, Tail(ioQ)) \/ ioQ' = Tail(ioQ)
    BY <1>5 DEF RunConnected, StartSubscribe
  <2> QED
    BY <1>0, <2>1, <2>2, PostFromIoQueue, QueueSteps
<1>6. ASSUME RunDoConnectFailed PROVE QueueStep(AbortedKinds, {"doConnect"})
  <2>1. ioQ # <<>> /\ Head(ioQ).h \in {"doConnect"}
    BY <1>6 DEF RunDoConnectFailed, Runs, AtHead
  <2>2. Connect(addressIndex_ + 1, Tail(ioQ)) \/ ioQ' = Tail(ioQ)
    BY <1>6 DEF RunDoConnectFailed
  <2> QED
    BY <1>0, <2>1, <2>2, ConnectQueue, QueueSteps
<1>7. ASSUME RunDoClose PROVE QueueStep(AbortedKinds, {"doClose"})
  <2>1. ioQ # <<>> /\ Head(ioQ).h \in {"doClose"}
    BY <1>7 DEF RunDoClose, Runs, AtHead
  <2>2. Connect(addressIndex_, Tail(ioQ)) \/ CloseSocket(Tail(ioQ))
    BY <1>7 DEF RunDoClose
  <2> QED
    BY <1>0, <2>1, <2>2, ConnectQueue
<1>8. ASSUME RunDoHeartbeat PROVE QueueStep({"startWrite"}, {"doHeartbeat"})
  <2>1. ioQ # <<>> /\ Head(ioQ).h \in {"doHeartbeat"}
    BY <1>8 DEF RunDoHeartbeat, Runs, AtHead
  <2>2. PostFromIo("heartbeat", isOnline_, Tail(ioQ))
    BY <1>8 DEF RunDoHeartbeat
  <2> QED
    BY <2>1, <2>2, PostFromIoQueue
<1> QED
  BY <1>1, <1>2, <1>3, <1>4, <1>5, <1>6, <1>7, <1>8

(* Operations that complete. *)
LEMMA AsioQueue ==
    ASSUME TypeOK
    PROVE  /\ ConnectCompletes => QueueStep({"doConnect"}, {})
           /\ WriteCompletes => QueueStep({"written"}, {})
           /\ ReadCompletes \/ ReadFails => QueueStep({"doRead"}, {})
           /\ HeartbeatFires => QueueStep({"doHeartbeat"}, {})
<1>0. ioQ \in Seq(Handlers) /\ writes \in Seq(Packages)
  BY DEF TypeOK
<1>1. ASSUME ConnectCompletes PROVE QueueStep({"doConnect"}, {})
  <2>1. CASE addressIndex_ \in Reachable
    <3>1. (addressIndex_ \in Reachable) = TRUE
      BY <2>1
    <3>2. ioQ' = Append(ioQ, DoConnect(TRUE))
      BY <1>1, <3>1 DEF ConnectCompletes
    <3> QED
      BY <1>0, <3>2, MadeHandlers, QueueSteps
  <2>2. CASE addressIndex_ \notin Reachable
    <3>1. (addressIndex_ \in Reachable) = FALSE
      BY <2>2
    <3>2. ioQ' = Append(ioQ, DoConnect(FALSE))
      BY <1>1, <3>1 DEF ConnectCompletes
    <3> QED
      BY <1>0, <3>2, MadeHandlers, QueueSteps
  <2> QED
    BY <2>1, <2>2
<1>2. ASSUME WriteCompletes PROVE QueueStep({"written"}, {})
  <2>1. PICK ok \in BOOLEAN : writes # <<>> /\ ioQ' = Append(ioQ, Written(Head(writes), ok))
    BY <1>2 DEF WriteCompletes
  <2>2. Head(writes) \in Packages
    BY <1>0, <2>1
  <2>3. Written(Head(writes), ok) \in Handlers /\ Written(Head(writes), ok).h \in {"written"}
    BY <2>2, Makes, HandlerKinds
  <2> QED
    BY <1>0, <2>1, <2>3, QueueSteps
<1>3. ASSUME ReadCompletes \/ ReadFails PROVE QueueStep({"doRead"}, {})
  <2>1. CASE ReadCompletes
    <3>1. ioQ' = Append(ioQ, DoRead(TRUE))
      BY <2>1 DEF ReadCompletes
    <3>2. DoRead(TRUE) \in Handlers /\ DoRead(TRUE).h \in {"doRead"}
      BY MadeHandlers
    <3> QED
      BY <1>0, <3>1, <3>2, QueueSteps
  <2>2. CASE ReadFails
    <3>1. DoRead(FALSE) \in Handlers /\ DoRead(FALSE).h \in {"doRead"}
      BY MadeHandlers
    <3> QED
      BY <1>0, <2>2, <3>1, QueueSteps DEF ReadFails
  <2> QED
    BY <1>3, <2>1, <2>2
<1>4. ASSUME HeartbeatFires PROVE QueueStep({"doHeartbeat"}, {})
  <2>1. DoHeartbeat \in Handlers /\ DoHeartbeat.h \in {"doHeartbeat"}
    BY Makes, HandlerKinds
  <2> QED
    BY <1>0, <1>4, <2>1, QueueSteps DEF HeartbeatFires
<1> QED
  BY <1>1, <1>2, <1>3, <1>4

-----------------------------------------------------------------------------
(***************************************************************************)
(* Types, and the table of requests                                        *)
(***************************************************************************)

(* postMessage() in a handler puts its message into the table. *)
LEMMA PostFromIoTable ==
    ASSUME TypeOK, NEW k, NEW online, NEW q, PostFromIo(k, online, q)
    PROVE  RM!Next \/ UNCHANGED tableVars
<1>1. CASE Len(kind) = MaxReq
  BY <1>1 DEF PostFromIo
<1>2. CASE Len(kind) # MaxReq
  <2>1. Len(kind) + 1 \in Msgs
    BY <1>2, MessageTypes DEF Msgs
  <2>2. RM!Put(Len(kind) + 1, MsgId(Len(kind) + 1))
    BY <1>2 DEF PostFromIo
  <2>3. MsgId(Len(kind) + 1) \in Ids
    BY <2>1, Makes
  <2> QED
    BY <2>1, <2>2, <2>3 DEF RM!Next
<1> QED
  BY <1>1, <1>2

(* Every step of the client uses the table as its threads may, or leaves   *)
(* it alone.                                                               *)
LEMMA TableNext ==
    ASSUME TypeOK, Next \/ UNCHANGED vars
    PROVE  RM!Next \/ UNCHANGED tableVars
<1>1. ASSUME AppStep PROVE RM!Next \/ UNCHANGED tableVars
  <2>1. CASE PostMessage
    <3>1. Len(kind) + 1 \in Msgs
      BY <2>1, MessageTypes DEF PostMessage, Msgs
    <3>2. MsgId(Len(kind) + 1) \in Ids
      BY <3>1, Makes
    <3>3. RM!Put(Len(kind) + 1, MsgId(Len(kind) + 1))
      BY <2>1 DEF PostMessage
    <3> QED
      BY <3>1, <3>2, <3>3 DEF RM!Next
  <2>2. Start \/ StopIo \/ StopRest \/ PublishMessage \/ (\E n \in Msgs : PostMade(n))
            => UNCHANGED tableVars
    BY DEF Start, StopIo, StopRest, PublishMessage, PostMade
  <2> QED
    BY <1>1, <2>1, <2>2 DEF AppStep
<1>2. ASSUME IoStep PROVE RM!Next \/ UNCHANGED tableVars
  <2>1. CASE RunWrittenFind
    <3>1. ioQ # <<>> /\ Head(ioQ).h = "written" /\ RM!StartTimerFind(Head(ioQ).p.id)
      BY <2>1 DEF RunWrittenFind, Runs, AtHead
    <3>2. Head(ioQ) \in Handlers
      BY <3>1 DEF TypeOK
    <3>3. Head(ioQ).p.id \in Ids
      BY <3>1, <3>2, HandlerFields, PackageFields
    <3> QED
      BY <3>1, <3>3 DEF RM!Next
  <2>2. CASE RunWrittenRest
    BY <2>2 DEF RunWrittenRest, TimerRest, RM!Next
  <2>3. CASE RunConnected
    BY <2>3, PostFromIoTable DEF RunConnected, StartSubscribe
  <2>4. CASE RunDoHeartbeat
    BY <2>4, PostFromIoTable DEF RunDoHeartbeat
  <2>5. RunStartWrite \/ RunDoRead \/ RunDoConnect \/ RunDoConnectFailed \/ RunDoClose
            => UNCHANGED tableVars
    BY DEF RunStartWrite, RunDoRead, RunDoConnect, RunDoConnectFailed, RunDoClose
  <2> QED
    BY <1>2, <2>1, <2>2, <2>3, <2>4, <2>5 DEF IoStep
<1>3. ASSUME AsioStep PROVE RM!Next \/ UNCHANGED tableVars
  <2>1. CASE \E d \in Msgs : TimerFires(d)
    BY <2>1 DEF TimerFires, RM!Next
  <2>2. ConnectCompletes \/ WriteCompletes \/ ReadCompletes \/ ReadFails \/ HeartbeatFires \/ IoRunsOut
            => UNCHANGED tableVars
    BY DEF ConnectCompletes, WriteCompletes, ReadCompletes, ReadFails, HeartbeatFires, IoRunsOut
  <2> QED
    BY <1>3, <2>1, <2>2 DEF AsioStep
<1>4. ASSUME ServerStep PROVE UNCHANGED tableVars
  BY <1>4 DEF ServerStep, ServerPushes, ConnectionLost, ServerReplies
<1>5. ASSUME NEW id \in Ids, RunOnTimeout(id) PROVE RM!Next
  BY <1>5 DEF RunOnTimeout, RM!Next
<1>6. ASSUME DoResponse PROVE RM!Next \/ UNCHANGED tableVars
  <2>1. respQ # <<>> /\ Head(respQ) \in Inputs
    BY <1>6 DEF DoResponse, TypeOK
  <2>2. CASE Head(respQ).type = "REQREP"
    <3>1. RM!OnResponse(Head(respQ).id, Head(respQ).n)
      BY <1>6, <2>2 DEF DoResponse
    <3> QED
      BY <2>1, <2>2, <3>1, InputFields DEF RM!Next
  <2>3. CASE Head(respQ).type # "REQREP"
    BY <1>6, <2>3 DEF DoResponse
  <2> QED
    BY <2>2, <2>3
<1>7. ReplyDeliver \/ UNCHANGED vars => UNCHANGED tableVars
  BY DEF ReplyDeliver, vars
<1> QED
  BY <1>1, <1>2, <1>3, <1>4, <1>5, <1>6, <1>7 DEF Next

(* Steps that leave the io queue alone. *)
LEMMA QueueAlone ==
    /\ StopIo \/ PostMessage \/ PublishMessage \/ RunWrittenFind \/ IoRunsOut \/ ServerStep => UNCHANGED ioQ
    /\ \A d \in Msgs : TimerFires(d) => UNCHANGED ioQ
    /\ \A id \in Ids : RunOnTimeout(id) => UNCHANGED ioQ
    /\ DoResponse => UNCHANGED ioQ
    /\ UNCHANGED vars => UNCHANGED ioQ
<1>1. StopIo \/ PostMessage \/ PublishMessage \/ RunWrittenFind \/ IoRunsOut => UNCHANGED ioQ
  BY DEF StopIo, PostMessage, PublishMessage, RunWrittenFind, IoRunsOut
<1>2. ServerStep => UNCHANGED ioQ
  BY DEF ServerStep, ServerPushes, ConnectionLost, ServerReplies
<1>3. /\ \A d \in Msgs : TimerFires(d) => UNCHANGED ioQ
      /\ \A id \in Ids : RunOnTimeout(id) => UNCHANGED ioQ
      /\ DoResponse => UNCHANGED ioQ
      /\ UNCHANGED vars => UNCHANGED ioQ
  BY DEF TimerFires, RunOnTimeout, DoResponse, vars
<1> QED
  BY <1>1, <1>2, <1>3

(* The io queue stays a queue of handlers. *)
LEMMA QueueType ==
    ASSUME TypeOK, Next \/ UNCHANGED vars
    PROVE  ioQ' \in Seq(Handlers)
<1>0. ioQ \in Seq(Handlers)
  BY DEF TypeOK
<1>1. \A H, G : QueueStep(H, G) => ioQ' \in Seq(Handlers)
  BY <1>0, QueueKeeps
<1>2. AppStep \/ ReplyDeliver => ioQ' \in Seq(Handlers)
  BY <1>0, <1>1, AppQueue, QueueAlone DEF AppStep
<1>3. IoStep => ioQ' \in Seq(Handlers)
  BY <1>0, <1>1, IoQueue, QueueAlone DEF IoStep
<1>4. AsioStep => ioQ' \in Seq(Handlers)
  BY <1>0, <1>1, AsioQueue, QueueAlone DEF AsioStep
<1> QED
  BY <1>0, <1>2, <1>3, <1>4, QueueAlone DEF Next

(* What every step keeps in any case: the types of the queue and of the    *)
(* table.                                                                  *)
LEMMA BaseType ==
    ASSUME TypeInv, Next \/ UNCHANGED vars
    PROVE  ioQ' \in Seq(Handlers) /\ RMP!IInv' /\ RM!TypeOK'
<1>1. ioQ' \in Seq(Handlers)
  BY QueueType DEF TypeInv
<1>2. RMP!IInv'
  BY TableNext, TableInv DEF TypeInv, tableVars, RM!rmVars
<1>3. RM!TypeOK'
  BY <1>2 DEF RMP!IInv, RMP!TypeOK, RM!TypeOK, RMP!Results, RM!Results
<1> QED
  BY <1>1, <1>2, <1>3

(* connect() and closing the socket keep the types of the connection. *)
LEMMA ConnectType ==
    ASSUME TypeOK, NEW index \in Nat, index <= Addresses, NEW q
    PROVE  Connect(index, q) \/ CloseSocket(q) =>
               /\ addressIndex_' \in 0..(Addresses - 1)
               /\ sock' \in {"closed", "connecting", "connected", "broken"}
               /\ reads' \in Nat /\ writes' \in Seq(Packages)
               /\ peer' \subseteq Msgs /\ inbound' \in Seq(Inputs)
<1>1. /\ Addresses \in Nat /\ Addresses > 0 /\ reads \in Nat /\ writes \in Seq(Packages)
      /\ <<>> \in Seq(Packages) /\ <<>> \in Seq(Inputs) /\ 0 \in Nat
      /\ sock \in {"closed", "connecting", "connected", "broken"}
      /\ peer \subseteq Msgs /\ inbound \in Seq(Inputs) /\ addressIndex_ \in 0..(Addresses - 1)
  BY Bounds DEF TypeOK
<1>2. NextAddress(index) \in 0..(Addresses - 1)
  BY <1>1 DEF NextAddress
<1> QED
  BY <1>1, <1>2 DEF Connect, CloseSocket

(* postPackage() and postMessage() keep the types of what was posted. *)
LEMMA PostType ==
    ASSUME TypeOK
    PROVE  /\ \A p \in Packages : \A online, q : PostPackage(p, online, q) => posted' \in Seq(Packages)
           /\ \A online : PackageCode(online) \in Codes
           /\ \A k \in Kinds : \A online, q : PostFromIo(k, online, q) =>
                  /\ kind' \in Seq(Kinds) /\ Len(kind') <= MaxReq
                  /\ code' \in [Msgs -> Codes]
                  /\ posted' \in Seq(Packages)
<1>0. /\ kind \in Seq(Kinds) /\ Len(kind) <= MaxReq /\ MaxReq \in Nat /\ Len(kind) \in Nat
      /\ code \in [Msgs -> Codes] /\ posted \in Seq(Packages)
  BY MessageTypes
<1>1. ASSUME NEW p \in Packages, NEW online, NEW q, PostPackage(p, online, q)
      PROVE  posted' \in Seq(Packages)
  <2>1. posted' = Append(posted, p) \/ posted' = posted
    BY <1>1 DEF PostPackage
  <2> QED
    BY <1>0, <2>1
<1>2. \A online : PackageCode(online) \in Codes
  BY DEF PackageCode, Codes
<1>3. ASSUME NEW k \in Kinds, NEW online, NEW q, PostFromIo(k, online, q)
      PROVE  /\ kind' \in Seq(Kinds) /\ Len(kind') <= MaxReq
             /\ code' \in [Msgs -> Codes]
             /\ posted' \in Seq(Packages)
  <2>1. CASE Len(kind) = MaxReq
    BY <1>0, <1>3, <2>1 DEF PostFromIo, msgVars
  <2>2. CASE Len(kind) # MaxReq
    <3>1. Len(kind) + 1 \in Msgs
      BY <1>0, <2>2 DEF Msgs
    <3>2. Package(Len(kind) + 1) \in Packages
      BY <3>1, Makes
    <3>3. /\ kind' = Append(kind, k)
          /\ code' = [code EXCEPT ![Len(kind) + 1] = PackageCode(online)]
          /\ PostPackage(Package(Len(kind) + 1), online, q)
      BY <1>3, <2>2 DEF PostFromIo
    <3>4. kind' \in Seq(Kinds) /\ Len(kind') <= MaxReq
      BY <1>0, <2>2, <3>3
    <3>5. code' \in [Msgs -> Codes]
      BY <1>0, <1>2, <3>1, <3>3
    <3> QED
      BY <1>1, <3>2, <3>3, <3>4, <3>5
  <2> QED
    BY <2>1, <2>2
<1> QED
  BY <1>1, <1>2, <1>3

(* The steps of the application keep the types. *)
LEMMA AppType ==
    ASSUME TypeInv, AppStep
    PROVE  TypeOK'
<1>0. /\ TypeOK /\ ioQ' \in Seq(Handlers) /\ RM!TypeOK'
      /\ kind \in Seq(Kinds) /\ Len(kind) <= MaxReq /\ MaxReq \in Nat /\ Len(kind) \in Nat
      /\ code \in [Msgs -> Codes] /\ addressIndex_ \in Nat /\ addressIndex_ <= Addresses
  <2>1. TypeOK /\ ioQ' \in Seq(Handlers) /\ RM!TypeOK'
    BY BaseType DEF TypeInv, Next
  <2>2. /\ kind \in Seq(Kinds) /\ Len(kind) <= MaxReq /\ MaxReq \in Nat /\ Len(kind) \in Nat
        /\ code \in [Msgs -> Codes]
    BY <2>1, MessageTypes
  <2>3. addressIndex_ \in Nat /\ addressIndex_ <= Addresses
    BY <2>1, IndexType
  <2> QED
    BY <2>1, <2>2, <2>3
<1> USE DEF TypeOK, msgVars, writeVars, readVars, connVars, lifeVars, netVars
<1>1. CASE Start
  <2>1. Connect(addressIndex_, ioQ)
    BY <1>1 DEF Start
  <2> QED
    BY <1>0, <1>1, <2>1, ConnectType DEF Start
<1>2. CASE StopIo
  BY <1>0, <1>2 DEF StopIo
<1>3. CASE StopRest
  BY <1>0, <1>3 DEF StopRest
<1>4. CASE PostMessage
  <2>1. kind' \in Seq(Kinds) /\ Len(kind') <= MaxReq
    BY <1>0, <1>4 DEF PostMessage, Kinds
  <2> QED
    BY <1>0, <1>4, <2>1 DEF PostMessage
<1>5. CASE PublishMessage
  <2>1. kind' \in Seq(Kinds) /\ Len(kind') <= MaxReq
    BY <1>0, <1>5 DEF PublishMessage, Kinds
  <2> QED
    BY <1>0, <1>5, <2>1, SMTT(60) DEF PublishMessage
<1>6. ASSUME NEW n \in Msgs, PostMade(n) PROVE TypeOK'
  <2>1. code' \in [Msgs -> Codes]
    <3>1. code' = [code EXCEPT ![n] = PackageCode(isOnline_)]
      BY <1>6 DEF PostMade
    <3> QED
      BY <1>0, <3>1, PostType
  <2>2. posted' \in Seq(Packages)
    <3>1. PostPackage(Package(n), isOnline_, ioQ) /\ Package(n) \in Packages
      BY <1>6, Makes DEF PostMade
    <3> QED
      BY <1>0, <3>1, PostType
  <2> QED
    BY <1>0, <1>6, <2>1, <2>2, SMTT(60) DEF PostMade
<1> QED
  BY <1>1, <1>2, <1>3, <1>4, <1>5, <1>6 DEF AppStep

(* A write handler is about the package at the front of the list. *)
LEMMA FrontIsWritten ==
    ASSUME TypeOK, SingleWriter, AtHead("written")
    PROVE  /\ Head(ioQ) \in Handlers /\ Tail(ioQ) \in Seq(Handlers)
           /\ pendingList_ # <<>> /\ Head(ioQ).p = Head(pendingList_)
           /\ writes = <<>> /\ HandlersIn(Tail(ioQ), "written") = <<>>
<1>1. ioQ \in Seq(Handlers) /\ ioQ # <<>> /\ Head(ioQ).h = "written" /\ writes \in Seq(Packages)
  BY DEF TypeOK, AtHead
<1>2. /\ Head(ioQ) \in Handlers /\ Tail(ioQ) \in Seq(Handlers)
      /\ WriteHandlers = <<Head(ioQ)>> \o HandlersIn(Tail(ioQ), "written")
  BY <1>1, HandlersHead DEF HandlersIn, WriteHandlers
<1>3. PICK t \in Seq(Handlers) : t = HandlersIn(Tail(ioQ), "written")
  BY <1>2, HandlersType
<1>4. /\ Len(WriteHandlers) = 1 + Len(t) /\ WriteHandlers[1] = Head(ioQ)
      /\ Len(t) \in Nat /\ Len(writes) \in Nat
  BY <1>1, <1>2, <1>3
<1>5. Len(writes) = 0 /\ Len(t) = 0 /\ 1 \in 1..Len(WriteHandlers)
  BY <1>4 DEF SingleWriter
<1>6. writes = <<>> /\ t = <<>>
  BY <1>1, <1>5
<1> QED
  BY <1>2, <1>3, <1>4, <1>5, <1>6 DEF SingleWriter

(* The handlers of the io thread keep the types. *)
LEMMA IoType ==
    ASSUME TypeInv, SingleWriter, IoStep
    PROVE  TypeOK'
<1>0. TypeOK /\ ioQ' \in Seq(Handlers) /\ RM!TypeOK'
  BY BaseType DEF TypeInv, Next
<1>01. /\ pendingList_ \in Seq(Packages) /\ writes \in Seq(Packages) /\ wire \in Seq(Packages)
       /\ ioQ \in Seq(Handlers) /\ reads \in Nat /\ tempBuf_ \in Seq(Inputs) /\ respQ \in Seq(Inputs)
       /\ readBuffer_ \in Seq(Inputs)
  BY <1>0 DEF TypeOK
<1>02. addressIndex_ \in Nat /\ addressIndex_ + 1 \in Nat /\ addressIndex_ + 1 <= Addresses
       /\ addressIndex_ <= Addresses
  BY <1>0, IndexType
<1>03. /\ UNCHANGED kind => kind' \in Seq(Kinds) /\ Len(kind') <= MaxReq
       /\ UNCHANGED code => code' \in [Msgs -> Codes]
       /\ UNCHANGED posted => posted' \in Seq(Packages)
  BY <1>0 DEF TypeOK
<1>1. CASE RunStartWrite
  <2>1. ioQ # <<>> /\ Head(ioQ).h = "startWrite"
    BY <1>1 DEF RunStartWrite, Runs, AtHead
  <2>2. PICK p \in Packages : p = Head(ioQ).p
    <3>1. Head(ioQ) \in Handlers
      BY <1>01, <2>1
    <3> QED
      BY <2>1, <3>1, HandlerFields
  <2>3. pendingList_' \in Seq(Packages) /\ pendingList_' # <<>>
    <3>1. pendingList_' = Append(pendingList_, p)
      BY <1>1, <2>2 DEF RunStartWrite, Enqueue
    <3> QED
      BY <1>01, <3>1, SMTT(60)
  <2>4. writes' \in Seq(Packages)
    <3>1. writes' = writes \/ writes' = Append(writes, Head(pendingList_'))
      BY <1>1 DEF RunStartWrite, WriteFront
    <3> QED
      BY <1>01, <2>3, <3>1, SeqFacts, Zenon
  <2> QED
    BY <1>0, <1>1, <2>3, <2>4, SMTT(90) DEF RunStartWrite, TypeOK, msgVars, readVars, connVars, lifeVars, netVars
<1>2. CASE RunWrittenFind
  BY <1>0, <1>2 DEF RunWrittenFind, TypeOK, msgVars, writeVars, readVars, connVars, lifeVars, netVars
<1>3. CASE RunWrittenRest
  <2>1. AtHead("written")
    BY <1>3 DEF RunWrittenRest
  <2>2. pendingList_ # <<>>
    BY <1>0, <2>1, FrontIsWritten
  <2>3. PICK list \in Seq(Packages) : list = Tail(pendingList_)
    BY <1>01, <2>2, SeqFacts, Zenon
  <2>4. Head(pendingList_) \in Packages
    BY <1>01, <2>2
  <2>5. \/ /\ pendingList_' = list /\ wire' = Append(wire, Head(pendingList_))
           /\ \/ writes' = writes
              \/ list # <<>> /\ writes' = Append(writes, Head(list))
           /\ writeFailed' = writeFailed
        \/ /\ pendingList_' = pendingList_ /\ wire' = wire /\ writes' = writes
           /\ writeFailed' = TRUE
    BY <1>3, <2>3 DEF RunWrittenRest, WriteNext, WriteFront
  <2>6. /\ pendingList_' \in Seq(Packages) /\ wire' \in Seq(Packages) /\ writes' \in Seq(Packages)
        /\ writeFailed' \in BOOLEAN
    <3>1. pendingList_' \in Seq(Packages) /\ wire' \in Seq(Packages)
      BY <1>01, <2>3, <2>4, <2>5, SeqFacts, Zenon
    <3>2. writes' \in Seq(Packages)
      BY <1>01, <2>3, <2>5, SeqFacts, Zenon
    <3>3. writeFailed' \in BOOLEAN
      BY <1>0, <2>5 DEF TypeOK
    <3> QED
      BY <3>1, <3>2, <3>3
  <2> QED
    BY <1>0, <1>3, <2>6, SMTT(60) DEF RunWrittenRest, TypeOK, msgVars, readVars, connVars, lifeVars, netVars
<1>4. CASE RunDoRead
  <2>1. ioQ # <<>> /\ Head(ioQ).h = "doRead" /\ Head(ioQ) = ioQ[1] /\ Head(ioQ) \in Handlers
        /\ 1 \in 1..Len(ioQ)
    BY <1>4, <1>01 DEF RunDoRead, Runs, AtHead
  <2>2. respQ' \in Seq(Inputs) /\ readBuffer_' \in Seq(Inputs)
    <3>1. DecodeInStep \/ DecodeMixedUp \/ UNCHANGED <<readBuffer_, respQ>>
      BY <1>4 DEF RunDoRead
    <3> QED
      BY <1>01, <3>1, DecodeMoves DEF Inputs
  <2>3. reads' \in Nat
    <3>1. reads' = reads \/ reads' = reads + 1
      BY <1>4 DEF RunDoRead, StartRead, ReadError
    <3> QED
      BY <1>01, <3>1
  <2>4. tempBuf_' \in Seq(Inputs)
    <3>1. tempBuf_' = tempBuf_ \/ tempBuf_' = <<>>
      BY <1>4 DEF RunDoRead
    <3> QED
      BY <1>01, <3>1, SeqFacts, Zenon
  <2> QED
    BY <1>0, <1>4, <2>2, <2>3, <2>4, SMTT(90) DEF RunDoRead, TypeOK, msgVars, writeVars, connVars, lifeVars, netVars
<1>5. CASE RunDoConnect
  <2>1. reads' \in Nat /\ isOnline_' \in BOOLEAN
    BY <1>01, <1>5 DEF RunDoConnect
  <2> QED
    BY <1>0, <1>5, <2>1 DEF RunDoConnect, TypeOK, msgVars, writeVars, lifeVars, netVars
<1>6. CASE RunConnected
  <2>1. kind' \in Seq(Kinds) /\ Len(kind') <= MaxReq /\ code' \in [Msgs -> Codes] /\ posted' \in Seq(Packages)
    <3>1. "sub" \in Kinds
      BY DEF Kinds
    <3>2. PostFromIo("sub", isOnline_, Tail(ioQ)) \/ UNCHANGED msgVars
      BY <1>6 DEF RunConnected, StartSubscribe
    <3> QED
      BY <1>0, <1>03, <3>1, <3>2, PostType DEF msgVars
  <2>2. heartbeatWait' \in BOOLEAN
    BY <1>6 DEF RunConnected, StartHeartbeatTimer
  <2> QED
    BY <1>0, <1>6, <2>1, <2>2 DEF RunConnected, TypeOK, writeVars, readVars, connVars, lifeVars, netVars
<1>7. CASE RunDoConnectFailed
  <2>1. /\ addressIndex_' \in 0..(Addresses - 1)
        /\ sock' \in {"closed", "connecting", "connected", "broken"}
        /\ reads' \in Nat /\ writes' \in Seq(Packages)
        /\ peer' \subseteq Msgs /\ inbound' \in Seq(Inputs)
    <3>1. Connect(addressIndex_ + 1, Tail(ioQ)) \/ UNCHANGED <<addressIndex_, sock, reads, writes, peer, inbound>>
      BY <1>7 DEF RunDoConnectFailed
    <3>2. CASE Connect(addressIndex_ + 1, Tail(ioQ))
      BY <1>0, <1>02, <3>2, ConnectType
    <3>3. CASE UNCHANGED <<addressIndex_, sock, reads, writes, peer, inbound>>
      BY <1>0, <3>3 DEF TypeOK
    <3> QED
      BY <3>1, <3>2, <3>3
  <2> QED
    BY <1>0, <1>7, <2>1 DEF RunDoConnectFailed, TypeOK, msgVars, lifeVars
<1>8. CASE RunDoClose
  <2>1. Connect(addressIndex_, Tail(ioQ)) \/ CloseSocket(Tail(ioQ))
    BY <1>8 DEF RunDoClose
  <2>2. /\ addressIndex_' \in 0..(Addresses - 1)
        /\ sock' \in {"closed", "connecting", "connected", "broken"}
        /\ reads' \in Nat /\ writes' \in Seq(Packages)
        /\ peer' \subseteq Msgs /\ inbound' \in Seq(Inputs)
    BY <1>0, <1>02, <2>1, ConnectType
  <2> QED
    BY <1>0, <1>8, <2>2 DEF RunDoClose, TypeOK, msgVars, lifeVars
<1>9. CASE RunDoHeartbeat
  <2>1. kind' \in Seq(Kinds) /\ Len(kind') <= MaxReq /\ code' \in [Msgs -> Codes] /\ posted' \in Seq(Packages)
    <3>1. "heartbeat" \in Kinds
      BY DEF Kinds
    <3>2. PostFromIo("heartbeat", isOnline_, Tail(ioQ))
      BY <1>9 DEF RunDoHeartbeat
    <3> QED
      BY <1>0, <3>1, <3>2, PostType
  <2> QED
    BY <1>0, <1>9, <2>1 DEF RunDoHeartbeat, TypeOK, writeVars, readVars, connVars, lifeVars, netVars
<1> QED
  BY <1>1, <1>2, <1>3, <1>4, <1>5, <1>6, <1>7, <1>8, <1>9 DEF IoStep

(* Completing operations and the server keep the types. *)
LEMMA NetType ==
    ASSUME TypeInv, AsioStep \/ ServerStep
    PROVE  TypeOK'
<1>0. TypeOK /\ ioQ' \in Seq(Handlers) /\ RM!TypeOK'
  BY BaseType DEF TypeInv, Next
<1>01. /\ writes \in Seq(Packages) /\ reads \in Nat /\ tempBuf_ \in Seq(Inputs)
       /\ inbound \in Seq(Inputs) /\ peer \subseteq Msgs
       /\ pushes \in 0..MaxPushes /\ faults \in 0..MaxFaults /\ MaxPushes \in Nat /\ MaxFaults \in Nat
  BY <1>0, Bounds DEF TypeOK
<1>1. CASE ConnectCompletes
  <2>1. sock' \in {"closed", "connecting", "connected", "broken"}
    BY <1>1 DEF ConnectCompletes
  <2>2. half' \in BOOLEAN /\ mixedUp' \in BOOLEAN
    BY <1>0, <1>1 DEF ConnectCompletes, TypeOK
  <2> QED
    BY <1>0, <1>1, <2>1, <2>2 DEF ConnectCompletes, TypeOK, msgVars, writeVars, lifeVars, netVars
<1>2. CASE WriteCompletes
  <2>1. writes # <<>> /\ writes' = Tail(writes)
    BY <1>2 DEF WriteCompletes
  <2>2. writes' \in Seq(Packages) /\ Head(writes) \in Packages
    BY <1>01, <2>1
  <2>3. peer' \subseteq Msgs
    <3>1. peer' = peer \/ (Head(writes).n # 0 /\ peer' = peer \cup {Head(writes).n})
      BY <1>2 DEF WriteCompletes
    <3> QED
      BY <1>01, <2>2, <3>1, PackageFields
  <2> QED
    BY <1>0, <1>2, <2>2, <2>3, SMTT(60) DEF WriteCompletes, TypeOK, msgVars, readVars, connVars, lifeVars
<1>3. CASE ReadCompletes
  <2>1. reads > 0 /\ reads' = reads - 1 /\ half' \in BOOLEAN /\ mixedUp' \in BOOLEAN
    BY <1>0, <1>3 DEF ReadCompletes, TypeOK, Decoding
  <2>2. reads' \in Nat
    BY <1>01, <2>1
  <2>3. tempBuf_' \in Seq(Inputs) /\ inbound' \in Seq(Inputs)
    BY <1>01, <1>3, ReadMoves
  <2> QED
    BY <1>0, <1>3, <2>1, <2>2, <2>3 DEF ReadCompletes, TypeOK, msgVars, writeVars, connVars, lifeVars
<1>4. CASE ReadFails
  <2>1. reads' \in Nat
    BY <1>01, <1>4 DEF ReadFails
  <2> QED
    BY <1>0, <1>4, <2>1 DEF ReadFails, TypeOK, msgVars, writeVars, connVars, lifeVars, netVars
<1>5. CASE HeartbeatFires
  BY <1>0, <1>5 DEF HeartbeatFires, TypeOK, msgVars, writeVars, readVars, connVars, lifeVars, netVars
<1>6. CASE IoRunsOut
  BY <1>0, <1>6 DEF IoRunsOut, TypeOK, msgVars, writeVars, readVars, connVars, netVars
<1>7. CASE \E d \in Msgs : TimerFires(d)
  BY <1>0, <1>7 DEF TimerFires, TypeOK, msgVars, writeVars, readVars, connVars, lifeVars, netVars
<1>8. CASE ServerPushes
  <2>1. pushes' \in 0..MaxPushes
    BY <1>01, <1>8 DEF ServerPushes
  <2>2. inbound' \in Seq(Inputs)
    BY <1>01, <1>8 DEF ServerPushes, Inputs, Mixed
  <2> QED
    BY <1>0, <1>8, <2>1, <2>2 DEF ServerPushes, TypeOK, msgVars, writeVars, readVars, connVars, lifeVars
<1>9. CASE ConnectionLost
  <2>1. faults' \in 0..MaxFaults
    BY <1>01, <1>9 DEF ConnectionLost
  <2>2. inbound' \in Seq(Inputs) /\ peer' \subseteq Msgs
    BY <1>9 DEF ConnectionLost
  <2> QED
    BY <1>0, <1>9, <2>1, <2>2 DEF ConnectionLost, TypeOK, msgVars, writeVars, readVars, lifeVars
<1>10. ASSUME NEW n \in Msgs, ServerReplies(n) PROVE TypeOK'
  <2>1. inbound' \in Seq(Inputs)
    <3>1. Answer(n) \in Inputs /\ inbound' = Append(inbound, Answer(n))
      BY <1>10, Makes DEF ServerReplies
    <3> QED
      BY <1>01, <3>1, SeqFacts, Zenon
  <2>2. peer' \subseteq Msgs
    BY <1>01, <1>10 DEF ServerReplies
  <2> QED
    BY <1>0, <1>10, <2>1, <2>2 DEF ServerReplies, TypeOK, msgVars, writeVars, readVars, connVars, lifeVars
<1> QED
  BY <1>1, <1>2, <1>3, <1>4, <1>5, <1>6, <1>7, <1>8, <1>9, <1>10 DEF AsioStep, ServerStep

(* Callbacks keep the type of heartbeatWait. *)
LEMMA CallbackType == \A id : Callback(id) => heartbeatWait' \in BOOLEAN
BY DEF Callback

(* Timeouts, answers and the pool keep the types. *)
LEMMA OtherType ==
    ASSUME TypeInv, (\E id \in Ids : RunOnTimeout(id)) \/ DoResponse \/ ReplyDeliver \/ UNCHANGED vars
    PROVE  TypeOK'
<1>0. TypeOK /\ ioQ' \in Seq(Handlers) /\ RM!TypeOK'
  BY BaseType DEF TypeInv, Next
<1>01. respQ \in Seq(Inputs) /\ tasks \in Seq(Inputs) /\ heartbeatWait \in BOOLEAN
  BY <1>0 DEF TypeOK
<1>1. ASSUME NEW id \in Ids, RunOnTimeout(id) PROVE TypeOK'
  <2>1. heartbeatWait' \in BOOLEAN
    BY <1>1, CallbackType DEF RunOnTimeout
  <2> QED
    BY <1>0, <1>1, <2>1 DEF RunOnTimeout, TypeOK, msgVars, writeVars, readVars, connVars, lifeVars, netVars
<1>2. CASE DoResponse
  <2>1. respQ # <<>> /\ respQ' = Tail(respQ)
    BY <1>2 DEF DoResponse
  <2>2. respQ' \in Seq(Inputs) /\ Head(respQ) \in Inputs
    BY <1>01, <2>1
  <2>3. heartbeatWait' \in BOOLEAN
    <3>1. heartbeatWait' = heartbeatWait \/ Callback(Head(respQ).id)
      BY <1>2 DEF DoResponse
    <3> QED
      BY <1>01, <3>1, CallbackType
  <2>4. tasks' \in Seq(Inputs)
    <3>1. tasks' = tasks \/ tasks' = Append(tasks, Head(respQ))
      BY <1>2 DEF DoResponse, OnPackage
    <3> QED
      BY <1>01, <2>2, <3>1, SeqFacts, Zenon
  <2> QED
    BY <1>0, <1>2, <2>2, <2>3, <2>4 DEF DoResponse, TypeOK, msgVars, writeVars, readVars, connVars, lifeVars, netVars
<1>3. CASE ReplyDeliver
  <2>1. PICK i \in 1..Len(tasks) :
          tasks' = RemoveAt(tasks, i) /\ PostPackage(DeliverAnswer(tasks[i].id), isOnline_, ioQ)
    BY <1>3 DEF ReplyDeliver
  <2>2. tasks' \in Seq(Inputs)
    <3>1. SubSeq(tasks, 1, i - 1) \in Seq(Inputs) /\ SubSeq(tasks, i + 1, Len(tasks)) \in Seq(Inputs)
      BY <1>01, <2>1
    <3> QED
      BY <2>1, <3>1 DEF RemoveAt
  <2>3. posted' \in Seq(Packages)
    <3>1. tasks[i] \in Inputs
      BY <1>01, <2>1
    <3>2. DeliverAnswer(tasks[i].id) \in Packages
      BY <3>1, InputFields, Makes
    <3> QED
      BY <1>0, <2>1, <3>2, PostType
  <2> QED
    BY <1>0, <1>3, <2>2, <2>3, SMTT(60) DEF ReplyDeliver, TypeOK, writeVars, readVars, connVars, lifeVars, netVars
<1>4. CASE UNCHANGED vars
  BY <1>0, <1>4 DEF vars, TypeOK, msgVars, writeVars, readVars, connVars, lifeVars, netVars
<1> QED
  BY <1>1, <1>2, <1>3, <1>4

(* Every step keeps the types, given that a written package is pending. *)
LEMMA TypeStep ==
    ASSUME TypeInv, SingleWriter, Next \/ UNCHANGED vars
    PROVE  TypeInv'
<1>1. RMP!IInv'
  BY BaseType
<1>2. TypeOK'
  BY AppType, IoType, NetType, OtherType DEF Next
<1> QED
  BY <1>1, <1>2 DEF TypeInv

(* The initial states. *)
LEMMA InitType == Init => TypeInv
<1> SUFFICES ASSUME Init PROVE TypeInv
  OBVIOUS
<1>1. RMP!IInv
  BY TableAssumed, RMP!InitIInv, SameTable DEF Init
<1>2. RM!TypeOK
  BY <1>1, SameTable DEF RMP!IInv
<1>3. TypeOK
  <2>1. kind \in Seq(Kinds) /\ Len(kind) <= MaxReq /\ code \in [Msgs -> Codes]
    BY ClientAssumption DEF Init, Codes
  <2>2. /\ posted \in Seq(Packages) /\ wire \in Seq(Packages) /\ pendingList_ \in Seq(Packages)
        /\ writes \in Seq(Packages) /\ tempBuf_ \in Seq(Inputs) /\ respQ \in Seq(Inputs)
        /\ readBuffer_ \in Seq(Inputs) /\ tasks \in Seq(Inputs) /\ inbound \in Seq(Inputs) /\ ioQ \in Seq(Handlers)
    BY DEF Init
  <2>3. /\ addressIndex_ \in 0..(Addresses - 1) /\ reads \in Nat
        /\ pushes \in 0..MaxPushes /\ faults \in 0..MaxFaults
    BY ClientAssumption DEF Init
  <2> QED
    BY <1>2, <2>1, <2>2, <2>3 DEF Init, TypeOK
<1> QED
  BY <1>1, <1>3 DEF TypeInv

-----------------------------------------------------------------------------
(***************************************************************************)
(* One write at a time                                                     *)
(***************************************************************************)

(* SingleWriter for writes w, write handlers hs and the list. *)
Writer(w, hs, list, failed) ==
    /\ Len(w) + Len(hs) <= 1
    /\ \A i \in 1..Len(w) : list # <<>> /\ w[i] = Head(list)
    /\ \A i \in 1..Len(hs) : list # <<>> /\ hs[i].p = Head(list)
    /\ list # <<>> /\ ~failed => Len(w) + Len(hs) = 1

(* The write handlers of the queue, by either name. *)
LEMMA WriterIs ==
    /\ SingleWriter <=> Writer(writes, HandlersIn(ioQ, "written"), pendingList_, writeFailed)
    /\ SingleWriter' <=> Writer(writes', HandlersIn(ioQ', "written"), pendingList_', writeFailed')
BY DEF SingleWriter, Writer, HandlersIn, WriteHandlers

(* Steps that change neither the writes nor their handlers nor the list. *)
LEMMA WriterAlone ==
    ASSUME SingleWriter, UNCHANGED <<writes, pendingList_, writeFailed>>,
           HandlersIn(ioQ', "written") = HandlersIn(ioQ, "written")
    PROVE  SingleWriter'
BY WriterIs

(* No write is left, nor a write handler. *)
LEMMA WriterIdle ==
    ASSUME NEW list, NEW failed, list = <<>> \/ failed
    PROVE  Writer(<<>>, <<>>, list, failed)
BY DEF Writer

(* One write, or one write handler, for the front of the list. *)
LEMMA WriterOne ==
    ASSUME NEW list \in Seq(Packages), list # <<>>, NEW failed,
           NEW x \in Handlers, x.p = Head(list)
    PROVE  Writer(<<Head(list)>>, <<>>, list, failed) /\ Writer(<<>>, <<x>>, list, failed)
<1>1. Head(list) \in Packages
  OBVIOUS
<1>2. PICK w \in Seq(Packages) : w = <<Head(list)>> /\ Len(w) = 1 /\ w[1] = Head(list)
  BY <1>1, SeqOne, Zenon
<1>3. PICK hs \in Seq(Handlers) : hs = <<x>> /\ Len(hs) = 1 /\ hs[1] = x
  BY SeqOne, Zenon
<1>4. Len(<<>>) = 0
  OBVIOUS
<1>5. Writer(w, <<>>, list, failed)
  BY <1>2, <1>4 DEF Writer
<1>6. Writer(<<>>, hs, list, failed)
  BY <1>3, <1>4 DEF Writer
<1> QED
  BY <1>2, <1>3, <1>5, <1>6

(* A package behind others in the list is not written yet. *)
LEMMA WriterEnqueued ==
    ASSUME NEW list \in Seq(Packages), list # <<>>, NEW p \in Packages, NEW failed, NEW w, NEW hs,
           Writer(w, hs, list, failed)
    PROVE  Writer(w, hs, Append(list, p), failed)
<1>1. Append(list, p) # <<>> /\ Head(Append(list, p)) = Head(list)
  <2>1. Append(list, p) \in Seq(Packages) /\ Append(list, p) # <<>>
    BY SeqFacts
  <2> QED
    BY <2>1
<1> QED
  BY <1>1 DEF Writer

(* Outstanding writes that complete or are aborted turn into handlers. *)
LEMMA WriterCompletes ==
    ASSUME NEW w \in Seq(Packages), NEW hs \in Seq(Handlers), NEW list, NEW failed,
           NEW v \in Seq(Packages), NEW a \in Seq(Handlers),
           Len(v) + Len(a) = Len(w),
           \A i \in 1..Len(v) : \E j \in 1..Len(w) : v[i] = w[j],
           \A i \in 1..Len(a) : \E j \in 1..Len(w) : a[i].p = w[j],
           Writer(w, hs, list, failed)
    PROVE  Writer(v, hs \o a, list, failed)
<1>1. /\ Len(hs \o a) = Len(hs) + Len(a) /\ Len(hs) \in Nat /\ Len(a) \in Nat /\ Len(v) \in Nat
      /\ Len(w) \in Nat
  OBVIOUS
<1>2. Len(v) + Len(hs \o a) = Len(w) + Len(hs)
  <2>1. Len(v) + (Len(hs) + Len(a)) = (Len(v) + Len(a)) + Len(hs)
    BY <1>1
  <2>2. Len(v) + Len(a) = Len(w)
    OBVIOUS
  <2> QED
    BY <1>1, <2>1, <2>2, Zenon
<1>3. \A i \in 1..Len(v) : list # <<>> /\ v[i] = Head(list)
  BY DEF Writer
<1>4. \A i \in 1..Len(hs \o a) : list # <<>> /\ (hs \o a)[i].p = Head(list)
  <2>1. ASSUME NEW i \in 1..Len(hs \o a)
        PROVE  \/ i \in 1..Len(hs) /\ (hs \o a)[i] = hs[i]
               \/ i - Len(hs) \in 1..Len(a) /\ (hs \o a)[i] = a[i - Len(hs)]
    BY <1>1
  <2>2. \A i \in 1..Len(a) : list # <<>> /\ a[i].p = Head(list)
    BY DEF Writer
  <2>3. \A i \in 1..Len(hs) : list # <<>> /\ hs[i].p = Head(list)
    BY DEF Writer
  <2>4. TAKE i \in 1..Len(hs \o a)
  <2>5. CASE i \in 1..Len(hs) /\ (hs \o a)[i] = hs[i]
    BY <2>3, <2>5, Zenon
  <2>6. CASE i - Len(hs) \in 1..Len(a) /\ (hs \o a)[i] = a[i - Len(hs)]
    BY <2>2, <2>6, Zenon
  <2> QED
    BY <2>1, <2>5, <2>6, Zenon
<1> QED
  BY <1>2, <1>3, <1>4 DEF Writer

(* Connecting and closing abort the write. *)
LEMMA WriterAborted ==
    ASSUME TypeOK, SingleWriter, NEW q \in Seq(Handlers),
           HandlersIn(q, "written") = HandlersIn(ioQ, "written"),
           ioQ' = q \o Aborted, writes' = <<>>, UNCHANGED <<pendingList_, writeFailed>>
    PROVE  SingleWriter'
<1>1. writes \in Seq(Packages) /\ ioQ \in Seq(Handlers)
  BY DEF TypeOK
<1>2. PICK a \in Seq(Handlers) : a = Aborted
  BY AbortedType DEF AllOf
<1>3. PICK hs \in Seq(Handlers) : hs = HandlersIn(ioQ, "written")
  BY <1>1, HandlersType
<1>4. PICK ws \in Seq(Handlers) : ws = HandlersIn(a, "written")
  BY HandlersType
<1>5. Len(ws) = Len(writes) /\ \A i \in 1..Len(ws) : ws[i].p = writes[i]
  <2>1. ws = [i \in 1..Len(writes) |-> Written(writes[i], FALSE)]
    BY <1>2, <1>4, AbortedType
  <2>2. Len(writes) \in Nat
    BY <1>1
  <2>3. \A p : Written(p, FALSE).p = p
    BY DEF Written
  <2>4. \A i \in 1..Len(writes) : ws[i] = Written(writes[i], FALSE)
    BY <2>1
  <2>5. Len(ws) = Len(writes)
    BY <2>1, <2>2
  <2> QED
    BY <2>3, <2>4, <2>5
<1>6. HandlersIn(ioQ', "written") = hs \o ws
  <2>1. HandlersIn(q \o a, "written") = HandlersIn(q, "written") \o HandlersIn(a, "written")
    BY HandlersConcat, ZenonT(60)
  <2> QED
    BY <1>2, <1>3, <1>4, <2>1
<1>7. Writer(<<>>, hs \o ws, pendingList_, writeFailed)
  <2>1. Writer(writes, hs, pendingList_, writeFailed)
    BY <1>3, WriterIs
  <2>2. PICK v \in Seq(Packages) : v = <<>> /\ Len(v) = 0
    BY SeqOne, Zenon
  <2>3. Len(v) + Len(ws) = Len(writes) /\ \A i \in 1..Len(v) : \E j \in 1..Len(writes) : v[i] = writes[j]
    BY <1>1, <1>5, <2>2
  <2>4. \A i \in 1..Len(ws) : \E j \in 1..Len(writes) : ws[i].p = writes[j]
    BY <1>5
  <2>5. Writer(v, hs \o ws, pendingList_, writeFailed)
    BY <1>1, <2>1, <2>3, <2>4, WriterCompletes
  <2> QED
    BY <2>2, <2>5
<1> QED
  BY <1>6, <1>7, WriterIs

(* startWrite() for the front of the list, when no write is under way. *)
LEMMA WriterStarts ==
    ASSUME NEW list \in Seq(Packages), list # <<>>, NEW q \in Seq(Handlers),
           HandlersIn(q, "written") = <<>>, writes = <<>>,
           WriteFront(list, q), pendingList_' = list
    PROVE  SingleWriter'
<1>1. PICK p \in Packages : p = Head(list)
  BY SeqFacts, Zenon
<1>2. PICK x \in Handlers : x = Written(p, FALSE) /\ x.h = "written" /\ x.p = p
  <2>1. Written(p, FALSE) \in Handlers /\ Written(p, FALSE).h = "written" /\ Written(p, FALSE).p = p
    BY MadeHandlers DEF Written
  <2> QED
    BY <2>1, Zenon
<1>3. /\ Writer(<<p>>, <<>>, list, writeFailed') /\ Writer(<<>>, <<x>>, list, writeFailed')
  BY <1>1, <1>2, WriterOne
<1>4. CASE sock = "closed"
  <2>1. ioQ' = q \o <<x>> /\ writes' = <<>>
    <3>1. ioQ' = Append(q, x) /\ writes' = writes
      BY <1>1, <1>2, <1>4 DEF WriteFront
    <3> QED
      BY <3>1
  <2>2. HandlersIn(ioQ', "written") = <<x>>
    <3>1. <<x>> \in Seq(Handlers)
      BY SeqOne
    <3>2. HandlersIn(q \o <<x>>, "written") = HandlersIn(q, "written") \o HandlersIn(<<x>>, "written")
      BY <3>1, HandlersConcat
    <3>3. HandlersIn(<<x>>, "written") = <<x>>
      BY <1>2, HandlersOne
    <3>4. <<>> \o <<x>> = <<x>>
      BY <3>1
    <3> QED
      BY <2>1, <3>2, <3>3, <3>4
  <2> QED
    BY <1>3, <2>1, <2>2, WriterIs
<1>5. CASE sock # "closed"
  <2>1. ioQ' = q /\ writes' = <<p>>
    <3>1. ioQ' = q /\ writes' = Append(writes, p)
      BY <1>1, <1>5 DEF WriteFront
    <3>2. Append(<<>>, p) = <<p>>
      OBVIOUS
    <3> QED
      BY <3>1, <3>2
  <2> QED
    BY <1>3, <2>1, WriterIs
<1> QED
  BY <1>4, <1>5

(* A failed write leaves no other write behind. *)
LEMMA WriteFails ==
    ASSUME TypeOK, SingleWriter, RunWrittenRest, ~Head(ioQ).ok
    PROVE  /\ writeFailed' = TRUE /\ UNCHANGED <<pendingList_, wire>>
           /\ writes' = <<>> /\ HandlersIn(ioQ', "written") = <<>>
<1>1. Tail(ioQ) \in Seq(Handlers) /\ writes = <<>> /\ HandlersIn(Tail(ioQ), "written") = <<>>
  BY FrontIsWritten DEF RunWrittenRest
<1>2. /\ ioQ' = Append(Tail(ioQ), DoClose) /\ writeFailed' = TRUE /\ writes' = <<>>
      /\ UNCHANGED <<pendingList_, wire>>
  BY <1>1 DEF RunWrittenRest
<1>3. DoClose \in Handlers /\ DoClose.h # "written" /\ <<DoClose>> \in Seq(Handlers)
  <2>1. DoClose \in Handlers /\ DoClose.h # "written"
    BY Makes, HandlerKinds
  <2> QED
    BY <2>1, SeqOne
<1>4. PICK q \in Seq(Handlers) : q = Tail(ioQ)
  BY <1>1
<1>5. HandlersIn(q \o <<DoClose>>, "written") = HandlersIn(q, "written") \o HandlersIn(<<DoClose>>, "written")
  BY <1>3, HandlersConcat
<1>6. HandlersIn(<<DoClose>>, "written") = <<>>
  BY <1>3, HandlersOne
<1>7. Append(q, DoClose) = q \o <<DoClose>> /\ <<>> \o <<>> = <<>>
  OBVIOUS
<1> QED
  BY <1>1, <1>2, <1>4, <1>5, <1>6, <1>7

(* The steps that write. *)
LEMMA WriteSteps ==
    ASSUME TypeOK, SingleWriter
    PROVE  /\ RunStartWrite => SingleWriter'
           /\ RunWrittenRest => SingleWriter'
           /\ WriteCompletes => SingleWriter'
<1>0. /\ ioQ \in Seq(Handlers) /\ pendingList_ \in Seq(Packages) /\ writes \in Seq(Packages)
  BY DEF TypeOK
<1>1. ASSUME RunStartWrite PROVE SingleWriter'
  <2>1. ioQ # <<>> /\ Head(ioQ).h = "startWrite"
    BY <1>1 DEF RunStartWrite, Runs, AtHead
  <2>2. PICK q \in Seq(Handlers) : q = Tail(ioQ) /\ HandlersIn(ioQ, "written") = HandlersIn(q, "written")
    <3>1. Tail(ioQ) \in Seq(Handlers) /\ HandlersIn(ioQ, "written") = <<>> \o HandlersIn(Tail(ioQ), "written")
      BY <1>0, <2>1, HandlersHead
    <3>2. HandlersIn(Tail(ioQ), "written") \in Seq(Handlers)
      BY <3>1, HandlersType
    <3>3. HandlersIn(ioQ, "written") = HandlersIn(Tail(ioQ), "written")
      BY <3>1, <3>2
    <3> QED
      BY <3>1, <3>3, Zenon
  <2>3. PICK p \in Packages : p = Head(ioQ).p
    <3>1. Head(ioQ) \in Handlers
      BY <1>0, <2>1
    <3> QED
      BY <2>1, <3>1, HandlerFields
  <2>4. pendingList_' = Append(pendingList_, p) /\ writeFailed' = writeFailed
    BY <1>1, <2>3 DEF RunStartWrite, Enqueue
  <2>5. CASE pendingList_ = <<>>
    <3>1. PICK list \in Seq(Packages) : list = Append(pendingList_, p) /\ list # <<>>
      BY <1>0, SeqFacts, Zenon
    <3>2. WriteFront(list, q)
      BY <1>1, <2>2, <2>4, <2>5, <3>1 DEF RunStartWrite
    <3>3. writes = <<>> /\ HandlersIn(q, "written") = <<>>
      <4>1. PICK hs \in Seq(Handlers) : hs = HandlersIn(q, "written")
        BY HandlersType
      <4>2. Writer(writes, hs, <<>>, writeFailed)
        BY <2>2, <2>5, <4>1, WriterIs
      <4>3. Len(writes) \in Nat /\ Len(hs) \in Nat
        BY <1>0
      <4>4. 1 \notin 1..Len(writes) /\ 1 \notin 1..Len(hs)
        BY <4>2 DEF Writer
      <4>5. Len(writes) = 0 /\ Len(hs) = 0
        BY <4>3, <4>4
      <4> QED
        BY <1>0, <4>1, <4>5
    <3> QED
      BY <2>4, <3>1, <3>2, <3>3, WriterStarts
  <2>6. CASE pendingList_ # <<>>
    <3>1. ioQ' = q /\ writes' = writes
      BY <1>1, <2>2, <2>6 DEF RunStartWrite
    <3>2. Writer(writes, HandlersIn(ioQ, "written"), pendingList_, writeFailed)
      BY WriterIs
    <3>3. Writer(writes, HandlersIn(ioQ, "written"), Append(pendingList_, p), writeFailed)
      BY <1>0, <2>6, <3>2, WriterEnqueued
    <3> QED
      BY <2>2, <2>4, <3>1, <3>3, WriterIs
  <2> QED
    BY <2>5, <2>6
<1>2. ASSUME RunWrittenRest PROVE SingleWriter'
  <2>1. AtHead("written")
    BY <1>2 DEF RunWrittenRest
  <2>2. /\ Tail(ioQ) \in Seq(Handlers) /\ pendingList_ # <<>> /\ writes = <<>>
        /\ HandlersIn(Tail(ioQ), "written") = <<>>
    BY <2>1, FrontIsWritten
  <2>3. PICK list \in Seq(Packages) : list = Tail(pendingList_)
    BY <1>0, <2>2, SeqFacts, Zenon
  <2>4. CASE Head(ioQ).ok
    <3>1. pendingList_' = list /\ WriteNext(list, Tail(ioQ))
      BY <1>2, <2>3, <2>4 DEF RunWrittenRest
    <3>2. CASE list # <<>>
      <4>1. WriteFront(list, Tail(ioQ))
        BY <3>1, <3>2 DEF WriteNext
      <4> QED
        BY <2>2, <3>1, <3>2, <4>1, WriterStarts
    <3>3. CASE list = <<>>
      <4>1. ioQ' = Tail(ioQ) /\ writes' = <<>>
        BY <2>2, <3>1, <3>3 DEF WriteNext
      <4>2. Writer(<<>>, <<>>, <<>>, writeFailed')
        BY WriterIdle
      <4> QED
        BY <2>2, <3>1, <3>3, <4>1, <4>2, WriterIs
    <3> QED
      BY <3>2, <3>3
  <2>5. CASE ~Head(ioQ).ok
    <3>1. Writer(<<>>, <<>>, pendingList_, TRUE)
      BY WriterIdle
    <3> QED
      BY <1>2, <2>5, <3>1, WriteFails, WriterIs
  <2> QED
    BY <2>4, <2>5
<1>3. ASSUME WriteCompletes PROVE SingleWriter'
  <2>1. PICK ok \in BOOLEAN : /\ writes # <<>> /\ writes' = Tail(writes)
                              /\ ioQ' = Append(ioQ, Written(Head(writes), ok))
                              /\ UNCHANGED <<pendingList_, writeFailed>>
    BY <1>3 DEF WriteCompletes
  <2>2. PICK v \in Seq(Packages) : v = Tail(writes) /\ Len(v) = Len(writes) - 1 /\ \A i \in 1..Len(v) : v[i] = writes[i + 1]
    <3>1. PICK v \in Seq(Packages) : v = Tail(writes)
      BY <1>0, <2>1, SeqFacts, Zenon
    <3>2. Len(v) = Len(writes) - 1 /\ \A i \in 1..Len(v) : v[i] = writes[i + 1]
      BY <1>0, <2>1, <3>1
    <3> QED
      BY <3>1, <3>2
  <2>3. PICK x \in Handlers : x = Written(Head(writes), ok) /\ x.h = "written" /\ x.p = writes[1]
    <3>1. Head(writes) \in Packages /\ Head(writes) = writes[1]
      BY <1>0, <2>1
    <3>2. Written(Head(writes), ok) \in Handlers
      BY <3>1, Makes
    <3>3. Written(Head(writes), ok).h = "written" /\ Written(Head(writes), ok).p = Head(writes)
      BY HandlerKinds
    <3> QED
      BY <3>1, <3>2, <3>3, Zenon
  <2>4. PICK a \in Seq(Handlers) : a = <<x>> /\ Len(a) = 1 /\ a[1] = x
    BY SeqOne, Zenon
  <2>5. PICK hs \in Seq(Handlers) : hs = HandlersIn(ioQ, "written")
    BY <1>0, HandlersType
  <2>6. HandlersIn(ioQ', "written") = hs \o a
    <3>1. HandlersIn(ioQ \o a, "written") = HandlersIn(ioQ, "written") \o HandlersIn(a, "written")
      BY <1>0, HandlersConcat, SMTT(60)
    <3>2. HandlersIn(a, "written") = a
      BY <2>3, <2>4, HandlersOne
    <3>3. ioQ' = ioQ \o a
      BY <1>0, <2>1, <2>3, <2>4
    <3> QED
      BY <2>5, <3>1, <3>2, <3>3
  <2>7. Writer(v, hs \o a, pendingList_, writeFailed)
    <3>1. Len(writes) \in Nat /\ Len(writes) > 0 /\ Len(v) + Len(a) = Len(writes)
      BY <1>0, <2>1, <2>2, <2>4
    <3>2. \A i \in 1..Len(v) : \E j \in 1..Len(writes) : v[i] = writes[j]
      <4>1. \A i \in 1..Len(v) : i + 1 \in 1..Len(writes)
        BY <2>2, <3>1
      <4> QED
        BY <2>2, <4>1
    <3>3. \A i \in 1..Len(a) : \E j \in 1..Len(writes) : a[i].p = writes[j]
      BY <2>3, <2>4, <3>1
    <3>4. Writer(writes, hs, pendingList_, writeFailed)
      BY <2>5, WriterIs
    <3> QED
      BY <1>0, <3>1, <3>2, <3>3, <3>4, WriterCompletes
  <2> QED
    BY <2>1, <2>2, <2>6, <2>7, WriterIs
<1> QED
  BY <1>1, <1>2, <1>3

(* connect() and closing the socket. *)
LEMMA WriterConnects ==
    ASSUME TypeOK, SingleWriter
    PROVE  /\ Start => SingleWriter'
           /\ RunDoConnectFailed => SingleWriter'
           /\ RunDoClose => SingleWriter'
<1>0. ioQ \in Seq(Handlers)
  BY DEF TypeOK
<1>1. Start => SingleWriter'
  BY <1>0, WriterAborted DEF Start, Connect
<1>2. ASSUME ioQ # <<>>, Head(ioQ).h # "written"
      PROVE  Tail(ioQ) \in Seq(Handlers) /\ HandlersIn(Tail(ioQ), "written") = HandlersIn(ioQ, "written")
  <2>1. Tail(ioQ) \in Seq(Handlers) /\ HandlersIn(ioQ, "written") = <<>> \o HandlersIn(Tail(ioQ), "written")
    BY <1>0, <1>2, HandlersHead
  <2>2. HandlersIn(Tail(ioQ), "written") \in Seq(Handlers)
    BY <2>1, HandlersType
  <2> QED
    BY <2>1, <2>2
<1>3. ASSUME ioQ # <<>>, Head(ioQ).h # "written", UNCHANGED <<pendingList_, writeFailed>>
      PROVE  /\ ioQ' = Tail(ioQ) \o Aborted /\ writes' = <<>> => SingleWriter'
             /\ ioQ' = Tail(ioQ) /\ writes' = writes => SingleWriter'
  BY <1>2, <1>3, WriterAborted, WriterAlone
<1>4. ASSUME RunDoConnectFailed PROVE SingleWriter'
  <2>1. ioQ # <<>> /\ Head(ioQ).h # "written" /\ UNCHANGED <<pendingList_, writeFailed>>
    BY <1>4 DEF RunDoConnectFailed, Runs, AtHead
  <2>2. (ioQ' = Tail(ioQ) \o Aborted /\ writes' = <<>>) \/ (ioQ' = Tail(ioQ) /\ writes' = writes)
    BY <1>4 DEF RunDoConnectFailed, Connect
  <2> QED
    BY <1>3, <2>1, <2>2
<1>5. ASSUME RunDoClose PROVE SingleWriter'
  <2>1. ioQ # <<>> /\ Head(ioQ).h # "written" /\ UNCHANGED <<pendingList_, writeFailed>>
    BY <1>5 DEF RunDoClose, Runs, AtHead
  <2>2. (ioQ' = Tail(ioQ) \o Aborted /\ writes' = <<>>) \/ (ioQ' = Tail(ioQ) /\ writes' = writes)
    BY <1>5 DEF RunDoClose, Connect, CloseSocket
  <2> QED
    BY <1>3, <2>1, <2>2
<1> QED
  BY <1>1, <1>4, <1>5

(* Only connecting, closing and writing concern the writes, their handlers *)
(* and the list.                                                           *)
LEMMA WritesStay ==
    ASSUME TypeOK, Next \/ UNCHANGED vars, ~Start, ~RunStartWrite, ~RunWrittenRest,
           ~RunDoConnectFailed, ~RunDoClose, ~WriteCompletes
    PROVE  /\ UNCHANGED <<writes, pendingList_, writeFailed>>
           /\ HandlersIn(ioQ', "written") = HandlersIn(ioQ, "written")
<1> DEFINE Stay == /\ UNCHANGED <<writes, pendingList_, writeFailed>>
                   /\ HandlersIn(ioQ', "written") = HandlersIn(ioQ, "written")
<1>0. ioQ \in Seq(Handlers)
  BY DEF TypeOK
<1>2. \A H, G : "written" \notin H /\ "written" \notin G /\ QueueStep(H, G)
                => HandlersIn(ioQ', "written") = HandlersIn(ioQ, "written")
  BY <1>0, QueueKeeps
<1>3. UNCHANGED ioQ => HandlersIn(ioQ', "written") = HandlersIn(ioQ, "written")
  OBVIOUS
<1>4. ASSUME AppStep \/ ReplyDeliver PROVE Stay
  <2>1. UNCHANGED <<writes, pendingList_, writeFailed>>
    BY <1>4 DEF AppStep, StopIo, StopRest, PostMessage, PublishMessage, PostMade, ReplyDeliver, writeVars
  <2>2. "written" \notin {"startWrite"} /\ "written" \notin {"doClose"} /\ "written" \notin {}
    OBVIOUS
  <2>3. HandlersIn(ioQ', "written") = HandlersIn(ioQ, "written")
    BY <1>2, <1>3, <1>4, <2>2, AppQueue, QueueAlone DEF AppStep
  <2> QED
    BY <2>1, <2>3
<1>5. ASSUME IoStep PROVE Stay
  <2>1. UNCHANGED <<writes, pendingList_, writeFailed>>
    BY <1>5 DEF IoStep, RunWrittenFind, RunDoRead, RunDoConnect, RunConnected, RunDoHeartbeat, writeVars
  <2>2. /\ "written" \notin {"startWrite"} /\ "written" \notin {"doRead", "doClose"} /\ "written" \notin {"doRead"}
        /\ "written" \notin {"connected"} /\ "written" \notin {"doConnect"} /\ "written" \notin {"doHeartbeat"}
    OBVIOUS
  <2>3. HandlersIn(ioQ', "written") = HandlersIn(ioQ, "written")
    BY <1>2, <1>3, <1>5, <2>2, IoQueue, QueueAlone DEF IoStep
  <2> QED
    BY <2>1, <2>3
<1>6. ASSUME AsioStep PROVE Stay
  <2>1. UNCHANGED <<writes, pendingList_, writeFailed>>
    BY <1>6 DEF AsioStep, ConnectCompletes, ReadCompletes, ReadFails, HeartbeatFires, IoRunsOut, TimerFires, writeVars
  <2>2. /\ "written" \notin {"doRead"} /\ "written" \notin {"doConnect"} /\ "written" \notin {"doHeartbeat"}
        /\ "written" \notin {}
    OBVIOUS
  <2>3. HandlersIn(ioQ', "written") = HandlersIn(ioQ, "written")
    BY <1>2, <1>3, <1>6, <2>2, AsioQueue, QueueAlone DEF AsioStep
  <2> QED
    BY <2>1, <2>3
<1>7. ASSUME ServerStep \/ (\E id \in Ids : RunOnTimeout(id)) \/ DoResponse \/ UNCHANGED vars
      PROVE  Stay
  <2>1. UNCHANGED <<writes, pendingList_, writeFailed>>
    BY <1>7 DEF ServerStep, ServerPushes, ConnectionLost, ServerReplies, RunOnTimeout, DoResponse, vars, writeVars
  <2> QED
    BY <1>3, <1>7, <2>1, QueueAlone
<1> HIDE DEF Stay
<1>8. Stay
  BY <1>4, <1>5, <1>6, <1>7 DEF Next
<1> QED
  BY <1>8 DEF Stay

(* Every step keeps the single writer. *)
LEMMA WriterStep ==
    ASSUME TypeOK, SingleWriter, Next \/ UNCHANGED vars
    PROVE  SingleWriter'
BY WritesStay, WriterAlone, WriteSteps, WriterConnects

(* The initial states. *)
LEMMA InitWriter == Init => SingleWriter
<1> SUFFICES ASSUME Init PROVE SingleWriter
  OBVIOUS
<1>1. HandlersIn(ioQ, "written") = <<>>
  <2>1. ioQ \in Seq(Handlers) /\ \A i \in 1..Len(ioQ) : ioQ[i].h # "written"
    BY DEF Init
  <2> QED
    BY <2>1, HandlersNone
<1>2. Writer(<<>>, <<>>, <<>>, writeFailed)
  BY WriterIdle
<1> QED
  BY <1>1, <1>2, WriterIs DEF Init

(* The core of the client: types, table and the one write. *)
CoreInv == TypeInv /\ SingleWriter

(* TypeOK alone is not inductive: that pendingList_ is not empty when a    *)
(* write has completed is SingleWriter.                                    *)
THEOREM Core == Spec => []CoreInv
<1>1. Init => CoreInv
  BY InitType, InitWriter DEF CoreInv
<1>2. CoreInv /\ [Next]_vars => CoreInv'
  <2> SUFFICES ASSUME CoreInv, Next \/ UNCHANGED vars PROVE CoreInv'
    OBVIOUS
  <2>1. TypeInv /\ SingleWriter /\ TypeOK
    BY DEF CoreInv, TypeInv
  <2> QED
    BY <2>1, TypeStep, WriterStep DEF CoreInv
<1> QED
  BY <1>1, <1>2, PTL DEF Spec

(* The variables of the client keep their types. *)
THEOREM TypeCorrect == Spec => []TypeOK
<1>1. CoreInv => TypeOK
  BY DEF CoreInv, TypeInv
<1> QED
  BY <1>1, Core, PTL

(* At most one async_write or write handler is outstanding, it is the one  *)
(* of the front of pendingList_, and until a write fails the list does not *)
(* stall.                                                                  *)
THEOREM SingleWriterHolds == Spec => []SingleWriter
<1>1. CoreInv => SingleWriter
  BY DEF CoreInv
<1> QED
  BY <1>1, Core, PTL

(* A callback runs at most once, also when message ids wrap and repeat. *)
THEOREM CalledOnceHolds == Spec => []CalledOnce
<1>1. CoreInv => CalledOnce
  BY SameTable DEF CoreInv, TypeInv, RMP!IInv, CalledOnce
<1> QED
  BY <1>1, Core, PTL

(* The threads of the client use the table as RequestMessage says: what is *)
(* proved of the table holds for the client.                               *)
THEOREM UsesTable == Spec => RM!Spec
<1>1. Init => RM!Init
  BY DEF Init
<1>2. CoreInv /\ [Next]_vars => [RM!Next]_(RM!rmVars)
  BY TableNext DEF CoreInv, TypeInv, RM!rmVars, tableVars
<1> QED
  BY <1>1, <1>2, Core, PTL DEF Spec, RM!Spec

-----------------------------------------------------------------------------
(***************************************************************************)
(* No accepted package is lost                                             *)
(***************************************************************************)

(* The packages of a sequence of handlers. *)
Payloads(w) == [i \in 1..Len(w) |-> w[i].p]

(* The queued packages are those of the queued startWrite(). *)
LEMMA WritesInIs ==
    /\ \A q : WritesIn(q) = Payloads(HandlersIn(q, "startWrite"))
    /\ QueuedWrites = WritesIn(ioQ) /\ QueuedWrites' = WritesIn(ioQ')
BY DEF WritesIn, Payloads, HandlersIn, QueuedWrites

(* They are packages. *)
LEMMA WritesInType ==
    ASSUME NEW q \in Seq(Handlers)
    PROVE  WritesIn(q) \in Seq(Packages)
<1>1. PICK w \in Seq(Handlers) :
        w = HandlersIn(q, "startWrite") /\ \A i \in 1..Len(w) : w[i].h = "startWrite"
  BY HandlersType
<1>2. \A i \in 1..Len(w) : w[i].p \in Packages
  BY <1>1, HandlerFields
<1>3. Payloads(w) \in Seq(Packages)
  <2>1. Payloads(w) \in [1..Len(w) -> Packages] /\ Len(w) \in Nat
    BY <1>2 DEF Payloads
  <2> QED
    BY <2>1, FunSeq
<1> QED
  BY <1>1, <1>3, WritesInIs

(* The queued packages of a queue of two parts. *)
LEMMA WritesInConcat ==
    ASSUME NEW q \in Seq(Handlers), NEW r \in Seq(Handlers)
    PROVE  WritesIn(q \o r) = WritesIn(q) \o WritesIn(r)
<1>1. PICK a \in Seq(Handlers) : a = HandlersIn(q, "startWrite")
  BY HandlersType
<1>2. PICK b \in Seq(Handlers) : b = HandlersIn(r, "startWrite")
  BY HandlersType
<1>3. HandlersIn(q \o r, "startWrite") = a \o b
  <2>1. HandlersIn(q \o r, "startWrite") = HandlersIn(q, "startWrite") \o HandlersIn(r, "startWrite")
    BY HandlersConcat, SMTT(60)
  <2> QED
    BY <1>1, <1>2, <2>1
<1>4. Payloads(a \o b) = Payloads(a) \o Payloads(b)
  <2>1. Len(a) \in Nat /\ Len(b) \in Nat /\ Len(a \o b) = Len(a) + Len(b)
    OBVIOUS
  <2>2. /\ \A i \in 1..Len(a) : (a \o b)[i] = a[i]
        /\ \A i \in (Len(a) + 1)..(Len(a) + Len(b)) : (a \o b)[i] = b[i - Len(a)]
    BY <2>1
  <2> DEFINE f == Payloads(a)
             g == Payloads(b)
             e == Payloads(a \o b)
  <2>3. f = [i \in 1..Len(a) |-> a[i].p] /\ g = [i \in 1..Len(b) |-> b[i].p]
    BY DEF Payloads
  <2>4. e = [i \in 1..(Len(a) + Len(b)) |-> (a \o b)[i].p]
    BY <2>1 DEF Payloads
  <2> HIDE DEF f, g, e
  <2>5. Len(f) = Len(a) /\ Len(g) = Len(b)
    BY <2>1, <2>3
  <2>6. f \o g = [i \in 1..(Len(a) + Len(b)) |-> IF i <= Len(a) THEN f[i] ELSE g[i - Len(a)]]
    BY <2>1, <2>5, <2>3
  <2>7. \A i \in 1..(Len(a) + Len(b)) : (a \o b)[i].p = IF i <= Len(a) THEN f[i] ELSE g[i - Len(a)]
    BY <2>1, <2>2, <2>3
  <2>8. e = f \o g
    BY <2>4, <2>6, <2>7
  <2> QED
    BY <2>8 DEF e, f, g
<1> QED
  BY <1>1, <1>2, <1>3, <1>4, WritesInIs

(* Putting an element at the end, and moving one over. *)
LEMMA ConcatMoves ==
    \A a, b, c \in Seq(Packages) : \A x \in Packages :
        /\ Append(a \o b \o c, x) = a \o b \o (c \o <<x>>)
        /\ a \o b \o (<<x>> \o c) = a \o Append(b, x) \o c
<1> TAKE a, b, c \in Seq(Packages)
<1> TAKE x \in Packages
<1>1. <<x>> \in Seq(Packages)
  BY SeqOne
<1>2. PICK ab \in Seq(Packages) : ab = a \o b
  BY ConcatProperties
<1>3. PICK abc \in Seq(Packages) : abc = ab \o c
  BY ConcatProperties
<1>4. Append(abc, x) = ab \o (c \o <<x>>)
  <2>1. Append(abc, x) = abc \o <<x>>
    BY AppendIsConcat
  <2>2. (ab \o c) \o <<x>> = ab \o (c \o <<x>>)
    BY <1>1, ConcatAssociative, SMTT(60)
  <2> QED
    BY <1>3, <2>1, <2>2
<1>5. ab \o (<<x>> \o c) = a \o Append(b, x) \o c
  <2>1. (ab \o <<x>>) \o c = ab \o (<<x>> \o c)
    BY <1>1, ConcatAssociative, SMTT(60)
  <2>2. (a \o b) \o <<x>> = a \o (b \o <<x>>)
    BY <1>1, ConcatAssociative, SMTT(60)
  <2>3. Append(b, x) = b \o <<x>>
    BY AppendIsConcat
  <2> QED
    BY <1>2, <2>1, <2>2, <2>3
<1> QED
  BY <1>2, <1>3, <1>4, <1>5

(* Steps that queue or take no startWrite(). *)
LEMMA LostAlone ==
    ASSUME NothingLost, UNCHANGED <<posted, wire, pendingList_>>,
           HandlersIn(ioQ', "startWrite") = HandlersIn(ioQ, "startWrite")
    PROVE  NothingLost'
<1>1. QueuedWrites' = QueuedWrites
  BY WritesInIs
<1> QED
  BY <1>1 DEF NothingLost

(* Taking a handler off the queue. *)
LEMMA WritesInHead ==
    ASSUME ioQ \in Seq(Handlers), ioQ # <<>>
    PROVE  /\ Head(ioQ) \in Handlers /\ Tail(ioQ) \in Seq(Handlers)
           /\ Head(ioQ).h # "startWrite" => WritesIn(Tail(ioQ)) = WritesIn(ioQ)
           /\ Head(ioQ).h = "startWrite" => WritesIn(ioQ) = <<Head(ioQ).p>> \o WritesIn(Tail(ioQ))
<1>1. PICK x \in Handlers, t \in Seq(Handlers) : x = Head(ioQ) /\ t = Tail(ioQ) /\ ioQ = <<x>> \o t
  <2>1. Head(ioQ) \in Handlers /\ Tail(ioQ) \in Seq(Handlers) /\ ioQ = <<Head(ioQ)>> \o Tail(ioQ)
    OBVIOUS
  <2> QED
    BY <2>1, Zenon
<1>2. <<x>> \in Seq(Handlers)
  BY SeqOne
<1>3. WritesIn(ioQ) = WritesIn(<<x>>) \o WritesIn(t)
  <2>1. WritesIn(<<x>> \o t) = WritesIn(<<x>>) \o WritesIn(t)
    BY <1>2, WritesInConcat
  <2> QED
    BY <1>1, <2>1
<1>4. x.h # "startWrite" => WritesIn(<<x>>) = <<>>
  <2>1. x.h # "startWrite" => HandlersIn(<<x>>, "startWrite") = <<>>
    BY HandlersOne
  <2>2. Payloads(<<>>) = <<>>
    BY DEF Payloads
  <2> QED
    BY <2>1, <2>2, WritesInIs
<1>5. x.h = "startWrite" => WritesIn(<<x>>) = <<x.p>>
  <2>1. x.h = "startWrite" => HandlersIn(<<x>>, "startWrite") = <<x>>
    BY HandlersOne
  <2>2. Payloads(<<x>>) = <<x.p>>
    BY DEF Payloads
  <2> QED
    BY <2>1, <2>2, WritesInIs
<1>6. WritesIn(t) \in Seq(Packages)
  BY WritesInType
<1>7. <<>> \o WritesIn(t) = WritesIn(t)
  BY <1>6
<1> QED
  BY <1>1, <1>3, <1>4, <1>5, <1>7

(* postPackage() puts what it accepts at the end. *)
LEMMA PostKeepsAll ==
    ASSUME TypeOK, NothingLost, NEW p \in Packages, NEW online, NEW q \in Seq(Handlers),
           WritesIn(q) = WritesIn(ioQ), PostPackage(p, online, q), UNCHANGED <<wire, pendingList_>>
    PROVE  NothingLost'
<1>0. /\ ioQ \in Seq(Handlers) /\ wire \in Seq(Packages) /\ pendingList_ \in Seq(Packages)
      /\ WritesIn(ioQ) \in Seq(Packages)
  BY WritesInType DEF TypeOK
<1>1. CASE PackageCode(online) = "eSuccess"
  <2>1. PICK x \in Handlers : x = StartWrite(p) /\ x.h = "startWrite" /\ x.p = p
    BY Makes, HandlerKinds
  <2>2. ioQ' = q \o <<x>> /\ posted' = Append(posted, p)
    <3>1. ioQ' = Append(q, x) /\ posted' = Append(posted, p)
      BY <1>1, <2>1 DEF PostPackage
    <3> QED
      BY <3>1
  <2>3. WritesIn(ioQ') = WritesIn(ioQ) \o <<p>>
    <3>1. <<x>> \in Seq(Handlers)
      BY SeqOne
    <3>2. WritesIn(q \o <<x>>) = WritesIn(q) \o WritesIn(<<x>>)
      BY <3>1, WritesInConcat
    <3>3. HandlersIn(<<x>>, "startWrite") = <<x>>
      BY <2>1, HandlersOne
    <3>4. Payloads(<<x>>) = <<p>>
      BY <2>1 DEF Payloads
    <3> QED
      BY <2>2, <3>2, <3>3, <3>4, WritesInIs
  <2>4. PICK w \in Seq(Packages) : w = WritesIn(ioQ)
    BY <1>0
  <2>5. posted = wire \o pendingList_ \o w
    BY <2>4, WritesInIs DEF NothingLost
  <2>6. Append(wire \o pendingList_ \o w, p) = wire \o pendingList_ \o (w \o <<p>>)
    <3>1. wire \in Seq(Packages) /\ pendingList_ \in Seq(Packages) /\ w \in Seq(Packages) /\ p \in Packages
      BY <1>0, <2>4
    <3> QED
      BY <3>1, ConcatMoves, ZenonT(60)
  <2> QED
    BY <2>2, <2>3, <2>4, <2>5, <2>6, WritesInIs DEF NothingLost
<1>2. CASE PackageCode(online) # "eSuccess"
  <2>1. ioQ' = q /\ posted' = posted
    BY <1>2 DEF PostPackage
  <2> QED
    BY <2>1, WritesInIs DEF NothingLost
<1> QED
  BY <1>1, <1>2

(* So does postMessage() in a handler. *)
LEMMA PostFromIoKeepsAll ==
    ASSUME TypeOK, NothingLost, NEW k, NEW online, ioQ # <<>>, Head(ioQ).h # "startWrite",
           PostFromIo(k, online, Tail(ioQ)), UNCHANGED <<wire, pendingList_>>
    PROVE  NothingLost'
<1>0. ioQ \in Seq(Handlers) /\ kind \in Seq(Kinds) /\ Len(kind) <= MaxReq /\ MaxReq \in Nat
  BY MessageTypes
<1>1. Tail(ioQ) \in Seq(Handlers) /\ WritesIn(Tail(ioQ)) = WritesIn(ioQ)
  BY <1>0, WritesInHead
<1>2. CASE Len(kind) = MaxReq
  <2>1. ioQ' = Tail(ioQ) /\ posted' = posted
    BY <1>2 DEF PostFromIo, msgVars
  <2> QED
    BY <1>1, <2>1, WritesInIs DEF NothingLost
<1>3. CASE Len(kind) # MaxReq
  <2>1. Len(kind) + 1 \in Msgs
    BY <1>0, <1>3 DEF Msgs
  <2>2. Package(Len(kind) + 1) \in Packages
    BY <2>1, Makes
  <2>3. PostPackage(Package(Len(kind) + 1), online, Tail(ioQ))
    BY <1>3 DEF PostFromIo
  <2> QED
    BY <1>1, <2>2, <2>3, PostKeepsAll
<1> QED
  BY <1>2, <1>3

(* The steps that move packages. *)
LEMMA MoveSteps ==
    ASSUME TypeOK, SingleWriter, NothingLost
    PROVE  /\ RunStartWrite => NothingLost'
           /\ RunWrittenRest => NothingLost'
<1>0. /\ ioQ \in Seq(Handlers) /\ wire \in Seq(Packages) /\ pendingList_ \in Seq(Packages)
      /\ posted = wire \o pendingList_ \o WritesIn(ioQ)
  BY WritesInIs DEF TypeOK, NothingLost
<1>1. ASSUME RunStartWrite PROVE NothingLost'
  <2>1. ioQ # <<>> /\ Head(ioQ).h = "startWrite" /\ UNCHANGED <<wire, posted>>
    BY <1>1 DEF RunStartWrite, Runs, AtHead, msgVars
  <2>2. PICK p \in Packages, t \in Seq(Packages) :
          p = Head(ioQ).p /\ t = WritesIn(Tail(ioQ)) /\ WritesIn(ioQ) = <<p>> \o t
    <3>1. /\ Head(ioQ) \in Handlers /\ Tail(ioQ) \in Seq(Handlers)
          /\ WritesIn(ioQ) = <<Head(ioQ).p>> \o WritesIn(Tail(ioQ))
      BY <1>0, <2>1, WritesInHead
    <3>2. Head(ioQ).p \in Packages
      BY <2>1, <3>1, HandlerFields
    <3>3. WritesIn(Tail(ioQ)) \in Seq(Packages)
      BY <3>1, WritesInType
    <3> QED
      BY <3>1, <3>2, <3>3, Zenon
  <2>3. pendingList_' = Append(pendingList_, p)
    BY <1>1, <2>2 DEF RunStartWrite, Enqueue
  <2>4. WritesIn(ioQ') = t
    <3>1. HandlersIn(ioQ', "startWrite") = HandlersIn(Tail(ioQ), "startWrite")
      <4>1. Tail(ioQ) \in Seq(Handlers)
        BY <1>0, <2>1
      <4>2. ioQ' = Tail(ioQ) \/ ioQ' = Append(Tail(ioQ), Written(Head(pendingList_'), FALSE))
        BY <1>1 DEF RunStartWrite, WriteFront
      <4>3. PICK x \in Handlers : x = Written(Head(pendingList_'), FALSE) /\ x.h = "written"
        <5>1. pendingList_' \in Seq(Packages) /\ pendingList_' # <<>>
          BY <1>0, <2>3, SeqFacts
        <5>2. Head(pendingList_') \in Packages
          BY <5>1
        <5> QED
          BY <5>2, MadeHandlers
      <4>4. PICK u \in Seq(Handlers) : u = Tail(ioQ)
        BY <4>1
      <4>5. Append(u, x) = u \o <<x>> /\ <<x>> \in Seq(Handlers)
        BY SeqOne
      <4>6. HandlersIn(u \o <<x>>, "startWrite") = HandlersIn(u, "startWrite") \o HandlersIn(<<x>>, "startWrite")
        BY <4>5, HandlersConcat
      <4>7. HandlersIn(<<x>>, "startWrite") = <<>>
        BY <4>3, HandlersOne
      <4>8. HandlersIn(u, "startWrite") \o <<>> = HandlersIn(u, "startWrite")
        <5>1. HandlersIn(u, "startWrite") \in Seq(Handlers)
          BY HandlersType
        <5> QED
          BY <5>1
      <4> QED
        BY <4>2, <4>3, <4>4, <4>5, <4>6, <4>7, <4>8
    <3> QED
      BY <2>2, <3>1, WritesInIs
  <2>5. wire \o pendingList_ \o (<<p>> \o t) = wire \o Append(pendingList_, p) \o t
    <3>1. wire \in Seq(Packages) /\ pendingList_ \in Seq(Packages) /\ t \in Seq(Packages) /\ p \in Packages
      BY <1>0, <2>2
    <3> QED
      BY <3>1, ConcatMoves, ZenonT(60)
  <2> QED
    BY <1>0, <2>1, <2>2, <2>3, <2>4, <2>5, WritesInIs DEF NothingLost
<1>2. ASSUME RunWrittenRest PROVE NothingLost'
  <2>1. AtHead("written") /\ ioQ # <<>> /\ Head(ioQ).h = "written" /\ posted' = posted
    BY <1>2 DEF RunWrittenRest, AtHead, msgVars
  <2>2. pendingList_ # <<>>
    BY <2>1, FrontIsWritten
  <2>3. HandlersIn(ioQ', "startWrite") = HandlersIn(ioQ, "startWrite")
    <3>1. QueueStep({"written", "doClose"}, {"written"})
      BY <1>2, IoQueue
    <3>2. "startWrite" \notin {"written", "doClose"} /\ "startWrite" \notin {"written"}
      OBVIOUS
    <3> QED
      BY <1>0, <3>1, <3>2, QueueKeeps
  <2>4. WritesIn(ioQ') = WritesIn(ioQ)
    BY <2>3, WritesInIs
  <2>5. PICK w \in Seq(Packages) : w = WritesIn(ioQ)
    BY <1>0, WritesInType
  <2>6. \/ wire' = Append(wire, Head(pendingList_)) /\ pendingList_' = Tail(pendingList_)
        \/ wire' = wire /\ pendingList_' = pendingList_
    BY <1>2 DEF RunWrittenRest
  <2>7. Append(wire, Head(pendingList_)) \o Tail(pendingList_) = wire \o pendingList_
    <3>1. PICK h \in Packages, t \in Seq(Packages) :
            h = Head(pendingList_) /\ t = Tail(pendingList_) /\ pendingList_ = <<h>> \o t
      <4>1. /\ Head(pendingList_) \in Packages /\ Tail(pendingList_) \in Seq(Packages)
            /\ pendingList_ = <<Head(pendingList_)>> \o Tail(pendingList_)
        BY <1>0, <2>2
      <4> QED
        BY <4>1, Zenon
    <3>2. Append(wire, h) \o t = wire \o (<<h>> \o t)
      BY <1>0
    <3> QED
      BY <3>1, <3>2
  <2>8. posted' = wire' \o pendingList_' \o w
    BY <1>0, <2>1, <2>5, <2>6, <2>7
  <2> QED
    BY <2>4, <2>5, <2>8, WritesInIs DEF NothingLost
<1> QED
  BY <1>1, <1>2

(* Every step keeps the accepted packages. *)
LEMMA LostStep ==
    ASSUME TypeOK, SingleWriter, NothingLost, Next \/ UNCHANGED vars
    PROVE  NothingLost'
<1>0. ioQ \in Seq(Handlers)
  BY DEF TypeOK
<1>1. UNCHANGED <<posted, wire, pendingList_>> /\ HandlersIn(ioQ', "startWrite") = HandlersIn(ioQ, "startWrite")
          => NothingLost'
  BY LostAlone
<1>2. \A H, G : "startWrite" \notin H /\ "startWrite" \notin G /\ QueueStep(H, G)
                => HandlersIn(ioQ', "startWrite") = HandlersIn(ioQ, "startWrite")
  BY <1>0, QueueKeeps
<1>3. UNCHANGED ioQ => HandlersIn(ioQ', "startWrite") = HandlersIn(ioQ, "startWrite")
  OBVIOUS
<1>4. "startWrite" \notin AbortedKinds
  BY DEF AbortedKinds
<1>5. ASSUME AppStep, ~(\E n \in Msgs : PostMade(n)) PROVE NothingLost'
  <2>1. UNCHANGED <<posted, wire, pendingList_>>
    BY <1>5 DEF AppStep, Start, StopIo, StopRest, PostMessage, PublishMessage, writeVars, msgVars
  <2>2. "startWrite" \notin {"doClose"} /\ "startWrite" \notin {}
    OBVIOUS
  <2>3. HandlersIn(ioQ', "startWrite") = HandlersIn(ioQ, "startWrite")
    BY <1>2, <1>3, <1>4, <1>5, <2>2, AppQueue, QueueAlone DEF AppStep
  <2> QED
    BY <1>1, <2>1, <2>3
<1>6. ASSUME NEW n \in Msgs, PostMade(n) PROVE NothingLost'
  <2>1. PostPackage(Package(n), isOnline_, ioQ) /\ UNCHANGED <<wire, pendingList_>>
    BY <1>6 DEF PostMade, writeVars
  <2>2. Package(n) \in Packages
    BY Makes
  <2> QED
    BY <1>0, <2>1, <2>2, PostKeepsAll
<1>7. ASSUME ReplyDeliver PROVE NothingLost'
  <2>1. PICK i \in 1..Len(tasks) : /\ PostPackage(DeliverAnswer(tasks[i].id), isOnline_, ioQ)
                                   /\ UNCHANGED <<wire, pendingList_>>
    BY <1>7 DEF ReplyDeliver, writeVars
  <2>2. tasks[i] \in Inputs
    BY <2>1 DEF TypeOK
  <2>3. DeliverAnswer(tasks[i].id) \in Packages
    BY <2>2, InputFields, Makes
  <2> QED
    BY <1>0, <2>1, <2>3, PostKeepsAll
<1>8. ASSUME RunConnected PROVE NothingLost'
  <2>1. ioQ # <<>> /\ Head(ioQ).h = "connected" /\ UNCHANGED <<wire, pendingList_>>
    BY <1>8 DEF RunConnected, AtHead, writeVars
  <2>2. CASE PostFromIo("sub", isOnline_, Tail(ioQ))
    BY <2>1, <2>2, PostFromIoKeepsAll
  <2>3. CASE ioQ' = Tail(ioQ) /\ UNCHANGED msgVars
    <3>1. WritesIn(Tail(ioQ)) = WritesIn(ioQ)
      BY <1>0, <2>1, WritesInHead
    <3> QED
      BY <2>1, <2>3, <3>1, WritesInIs DEF NothingLost, msgVars
  <2> QED
    BY <1>8, <2>2, <2>3 DEF RunConnected, StartSubscribe
<1>9. ASSUME RunDoHeartbeat PROVE NothingLost'
  <2>1. /\ ioQ # <<>> /\ Head(ioQ).h = "doHeartbeat" /\ UNCHANGED <<wire, pendingList_>>
        /\ PostFromIo("heartbeat", isOnline_, Tail(ioQ))
    BY <1>9 DEF RunDoHeartbeat, Runs, AtHead, writeVars
  <2> QED
    BY <2>1, PostFromIoKeepsAll
<1>10. ASSUME IoStep, ~RunStartWrite, ~RunWrittenRest, ~RunConnected, ~RunDoHeartbeat PROVE NothingLost'
  <2>1. UNCHANGED <<posted, wire, pendingList_>>
    BY <1>10 DEF IoStep, RunWrittenFind, RunDoRead, RunDoConnect, RunDoConnectFailed, RunDoClose, writeVars, msgVars
  <2>2. /\ "startWrite" \notin {"doRead", "doClose"} /\ "startWrite" \notin {"doRead"}
        /\ "startWrite" \notin {"connected"} /\ "startWrite" \notin {"doConnect"} /\ "startWrite" \notin {"doClose"}
    OBVIOUS
  <2>3. HandlersIn(ioQ', "startWrite") = HandlersIn(ioQ, "startWrite")
    BY <1>2, <1>3, <1>4, <1>10, <2>2, IoQueue, QueueAlone DEF IoStep
  <2> QED
    BY <1>1, <2>1, <2>3
<1>11. ASSUME AsioStep PROVE NothingLost'
  <2>1. UNCHANGED <<posted, wire, pendingList_>>
    BY <1>11 DEF AsioStep, ConnectCompletes, WriteCompletes, ReadCompletes, ReadFails, HeartbeatFires,
                 IoRunsOut, TimerFires, writeVars, msgVars
  <2>2. /\ "startWrite" \notin {"doRead"} /\ "startWrite" \notin {"doConnect"} /\ "startWrite" \notin {"doHeartbeat"}
        /\ "startWrite" \notin {"written"} /\ "startWrite" \notin {}
    OBVIOUS
  <2>3. HandlersIn(ioQ', "startWrite") = HandlersIn(ioQ, "startWrite")
    BY <1>2, <1>3, <1>11, <2>2, AsioQueue, QueueAlone DEF AsioStep
  <2> QED
    BY <1>1, <2>1, <2>3
<1>12. ASSUME ServerStep \/ (\E id \in Ids : RunOnTimeout(id)) \/ DoResponse \/ UNCHANGED vars
       PROVE  NothingLost'
  <2>1. UNCHANGED <<posted, wire, pendingList_>>
    BY <1>12 DEF ServerStep, ServerPushes, ConnectionLost, ServerReplies, RunOnTimeout, DoResponse, vars,
                 writeVars, msgVars
  <2> QED
    BY <1>1, <1>3, <1>12, <2>1, QueueAlone
<1> QED
  BY <1>5, <1>6, <1>7, <1>8, <1>9, <1>10, <1>11, <1>12, MoveSteps DEF Next

(* Every package postPackage() accepted is written, pending or queued,     *)
(* once and in the order it was accepted, whatever fails and reconnects.   *)
THEOREM NothingLostHolds == Spec => []NothingLost
<1>1. Init => NothingLost
  <2> SUFFICES ASSUME Init PROVE NothingLost
    OBVIOUS
  <2>1. HandlersIn(ioQ, "startWrite") = <<>>
    <3>1. ioQ \in Seq(Handlers) /\ \A i \in 1..Len(ioQ) : ioQ[i].h # "startWrite"
      BY DEF Init
    <3> QED
      BY <3>1, HandlersNone
  <2>2. QueuedWrites = <<>>
    <3>1. Payloads(<<>>) = <<>>
      BY DEF Payloads
    <3> QED
      BY <2>1, <3>1, WritesInIs
  <2> QED
    BY <2>2 DEF Init, NothingLost
<1>2. CoreInv /\ NothingLost /\ [Next]_vars => NothingLost'
  <2> SUFFICES ASSUME CoreInv, NothingLost, Next \/ UNCHANGED vars PROVE NothingLost'
    OBVIOUS
  <2> QED
    BY LostStep DEF CoreInv, TypeInv
<1> QED
  BY <1>1, <1>2, Core, PTL DEF Spec

-----------------------------------------------------------------------------
(***************************************************************************)
(* Answers belong to requests                                              *)
(***************************************************************************)

(* Message n + 1 is made, of kind k; all but published ones are put into   *)
(* the table under their id.                                               *)
MakesNext(k) ==
    /\ Len(kind) < MaxReq /\ kind' = Append(kind, k)
    /\ k = "pub" => UNCHANGED idOf
    /\ k # "pub" => /\ idOf[Len(kind) + 1] = NoId
                    /\ idOf' = [idOf EXCEPT ![Len(kind) + 1] = MsgId(Len(kind) + 1)]

(* A package is accepted, about a message that was made. *)
AcceptsPackage == \E p \in Packages : p.n <= Len(kind') /\ posted' = Append(posted, p)

(* postMessage() in a handler makes a message and may accept it. *)
LEMMA PostFromIoMakes ==
    ASSUME TypeOK, NEW k \in Kinds \ {"pub"}, NEW online, NEW q, PostFromIo(k, online, q)
    PROVE  \/ UNCHANGED <<kind, idOf, posted>>
           \/ MakesNext(k) /\ (UNCHANGED posted \/ AcceptsPackage)
<1>0. kind \in Seq(Kinds) /\ Len(kind) <= MaxReq /\ MaxReq \in Nat /\ Len(kind) \in Nat
  BY MessageTypes
<1>1. CASE Len(kind) = MaxReq
  BY <1>1 DEF PostFromIo, msgVars, tableVars
<1>2. CASE Len(kind) # MaxReq
  <2>1. Len(kind) + 1 \in Msgs /\ Len(kind) < MaxReq
    BY <1>0, <1>2 DEF Msgs
  <2>2. /\ kind' = Append(kind, k)
        /\ RM!Put(Len(kind) + 1, MsgId(Len(kind) + 1))
        /\ PostPackage(Package(Len(kind) + 1), online, q)
    BY <1>2 DEF PostFromIo
  <2>3. MakesNext(k)
    BY <2>1, <2>2 DEF MakesNext, RM!Put
  <2>4. Len(kind') = Len(kind) + 1
    BY <1>0, <2>2
  <2>5. UNCHANGED posted \/ AcceptsPackage
    <3>1. PICK p \in Packages : p = Package(Len(kind) + 1) /\ p.n = Len(kind) + 1
      BY <2>1, Makes DEF Package
    <3>2. posted' = posted \/ posted' = Append(posted, p)
      BY <2>2, <3>1 DEF PostPackage
    <3>3. p.n <= Len(kind')
      BY <1>0, <2>4, <3>1
    <3> QED
      BY <3>1, <3>2, <3>3 DEF AcceptsPackage
  <2> QED
    BY <2>3, <2>5
<1> QED
  BY <1>1, <1>2

(* What a step may do to the messages, the ids of the table and the        *)
(* accepted packages.                                                      *)
LEMMA MakeStep ==
    ASSUME TypeOK, Next \/ UNCHANGED vars
    PROVE  /\ UNCHANGED <<kind, idOf>> \/ \E k \in Kinds : MakesNext(k)
           /\ UNCHANGED posted \/ AcceptsPackage
<1> DEFINE Goal == /\ UNCHANGED <<kind, idOf>> \/ \E k \in Kinds : MakesNext(k)
                   /\ UNCHANGED posted \/ AcceptsPackage
<1>0. /\ kind \in Seq(Kinds) /\ Len(kind) <= MaxReq /\ MaxReq \in Nat /\ Len(kind) \in Nat
      /\ "req" \in Kinds /\ "pub" \in Kinds /\ "sub" \in Kinds \ {"pub"} /\ "heartbeat" \in Kinds \ {"pub"}
  BY MessageTypes DEF Kinds
<1>1. UNCHANGED <<kind, idOf, posted>> => Goal
  OBVIOUS
<1>2. ASSUME PostMessage PROVE Goal
  <2>1. MakesNext("req") /\ UNCHANGED posted
    BY <1>2 DEF PostMessage, MakesNext, RM!Put
  <2> QED
    BY <1>0, <2>1
<1>3. ASSUME PublishMessage PROVE Goal
  <2>1. MakesNext("pub") /\ UNCHANGED posted
    BY <1>3 DEF PublishMessage, MakesNext, tableVars
  <2> QED
    BY <1>0, <2>1
<1>4. ASSUME NEW n \in Msgs, PostMade(n) PROVE Goal
  <2>1. UNCHANGED <<kind, idOf>> /\ n <= Len(kind) /\ PostPackage(Package(n), isOnline_, ioQ)
    BY <1>4 DEF PostMade, tableVars
  <2>2. PICK p \in Packages : p = Package(n) /\ p.n = n
    BY Makes DEF Package
  <2>3. posted' = posted \/ posted' = Append(posted, p)
    BY <2>1, <2>2 DEF PostPackage
  <2> QED
    BY <2>1, <2>2, <2>3 DEF AcceptsPackage
<1>5. ASSUME ReplyDeliver PROVE Goal
  <2>1. PICK i \in 1..Len(tasks) : /\ PostPackage(DeliverAnswer(tasks[i].id), isOnline_, ioQ)
                                   /\ UNCHANGED <<kind, idOf>>
    BY <1>5 DEF ReplyDeliver, tableVars
  <2>2. tasks[i] \in Inputs
    BY <2>1 DEF TypeOK
  <2>3. PICK p \in Packages : p = DeliverAnswer(tasks[i].id) /\ p.n = 0
    BY <2>2, InputFields, Makes DEF DeliverAnswer
  <2>4. posted' = posted \/ posted' = Append(posted, p)
    BY <2>1, <2>3 DEF PostPackage
  <2>5. p.n <= Len(kind')
    BY <1>0, <2>1, <2>3
  <2> QED
    BY <2>1, <2>4, <2>5 DEF AcceptsPackage
<1>6. ASSUME RunConnected PROVE Goal
  <2>1. PostFromIo("sub", isOnline_, Tail(ioQ)) \/ UNCHANGED <<kind, idOf, posted>>
    BY <1>6 DEF RunConnected, StartSubscribe, msgVars, tableVars
  <2> QED
    BY <1>0, <2>1, PostFromIoMakes
<1>7. ASSUME RunDoHeartbeat PROVE Goal
  <2>1. PostFromIo("heartbeat", isOnline_, Tail(ioQ))
    BY <1>7 DEF RunDoHeartbeat
  <2> QED
    BY <1>0, <2>1, PostFromIoMakes
<1>8. ASSUME Start \/ StopIo \/ StopRest PROVE UNCHANGED <<kind, idOf, posted>>
  BY <1>8 DEF Start, StopIo, StopRest, msgVars, tableVars
<1>9. ASSUME RunStartWrite \/ RunDoRead \/ RunDoConnect \/ RunDoConnectFailed \/ RunDoClose
      PROVE  UNCHANGED <<kind, idOf, posted>>
  BY <1>9 DEF RunStartWrite, RunDoRead, RunDoConnect, RunDoConnectFailed, RunDoClose, msgVars, tableVars
<1>10. ASSUME RunWrittenFind \/ RunWrittenRest PROVE UNCHANGED <<kind, idOf, posted>>
  BY <1>10 DEF RunWrittenFind, RunWrittenRest, TimerRest, msgVars, tableVars, RM!StartTimerFind, RM!StartTimerWait
<1>11. ASSUME AsioStep \/ ServerStep PROVE UNCHANGED <<kind, idOf, posted>>
  BY <1>11 DEF AsioStep, ConnectCompletes, WriteCompletes, ReadCompletes, ReadFails, HeartbeatFires, IoRunsOut,
               TimerFires, RM!TimerFires, ServerStep, ServerPushes, ConnectionLost, ServerReplies, msgVars, tableVars
<1>12. ASSUME (\E id \in Ids : RunOnTimeout(id)) \/ DoResponse \/ UNCHANGED vars
       PROVE  UNCHANGED <<kind, idOf, posted>>
  BY <1>12 DEF RunOnTimeout, DoResponse, RM!OnTimeout, RM!OnResponse, vars, msgVars, tableVars
<1> HIDE DEF Goal
<1>13. Goal
  BY <1>1, <1>2, <1>3, <1>4, <1>5, <1>6, <1>7, <1>8, <1>9, <1>10, <1>11, <1>12 DEF Next, AppStep, IoStep
<1> QED
  BY <1>13 DEF Goal

(* A message that was put stays put; what is made is put, unless published. *)
LEMMA PutStep ==
    ASSUME TypeInv, MadeInv, Next \/ UNCHANGED vars
    PROVE  /\ \A n \in Msgs : idOf[n] # NoId => idOf'[n] = idOf[n]
           /\ \A n \in Msgs : Put(n) => Put(n)'
           /\ \A n \in Msgs : idOf'[n] # NoId => Put(n)'
           /\ \A n \in 1..Len(kind') : kind'[n] # "pub" => Put(n)'
           /\ Len(kind) <= Len(kind')
<1>0. /\ TypeOK /\ kind \in Seq(Kinds) /\ Len(kind) <= MaxReq /\ MaxReq \in Nat /\ Len(kind) \in Nat
      /\ idOf \in [Msgs -> Ids \cup {NoId}]
  <2>1. TypeOK
    BY DEF TypeInv
  <2>2. kind \in Seq(Kinds) /\ Len(kind) <= MaxReq /\ MaxReq \in Nat /\ Len(kind) \in Nat
    BY <2>1, MessageTypes
  <2>3. idOf \in [Msgs -> Ids \cup {NoId}]
    BY <2>1 DEF TypeOK, RM!TypeOK
  <2> QED
    BY <2>1, <2>2, <2>3
<1>1. \A n \in Msgs : Put(n) => idOf[n] # NoId
  BY Makes, TableAssumption DEF Put
<1>2. UNCHANGED <<kind, idOf>> \/ \E k \in Kinds : MakesNext(k)
  BY <1>0, MakeStep
<1>3. CASE UNCHANGED <<kind, idOf>>
  <2>1. \A n : Put(n)' <=> Put(n)
    BY <1>3 DEF Put
  <2> QED
    BY <1>0, <1>3, <2>1 DEF MadeInv
<1>4. ASSUME NEW k \in Kinds, MakesNext(k)
      PROVE  /\ \A n \in Msgs : idOf[n] # NoId => idOf'[n] = idOf[n]
             /\ \A n \in Msgs : Put(n) => Put(n)'
             /\ \A n \in Msgs : idOf'[n] # NoId => Put(n)'
             /\ \A n \in 1..Len(kind') : kind'[n] # "pub" => Put(n)'
             /\ Len(kind) <= Len(kind')
  <2>1. /\ Len(kind) + 1 \in Msgs /\ kind' = Append(kind, k) /\ Len(kind') = Len(kind) + 1
        /\ kind'[Len(kind) + 1] = k /\ \A n \in 1..Len(kind) : kind'[n] = kind[n]
    BY <1>0, <1>4 DEF MakesNext, Msgs
  <2>2. CASE k = "pub"
    <3>1. idOf' = idOf
      BY <1>4, <2>2 DEF MakesNext
    <3>2. \A n : Put(n)' <=> Put(n)
      BY <3>1 DEF Put
    <3>3. \A n \in 1..Len(kind') : n \in 1..Len(kind) \/ n = Len(kind) + 1
      BY <1>0, <2>1
    <3> QED
      BY <1>0, <2>1, <2>2, <3>1, <3>2, <3>3 DEF MadeInv
  <2>3. CASE k # "pub"
    <3>0. PICK c \in Msgs : c = Len(kind) + 1
      BY <2>1
    <3>1. idOf[c] = NoId /\ idOf' = [idOf EXCEPT ![c] = MsgId(c)]
      BY <1>4, <2>3, <3>0 DEF MakesNext
    <3>2. /\ idOf'[c] = MsgId(c)
          /\ \A n \in Msgs : n # c => idOf'[n] = idOf[n]
      BY <1>0, <3>1
    <3>3. Put(c)' /\ \A n \in Msgs : n # c => (Put(n)' <=> Put(n))
      BY <3>2 DEF Put
    <3>4. \A n \in 1..Len(kind') : (n \in 1..Len(kind) /\ n \in Msgs /\ n # c) \/ n = c
      BY <1>0, <2>1, <3>0 DEF Msgs
    <3>5. \A n \in Msgs : idOf[n] # NoId => n # c
      BY <3>1
    <3>6. \A n \in Msgs : Put(n) => Put(n)'
      BY <1>1, <3>3, <3>5
    <3>7. \A n \in Msgs : idOf'[n] # NoId => Put(n)'
      BY <3>2, <3>3 DEF MadeInv
    <3>8. \A n \in 1..Len(kind') : kind'[n] # "pub" => Put(n)'
      BY <2>1, <3>3, <3>4 DEF MadeInv
    <3> QED
      BY <1>0, <2>1, <3>2, <3>5, <3>6, <3>7, <3>8
  <2> QED
    BY <2>2, <2>3
<1> QED
  BY <1>2, <1>3, <1>4

(* The inputs that are pushes, or answers to a message that was put. *)
PutInputs == {m \in Inputs : m.n # 0 => Put(m.n)}

(* AnswersPut is about what a queue holds. *)
LEMMA AnswersPutIs ==
    ASSUME NEW q \in Seq(Inputs)
    PROVE  AnswersPut(q) <=> q \in Seq(PutInputs)
<1>1. ASSUME AnswersPut(q) PROVE q \in Seq(PutInputs)
  <2>1. \A i \in 1..Len(q) : q[i] \in PutInputs
    BY <1>1 DEF AnswersPut, PutInputs
  <2> QED
    BY <2>1
<1>2. ASSUME q \in Seq(PutInputs) PROVE AnswersPut(q)
  <2>1. \A i \in 1..Len(q) : q[i] \in PutInputs
    BY <1>2
  <2> QED
    BY <2>1 DEF AnswersPut, PutInputs
<1> QED
  BY <1>1, <1>2

(* How a step moves what the server sends, for a set S of inputs that the  *)
(* answers to come from peer belong to, and what mixed-up bytes can say.   *)
LEMMA InputsMove ==
    ASSUME TypeInv, NEW S \in SUBSET Inputs, Next \/ UNCHANGED vars,
           inbound \in Seq(S), tempBuf_ \in Seq(S), readBuffer_ \in Seq(S), respQ \in Seq(S),
           \A n \in peer : Answer(n) \in S,
           Pushes \subseteq S, Mixed \subseteq S \/ ~mixedUp
    PROVE  /\ inbound' \in Seq(S) /\ tempBuf_' \in Seq(S) /\ readBuffer_' \in Seq(S)
           /\ respQ' \in Seq(S)
<1>0. /\ TypeOK /\ ioQ \in Seq(Handlers) /\ <<>> \in Seq(S)
  BY DEF TypeInv, TypeOK
<1>1. CASE UNCHANGED <<inbound, tempBuf_, readBuffer_, respQ>>
  BY <1>1
<1>2. CASE AppStep \/ ReplyDeliver
  <2>1. UNCHANGED <<tempBuf_, readBuffer_, respQ>> /\ (inbound' = inbound \/ inbound' = <<>>)
    BY <1>2 DEF AppStep, Start, Connect, StopIo, StopRest, PostMessage, PublishMessage, PostMade, ReplyDeliver,
                readVars, netVars
  <2> QED
    BY <1>0, <2>1
<1>3. CASE IoStep /\ ~RunDoRead
  <2>1. UNCHANGED <<tempBuf_, readBuffer_, respQ>> /\ (inbound' = inbound \/ inbound' = <<>>)
    BY <1>3 DEF IoStep, RunStartWrite, RunWrittenFind, RunWrittenRest, RunDoConnect, RunConnected,
                RunDoConnectFailed, RunDoClose, RunDoHeartbeat, Connect, CloseSocket, readVars, netVars
  <2> QED
    BY <1>0, <2>1
<1>4. CASE RunDoRead
  <2>1. \/ DecodeInStep \/ (DecodeMixedUp /\ Mixed \subseteq S)
        \/ UNCHANGED <<readBuffer_, respQ>>
    BY <1>4 DEF RunDoRead
  <2>2. respQ' \in Seq(S) /\ readBuffer_' \in Seq(S)
    <3>1. CASE DecodeInStep \/ (DecodeMixedUp /\ Mixed \subseteq S)
      BY <3>1, DecodeMoves
    <3>2. CASE UNCHANGED <<readBuffer_, respQ>>
      BY <3>2
    <3> QED
      BY <2>1, <3>1, <3>2
  <2>3. (tempBuf_' = tempBuf_ \/ tempBuf_' = <<>>) /\ inbound' = inbound
    BY <1>4 DEF RunDoRead, netVars
  <2> QED
    BY <1>0, <2>2, <2>3
<1>5. CASE ReadCompletes
  <2>1. tempBuf_' \in Seq(S) /\ inbound' \in Seq(S)
    BY <1>5, ReadMoves
  <2>2. UNCHANGED <<readBuffer_, respQ>>
    BY <1>5 DEF ReadCompletes
  <2> QED
    BY <2>1, <2>2
<1>6. CASE AsioStep /\ ~ReadCompletes
  <2>1. UNCHANGED <<inbound, tempBuf_, readBuffer_, respQ>>
    BY <1>6 DEF AsioStep, ConnectCompletes, WriteCompletes, ReadFails, HeartbeatFires, IoRunsOut, TimerFires,
                readVars, netVars
  <2> QED
    BY <1>1, <2>1
<1>7. CASE ServerStep
  <2>1. UNCHANGED <<tempBuf_, readBuffer_, respQ>>
    BY <1>7 DEF ServerStep, ServerPushes, ConnectionLost, ServerReplies, readVars
  <2>2. inbound' = <<>> \/ \E m \in S : inbound' = Append(inbound, m)
    BY <1>7 DEF ServerStep, ServerPushes, ConnectionLost, ServerReplies
  <2>3. inbound' \in Seq(S)
    BY <2>2, SeqFacts, Zenon
  <2> QED
    BY <2>1, <2>3
<1>8. CASE (\E id \in Ids : RunOnTimeout(id)) \/ UNCHANGED vars
  <2>1. UNCHANGED <<inbound, tempBuf_, readBuffer_, respQ>>
    BY <1>8 DEF RunOnTimeout, vars, readVars, netVars
  <2> QED
    BY <1>1, <2>1
<1>9. CASE DoResponse
  <2>1. respQ # <<>> /\ respQ' = Tail(respQ) /\ UNCHANGED <<inbound, tempBuf_, readBuffer_>>
    BY <1>9 DEF DoResponse, readVars, netVars
  <2> QED
    BY <2>1
<1> QED
  BY <1>2, <1>3, <1>4, <1>5, <1>6, <1>7, <1>8, <1>9 DEF Next

(* The package at the front of the list was accepted. *)
LEMMA FrontIsPosted ==
    ASSUME TypeOK, NothingLost, pendingList_ # <<>>
    PROVE  \E i \in 1..Len(posted) : posted[i] = Head(pendingList_)
<1>1. /\ wire \in Seq(Packages) /\ pendingList_ \in Seq(Packages)
      /\ ioQ \in Seq(Handlers)
  BY DEF TypeOK
<1>2. PICK w \in Seq(Packages) : w = QueuedWrites
  BY <1>1, WritesInType, WritesInIs
<1>3. PICK a \in Seq(Packages) : a = wire \o pendingList_ /\ a[Len(wire) + 1] = Head(pendingList_)
                                 /\ Len(wire) + 1 \in 1..Len(a)
  <2>1. /\ wire \o pendingList_ \in Seq(Packages) /\ (wire \o pendingList_)[Len(wire) + 1] = Head(pendingList_)
        /\ Len(wire) + 1 \in 1..Len(wire \o pendingList_)
    BY <1>1
  <2> QED
    BY <2>1, Zenon
<1>4. posted = a \o w
  BY <1>2, <1>3 DEF NothingLost
<1>5. posted[Len(wire) + 1] = a[Len(wire) + 1] /\ Len(wire) + 1 \in 1..Len(posted)
  BY <1>3, <1>4
<1> QED
  BY <1>3, <1>5

(* The server gets messages that were put: what is written was accepted,   *)
(* and so was made.                                                        *)
LEMMA PeerStep ==
    ASSUME TypeInv, SingleWriter, NothingLost, MadeInv, Next \/ UNCHANGED vars
    PROVE  /\ \A n \in peer' : n \in peer \/ \E i \in 1..Len(posted) : posted[i].n = n /\ n # 0
           /\ \A n \in peer' : n \in Msgs /\ Put(n)
<1>0. /\ TypeOK /\ peer \subseteq Msgs /\ writes \in Seq(Packages) /\ Len(kind) \in Nat
  BY DEF TypeInv, TypeOK
<1>1. ASSUME ~WriteCompletes PROVE peer' \subseteq peer
  <2>1. AppStep \/ ReplyDeliver => peer' \subseteq peer
    BY DEF AppStep, Start, Connect, StopIo, StopRest, PostMessage, PublishMessage, PostMade, ReplyDeliver, netVars
  <2>2. IoStep => peer' \subseteq peer
    BY DEF IoStep, RunStartWrite, RunWrittenFind, RunWrittenRest, RunDoRead, RunDoConnect, RunConnected,
           RunDoConnectFailed, RunDoClose, RunDoHeartbeat, Connect, CloseSocket, netVars
  <2>3. AsioStep => peer' \subseteq peer
    BY <1>1 DEF AsioStep, ConnectCompletes, ReadCompletes, ReadFails, HeartbeatFires, IoRunsOut, TimerFires, netVars
  <2>4. ServerStep \/ (\E id \in Ids : RunOnTimeout(id)) \/ DoResponse \/ UNCHANGED vars => peer' \subseteq peer
    BY DEF ServerStep, ServerPushes, ConnectionLost, ServerReplies, RunOnTimeout, DoResponse, vars, netVars
  <2> QED
    BY <2>1, <2>2, <2>3, <2>4 DEF Next
<1>2. ASSUME WriteCompletes
      PROVE  \/ peer' = peer
             \/ /\ peer' = peer \cup {Head(writes).n} /\ Head(writes).n \in Msgs
                /\ \E i \in 1..Len(posted) : posted[i].n = Head(writes).n /\ Head(writes).n # 0
                /\ Put(Head(writes).n)
  <2>1. writes # <<>> /\ Head(writes) = writes[1] /\ 1 \in 1..Len(writes) /\ Head(writes) \in Packages
    BY <1>0, <1>2 DEF WriteCompletes
  <2>2. pendingList_ # <<>> /\ Head(writes) = Head(pendingList_)
    BY <2>1 DEF SingleWriter
  <2>3. PICK i \in 1..Len(posted) : posted[i] = Head(writes)
    BY <1>0, <2>2, FrontIsPosted
  <2>4. peer' = peer \/ (/\ peer' = peer \cup {Head(writes).n} /\ Head(writes).n # 0
                         /\ kind[Head(writes).n] # "pub")
    BY <1>2 DEF WriteCompletes
  <2>5. ASSUME Head(writes).n # 0, kind[Head(writes).n] # "pub" PROVE Head(writes).n \in Msgs /\ Put(Head(writes).n)
    <3>1. Head(writes).n \in Msgs
      BY <2>1, <2>5, PackageFields
    <3>2. Head(writes).n <= Len(kind)
      BY <2>3 DEF MadeInv
    <3>3. Head(writes).n \in 1..Len(kind)
      BY <1>0, <3>1, <3>2 DEF Msgs
    <3> QED
      BY <2>5, <3>1, <3>3 DEF MadeInv
  <2> QED
    BY <2>3, <2>4, <2>5
<1> QED
  BY <1>0, <1>1, <1>2 DEF MadeInv

(* Every step keeps the answers to messages that were put. *)
LEMMA MadeStep ==
    ASSUME TypeInv, SingleWriter, NothingLost, MadeInv, Next \/ UNCHANGED vars
    PROVE  MadeInv'
<1>0. /\ TypeOK /\ peer \subseteq Msgs /\ posted \in Seq(Packages) /\ kind \in Seq(Kinds) /\ Len(kind) \in Nat
      /\ inbound \in Seq(Inputs) /\ tempBuf_ \in Seq(Inputs) /\ readBuffer_ \in Seq(Inputs)
      /\ respQ \in Seq(Inputs)
  BY DEF TypeInv, TypeOK
<1>01. /\ inbound' \in Seq(Inputs) /\ tempBuf_' \in Seq(Inputs) /\ readBuffer_' \in Seq(Inputs)
       /\ respQ' \in Seq(Inputs) /\ Len(kind') \in Nat
  <2>1. TypeOK'
    BY TypeStep DEF TypeInv
  <2> QED
    BY <2>1 DEF TypeOK
<1>1. /\ \A n \in Msgs : Put(n) => Put(n)'
      /\ \A n \in Msgs : idOf'[n] # NoId => Put(n)'
      /\ \A n \in 1..Len(kind') : kind'[n] # "pub" => Put(n)'
      /\ Len(kind) <= Len(kind')
  BY PutStep
<1>2. \A i \in 1..Len(posted') : posted'[i].n <= Len(kind')
  <2>1. \A i \in 1..Len(posted) : posted[i].n <= Len(kind) /\ posted[i].n \in Nat
    <3>1. \A i \in 1..Len(posted) : posted[i] \in Packages
      BY <1>0
    <3>2. \A p \in Packages : p.n \in Nat
      BY PackageFields DEF Msgs
    <3> QED
      BY <3>1, <3>2 DEF MadeInv
  <2>2. \A i \in 1..Len(posted) : posted[i].n <= Len(kind')
    BY <1>0, <1>01, <1>1, <2>1
  <2>3. UNCHANGED posted \/ AcceptsPackage
    BY <1>0, MakeStep
  <2>4. ASSUME NEW p \in Packages, p.n <= Len(kind'), posted' = Append(posted, p)
        PROVE  \A i \in 1..Len(posted') : posted'[i].n <= Len(kind')
    <3>1. \A i \in 1..Len(posted') : (i \in 1..Len(posted) /\ posted'[i] = posted[i]) \/ posted'[i] = p
      BY <1>0, <2>4, SMTT(60)
    <3> QED
      BY <2>2, <2>4, <3>1
  <2> QED
    BY <2>2, <2>3, <2>4 DEF AcceptsPackage
<1>3. \A n \in peer' : Put(n)'
  BY <1>1, PeerStep
<1>4. /\ inbound' \in Seq(PutInputs) /\ tempBuf_' \in Seq(PutInputs)
      /\ readBuffer_' \in Seq(PutInputs) /\ respQ' \in Seq(PutInputs)
  <2>1. /\ inbound \in Seq(PutInputs) /\ tempBuf_ \in Seq(PutInputs)
        /\ readBuffer_ \in Seq(PutInputs) /\ respQ \in Seq(PutInputs)
    BY <1>0, AnswersPutIs DEF MadeInv
  <2>2. \A n \in peer : Answer(n) \in PutInputs
    <3>1. ASSUME NEW n \in peer PROVE Answer(n) \in Inputs /\ Answer(n).n = n /\ Put(n)
      BY <1>0, Makes DEF Answer, MadeInv
    <3> QED
      BY <3>1 DEF PutInputs
  <2>3. PutInputs \in SUBSET Inputs /\ Pushes \subseteq PutInputs /\ Mixed \subseteq PutInputs
    BY DEF PutInputs, Inputs, Mixed, Pushes, Push
  <2>4. PICK S \in SUBSET Inputs : S = PutInputs
    BY <2>3
  <2>5. /\ inbound' \in Seq(S) /\ tempBuf_' \in Seq(S) /\ readBuffer_' \in Seq(S)
        /\ respQ' \in Seq(S)
    BY <2>1, <2>2, <2>3, <2>4, InputsMove
  <2> QED
    BY <2>4, <2>5
<1>5. /\ AnswersPut(inbound)' /\ AnswersPut(tempBuf_)' /\ AnswersPut(readBuffer_)'
      /\ AnswersPut(respQ)'
  <2>1. ASSUME NEW q \in Seq(Inputs), q \in Seq(PutInputs)
        PROVE  \A i \in 1..Len(q) : q[i].n # 0 => Put(q[i].n)'
    <3>1. \A i \in 1..Len(q) : q[i] \in Inputs /\ q[i] \in PutInputs
      BY <2>1
    <3>2. \A m \in PutInputs : m.n # 0 => m.n \in Msgs /\ Put(m.n)
      BY InputFields DEF PutInputs
    <3> QED
      BY <1>1, <3>1, <3>2
  <2> QED
    BY <1>01, <1>4, <2>1 DEF AnswersPut
<1> QED
  BY <1>1, <1>2, <1>3, <1>5 DEF MadeInv

(* While no bytes are mixed up, an answer is the answer to a request. *)
Genuine == {m \in Inputs : m.type = "REQREP" => m.n # 0}
GenuineInv ==
    ~mixedUp => /\ inbound \in Seq(Genuine) /\ tempBuf_ \in Seq(Genuine)
                /\ readBuffer_ \in Seq(Genuine) /\ respQ \in Seq(Genuine)

(* Bytes once mixed up stay so. *)
LEMMA MixedUpStays ==
    ASSUME Next \/ UNCHANGED vars, mixedUp
    PROVE  mixedUp'
<1>1. AppStep \/ ReplyDeliver => mixedUp'
  BY DEF AppStep, Start, StopIo, StopRest, PostMessage, PublishMessage, PostMade, ReplyDeliver, readVars
<1>2. IoStep => mixedUp'
  BY DEF IoStep, RunStartWrite, RunWrittenFind, RunWrittenRest, RunDoRead, RunDoConnect, RunConnected,
         RunDoConnectFailed, RunDoClose, RunDoHeartbeat, readVars
<1>3. AsioStep => mixedUp'
  BY DEF AsioStep, ConnectCompletes, WriteCompletes, ReadCompletes, ReadFails, HeartbeatFires, IoRunsOut,
         TimerFires, readVars
<1>4. ServerStep \/ (\E id \in Ids : RunOnTimeout(id)) \/ DoResponse \/ UNCHANGED vars => mixedUp'
  BY DEF ServerStep, ServerPushes, ConnectionLost, ServerReplies, RunOnTimeout, DoResponse, vars, readVars
<1> QED
  BY <1>1, <1>2, <1>3, <1>4 DEF Next

(* Every step keeps the genuine answers apart. *)
LEMMA GenuineStep ==
    ASSUME TypeInv, MadeInv, GenuineInv, Next \/ UNCHANGED vars
    PROVE  GenuineInv'
<1> SUFFICES ASSUME ~mixedUp' PROVE GenuineInv'
  BY DEF GenuineInv
<1>1. ~mixedUp
  BY MixedUpStays
<1>2. peer \subseteq Msgs
  BY DEF TypeInv, TypeOK
<1>3. \A n \in peer : Answer(n) \in Genuine
  <2>1. ASSUME NEW n \in peer PROVE Answer(n) \in Inputs /\ Answer(n).n = n /\ n # 0
    BY <1>2, Makes, ClientAssumption DEF Answer, Msgs
  <2> QED
    BY <2>1 DEF Genuine
<1>4. Genuine \in SUBSET Inputs /\ Pushes \subseteq Genuine
  BY DEF Genuine, Inputs, Mixed, Pushes, Push
<1>5. PICK S \in SUBSET Inputs : S = Genuine
  BY <1>4
<1>6. /\ inbound' \in Seq(S) /\ tempBuf_' \in Seq(S) /\ readBuffer_' \in Seq(S)
      /\ respQ' \in Seq(S)
  BY <1>1, <1>3, <1>4, <1>5, InputsMove DEF GenuineInv
<1> QED
  BY <1>5, <1>6 DEF GenuineInv

(* A callback runs with result r: the entry under the id is called for the *)
(* first time.                                                             *)
Calls(id, r) ==
    LET x == cache_[id]
    IN  /\ x \in Msgs /\ idOf[x] = id /\ calls[x] = <<>>
        /\ calls' = [calls EXCEPT ![x] = <<r>>]

(* pick() calls the entry it finds, or nothing. *)
LEMMA PickCalls ==
    ASSUME TypeInv, NEW id \in Ids, NEW r \in Rsps \cup {eTimeout}, RM!Pick(id, r)
    PROVE  UNCHANGED calls \/ Calls(id, r)
<1>1. CASE cache_[id] = NoData
  BY <1>1 DEF RM!Pick
<1>2. CASE cache_[id] # NoData
  <2>1. /\ cache_[id] \in Msgs /\ idOf[cache_[id]] = id /\ calls[cache_[id]] = <<>>
        /\ calls \in [Msgs -> Seq(Rsps \cup {eTimeout})]
    BY <1>2 DEF TypeInv, RMP!IInv, RMP!TypeOK, RMP!Results, RMP!CacheIsPending
  <2>2. calls' = [calls EXCEPT ![cache_[id]] = Append(calls[cache_[id]], r)]
    BY <1>2, <2>1 DEF RM!Pick
  <2>3. Append(<<>>, r) = <<r>>
    OBVIOUS
  <2> QED
    BY <2>1, <2>2, <2>3 DEF Calls
<1> QED
  BY <1>1, <1>2

(* When callbacks run: for a timeout, and for an answer that was received. *)
LEMMA CallStep ==
    ASSUME TypeInv, Next \/ UNCHANGED vars
    PROVE  \/ UNCHANGED calls
           \/ \E id \in Ids : RunOnTimeout(id) /\ due[id] > 0 /\ Calls(id, eTimeout)
           \/ /\ DoResponse /\ respQ # <<>> /\ Head(respQ) \in Inputs /\ Head(respQ).type = "REQREP"
              /\ Calls(Head(respQ).id, Head(respQ).n)
<1>0. TypeOK /\ respQ \in Seq(Inputs)
  BY DEF TypeInv, TypeOK
<1>1. ASSUME NEW id \in Ids, RunOnTimeout(id)
      PROVE  UNCHANGED calls \/ (due[id] > 0 /\ Calls(id, eTimeout))
  <2>1. due[id] > 0 /\ RM!Pick(id, eTimeout)
    BY <1>1 DEF RunOnTimeout, RM!OnTimeout
  <2> QED
    BY <2>1, PickCalls
<1>2. ASSUME DoResponse
      PROVE  \/ UNCHANGED calls
             \/ /\ respQ # <<>> /\ Head(respQ) \in Inputs /\ Head(respQ).type = "REQREP"
                /\ Calls(Head(respQ).id, Head(respQ).n)
  <2>1. respQ # <<>>
    BY <1>2 DEF DoResponse
  <2>2. Head(respQ) \in Inputs
    BY <1>0, <2>1
  <2>3. CASE Head(respQ).type = "REQREP"
    <3>1. Head(respQ).n \in Rsps /\ Head(respQ).id \in Ids
      BY <2>2, InputFields
    <3>2. RM!Pick(Head(respQ).id, Head(respQ).n)
      BY <1>2, <2>3 DEF DoResponse, RM!OnResponse
    <3>3. UNCHANGED calls \/ Calls(Head(respQ).id, Head(respQ).n)
      BY <3>1, <3>2, PickCalls
    <3> QED
      BY <2>1, <2>2, <2>3, <3>1, <3>3
  <2>4. CASE Head(respQ).type # "REQREP"
    BY <1>2, <2>4 DEF DoResponse, tableVars
  <2> QED
    BY <2>3, <2>4
<1>3. AppStep \/ ReplyDeliver \/ UNCHANGED vars => UNCHANGED calls
  BY DEF AppStep, Start, StopIo, StopRest, PostMessage, PublishMessage, PostMade, ReplyDeliver, vars, tableVars, RM!Put
<1>4. IoStep => UNCHANGED calls
  BY DEF IoStep, RunStartWrite, RunWrittenFind, RunWrittenRest, RunDoRead, RunDoConnect, RunConnected,
         RunDoConnectFailed, RunDoClose, RunDoHeartbeat, StartSubscribe, PostFromIo, TimerRest, tableVars, RM!Put,
         RM!StartTimerFind, RM!StartTimerWait
<1>5. AsioStep \/ ServerStep => UNCHANGED calls
  BY DEF AsioStep, ConnectCompletes, WriteCompletes, ReadCompletes, ReadFails, HeartbeatFires, IoRunsOut,
         TimerFires, RM!TimerFires, ServerStep, ServerPushes, ConnectionLost, ServerReplies, tableVars
<1> QED
  BY <1>1, <1>2, <1>3, <1>4, <1>5 DEF Next

(* A request that has its id for itself had it before. *)
LEMMA OwnStays ==
    ASSUME TypeInv, MadeInv, Next \/ UNCHANGED vars, NEW n \in Msgs, idOf[n] # NoId, RM!OwnId(n)'
    PROVE  RM!OwnId(n)
<1>1. \A e \in Msgs : idOf[e] # NoId => idOf'[e] = idOf[e]
  BY PutStep
<1>2. \A e \in Msgs : e # n => idOf'[e] # idOf'[n]
  BY DEF RM!OwnId
<1> QED
  BY <1>1, <1>2 DEF RM!OwnId

(* A callback gets the answer to its own request. *)
LEMMA OwnStep ==
    ASSUME TypeInv, MadeInv, GenuineInv, AnswerIsOwn, Next \/ UNCHANGED vars
    PROVE  AnswerIsOwn'
<1>0. /\ idOf \in [Msgs -> Ids \cup {NoId}] /\ calls \in [Msgs -> Seq(Rsps \cup {eTimeout})]
      /\ \A n \in Msgs : idOf[n] = NoId => calls[n] = <<>>
      /\ respQ \in Seq(Inputs)
  BY DEF TypeInv, TypeOK, RMP!IInv, RMP!TypeOK, RMP!Results, RMP!OnlyAfterPut
<1>1. mixedUp => mixedUp'
  BY MixedUpStays
<1>2. \A n \in Msgs : idOf[n] # NoId /\ RM!OwnId(n)' => RM!OwnId(n)
  BY OwnStays
<1>3. CASE UNCHANGED calls
  BY <1>0, <1>1, <1>2, <1>3 DEF AnswerIsOwn
<1>4. ASSUME NEW id \in Ids, NEW r \in Rsps \cup {eTimeout}, Calls(id, r),
             \/ r = eTimeout \/ (r = 0 /\ mixedUp)
             \/ RM!OwnId(cache_[id]) => r = cache_[id]
      PROVE  AnswerIsOwn'
  <2>1. PICK x \in Msgs : x = cache_[id] /\ idOf[x] = id /\ calls' = [calls EXCEPT ![x] = <<r>>]
    BY <1>4 DEF Calls
  <2>2. idOf[x] # NoId
    BY <2>1, TableAssumption
  <2>3. calls'[x] = <<r>> /\ \A n \in Msgs : n # x => calls'[n] = calls[n]
    BY <1>0, <2>1
  <2>4. ASSUME RM!OwnId(x)'
        PROVE  calls'[x] \in {<<x>>, <<eTimeout>>} \/ (mixedUp' /\ calls'[x] = <<0>>)
    BY <1>1, <1>2, <1>4, <2>1, <2>2, <2>3, <2>4
  <2>5. ASSUME NEW n \in Msgs, n # x, RM!OwnId(n)', calls'[n] # <<>>
        PROVE  calls'[n] \in {<<n>>, <<eTimeout>>} \/ (mixedUp' /\ calls'[n] = <<0>>)
    BY <1>0, <1>1, <1>2, <2>3, <2>5 DEF AnswerIsOwn
  <2> QED
    BY <2>4, <2>5 DEF AnswerIsOwn
<1>5. CASE \E id \in Ids : RunOnTimeout(id) /\ due[id] > 0 /\ Calls(id, eTimeout)
  BY <1>4, <1>5
<1>6. CASE /\ respQ # <<>> /\ Head(respQ) \in Inputs /\ Head(respQ).type = "REQREP"
           /\ Calls(Head(respQ).id, Head(respQ).n)
  <2>1. PICK m \in Inputs : m = Head(respQ) /\ m.type = "REQREP" /\ Calls(m.id, m.n)
    BY <1>6
  <2>2. m = respQ[1] /\ 1 \in 1..Len(respQ)
    BY <1>0, <1>6, <2>1
  <2>3. m.id \in Ids /\ m.n \in Rsps /\ (m.n # 0 => m.n \in Msgs /\ m.id = MsgId(m.n))
    BY InputFields
  <2>4. CASE m.n = 0
    <3>1. mixedUp
      <4>1. ~mixedUp => m \in Genuine
        BY <2>2 DEF GenuineInv
      <4> QED
        BY <2>1, <2>4, <4>1 DEF Genuine
    <3>2. 0 \in Rsps \cup {eTimeout} /\ Calls(m.id, 0)
      BY <2>1, <2>3, <2>4
    <3> QED
      BY <1>4, <2>3, <3>1, <3>2
  <2>5. CASE m.n # 0
    <3>1. PICK k \in Msgs : k = m.n /\ m.id = MsgId(k) /\ Calls(m.id, k)
      BY <2>1, <2>3, <2>5
    <3>2. Put(k)
      BY <2>2, <2>5, <3>1 DEF MadeInv, AnswersPut
    <3>3. RM!OwnId(cache_[m.id]) => k = cache_[m.id]
      <4>1. cache_[m.id] \in Msgs /\ idOf[cache_[m.id]] = m.id
        BY <3>1 DEF Calls
      <4> QED
        BY <3>1, <3>2, <4>1 DEF RM!OwnId, Put
    <3>4. k \in Rsps \cup {eTimeout}
      BY <2>3, <3>1
    <3> QED
      BY <1>4, <2>3, <3>1, <3>3, <3>4
  <2> QED
    BY <2>4, <2>5
<1> QED
  BY <1>3, <1>5, <1>6, CallStep

(* The layers so far. *)
AnswerInv == CoreInv /\ NothingLost /\ MadeInv /\ GenuineInv

(* AnswerIsOwn is about what the callback was given; that only answers to  *)
(* messages in the table are under way is MadeInv, which rests on the      *)
(* written packages being accepted ones; that nobody's answers are under   *)
(* way only when bytes are mixed up is GenuineInv.                         *)
THEOREM Answers == Spec => []AnswerInv
<1>1. Init => MadeInv /\ GenuineInv
  <2> SUFFICES ASSUME Init PROVE MadeInv /\ GenuineInv
    OBVIOUS
  <2>1. idOf = [n \in Msgs |-> NoId]
    BY DEF Init, RM!Init
  <2>2. MadeInv
    BY <2>1 DEF Init, MadeInv, AnswersPut
  <2>3. <<>> \in Seq(Genuine)
    OBVIOUS
  <2> QED
    BY <2>2, <2>3 DEF Init, GenuineInv
<1>2. CoreInv /\ NothingLost /\ MadeInv /\ GenuineInv /\ [Next]_vars => MadeInv' /\ GenuineInv'
  <2> SUFFICES ASSUME CoreInv, NothingLost, MadeInv, GenuineInv, Next \/ UNCHANGED vars
               PROVE  MadeInv' /\ GenuineInv'
    OBVIOUS
  <2> QED
    BY MadeStep, GenuineStep DEF CoreInv
<1> QED
  BY <1>1, <1>2, Core, NothingLostHolds, PTL DEF Spec, AnswerInv

(* A callback is given the answer to its own request, or a timeout, unless *)
(* another request had the same id, or bytes of two connections, or of two *)
(* reads, have met in readBuffer_: then it can also be given what is       *)
(* nobody's answer, but still not the answer to another request.           *)
THEOREM AnswerIsOwnHolds == Spec => []AnswerIsOwn
<1>1. Init => AnswerIsOwn
  BY DEF Init, RM!Init, AnswerIsOwn
<1>2. AnswerInv /\ AnswerIsOwn /\ [Next]_vars => AnswerIsOwn'
  <2> SUFFICES ASSUME AnswerInv, AnswerIsOwn, Next \/ UNCHANGED vars PROVE AnswerIsOwn'
    OBVIOUS
  <2> QED
    BY OwnStep DEF AnswerInv, CoreInv
<1> QED
  BY <1>1, <1>2, Answers, PTL DEF Spec

-----------------------------------------------------------------------------
(***************************************************************************)
(* A client that reconnects does not run out of work                       *)
(***************************************************************************)
KeepKinds == {"doRead", "doConnect", "doClose"}

(* A handler of these kinds is queued. *)
KeepQueued == \E i \in 1..Len(ioQ) : ioQ[i].h \in KeepKinds

(* It stays queued when handlers of other kinds come and go. *)
LEMMA KeepStays ==
    ASSUME ioQ \in Seq(Handlers), KeepQueued, NEW H, NEW G, QueueStep(H, G), G \cap KeepKinds = {}
    PROVE  KeepQueued'
<1>1. PICK i \in 1..Len(ioQ) : ioQ[i].h \in KeepKinds
  BY DEF KeepQueued
<1>2. ioQ[i].h \notin G
  BY <1>1
<1>3. \E j \in 1..Len(ioQ') : ioQ'[j] = ioQ[i]
  BY <1>2, QueueContains
<1> QED
  BY <1>1, <1>3 DEF KeepQueued

(* It is queued when a step puts one at the end. *)
LEMMA KeepAppended ==
    ASSUME NEW q \in Seq(Handlers), NEW x \in Handlers, x.h \in KeepKinds, ioQ' = Append(q, x)
    PROVE  KeepQueued'
<1>1. Len(q) + 1 \in 1..Len(ioQ') /\ ioQ'[Len(q) + 1] = x
  OBVIOUS
<1> QED
  BY <1>1 DEF KeepQueued

(* Every step of a client that reconnects leaves it at work. *)
LEMMA KeepsStep ==
    ASSUME TypeOK, KeepsAtIt, Next \/ UNCHANGED vars
    PROVE  KeepsAtIt'
<1> SUFFICES ASSUME life' = "running", ~ioStopped', Reconnects
             PROVE  reads' > 0 \/ sock' = "connecting" \/ KeepQueued'
  BY DEF KeepsAtIt, KeepQueued, KeepKinds
<1> DEFINE Goal == reads' > 0 \/ sock' = "connecting" \/ KeepQueued'
<1>0. /\ ioQ \in Seq(Handlers) /\ reads \in Nat
      /\ ioQ # <<>> => Tail(ioQ) \in Seq(Handlers)
      /\ DoClose \in Handlers /\ DoClose.h \in KeepKinds
      /\ DoRead(FALSE) \in Handlers /\ DoRead(FALSE).h \in KeepKinds
  <2>1. ioQ \in Seq(Handlers) /\ reads \in Nat
    BY DEF TypeOK
  <2>2. ioQ # <<>> => Tail(ioQ) \in Seq(Handlers)
    BY <2>1, SeqFacts
  <2>3. DoClose \in Handlers /\ DoClose.h \in KeepKinds
    BY Makes, HandlerKinds DEF KeepKinds
  <2>4. DoRead(FALSE) \in Handlers /\ DoRead(FALSE).h \in KeepKinds
    BY MadeHandlers DEF KeepKinds
  <2> QED
    BY <2>1, <2>2, <2>3, <2>4
<1>1. life = "running" /\ ~ioStopped => reads > 0 \/ sock = "connecting" \/ KeepQueued
  BY DEF KeepsAtIt, KeepQueued, KeepKinds
<1>2. \A H, G : KeepQueued /\ QueueStep(H, G) /\ G \cap KeepKinds = {} => KeepQueued'
  BY <1>0, KeepStays
<1>3. UNCHANGED ioQ => (KeepQueued => KeepQueued')
  BY DEF KeepQueued
<1>4. UNCHANGED <<reads, sock, life, ioStopped>> /\ (KeepQueued => KeepQueued') => Goal
  BY <1>1
<1>5. /\ {} \cap KeepKinds = {} /\ {"startWrite"} \cap KeepKinds = {} /\ {"written"} \cap KeepKinds = {}
      /\ {"connected"} \cap KeepKinds = {} /\ {"doHeartbeat"} \cap KeepKinds = {}
  BY DEF KeepKinds
<1>6. CASE AppStep \/ ReplyDeliver
  <2>1. Start => sock' = "connecting"
    BY DEF Start, Connect
  <2>2. ~StopIo /\ ~StopRest
    BY DEF StopIo, StopRest
  <2>3. PostMessage \/ PublishMessage \/ (\E n \in Msgs : PostMade(n)) \/ ReplyDeliver
            => UNCHANGED <<reads, sock, life, ioStopped>>
    BY DEF PostMessage, PublishMessage, PostMade, ReplyDeliver, readVars, connVars, lifeVars
  <2>4. PostMessage \/ PublishMessage \/ (\E n \in Msgs : PostMade(n)) \/ ReplyDeliver => (KeepQueued => KeepQueued')
    BY <1>2, <1>3, <1>5, AppQueue, QueueAlone
  <2> QED
    BY <1>4, <1>6, <2>1, <2>2, <2>3, <2>4 DEF AppStep
<1>7. CASE IoStep
  <2>1. CASE RunDoRead
    <3>1. ioQ # <<>>
      BY <2>1 DEF RunDoRead, Runs, AtHead
    <3>2. \/ ioQ' = Append(Tail(ioQ), DoClose) \/ ioQ' = Append(Tail(ioQ), DoRead(FALSE))
          \/ reads' = reads + 1
      BY <2>1 DEF RunDoRead, StartRead, ReadError
    <3>3. reads' = reads + 1 => reads' > 0
      BY <1>0
    <3> QED
      BY <1>0, <3>1, <3>2, <3>3, KeepAppended
  <2>2. CASE RunDoConnect
    BY <1>0, <2>2 DEF RunDoConnect
  <2>3. CASE RunDoConnectFailed \/ RunDoClose
    BY <2>3 DEF RunDoConnectFailed, RunDoClose, Connect
  <2>4. CASE RunStartWrite \/ RunWrittenFind \/ RunWrittenRest \/ RunConnected \/ RunDoHeartbeat
    <3>1. UNCHANGED <<reads, sock, life, ioStopped>>
      BY <2>4 DEF RunStartWrite, RunWrittenFind, RunWrittenRest, RunConnected, RunDoHeartbeat, readVars, connVars, lifeVars
    <3>2. KeepQueued => KeepQueued'
      BY <1>2, <1>3, <1>5, <2>4, IoQueue, QueueAlone
    <3> QED
      BY <1>4, <3>1, <3>2
  <2> QED
    BY <1>7, <2>1, <2>2, <2>3, <2>4 DEF IoStep
<1>8. CASE AsioStep
  <2>1. CASE ConnectCompletes
    <3>1. \/ ioQ' = Append(ioQ, DoConnect(TRUE)) \/ ioQ' = Append(ioQ, DoConnect(FALSE))
      <4>1. CASE addressIndex_ \in Reachable
        <5>1. (addressIndex_ \in Reachable) = TRUE
          BY <4>1
        <5> QED
          BY <2>1, <5>1 DEF ConnectCompletes
      <4>2. CASE addressIndex_ \notin Reachable
        <5>1. (addressIndex_ \in Reachable) = FALSE
          BY <4>2
        <5> QED
          BY <2>1, <5>1 DEF ConnectCompletes
      <4> QED
        BY <4>1, <4>2
    <3>2. /\ DoConnect(TRUE) \in Handlers /\ DoConnect(TRUE).h \in KeepKinds
          /\ DoConnect(FALSE) \in Handlers /\ DoConnect(FALSE).h \in KeepKinds
      BY MadeHandlers DEF KeepKinds
    <3> QED
      BY <1>0, <3>1, <3>2, KeepAppended
  <2>2. CASE ReadCompletes
    <3>1. ioQ' = Append(ioQ, DoRead(TRUE))
      BY <2>2 DEF ReadCompletes
    <3>2. DoRead(TRUE) \in Handlers /\ DoRead(TRUE).h \in KeepKinds
      BY MadeHandlers DEF KeepKinds
    <3> QED
      BY <1>0, <3>1, <3>2, KeepAppended
  <2>3. CASE ReadFails
    BY <1>0, <2>3, KeepAppended DEF ReadFails
  <2>4. ~IoRunsOut
    BY DEF IoRunsOut
  <2>5. CASE WriteCompletes \/ HeartbeatFires \/ (\E d \in Msgs : TimerFires(d))
    <3>1. UNCHANGED <<reads, sock, life, ioStopped>>
      BY <2>5 DEF WriteCompletes, HeartbeatFires, TimerFires, readVars, connVars, lifeVars
    <3>2. KeepQueued => KeepQueued'
      BY <1>2, <1>3, <1>5, <2>5, AsioQueue, QueueAlone
    <3> QED
      BY <1>4, <3>1, <3>2
  <2> QED
    BY <1>8, <2>1, <2>2, <2>3, <2>4, <2>5 DEF AsioStep
<1>9. CASE ServerStep
  <2>1. UNCHANGED <<reads, life, ioStopped, ioQ>> /\ sock # "connecting"
    BY <1>9, QueueAlone DEF ServerStep, ServerPushes, ConnectionLost, ServerReplies, readVars, lifeVars
  <2> QED
    BY <1>1, <1>3, <2>1
<1>10. CASE (\E id \in Ids : RunOnTimeout(id)) \/ DoResponse \/ UNCHANGED vars
  <2>1. UNCHANGED <<reads, sock, life, ioStopped>>
    BY <1>10 DEF RunOnTimeout, DoResponse, vars, readVars, connVars, lifeVars
  <2> QED
    BY <1>3, <1>4, <1>10, <2>1, QueueAlone
<1> QED
  BY <1>6, <1>7, <1>8, <1>9, <1>10 DEF Next

(* While it is to reconnect, io_ never runs out of work: io_.run() does    *)
(* not return and the client does not stop by itself.                      *)
THEOREM NeverOutOfWorkHolds == Spec => []NeverOutOfWork
<1>1. Init => KeepsAtIt
  BY DEF Init, KeepsAtIt
<1>2. CoreInv /\ KeepsAtIt /\ [Next]_vars => KeepsAtIt'
  <2> SUFFICES ASSUME CoreInv, KeepsAtIt, Next \/ UNCHANGED vars PROVE KeepsAtIt'
    OBVIOUS
  <2> QED
    BY KeepsStep DEF CoreInv, TypeInv
<1>3. CoreInv /\ KeepsAtIt => NeverOutOfWork
  <2> SUFFICES ASSUME CoreInv, KeepsAtIt, life = "running" /\ ~ioStopped /\ Reconnects PROVE IoHasWork
    BY DEF NeverOutOfWork
  <2>1. ioQ \in Seq(Handlers)
    BY DEF CoreInv, TypeInv, TypeOK
  <2>2. (\E i \in 1..Len(ioQ) : ioQ[i].h \in {"doRead", "doConnect", "doClose"}) => ioQ # <<>>
    BY <2>1
  <2> QED
    BY <2>2 DEF KeepsAtIt, IoHasWork
<1> QED
  BY <1>1, <1>2, <1>3, Core, PTL DEF Spec

-----------------------------------------------------------------------------
(***************************************************************************)
(* While the client is online a heartbeat is under way                     *)
(***************************************************************************)

(* A heartbeat was posted and is not called back. *)
BeatAwaited == \E n \in 1..Len(kind) : kind[n] = "heartbeat" /\ Blocked(n)

(* postMessage() in a handler answers for the message it makes, no other. *)
LEMMA PostFromIoCode ==
    ASSUME TypeOK, NEW k \in Kinds, NEW online, NEW q, PostFromIo(k, online, q),
           NEW n \in 1..Len(kind)
    PROVE  code'[n] = code[n] /\ kind'[n] = kind[n]
<1>0. /\ kind \in Seq(Kinds) /\ Len(kind) <= MaxReq /\ MaxReq \in Nat /\ Len(kind) \in Nat
      /\ code \in [Msgs -> Codes]
  BY MessageTypes
<1>1. CASE Len(kind) = MaxReq
  BY <1>1 DEF PostFromIo, msgVars
<1>2. CASE Len(kind) # MaxReq
  <2>1. PICK c \in Nat : c = Len(kind) + 1
    BY <1>0
  <2>2. kind' = Append(kind, k) /\ code' = [code EXCEPT ![c] = PackageCode(online)]
    BY <1>2, <2>1 DEF PostFromIo
  <2>3. n \in Msgs /\ n # c
    BY <1>0, <2>1 DEF Msgs
  <2> QED
    BY <1>0, <2>2, <2>3
<1> QED
  BY <1>1, <1>2

(* What postPackage() answered for a message stays its answer. *)
LEMMA CodeStep ==
    ASSUME TypeOK, Next \/ UNCHANGED vars, NEW n \in 1..Len(kind), code[n] # "none"
    PROVE  code'[n] = code[n] /\ kind'[n] = kind[n]
<1>0. /\ kind \in Seq(Kinds) /\ Len(kind) <= MaxReq /\ MaxReq \in Nat /\ Len(kind) \in Nat
      /\ code \in [Msgs -> Codes] /\ n \in Msgs
      /\ "sub" \in Kinds /\ "heartbeat" \in Kinds
  BY MessageTypes DEF Kinds, Msgs
<1>1. ASSUME PostMessage \/ PublishMessage PROVE code' = code /\ kind'[n] = kind[n]
  BY <1>0, <1>1 DEF PostMessage, PublishMessage
<1>2. ASSUME NEW m \in Msgs, PostMade(m) PROVE code'[n] = code[n] /\ kind' = kind
  <2>1. m # n /\ kind' = kind /\ code' = [code EXCEPT ![m] = PackageCode(isOnline_)]
    BY <1>2 DEF PostMade
  <2> QED
    BY <1>0, <2>1
<1>3. ASSUME RunConnected PROVE code'[n] = code[n] /\ kind'[n] = kind[n]
  <2>1. PostFromIo("sub", isOnline_, Tail(ioQ)) \/ UNCHANGED <<kind, code>>
    BY <1>3 DEF RunConnected, StartSubscribe, msgVars
  <2> QED
    BY <1>0, <2>1, PostFromIoCode
<1>4. ASSUME RunDoHeartbeat PROVE code'[n] = code[n] /\ kind'[n] = kind[n]
  <2>1. PostFromIo("heartbeat", isOnline_, Tail(ioQ))
    BY <1>4 DEF RunDoHeartbeat
  <2> QED
    BY <1>0, <2>1, PostFromIoCode
<1>5. ASSUME Start \/ StopIo \/ StopRest \/ ReplyDeliver PROVE UNCHANGED <<kind, code>>
  BY <1>5 DEF Start, StopIo, StopRest, ReplyDeliver, msgVars
<1>6. ASSUME RunStartWrite \/ RunDoRead \/ RunDoConnect \/ RunDoConnectFailed \/ RunDoClose
             \/ RunWrittenFind \/ RunWrittenRest
      PROVE  UNCHANGED <<kind, code>>
  BY <1>6 DEF RunStartWrite, RunDoRead, RunDoConnect, RunDoConnectFailed, RunDoClose, RunWrittenFind,
              RunWrittenRest, msgVars
<1>7. ASSUME AsioStep \/ ServerStep PROVE UNCHANGED <<kind, code>>
  BY <1>7 DEF AsioStep, ConnectCompletes, WriteCompletes, ReadCompletes, ReadFails, HeartbeatFires, IoRunsOut,
              TimerFires, ServerStep, ServerPushes, ConnectionLost, ServerReplies, msgVars
<1>8. ASSUME (\E id \in Ids : RunOnTimeout(id)) \/ DoResponse \/ UNCHANGED vars
      PROVE  UNCHANGED <<kind, code>>
  BY <1>8 DEF RunOnTimeout, DoResponse, vars, msgVars
<1> QED
  BY <1>1, <1>2, <1>3, <1>4, <1>5, <1>6, <1>7, <1>8 DEF Next, AppStep, IoStep

(* No message is taken back. *)
LEMMA KindGrows ==
    ASSUME TypeOK, Next \/ UNCHANGED vars
    PROVE  Len(kind) <= Len(kind') /\ Len(kind') \in Nat
<1>1. kind \in Seq(Kinds) /\ Len(kind) \in Nat
  BY DEF TypeOK
<1>2. UNCHANGED kind \/ \E k \in Kinds : kind' = Append(kind, k)
  BY MakeStep DEF MakesNext
<1> QED
  BY <1>1, <1>2

(* A heartbeat is awaited until its callback has armed the timer again. *)
LEMMA AwaitedStays ==
    ASSUME TypeInv, BeatAwaited, Next \/ UNCHANGED vars
    PROVE  BeatAwaited' \/ heartbeatWait'
<1>1. PICK n \in 1..Len(kind) : kind[n] = "heartbeat" /\ Blocked(n)
  BY DEF BeatAwaited
<1>2. TypeOK
  BY DEF TypeInv
<1>3. code[n] = "eSuccess" /\ calls[n] = <<>>
  BY <1>1 DEF Blocked
<1>4. code'[n] = "eSuccess" /\ kind'[n] = "heartbeat"
  BY <1>1, <1>2, <1>3, CodeStep
<1>5. n \in 1..Len(kind') /\ n <= Len(kind') /\ n \in Msgs
  BY <1>2, KindGrows, MessageTypes DEF Msgs
<1>6. calls'[n] = <<>> => BeatAwaited'
  BY <1>4, <1>5 DEF BeatAwaited, Blocked
<1>7. ASSUME NEW id, NEW r, Calls(id, r), Callback(id) PROVE calls'[n] = <<>> \/ heartbeatWait'
  <2>1. CASE cache_[id] = n
    <3>1. cache_[id] # NoData
      BY <1>5, <2>1, TableAssumption
    <3> QED
      BY <1>1, <1>7, <2>1, <3>1 DEF Callback
  <2>2. CASE cache_[id] # n
    <3>1. calls \in [Msgs -> Seq(Rsps \cup {eTimeout})]
      BY DEF TypeInv, RMP!IInv, RMP!TypeOK, RMP!Results
    <3> QED
      BY <1>3, <1>5, <1>7, <2>2, <3>1 DEF Calls
  <2> QED
    BY <2>1, <2>2
<1>8. \/ UNCHANGED calls \/ \E id, r : Calls(id, r) /\ Callback(id)
  <2>1. \A id \in Ids : RunOnTimeout(id) => Callback(id)
    BY DEF RunOnTimeout
  <2>2. ASSUME DoResponse, Head(respQ) \in Inputs, Head(respQ).type = "REQREP"
        PROVE  Callback(Head(respQ).id)
    BY <2>2 DEF DoResponse
  <2> QED
    BY <2>1, <2>2, CallStep
<1> QED
  BY <1>3, <1>6, <1>7, <1>8

(* While the io thread is in a handler, the queue grows at its end only. *)
LEMMA HeadStays ==
    ASSUME TypeOK, ioQ # <<>>, InHandler, ~IoStep, Next \/ UNCHANGED vars
    PROVE  ioQ' # <<>> /\ Head(ioQ') = Head(ioQ)
<1> DEFINE Kept == ioQ' # <<>> /\ Head(ioQ') = Head(ioQ)
<1>0. ioQ \in Seq(Handlers) /\ writes \in Seq(Packages)
  BY DEF TypeOK
<1>1. \A q : q \in Seq(Handlers) /\ ioQ' = ioQ \o q => Kept
  BY <1>0
<1>2. \A x \in Handlers : ioQ' = Append(ioQ, x) => Kept
  BY <1>0
<1>3. UNCHANGED ioQ => Kept
  BY <1>0
<1>4. ASSUME AppStep \/ ReplyDeliver PROVE Kept
  <2>1. Aborted \in Seq(Handlers)
    BY AbortedType DEF AllOf
  <2>2. Start => ioQ' = ioQ \o Aborted
    BY DEF Start, Connect
  <2>3. ~StopRest
    BY <1>0 DEF StopRest
  <2>4. ASSUME NEW n \in Msgs, PostMade(n) PROVE Kept
    <3>1. StartWrite(Package(n)) \in Handlers
      BY Makes
    <3> QED
      BY <1>2, <1>3, <2>4, <3>1 DEF PostMade, PostPackage
  <2>5. ASSUME ReplyDeliver PROVE Kept
    <3>1. PICK i \in 1..Len(tasks) : PostPackage(DeliverAnswer(tasks[i].id), isOnline_, ioQ)
      BY <2>5 DEF ReplyDeliver
    <3>2. tasks[i] \in Inputs
      BY <3>1 DEF TypeOK
    <3>3. StartWrite(DeliverAnswer(tasks[i].id)) \in Handlers
      BY <3>2, InputFields, Makes
    <3> QED
      BY <1>2, <1>3, <3>1, <3>3 DEF PostPackage
  <2> QED
    BY <1>1, <1>3, <1>4, <2>1, <2>2, <2>3, <2>4, <2>5, QueueAlone DEF AppStep
<1>5. ASSUME AsioStep PROVE Kept
  <2>1. ASSUME ConnectCompletes PROVE Kept
    <3>1. CASE addressIndex_ \in Reachable
      <4>1. (addressIndex_ \in Reachable) = TRUE
        BY <3>1
      <4>2. ioQ' = Append(ioQ, DoConnect(TRUE))
        BY <2>1, <4>1 DEF ConnectCompletes
      <4> QED
        BY <1>2, <4>2, MadeHandlers
    <3>2. CASE addressIndex_ \notin Reachable
      <4>1. (addressIndex_ \in Reachable) = FALSE
        BY <3>2
      <4>2. ioQ' = Append(ioQ, DoConnect(FALSE))
        BY <2>1, <4>1 DEF ConnectCompletes
      <4> QED
        BY <1>2, <4>2, MadeHandlers
    <3> QED
      BY <3>1, <3>2
  <2>2. ASSUME WriteCompletes PROVE Kept
    <3>1. PICK ok \in BOOLEAN : writes # <<>> /\ ioQ' = Append(ioQ, Written(Head(writes), ok))
      BY <2>2 DEF WriteCompletes
    <3>2. Written(Head(writes), ok) \in Handlers
      BY <1>0, <3>1, Makes
    <3> QED
      BY <1>2, <3>1, <3>2
  <2>3. ASSUME ReadCompletes PROVE Kept
    <3>1. ioQ' = Append(ioQ, DoRead(TRUE))
      BY <2>3 DEF ReadCompletes
    <3> QED
      BY <1>2, <3>1, MadeHandlers
  <2>4. ReadFails \/ HeartbeatFires => Kept
    BY <1>2, Makes, MadeHandlers DEF ReadFails, HeartbeatFires
  <2> QED
    BY <1>3, <1>5, <2>1, <2>2, <2>3, <2>4, QueueAlone DEF AsioStep
<1>6. \A id \in Ids : ~RunOnTimeout(id)
  BY DEF RunOnTimeout
<1> HIDE DEF Kept
<1>7. Kept
  BY <1>3, <1>4, <1>5, <1>6, QueueAlone DEF Next
<1> QED
  BY <1>7 DEF Kept

(* The timer is to be started until it is. *)
LEMMA ToStartStays ==
    ASSUME TypeOK, Heartbeats, AtHead("connected"), Next \/ UNCHANGED vars
    PROVE  AtHead("connected")' \/ heartbeatWait'
<1>0. ioQ # <<>> /\ Head(ioQ).h = "connected" /\ InHandler
  BY DEF AtHead, InHandler
<1>1. CASE IoStep
  <2>1. RunConnected
    BY <1>0, <1>1 DEF IoStep, RunStartWrite, RunWrittenFind, RunWrittenRest, RunDoRead, RunDoConnect,
                      RunDoConnectFailed, RunDoClose, RunDoHeartbeat, Runs, AtHead
  <2> QED
    BY <2>1 DEF RunConnected, StartHeartbeatTimer
<1>2. CASE ~IoStep
  BY <1>0, <1>2, HeadStays DEF AtHead
<1> QED
  BY <1>1, <1>2

(* A heartbeat that is queued stays queued until it is posted. *)
LEMMA QueuedStays ==
    ASSUME TypeOK, Contains(ioQ, DoHeartbeat), Next \/ UNCHANGED vars, ~RunDoHeartbeat
    PROVE  Contains(ioQ, DoHeartbeat)'
<1>0. ioQ \in Seq(Handlers) /\ DoHeartbeat.h = "doHeartbeat"
  BY HandlerKinds DEF TypeOK
<1>1. PICK i \in 1..Len(ioQ) : ioQ[i] = DoHeartbeat
  BY DEF Contains
<1>2. ASSUME NEW H, NEW G, QueueStep(H, G), "doHeartbeat" \notin G PROVE Contains(ioQ, DoHeartbeat)'
  <2>1. ioQ[i].h \notin G
    BY <1>0, <1>1, <1>2
  <2>2. PICK j \in 1..Len(ioQ') : ioQ'[j] = ioQ[i]
    BY <1>0, <1>2, <2>1, QueueContains
  <2> QED
    BY <1>1, <2>2 DEF Contains
<1>3. UNCHANGED ioQ => Contains(ioQ, DoHeartbeat)'
  BY <1>1 DEF Contains
<1>4. CASE AppStep \/ ReplyDeliver
  BY <1>2, <1>3, <1>4, AppQueue, QueueAlone DEF AppStep
<1>5. CASE IoStep
  BY <1>2, <1>3, <1>5, IoQueue, QueueAlone DEF IoStep
<1>6. CASE AsioStep
  BY <1>2, <1>3, <1>6, AsioQueue, QueueAlone DEF AsioStep
<1> QED
  BY <1>3, <1>4, <1>5, <1>6, QueueAlone DEF Next

(* doHeartbeat() of a client that is online posts a heartbeat, which has   *)
(* not been called back.                                                   *)
LEMMA BeatPosted ==
    ASSUME TypeInv, RunDoHeartbeat, isOnline_, Len(kind') < MaxReq
    PROVE  BeatAwaited'
<1>0. /\ TypeOK /\ kind \in Seq(Kinds) /\ Len(kind) <= MaxReq /\ MaxReq \in Nat /\ Len(kind) \in Nat
      /\ code \in [Msgs -> Codes]
  BY MessageTypes DEF TypeInv
<1>1. PostFromIo("heartbeat", isOnline_, Tail(ioQ)) /\ ~ioStopped
  BY DEF RunDoHeartbeat, Runs
<1>2. Len(kind) # MaxReq
  <2>1. Len(kind) = MaxReq => kind' = kind
    BY <1>1 DEF PostFromIo, msgVars
  <2>2. kind' # kind \/ Len(kind) < MaxReq
    OBVIOUS
  <2> QED
    BY <1>0, <2>1, <2>2
<1>3. PICK c \in Msgs : c = Len(kind) + 1
  BY <1>0, <1>2 DEF Msgs
<1>4. /\ kind' = Append(kind, "heartbeat")
      /\ code' = [code EXCEPT ![c] = PackageCode(isOnline_)]
      /\ RM!Put(c, MsgId(c))
  BY <1>1, <1>2, <1>3 DEF PostFromIo
<1>5. c \in 1..Len(kind') /\ c <= Len(kind') /\ kind'[c] = "heartbeat"
  BY <1>0, <1>3, <1>4
<1>6. code'[c] = "eSuccess"
  BY <1>0, <1>1, <1>3, <1>4 DEF PackageCode
<1>7. calls'[c] = <<>>
  <2>1. idOf[c] = NoId /\ calls' = calls
    BY <1>4 DEF RM!Put
  <2> QED
    BY <1>3, <2>1 DEF TypeInv, RMP!IInv, RMP!OnlyAfterPut
<1> QED
  BY <1>5, <1>6, <1>7 DEF BeatAwaited, Blocked

(* The heartbeat timer runs until it expires. *)
LEMMA WaitStays ==
    ASSUME heartbeatWait, Next \/ UNCHANGED vars, ~HeartbeatFires
    PROVE  heartbeatWait'
<1>1. CASE AppStep \/ ReplyDeliver
  BY <1>1 DEF AppStep, Start, StopIo, StopRest, PostMessage, PublishMessage, PostMade, ReplyDeliver
<1>2. CASE IoStep
  BY <1>2 DEF IoStep, RunStartWrite, RunWrittenFind, RunWrittenRest, RunDoRead, RunDoConnect, RunConnected,
              RunDoConnectFailed, RunDoClose, RunDoHeartbeat, StartHeartbeatTimer
<1>3. CASE AsioStep \/ ServerStep
  BY <1>3 DEF AsioStep, ConnectCompletes, WriteCompletes, ReadCompletes, ReadFails, IoRunsOut, TimerFires,
              ServerStep, ServerPushes, ConnectionLost, ServerReplies
<1>4. CASE (\E id \in Ids : RunOnTimeout(id)) \/ DoResponse \/ UNCHANGED vars
  BY <1>4 DEF RunOnTimeout, DoResponse, Callback, vars
<1> QED
  BY <1>1, <1>2, <1>3, <1>4 DEF Next

(* Only doConnect() brings the client online. *)
LEMMA OnlineStep ==
    ASSUME Next \/ UNCHANGED vars, isOnline_', ~isOnline_
    PROVE  RunDoConnect
<1>1. CASE AppStep \/ ReplyDeliver
  BY <1>1 DEF AppStep, Start, StopIo, StopRest, PostMessage, PublishMessage, PostMade, ReplyDeliver, connVars
<1>2. CASE IoStep
  BY <1>2 DEF IoStep, RunStartWrite, RunWrittenFind, RunWrittenRest, RunDoRead, RunConnected,
              RunDoConnectFailed, RunDoClose, RunDoHeartbeat, connVars
<1>3. CASE AsioStep \/ ServerStep
  BY <1>3 DEF AsioStep, ConnectCompletes, WriteCompletes, ReadCompletes, ReadFails, IoRunsOut, TimerFires,
              HeartbeatFires, ServerStep, ServerPushes, ConnectionLost, ServerReplies, connVars
<1>4. CASE (\E id \in Ids : RunOnTimeout(id)) \/ DoResponse \/ UNCHANGED vars
  BY <1>4 DEF RunOnTimeout, DoResponse, vars, connVars
<1> QED
  BY <1>1, <1>2, <1>3, <1>4 DEF Next

(* A step takes one form of a heartbeat that is under way to another. *)
LEMMA BeatStep ==
    ASSUME TypeInv, HeartbeatAlive, Next \/ UNCHANGED vars
    PROVE  HeartbeatAlive'
<1> DEFINE Beat == heartbeatWait \/ AtHead("connected") \/ Contains(ioQ, DoHeartbeat) \/ BeatAwaited
<1> SUFFICES ASSUME Heartbeats, isOnline_', Len(kind') < MaxReq PROVE Beat'
  BY DEF HeartbeatAlive, BeatAwaited
<1>0. TypeOK /\ ioQ \in Seq(Handlers) /\ Len(kind) \in Nat /\ MaxReq \in Nat
  BY MessageTypes DEF TypeInv
<1>1. CASE ~isOnline_
  <2>1. RunDoConnect
    BY <1>1, OnlineStep
  <2>2. ioQ # <<>> /\ ioQ' = <<Connected>> \o Tail(ioQ)
    BY <2>1 DEF RunDoConnect, Runs, AtHead
  <2>3. ioQ' # <<>> /\ Head(ioQ') = Connected
    BY <1>0, <2>2
  <2> QED
    BY <2>3, HandlerKinds DEF AtHead
<1>2. CASE isOnline_
  <2>1. Len(kind) < MaxReq
    <3>1. Len(kind) <= Len(kind') /\ Len(kind') \in Nat
      BY <1>0, KindGrows
    <3> QED
      BY <1>0, <3>1
  <2>2. Beat
    BY <1>2, <2>1 DEF HeartbeatAlive, BeatAwaited
  <2>3. ASSUME heartbeatWait PROVE heartbeatWait' \/ Contains(ioQ, DoHeartbeat)'
    <3>1. ASSUME HeartbeatFires PROVE Contains(ioQ, DoHeartbeat)'
      <4>1. ioQ' = Append(ioQ, DoHeartbeat)
        BY <3>1 DEF HeartbeatFires
      <4>2. Len(ioQ) + 1 \in 1..Len(ioQ') /\ ioQ'[Len(ioQ) + 1] = DoHeartbeat
        BY <1>0, <4>1
      <4> QED
        BY <4>2 DEF Contains
    <3> QED
      BY <2>3, <3>1, WaitStays
  <2>4. AtHead("connected") => AtHead("connected")' \/ heartbeatWait'
    BY <1>0, ToStartStays
  <2>5. Contains(ioQ, DoHeartbeat) => Contains(ioQ, DoHeartbeat)' \/ BeatAwaited'
    BY <1>0, <1>2, QueuedStays, BeatPosted
  <2>6. BeatAwaited => BeatAwaited' \/ heartbeatWait'
    BY AwaitedStays
  <2> QED
    BY <2>2, <2>3, <2>4, <2>5, <2>6
<1> QED
  BY <1>1, <1>2

(* While the client is online its heartbeats do not stop: always a timer,  *)
(* a queued handler or an awaited callback leads to the next one.          *)
THEOREM HeartbeatAliveHolds == Spec => []HeartbeatAlive
<1>1. Init => HeartbeatAlive
  BY DEF Init, HeartbeatAlive
<1>2. CoreInv /\ HeartbeatAlive /\ [Next]_vars => HeartbeatAlive'
  <2> SUFFICES ASSUME CoreInv, HeartbeatAlive, Next \/ UNCHANGED vars PROVE HeartbeatAlive'
    OBVIOUS
  <2> QED
    BY BeatStep DEF CoreInv
<1> QED
  BY <1>1, <1>2, Core, PTL DEF Spec

-----------------------------------------------------------------------------
(***************************************************************************)
(* postMessage() keeps its contract                                        *)
(***************************************************************************)

(* postPackage() answers for message n. *)
AnswersFor(n) == \E c \in Codes : code' = [code EXCEPT ![n] = c]

(* A message is accepted: its package is posted and its answer is eSuccess. *)
PostsAccepted ==
    \E p \in Packages : /\ p.n \in Msgs /\ code'[p.n] = "eSuccess"
                        /\ posted' = Append(posted, p)

(* The answers of postPackage(). *)
LEMMA PackageCodes == \A online : PackageCode(online) \in Codes
BY DEF PackageCode, Codes

(* postMessage() in a handler accepts the message it makes, or none. *)
LEMMA PostFromIoAccepts ==
    ASSUME TypeOK, NEW k \in Kinds \ {"pub"}, NEW online, NEW q, PostFromIo(k, online, q)
    PROVE  /\ UNCHANGED code \/ \E n \in Msgs : n = Len(kind') /\ n > Len(kind) /\ AnswersFor(n)
           /\ UNCHANGED posted \/ PostsAccepted
<1>0. /\ kind \in Seq(Kinds) /\ Len(kind) <= MaxReq /\ MaxReq \in Nat /\ Len(kind) \in Nat
      /\ code \in [Msgs -> Codes]
  BY MessageTypes
<1>1. CASE Len(kind) = MaxReq
  BY <1>1 DEF PostFromIo, msgVars
<1>2. CASE Len(kind) # MaxReq
  <2>1. PICK c \in Msgs : c = Len(kind) + 1
    BY <1>0, <1>2 DEF Msgs
  <2>2. /\ kind' = Append(kind, k)
        /\ code' = [code EXCEPT ![c] = PackageCode(online)]
        /\ PostPackage(Package(c), online, q)
    BY <1>2, <2>1 DEF PostFromIo
  <2>3. Len(kind') = c /\ c > Len(kind) /\ kind'[c] = k
    BY <1>0, <2>1, <2>2
  <2>4. AnswersFor(c)
    BY <1>0, <2>2, PackageCodes DEF AnswersFor
  <2>5. UNCHANGED posted \/ PostsAccepted
    <3>1. PICK p \in Packages : p = Package(c) /\ p.n = c
      BY Makes DEF Package
    <3>2. posted' = posted \/ (PackageCode(online) = "eSuccess" /\ posted' = Append(posted, p))
      BY <2>2, <3>1 DEF PostPackage
    <3>3. PackageCode(online) = "eSuccess" => code'[p.n] = "eSuccess" /\ p.n \in Msgs
      BY <1>0, <2>2, <3>1
    <3> QED
      BY <3>1, <3>2, <3>3 DEF PostsAccepted
  <2> QED
    BY <2>3, <2>4, <2>5
<1> QED
  BY <1>1, <1>2

(* What a step does to the answers of postPackage() and to the accepted    *)
(* packages: it answers for one message that had no answer, and accepts    *)
(* the package it answered eSuccess for.                                   *)
LEMMA AcceptStep ==
    ASSUME TypeOK, Next \/ UNCHANGED vars, tasks = <<>>
    PROVE  /\ \/ UNCHANGED code
              \/ \E n \in Msgs : /\ n <= Len(kind') /\ AnswersFor(n)
                                 /\ n > Len(kind) \/ (code[n] = "none" /\ kind' = kind)
           /\ UNCHANGED posted \/ PostsAccepted
<1> DEFINE Goal ==
      /\ \/ UNCHANGED code
         \/ \E n \in Msgs : /\ n <= Len(kind') /\ AnswersFor(n)
                            /\ n > Len(kind) \/ (code[n] = "none" /\ kind' = kind)
      /\ UNCHANGED posted \/ PostsAccepted
<1>0. /\ code \in [Msgs -> Codes] /\ "sub" \in Kinds \ {"pub"} /\ "heartbeat" \in Kinds \ {"pub"}
      /\ Len(tasks) = 0
  BY DEF TypeOK, Kinds
<1>1. UNCHANGED <<code, posted>> => Goal
  OBVIOUS
<1>2. ASSUME NEW n \in Msgs, PostMade(n) PROVE Goal
  <2>1. /\ n <= Len(kind) /\ code[n] = "none" /\ kind' = kind
        /\ code' = [code EXCEPT ![n] = PackageCode(isOnline_)]
        /\ PostPackage(Package(n), isOnline_, ioQ)
    BY <1>2 DEF PostMade
  <2>2. AnswersFor(n)
    BY <1>0, <2>1, PackageCodes DEF AnswersFor
  <2>3. UNCHANGED posted \/ PostsAccepted
    <3>1. PICK p \in Packages : p = Package(n) /\ p.n = n
      BY Makes DEF Package
    <3>2. posted' = posted \/ (PackageCode(isOnline_) = "eSuccess" /\ posted' = Append(posted, p))
      BY <2>1, <3>1 DEF PostPackage
    <3>3. PackageCode(isOnline_) = "eSuccess" => code'[p.n] = "eSuccess" /\ p.n \in Msgs
      BY <1>0, <2>1, <3>1
    <3> QED
      BY <3>1, <3>2, <3>3 DEF PostsAccepted
  <2> QED
    BY <2>1, <2>2, <2>3
<1>3. ASSUME NEW k \in Kinds \ {"pub"}, PostFromIo(k, isOnline_, Tail(ioQ)) PROVE Goal
  <2>1. \A n \in Msgs : n = Len(kind') => n <= Len(kind')
    BY DEF Msgs
  <2> QED
    BY <1>3, <2>1, PostFromIoAccepts
<1>4. RunConnected => PostFromIo("sub", isOnline_, Tail(ioQ)) \/ UNCHANGED <<code, posted>>
  BY DEF RunConnected, StartSubscribe, msgVars
<1>5. RunDoHeartbeat => PostFromIo("heartbeat", isOnline_, Tail(ioQ))
  BY DEF RunDoHeartbeat
<1>6. ~ReplyDeliver
  BY <1>0 DEF ReplyDeliver
<1>7. ASSUME Start \/ StopIo \/ StopRest \/ PostMessage \/ PublishMessage PROVE UNCHANGED <<code, posted>>
  BY <1>7 DEF Start, StopIo, StopRest, PostMessage, PublishMessage, msgVars
<1>8. ASSUME RunStartWrite \/ RunDoRead \/ RunDoConnect \/ RunDoConnectFailed \/ RunDoClose
             \/ RunWrittenFind \/ RunWrittenRest
      PROVE  UNCHANGED <<code, posted>>
  BY <1>8 DEF RunStartWrite, RunDoRead, RunDoConnect, RunDoConnectFailed, RunDoClose, RunWrittenFind,
              RunWrittenRest, msgVars
<1>9. ASSUME AsioStep \/ ServerStep PROVE UNCHANGED <<code, posted>>
  BY <1>9 DEF AsioStep, ConnectCompletes, WriteCompletes, ReadCompletes, ReadFails, HeartbeatFires, IoRunsOut,
              TimerFires, ServerStep, ServerPushes, ConnectionLost, ServerReplies, msgVars
<1>10. ASSUME (\E id \in Ids : RunOnTimeout(id)) \/ DoResponse \/ UNCHANGED vars
       PROVE  UNCHANGED <<code, posted>>
  BY <1>10 DEF RunOnTimeout, DoResponse, vars, msgVars
<1> HIDE DEF Goal
<1>11. Goal
  BY <1>0, <1>1, <1>2, <1>3, <1>4, <1>5, <1>6, <1>7, <1>8, <1>9, <1>10 DEF Next, AppStep, IoStep
<1> QED
  BY <1>11 DEF Goal

(* Which messages a step begins to time: the one startTimer() found when a *)
(* write completed, and no other.                                          *)
LEMMA TimedStep ==
    ASSUME TypeInv, Next \/ UNCHANGED vars
    PROVE  /\ arming' # NoData => arming' = arming \/ RunWrittenFind
           /\ \A n \in Msgs : waits'[n] > 0 => waits[n] > 0 \/ n = arming
           /\ \A n \in expired' : n \in expired \/ (n \in Msgs /\ waits[n] > 0)
<1>0. TypeOK /\ waits \in [Msgs -> Nat] /\ arming \in Msgs \cup {NoData}
  BY DEF TypeInv, TypeOK, RM!TypeOK
<1>1. \A w \in [Msgs -> Nat] : \A c, a : \A n \in Msgs : RM!WaitsKept(w, c, a)[n] > 0 => w[n] > 0
  BY DEF RM!WaitsKept
<1>2. ASSUME NEW d, NEW id, RM!Put(d, id)
      PROVE  UNCHANGED <<arming, expired>> /\ \A n \in Msgs : waits'[n] > 0 => waits[n] > 0
  BY <1>0, <1>1, <1>2 DEF RM!Put
<1>3. ASSUME NEW id, NEW r, RM!Pick(id, r) PROVE \A n \in Msgs : waits'[n] > 0 => waits[n] > 0
  BY <1>0, <1>1, <1>3 DEF RM!Pick
<1>4. ASSUME RM!StartTimerWait
      PROVE  /\ UNCHANGED expired /\ arming' = NoData
             /\ \A n \in Msgs : waits'[n] > 0 => waits[n] > 0 \/ n = arming
  <2>1. PICK w \in [Msgs -> Nat] : w = [waits EXCEPT ![arming] = @ + 1]
    <3>1. arming \in Msgs /\ waits[arming] + 1 \in Nat
      BY <1>0, <1>4 DEF RM!StartTimerWait
    <3>2. [waits EXCEPT ![arming] = @ + 1] \in [Msgs -> Nat]
      BY <1>0, <3>1
    <3> QED
      BY <3>2
  <2>2. \A n \in Msgs : waits'[n] > 0 => w[n] > 0
    BY <1>1, <1>4, <2>1 DEF RM!StartTimerWait
  <2>3. \A n \in Msgs : w[n] > 0 => waits[n] > 0 \/ n = arming
    BY <1>0, <2>1
  <2> QED
    BY <1>4, <2>2, <2>3 DEF RM!StartTimerWait
<1>5. ASSUME NEW d \in Msgs, RM!TimerFires(d)
      PROVE  /\ UNCHANGED arming /\ expired' = expired \cup {d} /\ waits[d] > 0
             /\ \A n \in Msgs : waits'[n] > 0 => waits[n] > 0
  BY <1>0, <1>5 DEF RM!TimerFires
<1>6. UNCHANGED tableVars => UNCHANGED <<arming, waits, expired>>
  BY DEF tableVars
<1>7. CASE AppStep
  BY <1>2, <1>6, <1>7 DEF AppStep, Start, StopIo, StopRest, PostMessage, PublishMessage, PostMade
<1>8. CASE IoStep
  <2>1. RunWrittenFind => UNCHANGED <<waits, expired>>
    BY DEF RunWrittenFind, RM!StartTimerFind
  <2>2. RunWrittenRest => RM!StartTimerWait \/ UNCHANGED tableVars
    BY DEF RunWrittenRest, TimerRest
  <2>3. RunConnected \/ RunDoHeartbeat => (\E d, id : RM!Put(d, id)) \/ UNCHANGED tableVars
    BY DEF RunConnected, RunDoHeartbeat, StartSubscribe, PostFromIo
  <2>4. RunStartWrite \/ RunDoRead \/ RunDoConnect \/ RunDoConnectFailed \/ RunDoClose => UNCHANGED tableVars
    BY DEF RunStartWrite, RunDoRead, RunDoConnect, RunDoConnectFailed, RunDoClose
  <2> QED
    BY <1>2, <1>4, <1>6, <1>8, <2>1, <2>2, <2>3, <2>4 DEF IoStep
<1>9. CASE AsioStep
  <2>1. ConnectCompletes \/ WriteCompletes \/ ReadCompletes \/ ReadFails \/ HeartbeatFires \/ IoRunsOut
            => UNCHANGED tableVars
    BY DEF ConnectCompletes, WriteCompletes, ReadCompletes, ReadFails, HeartbeatFires, IoRunsOut
  <2> QED
    BY <1>5, <1>6, <1>9, <2>1 DEF AsioStep, TimerFires
<1>10. CASE ServerStep \/ ReplyDeliver \/ UNCHANGED vars
  BY <1>6, <1>10 DEF ServerStep, ServerPushes, ConnectionLost, ServerReplies, ReplyDeliver, vars
<1>11. CASE (\E id \in Ids : RunOnTimeout(id)) \/ DoResponse
  <2>1. \A id \in Ids : RunOnTimeout(id) => UNCHANGED <<arming, expired>> /\ RM!Pick(id, eTimeout)
    BY DEF RunOnTimeout, RM!OnTimeout
  <2>2. DoResponse => \/ UNCHANGED <<arming, expired>> /\ \E id, r : RM!Pick(id, r)
                      \/ UNCHANGED tableVars
    BY DEF DoResponse, RM!OnResponse
  <2> QED
    BY <1>3, <1>6, <1>11, <2>1, <2>2
<1> QED
  BY <1>7, <1>8, <1>9, <1>10, <1>11 DEF Next

(* What was accepted stays accepted. *)
LEMMA AcceptedStays ==
    ASSUME TypeOK, AcceptedInv, Next \/ UNCHANGED vars, NEW n \in Msgs, Accepted(n)
    PROVE  Accepted(n)'
<1>1. ~(n > Len(kind)) /\ code[n] = "eSuccess"
  BY DEF AcceptedInv, Accepted
<1>2. n \in 1..Len(kind)
  BY <1>1 DEF TypeOK, Msgs
<1> QED
  BY <1>1, <1>2, CodeStep DEF Accepted

(* The request of an id is the one message of that id. *)
LEMMA OneOfId ==
    ASSUME PlainClient, MadeInv, NEW m \in Msgs, NEW n \in Msgs, idOf[m] = MsgId(n)
    PROVE  m = n
<1>1. idOf[m] # NoId
  BY Makes, TableAssumption
<1>2. MsgId(m) = MsgId(n)
  BY <1>1 DEF MadeInv, Put
<1> QED
  BY <1>2 DEF PlainClient

(* The message startTimer() finds for a completed write was accepted: it   *)
(* is the one that was written.                                            *)
LEMMA FoundIsAccepted ==
    ASSUME PlainClient, TypeInv, SingleWriter, NothingLost, MadeInv, AcceptedInv, RunWrittenFind
    PROVE  arming' \in Msgs /\ Accepted(arming')
<1>0. TypeOK /\ ioQ \in Seq(Handlers)
  BY DEF TypeInv, TypeOK
<1>1. ioQ # <<>> /\ Head(ioQ).h = "written" /\ RM!StartTimerFind(Head(ioQ).p.id)
  BY DEF RunWrittenFind, Runs, AtHead
<1>2. Head(ioQ) \in Handlers
  BY <1>0, <1>1
<1>3. PICK p \in Packages : p = Head(ioQ).p
  BY <1>1, <1>2, HandlerFields
<1>4. pendingList_ # <<>> /\ p = Head(pendingList_)
  BY <1>0, <1>1, <1>3, FrontIsWritten DEF AtHead
<1>5. PICK i \in 1..Len(posted) : posted[i] = p
  BY <1>0, <1>4, FrontIsPosted
<1>6. p.n # 0 /\ Accepted(p.n)
  BY <1>5 DEF AcceptedInv
<1>7. p.n \in Msgs /\ p.id = MsgId(p.n) /\ p.id \in Ids
  BY <1>6, PackageFields
<1>8. arming' = cache_[p.id] /\ cache_[p.id] # NoData
  BY <1>1, <1>3 DEF RM!StartTimerFind
<1>9. cache_[p.id] \in Msgs /\ idOf[cache_[p.id]] = p.id
  BY <1>7, <1>8 DEF TypeInv, RMP!IInv, RMP!TypeOK, RMP!CacheIsPending
<1>10. cache_[p.id] = p.n
  BY <1>7, <1>9, OneOfId
<1> QED
  BY <1>6, <1>7, <1>8, <1>10

(* What the contract counts as reported. *)
Reports == [n \in Msgs |-> Reported(n)]

(* A callback that runs is reported, unless it is given nobody's answer.   *)
LEMMA CallReports ==
    ASSUME TypeInv, NEW x \in Msgs, NEW r \in Rsps \cup {eTimeout},
           calls[x] = <<>>, calls' = [calls EXCEPT ![x] = <<r>>]
    PROVE  /\ r = 0 => Reports' = Reports
           /\ r # 0 => /\ Reports[x] = <<>> /\ r \in Msgs \cup {eTimeout}
                       /\ Reports' = [Reports EXCEPT ![x] = <<r>>]
<1>1. calls \in [Msgs -> Seq(Rsps \cup {eTimeout})]
  BY DEF TypeInv, RMP!IInv, RMP!TypeOK, RMP!Results
<1>2. calls'[x] = <<r>> /\ \A n \in Msgs : n # x => calls'[n] = calls[n]
  BY <1>1
<1>3. <<r>> # <<>> /\ (<<r>> = <<0>> <=> r = 0)
  OBVIOUS
<1>4. r # 0 => r \in Msgs \cup {eTimeout}
  BY ClientAssumption DEF Rsps, Msgs
<1>5. \A n \in Msgs : Reports[n] = Reported(n) /\ Reports'[n] = Reported(n)'
  BY DEF Reports
<1>6. /\ Reported(x) = <<>> /\ Reported(x)' = (IF r = 0 THEN <<>> ELSE <<r>>)
      /\ \A n \in Msgs : n # x => Reported(n)' = Reported(n)
  BY <1>2, <1>3 DEF Reported
<1>7. CASE r = 0
  <2>1. \A n \in Msgs : Reports'[n] = Reports[n]
    BY <1>5, <1>6, <1>7
  <2>2. Reports' = Reports
    BY <2>1 DEF Reports
  <2> QED
    BY <1>7, <2>2
<1>8. CASE r # 0
  <2>1. \A n \in Msgs : Reports'[n] = [Reports EXCEPT ![x] = <<r>>][n]
    BY <1>5, <1>6, <1>8 DEF Reports
  <2>2. Reports' = [Reports EXCEPT ![x] = <<r>>]
    BY <2>1 DEF Reports
  <2> QED
    BY <1>4, <1>5, <1>6, <1>8, <2>2
<1> QED
  BY <1>7, <1>8

(* A callback runs for an accepted message, or with nobody's answer.       *)
LEMMA CalledIsAccepted ==
    ASSUME PlainClient, TypeInv, MadeInv, AcceptedInv, Next \/ UNCHANGED vars
    PROVE  \/ UNCHANGED Reports
           \/ \E x \in Msgs, r \in Msgs \cup {eTimeout} :
                  /\ Accepted(x) /\ idOf[x] # NoId /\ Reports[x] = <<>>
                  /\ Reports' = [Reports EXCEPT ![x] = <<r>>] /\ UNCHANGED <<kind, code>>
<1> DEFINE Reporting ==
      \E x \in Msgs, r \in Msgs \cup {eTimeout} :
          /\ Accepted(x) /\ idOf[x] # NoId /\ Reports[x] = <<>>
          /\ Reports' = [Reports EXCEPT ![x] = <<r>>] /\ UNCHANGED <<kind, code>>
<1>1. ASSUME NEW x \in Msgs, NEW r \in Rsps \cup {eTimeout}, Accepted(x) \/ r = 0, idOf[x] # NoId,
             calls[x] = <<>>, calls' = [calls EXCEPT ![x] = <<r>>], UNCHANGED <<kind, code>>
      PROVE  UNCHANGED Reports \/ Reporting
  <2>1. CASE r = 0
    BY <1>1, <2>1, CallReports
  <2>2. CASE r # 0
    BY <1>1, <2>2, CallReports
  <2> QED
    BY <2>1, <2>2
<1>2. CASE UNCHANGED calls
  <2>1. \A n \in Msgs : Reported(n)' = Reported(n)
    BY <1>2 DEF Reported
  <2>2. UNCHANGED Reports
    BY <2>1 DEF Reports
  <2> QED
    BY <2>2
<1>3. ASSUME NEW id \in Ids, RunOnTimeout(id), due[id] > 0, Calls(id, eTimeout)
      PROVE  UNCHANGED Reports \/ Reporting
  <2>1. PICK x \in Msgs : /\ x = cache_[id] /\ idOf[x] = id /\ calls[x] = <<>>
                          /\ calls' = [calls EXCEPT ![x] = <<eTimeout>>]
    BY <1>3 DEF Calls
  <2>2. PICK e \in expired : idOf[e] = id
    BY <1>3 DEF TypeInv, RMP!IInv, RMP!DueIsExpired
  <2>3. e \in Msgs
    BY <2>2 DEF TypeInv, RMP!IInv, RMP!TypeOK
  <2>4. id # NoId
    BY TableAssumption
  <2>5. idOf[e] = MsgId(e)
    BY <2>2, <2>3, <2>4 DEF MadeInv, Put
  <2>6. x = e
    BY <2>1, <2>2, <2>3, <2>5, OneOfId
  <2>7. Accepted(x)
    BY <2>2, <2>3, <2>6 DEF AcceptedInv
  <2>8. UNCHANGED <<kind, code>>
    BY <1>3 DEF RunOnTimeout, msgVars
  <2> QED
    BY <1>1, <2>1, <2>4, <2>7, <2>8
<1>4. ASSUME DoResponse, respQ # <<>>, Head(respQ) \in Inputs, Head(respQ).type = "REQREP",
             Calls(Head(respQ).id, Head(respQ).n)
      PROVE  UNCHANGED Reports \/ Reporting
  <2>1. PICK m \in Inputs : m = Head(respQ) /\ Calls(m.id, m.n)
    BY <1>4
  <2>2. m.id \in Ids /\ m.n \in Rsps /\ (m.n # 0 => m.n \in Msgs /\ m.id = MsgId(m.n))
    BY InputFields
  <2>3. PICK x \in Msgs : /\ x = cache_[m.id] /\ idOf[x] = m.id /\ calls[x] = <<>>
                          /\ calls' = [calls EXCEPT ![x] = <<m.n>>]
    BY <2>1 DEF Calls
  <2>4. ASSUME m.n # 0 PROVE Accepted(x)
    <3>1. m = respQ[1] /\ 1 \in 1..Len(respQ)
      BY <1>4, <2>1 DEF TypeInv, TypeOK
    <3>2. PICK k \in Msgs : k = m.n /\ m.id = MsgId(k)
      BY <2>2, <2>4
    <3>3. Accepted(k)
      BY <2>4, <3>1, <3>2 DEF AcceptedInv, AcceptedAnswers
    <3>4. x = k
      BY <2>3, <3>2, OneOfId
    <3> QED
      BY <3>3, <3>4
  <2>5. idOf[x] # NoId
    BY <2>2, <2>3, TableAssumption
  <2>6. UNCHANGED <<kind, code>>
    BY <1>4 DEF DoResponse, msgVars
  <2> QED
    BY <1>1, <2>2, <2>3, <2>4, <2>5, <2>6
<1>5. UNCHANGED Reports \/ Reporting
  BY <1>2, <1>3, <1>4, CallStep
<1> QED
  BY <1>5

(* The inputs that are pushes, or answers to an accepted message. *)
AcceptedInputs == {m \in Inputs : m.n # 0 => Accepted(m.n)}

(* AcceptedAnswers is about what a queue holds. *)
LEMMA AcceptedAnswersIs ==
    ASSUME NEW q \in Seq(Inputs)
    PROVE  AcceptedAnswers(q) <=> q \in Seq(AcceptedInputs)
<1>1. ASSUME AcceptedAnswers(q) PROVE q \in Seq(AcceptedInputs)
  <2>1. \A i \in 1..Len(q) : q[i] \in AcceptedInputs
    BY <1>1 DEF AcceptedAnswers, AcceptedInputs
  <2> QED
    BY <2>1
<1>2. ASSUME q \in Seq(AcceptedInputs) PROVE AcceptedAnswers(q)
  <2>1. \A i \in 1..Len(q) : q[i] \in AcceptedInputs
    BY <1>2
  <2> QED
    BY <2>1 DEF AcceptedAnswers, AcceptedInputs
<1> QED
  BY <1>1, <1>2

(* The answers under way are those of accepted messages. *)
LEMMA AcceptedMove ==
    ASSUME TypeInv, AcceptedInv, Next \/ UNCHANGED vars
    PROVE  /\ AcceptedAnswers(inbound)' /\ AcceptedAnswers(tempBuf_)' /\ AcceptedAnswers(readBuffer_)'
           /\ AcceptedAnswers(respQ)'
<1>0. /\ TypeOK /\ peer \subseteq Msgs
      /\ inbound \in Seq(Inputs) /\ tempBuf_ \in Seq(Inputs) /\ readBuffer_ \in Seq(Inputs)
      /\ respQ \in Seq(Inputs)
  BY DEF TypeInv, TypeOK
<1>1. /\ inbound \in Seq(AcceptedInputs) /\ tempBuf_ \in Seq(AcceptedInputs)
      /\ readBuffer_ \in Seq(AcceptedInputs) /\ respQ \in Seq(AcceptedInputs)
  BY <1>0, AcceptedAnswersIs DEF AcceptedInv
<1>2. \A n \in peer : Answer(n) \in AcceptedInputs
  <2>1. ASSUME NEW n \in peer PROVE Answer(n) \in Inputs /\ Answer(n).n = n /\ Accepted(n)
    BY <1>0, Makes DEF Answer, AcceptedInv
  <2> QED
    BY <2>1 DEF AcceptedInputs
<1>3. AcceptedInputs \in SUBSET Inputs /\ Pushes \subseteq AcceptedInputs /\ Mixed \subseteq AcceptedInputs
  BY DEF AcceptedInputs, Inputs, Mixed, Pushes, Push
<1>4. PICK S \in SUBSET Inputs : S = AcceptedInputs
  BY <1>3
<1>5. /\ inbound' \in Seq(S) /\ tempBuf_' \in Seq(S) /\ readBuffer_' \in Seq(S)
      /\ respQ' \in Seq(S)
  BY <1>1, <1>2, <1>3, <1>4, InputsMove
<1>6. \A m \in S : m.n # 0 => Accepted(m.n)'
  <2>1. \A m \in S : m.n # 0 => m.n \in Msgs /\ Accepted(m.n)
    BY <1>4, InputFields DEF AcceptedInputs
  <2> QED
    BY <1>0, <2>1, AcceptedStays
<1>7. ASSUME NEW q \in Seq(S) PROVE \A i \in 1..Len(q) : q[i].n # 0 => Accepted(q[i].n)'
  <2>1. \A i \in 1..Len(q) : q[i] \in S
    OBVIOUS
  <2> QED
    BY <1>6, <2>1
<1> QED
  BY <1>5, <1>7 DEF AcceptedAnswers

(* Every step keeps to accepted messages. *)
LEMMA AcceptedStep ==
    ASSUME PlainClient, TypeInv, SingleWriter, NothingLost, MadeInv, AcceptedInv, Next \/ UNCHANGED vars
    PROVE  AcceptedInv'
<1>0. /\ TypeOK /\ kind \in Seq(Kinds) /\ Len(kind) \in Nat /\ posted \in Seq(Packages) /\ peer \subseteq Msgs
      /\ code \in [Msgs -> Codes]
  BY DEF TypeInv, TypeOK
<1>01. Len(kind) <= Len(kind') /\ Len(kind') \in Nat
  BY <1>0, KindGrows
<1>02. \A n \in Msgs : Accepted(n) => Accepted(n)'
  BY <1>0, AcceptedStays
<1>03. \A n \in Msgs : Accepted(n) => code'[n] = "eSuccess"
  BY <1>02 DEF Accepted
<1>04. \A n \in Msgs : n \in Nat
  BY DEF Msgs
<1>05. tasks = <<>>
  BY DEF AcceptedInv
<1>1. \A n \in Msgs : n > Len(kind') => code'[n] = "none"
  <2>1. \A n \in Msgs : n > Len(kind') => code[n] = "none"
    BY <1>0, <1>01, <1>04 DEF AcceptedInv
  <2>2. ASSUME NEW n \in Msgs, n <= Len(kind'), AnswersFor(n), NEW m \in Msgs, m > Len(kind')
        PROVE  code'[m] = code[m]
    <3>1. m # n
      BY <1>01, <1>04, <2>2
    <3> QED
      BY <1>0, <2>2, <3>1 DEF AnswersFor
  <2> QED
    BY <1>0, <1>05, <2>1, <2>2, AcceptStep
<1>2. \A n \in Msgs : idOf'[n] # NoId => n <= Len(kind') /\ kind'[n] # "pub"
  <2>1. \A n \in Msgs : idOf[n] # NoId => n <= Len(kind) /\ kind[n] # "pub"
    BY DEF AcceptedInv
  <2>2. CASE UNCHANGED <<kind, idOf>>
    BY <2>1, <2>2
  <2>3. ASSUME NEW k \in Kinds, MakesNext(k), NEW n \in Msgs, idOf'[n] # NoId
        PROVE  n <= Len(kind') /\ kind'[n] # "pub"
    <3>1. kind' = Append(kind, k) /\ Len(kind') = Len(kind) + 1 /\ kind'[Len(kind) + 1] = k
      BY <1>0, <2>3 DEF MakesNext
    <3>2. idOf[n] # NoId => n \in 1..Len(kind) /\ kind'[n] = kind[n]
      BY <1>0, <2>1, <3>1 DEF Msgs
    <3>3. CASE idOf[n] # NoId
      BY <1>0, <1>01, <1>04, <2>1, <3>2, <3>3
    <3>4. CASE idOf[n] = NoId
      <4>1. idOf \in [Msgs -> Ids \cup {NoId}]
        BY <1>0 DEF TypeOK, RM!TypeOK
      <4>2. k # "pub" /\ n = Len(kind) + 1
        BY <2>3, <3>4, <4>1 DEF MakesNext
      <4> QED
        BY <1>0, <1>04, <3>1, <4>2
    <3> QED
      BY <3>3, <3>4
  <2> QED
    BY <1>0, <2>2, <2>3, MakeStep
<1>3. tasks' = <<>>
  <2>1. ~ReplyDeliver
    BY <1>05 DEF ReplyDeliver
  <2>2. DoResponse => tasks' = tasks
    BY DEF DoResponse, OnPackage, PlainClient
  <2>3. AppStep \/ (\E id \in Ids : RunOnTimeout(id)) \/ UNCHANGED vars => tasks' = tasks
    BY DEF AppStep, Start, StopIo, StopRest, PostMessage, PublishMessage, PostMade, RunOnTimeout, vars
  <2>4. IoStep => tasks' = tasks
    BY DEF IoStep, RunStartWrite, RunWrittenFind, RunWrittenRest, RunDoRead, RunDoConnect, RunConnected,
           RunDoConnectFailed, RunDoClose, RunDoHeartbeat
  <2>5. AsioStep \/ ServerStep => tasks' = tasks
    BY DEF AsioStep, ConnectCompletes, WriteCompletes, ReadCompletes, ReadFails, HeartbeatFires, IoRunsOut,
           TimerFires, ServerStep, ServerPushes, ConnectionLost, ServerReplies
  <2> QED
    BY <1>05, <2>1, <2>2, <2>3, <2>4, <2>5 DEF Next
<1>4. \A i \in 1..Len(posted') : posted'[i].n # 0 /\ code'[posted'[i].n] = "eSuccess"
  <2>1. \A i \in 1..Len(posted) : posted[i].n # 0 /\ posted[i].n \in Msgs /\ Accepted(posted[i].n)
    <3>1. \A i \in 1..Len(posted) : posted[i] \in Packages
      BY <1>0
    <3> QED
      BY <3>1, PackageFields DEF AcceptedInv
  <2>2. \A i \in 1..Len(posted) : posted[i].n # 0 /\ code'[posted[i].n] = "eSuccess"
    BY <1>03, <2>1
  <2>3. ASSUME NEW p \in Packages, p.n \in Msgs, code'[p.n] = "eSuccess", posted' = Append(posted, p)
        PROVE  \A i \in 1..Len(posted') : posted'[i].n # 0 /\ code'[posted'[i].n] = "eSuccess"
    <3>1. \A i \in 1..Len(posted') : (i \in 1..Len(posted) /\ posted'[i] = posted[i]) \/ posted'[i] = p
      BY <1>0, <2>3
    <3>2. p.n # 0
      BY <2>3 DEF Msgs
    <3> QED
      BY <2>2, <2>3, <3>1, <3>2
  <2> QED
    BY <1>0, <1>05, <2>2, <2>3, AcceptStep DEF PostsAccepted
<1>5. \A n \in peer' : Accepted(n)'
  <2>1. \A n \in peer' : n \in Msgs /\ (n \in peer \/ \E i \in 1..Len(posted) : posted[i].n = n)
    BY PeerStep
  <2>2. \A n \in peer' : Accepted(n)
    BY <2>1 DEF AcceptedInv
  <2> QED
    BY <1>02, <2>1, <2>2
<1>6. arming' # NoData => Accepted(arming)'
  <2>1. arming' # NoData => arming' \in Msgs /\ Accepted(arming')
    <3>1. arming \in Msgs \cup {NoData}
      BY <1>0 DEF TypeOK, RM!TypeOK
    <3>2. arming' # NoData => arming' = arming \/ RunWrittenFind
      BY TimedStep
    <3> QED
      BY <3>1, <3>2, FoundIsAccepted DEF AcceptedInv
  <2>2. ASSUME arming' # NoData PROVE code'[arming'] = "eSuccess"
    <3>1. PICK a \in Msgs : a = arming' /\ Accepted(a)
      BY <2>1, <2>2
    <3>2. code'[a] = "eSuccess"
      BY <1>02, <3>1 DEF Accepted
    <3> QED
      BY <3>1, <3>2
  <2> QED
    BY <2>2 DEF Accepted
<1>7. \A n \in Msgs : waits'[n] > 0 \/ n \in expired' => Accepted(n)'
  <2>1. \A n \in Msgs : waits'[n] > 0 => waits[n] > 0 \/ n = arming
    BY TimedStep
  <2>2. \A n \in Msgs : n \in expired' => n \in expired \/ waits[n] > 0
    BY TimedStep
  <2>3. \A n \in Msgs : waits[n] > 0 \/ n = arming \/ n \in expired => Accepted(n)
    BY TableAssumption DEF AcceptedInv
  <2> QED
    BY <1>02, <2>1, <2>2, <2>3
<1>8. \A n \in Msgs : Reported(n)' # <<>> => Accepted(n)'
  <2>1. /\ \A n \in Msgs : Reports[n] = Reported(n) /\ Reports'[n] = Reported(n)'
        /\ DOMAIN Reports = Msgs
    BY DEF Reports
  <2>2. \A n \in Msgs : Reported(n) # <<>> => Accepted(n)
    BY DEF AcceptedInv
  <2>3. \A n \in Msgs : Reports'[n] = Reports[n] \/ Accepted(n)
    <3>1. CASE UNCHANGED Reports
      BY <3>1
    <3>2. ASSUME NEW x \in Msgs, NEW r, Accepted(x), Reports' = [Reports EXCEPT ![x] = <<r>>]
          PROVE  \A n \in Msgs : Reports'[n] = Reports[n] \/ Accepted(n)
      BY <2>1, <3>2
    <3> QED
      BY <3>1, <3>2, CalledIsAccepted
  <2> QED
    BY <1>02, <2>1, <2>2, <2>3
<1>9. /\ AcceptedAnswers(inbound)' /\ AcceptedAnswers(tempBuf_)' /\ AcceptedAnswers(readBuffer_)'
      /\ AcceptedAnswers(respQ)'
  BY AcceptedMove
<1> QED
  BY <1>1, <1>2, <1>3, <1>4, <1>5, <1>6, <1>7, <1>8, <1>9 DEF AcceptedInv, Accepted

(* The messages the contract counts as registered. *)
Registered == {n \in Msgs : code[n] = "eSuccess" /\ kind[n] # "pub"}

(* A step of the client is a step of the contract, or none. *)
LEMMA ContractStep ==
    ASSUME PlainClient, TypeInv, MadeInv, AcceptedInv, AcceptedInv', Next \/ UNCHANGED vars
    PROVE  [Contract!Next]_<<Registered, Reports>>
<1>0. /\ TypeOK /\ kind \in Seq(Kinds) /\ Len(kind) \in Nat /\ code \in [Msgs -> Codes] /\ tasks = <<>>
  BY DEF TypeInv, TypeOK, AcceptedInv
<1>01. Len(kind) <= Len(kind') /\ Len(kind') \in Nat /\ \A n \in Msgs : n \in Nat
  BY <1>0, KindGrows DEF Msgs
<1>02. ASSUME NEW n \in Msgs, code[n] # "none" PROVE code'[n] = code[n] /\ kind'[n] = kind[n]
  <2>1. n \in 1..Len(kind)
    BY <1>0, <1>01, <1>02 DEF AcceptedInv, Msgs
  <2> QED
    BY <1>0, <1>02, <2>1, CodeStep
<1>03. Registered \subseteq Registered'
  BY <1>02 DEF Registered
<1>1. ASSUME NEW x \in Msgs, NEW r \in Msgs \cup {eTimeout},
             Accepted(x), idOf[x] # NoId, Reports[x] = <<>>,
             Reports' = [Reports EXCEPT ![x] = <<r>>], UNCHANGED <<kind, code>>
      PROVE  Contract!Next
  <2>1. Registered' = Registered
    BY <1>1 DEF Registered
  <2>2. x \in Registered
    BY <1>1 DEF Registered, Accepted, AcceptedInv
  <2>3. Contract!Complete(x, r)
    BY <1>1, <2>1, <2>2 DEF Contract!Complete, Registered, Reports
  <2> QED
    BY <2>3 DEF Contract!Next
<1>2. CASE UNCHANGED Reports
  <2>1. CASE UNCHANGED code
    <3>1. \A n \in Msgs : n \in Registered' => n \in Registered
      <4>1. ASSUME NEW n \in Msgs, n \in Registered' PROVE n \in Registered
        <5>1. code[n] = "eSuccess" /\ kind'[n] # "pub"
          BY <2>1, <4>1 DEF Registered
        <5>2. kind[n] = kind'[n]
          BY <1>02, <5>1
        <5> QED
          BY <5>1, <5>2 DEF Registered
      <4> QED
        BY <4>1
    <3>2. Registered' = Registered
      BY <1>03, <3>1 DEF Registered
    <3> QED
      BY <1>2, <3>2
  <2>2. ASSUME NEW n \in Msgs, AnswersFor(n), n > Len(kind) \/ (code[n] = "none" /\ kind' = kind)
        PROVE  [Contract!Next]_<<Registered, Reports>>
    <3>1. code[n] = "none"
      BY <2>2 DEF AcceptedInv
    <3>2. \A m \in Msgs : m # n => code'[m] = code[m]
      BY <1>0, <2>2 DEF AnswersFor
    <3>3. ASSUME NEW m \in Msgs, m # n, m \in Registered' PROVE m \in Registered
      <4>1. code[m] = "eSuccess" /\ kind'[m] # "pub"
        BY <3>2, <3>3 DEF Registered
      <4>2. kind[m] = kind'[m]
        BY <1>02, <4>1
      <4> QED
        BY <4>1, <4>2 DEF Registered
    <3>4. n \notin Registered
      BY <3>1 DEF Registered
    <3>5. CASE n \in Registered'
      <4>1. Registered' = Registered \cup {n}
        <5>1. Registered' \subseteq Registered \cup {n}
          BY <3>3 DEF Registered
        <5> QED
          BY <1>03, <3>5, <5>1
      <4>2. Contract!Register(n)
        BY <1>2, <3>4, <4>1 DEF Contract!Register, Registered, Reports
      <4> QED
        BY <4>2 DEF Contract!Next
    <3>6. CASE n \notin Registered'
      <4>1. Registered' = Registered
        <5>1. Registered' \subseteq Registered
          BY <3>3, <3>6 DEF Registered
        <5> QED
          BY <1>03, <5>1
      <4> QED
        BY <1>2, <4>1
    <3> QED
      BY <3>5, <3>6
  <2> QED
    BY <1>0, <2>1, <2>2, AcceptStep
<1> QED
  BY <1>1, <1>2, CalledIsAccepted

(* With message ids that differ and no delivered requests to answer, the   *)
(* client keeps the contract of postMessage(): a callback is given an      *)
(* answer or a timeout at most once, and only if the message was accepted. *)
(* A repeated id, or the answer to a delivered request, can start the      *)
(* timer of a message whose call has reported an error.                    *)
THEOREM ContractHolds == PlainClient => (Spec => ImplementsContract)
<1> SUFFICES ASSUME PlainClient PROVE Spec => ImplementsContract
  OBVIOUS
<1>1. Init => AcceptedInv /\ Contract!Init
  <2> SUFFICES ASSUME Init PROVE AcceptedInv /\ Contract!Init
    OBVIOUS
  <2>1. /\ code = [n \in Msgs |-> "none"] /\ idOf = [n \in Msgs |-> NoId] /\ waits = [n \in Msgs |-> 0]
        /\ calls = [n \in Msgs |-> <<>>] /\ expired = {} /\ arming = NoData
        /\ posted = <<>> /\ peer = {} /\ tasks = <<>>
        /\ inbound = <<>> /\ tempBuf_ = <<>> /\ readBuffer_ = <<>> /\ respQ = <<>>
    BY DEF Init, RM!Init
  <2>2. AcceptedInv
    BY <2>1 DEF AcceptedInv, AcceptedAnswers, Reported
  <2>3. Contract!Init
    BY <2>1 DEF Contract!Init, Reported
  <2> QED
    BY <2>2, <2>3
<1>2. AnswerInv /\ AcceptedInv /\ [Next]_vars => AcceptedInv'
  <2> SUFFICES ASSUME AnswerInv, AcceptedInv, Next \/ UNCHANGED vars PROVE AcceptedInv'
    OBVIOUS
  <2> QED
    BY AcceptedStep DEF AnswerInv, CoreInv
<1>3. AnswerInv /\ AcceptedInv /\ AcceptedInv' /\ [Next]_vars => [Contract!Next]_<<Registered, Reports>>
  <2> SUFFICES ASSUME AnswerInv, AcceptedInv, AcceptedInv', Next \/ UNCHANGED vars
               PROVE  [Contract!Next]_<<Registered, Reports>>
    OBVIOUS
  <2> QED
    BY ContractStep DEF AnswerInv, CoreInv
<1> QED
  BY <1>1, <1>2, <1>3, Answers, PTL DEF Spec, ImplementsContract, Contract!Spec, Registered, Reports

-----------------------------------------------------------------------------
(***************************************************************************)
(* What sendMessage() waits for is under way                               *)
(*                                                                         *)
(* AcceptedIsCalled and AttemptedIsCalled are liveness properties.  Their  *)
(* safety core is that a blocked request never waits for nothing: its      *)
(* package is still to be written, or its timer runs.                      *)
(***************************************************************************)

(* The write of package p has succeeded or failed. *)
Attempted(p) == Contains(wire, p) \/ (writeFailed /\ p = Head(pendingList_))

(* After a failed write nothing is ever written again: the package stays   *)
(* at the front of pendingList_, and startWrite() writes into an empty     *)
(* list only.                                                              *)
FailedIsFinal == writeFailed => pendingList_ # <<>> /\ writes = <<>> /\ WriteHandlers = <<>>

(* Between its two halves startTimer() holds a request of the id of the    *)
(* package whose completion the io thread handles.                         *)
ArmedAtHead == arming # NoData => AtHead("written") /\ idOf[arming] = Head(ioQ).p.id

(* The timer of a request runs from the completion of its write on, failed *)
(* or not, until it is called back.                                        *)
AttemptedIsTimed ==
    \A n \in Msgs :
        Put(n) /\ RM!OwnId(n) /\ calls[n] = <<>> /\ Attempted(Package(n)) => RMP!Timed(n)

(* What postPackage() answered eSuccess for was posted. *)
AcceptedIsPosted == \A n \in Msgs : code[n] = "eSuccess" => Contains(posted, Package(n))

(* A request sendMessage() blocks on is timed, or has yet to be written. *)
BlockedIsUnderWay ==
    \A n \in Msgs :
        Blocked(n) /\ RM!OwnId(n)
        => RMP!Timed(n) \/ Contains(pendingList_ \o QueuedWrites, Package(n))

(* Only the completion of a write concerns what was written, and only      *)
(* startWrite() the list, which it puts a package behind.                  *)
LEMMA ListStays ==
    ASSUME TypeOK, Next \/ UNCHANGED vars, ~RunWrittenRest
    PROVE  /\ UNCHANGED <<wire, writeFailed>>
           /\ \/ UNCHANGED pendingList_
              \/ RunStartWrite /\ \E p \in Packages : pendingList_' = Append(pendingList_, p)
<1>1. ASSUME RunStartWrite PROVE \E p \in Packages : pendingList_' = Append(pendingList_, p)
  <2>1. ioQ \in Seq(Handlers) /\ ioQ # <<>> /\ Head(ioQ).h = "startWrite"
    BY <1>1 DEF RunStartWrite, Runs, AtHead, TypeOK
  <2>2. Head(ioQ).p \in Packages
    BY <2>1, HandlerFields
  <2> QED
    BY <1>1, <2>2 DEF RunStartWrite, Enqueue
<1>2. RunStartWrite => UNCHANGED <<wire, writeFailed>>
  BY DEF RunStartWrite
<1>3. AppStep \/ ReplyDeliver \/ UNCHANGED vars => UNCHANGED <<wire, writeFailed, pendingList_>>
  BY DEF AppStep, Start, StopIo, StopRest, PostMessage, PublishMessage, PostMade, ReplyDeliver, vars, writeVars
<1>4. IoStep /\ ~RunStartWrite => UNCHANGED <<wire, writeFailed, pendingList_>>
  BY DEF IoStep, RunWrittenFind, RunDoRead, RunDoConnect, RunConnected, RunDoConnectFailed, RunDoClose,
         RunDoHeartbeat, writeVars
<1>5. AsioStep \/ ServerStep => UNCHANGED <<wire, writeFailed, pendingList_>>
  BY DEF AsioStep, ConnectCompletes, WriteCompletes, ReadCompletes, ReadFails, HeartbeatFires, IoRunsOut,
         TimerFires, ServerStep, ServerPushes, ConnectionLost, ServerReplies, writeVars
<1>6. (\E id \in Ids : RunOnTimeout(id)) \/ DoResponse => UNCHANGED <<wire, writeFailed, pendingList_>>
  BY DEF RunOnTimeout, DoResponse, writeVars
<1> QED
  BY <1>1, <1>2, <1>3, <1>4, <1>5, <1>6 DEF Next

(* A list that is not empty keeps its front until that is written. *)
LEMMA FrontStays ==
    ASSUME TypeOK, Next \/ UNCHANGED vars, ~RunWrittenRest, pendingList_ # <<>>
    PROVE  pendingList_' # <<>> /\ Head(pendingList_') = Head(pendingList_)
<1>1. pendingList_ \in Seq(Packages)
  BY DEF TypeOK
<1>2. \A p \in Packages : Append(pendingList_, p) # <<>> /\ Head(Append(pendingList_, p)) = Head(pendingList_)
  BY <1>1
<1> QED
  BY <1>2, ListStays

(* After a failed write the io thread has no completion of one. *)
LEMMA FailedIsIdle ==
    ASSUME TypeOK, FailedIsFinal, AtHead("written")
    PROVE  ~writeFailed
<1>1. ioQ \in Seq(Handlers) /\ ioQ # <<>> /\ Head(ioQ).h = "written"
  BY DEF TypeOK, AtHead
<1>2. /\ Head(ioQ) \in Handlers /\ Tail(ioQ) \in Seq(Handlers)
      /\ WriteHandlers = <<Head(ioQ)>> \o HandlersIn(Tail(ioQ), "written")
  BY <1>1, HandlersHead DEF HandlersIn, WriteHandlers
<1>3. PICK t \in Seq(Handlers) : t = HandlersIn(Tail(ioQ), "written")
  BY <1>2, HandlersType
<1>4. WriteHandlers # <<>>
  BY <1>2, <1>3
<1> QED
  BY <1>4 DEF FailedIsFinal

(* connect() and closing the socket abort nothing when nothing is written. *)
LEMMA NoneAborted ==
    ASSUME TypeOK, writes = <<>>, NEW q \in Seq(Handlers), HandlersIn(q, "written") = <<>>
    PROVE  HandlersIn(q \o Aborted, "written") = <<>>
<1>1. PICK a \in Seq(Handlers) : a = Aborted
  BY AbortedType DEF AllOf
<1>2. HandlersIn(a, "written") = <<>>
  <2>1. HandlersIn(a, "written") = [i \in 1..Len(writes) |-> Written(writes[i], FALSE)]
    BY <1>1, AbortedType
  <2>2. 1..Len(writes) = {}
    OBVIOUS
  <2>3. HandlersIn(a, "written") \in Seq(Handlers) /\ Len(HandlersIn(a, "written")) = 0
    BY <2>1, <2>2, HandlersType
  <2> QED
    BY <2>3
<1>3. HandlersIn(q \o a, "written") = HandlersIn(q, "written") \o HandlersIn(a, "written")
  BY HandlersConcat
<1> QED
  BY <1>1, <1>2, <1>3

(* Every step keeps the end of a client whose write failed. *)
LEMMA FailedStep ==
    ASSUME TypeOK, SingleWriter, FailedIsFinal, Next \/ UNCHANGED vars
    PROVE  FailedIsFinal'
<1>0. ioQ \in Seq(Handlers)
  BY DEF TypeOK
<1>1. FailedIsFinal' <=> (writeFailed' => pendingList_' # <<>> /\ writes' = <<>> /\ HandlersIn(ioQ', "written") = <<>>)
  BY DEF FailedIsFinal, HandlersIn, WriteHandlers
<1>2. CASE RunWrittenRest
  <2>1. ~writeFailed /\ pendingList_ # <<>>
    BY <1>2, FailedIsIdle, FrontIsWritten DEF RunWrittenRest
  <2>2. CASE Head(ioQ).ok
    <3>1. writeFailed' = writeFailed
      BY <1>2, <2>2 DEF RunWrittenRest
    <3> QED
      BY <1>1, <2>1, <3>1
  <2>3. CASE ~Head(ioQ).ok
    BY <1>1, <1>2, <2>1, <2>3, WriteFails
  <2> QED
    BY <2>2, <2>3
<1>3. CASE ~RunWrittenRest /\ ~writeFailed
  BY <1>1, <1>3, ListStays
<1>4. CASE ~RunWrittenRest /\ writeFailed
  <2>1. pendingList_ # <<>> /\ writes = <<>> /\ HandlersIn(ioQ, "written") = <<>>
    BY <1>4 DEF FailedIsFinal, HandlersIn, WriteHandlers
  <2>2. pendingList_' # <<>>
    BY <1>4, <2>1, FrontStays
  <2>3. ASSUME ioQ # <<>>, ~AtHead("written")
        PROVE  Tail(ioQ) \in Seq(Handlers) /\ HandlersIn(Tail(ioQ), "written") = <<>>
    <3>1. Tail(ioQ) \in Seq(Handlers) /\ HandlersIn(ioQ, "written") = <<>> \o HandlersIn(Tail(ioQ), "written")
      BY <1>0, <2>3, HandlersHead DEF AtHead
    <3>2. HandlersIn(Tail(ioQ), "written") \in Seq(Handlers)
      BY <3>1, HandlersType
    <3> QED
      BY <2>1, <3>1, <3>2
  <2>4. ~AtHead("written")
    BY <1>4, FailedIsIdle
  <2>5. CASE RunStartWrite
    <3>1. ioQ # <<>> /\ ioQ' = Tail(ioQ) /\ writes' = writes
      BY <2>1, <2>5 DEF RunStartWrite, Runs, AtHead
    <3> QED
      BY <1>1, <2>1, <2>2, <2>3, <2>4, <3>1
  <2>6. CASE RunDoConnectFailed \/ RunDoClose
    <3>1. ioQ # <<>> /\ \/ ioQ' = Tail(ioQ) \o Aborted /\ writes' = <<>>
                        \/ ioQ' = Tail(ioQ) /\ writes' = writes
      BY <2>6 DEF RunDoConnectFailed, RunDoClose, Connect, CloseSocket, Runs, AtHead
    <3>2. HandlersIn(Tail(ioQ) \o Aborted, "written") = <<>>
      BY <2>1, <2>3, <2>4, <3>1, NoneAborted
    <3> QED
      BY <1>1, <2>1, <2>2, <2>3, <2>4, <3>1, <3>2
  <2>7. CASE Start
    <3>1. ioQ' = ioQ \o Aborted /\ writes' = <<>>
      BY <2>7 DEF Start, Connect
    <3>2. HandlersIn(ioQ \o Aborted, "written") = <<>>
      BY <1>0, <2>1, NoneAborted
    <3> QED
      BY <1>1, <2>2, <3>1, <3>2
  <2>8. ~WriteCompletes
    BY <2>1 DEF WriteCompletes
  <2> QED
    BY <1>1, <1>4, <2>1, <2>2, <2>5, <2>6, <2>7, <2>8, WritesStay
<1> QED
  BY <1>2, <1>3, <1>4

(* What startTimer() finds is a request of the id it looks for. *)
LEMMA FoundHasId ==
    ASSUME TypeInv, RunWrittenFind
    PROVE  AtHead("written") /\ arming' \in Msgs /\ idOf[arming'] = Head(ioQ).p.id
<1>1. ioQ \in Seq(Handlers) /\ ioQ # <<>> /\ Head(ioQ).h = "written" /\ RM!StartTimerFind(Head(ioQ).p.id)
  BY DEF RunWrittenFind, Runs, AtHead, TypeInv, TypeOK
<1>2. Head(ioQ) \in Handlers
  BY <1>1
<1>3. PICK p \in Packages : p = Head(ioQ).p
  BY <1>1, <1>2, HandlerFields
<1>4. p.id \in Ids
  BY PackageFields
<1>5. arming' = cache_[p.id] /\ cache_[p.id] # NoData
  BY <1>1, <1>3 DEF RM!StartTimerFind
<1>6. cache_[p.id] \in Msgs /\ idOf[cache_[p.id]] = p.id
  BY <1>4, <1>5 DEF TypeInv, RMP!IInv, RMP!TypeOK, RMP!CacheIsPending
<1> QED
  BY <1>1, <1>3, <1>5, <1>6 DEF AtHead

(* While startTimer() holds a request, only the rest of its handler runs   *)
(* on the io thread.                                                       *)
LEMMA ArmedRuns ==
    ASSUME arming # NoData, AtHead("written"), IoStep
    PROVE  RunWrittenRest /\ RM!StartTimerWait
<1>1. InHandler /\ ~AtHead("connected")
  BY DEF InHandler, AtHead
<1>2. RunWrittenRest
  BY <1>1 DEF IoStep, RunStartWrite, RunWrittenFind, RunDoRead, RunDoConnect, RunConnected,
              RunDoConnectFailed, RunDoClose, RunDoHeartbeat, Runs
<1> QED
  BY <1>2 DEF RunWrittenRest, TimerRest

(* Every step keeps what startTimer() holds at the head of the queue. *)
LEMMA ArmedStep ==
    ASSUME TypeInv, MadeInv, ArmedAtHead, Next \/ UNCHANGED vars
    PROVE  ArmedAtHead'
<1> SUFFICES ASSUME arming' # NoData PROVE AtHead("written")' /\ idOf'[arming'] = Head(ioQ').p.id
  BY DEF ArmedAtHead
<1>1. TypeOK /\ arming \in Msgs \cup {NoData} /\ (arming # NoData => idOf[arming] # NoId)
  BY DEF TypeInv, TypeOK, RM!TypeOK, RMP!IInv, RMP!OnlyAfterPut
<1>2. arming' = arming \/ RunWrittenFind
  BY TimedStep
<1>3. CASE RunWrittenFind
  <2>1. ioQ' = ioQ /\ idOf' = idOf
    BY <1>3 DEF RunWrittenFind, RM!StartTimerFind
  <2> QED
    BY <1>3, <2>1, FoundHasId DEF AtHead
<1>4. CASE arming' = arming /\ ~RunWrittenFind
  <2>1. arming # NoData /\ AtHead("written") /\ idOf[arming] = Head(ioQ).p.id /\ InHandler
    BY <1>4 DEF ArmedAtHead, InHandler
  <2>2. ~IoStep
    BY <1>4, <2>1, ArmedRuns DEF RM!StartTimerWait
  <2>3. ioQ' # <<>> /\ Head(ioQ') = Head(ioQ)
    BY <1>1, <2>1, <2>2, HeadStays DEF AtHead
  <2>4. idOf'[arming] = idOf[arming]
    BY <1>1, <2>1, PutStep
  <2> QED
    BY <1>4, <2>1, <2>3, <2>4 DEF AtHead
<1> QED
  BY <1>2, <1>3, <1>4

(* A package whose write was attempted is of a message that was made. *)
LEMMA AttemptedIsMade ==
    ASSUME TypeOK, NothingLost, MadeInv, FailedIsFinal, NEW n \in Msgs, Attempted(Package(n))
    PROVE  n <= Len(kind)
<1>1. \E i \in 1..Len(posted) : posted[i] = Package(n)
  <2>1. CASE Contains(wire, Package(n))
    <3>1. /\ wire \in Seq(Packages) /\ pendingList_ \in Seq(Packages) /\ ioQ \in Seq(Handlers)
      BY DEF TypeOK
    <3>2. PICK w \in Seq(Packages) : w = QueuedWrites
      BY <3>1, WritesInType, WritesInIs
    <3>3. PICK i \in 1..Len(wire) : wire[i] = Package(n)
      BY <2>1 DEF Contains
    <3>4. PICK a \in Seq(Packages) : a = wire \o pendingList_ /\ i \in 1..Len(a) /\ a[i] = wire[i]
      <4>1. wire \o pendingList_ \in Seq(Packages) /\ i \in 1..Len(wire \o pendingList_)
            /\ (wire \o pendingList_)[i] = wire[i]
        BY <3>1
      <4> QED
        BY <4>1, Zenon
    <3>5. i \in 1..Len(a \o w) /\ (a \o w)[i] = a[i]
      BY <3>4
    <3> QED
      BY <3>2, <3>3, <3>4, <3>5 DEF NothingLost
  <2>2. CASE writeFailed /\ Package(n) = Head(pendingList_)
    BY <2>2, FrontIsPosted DEF FailedIsFinal
  <2> QED
    BY <2>1, <2>2 DEF Attempted
<1>2. Package(n).n = n
  BY DEF Package
<1> QED
  BY <1>1, <1>2 DEF MadeInv

(* Messages that were made are put when they are made, or never. *)
LEMMA PutWasPut ==
    ASSUME TypeInv, Next \/ UNCHANGED vars, NEW n \in Msgs, n <= Len(kind), Put(n)'
    PROVE  Put(n)
<1>0. Len(kind) \in Nat /\ Len(kind) <= MaxReq /\ idOf \in [Msgs -> Ids \cup {NoId}] /\ TypeOK
  BY MessageTypes DEF TypeInv, TypeOK, RM!TypeOK
<1>1. idOf'[n] = idOf[n]
  <2>1. ASSUME NEW k \in Kinds, MakesNext(k) PROVE idOf'[n] = idOf[n]
    <3>1. PICK c \in Nat : c = Len(kind) + 1
      BY <1>0
    <3>2. idOf' = idOf \/ idOf' = [idOf EXCEPT ![c] = MsgId(c)]
      BY <2>1, <3>1 DEF MakesNext
    <3>3. n # c
      BY <1>0, <3>1
    <3> QED
      BY <1>0, <3>2, <3>3
  <2> QED
    BY <1>0, <2>1, MakeStep
<1> QED
  BY <1>1 DEF Put

(* A request that is not called back was not before. *)
LEMMA UncalledWasUncalled ==
    ASSUME TypeInv, Next \/ UNCHANGED vars, NEW n \in Msgs, calls'[n] = <<>>
    PROVE  calls[n] = <<>>
<1>1. calls \in [Msgs -> Seq(Rsps \cup {eTimeout})]
  BY DEF TypeInv, RMP!IInv, RMP!TypeOK, RMP!Results
<1>2. ASSUME NEW id, NEW r, Calls(id, r) PROVE calls[n] = <<>>
  <2>1. PICK x \in Msgs : calls' = [calls EXCEPT ![x] = <<r>>]
    BY <1>2 DEF Calls
  <2>2. <<r>> # <<>>
    OBVIOUS
  <2>3. n # x
    BY <1>1, <2>1, <2>2
  <2> QED
    BY <1>1, <2>1, <2>3
<1> QED
  BY <1>2, CallStep

(* The table keeps a timed request timed. *)
LEMMA TimedStays ==
    ASSUME TypeInv, RMP!DueInv, Next \/ UNCHANGED vars, NEW n \in Msgs, RMP!Timed(n),
           RM!OwnId(n)', calls'[n] = <<>>
    PROVE  RMP!Timed(n)'
<1>1. [RMP!Next]_(RMP!rmVars)
  <2>1. RM!Next \/ UNCHANGED RM!rmVars
    BY TableNext DEF TypeInv, RM!rmVars, tableVars
  <2> QED
    BY <2>1, SameTable DEF RMP!rmVars, RM!rmVars
<1>2. RMP!IInv /\ RMP!IInv'
  BY BaseType DEF TypeInv
<1>3. RMP!DueInv'
  BY <1>1, <1>2, TableAssumed, RMP!NextDueInv
<1>4. (RMP!Timed(n) \/ calls[n] # <<>> \/ ~RMP!OwnId(n))'
  BY <1>1, <1>2, <1>3, TableAssumed, RMP!TimedStep
<1>5. RMP!OwnId(n)'
  BY DEF RM!OwnId, RMP!OwnId
<1> QED
  BY <1>4, <1>5

(* The rest of the handler starts the timer of the request written. *)
LEMMA WrittenIsTimed ==
    ASSUME TypeInv, ArmedAtHead, RunWrittenRest, NEW n \in Msgs, Head(ioQ).p = Package(n),
           Put(n), RM!OwnId(n), calls[n] = <<>>
    PROVE  RMP!Timed(n)'
<1>0. /\ waits \in [Msgs -> Nat] /\ cache_ \in [Ids -> Msgs \cup {NoData}]
      /\ idOf \in [Msgs -> Ids \cup {NoId}] /\ arming \in Msgs \cup {NoData}
  BY DEF TypeInv, RMP!IInv, RMP!TypeOK
<1>1. /\ Package(n).id = MsgId(n) /\ MsgId(n) \in Ids /\ idOf[n] = MsgId(n) /\ idOf[n] # NoId
  BY Makes, TableAssumption DEF Package, Put
<1>2. cache_[MsgId(n)] = n
  BY <1>1, SameTable DEF TypeInv, RMP!IInv, RMP!NotForgotten
<1>3. n # NoData
  BY TableAssumption
<1>4. arming # NoData /\ RM!StartTimerWait
  BY <1>1, <1>2, <1>3 DEF RunWrittenRest, TimerRest
<1>5. arming = n
  <2>1. idOf[arming] = idOf[n] /\ arming \in Msgs
    BY <1>0, <1>1, <1>4 DEF ArmedAtHead
  <2> QED
    BY <2>1 DEF RM!OwnId
<1>6. n \in RM!Held(cache_, NoData)
  BY <1>1, <1>2 DEF RM!Held
<1>7. waits' = RM!WaitsKept([waits EXCEPT ![n] = @ + 1], cache_, NoData)
  BY <1>4, <1>5 DEF RM!StartTimerWait
<1>8. waits'[n] = waits[n] + 1 /\ waits[n] \in Nat
  BY <1>0, <1>6, <1>7 DEF RM!WaitsKept
<1> QED
  BY <1>8 DEF RMP!Timed

(* What was attempted stays timed, and what is attempted becomes so. *)
LEMMA AttemptedStep ==
    ASSUME AnswerInv, FailedIsFinal, ArmedAtHead, AttemptedIsTimed, RMP!DueInv, Next \/ UNCHANGED vars
    PROVE  AttemptedIsTimed'
<1> SUFFICES ASSUME NEW n \in Msgs, Put(n)', RM!OwnId(n)', calls'[n] = <<>>, Attempted(Package(n))'
             PROVE  RMP!Timed(n)'
  BY DEF AttemptedIsTimed
<1>0. TypeInv /\ TypeOK /\ SingleWriter /\ NothingLost /\ MadeInv
  BY DEF AnswerInv, CoreInv, TypeInv
<1>1. calls[n] = <<>>
  BY <1>0, UncalledWasUncalled
<1>2. ASSUME n <= Len(kind) PROVE Put(n) /\ RM!OwnId(n)
  <2>1. Put(n)
    BY <1>0, <1>2, PutWasPut
  <2>2. idOf[n] # NoId
    BY <2>1, Makes, TableAssumption DEF Put
  <2> QED
    BY <1>0, <2>1, <2>2, OwnStays
<1>3. ASSUME Attempted(Package(n)) PROVE RMP!Timed(n)'
  <2>1. Put(n) /\ RM!OwnId(n)
    BY <1>0, <1>2, <1>3, AttemptedIsMade
  <2>2. RMP!Timed(n)
    BY <1>1, <1>3, <2>1 DEF AttemptedIsTimed
  <2> QED
    BY <1>0, <2>2, TimedStays
<1>4. CASE ~RunWrittenRest
  <2>1. wire' = wire /\ writeFailed' = writeFailed
    BY <1>0, <1>4, ListStays
  <2>2. writeFailed => Head(pendingList_') = Head(pendingList_)
    BY <1>0, <1>4, FrontStays DEF FailedIsFinal
  <2>3. Attempted(Package(n))
    BY <2>1, <2>2 DEF Attempted
  <2> QED
    BY <1>3, <2>3
<1>5. CASE RunWrittenRest
  <2>1. AtHead("written")
    BY <1>5 DEF RunWrittenRest
  <2>2. ~writeFailed /\ pendingList_ # <<>> /\ Head(ioQ).p = Head(pendingList_)
    BY <1>0, <2>1, FailedIsIdle, FrontIsWritten
  <2>3. Attempted(Package(n)) \/ Package(n) = Head(pendingList_)
    <3>1. CASE Head(ioQ).ok
      <4>1. wire' = Append(wire, Head(pendingList_)) /\ writeFailed' = writeFailed
        BY <1>5, <3>1 DEF RunWrittenRest
      <4>2. wire \in Seq(Packages) /\ Head(pendingList_) \in Packages
        <5>1. wire \in Seq(Packages) /\ pendingList_ \in Seq(Packages)
          BY <1>0 DEF TypeOK
        <5> QED
          BY <2>2, <5>1
      <4>3. PICK i \in 1..Len(wire') : wire'[i] = Package(n)
        BY <2>2, <4>1 DEF Attempted, Contains
      <4>4. (i \in 1..Len(wire) /\ wire'[i] = wire[i]) \/ wire'[i] = Head(pendingList_)
        BY <4>1, <4>2
      <4> QED
        BY <4>3, <4>4 DEF Attempted, Contains
    <3>2. CASE ~Head(ioQ).ok
      <4>1. UNCHANGED <<wire, pendingList_>>
        BY <1>0, <1>5, <3>2, WriteFails
      <4> QED
        BY <4>1 DEF Attempted
    <3> QED
      BY <3>1, <3>2
  <2>4. CASE Package(n) = Head(pendingList_)
    <3>1. PICK i \in 1..Len(posted) : posted[i] = Package(n)
      BY <1>0, <2>2, <2>4, FrontIsPosted
    <3>2. n <= Len(kind)
      <4>1. Package(n).n = n
        BY DEF Package
      <4> QED
        BY <1>0, <3>1, <4>1 DEF MadeInv
    <3> QED
      BY <1>0, <1>1, <1>2, <1>5, <2>2, <2>4, <3>2, WrittenIsTimed
  <2> QED
    BY <1>3, <2>3, <2>4
<1> QED
  BY <1>4, <1>5

(* What was posted stays posted. *)
LEMMA PostedStays ==
    ASSUME TypeOK, Next \/ UNCHANGED vars, NEW p, Contains(posted, p)
    PROVE  Contains(posted, p)'
<1>1. PICK i \in 1..Len(posted) : posted[i] = p
  BY DEF Contains
<1>2. posted \in Seq(Packages)
  BY MessageTypes
<1>3. \A x \in Packages : i \in 1..Len(Append(posted, x)) /\ Append(posted, x)[i] = posted[i]
  BY <1>2
<1>4. posted' = posted \/ \E x \in Packages : posted' = Append(posted, x)
  BY MakeStep DEF AcceptsPackage
<1>5. i \in 1..Len(posted') /\ posted'[i] = p
  BY <1>1, <1>3, <1>4
<1> QED
  BY <1>5 DEF Contains

(* postPackage() posts the package it answers eSuccess for. *)
LEMMA AnswerPosts ==
    ASSUME TypeOK, Next \/ UNCHANGED vars, NEW n \in Msgs, code[n] # "eSuccess", code'[n] = "eSuccess"
    PROVE  Contains(posted, Package(n))'
<1>0. /\ code \in [Msgs -> Codes] /\ posted \in Seq(Packages) /\ Package(n) \in Packages
      /\ Len(kind) \in Nat /\ Len(kind) <= MaxReq /\ MaxReq \in Nat
  BY MessageTypes, Makes
<1>1. code' # code
  OBVIOUS
<1>2. posted' = Append(posted, Package(n)) => Contains(posted, Package(n))'
  <2>1. /\ Len(posted) + 1 \in 1..Len(Append(posted, Package(n)))
        /\ Append(posted, Package(n))[Len(posted) + 1] = Package(n)
    BY <1>0
  <2> QED
    BY <2>1 DEF Contains
<1>3. ASSUME NEW m \in Msgs, NEW q, code' = [code EXCEPT ![m] = PackageCode(isOnline_)],
             PostPackage(Package(m), isOnline_, q)
      PROVE  posted' = Append(posted, Package(n))
  <2>1. m = n /\ PackageCode(isOnline_) = "eSuccess"
    BY <1>0, <1>3
  <2> QED
    BY <1>3, <2>1 DEF PostPackage
<1>4. ASSUME NEW k, PostFromIo(k, isOnline_, Tail(ioQ)) PROVE posted' = Append(posted, Package(n))
  <2>1. Len(kind) # MaxReq
    BY <1>1, <1>4 DEF PostFromIo, msgVars
  <2>2. PICK c \in Msgs : c = Len(kind) + 1
    BY <1>0, <2>1 DEF Msgs
  <2>3. code' = [code EXCEPT ![c] = PackageCode(isOnline_)] /\ PostPackage(Package(c), isOnline_, Tail(ioQ))
    BY <1>4, <2>1, <2>2 DEF PostFromIo
  <2> QED
    BY <1>3, <2>3
<1>5. ASSUME AppStep \/ ReplyDeliver \/ UNCHANGED vars PROVE posted' = Append(posted, Package(n))
  <2>1. PICK m \in Msgs : PostMade(m)
    BY <1>1, <1>5 DEF AppStep, Start, StopIo, StopRest, PostMessage, PublishMessage, ReplyDeliver, vars, msgVars
  <2> QED
    BY <1>3, <2>1 DEF PostMade
<1>6. ASSUME IoStep PROVE posted' = Append(posted, Package(n))
  <2>1. RunConnected \/ RunDoHeartbeat
    BY <1>1, <1>6 DEF IoStep, RunStartWrite, RunWrittenFind, RunWrittenRest, RunDoRead, RunDoConnect,
                      RunDoConnectFailed, RunDoClose, msgVars
  <2>2. RunConnected => PostFromIo("sub", isOnline_, Tail(ioQ))
    BY <1>1 DEF RunConnected, StartSubscribe, msgVars
  <2> QED
    BY <1>4, <2>1, <2>2 DEF RunDoHeartbeat
<1>7. ~AsioStep /\ ~ServerStep
  BY <1>1 DEF AsioStep, ConnectCompletes, WriteCompletes, ReadCompletes, ReadFails, HeartbeatFires, IoRunsOut,
              TimerFires, ServerStep, ServerPushes, ConnectionLost, ServerReplies, msgVars
<1>8. ~(\E id \in Ids : RunOnTimeout(id)) /\ ~DoResponse
  BY <1>1 DEF RunOnTimeout, DoResponse, msgVars
<1> QED
  BY <1>2, <1>5, <1>6, <1>7, <1>8 DEF Next

(* Every step keeps what was accepted posted. *)
LEMMA PostedStep ==
    ASSUME TypeOK, AcceptedIsPosted, Next \/ UNCHANGED vars
    PROVE  AcceptedIsPosted'
<1>1. \A n \in Msgs : code[n] = "eSuccess" => Contains(posted, Package(n))'
  BY PostedStays DEF AcceptedIsPosted
<1>2. \A n \in Msgs : code[n] # "eSuccess" /\ code'[n] = "eSuccess" => Contains(posted, Package(n))'
  BY AnswerPosts
<1> QED
  BY <1>1, <1>2 DEF AcceptedIsPosted

(* A request that is blocked on was posted; so it is written or still to   *)
(* be, and what was written is timed.                                      *)
LEMMA UnderWay ==
    ASSUME AnswerInv, AttemptedIsTimed, AcceptedIsPosted
    PROVE  BlockedIsUnderWay
<1> SUFFICES ASSUME NEW n \in Msgs, Blocked(n), RM!OwnId(n)
             PROVE  RMP!Timed(n) \/ Contains(pendingList_ \o QueuedWrites, Package(n))
  BY DEF BlockedIsUnderWay
<1>1. TypeOK /\ NothingLost /\ MadeInv
  BY DEF AnswerInv, CoreInv, TypeInv
<1>2. wire \in Seq(Packages) /\ pendingList_ \in Seq(Packages) /\ ioQ \in Seq(Handlers)
  BY <1>1 DEF TypeOK
<1>3. PICK w \in Seq(Packages) : w = QueuedWrites
  BY <1>2, WritesInType, WritesInIs
<1>4. PICK r \in Seq(Packages) : r = pendingList_ \o w
  <2>1. pendingList_ \o w \in Seq(Packages)
    BY <1>2
  <2> QED
    BY <2>1
<1>5. posted = wire \o r
  BY <1>1, <1>2, <1>3, <1>4, ConcatAssociative DEF NothingLost
<1>6. PICK i \in 1..Len(posted) : posted[i] = Package(n)
  BY DEF Blocked, AcceptedIsPosted, Contains
<1>7. \/ i \in 1..Len(wire) /\ wire[i] = Package(n)
      \/ i - Len(wire) \in 1..Len(r) /\ r[i - Len(wire)] = Package(n)
  <2>1. \A j \in 1..Len(wire \o r) : \/ j \in 1..Len(wire) /\ (wire \o r)[j] = wire[j]
                                     \/ j - Len(wire) \in 1..Len(r) /\ (wire \o r)[j] = r[j - Len(wire)]
    BY <1>2, <1>4
  <2> QED
    BY <1>5, <1>6, <2>1
<1>8. Contains(wire, Package(n)) \/ Contains(r, Package(n))
  BY <1>7 DEF Contains
<1>9. Put(n) /\ calls[n] = <<>>
  <2>1. n \in 1..Len(kind) /\ kind[n] # "pub" /\ calls[n] = <<>>
    BY <1>1, MessageTypes DEF Blocked, Msgs
  <2> QED
    BY <1>1, <2>1 DEF MadeInv
<1> QED
  BY <1>3, <1>4, <1>8, <1>9 DEF AttemptedIsTimed, Attempted

(* AttemptedIsTimed is not inductive by itself: that the request           *)
(* startTimer() found is the one written is ArmedAtHead, that a failed     *)
(* package stays at the front is FailedIsFinal, and that an expired timer  *)
(* has its handler queued is the table's DueInv.                           *)
UnderWayInv ==
    /\ FailedIsFinal
    /\ ArmedAtHead
    /\ RMP!DueInv
    /\ AttemptedIsTimed
    /\ AcceptedIsPosted

(* The layers up to the answers keep them. *)
THEOREM UnderWayInvariant == Spec => []UnderWayInv
<1>1. Init => UnderWayInv
  <2> SUFFICES ASSUME Init PROVE UnderWayInv
    OBVIOUS
  <2>1. FailedIsFinal /\ ArmedAtHead
    BY DEF Init, RM!Init, FailedIsFinal, ArmedAtHead
  <2>2. RMP!DueInv
    BY DEF Init, RM!Init, RMP!DueInv, RMP!ExpiredIsDue
  <2>3. AttemptedIsTimed
    BY DEF Init, AttemptedIsTimed, Attempted, Contains
  <2>4. AcceptedIsPosted
    BY DEF Init, AcceptedIsPosted
  <2> QED
    BY <2>1, <2>2, <2>3, <2>4 DEF UnderWayInv
<1>2. AnswerInv /\ UnderWayInv /\ [Next]_vars => UnderWayInv'
  <2> SUFFICES ASSUME AnswerInv, UnderWayInv, Next \/ UNCHANGED vars PROVE UnderWayInv'
    OBVIOUS
  <2>1. TypeInv /\ TypeOK /\ SingleWriter /\ MadeInv
    BY DEF AnswerInv, CoreInv, TypeInv
  <2>2. RMP!DueInv'
    <3>1. RM!Next \/ UNCHANGED RM!rmVars
      BY <2>1, TableNext DEF RM!rmVars, tableVars
    <3>2. [RMP!Next]_(RMP!rmVars)
      BY <3>1, SameTable DEF RMP!rmVars, RM!rmVars
    <3> QED
      BY <2>1, <3>2, TableAssumed, RMP!NextDueInv DEF UnderWayInv, TypeInv
  <2>3. FailedIsFinal' /\ ArmedAtHead'
    BY <2>1, FailedStep, ArmedStep DEF UnderWayInv
  <2>4. AttemptedIsTimed'
    BY AttemptedStep DEF UnderWayInv
  <2>5. AcceptedIsPosted'
    BY <2>1, PostedStep DEF UnderWayInv
  <2> QED
    BY <2>2, <2>3, <2>4, <2>5 DEF UnderWayInv
<1> QED
  BY <1>1, <1>2, Answers, PTL DEF Spec

(* Every request whose write was attempted is timed until it is called     *)
(* back, also the one whose write failed: the safety core of               *)
(* AttemptedIsCalled.                                                      *)
THEOREM AttemptedIsTimedHolds == Spec => []AttemptedIsTimed
<1>1. UnderWayInv => AttemptedIsTimed
  BY DEF UnderWayInv
<1> QED
  BY <1>1, UnderWayInvariant, PTL

(* A failed write is the last: the list stalls, and no write or write      *)
(* handler is left, whatever reconnects.                                   *)
THEOREM FailedIsFinalHolds == Spec => []FailedIsFinal
<1>1. UnderWayInv => FailedIsFinal
  BY DEF UnderWayInv
<1> QED
  BY <1>1, UnderWayInvariant, PTL

(* What sendMessage() blocks on has its timer running, or a package that   *)
(* is queued or listed to be written: the safety core of AcceptedIsCalled. *)
THEOREM NeverWaitsForNothing == Spec => []BlockedIsUnderWay
<1>1. AnswerInv /\ UnderWayInv => BlockedIsUnderWay
  BY UnderWay DEF UnderWayInv
<1> QED
  BY <1>1, Answers, UnderWayInvariant, PTL
=============================================================================
