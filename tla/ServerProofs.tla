---------------------------- MODULE ServerProofs ----------------------------
(***************************************************************************)
(* Theorems about Server, for any number of sessions, messages, topics and *)
(* workers.                                                                *)
(***************************************************************************)
EXTENDS Server, SubsequenceProofs

(***************************************************************************)
(* The room and the topics                                                 *)
(***************************************************************************)

(* Only connections that were accepted are in the room, have subscribed,   *)
(* are owed a publication, or have requests under way; so a session that   *)
(* joins the room has no past.  leave() has left the room first.           *)
RoomKnown ==
    /\ leaving \notin sessionCache_
    /\ \A s \in sessionCache_ \cup acked \cup pub.owed : conn[s] # "none"
    /\ \A task \in pool : conn[task.s] # "none"
    /\ \A i \in 1..Len(ioQ) : ioQ[i].h = "doRead" => conn[ioQ[i].s] # "none"

(* Wherever an unsubscription is, its session is among the revoked. *)
UnsubRevokes ==
    /\ \A s \in Sessions : \A i \in 1..Len(inbox[s]) : inbox[s][i].k = "unsub" => s \in revoked
    /\ \A i \in 1..Len(ioQ) : ioQ[i].h = "doRead" =>
           \A j \in 1..Len(ioQ[i].in) : ioQ[i].in[j].k = "unsub" => ioQ[i].s \in revoked
    /\ \A task \in pool : task.r.k = "unsub" => task.s \in revoked

(* The loop of a subscription has recorded the topics it is done with. *)
LoopDone ==
    \A task \in pool :
        /\ task.todo # {} => task.r.k \in {"sub", "unsub"}
        /\ task.r.k = "sub" /\ task.s \in sessionCache_ \ revoked
               => \A t \in Topics \ task.todo : task.s \in topics[t]

(* publishMessage() between its two locks holds everyone it owes. *)
IdsHeld == pub.at = "ids" => pub.owed \cap sessionCache_ \subseteq pub.ids

RoomInv == RoomKnown /\ UnsubRevokes /\ LoopDone /\ IdsHeld /\ SubscribedStays /\ PublishReaches

(***************************************************************************)
(* The writes                                                              *)
(***************************************************************************)
Outstanding(s) == (IF writing[s] THEN 1 ELSE 0) + Len(QueuedFor(s, "doWrite"))

(* A write is outstanding for the front of the deque, and there is one     *)
(* unless it failed.                                                       *)
WriteOk(s) ==
    /\ Outstanding(s) <= 1
    /\ Outstanding(s) = 1 => writeDeque_[s] # <<>>
    /\ conn[s] # "lost" /\ writeDeque_[s] # <<>> => Outstanding(s) = 1

(* A write fails on a lost connection only. *)
FailedIsLost ==
    \A i \in 1..Len(ioQ) : ioQ[i].h = "doWrite" /\ ~ioQ[i].ok => conn[ioQ[i].s] = "lost"

WriteInv == (\A s \in Sessions : WriteOk(s)) /\ FailedIsLost

(* publishMessage() has numbered the message it is about to post. *)
Started == pub.at = "ids" => published # 0

(***************************************************************************)
(* The order of requests                                                   *)
(***************************************************************************)

(* The numbers of the requests in q increase. *)
Increasing(q) == \A i, j \in 1..Len(q) : i < j => q[i].n < q[j].n

(* A session has one read, outstanding or queued. *)
OneRead ==
    \A i \in 1..Len(ioQ) : ioQ[i].h = "doRead" =>
        /\ ~reading[ioQ[i].s]
        /\ \A j \in 1..Len(ioQ) : ioQ[j].h = "doRead" /\ ioQ[j].s = ioQ[i].s => i = j

(* Request r of session s was not handed on yet. *)
Unread(s, r) ==
    \/ \E i \in 1..Len(inbox[s]) : r = inbox[s][i]
    \/ \E i \in 1..Len(ioQ) : /\ ioQ[i].h = "doRead" /\ ioQ[i].s = s
                              /\ \E j \in 1..Len(ioQ[i].in) : r = ioQ[i].in[j]

(* Request r of session s was handed on, and may be answered. *)
Handed(s, r) ==
    \/ \E task \in pool : task.s = s /\ task.r = r
    \/ \E i \in 1..Len(posted[s]) : posted[s][i] = r
    \/ \E w \in 0..(Workers - 1) : \E i \in 1..Len(workerQ[w]) :
           workerQ[w][i].s = s /\ workerQ[w][i].r = r

(* The requests of a session are numbered as they are sent, and are read   *)
(* and handed on in that order.                                            *)
InboxInOrder == \A s \in Sessions : Increasing(inbox[s])
ReadsInOrder ==
    \A i \in 1..Len(ioQ) : ioQ[i].h = "doRead" =>
        /\ Increasing(ioQ[i].in)
        /\ \A j \in 1..Len(ioQ[i].in), k \in 1..Len(inbox[ioQ[i].s]) :
               ioQ[i].in[j].n < inbox[ioQ[i].s][k].n
SentBound == \A s \in Sessions, r \in Requests : Unread(s, r) \/ Handed(s, r) => r.n <= sent[s]
HandedFirst == \A s \in Sessions, x, y \in Requests : Handed(s, x) /\ Unread(s, y) => x.n < y.n
ReadInOrder == InboxInOrder /\ ReadsInOrder /\ SentBound /\ HandedFirst

(* A request in the pool is there once, and was not answered. *)
PoolOnce ==
    /\ \A x, y \in pool : x.s = y.s /\ x.r.n = y.r.n => x = y
    /\ \A x \in pool : x.r.k # "order" /\ \A i \in 1..Len(posted[x.s]) : posted[x.s][i] # x.r

(* Ordered requests of a session are with one worker, in order, and come   *)
(* after the ones that were answered.                                      *)
WorkerQueued ==
    \A w \in 0..(Workers - 1) : \A i \in 1..Len(workerQ[w]) :
        /\ w = workerQ[w][i].s % Workers /\ workerQ[w][i].r.k = "order"
        /\ \A j \in 1..Len(workerQ[w]) :
               i < j /\ workerQ[w][j].s = workerQ[w][i].s
                   => workerQ[w][i].r.n < workerQ[w][j].r.n
AnsweredFirst ==
    \A w \in 0..(Workers - 1) : \A i \in 1..Len(workerQ[w]) :
        \A j \in 1..Len(posted[workerQ[w][i].s]) :
            posted[workerQ[w][i].s][j].k = "order"
                => posted[workerQ[w][i].s][j].n < workerQ[w][i].r.n
WorkerInOrder == WorkerQueued /\ AnsweredFirst

(* The publication that is being posted was not posted before. *)
PublishedOnce ==
    \A s \in Sessions : \A i \in 1..Len(posted[s]) : posted[s][i].k = "pub" =>
        posted[s][i].n <= published /\ (pub.at = "ids" => posted[s][i].n < published)

OrderInv ==
    OneRead /\ ReadInOrder /\ PoolOnce /\ WorkerInOrder /\ PublishedOnce /\ AnswersInOrder

-----------------------------------------------------------------------------
(***************************************************************************)
(* Lemmas about the operators                                              *)
(***************************************************************************)

(* The handlers of a session in two queues, one after the other. *)
LEMMA OfConcat ==
    ASSUME NEW q \in Seq(Handlers), NEW r \in Seq(Handlers), NEW s, NEW h
    PROVE  Of(q \o r, s, h) = Of(q, s, h) \o Of(r, s, h)
<1> DEFINE Mine(x) == {i \in 1..Len(x) : x[i].h = h /\ x[i].s = s}
<1>1. /\ Len(q) \in Nat /\ Len(r) \in Nat /\ Len(q \o r) = Len(q) + Len(r)
      /\ \A i \in 1..Len(q) : (q \o r)[i] = q[i]
      /\ \A i \in 1..Len(r) : (q \o r)[Len(q) + i] = r[i]
  OBVIOUS
<1>2. Joins(Mine(q \o r), Mine(q), Len(q), Mine(r), Len(r))
  <2>1. /\ Mine(q \o r) \subseteq 1..(Len(q) + Len(r))
        /\ Mine(q) \subseteq 1..Len(q) /\ Mine(r) \subseteq 1..Len(r)
    BY <1>1
  <2>2. \A i \in 1..Len(q) : i \in Mine(q \o r) <=> i \in Mine(q)
    <3>1. \A i \in 1..Len(q) : i \in 1..Len(q \o r)
      BY <1>1
    <3> QED
      BY <1>1, <3>1
  <2>3. \A j \in 1..Len(r) : Len(q) + j \in Mine(q \o r) <=> j \in Mine(r)
    <3>1. \A j \in 1..Len(r) : Len(q) + j \in 1..Len(q \o r)
      BY <1>1
    <3> QED
      BY <1>1, <3>1
  <2> QED
    BY <2>1, <2>2, <2>3 DEF Joins
<1> HIDE DEF Mine
<1>3. Pick(q \o r, Mine(q \o r)) = Pick(q, Mine(q)) \o Pick(r, Mine(r))
  BY <1>2, PickConcat
<1> QED
  BY <1>3 DEF Of, Mine

(* The handlers of a session in a queue of one. *)
LEMMA OfOne ==
    ASSUME NEW e \in Handlers, NEW s, NEW h
    PROVE  Of(<<e>>, s, h) = IF e.h = h /\ e.s = s THEN <<e>> ELSE <<>>
<1> DEFINE q == <<e>>
           I == {i \in 1..Len(q) : q[i].h = h /\ q[i].s = s}
<1>1. q \in Seq(Handlers) /\ Len(q) = 1 /\ q[1] = e /\ 1 \in 1..Len(q)
  OBVIOUS
<1>2. \A i \in 1..Len(q) : i = 1
  BY <1>1
<1>3. Of(q, s, h) = Pick(q, I)
  BY DEF Of
<1>4. CASE e.h = h /\ e.s = s
  <2>1. I = {1}
    BY <1>1, <1>2, <1>4
  <2>2. Pick(q, {1}) = <<q[1]>>
    BY <1>1, PickOne
  <2> QED
    BY <1>1, <1>3, <1>4, <2>1, <2>2
<1>5. CASE ~(e.h = h /\ e.s = s)
  <2>1. I = {}
    BY <1>1, <1>2, <1>5
  <2> QED
    BY <1>3, <1>5, <2>1, PickNone
<1> QED
  BY <1>4, <1>5

(* None of a queue without them. *)
LEMMA OfNone ==
    ASSUME NEW q \in Seq(Handlers), NEW s, NEW h,
           \A i \in 1..Len(q) : ~(q[i].h = h /\ q[i].s = s)
    PROVE  Of(q, s, h) = <<>>
<1>1. {i \in 1..Len(q) : q[i].h = h /\ q[i].s = s} = {}
  OBVIOUS
<1> QED
  BY <1>1, PickNone DEF Of

(* The handlers of a session are handlers of that session in the queue. *)
LEMMA OfType ==
    ASSUME NEW q \in Seq(Handlers), NEW s, NEW h
    PROVE  /\ Of(q, s, h) \in Seq(Handlers)
           /\ \A k \in 1..Len(Of(q, s, h)) : Of(q, s, h)[k].h = h /\ Of(q, s, h)[k].s = s
<1> DEFINE I == {i \in 1..Len(q) : q[i].h = h /\ q[i].s = s}
<1>1. I \in SUBSET (1..Len(q))
  OBVIOUS
<1>2. /\ Pick(q, I) \in Seq(Handlers) /\ Len(Pick(q, I)) = Cardinality(I)
      /\ \A k \in 1..Cardinality(I) : Position(I, k) \in I /\ Pick(q, I)[k] = q[Position(I, k)]
  <2> HIDE DEF I
  <2> QED
    BY <1>1, PickProperties
<1>3. \A k \in 1..Len(Pick(q, I)) : Pick(q, I)[k].h = h /\ Pick(q, I)[k].s = s
  BY <1>2
<1> QED
  BY <1>2, <1>3 DEF Of

(* What a queue gains at its end, seen by a session. *)
LEMMA OfAppend ==
    ASSUME NEW q \in Seq(Handlers), NEW e \in Handlers, NEW s, NEW h
    PROVE  Of(Append(q, e), s, h) =
               IF e.h = h /\ e.s = s THEN Append(Of(q, s, h), e) ELSE Of(q, s, h)
<1>1. Append(q, e) = q \o <<e>> /\ <<e>> \in Seq(Handlers)
  OBVIOUS
<1>2. Of(Append(q, e), s, h) = Of(q, s, h) \o Of(<<e>>, s, h)
  <2>1. ASSUME NEW r \in Seq(Handlers) PROVE Of(q \o r, s, h) = Of(q, s, h) \o Of(r, s, h)
    BY OfConcat
  <2> QED
    BY <1>1, <2>1, Zenon
<1>3. Of(q, s, h) \in Seq(Handlers)
  BY OfType
<1>4. /\ Of(q, s, h) \o <<e>> = Append(Of(q, s, h), e)
      /\ Of(q, s, h) \o <<>> = Of(q, s, h)
  BY <1>3
<1> QED
  BY <1>2, <1>4, OfOne

(* What a queue loses at its head, seen by a session. *)
LEMMA OfTail ==
    ASSUME NEW q \in Seq(Handlers), q # <<>>, NEW s, NEW h
    PROVE  /\ Tail(q) \in Seq(Handlers) /\ Head(q) \in Handlers
           /\ Of(q, s, h) = IF Head(q).h = h /\ Head(q).s = s
                            THEN <<Head(q)>> \o Of(Tail(q), s, h) ELSE Of(Tail(q), s, h)
<1>1. /\ Tail(q) \in Seq(Handlers) /\ Head(q) \in Handlers
      /\ q = <<Head(q)>> \o Tail(q) /\ <<Head(q)>> \in Seq(Handlers)
  OBVIOUS
<1>2. Of(q, s, h) = Of(<<Head(q)>>, s, h) \o Of(Tail(q), s, h)
  <2>1. ASSUME NEW x \in Seq(Handlers), NEW r \in Seq(Handlers)
        PROVE  Of(x \o r, s, h) = Of(x, s, h) \o Of(r, s, h)
    BY OfConcat
  <2> QED
    BY <1>1, <2>1, Zenon
<1>3. Of(Tail(q), s, h) \in Seq(Handlers)
  BY <1>1, OfType
<1>4. <<>> \o Of(Tail(q), s, h) = Of(Tail(q), s, h)
  BY <1>3
<1> QED
  BY <1>1, <1>2, <1>4, OfOne

-----------------------------------------------------------------------------
(***************************************************************************)
(* Types                                                                   *)
(***************************************************************************)
(* The bounds are numbers. *)
LEMMA Bounds ==
    MaxSessions \in Nat /\ MaxSends \in Nat /\ MaxFaults \in Nat /\ MaxPublish \in Nat
BY ServerAssumption

(* The fields of requests, packages and handlers. *)
LEMMA Types ==
    /\ \A r \in Requests : r.n \in 1..MaxSends /\ r.k \in Kinds /\ r.k # "pub" /\ r \in Packages
    /\ \A n \in 1..MaxPublish : Publication(n) \in Packages
    /\ \A p \in Packages : p.n \in Nat /\ (p.k # "pub" => p \in Requests)
    /\ \A p \in Packages : p.k = "pub" => p = Publication(p.n)
    /\ \A s \in Sessions, in \in Seq(Requests), ok \in BOOLEAN : ReadDone(s, in, ok) \in Handlers
    /\ \A s \in Sessions, ok \in BOOLEAN : WriteDone(s, ok) \in Handlers
    /\ \A s \in Sessions, p \in Packages : WriteBuffer(s, p) \in Handlers
    /\ \A x \in Handlers :
           /\ x.s \in Sessions
           /\ x.h = "doRead" => x.in \in Seq(Requests) /\ x.ok \in BOOLEAN
           /\ x.h = "doWrite" => x.ok \in BOOLEAN
           /\ x.h = "writeBuffer" => x.p \in Packages
    /\ NoSession \notin Sessions
<1> USE ServerAssumption
<1>1. \A r \in Requests : r.n \in 1..MaxSends /\ r.k \in Kinds /\ r.k # "pub" /\ r \in Packages
  BY DEF Requests, Request, Packages
<1>2. \A n \in 1..MaxPublish : Publication(n) \in Packages
  BY DEF Packages
<1>3. \A p \in Packages : p.n \in Nat /\ (p.k # "pub" => p \in Requests)
  BY <1>1 DEF Packages, Publication
<1>4. \A p \in Packages : p.k = "pub" => p = Publication(p.n)
  BY <1>1 DEF Packages, Publication
<1>5. /\ \A s \in Sessions, in \in Seq(Requests), ok \in BOOLEAN : ReadDone(s, in, ok) \in Handlers
      /\ \A s \in Sessions, ok \in BOOLEAN : WriteDone(s, ok) \in Handlers
      /\ \A s \in Sessions, p \in Packages : WriteBuffer(s, p) \in Handlers
  BY DEF Handlers, ReadDone, WriteDone, WriteBuffer
<1>6. \A x \in Handlers :
           /\ x.s \in Sessions
           /\ x.h = "doRead" => x.in \in Seq(Requests) /\ x.ok \in BOOLEAN
           /\ x.h = "doWrite" => x.ok \in BOOLEAN
           /\ x.h = "writeBuffer" => x.p \in Packages
  BY DEF Handlers
<1>7. NoSession \notin Sessions
  BY DEF NoSession, Sessions
<1> QED
  BY <1>1, <1>2, <1>3, <1>4, <1>5, <1>6, <1>7

(* What postPackage() of p to the sessions of S adds to the io queue. *)
Posts(r, S, p) ==
    /\ r \in Seq(Handlers)
    /\ \A i \in 1..Len(r) : r[i].h = "writeBuffer"
    /\ \A s \in Sessions :
           Of(r, s, "writeBuffer") = IF s \in S THEN <<WriteBuffer(s, p)>> ELSE <<>>

(* postPackage() gives each session the package, and one handler to write it. *)
LEMMA PostToProperties ==
    ASSUME TypeOK, NEW S \in SUBSET Sessions, NEW p \in Packages, PostTo(S, p)
    PROVE  /\ \E r : ioQ' = ioQ \o r /\ Posts(r, S, p)
           /\ posted' \in [Sessions -> Seq(Packages)]
           /\ \A s \in Sessions : posted'[s] = IF s \in S THEN Append(posted[s], p) ELSE posted[s]
<1> DEFINE n == Cardinality(S)
           f == SetToSeq(S)
           r == [i \in 1..n |-> WriteBuffer(f[i], p)]
<1>1. IsFiniteSet(S) /\ n \in Nat
  <2>1. IsFiniteSet(Sessions)
    BY ServerAssumption, FS_Interval DEF Sessions
  <2> QED
    BY <2>1, FS_Subset, FS_CardinalityType
<1>2. f \in [1..n -> S] /\ IsInjective(f) /\ \A s \in S : \E i \in 1..n : f[i] = s
  <2>1. PICK g : g \in Bijection(1..n, S)
    BY <1>1, FS_CardinalityType DEF ExistsBijection
  <2>2. g \in [1..n -> S] /\ IsInjective(g)
    BY <2>1 DEF Bijection, Injection
  <2>3. f \in [1..n -> S] /\ IsInjective(f)
    BY <2>2 DEF SetToSeq
  <2>4. \A s \in S : \E i \in 1..n : f[i] = s
    <3>1. IsFiniteSet(1..n) /\ Cardinality(1..n) = n
      BY <1>1, FS_Interval
    <3> DEFINE img == {f[i] : i \in 1..n}
    <3>2. f \in Bijection(1..n, img)
      BY <2>3 DEF Bijection, Injection, Surjection, IsInjective
    <3>3. Cardinality(img) = n
      BY <3>1, <3>2, FS_Bijection DEF ExistsBijection
    <3>4. img \subseteq S
      BY <2>3
    <3>5. img = S
      BY <1>1, <3>3, <3>4, FS_Subset
    <3> QED
      BY <3>5
  <2> QED
    BY <2>3, <2>4
<1>3. \A i, j \in 1..n : f[i] = f[j] => i = j
  BY <1>2 DEF IsInjective
<1> HIDE DEF f, n
<1>4. r \in Seq(Handlers) /\ Len(r) = n
  <2>1. \A i \in 1..n : WriteBuffer(f[i], p) \in Handlers
    BY <1>2, Types
  <2> QED
    BY <1>1, <2>1
<1>5. \A i \in 1..n : r[i] = WriteBuffer(f[i], p) /\ r[i].h = "writeBuffer" /\ r[i].s = f[i]
  BY DEF WriteBuffer
<1>6. ioQ' = ioQ \o r
  BY DEF PostTo, n, f
<1> HIDE DEF r
<1>7. ASSUME NEW s \in Sessions
      PROVE  Of(r, s, "writeBuffer") = IF s \in S THEN <<WriteBuffer(s, p)>> ELSE <<>>
  <2> DEFINE I == {i \in 1..Len(r) : r[i].h = "writeBuffer" /\ r[i].s = s}
  <2>1. CASE s \in S
    <3>1. PICK j \in 1..n : f[j] = s
      BY <2>1, <1>2
    <3>2. I = {j}
      <4>1. \A i \in 1..n : r[i].s = s <=> i = j
        BY <3>1, <1>3, <1>5
      <4> QED
        BY <4>1, <1>4, <1>5
    <3>3. Pick(r, {j}) = <<r[j]>>
      BY <1>4, PickOne
    <3>4. r[j] = WriteBuffer(s, p)
      BY <3>1, <1>5
    <3> QED
      BY <2>1, <3>2, <3>3, <3>4 DEF Of
  <2>2. CASE s \notin S
    <3>1. I = {}
      BY <2>2, <1>2, <1>4, <1>5
    <3> QED
      BY <2>2, <3>1, PickNone DEF Of
  <2> QED
    BY <2>1, <2>2
<1>8. Posts(r, S, p)
  BY <1>4, <1>5, <1>7 DEF Posts
<1>9. posted' = [s \in Sessions |-> IF s \in S THEN Append(posted[s], p) ELSE posted[s]]
  BY DEF PostTo
<1>10. \A s \in Sessions : posted[s] \in Seq(Packages) /\ Append(posted[s], p) \in Seq(Packages)
  BY DEF TypeOK
<1> QED
  BY <1>6, <1>8, <1>9, <1>10

(* The same for the types. *)
LEMMA PostToType ==
    ASSUME TypeOK, NEW S \in SUBSET Sessions, NEW p \in Packages, PostTo(S, p)
    PROVE  posted' \in [Sessions -> Seq(Packages)] /\ ioQ' \in Seq(Handlers)
<1>1. PICK r : ioQ' = ioQ \o r /\ Posts(r, S, p)
  BY PostToProperties
<1>2. ioQ \in Seq(Handlers) /\ r \in Seq(Handlers)
  BY <1>1 DEF TypeOK, Posts
<1>3. ioQ' \in Seq(Handlers)
  BY <1>1, <1>2
<1> QED
  BY <1>3, PostToProperties

-----------------------------------------------------------------------------
(***************************************************************************)
(* TypeOK                                                                  *)
(***************************************************************************)
(* The server starts with the types. *)
LEMMA InitTypeOK == Init => TypeOK
<1> SUFFICES ASSUME Init PROVE TypeOK
  OBVIOUS
<1> USE ServerAssumption DEF Init
<1>1. reading \in [Sessions -> BOOLEAN] /\ writing \in [Sessions -> BOOLEAN]
  BY Zenon
<1>2. /\ ioQ \in Seq(Handlers)
      /\ inbox \in [Sessions -> Seq(Requests)]
      /\ workerQ \in [0..(Workers - 1) -> Seq([s : Sessions, r : Requests])]
  OBVIOUS
<1>3. /\ writeDeque_ \in [Sessions -> Seq(Packages)]
      /\ posted \in [Sessions -> Seq(Packages)]
      /\ written \in [Sessions -> Seq(Packages)]
  OBVIOUS
<1>4. /\ sent \in [Sessions -> 0..MaxSends]
      /\ published \in 0..MaxPublish /\ faults \in 0..MaxFaults
  BY Bounds
<1> QED
  BY <1>1, <1>2, <1>3, <1>4 DEF TypeOK

(* A completed write has its package at the front of the deque. *)
LEMMA WriteHasPackage ==
    ASSUME TypeOK, WriteInv, ioQ # <<>>, Head(ioQ).h = "doWrite"
    PROVE  LET s == Head(ioQ).s
           IN  /\ s \in Sessions /\ writeDeque_[s] # <<>> /\ ~writing[s]
               /\ Of(Tail(ioQ), s, "doWrite") = <<>>
<1> DEFINE s == Head(ioQ).s
           rest == Of(Tail(ioQ), s, "doWrite")
<1>1. ioQ \in Seq(Handlers) /\ Head(ioQ) \in Handlers /\ Tail(ioQ) \in Seq(Handlers)
  BY DEF TypeOK
<1>2. s \in Sessions
  BY <1>1, Types
<1>3. QueuedFor(s, "doWrite") = <<Head(ioQ)>> \o rest /\ rest \in Seq(Handlers)
  BY <1>1, OfTail, OfType DEF QueuedFor
<1>4. Len(QueuedFor(s, "doWrite")) = 1 + Len(rest) /\ Len(rest) \in Nat
  <2> HIDE DEF rest, s
  <2> QED
    BY <1>1, <1>3
<1>5. Outstanding(s) <= 1 /\ (Outstanding(s) = 1 => writeDeque_[s] # <<>>)
  BY <1>2 DEF WriteInv, WriteOk
<1>6. ~writing[s] /\ Len(rest) = 0 /\ Outstanding(s) = 1
  BY <1>4, <1>5 DEF Outstanding
<1>7. rest = <<>>
  <2> HIDE DEF rest
  <2> QED
    BY <1>3, <1>6
<1> QED
  BY <1>2, <1>5, <1>6, <1>7

(* handleMessage() gives workers and pool what was read. *)
LEMMA HandleMessagesType ==
    ASSUME TypeOK, NEW s \in Sessions, NEW in \in Seq(Requests), HandleMessages(s, in)
    PROVE  /\ workerQ' \in [0..(Workers - 1) -> Seq([s : Sessions, r : Requests])]
           /\ pool' \subseteq [s : Sessions, r : Requests, todo : SUBSET Topics]
<1> DEFINE W == [s : Sessions, r : Requests]
           I(w) == {i \in 1..Len(in) : in[i].k = "order" /\ WorkerOf(s, in[i]) = w}
           add(w) == [i \in 1..Len(Pick(in, I(w))) |-> WorkerTask(s, Pick(in, I(w))[i])]
<1>1. ASSUME NEW w \in 0..(Workers - 1) PROVE add(w) \in Seq(W)
  <2>1. I(w) \in SUBSET (1..Len(in))
    OBVIOUS
  <2>2. Pick(in, I(w)) \in Seq(Requests)
    <3> HIDE DEF I
    <3> QED
      BY <2>1, PickProperties
  <2> HIDE DEF I
  <2>3. \A i \in 1..Len(Pick(in, I(w))) : WorkerTask(s, Pick(in, I(w))[i]) \in W
    BY <2>2 DEF WorkerTask
  <2> QED
    BY <2>2, <2>3
<1>2. workerQ' = [w \in 0..(Workers - 1) |-> workerQ[w] \o add(w)]
  BY DEF HandleMessages, TypeOK
<1> HIDE DEF add, W
<1>3. \A w \in 0..(Workers - 1) : workerQ[w] \o add(w) \in Seq(W)
  <2>1. \A w \in 0..(Workers - 1) : workerQ[w] \in Seq(W)
    BY DEF TypeOK, W
  <2> QED
    BY <1>1, <2>1
<1>4. \A r \in ToSet(in) : r \in Requests
  BY DEF ToSet
<1>5. \A r \in Requests : PoolTask(s, r) \in [s : Sessions, r : Requests, todo : SUBSET Topics]
  BY DEF PoolTask
<1>6. pool' \subseteq [s : Sessions, r : Requests, todo : SUBSET Topics]
  BY <1>4, <1>5 DEF HandleMessages, TypeOK
<1> QED
  BY <1>2, <1>3, <1>6 DEF W

(* The requests of a read that are not ordered go to the pool. *)
LEMMA HandleMessagesPool ==
    ASSUME TypeOK, NEW s \in Sessions, NEW in \in Seq(Requests), HandleMessages(s, in)
    PROVE  \A task \in pool' :
               \/ task \in pool
               \/ \E j \in 1..Len(in) : /\ task = PoolTask(s, in[j])
                                        /\ in[j].k \notin {"order", "unknown"}
<1>1. SUFFICES ASSUME NEW task \in pool', task \notin pool
               PROVE  \E j \in 1..Len(in) : /\ task = PoolTask(s, in[j])
                                            /\ in[j].k \notin {"order", "unknown"}
  OBVIOUS
<1>2. PICK x \in ToSet(in) : task = PoolTask(s, x) /\ x.k \notin {"order", "unknown"}
  BY <1>1 DEF HandleMessages
<1>3. PICK j \in DOMAIN in : x = in[j]
  BY <1>2 DEF ToSet
<1>4. j \in 1..Len(in)
  BY <1>3
<1> QED
  BY <1>2, <1>3, <1>4

(* The ordered requests of a read go to the worker of the session, behind  *)
(* what the worker has, in the order of the read.                          *)
LEMMA HandleMessagesOrder ==
    ASSUME TypeOK, NEW s \in Sessions, NEW in \in Seq(Requests), Increasing(in),
           HandleMessages(s, in), NEW w \in 0..(Workers - 1)
    PROVE  /\ Len(workerQ[w]) \in Nat
           /\ \A i \in 1..Len(workerQ'[w]) :
                  \/ i \in 1..Len(workerQ[w]) /\ workerQ'[w][i] = workerQ[w][i]
                  \/ /\ i > Len(workerQ[w]) /\ workerQ'[w][i].s = s /\ w = s % Workers
                     /\ \E j \in 1..Len(in) : workerQ'[w][i].r = in[j] /\ in[j].k = "order"
           /\ \A i, j \in 1..Len(workerQ'[w]) :
                  Len(workerQ[w]) < i /\ i < j => workerQ'[w][i].r.n < workerQ'[w][j].r.n
<1> DEFINE I == {i \in 1..Len(in) : in[i].k = "order" /\ WorkerOf(s, in[i]) = w}
           add == [i \in 1..Len(Pick(in, I)) |-> WorkerTask(s, Pick(in, I)[i])]
<1>1. I \in SUBSET (1..Len(in)) /\ \A i \in I : in[i].k = "order" /\ w = s % Workers
  BY DEF WorkerOf
<1>2. workerQ'[w] = workerQ[w] \o add
  BY DEF HandleMessages, TypeOK
<1> HIDE DEF I
<1>3. /\ Len(Pick(in, I)) = Cardinality(I) /\ Cardinality(I) \in Nat
      /\ \A k \in 1..Cardinality(I) : Position(I, k) \in I /\ Pick(in, I)[k] = in[Position(I, k)]
  BY <1>1, PickProperties
<1>4. Len(in) \in Nat
  OBVIOUS
<1>5. \A k, l \in 1..Cardinality(I) : k < l => Position(I, k) < Position(I, l)
  BY <1>1, <1>4, PositionsEnumerate
<1>6. /\ Len(add) = Cardinality(I)
      /\ \A k \in 1..Len(add) : add[k].s = s /\ add[k].r = in[Position(I, k)]
  BY <1>3 DEF WorkerTask
<1>7. add \in Seq({add[k] : k \in 1..Len(add)})
  BY <1>3, <1>6
<1> HIDE DEF add
<1>8. workerQ[w] \in Seq([s : Sessions, r : Requests])
  BY DEF TypeOK
<1>9. PICK n \in Nat, m \in Nat : n = Len(workerQ[w]) /\ m = Len(add)
  BY <1>3, <1>6, <1>8
<1>10. /\ Len(workerQ'[w]) = n + m
       /\ \A i \in 1..(n + m) : workerQ'[w][i] = IF i <= n THEN workerQ[w][i] ELSE add[i - n]
  BY <1>2, <1>7, <1>8, <1>9
<1>11. ASSUME NEW i \in 1..(n + m)
       PROVE  \/ i \in 1..n /\ workerQ'[w][i] = workerQ[w][i]
              \/ /\ i > n /\ workerQ'[w][i].s = s /\ w = s % Workers
                 /\ \E j \in 1..Len(in) : workerQ'[w][i].r = in[j] /\ in[j].k = "order"
  <2>1. CASE i <= n
    BY <1>10, <2>1
  <2>2. CASE i > n
    <3>1. i - n \in 1..m /\ workerQ'[w][i] = add[i - n]
      BY <1>10, <2>2
    <3>2. add[i - n].s = s /\ add[i - n].r = in[Position(I, i - n)] /\ Position(I, i - n) \in I
      BY <1>3, <1>6, <1>9, <3>1
    <3> QED
      BY <1>1, <2>2, <3>1, <3>2
  <2> QED
    BY <2>1, <2>2
<1>12. ASSUME NEW i \in 1..(n + m), NEW j \in 1..(n + m), n < i, i < j
       PROVE  workerQ'[w][i].r.n < workerQ'[w][j].r.n
  <2>1. /\ i - n \in 1..m /\ j - n \in 1..m /\ i - n < j - n
        /\ workerQ'[w][i] = add[i - n] /\ workerQ'[w][j] = add[j - n]
    BY <1>10, <1>12
  <2> DEFINE a == Position(I, i - n)
             b == Position(I, j - n)
  <2>2. a \in 1..Len(in) /\ b \in 1..Len(in) /\ a < b
    BY <1>1, <1>3, <1>5, <1>6, <1>9, <2>1
  <2>3. add[i - n].r = in[a] /\ add[j - n].r = in[b]
    BY <1>6, <1>9, <2>1
  <2> QED
    BY <2>1, <2>2, <2>3 DEF Increasing
<1> QED
  BY <1>9, <1>10, <1>11, <1>12

(* Every step keeps the types. *)
LEMMA NextTypeOK ==
    ASSUME TypeOK, WriteInv, Started, [Next]_vars
    PROVE  TypeOK'
<1> USE DEF vars, sessionVars, roomVars, taskVars, pubVars, histVars
<1>0. /\ ioQ \in Seq(Handlers)
      /\ ioQ # <<>> => Head(ioQ) \in Handlers /\ Tail(ioQ) \in Seq(Handlers)
                       /\ Head(ioQ).s \in Sessions
  <2>1. ioQ \in Seq(Handlers)
    BY DEF TypeOK
  <2>2. ioQ # <<>> => Head(ioQ) \in Handlers /\ Tail(ioQ) \in Seq(Handlers)
    BY <2>1
  <2> QED
    BY <2>1, <2>2, Types
<1>1. CASE UNCHANGED vars
  BY <1>1 DEF TypeOK
<1>2. CASE RunDoRead
  <2>1. /\ workerQ' \in [0..(Workers - 1) -> Seq([s : Sessions, r : Requests])]
        /\ pool' \subseteq [s : Sessions, r : Requests, todo : SUBSET Topics]
    BY <1>0, <1>2, Types, HandleMessagesType DEF RunDoRead, Runs
  <2>2. reading' \in [Sessions -> BOOLEAN]
    BY <1>2, Zenon DEF RunDoRead, TypeOK
  <2> QED
    BY <1>0, <1>2, <2>1, <2>2 DEF RunDoRead, Runs, TypeOK
<1>3. CASE RunLeave
  BY <1>0, <1>3 DEF RunLeave, Runs, TypeOK
<1>4. CASE RunLeaveTopics
  BY <1>4 DEF RunLeaveTopics, TypeOK
<1>5. CASE RunWriteBuffer
  <2>1. Head(ioQ).p \in Packages /\ Head(ioQ).s \in Sessions /\ ioQ # <<>>
    BY <1>0, <1>5, Types DEF RunWriteBuffer, Runs
  <2>2. writeDeque_' \in [Sessions -> Seq(Packages)]
    BY <1>5, <2>1 DEF RunWriteBuffer, TypeOK, Enqueue
  <2>3. writing' \in [Sessions -> BOOLEAN]
    BY <1>5, Zenon DEF RunWriteBuffer, TypeOK
  <2> QED
    BY <1>0, <1>5, <2>1, <2>2, <2>3 DEF RunWriteBuffer, TypeOK
<1>6. CASE RunDoWrite
  <2> DEFINE s == Head(ioQ).s
  <2>1. s \in Sessions /\ writeDeque_[s] # <<>> /\ ioQ # <<>>
    BY <1>6, WriteHasPackage DEF RunDoWrite, Runs
  <2> HIDE DEF s
  <2>2. writeDeque_[s] \in Seq(Packages) /\ written[s] \in Seq(Packages)
    BY <2>1 DEF TypeOK
  <2>3. Head(writeDeque_[s]) \in Packages /\ Tail(writeDeque_[s]) \in Seq(Packages)
    BY <2>1, <2>2
  <2>4. writeDeque_' \in [Sessions -> Seq(Packages)] /\ written' \in [Sessions -> Seq(Packages)]
    <3>1. /\ written' = [written EXCEPT ![s] = Append(written[s], Head(writeDeque_[s]))]
          /\ writeDeque_' = [writeDeque_ EXCEPT ![s] = Tail(writeDeque_[s])]
      BY <1>6 DEF RunDoWrite, s
    <3>2. Append(written[s], Head(writeDeque_[s])) \in Seq(Packages)
      BY <2>2, <2>3
    <3>3. writeDeque_ \in [Sessions -> Seq(Packages)] /\ written \in [Sessions -> Seq(Packages)]
      BY DEF TypeOK
    <3> QED
      BY <2>1, <2>3, <3>1, <3>2, <3>3
  <2>5. writing' \in [Sessions -> BOOLEAN]
    BY <1>6, Zenon DEF RunDoWrite, TypeOK, GoOn
  <2> QED
    BY <1>0, <1>6, <2>1, <2>4, <2>5 DEF RunDoWrite, TypeOK
<1>7. ASSUME NEW task \in pool, PoolExecutes(task) PROVE TypeOK'
  <2>1. task.s \in Sessions /\ task.r \in Requests /\ task.r \in Packages
    BY Types DEF TypeOK
  <2>2. posted' \in [Sessions -> Seq(Packages)] /\ ioQ' \in Seq(Handlers)
    <3>1. CASE task.r.k = "badsub"
      BY <1>0, <1>7, <3>1 DEF PoolExecutes, TypeOK
    <3>2. CASE task.r.k # "badsub"
      <4>1. PostTo({task.s}, task.r) /\ {task.s} \in SUBSET Sessions
        BY <1>7, <2>1, <3>2 DEF PoolExecutes, ReplyMessage
      <4> QED
        BY <2>1, <4>1, PostToType
    <3> QED
      BY <3>1, <3>2
  <2> QED
    BY <1>7, <2>1, <2>2 DEF PoolExecutes, TypeOK
<1>8. ASSUME NEW task \in pool, NEW t \in Topics, Subscribe(task, t) PROVE TypeOK'
  <2>1. task \in [s : Sessions, r : Requests, todo : SUBSET Topics]
    BY DEF TypeOK
  <2>2. [task EXCEPT !.todo = @ \ {t}] \in [s : Sessions, r : Requests, todo : SUBSET Topics]
    BY <2>1
  <2>3. pool' \subseteq [s : Sessions, r : Requests, todo : SUBSET Topics]
    BY <1>8, <2>2 DEF Subscribe, TypeOK
  <2>4. topics' \in [Topics -> SUBSET Sessions]
    BY <1>8, <2>1 DEF Subscribe, ChangeTopic, TypeOK
  <2> QED
    BY <1>8, <2>3, <2>4 DEF Subscribe, TypeOK
<1>9. CASE PublishIds
  <2>1. pub' \in [at : {"idle", "ids", "done"}, ids : SUBSET Sessions, owed : SUBSET Sessions]
    BY <1>9, ServerAssumption DEF PublishIds, TypeOK
  <2>2. published' \in 0..MaxPublish
    BY <1>9, ServerAssumption DEF PublishIds, TypeOK
  <2> QED
    BY <1>9, <2>1, <2>2 DEF PublishIds, TypeOK
<1>10. CASE PublishPosts
  <2>1. pub' \in [at : {"idle", "ids", "done"}, ids : SUBSET Sessions, owed : SUBSET Sessions]
    BY <1>10 DEF PublishPosts, TypeOK
  <2>2. published \in 1..MaxPublish
    BY <1>10, Bounds DEF PublishPosts, Started, TypeOK
  <2>3. Publication(published) \in Packages /\ pub.ids \cap sessionCache_ \in SUBSET Sessions
    BY <2>2, Types DEF TypeOK
  <2>4. posted' \in [Sessions -> Seq(Packages)] /\ ioQ' \in Seq(Handlers)
    BY <1>10, <2>3, PostToType DEF PublishPosts
  <2> QED
    BY <1>10, <2>1, <2>4 DEF PublishPosts, TypeOK
<1>11. CASE Stop
  BY <1>11 DEF Stop, TypeOK
<1>12. ASSUME NEW w \in DOMAIN workerQ, WorkerExecutes(w) PROVE TypeOK'
  <2>1. w \in 0..(Workers - 1) /\ workerQ[w] \in Seq([s : Sessions, r : Requests])
    BY <1>12 DEF TypeOK
  <2>2. /\ Head(workerQ[w]) \in [s : Sessions, r : Requests]
        /\ Tail(workerQ[w]) \in Seq([s : Sessions, r : Requests])
    <3>1. workerQ[w] # <<>>
      BY <1>12 DEF WorkerExecutes
    <3> QED
      BY <2>1, <3>1, HeadTailProperties, Zenon
  <2>3. Head(workerQ[w]).r \in Packages /\ {Head(workerQ[w]).s} \in SUBSET Sessions
    BY <2>2, Types
  <2>4. posted' \in [Sessions -> Seq(Packages)] /\ ioQ' \in Seq(Handlers)
    BY <1>12, <2>3, PostToType DEF WorkerExecutes, ReplyMessage
  <2>5. workerQ' \in [0..(Workers - 1) -> Seq([s : Sessions, r : Requests])]
    BY <1>12, <2>1, <2>2 DEF WorkerExecutes, TypeOK
  <2> QED
    BY <1>12, <2>4, <2>5 DEF WorkerExecutes, TypeOK
<1>13. ASSUME NEW s \in Sessions, Accept(s) PROVE TypeOK'
  <2>1. reading' \in [Sessions -> BOOLEAN]
    BY <1>13, Zenon DEF Accept, TypeOK
  <2> QED
    BY <1>13, <2>1 DEF Accept, JoinRoom, TypeOK
<1>14. ASSUME NEW s \in Sessions, ReadCompletes(s) PROVE TypeOK'
  <2>1. PICK len \in 1..Len(inbox[s]) :
            /\ ioQ' = Append(ioQ, ReadDone(s, SubSeq(inbox[s], 1, len), TRUE))
            /\ inbox' = [inbox EXCEPT ![s] = SubSeq(@, len + 1, Len(@))]
    BY <1>14 DEF ReadCompletes
  <2>2. inbox[s] \in Seq(Requests)
    BY DEF TypeOK
  <2>3. SubSeq(inbox[s], 1, len) \in Seq(Requests)
        /\ SubSeq(inbox[s], len + 1, Len(inbox[s])) \in Seq(Requests)
    BY <2>2
  <2>4. ioQ' \in Seq(Handlers)
    <3>1. ReadDone(s, SubSeq(inbox[s], 1, len), TRUE) \in Handlers
      BY <2>3, Types, Zenon
    <3> QED
      BY <1>0, <2>1, <3>1, AppendProperties, Zenon
  <2>5. inbox' \in [Sessions -> Seq(Requests)]
    BY <2>1, <2>3 DEF TypeOK
  <2>6. reading' \in [Sessions -> BOOLEAN]
    BY <1>14, Zenon DEF ReadCompletes, TypeOK
  <2> QED
    BY <1>14, <2>4, <2>5, <2>6 DEF ReadCompletes, TypeOK
<1>15. ASSUME NEW s \in Sessions, ReadFails(s) PROVE TypeOK'
  <2>1. ioQ' \in Seq(Handlers)
    <3>1. <<>> \in Seq(Requests)
      OBVIOUS
    <3>2. ReadDone(s, <<>>, FALSE) \in Handlers
      BY <3>1, Types, Zenon
    <3> QED
      BY <1>0, <1>15, <3>2, AppendProperties, Zenon DEF ReadFails
  <2>2. reading' \in [Sessions -> BOOLEAN]
    BY <1>15, Zenon DEF ReadFails, TypeOK
  <2> QED
    BY <1>15, <2>1, <2>2 DEF ReadFails, TypeOK
<1>16. ASSUME NEW s \in Sessions, WriteCompletes(s) PROVE TypeOK'
  <2>1. ioQ' \in Seq(Handlers)
    BY <1>0, <1>16, Types DEF WriteCompletes
  <2>2. writing' \in [Sessions -> BOOLEAN]
    BY <1>16, Zenon DEF WriteCompletes, TypeOK
  <2> QED
    BY <1>16, <2>1, <2>2 DEF WriteCompletes, TypeOK
<1>17. ASSUME NEW s \in Sessions, ConnectionLost(s) PROVE TypeOK'
  <2>1. inbox' \in [Sessions -> Seq(Requests)]
    BY <1>17 DEF ConnectionLost, TypeOK
  <2>2. faults' \in 0..MaxFaults
    BY <1>17, ServerAssumption DEF ConnectionLost, TypeOK
  <2> QED
    BY <1>17, <2>1, <2>2 DEF ConnectionLost, TypeOK
<1>18. ASSUME NEW s \in Sessions, NEW k \in Kinds, ClientSends(s, k) PROVE TypeOK'
  <2>1. sent[s] \in 0..MaxSends /\ sent[s] + 1 \in 1..MaxSends /\ sent[s] + 1 \in 0..MaxSends
    BY <1>18, Bounds, SMTT(60) DEF ClientSends, TypeOK
  <2>2. Request(sent[s] + 1, k) \in Requests
    BY <2>1 DEF Requests
  <2>3. inbox' \in [Sessions -> Seq(Requests)]
    BY <1>18, <2>2 DEF ClientSends, TypeOK
  <2>4. sent' \in [Sessions -> 0..MaxSends]
    BY <1>18, <2>1 DEF ClientSends, TypeOK
  <2> QED
    BY <1>18, <2>3, <2>4 DEF ClientSends, TypeOK
<1> QED
  BY <1>1, <1>2, <1>3, <1>4, <1>5, <1>6, <1>7, <1>8, <1>9, <1>10, <1>11, <1>12, <1>13,
     <1>14, <1>15, <1>16, <1>17, <1>18 DEF Next, IoStep, PoolStep, AsioStep

-----------------------------------------------------------------------------
(***************************************************************************)
(* What a step does to the io queue                                        *)
(***************************************************************************)

(* The elements of a queue without its head. *)
LEMMA TailElements ==
    ASSUME NEW q \in Seq(Handlers), q # <<>>
    PROVE  /\ Tail(q) \in Seq(Handlers) /\ Head(q) \in Handlers /\ Head(q) = q[1]
           /\ 1 \in 1..Len(q) /\ Len(q) \in Nat /\ Len(Tail(q)) = Len(q) - 1
           /\ \A i \in 1..Len(Tail(q)) : i + 1 \in 1..Len(q) /\ Tail(q)[i] = q[i + 1]
OBVIOUS

(* The elements of a queue with one more handler. *)
LEMMA AppendElements ==
    ASSUME NEW q \in Seq(Handlers), NEW e \in Handlers
    PROVE  /\ Append(q, e) \in Seq(Handlers)
           /\ Len(q) \in Nat /\ Len(Append(q, e)) = Len(q) + 1
           /\ \A i \in 1..Len(Append(q, e)) :
                  \/ i \in 1..Len(q) /\ Append(q, e)[i] = q[i]
                  \/ i = Len(q) + 1 /\ Append(q, e)[i] = e
OBVIOUS

(* The elements of a queue behind which postPackage() puts its handlers. *)
LEMMA PostElements ==
    ASSUME NEW q \in Seq(Handlers), NEW r, NEW S, NEW p, Posts(r, S, p)
    PROVE  /\ q \o r \in Seq(Handlers) /\ Len(q) \in Nat /\ Len(q \o r) \in Nat
           /\ \A i \in 1..Len(q \o r) :
                  \/ i \in 1..Len(q) /\ (q \o r)[i] = q[i]
                  \/ (q \o r)[i].h = "writeBuffer"
           /\ \A s \in Sessions : \A h :
                  h # "writeBuffer" => Of(q \o r, s, h) = Of(q, s, h)
<1>1. r \in Seq(Handlers) /\ \A i \in 1..Len(r) : r[i].h = "writeBuffer"
  BY DEF Posts
<1>2. /\ q \o r \in Seq(Handlers) /\ Len(q) \in Nat /\ Len(q \o r) \in Nat
      /\ Len(q \o r) = Len(q) + Len(r)
      /\ \A i \in 1..Len(q \o r) :
             \/ i \in 1..Len(q) /\ (q \o r)[i] = q[i]
             \/ i - Len(q) \in 1..Len(r) /\ (q \o r)[i] = r[i - Len(q)]
  BY <1>1
<1>3. ASSUME NEW s \in Sessions, NEW h, h # "writeBuffer" PROVE Of(q \o r, s, h) = Of(q, s, h)
  <2>1. Of(q \o r, s, h) = Of(q, s, h) \o Of(r, s, h)
    BY <1>1, OfConcat
  <2>2. Of(r, s, h) = <<>>
    <3>1. \A i \in 1..Len(r) : ~(r[i].h = h /\ r[i].s = s)
      BY <1>1, <1>3
    <3>2. {i \in 1..Len(r) : r[i].h = h /\ r[i].s = s} = {}
      BY <3>1
    <3> QED
      BY <3>2, PickNone DEF Of
  <2>3. Of(q, s, h) \in Seq(Handlers)
    BY OfType
  <2> QED
    BY <2>1, <2>2, <2>3
<1> QED
  BY <1>1, <1>2, <1>3

(* The io thread takes the handler at the head. *)
LEMMA QueuedTail ==
    ASSUME TypeOK, ioQ # <<>>, ioQ' = Tail(ioQ), NEW s, NEW h
    PROVE  QueuedFor(s, h) = IF Head(ioQ).h = h /\ Head(ioQ).s = s
                             THEN <<Head(ioQ)>> \o QueuedFor(s, h)' ELSE QueuedFor(s, h)'
<1>1. ioQ \in Seq(Handlers)
  BY DEF TypeOK
<1>2. Of(ioQ, s, h) = IF Head(ioQ).h = h /\ Head(ioQ).s = s
                      THEN <<Head(ioQ)>> \o Of(Tail(ioQ), s, h) ELSE Of(Tail(ioQ), s, h)
  BY <1>1, OfTail
<1> QED
  BY <1>2, Zenon DEF QueuedFor

(* A handler is queued. *)
LEMMA QueuedAppend ==
    ASSUME TypeOK, NEW e \in Handlers, ioQ' = Append(ioQ, e), NEW s, NEW h
    PROVE  QueuedFor(s, h)' =
               IF e.h = h /\ e.s = s THEN Append(QueuedFor(s, h), e) ELSE QueuedFor(s, h)
<1>1. ioQ \in Seq(Handlers)
  BY DEF TypeOK
<1>2. Of(Append(ioQ, e), s, h) = IF e.h = h /\ e.s = s THEN Append(Of(ioQ, s, h), e) ELSE Of(ioQ, s, h)
  BY <1>1, OfAppend
<1> QED
  BY <1>2, Zenon DEF QueuedFor

-----------------------------------------------------------------------------
(***************************************************************************)
(* OneWrite                                                                *)
(***************************************************************************)

(* A step that leaves the writes of a session alone. *)
LEMMA WriteOkKept ==
    ASSUME NEW s \in Sessions, WriteOk(s),
           writing'[s] = writing[s], writeDeque_'[s] = writeDeque_[s],
           conn'[s] = conn[s] \/ conn[s] # "lost",
           QueuedFor(s, "doWrite")' = QueuedFor(s, "doWrite")
    PROVE  WriteOk(s)'
<1>1. Outstanding(s)' = Outstanding(s)
  BY DEF Outstanding
<1> QED
  BY <1>1 DEF WriteOk

(* Before the first connection nothing is written. *)
LEMMA InitWriteInv == Init => WriteInv
<1> SUFFICES ASSUME Init PROVE WriteInv
  OBVIOUS
<1>1. FailedIsLost
  BY DEF Init, FailedIsLost
<1>2. ASSUME NEW s \in Sessions PROVE WriteOk(s)
  <2>1. Of(<<>>, s, "doWrite") = <<>>
    <3>1. {i \in 1..Len(<<>>) : <<>>[i].h = "doWrite" /\ <<>>[i].s = s} = {}
      OBVIOUS
    <3> QED
      BY <3>1, PickNone DEF Of
  <2>2. Outstanding(s) = 0
    BY <2>1 DEF Init, Outstanding, QueuedFor
  <2> QED
    BY <2>2 DEF WriteOk, Init
<1> QED
  BY <1>1, <1>2 DEF WriteInv

(* postPackage() starts no write. *)
LEMMA PostToWriteInv ==
    ASSUME TypeOK, WriteInv, NEW S \in SUBSET Sessions, NEW p \in Packages, PostTo(S, p),
           UNCHANGED <<conn, writing, writeDeque_>>
    PROVE  WriteInv'
<1>1. PICK r : ioQ' = ioQ \o r /\ Posts(r, S, p)
  BY PostToProperties
<1>2. ioQ \in Seq(Handlers)
  BY DEF TypeOK
<1>3. FailedIsLost'
  BY <1>1, <1>2, PostElements DEF WriteInv, FailedIsLost
<1>4. \A s \in Sessions : QueuedFor(s, "doWrite")' = QueuedFor(s, "doWrite")
  BY <1>1, <1>2, PostElements DEF QueuedFor
<1>5. \A s \in Sessions : WriteOk(s)'
  BY <1>4, WriteOkKept DEF WriteInv
<1> QED
  BY <1>3, <1>5 DEF WriteInv

(* Every step keeps to one write for each session. *)
LEMMA NextWriteInv ==
    ASSUME TypeOK, WriteInv, Started, [Next]_vars
    PROVE  WriteInv'
<1> USE DEF vars, sessionVars, roomVars, taskVars, pubVars, histVars
<1>0. ioQ \in Seq(Handlers)
  BY DEF TypeOK
<1>A. ASSUME UNCHANGED <<ioQ, conn, writing, writeDeque_>> PROVE WriteInv'
  <2>1. FailedIsLost'
    BY <1>A DEF WriteInv, FailedIsLost
  <2>2. \A s \in Sessions : WriteOk(s)'
    BY <1>A DEF WriteInv, WriteOk, Outstanding, QueuedFor
  <2> QED
    BY <2>1, <2>2 DEF WriteInv
<1>B. ASSUME ioQ # <<>>, ioQ' = Tail(ioQ), conn' = conn PROVE FailedIsLost'
  BY <1>0, <1>B, TailElements DEF WriteInv, FailedIsLost
<1>1. CASE UNCHANGED vars
  BY <1>1, <1>A
<1>2. CASE RunDoRead
  <2>1. ioQ # <<>> /\ Head(ioQ).h = "doRead" /\ ioQ' = Tail(ioQ) /\ conn' = conn
    BY <1>2 DEF RunDoRead, Runs
  <2>2. \A s \in Sessions : QueuedFor(s, "doWrite")' = QueuedFor(s, "doWrite")
    BY <2>1, QueuedTail
  <2>3. \A s \in Sessions : WriteOk(s)'
    BY <1>2, <2>2, WriteOkKept DEF RunDoRead, WriteInv
  <2> QED
    BY <1>B, <2>1, <2>3 DEF WriteInv
<1>3. CASE RunLeave
  <2>1. ioQ # <<>> /\ ioQ' = Tail(ioQ) /\ UNCHANGED <<conn, writing, writeDeque_>>
    BY <1>3 DEF RunLeave, Runs
  <2>2. ASSUME NEW s \in Sessions PROVE WriteOk(s)'
    <3>1. CASE Head(ioQ).h = "doWrite" /\ Head(ioQ).s = s
      <4>1. /\ writeDeque_[s] # <<>> /\ ~writing[s]
            /\ Of(Tail(ioQ), s, "doWrite") = <<>>
        BY <2>1, <3>1, WriteHasPackage
      <4>2. conn[s] = "lost"
        BY <1>0, <1>3, <2>1, <3>1, TailElements DEF RunLeave, WriteInv, FailedIsLost
      <4>3. Outstanding(s)' = 0
        BY <2>1, <4>1 DEF Outstanding, QueuedFor
      <4> QED
        BY <2>1, <4>2, <4>3 DEF WriteOk
    <3>2. CASE ~(Head(ioQ).h = "doWrite" /\ Head(ioQ).s = s)
      <4>1. QueuedFor(s, "doWrite")' = QueuedFor(s, "doWrite")
        BY <2>1, <3>2, QueuedTail
      <4> QED
        BY <2>1, <4>1, WriteOkKept DEF WriteInv
    <3> QED
      BY <3>1, <3>2
  <2> QED
    BY <1>B, <2>1, <2>2 DEF WriteInv
<1>4. CASE RunLeaveTopics
  BY <1>4, <1>A DEF RunLeaveTopics
<1>5. CASE RunWriteBuffer
  <2>1. /\ ioQ # <<>> /\ ioQ' = Tail(ioQ) /\ conn' = conn /\ Head(ioQ).h = "writeBuffer"
        /\ Head(ioQ).s \in Sessions
    BY <1>0, <1>5, TailElements, Types DEF RunWriteBuffer, Runs
  <2>0. PICK s \in Sessions : s = Head(ioQ).s
    BY <2>1
  <2>2. \A r \in Sessions : QueuedFor(r, "doWrite")' = QueuedFor(r, "doWrite")
    BY <2>1, QueuedTail
  <2>3. ASSUME NEW r \in Sessions, r # s PROVE WriteOk(r)'
    <3>1. writing'[r] = writing[r] /\ writeDeque_'[r] = writeDeque_[r]
      BY <1>5, <2>0, <2>3 DEF RunWriteBuffer, TypeOK
    <3> QED
      BY <2>1, <2>2, <3>1, WriteOkKept DEF WriteInv
  <2>4. WriteOk(s)'
    <3>1. /\ writing'[s] = (writing[s] \/ writeDeque_[s] = <<>>)
          /\ writeDeque_'[s] = Append(writeDeque_[s], Head(ioQ).p)
      BY <1>5, <2>0 DEF RunWriteBuffer, TypeOK, Enqueue
    <3>2. writeDeque_'[s] # <<>>
      <4>1. Head(ioQ).p \in Packages /\ writeDeque_[s] \in Seq(Packages)
        BY <1>0, <2>1, TailElements, Types DEF TypeOK
      <4> QED
        BY <3>1, <4>1, AppendProperties
    <3>3. QueuedFor(s, "doWrite") \in Seq(Handlers)
      BY <1>0, OfType DEF QueuedFor
    <3>4. Len(QueuedFor(s, "doWrite")) \in Nat
      BY <3>3, LenProperties
    <3>5. WriteOk(s)
      BY DEF WriteInv
    <3>6. CASE writeDeque_[s] = <<>>
      <4>1. PICK n \in Nat : n = Len(QueuedFor(s, "doWrite"))
        BY <3>4
      <4>2. Outstanding(s) = (IF writing[s] THEN 1 ELSE 0) + n
        BY <4>1 DEF Outstanding
      <4>3. Outstanding(s) <= 1 /\ Outstanding(s) # 1
        BY <3>5, <3>6 DEF WriteOk
      <4>4. n = 0
        BY <4>2, <4>3
      <4>5. writing'[s]
        BY <3>1, <3>6
      <4>6. Len(QueuedFor(s, "doWrite")') = 0
        BY <2>2, <4>1, <4>4
      <4>7. Outstanding(s)' = 1
        BY <4>5, <4>6 DEF Outstanding
      <4> QED
        BY <3>2, <4>7 DEF WriteOk
    <3>7. CASE writeDeque_[s] # <<>>
      <4>1. Outstanding(s)' = Outstanding(s)
        BY <2>1, <2>2, <3>1, <3>7 DEF Outstanding
      <4> QED
        BY <2>1, <3>2, <3>5, <3>7, <4>1 DEF WriteOk
    <3> QED
      BY <3>6, <3>7
  <2> QED
    BY <1>B, <2>1, <2>3, <2>4 DEF WriteInv
<1>6. CASE RunDoWrite
  <2>1. /\ ioQ # <<>> /\ ioQ' = Tail(ioQ) /\ conn' = conn /\ Head(ioQ).h = "doWrite"
    BY <1>6 DEF RunDoWrite, Runs
  <2>0. PICK s \in Sessions : s = Head(ioQ).s
    BY <2>1, WriteHasPackage
  <2>2. writeDeque_[s] # <<>> /\ Of(Tail(ioQ), s, "doWrite") = <<>>
    BY <2>0, <2>1, WriteHasPackage
  <2>3. ASSUME NEW r \in Sessions, r # s PROVE WriteOk(r)'
    <3>1. writing'[r] = writing[r] /\ writeDeque_'[r] = writeDeque_[r]
      BY <1>6, <2>0, <2>3 DEF RunDoWrite, TypeOK
    <3>2. QueuedFor(r, "doWrite")' = QueuedFor(r, "doWrite")
      BY <2>0, <2>1, <2>3, QueuedTail
    <3> QED
      BY <2>1, <3>1, <3>2, WriteOkKept DEF WriteInv
  <2>4. WriteOk(s)'
    <3>1. writing'[s] = (Tail(writeDeque_[s]) # <<>>) /\ writeDeque_'[s] = Tail(writeDeque_[s])
      BY <1>6, <2>0 DEF RunDoWrite, TypeOK, GoOn
    <3>2. Outstanding(s)' = IF writing'[s] THEN 1 ELSE 0
      BY <2>1, <2>2 DEF Outstanding, QueuedFor
    <3>3. CASE Tail(writeDeque_[s]) # <<>>
      <4>1. Outstanding(s)' = 1
        BY <3>1, <3>2, <3>3
      <4> QED
        BY <3>1, <3>3, <4>1 DEF WriteOk
    <3>4. CASE Tail(writeDeque_[s]) = <<>>
      <4>1. Outstanding(s)' = 0
        BY <3>1, <3>2, <3>4
      <4> QED
        BY <3>1, <3>4, <4>1 DEF WriteOk
    <3> QED
      BY <3>3, <3>4
  <2> QED
    BY <1>B, <2>1, <2>3, <2>4 DEF WriteInv
<1>7. ASSUME NEW task \in pool, PoolExecutes(task) PROVE WriteInv'
  <2>1. {task.s} \in SUBSET Sessions /\ task.r \in Packages
    BY Types DEF TypeOK
  <2>2. CASE task.r.k = "badsub"
    BY <1>7, <1>A, <2>2 DEF PoolExecutes
  <2>3. CASE task.r.k # "badsub"
    BY <1>7, <2>1, <2>3, PostToWriteInv DEF PoolExecutes, ReplyMessage
  <2> QED
    BY <2>2, <2>3
<1>8. ASSUME NEW task \in pool, NEW t \in Topics, Subscribe(task, t) PROVE WriteInv'
  BY <1>8, <1>A DEF Subscribe
<1>9. CASE PublishIds
  BY <1>9, <1>A DEF PublishIds
<1>10. CASE PublishPosts
  <2>1. published \in 1..MaxPublish
    BY <1>10, Bounds DEF PublishPosts, Started, TypeOK
  <2>2. Publication(published) \in Packages /\ pub.ids \cap sessionCache_ \in SUBSET Sessions
    BY <2>1, Types DEF TypeOK
  <2> QED
    BY <1>10, <2>2, PostToWriteInv DEF PublishPosts
<1>11. CASE Stop
  BY <1>11, <1>A DEF Stop
<1>12. ASSUME NEW w \in DOMAIN workerQ, WorkerExecutes(w) PROVE WriteInv'
  <2>1. workerQ[w] \in Seq([s : Sessions, r : Requests]) /\ workerQ[w] # <<>>
    BY <1>12 DEF TypeOK, WorkerExecutes
  <2>2. Head(workerQ[w]) \in [s : Sessions, r : Requests]
    BY <2>1, HeadTailProperties, Zenon
  <2>3. Head(workerQ[w]).r \in Packages /\ {Head(workerQ[w]).s} \in SUBSET Sessions
    BY <2>2, Types
  <2> QED
    BY <1>12, <2>3, PostToWriteInv DEF WorkerExecutes, ReplyMessage
<1>13. ASSUME NEW s \in Sessions, Accept(s) PROVE WriteInv'
  <2>1. \A r \in Sessions : conn'[r] = conn[r] \/ (conn[r] # "lost" /\ conn'[r] # "lost")
    BY <1>13 DEF Accept, TypeOK
  <2>2. FailedIsLost'
    <3>1. \A r \in Sessions : conn[r] = "lost" => conn'[r] = "lost"
      BY <2>1
    <3>2. \A i \in 1..Len(ioQ) : ioQ[i].s \in Sessions
      BY <1>0, Types
    <3> QED
      BY <1>13, <3>1, <3>2 DEF Accept, WriteInv, FailedIsLost
  <2>3. \A r \in Sessions : WriteOk(r)'
    BY <1>13, <2>1, WriteOkKept DEF Accept, WriteInv, QueuedFor
  <2> QED
    BY <2>2, <2>3 DEF WriteInv
<1>14. ASSUME NEW s \in Sessions, NEW in, NEW ok, ReadDone(s, in, ok) \in Handlers,
              ioQ' = Append(ioQ, ReadDone(s, in, ok)),
              UNCHANGED <<conn, writing, writeDeque_>>
       PROVE  WriteInv'
  <2> DEFINE e == ReadDone(s, in, ok)
  <2>1. e \in Handlers /\ e.h = "doRead" /\ ioQ' = Append(ioQ, e)
    BY <1>14 DEF ReadDone
  <2> HIDE DEF e
  <2>2. \A r \in Sessions : QueuedFor(r, "doWrite")' = QueuedFor(r, "doWrite")
    BY <2>1, QueuedAppend
  <2>3. FailedIsLost'
    BY <1>0, <1>14, <2>1, AppendElements DEF WriteInv, FailedIsLost
  <2>4. \A r \in Sessions : WriteOk(r)'
    BY <1>14, <2>2, WriteOkKept DEF WriteInv
  <2> QED
    BY <2>3, <2>4 DEF WriteInv
<1>15. ASSUME NEW s \in Sessions, ReadCompletes(s) PROVE WriteInv'
  <2>1. PICK len \in 1..Len(inbox[s]) :
            ioQ' = Append(ioQ, ReadDone(s, SubSeq(inbox[s], 1, len), TRUE))
    BY <1>15 DEF ReadCompletes
  <2>2. SubSeq(inbox[s], 1, len) \in Seq(Requests)
    <3>1. inbox[s] \in Seq(Requests)
      BY DEF TypeOK
    <3> QED
      BY <3>1
  <2>3. ReadDone(s, SubSeq(inbox[s], 1, len), TRUE) \in Handlers
    BY <2>2, Types, Zenon
  <2> QED
    BY <1>14, <1>15, <2>1, <2>3 DEF ReadCompletes
<1>16. ASSUME NEW s \in Sessions, ReadFails(s) PROVE WriteInv'
  <2>1. <<>> \in Seq(Requests)
    OBVIOUS
  <2>2. ReadDone(s, <<>>, FALSE) \in Handlers
    BY <2>1, Types, Zenon
  <2> QED
    BY <1>14, <1>16, <2>2 DEF ReadFails
<1>17. ASSUME NEW s \in Sessions, WriteCompletes(s) PROVE WriteInv'
  <2>1. PICK ok \in BOOLEAN :
            (ok \/ conn[s] = "lost") /\ ioQ' = Append(ioQ, WriteDone(s, ok))
    BY <1>17 DEF WriteCompletes
  <2> DEFINE e == WriteDone(s, ok)
  <2>2. e \in Handlers /\ e.h = "doWrite" /\ e.s = s /\ e.ok = ok
    BY Types DEF WriteDone
  <2>3. ioQ' = Append(ioQ, e) /\ writing[s] /\ UNCHANGED <<conn, writeDeque_>>
    BY <1>17, <2>1 DEF WriteCompletes
  <2> HIDE DEF e
  <2>4. FailedIsLost'
    BY <1>0, <2>1, <2>2, <2>3, AppendElements DEF WriteInv, FailedIsLost
  <2>5. ASSUME NEW r \in Sessions, r # s PROVE WriteOk(r)'
    <3>1. writing'[r] = writing[r]
      BY <1>17, <2>5 DEF WriteCompletes, TypeOK
    <3>2. QueuedFor(r, "doWrite")' = QueuedFor(r, "doWrite")
      BY <2>2, <2>3, <2>5, QueuedAppend
    <3> QED
      BY <2>3, <3>1, <3>2, WriteOkKept DEF WriteInv
  <2>6. WriteOk(s)'
    <3>1. ~writing'[s]
      BY <1>17 DEF WriteCompletes, TypeOK
    <3>2. QueuedFor(s, "doWrite")' = Append(QueuedFor(s, "doWrite"), e)
      BY <2>2, <2>3, QueuedAppend
    <3>3. QueuedFor(s, "doWrite") \in Seq(Handlers)
      BY <1>0, OfType DEF QueuedFor
    <3>4. /\ Len(QueuedFor(s, "doWrite")') = Len(QueuedFor(s, "doWrite")) + 1
          /\ Len(QueuedFor(s, "doWrite")) \in Nat
      BY <2>2, <3>2, <3>3, AppendProperties, LenProperties
    <3>5. Outstanding(s)' = Outstanding(s)
      BY <2>3, <3>1, <3>4 DEF Outstanding
    <3> QED
      BY <2>3, <3>5 DEF WriteInv, WriteOk
  <2> QED
    BY <2>4, <2>5, <2>6 DEF WriteInv
<1>18. ASSUME NEW s \in Sessions, ConnectionLost(s) PROVE WriteInv'
  <2>1. \A r \in Sessions : conn'[r] = conn[r] \/ (conn[r] # "lost" /\ conn'[r] = "lost")
    BY <1>18 DEF ConnectionLost, TypeOK
  <2>2. FailedIsLost'
    <3>1. \A r \in Sessions : conn[r] = "lost" => conn'[r] = "lost"
      BY <2>1
    <3>2. \A i \in 1..Len(ioQ) : ioQ[i].s \in Sessions
      BY <1>0, Types
    <3> QED
      BY <1>18, <3>1, <3>2 DEF ConnectionLost, WriteInv, FailedIsLost
  <2>3. \A r \in Sessions : WriteOk(r)'
    BY <1>18, <2>1, WriteOkKept DEF ConnectionLost, WriteInv, QueuedFor
  <2> QED
    BY <2>2, <2>3 DEF WriteInv
<1>19. ASSUME NEW s \in Sessions, NEW k \in Kinds, ClientSends(s, k) PROVE WriteInv'
  BY <1>19, <1>A DEF ClientSends
<1> QED
  BY <1>1, <1>2, <1>3, <1>4, <1>5, <1>6, <1>7, <1>8, <1>9, <1>10, <1>11, <1>12, <1>13,
     <1>15, <1>16, <1>17, <1>18, <1>19 DEF Next, IoStep, PoolStep, AsioStep

-----------------------------------------------------------------------------
(***************************************************************************)
(* NothingLost                                                             *)
(***************************************************************************)
Payload(q) == [i \in 1..Len(q) |-> q[i].p]

(* What is on its way to the deque of s. *)
Coming(s) == Payload(QueuedFor(s, "writeBuffer"))

LostNothing(s) == posted[s] = written[s] \o writeDeque_[s] \o Coming(s)

(* NothingLost, one session at a time. *)
LEMMA NothingLostForAll == NothingLost <=> \A s \in Sessions : LostNothing(s)
BY DEF NothingLost, LostNothing, Coming, Payload

(* What is on its way to a deque is packages. *)
LEMMA PayloadType ==
    ASSUME NEW q \in Seq(Handlers), NEW s
    PROVE  Payload(Of(q, s, "writeBuffer")) \in Seq(Packages)
<1> DEFINE x == Of(q, s, "writeBuffer")
<1>1. x \in Seq(Handlers) /\ \A k \in 1..Len(x) : x[k].h = "writeBuffer"
  BY OfType
<1> HIDE DEF x
<1>2. \A k \in 1..Len(x) : x[k].p \in Packages
  BY <1>1, Types
<1>3. Len(x) \in Nat
  BY <1>1
<1> QED
  BY <1>2, <1>3 DEF Payload, x

(* The packages of two queues, one after the other. *)
LEMMA PayloadConcat ==
    ASSUME NEW q \in Seq(Handlers), NEW r \in Seq(Handlers)
    PROVE  Payload(q \o r) = Payload(q) \o Payload(r)
<1>1. /\ Len(q \o r) = Len(q) + Len(r) /\ Len(q) \in Nat /\ Len(r) \in Nat
      /\ \A i \in 1..(Len(q) + Len(r)) :
            (q \o r)[i] = IF i <= Len(q) THEN q[i] ELSE r[i - Len(q)]
  OBVIOUS
<1>2. Len(Payload(q)) = Len(q) /\ Len(Payload(r)) = Len(r)
  BY <1>1 DEF Payload
<1>3. Payload(q) \o Payload(r) =
          [i \in 1..(Len(q) + Len(r)) |-> IF i <= Len(q) THEN q[i].p ELSE r[i - Len(q)].p]
  BY <1>1, <1>2 DEF Payload
<1>4. Payload(q \o r) = [i \in 1..(Len(q) + Len(r)) |-> (q \o r)[i].p]
  BY <1>1 DEF Payload
<1>5. \A i \in 1..(Len(q) + Len(r)) :
          (q \o r)[i].p = IF i <= Len(q) THEN q[i].p ELSE r[i - Len(q)].p
  BY <1>1
<1> QED
  BY <1>3, <1>4, <1>5, Zenon

(* The package of a single handler. *)
LEMMA PayloadOne == ASSUME NEW e PROVE Payload(<<e>>) = <<e.p>>
BY DEF Payload

(* A package moves from the last of three queues to the second. *)
LEMMA MoveToSecond ==
    ASSUME NEW a \in Seq(Packages), NEW b \in Seq(Packages), NEW c \in Seq(Packages),
           NEW x \in Packages
    PROVE  a \o b \o (<<x>> \o c) = a \o Append(b, x) \o c
OBVIOUS

(* Before the first connection nothing was posted. *)
LEMMA InitNothingLost == Init => \A s \in Sessions : LostNothing(s)
<1> SUFFICES ASSUME Init, NEW s \in Sessions PROVE LostNothing(s)
  OBVIOUS
<1>1. Of(<<>>, s, "writeBuffer") = <<>>
  <2>1. {i \in 1..Len(<<>>) : <<>>[i].h = "writeBuffer" /\ <<>>[i].s = s} = {}
    OBVIOUS
  <2> QED
    BY <2>1, PickNone DEF Of
<1>2. Payload(<<>>) = <<>>
  BY DEF Payload
<1>3. posted[s] = <<>> /\ written[s] = <<>> /\ writeDeque_[s] = <<>> /\ Coming(s) = <<>>
  BY <1>1, <1>2 DEF Init, Coming, QueuedFor
<1> QED
  BY <1>3 DEF LostNothing

(* A step that leaves the packages of a session alone. *)
LEMMA LostNothingKept ==
    ASSUME NEW s \in Sessions, LostNothing(s),
           posted'[s] = posted[s], written'[s] = written[s], writeDeque_'[s] = writeDeque_[s],
           QueuedFor(s, "writeBuffer")' = QueuedFor(s, "writeBuffer")
    PROVE  LostNothing(s)'
<1>1. Coming(s)' = Coming(s)
  BY DEF Coming, Payload
<1> QED
  BY <1>1, Zenon DEF LostNothing

(* postPackage(): what is posted is on its way. *)
LEMMA PostToNothingLost ==
    ASSUME TypeOK, \A s \in Sessions : LostNothing(s),
           NEW S \in SUBSET Sessions, NEW p \in Packages, PostTo(S, p),
           UNCHANGED <<written, writeDeque_>>
    PROVE  \A s \in Sessions : LostNothing(s)'
<1>1. PICK r : ioQ' = ioQ \o r /\ Posts(r, S, p)
  BY PostToProperties
<1>2. ioQ \in Seq(Handlers) /\ r \in Seq(Handlers)
  BY <1>1 DEF TypeOK, Posts
<1> SUFFICES ASSUME NEW s \in Sessions PROVE LostNothing(s)'
  OBVIOUS
<1> DEFINE q == QueuedFor(s, "writeBuffer")
<1>3. q \in Seq(Handlers) /\ Payload(q) \in Seq(Packages)
  BY <1>2, OfType, PayloadType DEF QueuedFor
<1>4. QueuedFor(s, "writeBuffer")' = q \o Of(r, s, "writeBuffer")
  <2>1. Of(ioQ \o r, s, "writeBuffer") = Of(ioQ, s, "writeBuffer") \o Of(r, s, "writeBuffer")
    BY <1>2, OfConcat
  <2> QED
    BY <1>1, <2>1 DEF QueuedFor
<1> HIDE DEF q
<1>5. CASE s \in S
  <2> DEFINE e == WriteBuffer(s, p)
  <2>1. e \in Handlers /\ e.p = p
    BY Types DEF WriteBuffer
  <2>2. Of(r, s, "writeBuffer") = <<e>>
    BY <1>1, <1>5 DEF Posts
  <2> HIDE DEF e
  <2>3. Payload(q \o <<e>>) = Payload(q) \o <<p>>
    <3>1. <<e>> \in Seq(Handlers)
      BY <2>1
    <3>2. Payload(q \o <<e>>) = Payload(q) \o Payload(<<e>>)
      BY <1>3, <3>1, PayloadConcat
    <3> QED
      BY <2>1, <3>2, PayloadOne
  <2>4. Coming(s)' = Append(Payload(q), p)
    <3>1. Coming(s)' = Payload(q \o <<e>>)
      BY <1>4, <2>2 DEF Coming, Payload
    <3>2. Payload(q) \o <<p>> = Append(Payload(q), p)
      BY <1>3
    <3> QED
      BY <2>3, <3>1, <3>2, Zenon
  <2>5. posted'[s] = Append(posted[s], p)
    BY <1>5, PostToProperties
  <2>6. posted[s] = (written[s] \o writeDeque_[s]) \o Payload(q)
    BY DEF LostNothing, Coming, q
  <2>7. written[s] \o writeDeque_[s] \in Seq(Packages)
    BY DEF TypeOK
  <2>8. Append((written[s] \o writeDeque_[s]) \o Payload(q), p)
        = (written[s] \o writeDeque_[s]) \o Append(Payload(q), p)
    <3> DEFINE wd == written[s] \o writeDeque_[s]
               pq == Payload(q)
    <3>1. wd \in Seq(Packages) /\ pq \in Seq(Packages)
      BY <1>3, <2>7
    <3> HIDE DEF wd, pq
    <3>2. Append(wd \o pq, p) = wd \o Append(pq, p)
      BY <3>1
    <3> QED
      BY <3>2 DEF wd, pq
  <2>9. written'[s] = written[s] /\ writeDeque_'[s] = writeDeque_[s]
    OBVIOUS
  <2> QED
    BY <2>4, <2>5, <2>6, <2>8, <2>9, Zenon DEF LostNothing
<1>6. CASE s \notin S
  <2>1. Of(r, s, "writeBuffer") = <<>>
    BY <1>1, <1>6 DEF Posts
  <2>2. QueuedFor(s, "writeBuffer")' = QueuedFor(s, "writeBuffer")
    BY <1>3, <1>4, <2>1 DEF q
  <2>3. posted'[s] = posted[s]
    BY <1>6, PostToProperties
  <2> QED
    BY <2>2, <2>3, LostNothingKept
<1> QED
  BY <1>5, <1>6

(* Every step keeps every package, in order. *)
LEMMA NextNothingLost ==
    ASSUME TypeOK, WriteInv, Started, \A s \in Sessions : LostNothing(s), [Next]_vars
    PROVE  \A s \in Sessions : LostNothing(s)'
<1> USE DEF vars, sessionVars, roomVars, taskVars, pubVars, histVars
<1>0. ioQ \in Seq(Handlers)
  BY DEF TypeOK
<1>A. ASSUME UNCHANGED <<ioQ, posted, written, writeDeque_>>
      PROVE  \A s \in Sessions : LostNothing(s)'
  BY <1>A, LostNothingKept DEF QueuedFor
<1>B. ASSUME ioQ # <<>>, Head(ioQ).h # "writeBuffer", ioQ' = Tail(ioQ),
             UNCHANGED <<posted, written, writeDeque_>>
      PROVE  \A s \in Sessions : LostNothing(s)'
  <2>1. \A s \in Sessions : QueuedFor(s, "writeBuffer")' = QueuedFor(s, "writeBuffer")
    BY <1>B, QueuedTail
  <2> QED
    BY <1>B, <2>1, LostNothingKept
<1>C. ASSUME NEW e \in Handlers, e.h # "writeBuffer", ioQ' = Append(ioQ, e),
             UNCHANGED <<posted, written, writeDeque_>>
      PROVE  \A s \in Sessions : LostNothing(s)'
  <2>1. \A s \in Sessions : QueuedFor(s, "writeBuffer")' = QueuedFor(s, "writeBuffer")
    BY <1>C, QueuedAppend
  <2> QED
    BY <1>C, <2>1, LostNothingKept
<1>1. CASE UNCHANGED vars
  BY <1>1, <1>A
<1>2. CASE RunDoRead
  BY <1>2, <1>B DEF RunDoRead, Runs
<1>3. CASE RunLeave
  BY <1>3, <1>B DEF RunLeave, Runs
<1>4. CASE RunLeaveTopics
  BY <1>4, <1>A DEF RunLeaveTopics
<1>5. CASE RunWriteBuffer
  <2>1. /\ ioQ # <<>> /\ ioQ' = Tail(ioQ) /\ Head(ioQ).h = "writeBuffer"
        /\ Head(ioQ) \in Handlers /\ Head(ioQ).s \in Sessions /\ Head(ioQ).p \in Packages
        /\ UNCHANGED <<posted, written>>
    BY <1>0, <1>5, TailElements, Types DEF RunWriteBuffer, Runs
  <2>2. ASSUME NEW r \in Sessions, r # Head(ioQ).s PROVE LostNothing(r)'
    <3>1. writeDeque_'[r] = writeDeque_[r]
      BY <1>5, <2>2 DEF RunWriteBuffer, TypeOK
    <3>2. QueuedFor(r, "writeBuffer")' = QueuedFor(r, "writeBuffer")
      BY <2>1, <2>2, QueuedTail
    <3> QED
      BY <2>1, <3>1, <3>2, LostNothingKept
  <2>3. ASSUME NEW s \in Sessions, s = Head(ioQ).s PROVE LostNothing(s)'
    <3>1. writeDeque_'[s] = Append(writeDeque_[s], Head(ioQ).p)
      BY <1>5, <2>3 DEF RunWriteBuffer, TypeOK, Enqueue
    <3>2. QueuedFor(s, "writeBuffer") = <<Head(ioQ)>> \o QueuedFor(s, "writeBuffer")'
      BY <2>1, <2>3, QueuedTail
    <3>3. QueuedFor(s, "writeBuffer")' \in Seq(Handlers) /\ Coming(s)' \in Seq(Packages)
      <4>1. Tail(ioQ) \in Seq(Handlers)
        BY <1>0, <2>1, TailElements
      <4>2. Of(Tail(ioQ), s, "writeBuffer") \in Seq(Handlers)
            /\ Payload(Of(Tail(ioQ), s, "writeBuffer")) \in Seq(Packages)
        BY <4>1, OfType, PayloadType
      <4> QED
        BY <2>1, <4>2 DEF Coming, QueuedFor, Payload
    <3>4. Coming(s) = <<Head(ioQ).p>> \o Coming(s)'
      <4> DEFINE q == QueuedFor(s, "writeBuffer")'
                 e == Head(ioQ)
      <4>1. q \in Seq(Handlers) /\ e \in Handlers
        BY <2>1, <3>3
      <4>2. QueuedFor(s, "writeBuffer") = <<e>> \o q
        BY <3>2
      <4> HIDE DEF q, e
      <4>3. <<e>> \in Seq(Handlers)
        BY <4>1
      <4>4. Payload(<<e>> \o q) = Payload(<<e>>) \o Payload(q)
        BY <4>1, <4>3, PayloadConcat
      <4>5. Coming(s)' = Payload(q)
        BY DEF Coming, Payload, q
      <4> QED
        BY <4>2, <4>4, <4>5, PayloadOne DEF Coming, e
    <3> DEFINE a == written[s]
               b == writeDeque_[s]
               c == Coming(s)'
               x == Head(ioQ).p
    <3>5. a \in Seq(Packages) /\ b \in Seq(Packages) /\ c \in Seq(Packages) /\ x \in Packages
      BY <2>1, <3>3 DEF TypeOK
    <3>6. posted[s] = a \o b \o (<<x>> \o c)
      BY <3>4 DEF LostNothing
    <3>7. posted'[s] = posted[s] /\ written'[s] = a /\ writeDeque_'[s] = Append(b, x)
      BY <2>1, <3>1
    <3> HIDE DEF a, b, c, x
    <3>8. a \o b \o (<<x>> \o c) = a \o Append(b, x) \o c
      BY <3>5, MoveToSecond, SMTT(60)
    <3>9. posted'[s] = written'[s] \o writeDeque_'[s] \o c
      BY <3>6, <3>7, <3>8, Zenon
    <3> QED
      BY <3>9 DEF LostNothing, c
  <2> QED
    BY <2>1, <2>2, <2>3
<1>6. CASE RunDoWrite
  <2>1. /\ ioQ # <<>> /\ ioQ' = Tail(ioQ) /\ Head(ioQ).h = "doWrite" /\ posted' = posted
    BY <1>6 DEF RunDoWrite, Runs
  <2>2. \A r \in Sessions : QueuedFor(r, "writeBuffer")' = QueuedFor(r, "writeBuffer")
    BY <2>1, QueuedTail
  <2>3. ASSUME NEW r \in Sessions, r # Head(ioQ).s PROVE LostNothing(r)'
    <3>1. writeDeque_'[r] = writeDeque_[r] /\ written'[r] = written[r]
      BY <1>6, <2>3 DEF RunDoWrite, TypeOK
    <3> QED
      BY <2>1, <2>2, <3>1, LostNothingKept
  <2>4. ASSUME NEW s \in Sessions, s = Head(ioQ).s PROVE LostNothing(s)'
    <3>1. /\ writeDeque_'[s] = Tail(writeDeque_[s])
          /\ written'[s] = Append(written[s], Head(writeDeque_[s]))
      BY <1>6, <2>4 DEF RunDoWrite, TypeOK
    <3>2. writeDeque_[s] # <<>>
      BY <2>1, <2>4, WriteHasPackage
    <3>3. Coming(s)' = Coming(s)
      BY <2>2 DEF Coming, Payload
    <3> DEFINE a == written[s]
               b == writeDeque_[s]
    <3>4. a \in Seq(Packages) /\ b \in Seq(Packages) /\ b # <<>>
      BY <3>2 DEF TypeOK
    <3>5. posted'[s] = (a \o b) \o Coming(s)'
      BY <2>1, <3>3 DEF LostNothing
    <3>6. writeDeque_'[s] = Tail(b) /\ written'[s] = Append(a, Head(b))
      BY <3>1
    <3> HIDE DEF a, b
    <3>7. a \o b = Append(a, Head(b)) \o Tail(b)
      BY <3>4
    <3>8. posted'[s] = (written'[s] \o writeDeque_'[s]) \o Coming(s)'
      BY <3>5, <3>6, <3>7, Zenon
    <3> QED
      BY <3>8 DEF LostNothing
  <2> QED
    BY <2>3, <2>4
<1>7. ASSUME NEW task \in pool, PoolExecutes(task) PROVE \A s \in Sessions : LostNothing(s)'
  <2>1. {task.s} \in SUBSET Sessions /\ task.r \in Packages
    BY Types DEF TypeOK
  <2>2. CASE task.r.k = "badsub"
    BY <1>7, <1>A, <2>2 DEF PoolExecutes
  <2>3. CASE task.r.k # "badsub"
    BY <1>7, <2>1, <2>3, PostToNothingLost DEF PoolExecutes, ReplyMessage
  <2> QED
    BY <2>2, <2>3
<1>8. ASSUME NEW task \in pool, NEW t \in Topics, Subscribe(task, t)
      PROVE  \A s \in Sessions : LostNothing(s)'
  BY <1>8, <1>A DEF Subscribe
<1>9. CASE PublishIds
  BY <1>9, <1>A DEF PublishIds
<1>10. CASE PublishPosts
  <2>1. published \in 1..MaxPublish
    BY <1>10, Bounds DEF PublishPosts, Started, TypeOK
  <2>2. Publication(published) \in Packages /\ pub.ids \cap sessionCache_ \in SUBSET Sessions
    BY <2>1, Types DEF TypeOK
  <2> QED
    BY <1>10, <2>2, PostToNothingLost DEF PublishPosts
<1>11. CASE Stop
  BY <1>11, <1>A DEF Stop
<1>12. ASSUME NEW w \in DOMAIN workerQ, WorkerExecutes(w)
       PROVE  \A s \in Sessions : LostNothing(s)'
  <2>1. workerQ[w] \in Seq([s : Sessions, r : Requests]) /\ workerQ[w] # <<>>
    BY <1>12 DEF TypeOK, WorkerExecutes
  <2>2. Head(workerQ[w]) \in [s : Sessions, r : Requests]
    BY <2>1, HeadTailProperties, Zenon
  <2>3. Head(workerQ[w]).r \in Packages /\ {Head(workerQ[w]).s} \in SUBSET Sessions
    BY <2>2, Types
  <2> QED
    BY <1>12, <2>3, PostToNothingLost DEF WorkerExecutes, ReplyMessage
<1>13. ASSUME NEW s \in Sessions, Accept(s) PROVE \A r \in Sessions : LostNothing(r)'
  BY <1>13, <1>A DEF Accept
<1>14. ASSUME NEW s \in Sessions, ReadCompletes(s) PROVE \A r \in Sessions : LostNothing(r)'
  <2>1. PICK len \in 1..Len(inbox[s]) :
            ioQ' = Append(ioQ, ReadDone(s, SubSeq(inbox[s], 1, len), TRUE))
    BY <1>14 DEF ReadCompletes
  <2>2. SubSeq(inbox[s], 1, len) \in Seq(Requests)
    <3>1. inbox[s] \in Seq(Requests)
      BY DEF TypeOK
    <3> QED
      BY <3>1
  <2> DEFINE e == ReadDone(s, SubSeq(inbox[s], 1, len), TRUE)
  <2>3. e \in Handlers
    BY <2>2, Types, Zenon
  <2>4. e.h = "doRead"
    BY DEF ReadDone
  <2> HIDE DEF e
  <2> QED
    BY <1>14, <1>C, <2>1, <2>3, <2>4 DEF ReadCompletes, e
<1>15. ASSUME NEW s \in Sessions, ReadFails(s) PROVE \A r \in Sessions : LostNothing(r)'
  <2>1. <<>> \in Seq(Requests)
    OBVIOUS
  <2> DEFINE e == ReadDone(s, <<>>, FALSE)
  <2>2. e \in Handlers
    BY <2>1, Types, Zenon
  <2>3. e.h = "doRead"
    BY DEF ReadDone
  <2> QED
    BY <1>15, <1>C, <2>2, <2>3 DEF ReadFails
<1>16. ASSUME NEW s \in Sessions, WriteCompletes(s) PROVE \A r \in Sessions : LostNothing(r)'
  <2>1. PICK ok \in BOOLEAN : ioQ' = Append(ioQ, WriteDone(s, ok))
    BY <1>16 DEF WriteCompletes
  <2>2. WriteDone(s, ok) \in Handlers /\ WriteDone(s, ok).h = "doWrite"
    BY Types DEF WriteDone
  <2> QED
    BY <1>16, <1>C, <2>1, <2>2 DEF WriteCompletes
<1>17. ASSUME NEW s \in Sessions, ConnectionLost(s) PROVE \A r \in Sessions : LostNothing(r)'
  BY <1>17, <1>A DEF ConnectionLost
<1>18. ASSUME NEW s \in Sessions, NEW k \in Kinds, ClientSends(s, k)
       PROVE  \A r \in Sessions : LostNothing(r)'
  BY <1>18, <1>A DEF ClientSends
<1> QED
  BY <1>1, <1>2, <1>3, <1>4, <1>5, <1>6, <1>7, <1>8, <1>9, <1>10, <1>11, <1>12, <1>13,
     <1>14, <1>15, <1>16, <1>17, <1>18 DEF Next, IoStep, PoolStep, AsioStep

-----------------------------------------------------------------------------
(***************************************************************************)
(* SubscribedStays and PublishReaches                                      *)
(***************************************************************************)
(* Before the first connection nobody has subscribed. *)
LEMMA InitRoomInv == Init => RoomInv
<1> SUFFICES ASSUME Init PROVE RoomInv
  OBVIOUS
<1>1. RoomKnown /\ UnsubRevokes
  BY DEF Init, RoomKnown, UnsubRevokes, NoSession
<1>2. LoopDone /\ IdsHeld /\ SubscribedStays /\ PublishReaches
  BY DEF Init, LoopDone, IdsHeld, SubscribedStays, PublishReaches
<1> QED
  BY <1>1, <1>2 DEF RoomInv

(* The reads queued after the step were queued before. *)
ReadsKept ==
    \A i \in 1..Len(ioQ') : ioQ'[i].h = "doRead" => \E j \in 1..Len(ioQ) : ioQ'[i] = ioQ[j]

(* What was posted stays posted. *)
PostedKept == \A s \in Sessions : \A p : Contains(posted[s], p) => Contains(posted'[s], p)

(* Taking the handler at the head queues no read. *)
LEMMA ReadsKeptTail ==
    ASSUME TypeOK, ioQ # <<>>, ioQ' = Tail(ioQ)
    PROVE  ReadsKept
<1>1. ioQ \in Seq(Handlers)
  BY DEF TypeOK
<1> QED
  BY <1>1, TailElements DEF ReadsKept

(* postPackage() queues no read and loses nothing that was posted. *)
LEMMA PostToKeeps ==
    ASSUME TypeOK, NEW S \in SUBSET Sessions, NEW p \in Packages, PostTo(S, p)
    PROVE  /\ ReadsKept /\ PostedKept
           /\ \A s \in S : Contains(posted'[s], p)
<1>1. PICK r : ioQ' = ioQ \o r /\ Posts(r, S, p)
  BY PostToProperties
<1>2. ioQ \in Seq(Handlers)
  BY DEF TypeOK
<1>3. ReadsKept
  BY <1>1, <1>2, PostElements DEF ReadsKept
<1>4. ASSUME NEW s \in Sessions
      PROVE  /\ \A e : Contains(posted[s], e) => Contains(posted'[s], e)
             /\ s \in S => Contains(posted'[s], p)
  <2>1. posted[s] \in Seq(Packages)
    BY DEF TypeOK
  <2>2. posted'[s] = IF s \in S THEN Append(posted[s], p) ELSE posted[s]
    BY PostToProperties
  <2>3. /\ Len(Append(posted[s], p)) = Len(posted[s]) + 1 /\ Len(posted[s]) \in Nat
        /\ \A i \in 1..Len(posted[s]) : Append(posted[s], p)[i] = posted[s][i]
        /\ Append(posted[s], p)[Len(posted[s]) + 1] = p
    BY <2>1, AppendProperties, LenProperties
  <2>4. CASE s \in S
    <3>1. posted'[s] = Append(posted[s], p)
      BY <2>2, <2>4
    <3>2. \A i \in 1..Len(posted[s]) : i \in 1..Len(posted'[s]) /\ posted'[s][i] = posted[s][i]
      BY <2>3, <3>1
    <3>3. Len(posted[s]) + 1 \in 1..Len(posted'[s]) /\ posted'[s][Len(posted[s]) + 1] = p
      BY <2>3, <3>1
    <3> QED
      BY <3>2, <3>3 DEF Contains
  <2>5. CASE s \notin S
    BY <2>2, <2>5
  <2> QED
    BY <2>4, <2>5
<1> QED
  BY <1>3, <1>4 DEF PostedKept

(* A step that leaves rooms, topics and subscriptions alone. *)
LEMMA RoomInvKept ==
    ASSUME TypeOK, RoomInv, ReadsKept, PostedKept,
           UNCHANGED <<conn, inbox, sessionCache_, topics, leaving, pool, pub, published,
                       acked, revoked>>
    PROVE  RoomInv'
<1> USE DEF RoomInv
<1>1. RoomKnown'
  BY DEF RoomKnown, ReadsKept
<1>2. UnsubRevokes'
  BY DEF UnsubRevokes, ReadsKept
<1>3. LoopDone' /\ IdsHeld' /\ SubscribedStays'
  BY DEF LoopDone, IdsHeld, SubscribedStays
<1>4. PublishReaches'
  BY DEF PublishReaches, PostedKept, TypeOK
<1> QED
  BY <1>1, <1>2, <1>3, <1>4

(* Every step of the system keeps the subscriptions. *)
LEMMA NextRoomInv ==
    ASSUME TypeOK, Started, RoomInv, [Next]_vars
    PROVE  RoomInv'
<1> USE DEF vars, sessionVars, roomVars, taskVars, pubVars, histVars
<1>0. ioQ \in Seq(Handlers)
  BY DEF TypeOK
<1>A. ioQ' = ioQ => ReadsKept
  BY DEF ReadsKept
<1>B. posted' = posted => PostedKept
  BY DEF PostedKept
<1>C. ioQ # <<>> /\ ioQ' = Tail(ioQ) => ReadsKept
  BY ReadsKeptTail
<1>1. CASE UNCHANGED vars
  BY <1>1, <1>A, <1>B, RoomInvKept
<1>2. CASE RunDoRead
  <2> DEFINE e == Head(ioQ)
  <2>1. /\ ioQ # <<>> /\ ioQ' = Tail(ioQ) /\ e.h = "doRead" /\ HandleMessages(e.s, e.in)
        /\ UNCHANGED <<conn, inbox, posted, roomVars, pubVars, histVars>>
    BY <1>2 DEF RunDoRead, Runs
  <2>2. e \in Handlers /\ e = ioQ[1] /\ 1 \in 1..Len(ioQ)
    BY <1>0, <2>1, TailElements
  <2>3. e.s \in Sessions /\ e.in \in Seq(Requests)
    BY <2>1, <2>2, Types
  <2>4. /\ conn[e.s] # "none"
        /\ \A j \in 1..Len(e.in) : e.in[j].k = "unsub" => e.s \in revoked
    BY <2>1, <2>2 DEF RoomInv, RoomKnown, UnsubRevokes
  <2>5. ReadsKept /\ PostedKept
    BY <1>B, <1>C, <2>1
  <2>6. \A task \in pool' :
            \/ task \in pool
            \/ \E j \in 1..Len(e.in) : /\ task = PoolTask(e.s, e.in[j])
                                       /\ e.in[j].k \notin {"order", "unknown"}
    BY <2>1, <2>3, HandleMessagesPool
  <2>7. ASSUME NEW task \in pool', task \notin pool
        PROVE  /\ task.s = e.s /\ (task.r.k = "unsub" => e.s \in revoked)
               /\ task.todo = IF task.r.k \in {"sub", "unsub"} THEN Topics ELSE {}
    <3>1. PICK j \in 1..Len(e.in) : task = PoolTask(e.s, e.in[j])
      BY <2>6, <2>7
    <3>2. task.s = e.s /\ task.r = e.in[j]
      BY <3>1 DEF PoolTask
    <3>3. task.todo = IF e.in[j].k \in {"sub", "unsub"} THEN Topics ELSE {}
      BY <3>1 DEF PoolTask
    <3> QED
      BY <2>4, <3>2, <3>3
  <2> HIDE DEF e
  <2>8. RoomKnown'
    BY <2>1, <2>4, <2>5, <2>7 DEF RoomInv, RoomKnown, ReadsKept
  <2>9. UnsubRevokes'
    BY <2>1, <2>5, <2>7 DEF RoomInv, UnsubRevokes, ReadsKept
  <2>10. LoopDone'
    BY <2>1, <2>7 DEF RoomInv, LoopDone
  <2>11. IdsHeld' /\ SubscribedStays' /\ PublishReaches'
    BY <2>1 DEF RoomInv, IdsHeld, SubscribedStays, PublishReaches
  <2> QED
    BY <2>8, <2>9, <2>10, <2>11 DEF RoomInv
<1>3. CASE RunLeave
  <2>1. /\ ioQ # <<>> /\ ioQ' = Tail(ioQ)
        /\ sessionCache_' = sessionCache_ \ {Head(ioQ).s} /\ leaving' = Head(ioQ).s
        /\ UNCHANGED <<conn, inbox, posted, topics, taskVars, pubVars, histVars>>
    BY <1>3 DEF RunLeave, Runs
  <2>2. ReadsKept
    BY <1>C, <2>1
  <2>3. RoomKnown'
    BY <2>1, <2>2 DEF RoomInv, RoomKnown, ReadsKept
  <2>4. UnsubRevokes'
    BY <2>1, <2>2 DEF RoomInv, UnsubRevokes, ReadsKept
  <2>5. LoopDone' /\ IdsHeld' /\ SubscribedStays' /\ PublishReaches'
    BY <2>1 DEF RoomInv, LoopDone, IdsHeld, SubscribedStays, PublishReaches
  <2> QED
    BY <2>3, <2>4, <2>5 DEF RoomInv
<1>4. CASE RunLeaveTopics
  <2>1. /\ leaving' = NoSession /\ topics' = [t \in Topics |-> topics[t] \ {leaving}]
        /\ UNCHANGED <<conn, inbox, posted, sessionCache_, taskVars, pubVars, histVars, ioQ>>
    BY <1>4 DEF RunLeaveTopics
  <2>2. RoomKnown'
    BY <2>1, Types DEF RoomInv, RoomKnown, TypeOK
  <2>3. \A s \in sessionCache_, t \in Topics : s \in topics[t] => s \in topics'[t]
    BY <2>1 DEF RoomInv, RoomKnown
  <2>4. UnsubRevokes' /\ IdsHeld' /\ PublishReaches'
    BY <2>1 DEF RoomInv, UnsubRevokes, IdsHeld, PublishReaches
  <2>5. LoopDone' /\ SubscribedStays'
    BY <2>1, <2>3 DEF RoomInv, LoopDone, SubscribedStays
  <2> QED
    BY <2>2, <2>4, <2>5 DEF RoomInv
<1>5. CASE RunWriteBuffer
  BY <1>5, <1>B, <1>C, RoomInvKept DEF RunWriteBuffer, Runs
<1>6. CASE RunDoWrite
  BY <1>6, <1>B, <1>C, RoomInvKept DEF RunDoWrite, Runs
<1>7. ASSUME NEW task \in pool, PoolExecutes(task) PROVE RoomInv'
  <2>1. /\ task.todo = {} /\ pool' = pool \ {task}
        /\ IF task.r.k = "badsub" THEN UNCHANGED <<posted, ioQ>> ELSE ReplyMessage(task.s, task.r)
        /\ acked' = IF task.r.k = "sub" THEN acked \cup {task.s} ELSE acked
        /\ UNCHANGED <<conn, inbox, roomVars, pubVars, revoked>>
    BY <1>7 DEF PoolExecutes
  <2>2. task \in [s : Sessions, r : Requests, todo : SUBSET Topics]
    BY DEF TypeOK
  <2>3. {task.s} \in SUBSET Sessions /\ task.r \in Packages
    BY <2>2, Types
  <2>4. ReadsKept /\ PostedKept
    <3>1. CASE task.r.k = "badsub"
      BY <1>A, <1>B, <2>1, <3>1
    <3>2. CASE task.r.k # "badsub"
      BY <2>1, <2>3, <3>2, PostToKeeps DEF ReplyMessage
    <3> QED
      BY <3>1, <3>2
  <2>5. RoomKnown'
    BY <2>1, <2>4 DEF RoomInv, RoomKnown, ReadsKept
  <2>6. UnsubRevokes'
    BY <2>1, <2>4 DEF RoomInv, UnsubRevokes, ReadsKept
  <2>7. LoopDone' /\ IdsHeld'
    BY <2>1 DEF RoomInv, LoopDone, IdsHeld
  <2>8. SubscribedStays'
    BY <2>1 DEF RoomInv, LoopDone, SubscribedStays
  <2>9. PublishReaches'
    BY <2>1, <2>4 DEF RoomInv, PublishReaches, PostedKept, TypeOK
  <2> QED
    BY <2>5, <2>6, <2>7, <2>8, <2>9 DEF RoomInv
<1>8. ASSUME NEW task \in pool, NEW t \in Topics, Subscribe(task, t) PROVE RoomInv'
  <2>1. /\ t \in task.todo /\ topics' = ChangeTopic(task.r.k, task.s, t)
        /\ pool' = (pool \ {task}) \cup {[task EXCEPT !.todo = @ \ {t}]}
        /\ UNCHANGED <<conn, inbox, posted, sessionCache_, leaving, pubVars, histVars, ioQ>>
    BY <1>8 DEF Subscribe
  <2>2. task \in [s : Sessions, r : Requests, todo : SUBSET Topics]
    BY DEF TypeOK
  <2> DEFINE next == [task EXCEPT !.todo = @ \ {t}]
  <2>3. next.s = task.s /\ next.r = task.r /\ next.todo = task.todo \ {t}
    BY <2>2
  <2>4. \A x \in pool' : x \in pool \/ x = next
    BY <2>1
  <2> HIDE DEF next
  <2>5. RoomKnown' /\ UnsubRevokes'
    BY <2>1, <2>3, <2>4 DEF RoomInv, RoomKnown, UnsubRevokes
  <2>6. /\ \A s \in Sessions, u \in Topics :
               s \in topics[u] /\ (s # task.s \/ task.r.k = "sub") => s \in topics'[u]
        /\ task.r.k = "sub" => task.s \in topics'[t]
    BY <2>1, <2>2 DEF ChangeTopic, TypeOK
  <2>7. task.r.k # "sub" => task.s \in revoked
    BY <2>1 DEF RoomInv, LoopDone, UnsubRevokes
  <2>8. LoopDone'
    <3>1. SUFFICES ASSUME NEW x \in pool'
                   PROVE  /\ x.todo # {} => x.r.k \in {"sub", "unsub"}
                          /\ x.r.k = "sub" /\ x.s \in sessionCache_ \ revoked
                                 => \A u \in Topics \ x.todo : x.s \in topics'[u]
      BY <2>1 DEF LoopDone
    <3>2. CASE x \in pool
      BY <2>1, <2>6, <2>7, <3>2 DEF RoomInv, LoopDone, TypeOK
    <3>3. CASE x = next
      BY <2>1, <2>2, <2>3, <2>6, <2>7, <3>3 DEF RoomInv, LoopDone, TypeOK
    <3> QED
      BY <2>4, <3>2, <3>3
  <2>9. SubscribedStays'
    BY <2>1, <2>6, <2>7 DEF RoomInv, SubscribedStays, TypeOK
  <2>10. IdsHeld' /\ PublishReaches'
    BY <2>1 DEF RoomInv, IdsHeld, PublishReaches
  <2> QED
    BY <2>5, <2>8, <2>9, <2>10 DEF RoomInv
<1>9. CASE PublishIds
  <2>1. /\ pub' = [at |-> "ids", ids |-> topics[Published], owed |-> acked \ revoked]
        /\ UNCHANGED <<sessionVars, roomVars, taskVars, histVars, ioQ>>
    BY <1>9 DEF PublishIds
  <2>2. RoomKnown' /\ UnsubRevokes' /\ LoopDone'
    BY <2>1 DEF RoomInv, RoomKnown, UnsubRevokes, LoopDone
  <2>3. IdsHeld' /\ SubscribedStays' /\ PublishReaches'
    BY <2>1, ServerAssumption DEF RoomInv, IdsHeld, SubscribedStays, PublishReaches
  <2> QED
    BY <2>2, <2>3 DEF RoomInv
<1>10. CASE PublishPosts
  <2>1. /\ pub.at = "ids" /\ pub' = [pub EXCEPT !.at = "done"]
        /\ PostTo(pub.ids \cap sessionCache_, Publication(published))
        /\ UNCHANGED <<conn, inbox, roomVars, taskVars, published, histVars>>
    BY <1>10 DEF PublishPosts
  <2>2. /\ pub.ids \cap sessionCache_ \in SUBSET Sessions
        /\ Publication(published) \in Packages
        /\ pub'.at = "done" /\ pub'.owed = pub.owed
    BY <2>1, Types, Bounds DEF Started, TypeOK
  <2>3. ReadsKept /\ \A s \in pub.ids \cap sessionCache_ :
                         Contains(posted'[s], Publication(published))
    BY <2>1, <2>2, PostToKeeps
  <2>4. RoomKnown' /\ UnsubRevokes'
    BY <2>1, <2>2, <2>3 DEF RoomInv, RoomKnown, UnsubRevokes, ReadsKept
  <2>5. LoopDone' /\ IdsHeld' /\ SubscribedStays'
    BY <2>1, <2>2 DEF RoomInv, LoopDone, IdsHeld, SubscribedStays
  <2>6. PublishReaches'
    BY <2>1, <2>2, <2>3 DEF RoomInv, IdsHeld, PublishReaches
  <2> QED
    BY <2>4, <2>5, <2>6 DEF RoomInv
<1>11. CASE Stop
  BY <1>11, <1>A, <1>B, RoomInvKept DEF Stop
<1>12. ASSUME NEW w \in DOMAIN workerQ, WorkerExecutes(w) PROVE RoomInv'
  <2>1. workerQ[w] \in Seq([s : Sessions, r : Requests]) /\ workerQ[w] # <<>>
    BY <1>12 DEF TypeOK, WorkerExecutes
  <2>2. Head(workerQ[w]) \in [s : Sessions, r : Requests]
    BY <2>1, HeadTailProperties, Zenon
  <2>3. Head(workerQ[w]).r \in Packages /\ {Head(workerQ[w]).s} \in SUBSET Sessions
    BY <2>2, Types
  <2>4. ReadsKept /\ PostedKept
    BY <1>12, <2>3, PostToKeeps DEF WorkerExecutes, ReplyMessage
  <2> QED
    BY <1>12, <2>4, RoomInvKept DEF WorkerExecutes
<1>13. ASSUME NEW s \in Sessions, Accept(s) PROVE RoomInv'
  <2>1. /\ leaving = NoSession /\ conn[s] = "none" /\ conn' = [conn EXCEPT ![s] = "open"]
        /\ sessionCache_' = sessionCache_ \cup {s}
        /\ UNCHANGED <<inbox, posted, topics, leaving, taskVars, pubVars, histVars, ioQ>>
    BY <1>13 DEF Accept, JoinRoom
  <2>2. \A r \in Sessions : conn[r] # "none" => conn'[r] # "none" /\ r # s
    BY <2>1 DEF TypeOK
  <2>3. conn'[s] # "none" /\ leaving # s
    BY <2>1, Types DEF TypeOK
  <2>4. \A i \in 1..Len(ioQ) : ioQ[i].s \in Sessions
    BY <1>0, Types
  <2>5. RoomKnown'
    BY <2>1, <2>2, <2>3, <2>4 DEF RoomInv, RoomKnown, TypeOK
  <2>6. UnsubRevokes' /\ LoopDone' /\ IdsHeld' /\ SubscribedStays' /\ PublishReaches'
    BY <2>1 DEF RoomInv, RoomKnown, UnsubRevokes, LoopDone, IdsHeld, SubscribedStays,
                PublishReaches
  <2> QED
    BY <2>5, <2>6 DEF RoomInv
<1>14. ASSUME NEW s \in Sessions, ReadCompletes(s) PROVE RoomInv'
  <2>1. PICK len \in 1..Len(inbox[s]) :
            /\ ioQ' = Append(ioQ, ReadDone(s, SubSeq(inbox[s], 1, len), TRUE))
            /\ inbox' = [inbox EXCEPT ![s] = SubSeq(@, len + 1, Len(@))]
    BY <1>14 DEF ReadCompletes
  <2>2. /\ conn[s] # "none"
        /\ UNCHANGED <<conn, posted, sessionCache_, topics, leaving, taskVars, pubVars, histVars>>
    BY <1>14 DEF ReadCompletes
  <2>3. inbox[s] \in Seq(Requests)
    BY DEF TypeOK
  <2> DEFINE in == SubSeq(inbox[s], 1, len)
             rest == SubSeq(inbox[s], len + 1, Len(inbox[s]))
  <2>4. /\ in \in Seq(Requests)
        /\ \A j \in 1..Len(in) : j \in 1..Len(inbox[s]) /\ in[j] = inbox[s][j]
        /\ \A j \in 1..Len(rest) : j + len \in 1..Len(inbox[s]) /\ rest[j] = inbox[s][j + len]
    BY <2>3, SMTT(60)
  <2>5. inbox'[s] = rest /\ \A r \in Sessions : r # s => inbox'[r] = inbox[r]
    BY <2>1 DEF TypeOK
  <2> DEFINE e == ReadDone(s, in, TRUE)
  <2>6. e \in Handlers
    BY <2>4, Types, Zenon
  <2>7. e.h = "doRead" /\ e.s = s /\ e.in = in
    BY DEF ReadDone
  <2>A. ioQ' = Append(ioQ, e)
    BY <2>1
  <2> HIDE DEF e, in, rest
  <2>8. \A i \in 1..Len(ioQ') : (\E j \in 1..Len(ioQ) : ioQ'[i] = ioQ[j]) \/ ioQ'[i] = e
    BY <1>0, <2>A, <2>6, AppendElements
  <2>9. RoomKnown'
    BY <2>2, <2>7, <2>8 DEF RoomInv, RoomKnown
  <2>10. UnsubRevokes'
    <3>1. \A r \in Sessions : \A i \in 1..Len(inbox'[r]) :
              inbox'[r][i].k = "unsub" => r \in revoked
      <4>1. \A i \in 1..Len(rest) : rest[i].k = "unsub" => s \in revoked
        BY <2>4 DEF RoomInv, UnsubRevokes
      <4> QED
        BY <2>5, <4>1 DEF RoomInv, UnsubRevokes
    <3>2. \A j \in 1..Len(in) : in[j].k = "unsub" => s \in revoked
      BY <2>4 DEF RoomInv, UnsubRevokes
    <3> QED
      BY <2>2, <2>7, <2>8, <3>1, <3>2 DEF RoomInv, UnsubRevokes
  <2>11. LoopDone' /\ IdsHeld' /\ SubscribedStays' /\ PublishReaches'
    BY <2>2 DEF RoomInv, LoopDone, IdsHeld, SubscribedStays, PublishReaches
  <2> QED
    BY <2>9, <2>10, <2>11 DEF RoomInv
<1>15. ASSUME NEW s \in Sessions, ReadFails(s) PROVE RoomInv'
  <2> DEFINE e == ReadDone(s, <<>>, FALSE)
  <2>1. /\ ioQ' = Append(ioQ, e) /\ conn[s] # "none"
        /\ UNCHANGED <<conn, inbox, posted, sessionCache_, topics, leaving, taskVars, pubVars,
                       histVars>>
    BY <1>15 DEF ReadFails
  <2>2. <<>> \in Seq(Requests)
    OBVIOUS
  <2>3. e \in Handlers
    BY <2>2, Types, Zenon
  <2>4. e.h = "doRead" /\ e.s = s /\ Len(e.in) = 0
    BY DEF ReadDone
  <2>5. \A i \in 1..Len(ioQ') : (\E j \in 1..Len(ioQ) : ioQ'[i] = ioQ[j]) \/ ioQ'[i] = e
    BY <1>0, <2>1, <2>3, AppendElements
  <2> HIDE DEF e
  <2>6. RoomKnown'
    BY <2>1, <2>4, <2>5 DEF RoomInv, RoomKnown
  <2>7. UnsubRevokes'
    BY <2>1, <2>4, <2>5 DEF RoomInv, UnsubRevokes
  <2>8. LoopDone' /\ IdsHeld' /\ SubscribedStays' /\ PublishReaches'
    BY <2>1 DEF RoomInv, LoopDone, IdsHeld, SubscribedStays, PublishReaches
  <2> QED
    BY <2>6, <2>7, <2>8 DEF RoomInv
<1>16. ASSUME NEW s \in Sessions, WriteCompletes(s) PROVE RoomInv'
  <2>1. PICK ok \in BOOLEAN : ioQ' = Append(ioQ, WriteDone(s, ok))
    BY <1>16 DEF WriteCompletes
  <2>2. WriteDone(s, ok) \in Handlers /\ WriteDone(s, ok).h = "doWrite"
    BY Types DEF WriteDone
  <2>3. ReadsKept
    BY <1>0, <2>1, <2>2, AppendElements DEF ReadsKept
  <2> QED
    BY <1>16, <1>B, <2>3, RoomInvKept DEF WriteCompletes
<1>17. ASSUME NEW s \in Sessions, ConnectionLost(s) PROVE RoomInv'
  <2>1. /\ conn' = [conn EXCEPT ![s] = "lost"] /\ inbox' = [inbox EXCEPT ![s] = <<>>]
        /\ UNCHANGED <<posted, roomVars, taskVars, pubVars, acked, revoked, ioQ>>
    BY <1>17 DEF ConnectionLost
  <2>2. /\ \A r \in Sessions : conn[r] # "none" => conn'[r] # "none"
        /\ \A r \in Sessions : inbox'[r] = inbox[r] \/ inbox'[r] = <<>>
    BY <2>1 DEF TypeOK
  <2>3. \A i \in 1..Len(ioQ) : ioQ[i].s \in Sessions
    BY <1>0, Types
  <2>4. RoomKnown'
    BY <2>1, <2>2, <2>3 DEF RoomInv, RoomKnown, TypeOK
  <2>5. UnsubRevokes'
    BY <2>1, <2>2 DEF RoomInv, UnsubRevokes
  <2>6. LoopDone' /\ IdsHeld' /\ SubscribedStays' /\ PublishReaches'
    BY <2>1 DEF RoomInv, LoopDone, IdsHeld, SubscribedStays, PublishReaches
  <2> QED
    BY <2>4, <2>5, <2>6 DEF RoomInv
<1>18. ASSUME NEW s \in Sessions, NEW k \in Kinds, ClientSends(s, k) PROVE RoomInv'
  <2>1. /\ inbox' = [inbox EXCEPT ![s] = Append(@, Request(sent[s] + 1, k))]
        /\ revoked' = IF k = "unsub" THEN revoked \cup {s} ELSE revoked
        /\ UNCHANGED <<conn, posted, roomVars, taskVars, pubVars, acked, ioQ>>
    BY <1>18 DEF ClientSends
  <2>2. inbox[s] \in Seq(Requests)
    BY DEF TypeOK
  <2>3. \A i \in 1..Len(inbox'[s]) :
            \/ i \in 1..Len(inbox[s]) /\ inbox'[s][i] = inbox[s][i]
            \/ inbox'[s][i].k = k
    BY <2>1, <2>2, SMTT(60) DEF Request, TypeOK
  <2>4. \A r \in Sessions : r # s => inbox'[r] = inbox[r]
    BY <2>1 DEF TypeOK
  <2>5. RoomKnown'
    BY <2>1 DEF RoomInv, RoomKnown
  <2>6. UnsubRevokes'
    BY <2>1, <2>3, <2>4 DEF RoomInv, UnsubRevokes
  <2>7. LoopDone' /\ IdsHeld' /\ SubscribedStays' /\ PublishReaches'
    BY <2>1 DEF RoomInv, LoopDone, IdsHeld, SubscribedStays, PublishReaches
  <2> QED
    BY <2>5, <2>6, <2>7 DEF RoomInv
<1> QED
  BY <1>1, <1>2, <1>3, <1>4, <1>5, <1>6, <1>7, <1>8, <1>9, <1>10, <1>11, <1>12, <1>13,
     <1>14, <1>15, <1>16, <1>17, <1>18 DEF Next, IoStep, PoolStep, AsioStep

(* publishMessage() counts the message before it posts it. *)
LEMMA NextStarted ==
    ASSUME TypeOK, Started, [Next]_vars
    PROVE  Started'
<1> USE DEF vars, sessionVars, roomVars, taskVars, pubVars, histVars
<1>1. CASE PublishIds
  BY <1>1, Bounds DEF PublishIds, Started, TypeOK
<1>2. CASE PublishPosts
  BY <1>2 DEF PublishPosts, Started, TypeOK
<1>3. CASE UNCHANGED pubVars
  BY <1>3 DEF Started
<1> QED
  BY <1>1, <1>2, <1>3 DEF Next, IoStep, PoolStep, AsioStep, RunDoRead, RunLeave, RunLeaveTopics,
     RunWriteBuffer, RunDoWrite, PoolExecutes, Subscribe, Stop, WorkerExecutes, Accept,
     ReadCompletes, ReadFails, WriteCompletes, ConnectionLost, ClientSends

-----------------------------------------------------------------------------
(***************************************************************************)
(* AnswersInOrder                                                          *)
(***************************************************************************)

(* Before the first connection there is nothing to order. *)
LEMMA InitOrderInv == Init => OrderInv
<1> SUFFICES ASSUME Init PROVE OrderInv
  OBVIOUS
<1>1. OneRead /\ InboxInOrder /\ ReadsInOrder /\ PoolOnce /\ PublishedOnce /\ AnswersInOrder
  BY DEF Init, OneRead, InboxInOrder, ReadsInOrder, PoolOnce, PublishedOnce, AnswersInOrder,
         Increasing
<1>2. WorkerInOrder
  BY DEF Init, WorkerInOrder, WorkerQueued, AnsweredFirst
<1>3. \A s \in Sessions, r \in Requests : ~Unread(s, r) /\ ~Handed(s, r)
  BY DEF Init, Unread, Handed
<1> QED
  BY <1>1, <1>2, <1>3 DEF OrderInv, ReadInOrder, SentBound, HandedFirst

(* The reads queued after the step were queued before, and none twice. *)
ReadsMoved ==
    \E d \in Nat : \A i \in 1..Len(ioQ') : ioQ'[i].h = "doRead" =>
        i + d \in 1..Len(ioQ) /\ ioQ'[i] = ioQ[i + d]

(* Nothing is handed on by the step. *)
HandedKept == \A s \in Sessions, r \in Requests : Handed(s, r)' => Handed(s, r)

(* The io thread takes a handler, or a handler that is no read is queued. *)
LEMMA ReadsMovedBy ==
    ASSUME TypeOK
    PROVE  /\ ioQ' = ioQ => ReadsMoved
           /\ ioQ # <<>> /\ ioQ' = Tail(ioQ) => ReadsMoved
           /\ \A e \in Handlers : e.h # "doRead" /\ ioQ' = Append(ioQ, e) => ReadsMoved
           /\ \A r, S, p : Posts(r, S, p) /\ ioQ' = ioQ \o r => ReadsMoved
<1>0. ioQ \in Seq(Handlers) /\ Len(ioQ) \in Nat
  BY LenProperties DEF TypeOK
<1>A. ASSUME \A i \in 1..Len(ioQ') : ioQ'[i].h = "doRead" =>
                 i \in 1..Len(ioQ) /\ ioQ'[i] = ioQ[i]
      PROVE  ReadsMoved
  <2>1. \A i \in 1..Len(ioQ') : ioQ'[i].h = "doRead" =>
            i + 0 \in 1..Len(ioQ) /\ ioQ'[i] = ioQ[i + 0]
    BY <1>A
  <2> QED
    BY <2>1 DEF ReadsMoved
<1>1. ioQ' = ioQ => ReadsMoved
  BY <1>A
<1>2. ASSUME ioQ # <<>>, ioQ' = Tail(ioQ) PROVE ReadsMoved
  <2>1. \A i \in 1..Len(ioQ') : i + 1 \in 1..Len(ioQ) /\ ioQ'[i] = ioQ[i + 1]
    BY <1>0, <1>2, TailElements
  <2> QED
    BY <2>1 DEF ReadsMoved
<1>3. ASSUME NEW e \in Handlers, e.h # "doRead", ioQ' = Append(ioQ, e) PROVE ReadsMoved
  BY <1>0, <1>3, <1>A, AppendElements
<1>4. ASSUME NEW r, NEW S, NEW p, Posts(r, S, p), ioQ' = ioQ \o r PROVE ReadsMoved
  BY <1>0, <1>4, <1>A, PostElements
<1> QED
  BY <1>1, <1>2, <1>3, <1>4

(* A step that reads nothing. *)
LEMMA ReadPartKept ==
    ASSUME TypeOK, OneRead, ReadInOrder, ReadsMoved, HandedKept,
           UNCHANGED <<reading, inbox, sent>>
    PROVE  OneRead' /\ ReadInOrder'
<1>1. PICK d \in Nat : \A i \in 1..Len(ioQ') : ioQ'[i].h = "doRead" =>
          i + d \in 1..Len(ioQ) /\ ioQ'[i] = ioQ[i + d]
  BY DEF ReadsMoved
<1>2. OneRead'
  <2>1. SUFFICES ASSUME NEW i \in 1..Len(ioQ'), ioQ'[i].h = "doRead"
                 PROVE  /\ ~reading'[ioQ'[i].s]
                        /\ \A j \in 1..Len(ioQ') :
                               ioQ'[j].h = "doRead" /\ ioQ'[j].s = ioQ'[i].s => i = j
    BY DEF OneRead
  <2>2. i + d \in 1..Len(ioQ) /\ ioQ'[i] = ioQ[i + d]
    BY <1>1, <2>1
  <2>3. ~reading'[ioQ'[i].s]
    BY <2>1, <2>2 DEF OneRead
  <2>4. ASSUME NEW j \in 1..Len(ioQ'), ioQ'[j].h = "doRead", ioQ'[j].s = ioQ'[i].s
        PROVE  i = j
    <3>1. j + d \in 1..Len(ioQ) /\ ioQ'[j] = ioQ[j + d]
      BY <1>1, <2>4
    <3>2. i + d = j + d
      BY <2>1, <2>2, <2>4, <3>1 DEF OneRead
    <3> QED
      BY <3>2
  <2> QED
    BY <2>3, <2>4
<1>3. InboxInOrder'
  BY DEF ReadInOrder, InboxInOrder, Increasing
<1>4. ReadsInOrder'
  BY <1>1 DEF ReadInOrder, ReadsInOrder, Increasing
<1>5. ASSUME NEW s \in Sessions, NEW r \in Requests, Unread(s, r)' PROVE Unread(s, r)
  <2>1. CASE \E i \in 1..Len(inbox'[s]) : r = inbox'[s][i]
    BY <2>1 DEF Unread
  <2>2. ASSUME NEW i \in 1..Len(ioQ'), ioQ'[i].h = "doRead", ioQ'[i].s = s,
               NEW j \in 1..Len(ioQ'[i].in), r = ioQ'[i].in[j]
        PROVE  Unread(s, r)
    BY <1>1, <2>2 DEF Unread
  <2> QED
    BY <1>5, <2>1, <2>2 DEF Unread
<1>6. SentBound' /\ HandedFirst'
  BY <1>5 DEF ReadInOrder, SentBound, HandedFirst, HandedKept
<1> QED
  BY <1>2, <1>3, <1>4, <1>6 DEF ReadInOrder

(* A step that neither reads nor posts. *)
LEMMA OrderInvKept ==
    ASSUME TypeOK, OrderInv, ReadsMoved,
           UNCHANGED <<reading, inbox, sent, pool, workerQ, posted, pub, published>>
    PROVE  OrderInv'
<1>1. HandedKept
  BY DEF HandedKept, Handed
<1>2. OneRead' /\ ReadInOrder'
  BY <1>1, ReadPartKept DEF OrderInv
<1>3. PoolOnce' /\ WorkerInOrder'
  BY DEF OrderInv, PoolOnce, WorkerInOrder, WorkerQueued, AnsweredFirst
<1>4. PublishedOnce' /\ AnswersInOrder'
  BY DEF OrderInv, PublishedOnce, AnswersInOrder
<1> QED
  BY <1>2, <1>3, <1>4 DEF OrderInv

(* At most package p is posted, and to sessions of S. *)
PostsOnly(S, p) ==
    \A s \in Sessions :
        /\ Len(posted[s]) \in Nat
        /\ \A i \in 1..Len(posted'[s]) :
               \/ i \in 1..Len(posted[s]) /\ posted'[s][i] = posted[s][i]
               \/ s \in S /\ i = Len(posted[s]) + 1 /\ posted'[s][i] = p

(* Package p may follow what was posted to the sessions of S. *)
MayFollow(S, p) ==
    \A s \in S : \A i \in 1..Len(posted[s]) :
        /\ posted[s][i] # p
        /\ posted[s][i].k = "order" /\ p.k = "order" => posted[s][i].n < p.n

(* postPackage() posts its package and queues no read. *)
LEMMA PostToAdds ==
    ASSUME TypeOK, NEW S \in SUBSET Sessions, NEW p \in Packages, PostTo(S, p)
    PROVE  ReadsMoved /\ PostsOnly(S, p)
<1>1. ReadsMoved
  BY PostToProperties, ReadsMovedBy
<1>2. ASSUME NEW s \in Sessions
      PROVE  /\ Len(posted[s]) \in Nat
             /\ \A i \in 1..Len(posted'[s]) :
                    \/ i \in 1..Len(posted[s]) /\ posted'[s][i] = posted[s][i]
                    \/ s \in S /\ i = Len(posted[s]) + 1 /\ posted'[s][i] = p
  <2>1. posted[s] \in Seq(Packages)
    BY DEF TypeOK
  <2>2. posted'[s] = IF s \in S THEN Append(posted[s], p) ELSE posted[s]
    BY PostToProperties
  <2>3. CASE s \in S
    BY <2>1, <2>2, <2>3
  <2>4. CASE s \notin S
    BY <2>1, <2>2, <2>4
  <2> QED
    BY <2>3, <2>4
<1> QED
  BY <1>1, <1>2 DEF PostsOnly

(* No package is posted. *)
LEMMA PostsNothing ==
    ASSUME TypeOK, posted' = posted, NEW S, NEW p
    PROVE  PostsOnly(S, p)
<1>1. \A s \in Sessions : posted[s] \in Seq(Packages)
  BY DEF TypeOK
<1>2. \A s \in Sessions : Len(posted[s]) \in Nat
  BY <1>1
<1> QED
  BY <1>2 DEF PostsOnly

(* A package that may follow keeps the answers in order. *)
LEMMA PostKeepsAnswers ==
    ASSUME AnswersInOrder, NEW S, NEW p, PostsOnly(S, p), MayFollow(S, p)
    PROVE  AnswersInOrder'
<1>1. SUFFICES ASSUME NEW s \in Sessions, NEW i \in 1..Len(posted'[s]),
                      NEW j \in 1..Len(posted'[s]), i < j
               PROVE  /\ posted'[s][i] # posted'[s][j]
                      /\ posted'[s][i].k = "order" /\ posted'[s][j].k = "order"
                             => posted'[s][i].n < posted'[s][j].n
  BY DEF AnswersInOrder
<1>2. Len(posted[s]) \in Nat
  BY DEF PostsOnly
<1>3. i \in 1..Len(posted[s]) /\ posted'[s][i] = posted[s][i]
  BY <1>1, <1>2 DEF PostsOnly
<1>4. CASE j \in 1..Len(posted[s]) /\ posted'[s][j] = posted[s][j]
  BY <1>1, <1>3, <1>4 DEF AnswersInOrder
<1>5. CASE s \in S /\ posted'[s][j] = p
  BY <1>3, <1>5 DEF MayFollow
<1> QED
  BY <1>4, <1>5 DEF PostsOnly

(* What the workers hold. *)
LEMMA WorkerElements ==
    ASSUME TypeOK, NEW w \in 0..(Workers - 1)
    PROVE  /\ workerQ[w] \in Seq([s : Sessions, r : Requests]) /\ Len(workerQ[w]) \in Nat
           /\ \A i \in 1..Len(workerQ[w]) :
                  /\ workerQ[w][i].s \in Sessions /\ workerQ[w][i].r \in Requests
                  /\ workerQ[w][i].r.n \in Nat /\ workerQ[w][i].r \in Packages
                  /\ workerQ[w][i].r.k # "pub"
<1>1. workerQ[w] \in Seq([s : Sessions, r : Requests])
  BY DEF TypeOK
<1>2. ASSUME NEW i \in 1..Len(workerQ[w])
      PROVE  workerQ[w][i].s \in Sessions /\ workerQ[w][i].r \in Requests
  <2>1. workerQ[w][i] \in [s : Sessions, r : Requests]
    BY <1>1, ElementOfSeq, Zenon
  <2> QED
    BY <2>1
<1>3. Len(workerQ[w]) \in Nat
  BY <1>1
<1> QED
  BY <1>1, <1>2, <1>3, Types, Bounds

(* A thread of the pool answers a request. *)
LEMMA PoolExecutesOrder ==
    ASSUME TypeOK, OrderInv, NEW task \in pool, PoolExecutes(task)
    PROVE  OrderInv'
<1> USE DEF vars, sessionVars, roomVars, taskVars, pubVars, histVars
<1>1. task \in [s : Sessions, r : Requests, todo : SUBSET Topics]
  BY DEF TypeOK
<1>2. {task.s} \in SUBSET Sessions /\ task.r \in Packages /\ task.r.k # "pub" /\ task.s \in Sessions
  BY <1>1, Types
<1>3. ReadsMoved /\ PostsOnly({task.s}, task.r)
  <2>1. CASE task.r.k = "badsub"
    BY <2>1, ReadsMovedBy, PostsNothing DEF PoolExecutes
  <2>2. CASE task.r.k # "badsub"
    BY <1>2, <2>2, PostToAdds DEF PoolExecutes, ReplyMessage
  <2> QED
    BY <2>1, <2>2
<1>4. /\ pool' = pool \ {task}
      /\ UNCHANGED <<reading, inbox, sent, workerQ, pub, published>>
  BY DEF PoolExecutes
<1>5. HandedKept
  <2>1. SUFFICES ASSUME NEW s \in Sessions, NEW r \in Requests, Handed(s, r)'
                 PROVE  Handed(s, r)
    BY DEF HandedKept
  <2>2. CASE \E x \in pool' : x.s = s /\ x.r = r
    BY <1>4, <2>2 DEF Handed
  <2>3. ASSUME NEW i \in 1..Len(posted'[s]), posted'[s][i] = r PROVE Handed(s, r)
    BY <1>3, <2>3 DEF PostsOnly, Handed
  <2>4. CASE \E w \in 0..(Workers - 1) : \E i \in 1..Len(workerQ[w]) :
                 workerQ[w][i].s = s /\ workerQ[w][i].r = r
    BY <2>4 DEF Handed
  <2> QED
    BY <1>4, <2>1, <2>2, <2>3, <2>4 DEF Handed
<1>6. OneRead' /\ ReadInOrder'
  BY <1>3, <1>4, <1>5, ReadPartKept DEF OrderInv
<1>7. PoolOnce'
  <2>1. \A x, y \in pool' : x.s = y.s /\ x.r.n = y.r.n => x = y
    BY <1>4 DEF OrderInv, PoolOnce
  <2>2. ASSUME NEW x \in pool', NEW i \in 1..Len(posted'[x.s]) PROVE posted'[x.s][i] # x.r
    <3>1. x \in pool /\ x # task /\ x.s \in Sessions
      BY <1>4 DEF TypeOK
    <3>2. x.s = task.s => x.r # task.r
      BY <3>1 DEF OrderInv, PoolOnce
    <3> QED
      BY <1>3, <3>1, <3>2 DEF OrderInv, PoolOnce, PostsOnly
  <2> QED
    BY <1>4, <2>1, <2>2 DEF OrderInv, PoolOnce
<1>8. WorkerInOrder'
  <2>1. task.r.k # "order"
    BY DEF OrderInv, PoolOnce
  <2>2. \A s \in Sessions : \A j \in 1..Len(posted'[s]) : posted'[s][j].k = "order" =>
            j \in 1..Len(posted[s]) /\ posted'[s][j] = posted[s][j]
    BY <1>3, <2>1 DEF PostsOnly
  <2>3. WorkerQueued'
    BY <1>4 DEF OrderInv, WorkerInOrder, WorkerQueued
  <2>4. AnsweredFirst'
    <3>1. SUFFICES ASSUME NEW w \in 0..(Workers - 1), NEW i \in 1..Len(workerQ[w]),
                          NEW j \in 1..Len(posted'[workerQ[w][i].s]),
                          posted'[workerQ[w][i].s][j].k = "order"
                   PROVE  posted'[workerQ[w][i].s][j].n < workerQ[w][i].r.n
      BY <1>4 DEF AnsweredFirst
    <3>2. workerQ[w][i].s \in Sessions
      BY WorkerElements
    <3> QED
      BY <2>2, <3>1, <3>2 DEF OrderInv, WorkerInOrder, AnsweredFirst
  <2> QED
    BY <2>3, <2>4 DEF WorkerInOrder
<1>9. PublishedOnce'
  BY <1>2, <1>3, <1>4 DEF OrderInv, PublishedOnce, PostsOnly
<1>10. AnswersInOrder'
  <2>1. MayFollow({task.s}, task.r)
    BY DEF OrderInv, PoolOnce, MayFollow
  <2> QED
    BY <1>3, <2>1, PostKeepsAnswers DEF OrderInv
<1> QED
  BY <1>6, <1>7, <1>8, <1>9, <1>10 DEF OrderInv

(* A worker answers the next ordered request. *)
LEMMA WorkerExecutesOrder ==
    ASSUME TypeOK, OrderInv, NEW w \in DOMAIN workerQ, WorkerExecutes(w)
    PROVE  OrderInv'
<1> USE DEF vars, sessionVars, roomVars, taskVars, pubVars, histVars
<1> DEFINE x == workerQ[w][1]
<1>1. w \in 0..(Workers - 1) /\ workerQ[w] # <<>>
  BY DEF TypeOK, WorkerExecutes
<1>2. /\ workerQ[w] \in Seq([s : Sessions, r : Requests]) /\ Len(workerQ[w]) \in Nat
      /\ x.s \in Sessions /\ x.r \in Requests /\ x.r \in Packages /\ x.r.k # "pub"
      /\ 1 \in 1..Len(workerQ[w]) /\ Head(workerQ[w]) = x
  <2>1. workerQ[w] \in Seq([s : Sessions, r : Requests]) /\ Len(workerQ[w]) \in Nat
    BY <1>1, WorkerElements
  <2>2. 1 \in 1..Len(workerQ[w]) /\ Head(workerQ[w]) = x
    BY <1>1, <2>1
  <2> HIDE DEF x
  <2>3. x.s \in Sessions /\ x.r \in Requests /\ x.r \in Packages /\ x.r.k # "pub"
    BY <1>1, <2>2, WorkerElements DEF x
  <2> QED
    BY <2>1, <2>2, <2>3
<1>3. ReadsMoved /\ PostsOnly({x.s}, x.r)
  BY <1>2, PostToAdds DEF WorkerExecutes, ReplyMessage
<1>4. /\ workerQ' = [workerQ EXCEPT ![w] = Tail(@)]
      /\ UNCHANGED <<reading, inbox, sent, pool, pub, published>>
  BY DEF WorkerExecutes
<1>5. ASSUME NEW v \in 0..(Workers - 1), NEW i \in 1..Len(workerQ'[v])
      PROVE  \/ v # w /\ workerQ'[v] = workerQ[v]
             \/ /\ v = w /\ i \in Nat /\ i + 1 \in 1..Len(workerQ[v])
                /\ workerQ'[v][i] = workerQ[v][i + 1]
  <2>1. CASE v # w
    BY <1>4, <2>1 DEF TypeOK
  <2>2. CASE v = w
    <3>1. workerQ'[v] = Tail(workerQ[v])
      BY <1>4, <2>2 DEF TypeOK
    <3> QED
      BY <1>1, <1>2, <2>2, <3>1
  <2> QED
    BY <2>1, <2>2
<1> HIDE DEF x
<1>6. HandedKept
  <2>1. SUFFICES ASSUME NEW s \in Sessions, NEW r \in Requests, Handed(s, r)'
                 PROVE  Handed(s, r)
    BY DEF HandedKept
  <2>2. CASE \E y \in pool : y.s = s /\ y.r = r
    BY <2>2 DEF Handed
  <2>3. ASSUME NEW i \in 1..Len(posted'[s]), posted'[s][i] = r PROVE Handed(s, r)
    <3>1. CASE i \in 1..Len(posted[s]) /\ posted'[s][i] = posted[s][i]
      BY <2>3, <3>1 DEF Handed
    <3>2. CASE s = x.s /\ posted'[s][i] = x.r
      BY <1>1, <1>2, <2>3, <3>2 DEF Handed, x
    <3> QED
      BY <1>3, <3>1, <3>2 DEF PostsOnly
  <2>4. ASSUME NEW v \in 0..(Workers - 1), NEW i \in 1..Len(workerQ'[v]),
               workerQ'[v][i].s = s, workerQ'[v][i].r = r
        PROVE  Handed(s, r)
    BY <1>5, <2>4 DEF Handed
  <2> QED
    BY <1>4, <2>1, <2>2, <2>3, <2>4 DEF Handed
<1>7. OneRead' /\ ReadInOrder'
  BY <1>3, <1>4, <1>6, ReadPartKept DEF OrderInv
<1>8. x.r.k = "order" /\ w = x.s % Workers
  BY <1>1, <1>2 DEF OrderInv, WorkerInOrder, WorkerQueued, x
<1>9. PoolOnce'
  <2>1. ASSUME NEW y \in pool, NEW i \in 1..Len(posted'[y.s]) PROVE posted'[y.s][i] # y.r
    <3>1. y.r.k # "order" /\ y.s \in Sessions
      BY DEF OrderInv, PoolOnce, TypeOK
    <3> QED
      BY <1>3, <1>8, <3>1 DEF OrderInv, PoolOnce, PostsOnly
  <2> QED
    BY <1>4, <2>1 DEF OrderInv, PoolOnce
<1>10. WorkerQueued'
  <2>1. SUFFICES ASSUME NEW v \in 0..(Workers - 1), NEW i \in 1..Len(workerQ'[v])
                 PROVE  /\ v = workerQ'[v][i].s % Workers /\ workerQ'[v][i].r.k = "order"
                        /\ \A j \in 1..Len(workerQ'[v]) :
                               i < j /\ workerQ'[v][j].s = workerQ'[v][i].s
                                   => workerQ'[v][i].r.n < workerQ'[v][j].r.n
    BY DEF WorkerQueued
  <2>2. CASE v # w
    BY <1>5, <2>2 DEF OrderInv, WorkerInOrder, WorkerQueued
  <2>3. CASE v = w
    <3>1. \A j \in 1..Len(workerQ'[v]) :
              j \in Nat /\ j + 1 \in 1..Len(workerQ[v]) /\ workerQ'[v][j] = workerQ[v][j + 1]
      BY <1>5, <2>3
    <3>2. \A j \in 1..Len(workerQ'[v]) : i < j => i + 1 < j + 1
      BY <3>1
    <3>3. v = workerQ'[v][i].s % Workers /\ workerQ'[v][i].r.k = "order"
      BY <3>1 DEF OrderInv, WorkerInOrder, WorkerQueued
    <3>4. ASSUME NEW j \in 1..Len(workerQ'[v]), i < j, workerQ'[v][j].s = workerQ'[v][i].s
          PROVE  workerQ'[v][i].r.n < workerQ'[v][j].r.n
      <4>1. /\ i + 1 \in 1..Len(workerQ[v]) /\ j + 1 \in 1..Len(workerQ[v]) /\ i + 1 < j + 1
            /\ workerQ'[v][i] = workerQ[v][i + 1] /\ workerQ'[v][j] = workerQ[v][j + 1]
        BY <3>1, <3>2, <3>4
      <4> QED
        BY <3>4, <4>1 DEF OrderInv, WorkerInOrder, WorkerQueued
    <3> QED
      BY <3>3, <3>4
  <2> QED
    BY <2>2, <2>3
<1>11. AnsweredFirst'
  <2>1. SUFFICES ASSUME NEW v \in 0..(Workers - 1), NEW i \in 1..Len(workerQ'[v]),
                        NEW j \in 1..Len(posted'[workerQ'[v][i].s]),
                        posted'[workerQ'[v][i].s][j].k = "order"
                 PROVE  posted'[workerQ'[v][i].s][j].n < workerQ'[v][i].r.n
    BY DEF AnsweredFirst
  <2>2. PICK k \in 1..Len(workerQ[v]) :
            workerQ'[v][i] = workerQ[v][k] /\ (v = w => 1 < k)
    <3>1. CASE v # w
      BY <1>5, <3>1
    <3>2. CASE v = w
      <4>1. i \in Nat /\ i + 1 \in 1..Len(workerQ[v]) /\ workerQ'[v][i] = workerQ[v][i + 1]
        BY <1>5, <3>2
      <4>2. 1 < i + 1
        BY <4>1
      <4> QED
        BY <4>1, <4>2
    <3> QED
      BY <3>1, <3>2
  <2>3. workerQ[v][k].s \in Sessions
    BY <2>2, WorkerElements
  <2>4. CASE /\ j \in 1..Len(posted[workerQ[v][k].s])
             /\ posted'[workerQ[v][k].s][j] = posted[workerQ[v][k].s][j]
    BY <2>1, <2>2, <2>4 DEF OrderInv, WorkerInOrder, AnsweredFirst
  <2>5. CASE workerQ[v][k].s = x.s /\ posted'[workerQ[v][k].s][j] = x.r
    <3>1. v = w
      BY <1>8, <2>2, <2>5 DEF OrderInv, WorkerInOrder, WorkerQueued
    <3>2. x.r.n < workerQ[v][k].r.n
      BY <1>1, <1>2, <2>2, <2>5, <3>1 DEF OrderInv, WorkerInOrder, WorkerQueued, x
    <3> QED
      BY <2>2, <2>5, <3>2
  <2> QED
    BY <1>3, <2>1, <2>2, <2>3, <2>4, <2>5 DEF PostsOnly
<1>12. PublishedOnce'
  BY <1>2, <1>3, <1>4 DEF OrderInv, PublishedOnce, PostsOnly
<1>13. AnswersInOrder'
  <2>1. \A i \in 1..Len(posted[x.s]) : posted[x.s][i].k = "order" => posted[x.s][i].n < x.r.n
    BY <1>1, <1>2 DEF OrderInv, WorkerInOrder, AnsweredFirst, x
  <2>2. \A i \in 1..Len(posted[x.s]) : posted[x.s][i] # x.r
    <3>1. x.r.n \in Nat
      BY <1>2, Types
    <3>2. ~(x.r.n < x.r.n)
      BY <3>1
    <3> QED
      BY <1>8, <2>1, <3>2
  <2>3. MayFollow({x.s}, x.r)
    BY <2>1, <2>2 DEF MayFollow
  <2> QED
    BY <1>3, <2>3, PostKeepsAnswers DEF OrderInv
<1> QED
  BY <1>7, <1>9, <1>10, <1>11, <1>12, <1>13 DEF OrderInv, WorkerInOrder

(* publishMessage() posts a message that is newer than the others. *)
LEMMA PublishPostsOrder ==
    ASSUME TypeOK, Started, OrderInv, PublishPosts
    PROVE  OrderInv'
<1> USE DEF vars, sessionVars, roomVars, taskVars, pubVars, histVars
<1> DEFINE S == pub.ids \cap sessionCache_
           p == Publication(published)
<1>1. S \in SUBSET Sessions /\ p \in Packages
  BY Types, Bounds DEF PublishPosts, Started, TypeOK
<1>2. p.k = "pub" /\ p.n = published /\ published \in Nat
  BY Bounds DEF Publication, TypeOK
<1>3. ReadsMoved /\ PostsOnly(S, p)
  BY <1>1, PostToAdds DEF PublishPosts
<1>4. /\ pub.at = "ids" /\ pub'.at = "done"
      /\ UNCHANGED <<reading, inbox, sent, pool, workerQ, published>>
  BY DEF PublishPosts, TypeOK
<1> HIDE DEF S, p
<1>5. HandedKept
  <2>1. SUFFICES ASSUME NEW s \in Sessions, NEW r \in Requests, Handed(s, r)'
                 PROVE  Handed(s, r)
    BY DEF HandedKept
  <2>2. r # p
    BY <1>2, Types
  <2>3. ASSUME NEW i \in 1..Len(posted'[s]), posted'[s][i] = r PROVE Handed(s, r)
    BY <1>3, <2>2, <2>3 DEF PostsOnly, Handed
  <2> QED
    BY <1>4, <2>1, <2>3 DEF Handed
<1>6. OneRead' /\ ReadInOrder'
  BY <1>3, <1>4, <1>5, ReadPartKept DEF OrderInv
<1>7. PoolOnce'
  <2>1. ASSUME NEW y \in pool, NEW i \in 1..Len(posted'[y.s]) PROVE posted'[y.s][i] # y.r
    <3>1. y.r.k # "pub" /\ y.s \in Sessions
      BY Types DEF TypeOK
    <3> QED
      BY <1>2, <1>3, <3>1 DEF OrderInv, PoolOnce, PostsOnly
  <2> QED
    BY <1>4, <2>1 DEF OrderInv, PoolOnce
<1>8. WorkerQueued'
  BY <1>4 DEF OrderInv, WorkerInOrder, WorkerQueued
<1>9. AnsweredFirst'
  <2>1. SUFFICES ASSUME NEW w \in 0..(Workers - 1), NEW i \in 1..Len(workerQ[w]),
                        NEW j \in 1..Len(posted'[workerQ[w][i].s]),
                        posted'[workerQ[w][i].s][j].k = "order"
                 PROVE  posted'[workerQ[w][i].s][j].n < workerQ[w][i].r.n
    BY <1>4 DEF AnsweredFirst
  <2>2. workerQ[w][i].s \in Sessions
    BY WorkerElements
  <2>3. /\ j \in 1..Len(posted[workerQ[w][i].s])
        /\ posted'[workerQ[w][i].s][j] = posted[workerQ[w][i].s][j]
    BY <1>2, <1>3, <2>1, <2>2 DEF PostsOnly
  <2> QED
    BY <2>1, <2>3 DEF OrderInv, WorkerInOrder, AnsweredFirst
<1>10. PublishedOnce'
  BY <1>2, <1>3, <1>4 DEF OrderInv, PublishedOnce, PostsOnly
<1>11. AnswersInOrder'
  <2>1. \A s \in Sessions : \A i \in 1..Len(posted[s]) : posted[s][i] # p
    BY <1>2, <1>4 DEF OrderInv, PublishedOnce
  <2>2. MayFollow(S, p)
    BY <1>1, <1>2, <2>1 DEF MayFollow
  <2> QED
    BY <1>3, <2>2, PostKeepsAnswers DEF OrderInv
<1> QED
  BY <1>6, <1>7, <1>8, <1>9, <1>10, <1>11 DEF OrderInv, WorkerInOrder

(* What session s has read is handed on. *)
LEMMA RunDoReadOrder ==
    ASSUME TypeOK, OrderInv, RunDoRead
    PROVE  OrderInv'
<1> USE DEF vars, sessionVars, roomVars, taskVars, pubVars, histVars
<1>0. ioQ \in Seq(Handlers)
  BY DEF TypeOK
<1>1. /\ ioQ # <<>> /\ ioQ' = Tail(ioQ) /\ Head(ioQ).h = "doRead"
      /\ HandleMessages(Head(ioQ).s, Head(ioQ).in)
      /\ reading' = [reading EXCEPT ![Head(ioQ).s] = TRUE]
      /\ UNCHANGED <<inbox, sent, posted, pub, published>>
  BY DEF RunDoRead, Runs
<1>2. Head(ioQ) \in Handlers /\ Head(ioQ) = ioQ[1] /\ 1 \in 1..Len(ioQ) /\ ioQ[1].h = "doRead"
  BY <1>0, <1>1, TailElements
<1>3. Head(ioQ).s \in Sessions /\ Head(ioQ).in \in Seq(Requests)
  BY <1>1, <1>2, Types
<1>4. PICK s \in Sessions, in \in Seq(Requests) : s = ioQ[1].s /\ in = ioQ[1].in
  BY <1>2, <1>3
<1>5. HandleMessages(s, in) /\ reading' = [reading EXCEPT ![s] = TRUE]
  BY <1>1, <1>2, <1>4
<1>6. Increasing(in)
  BY <1>2, <1>4 DEF OrderInv, ReadInOrder, ReadsInOrder
<1>7. \A i \in 1..Len(ioQ') : i \in Nat /\ i + 1 \in 1..Len(ioQ) /\ ioQ'[i] = ioQ[i + 1]
  BY <1>0, <1>1, TailElements
(* The read was the only one of its session. *)
<1>8. \A i \in 1..Len(ioQ') : ioQ'[i].h = "doRead" => ioQ'[i].s # s
  <2>1. SUFFICES ASSUME NEW i \in 1..Len(ioQ'), ioQ'[i].h = "doRead", ioQ'[i].s = s
                 PROVE  FALSE
    OBVIOUS
  <2>2. i \in Nat /\ i + 1 \in 1..Len(ioQ) /\ ioQ[i + 1].h = "doRead" /\ ioQ[i + 1].s = ioQ[1].s
    BY <1>4, <1>7, <2>1
  <2>3. 1 = i + 1
    BY <1>2, <2>2 DEF OrderInv, OneRead
  <2> QED
    BY <2>1, <2>2, <2>3
<1>9. OneRead'
  <2>1. SUFFICES ASSUME NEW i \in 1..Len(ioQ'), ioQ'[i].h = "doRead"
                 PROVE  /\ ~reading'[ioQ'[i].s]
                        /\ \A j \in 1..Len(ioQ') :
                               ioQ'[j].h = "doRead" /\ ioQ'[j].s = ioQ'[i].s => i = j
    BY DEF OneRead
  <2>2. i \in Nat /\ i + 1 \in 1..Len(ioQ) /\ ioQ'[i] = ioQ[i + 1]
    BY <1>7
  <2>3. ioQ[i + 1].s \in Sessions /\ ~reading[ioQ[i + 1].s] /\ ioQ[i + 1].s # s
    BY <1>0, <1>8, <2>1, <2>2, Types DEF OrderInv, OneRead
  <2>4. ~reading'[ioQ'[i].s]
    BY <1>5, <2>2, <2>3 DEF TypeOK
  <2>5. ASSUME NEW j \in 1..Len(ioQ'), ioQ'[j].h = "doRead", ioQ'[j].s = ioQ'[i].s
        PROVE  i = j
    <3>1. j \in Nat /\ j + 1 \in 1..Len(ioQ) /\ ioQ'[j] = ioQ[j + 1]
      BY <1>7
    <3>2. i + 1 = j + 1
      BY <2>1, <2>2, <2>5, <3>1 DEF OrderInv, OneRead
    <3> QED
      BY <2>2, <3>1, <3>2
  <2> QED
    BY <2>4, <2>5
<1>10. InboxInOrder'
  BY <1>1 DEF OrderInv, ReadInOrder, InboxInOrder, Increasing
<1>11. ReadsInOrder'
  BY <1>1, <1>7 DEF OrderInv, ReadInOrder, ReadsInOrder, Increasing
<1>12. ASSUME NEW c \in Sessions, NEW r \in Requests, Unread(c, r)'
       PROVE  /\ Unread(c, r)
              /\ c = s => \E i \in 1..Len(inbox[s]) : r = inbox[s][i]
  <2>1. CASE \E i \in 1..Len(inbox[c]) : r = inbox[c][i]
    BY <2>1 DEF Unread
  <2>2. ASSUME NEW i \in 1..Len(ioQ'), ioQ'[i].h = "doRead", ioQ'[i].s = c,
               NEW j \in 1..Len(ioQ'[i].in), r = ioQ'[i].in[j]
        PROVE  Unread(c, r) /\ c # s
    BY <1>7, <1>8, <2>2 DEF Unread
  <2> QED
    BY <1>1, <1>12, <2>1, <2>2 DEF Unread
<1>13. \A j \in 1..Len(in) : in[j] \in Requests /\ in[j].n \in Nat /\ Unread(s, in[j])
  BY <1>2, <1>4, Types, Bounds DEF Unread
<1>14. \A task \in pool' :
          \/ task \in pool
          \/ \E j \in 1..Len(in) : /\ task = PoolTask(s, in[j])
                                   /\ in[j].k \notin {"order", "unknown"}
  BY <1>5, HandleMessagesPool
<1>15. ASSUME NEW task \in pool', task \notin pool
       PROVE  /\ task.s = s /\ \E j \in 1..Len(in) : task.r = in[j] /\ in[j].k # "order"
              /\ task.todo = IF task.r.k \in {"sub", "unsub"} THEN Topics ELSE {}
              /\ task = PoolTask(s, task.r)
  <2>1. PICK j \in 1..Len(in) : task = PoolTask(s, in[j]) /\ in[j].k \notin {"order", "unknown"}
    BY <1>14, <1>15
  <2>2. task.s = s /\ task.r = in[j]
    BY <2>1 DEF PoolTask
  <2>3. task.todo = IF in[j].k \in {"sub", "unsub"} THEN Topics ELSE {}
    BY <2>1 DEF PoolTask
  <2> QED
    BY <2>1, <2>2, <2>3
<1>16. ASSUME NEW w \in 0..(Workers - 1)
       PROVE  /\ Len(workerQ[w]) \in Nat
              /\ \A i \in 1..Len(workerQ'[w]) :
                     \/ i \in 1..Len(workerQ[w]) /\ workerQ'[w][i] = workerQ[w][i]
                     \/ /\ i > Len(workerQ[w]) /\ workerQ'[w][i].s = s /\ w = s % Workers
                        /\ \E j \in 1..Len(in) : workerQ'[w][i].r = in[j] /\ in[j].k = "order"
              /\ \A i, j \in 1..Len(workerQ'[w]) :
                     Len(workerQ[w]) < i /\ i < j => workerQ'[w][i].r.n < workerQ'[w][j].r.n
  BY <1>5, <1>6, HandleMessagesOrder
<1>17. ASSUME NEW c \in Sessions, NEW r \in Requests, Handed(c, r)'
       PROVE  Handed(c, r) \/ (c = s /\ \E j \in 1..Len(in) : r = in[j])
  <2>1. ASSUME NEW task \in pool', task.s = c, task.r = r
        PROVE  Handed(c, r) \/ (c = s /\ \E j \in 1..Len(in) : r = in[j])
    BY <1>15, <2>1 DEF Handed
  <2>2. CASE \E i \in 1..Len(posted[c]) : posted[c][i] = r
    BY <2>2 DEF Handed
  <2>3. ASSUME NEW w \in 0..(Workers - 1), NEW i \in 1..Len(workerQ'[w]),
               workerQ'[w][i].s = c, workerQ'[w][i].r = r
        PROVE  Handed(c, r) \/ (c = s /\ \E j \in 1..Len(in) : r = in[j])
    BY <1>16, <2>3 DEF Handed
  <2> QED
    BY <1>1, <1>17, <2>1, <2>2, <2>3 DEF Handed
<1>18. SentBound'
  BY <1>1, <1>12, <1>13, <1>17 DEF OrderInv, ReadInOrder, SentBound
<1>19. HandedFirst'
  <2>1. SUFFICES ASSUME NEW c \in Sessions, NEW x \in Requests, NEW y \in Requests,
                        Handed(c, x)', Unread(c, y)'
                 PROVE  x.n < y.n
    BY DEF HandedFirst
  <2>2. CASE Handed(c, x)
    BY <1>12, <2>1, <2>2 DEF OrderInv, ReadInOrder, HandedFirst
  <2>3. CASE c = s /\ \E j \in 1..Len(in) : x = in[j]
    BY <1>2, <1>4, <1>12, <2>1, <2>3 DEF OrderInv, ReadInOrder, ReadsInOrder
  <2> QED
    BY <1>17, <2>1, <2>2, <2>3
(* What is read is newer than what was handed on. *)
<1>20. \A j \in 1..Len(in), r \in Requests : Handed(s, r) => r.n < in[j].n
  BY <1>13 DEF OrderInv, ReadInOrder, HandedFirst
<1>21. PoolOnce'
  <2>1. ASSUME NEW x \in pool', NEW y \in pool', x.s = y.s, x.r.n = y.r.n PROVE x = y
    <3>1. CASE x \in pool /\ y \in pool
      BY <2>1, <3>1 DEF OrderInv, PoolOnce
    <3>2. ASSUME NEW a \in pool, NEW b \in pool', b \notin pool, a.s = b.s, a.r.n = b.r.n
          PROVE  FALSE
      <4>1. PICK j \in 1..Len(in) : b.r = in[j]
        BY <1>15, <3>2
      <4>2. a.r \in Requests /\ Handed(s, a.r)
        BY <1>15, <3>2 DEF Handed, TypeOK
      <4>3. a.r.n < in[j].n /\ in[j].n \in Nat
        BY <1>13, <1>20, <4>2
      <4> QED
        BY <3>2, <4>1, <4>3
    <3>3. CASE x \notin pool /\ y \notin pool
      <4>1. PICK j \in 1..Len(in) : x.r = in[j]
        BY <1>15, <3>3
      <4>2. PICK k \in 1..Len(in) : y.r = in[k]
        BY <1>15, <3>3
      <4>3. in[j].n \in Nat /\ in[k].n \in Nat /\ in[j].n = in[k].n
        BY <1>13, <2>1, <4>1, <4>2
      <4>4. j = k
        BY <1>6, <4>3 DEF Increasing
      <4> QED
        BY <1>15, <3>3, <4>1, <4>2, <4>4
    <3> QED
      BY <2>1, <3>1, <3>2, <3>3
  <2>2. ASSUME NEW x \in pool'
        PROVE  x.r.k # "order" /\ \A i \in 1..Len(posted[x.s]) : posted[x.s][i] # x.r
    <3>1. CASE x \in pool
      BY <3>1 DEF OrderInv, PoolOnce
    <3>2. CASE x \notin pool
      <4>1. PICK j \in 1..Len(in) : x.r = in[j] /\ in[j].k # "order"
        BY <1>15, <3>2
      <4>2. x.s = s
        BY <1>15, <3>2
      <4>3. ASSUME NEW i \in 1..Len(posted[s]), posted[s][i] = in[j] PROVE FALSE
        <5>1. Handed(s, in[j]) /\ in[j] \in Requests /\ in[j].n \in Nat
          BY <1>13, <4>3 DEF Handed
        <5>2. in[j].n < in[j].n
          BY <1>20, <5>1
        <5> QED
          BY <5>1, <5>2
      <4> QED
        BY <4>1, <4>2, <4>3
    <3> QED
      BY <3>1, <3>2
  <2> QED
    BY <1>1, <2>1, <2>2 DEF PoolOnce
<1>22. WorkerQueued'
  <2>1. SUFFICES ASSUME NEW w \in 0..(Workers - 1), NEW i \in 1..Len(workerQ'[w])
                 PROVE  /\ w = workerQ'[w][i].s % Workers /\ workerQ'[w][i].r.k = "order"
                        /\ \A j \in 1..Len(workerQ'[w]) :
                               i < j /\ workerQ'[w][j].s = workerQ'[w][i].s
                                   => workerQ'[w][i].r.n < workerQ'[w][j].r.n
    BY DEF WorkerQueued
  <2>2. CASE i \in 1..Len(workerQ[w]) /\ workerQ'[w][i] = workerQ[w][i]
    <3>1. w = workerQ'[w][i].s % Workers /\ workerQ'[w][i].r.k = "order"
      BY <2>2 DEF OrderInv, WorkerInOrder, WorkerQueued
    <3>2. ASSUME NEW j \in 1..Len(workerQ'[w]), i < j, workerQ'[w][j].s = workerQ'[w][i].s
          PROVE  workerQ'[w][i].r.n < workerQ'[w][j].r.n
      <4>1. CASE j \in 1..Len(workerQ[w]) /\ workerQ'[w][j] = workerQ[w][j]
        BY <2>2, <3>2, <4>1 DEF OrderInv, WorkerInOrder, WorkerQueued
      <4>2. ASSUME NEW k \in 1..Len(in), workerQ'[w][j].s = s, workerQ'[w][j].r = in[k]
            PROVE  workerQ'[w][i].r.n < workerQ'[w][j].r.n
        <5>1. workerQ[w][i].r \in Requests
          BY <2>2, WorkerElements
        <5>2. Handed(s, workerQ[w][i].r)
          BY <2>2, <3>2, <4>2 DEF Handed
        <5> QED
          BY <1>20, <2>2, <4>2, <5>1, <5>2
      <4> QED
        BY <1>16, <4>1, <4>2
    <3> QED
      BY <3>1, <3>2
  <2>3. CASE ~(i \in 1..Len(workerQ[w]) /\ workerQ'[w][i] = workerQ[w][i])
    <3>1. /\ i > Len(workerQ[w]) /\ workerQ'[w][i].s = s /\ w = s % Workers
          /\ \E j \in 1..Len(in) : workerQ'[w][i].r = in[j] /\ in[j].k = "order"
      BY <1>16, <2>3
    <3>2. Len(workerQ[w]) < i
      BY <1>16, <3>1
    <3> QED
      BY <1>16, <3>1, <3>2
  <2> QED
    BY <2>2, <2>3
<1>23. AnsweredFirst'
  <2>1. SUFFICES ASSUME NEW w \in 0..(Workers - 1), NEW i \in 1..Len(workerQ'[w]),
                        NEW j \in 1..Len(posted[workerQ'[w][i].s]),
                        posted[workerQ'[w][i].s][j].k = "order"
                 PROVE  posted[workerQ'[w][i].s][j].n < workerQ'[w][i].r.n
    BY <1>1 DEF AnsweredFirst
  <2>2. CASE i \in 1..Len(workerQ[w]) /\ workerQ'[w][i] = workerQ[w][i]
    BY <2>1, <2>2 DEF OrderInv, WorkerInOrder, AnsweredFirst
  <2>3. ASSUME NEW k \in 1..Len(in), workerQ'[w][i].s = s, workerQ'[w][i].r = in[k]
        PROVE  posted[workerQ'[w][i].s][j].n < workerQ'[w][i].r.n
    <3>1. posted[s] \in Seq(Packages)
      BY DEF TypeOK
    <3>2. posted[s][j] \in Packages /\ posted[s][j].k = "order"
      BY <2>1, <2>3, <3>1
    <3>3. posted[s][j] \in Requests /\ Handed(s, posted[s][j])
      BY <2>1, <2>3, <3>2, Types DEF Handed
    <3> QED
      BY <1>20, <2>3, <3>3
  <2> QED
    BY <1>16, <2>2, <2>3
<1>24. PublishedOnce' /\ AnswersInOrder'
  BY <1>1 DEF OrderInv, PublishedOnce, AnswersInOrder
<1> QED
  BY <1>9, <1>10, <1>11, <1>18, <1>19, <1>21, <1>22, <1>23, <1>24
     DEF OrderInv, ReadInOrder, WorkerInOrder

(* A read takes messages from the network in their order. *)
LEMMA ReadCompletesOrder ==
    ASSUME TypeOK, OrderInv, NEW s \in Sessions, ReadCompletes(s)
    PROVE  OrderInv'
<1> USE DEF vars, sessionVars, roomVars, taskVars, pubVars, histVars
<1>0. ioQ \in Seq(Handlers) /\ Len(ioQ) \in Nat
  BY LenProperties DEF TypeOK
<1>1. PICK len \in 1..Len(inbox[s]) :
          /\ ioQ' = Append(ioQ, ReadDone(s, SubSeq(inbox[s], 1, len), TRUE))
          /\ inbox' = [inbox EXCEPT ![s] = SubSeq(@, len + 1, Len(@))]
  BY DEF ReadCompletes
<1>2. /\ reading[s] /\ reading' = [reading EXCEPT ![s] = FALSE]
      /\ UNCHANGED <<sent, pool, workerQ, posted, pub, published>>
  BY DEF ReadCompletes
<1>3. inbox[s] \in Seq(Requests) /\ len \in Nat
  BY DEF TypeOK
<1> DEFINE in == SubSeq(inbox[s], 1, len)
           rest == SubSeq(inbox[s], len + 1, Len(inbox[s]))
<1>4. /\ in \in Seq(Requests)
      /\ \A j \in 1..Len(in) : j \in Nat /\ j <= len /\ j \in 1..Len(inbox[s]) /\ in[j] = inbox[s][j]
      /\ \A j \in 1..Len(rest) : j \in Nat /\ len < j + len /\ j + len \in 1..Len(inbox[s])
                                 /\ rest[j] = inbox[s][j + len]
  BY <1>3
<1>5. inbox'[s] = rest /\ \A c \in Sessions : c # s => inbox'[c] = inbox[c]
  BY <1>1 DEF TypeOK
<1> DEFINE e == ReadDone(s, in, TRUE)
<1>6. e \in Handlers
  BY <1>4, Types, Zenon
<1>7. e.h = "doRead" /\ e.s = s /\ e.in = in
  BY DEF ReadDone
<1>A. ioQ' = Append(ioQ, e)
  BY <1>1
<1> HIDE DEF e, in, rest
<1>8. \A i \in 1..Len(ioQ') : \/ i \in 1..Len(ioQ) /\ ioQ'[i] = ioQ[i]
                              \/ i = Len(ioQ) + 1 /\ ioQ'[i] = e
  BY <1>0, <1>A, <1>6, AppendElements
(* The session had no read queued. *)
<1>9. \A i \in 1..Len(ioQ) : ioQ[i].h = "doRead" => ioQ[i].s # s /\ ioQ[i].s \in Sessions
  BY <1>0, <1>2, Types DEF OrderInv, OneRead
<1>10. OneRead'
  <2>1. SUFFICES ASSUME NEW i \in 1..Len(ioQ'), ioQ'[i].h = "doRead"
                 PROVE  /\ ~reading'[ioQ'[i].s]
                        /\ \A j \in 1..Len(ioQ') :
                               ioQ'[j].h = "doRead" /\ ioQ'[j].s = ioQ'[i].s => i = j
    BY DEF OneRead
  <2>2. ~reading'[s] /\ \A c \in Sessions : c # s => reading'[c] = reading[c]
    BY <1>2 DEF TypeOK
  <2>3. CASE i \in 1..Len(ioQ) /\ ioQ'[i] = ioQ[i]
    BY <1>7, <1>8, <1>9, <2>1, <2>2, <2>3 DEF OrderInv, OneRead
  <2>4. CASE i = Len(ioQ) + 1 /\ ioQ'[i] = e
    BY <1>7, <1>8, <1>9, <2>1, <2>2, <2>4
  <2> QED
    BY <1>8, <2>3, <2>4
<1>11. Increasing(in) /\ Increasing(rest)
  <2>1. Increasing(inbox[s])
    BY DEF OrderInv, ReadInOrder, InboxInOrder
  <2>2. Increasing(in)
    BY <1>4, <2>1 DEF Increasing
  <2>3. ASSUME NEW i \in 1..Len(rest), NEW j \in 1..Len(rest), i < j PROVE rest[i].n < rest[j].n
    <3>1. /\ i + len \in 1..Len(inbox[s]) /\ j + len \in 1..Len(inbox[s]) /\ i + len < j + len
          /\ rest[i] = inbox[s][i + len] /\ rest[j] = inbox[s][j + len]
      BY <1>3, <1>4, <2>3
    <3> QED
      BY <2>1, <3>1 DEF Increasing
  <2> QED
    BY <2>2, <2>3 DEF Increasing
<1>12. InboxInOrder'
  BY <1>5, <1>11 DEF OrderInv, ReadInOrder, InboxInOrder, Increasing
<1>13. ReadsInOrder'
  <2>1. SUFFICES ASSUME NEW i \in 1..Len(ioQ'), ioQ'[i].h = "doRead"
                 PROVE  /\ Increasing(ioQ'[i].in)
                        /\ \A j \in 1..Len(ioQ'[i].in), k \in 1..Len(inbox'[ioQ'[i].s]) :
                               ioQ'[i].in[j].n < inbox'[ioQ'[i].s][k].n
    BY DEF ReadsInOrder, Increasing
  <2>2. CASE i \in 1..Len(ioQ) /\ ioQ'[i] = ioQ[i]
    BY <1>5, <1>9, <2>1, <2>2 DEF OrderInv, ReadInOrder, ReadsInOrder
  <2>3. CASE ioQ'[i] = e
    <3>1. ASSUME NEW j \in 1..Len(in), NEW k \in 1..Len(rest) PROVE in[j].n < rest[k].n
      <4>1. j \in Nat /\ j <= len /\ j \in 1..Len(inbox[s]) /\ in[j] = inbox[s][j]
        BY <1>4
      <4>2. /\ k \in Nat /\ len < k + len /\ k + len \in 1..Len(inbox[s])
            /\ rest[k] = inbox[s][k + len]
        BY <1>4
      <4>3. j < k + len
        BY <1>3, <4>1, <4>2
      <4> QED
        BY <4>1, <4>2, <4>3 DEF OrderInv, ReadInOrder, InboxInOrder, Increasing
    <3> QED
      BY <1>5, <1>7, <1>11, <2>3, <3>1
  <2> QED
    BY <1>8, <2>2, <2>3
<1>14. ASSUME NEW c \in Sessions, NEW r \in Requests, Unread(c, r)' PROVE Unread(c, r)
  <2>1. ASSUME NEW i \in 1..Len(inbox'[c]), r = inbox'[c][i] PROVE Unread(c, r)
    <3>1. CASE c = s
      BY <1>4, <1>5, <2>1, <3>1 DEF Unread
    <3>2. CASE c # s
      BY <1>5, <2>1, <3>2 DEF Unread
    <3> QED
      BY <3>1, <3>2
  <2>2. ASSUME NEW i \in 1..Len(ioQ'), ioQ'[i].h = "doRead", ioQ'[i].s = c,
               NEW j \in 1..Len(ioQ'[i].in), r = ioQ'[i].in[j]
        PROVE  Unread(c, r)
    <3>1. CASE i \in 1..Len(ioQ) /\ ioQ'[i] = ioQ[i]
      BY <2>2, <3>1 DEF Unread
    <3>2. CASE ioQ'[i] = e
      BY <1>4, <1>7, <2>2, <3>2 DEF Unread
    <3> QED
      BY <1>8, <3>1, <3>2
  <2> QED
    BY <1>14, <2>1, <2>2 DEF Unread
<1>15. \A c \in Sessions, r \in Requests : Handed(c, r)' => Handed(c, r)
  BY <1>2 DEF Handed
<1>16. SentBound' /\ HandedFirst'
  BY <1>2, <1>14, <1>15 DEF OrderInv, ReadInOrder, SentBound, HandedFirst
<1>17. PoolOnce' /\ WorkerInOrder'
  <2>1. PoolOnce'
    BY <1>2 DEF OrderInv, PoolOnce
  <2>2. WorkerInOrder'
    BY <1>2 DEF OrderInv, WorkerInOrder, WorkerQueued, AnsweredFirst
  <2> QED
    BY <2>1, <2>2
<1>18. PublishedOnce' /\ AnswersInOrder'
  BY <1>2 DEF OrderInv, PublishedOnce, AnswersInOrder
<1> QED
  BY <1>10, <1>12, <1>13, <1>16, <1>17, <1>18 DEF OrderInv, ReadInOrder

(* A client numbers its next message. *)
LEMMA ClientSendsOrder ==
    ASSUME TypeOK, OrderInv, NEW s \in Sessions, NEW k \in Kinds, ClientSends(s, k)
    PROVE  OrderInv'
<1> USE DEF vars, sessionVars, roomVars, taskVars, pubVars, histVars
<1>0. ioQ \in Seq(Handlers)
  BY DEF TypeOK
<1>1. /\ sent[s] < MaxSends /\ sent' = [sent EXCEPT ![s] = @ + 1]
      /\ inbox' = [inbox EXCEPT ![s] = Append(@, Request(sent[s] + 1, k))]
      /\ UNCHANGED <<ioQ, reading, pool, workerQ, posted, pub, published>>
  BY DEF ClientSends
<1>2. PICK n \in Nat : n = sent[s]
  BY Bounds DEF TypeOK
<1>3. inbox[s] \in Seq(Requests) /\ Len(inbox[s]) \in Nat
  BY LenProperties DEF TypeOK
<1>4. /\ Len(inbox'[s]) = Len(inbox[s]) + 1
      /\ \A i \in 1..Len(inbox'[s]) :
             \/ i \in 1..Len(inbox[s]) /\ inbox'[s][i] = inbox[s][i]
             \/ i = Len(inbox[s]) + 1 /\ inbox'[s][i].n = n + 1
  BY <1>1, <1>2, <1>3, SMTT(60) DEF Request, TypeOK
<1>5. /\ \A c \in Sessions : c # s => inbox'[c] = inbox[c]
      /\ \A c \in Sessions : c # s => sent'[c] = sent[c]
      /\ sent'[s] = n + 1
  BY <1>1, <1>2 DEF TypeOK
<1>6. ASSUME NEW c \in Sessions, NEW r \in Requests, Unread(c, r)'
      PROVE  Unread(c, r) \/ (c = s /\ r.n = n + 1)
  <2>1. ASSUME NEW i \in 1..Len(inbox'[c]), r = inbox'[c][i]
        PROVE  Unread(c, r) \/ (c = s /\ r.n = n + 1)
    <3>1. CASE c = s
      BY <1>4, <2>1, <3>1 DEF Unread
    <3>2. CASE c # s
      BY <1>5, <2>1, <3>2 DEF Unread
    <3> QED
      BY <3>1, <3>2
  <2>2. CASE \E i \in 1..Len(ioQ) : /\ ioQ[i].h = "doRead" /\ ioQ[i].s = c
                                    /\ \E j \in 1..Len(ioQ[i].in) : r = ioQ[i].in[j]
    BY <2>2 DEF Unread
  <2> QED
    BY <1>1, <1>6, <2>1, <2>2 DEF Unread
<1>7. \A c \in Sessions, r \in Requests : Handed(c, r)' => Handed(c, r)
  BY <1>1 DEF Handed
<1>8. \A r \in Requests : (Unread(s, r) \/ Handed(s, r)) => r.n \in Nat /\ r.n < n + 1
  BY <1>2, Types, Bounds DEF OrderInv, ReadInOrder, SentBound
<1>9. \A c \in Sessions : sent[c] \in Nat /\ \A r \in Requests : r.n \in Nat
  BY Types, Bounds DEF TypeOK
<1>10. SentBound'
  <2>1. SUFFICES ASSUME NEW c \in Sessions, NEW r \in Requests, Unread(c, r)' \/ Handed(c, r)'
                 PROVE  r.n <= sent'[c]
    BY DEF SentBound
  <2>2. CASE c = s
    BY <1>5, <1>6, <1>7, <1>8, <1>9, <2>1, <2>2
  <2>3. CASE c # s
    BY <1>5, <1>6, <1>7, <2>1, <2>3 DEF OrderInv, ReadInOrder, SentBound
  <2> QED
    BY <2>2, <2>3
<1>11. HandedFirst'
  <2>1. SUFFICES ASSUME NEW c \in Sessions, NEW x \in Requests, NEW y \in Requests,
                        Handed(c, x)', Unread(c, y)'
                 PROVE  x.n < y.n
    BY DEF HandedFirst
  <2>2. CASE Unread(c, y)
    BY <1>7, <2>1, <2>2 DEF OrderInv, ReadInOrder, HandedFirst
  <2>3. CASE c = s /\ y.n = n + 1
    BY <1>7, <1>8, <2>1, <2>3
  <2> QED
    BY <1>6, <2>1, <2>2, <2>3
<1>12. InboxInOrder'
  <2>1. Increasing(inbox'[s])
    <3>1. SUFFICES ASSUME NEW i \in 1..Len(inbox'[s]), NEW j \in 1..Len(inbox'[s]), i < j
                   PROVE  inbox'[s][i].n < inbox'[s][j].n
      BY DEF Increasing
    <3>2. i \in 1..Len(inbox[s]) /\ inbox'[s][i] = inbox[s][i]
      BY <1>3, <1>4, <3>1
    <3>3. inbox[s][i] \in Requests /\ Unread(s, inbox[s][i])
      BY <1>3, <3>2 DEF Unread
    <3>4. CASE j \in 1..Len(inbox[s]) /\ inbox'[s][j] = inbox[s][j]
      BY <3>1, <3>2, <3>4 DEF OrderInv, ReadInOrder, InboxInOrder, Increasing
    <3>5. CASE inbox'[s][j].n = n + 1
      BY <1>8, <3>2, <3>3, <3>5
    <3> QED
      BY <1>4, <3>4, <3>5
  <2> QED
    BY <1>5, <2>1 DEF OrderInv, ReadInOrder, InboxInOrder, Increasing
<1>13. ReadsInOrder'
  <2>1. SUFFICES ASSUME NEW i \in 1..Len(ioQ), ioQ[i].h = "doRead"
                 PROVE  /\ Increasing(ioQ[i].in)
                        /\ \A j \in 1..Len(ioQ[i].in), l \in 1..Len(inbox'[ioQ[i].s]) :
                               ioQ[i].in[j].n < inbox'[ioQ[i].s][l].n
    BY <1>1 DEF ReadsInOrder, Increasing
  <2>2. ioQ[i].s \in Sessions /\ ioQ[i].in \in Seq(Requests)
    BY <1>0, <2>1, Types
  <2>3. CASE ioQ[i].s # s
    BY <1>5, <2>1, <2>2, <2>3 DEF OrderInv, ReadInOrder, ReadsInOrder
  <2>4. CASE ioQ[i].s = s
    <3>1. ASSUME NEW j \in 1..Len(ioQ[i].in) PROVE ioQ[i].in[j].n < n + 1
      <4>1. ioQ[i].in[j] \in Requests /\ Unread(s, ioQ[i].in[j])
        BY <2>1, <2>2, <2>4 DEF Unread
      <4> QED
        BY <1>8, <4>1
    <3> QED
      BY <1>4, <2>1, <2>4, <3>1 DEF OrderInv, ReadInOrder, ReadsInOrder
  <2> QED
    BY <2>3, <2>4
<1>14. OneRead' /\ PoolOnce' /\ PublishedOnce' /\ AnswersInOrder'
  BY <1>1 DEF OrderInv, OneRead, PoolOnce, PublishedOnce, AnswersInOrder
<1>15. WorkerInOrder'
  BY <1>1 DEF OrderInv, WorkerInOrder, WorkerQueued, AnsweredFirst
<1> QED
  BY <1>10, <1>11, <1>12, <1>13, <1>14, <1>15 DEF OrderInv, ReadInOrder

(* Every step keeps requests and answers in order. *)
LEMMA NextOrderInv ==
    ASSUME TypeOK, Started, RoomInv, OrderInv, [Next]_vars
    PROVE  OrderInv'
<1> USE DEF vars, sessionVars, roomVars, taskVars, pubVars, histVars
<1>0. ioQ \in Seq(Handlers) /\ Len(ioQ) \in Nat
  BY LenProperties DEF TypeOK
<1>1. CASE UNCHANGED vars
  BY <1>1, ReadsMovedBy, OrderInvKept
<1>2. CASE RunDoRead
  BY <1>2, RunDoReadOrder
<1>3. CASE RunLeave
  BY <1>3, ReadsMovedBy, OrderInvKept DEF RunLeave, Runs
<1>4. CASE RunLeaveTopics
  BY <1>4, ReadsMovedBy, OrderInvKept DEF RunLeaveTopics
<1>5. CASE RunWriteBuffer
  BY <1>5, ReadsMovedBy, OrderInvKept DEF RunWriteBuffer, Runs
<1>6. CASE RunDoWrite
  BY <1>6, ReadsMovedBy, OrderInvKept DEF RunDoWrite, Runs
<1>7. ASSUME NEW task \in pool, PoolExecutes(task) PROVE OrderInv'
  BY <1>7, PoolExecutesOrder
<1>8. ASSUME NEW task \in pool, NEW t \in Topics, Subscribe(task, t) PROVE OrderInv'
  <2>1. /\ pool' = (pool \ {task}) \cup {[task EXCEPT !.todo = @ \ {t}]}
        /\ UNCHANGED <<reading, inbox, sent, workerQ, posted, pub, published, ioQ>>
    BY <1>8 DEF Subscribe
  <2>2. task \in [s : Sessions, r : Requests, todo : SUBSET Topics]
    BY DEF TypeOK
  <2> DEFINE next == [task EXCEPT !.todo = @ \ {t}]
  <2>3. next.s = task.s /\ next.r = task.r
    BY <2>2
  <2>4. \A x \in pool' : (x \in pool /\ x # task) \/ x = next
    BY <2>1
  <2> HIDE DEF next
  <2>5. HandedKept
    BY <2>1, <2>3, <2>4 DEF HandedKept, Handed
  <2>6. OneRead' /\ ReadInOrder'
    BY <2>1, <2>5, ReadsMovedBy, ReadPartKept DEF OrderInv
  <2>7. PoolOnce'
    <3>1. \A x, y \in pool' : x.s = y.s /\ x.r.n = y.r.n => x = y
      BY <2>3, <2>4 DEF OrderInv, PoolOnce
    <3>2. \A x \in pool' :
              x.r.k # "order" /\ \A i \in 1..Len(posted[x.s]) : posted[x.s][i] # x.r
      BY <2>3, <2>4 DEF OrderInv, PoolOnce
    <3> QED
      BY <2>1, <3>1, <3>2 DEF PoolOnce
  <2>8. WorkerInOrder' /\ PublishedOnce' /\ AnswersInOrder'
    BY <2>1 DEF OrderInv, WorkerInOrder, WorkerQueued, AnsweredFirst, PublishedOnce,
                AnswersInOrder
  <2> QED
    BY <2>6, <2>7, <2>8 DEF OrderInv
<1>9. CASE PublishIds
  <2>1. /\ published' = published + 1 /\ pub'.at = "ids" /\ published \in Nat
        /\ UNCHANGED <<reading, inbox, sent, pool, workerQ, posted, ioQ>>
    BY <1>9, Bounds DEF PublishIds, TypeOK
  <2>2. HandedKept
    BY <2>1 DEF HandedKept, Handed
  <2>3. OneRead' /\ ReadInOrder'
    BY <2>1, <2>2, ReadsMovedBy, ReadPartKept DEF OrderInv
  <2>4. PublishedOnce'
    <3>1. \A s \in Sessions : posted[s] \in Seq(Packages)
      BY DEF TypeOK
    <3>2. \A s \in Sessions : \A i \in 1..Len(posted[s]) : posted[s][i].n \in Nat
      BY <3>1, Types
    <3> QED
      BY <2>1, <3>2 DEF OrderInv, PublishedOnce
  <2>5. PoolOnce' /\ WorkerInOrder' /\ AnswersInOrder'
    BY <2>1 DEF OrderInv, PoolOnce, WorkerInOrder, WorkerQueued, AnsweredFirst, AnswersInOrder
  <2> QED
    BY <2>3, <2>4, <2>5 DEF OrderInv
<1>10. CASE PublishPosts
  BY <1>10, PublishPostsOrder
<1>11. CASE Stop
  BY <1>11, ReadsMovedBy, OrderInvKept DEF Stop
<1>12. ASSUME NEW w \in DOMAIN workerQ, WorkerExecutes(w) PROVE OrderInv'
  BY <1>12, WorkerExecutesOrder
<1>13. ASSUME NEW s \in Sessions, Accept(s) PROVE OrderInv'
  <2>1. /\ conn[s] = "none" /\ reading' = [reading EXCEPT ![s] = TRUE]
        /\ UNCHANGED <<inbox, sent, pool, workerQ, posted, pub, published, ioQ>>
    BY <1>13 DEF Accept
  <2>2. \A i \in 1..Len(ioQ) : ioQ[i].h = "doRead" => ioQ[i].s # s /\ ioQ[i].s \in Sessions
    BY <1>0, <2>1, Types DEF RoomInv, RoomKnown
  <2>3. \A c \in Sessions : c # s => reading'[c] = reading[c]
    BY <2>1 DEF TypeOK
  <2>4. OneRead'
    BY <2>1, <2>2, <2>3 DEF OrderInv, OneRead
  <2>5. ReadInOrder'
    <3>1. InboxInOrder' /\ ReadsInOrder'
      BY <2>1 DEF OrderInv, ReadInOrder, InboxInOrder, ReadsInOrder, Increasing
    <3>2. SentBound' /\ HandedFirst'
      BY <2>1 DEF OrderInv, ReadInOrder, SentBound, HandedFirst, Unread, Handed
    <3> QED
      BY <3>1, <3>2 DEF ReadInOrder
  <2>6. PoolOnce' /\ WorkerInOrder' /\ PublishedOnce' /\ AnswersInOrder'
    BY <2>1 DEF OrderInv, PoolOnce, WorkerInOrder, WorkerQueued, AnsweredFirst, PublishedOnce,
                AnswersInOrder
  <2> QED
    BY <2>4, <2>5, <2>6 DEF OrderInv
<1>14. ASSUME NEW s \in Sessions, ReadCompletes(s) PROVE OrderInv'
  BY <1>14, ReadCompletesOrder
<1>15. ASSUME NEW s \in Sessions, ReadFails(s) PROVE OrderInv'
  <2> DEFINE e == ReadDone(s, <<>>, FALSE)
  <2>1. /\ ioQ' = Append(ioQ, e) /\ reading[s] /\ reading' = [reading EXCEPT ![s] = FALSE]
        /\ UNCHANGED <<inbox, sent, pool, workerQ, posted, pub, published>>
    BY <1>15 DEF ReadFails
  <2>2. <<>> \in Seq(Requests)
    OBVIOUS
  <2>3. e \in Handlers
    BY <2>2, Types, Zenon
  <2>4. e.h = "doRead" /\ e.s = s /\ e.in = <<>> /\ Len(e.in) = 0
    BY DEF ReadDone
  <2>5. \A i \in 1..Len(ioQ') : \/ i \in 1..Len(ioQ) /\ ioQ'[i] = ioQ[i]
                                \/ i = Len(ioQ) + 1 /\ ioQ'[i] = e
    BY <1>0, <2>1, <2>3, AppendElements
  <2> HIDE DEF e
  <2>6. \A i \in 1..Len(ioQ) : ioQ[i].h = "doRead" => ioQ[i].s # s /\ ioQ[i].s \in Sessions
    BY <1>0, <2>1, Types DEF OrderInv, OneRead
  <2>7. ~reading'[s] /\ \A c \in Sessions : c # s => reading'[c] = reading[c]
    BY <2>1 DEF TypeOK
  <2>8. OneRead'
    BY <2>4, <2>5, <2>6, <2>7 DEF OrderInv, OneRead
  <2>9. InboxInOrder' /\ ReadsInOrder'
    BY <2>1, <2>4, <2>5, SMTT(60) DEF OrderInv, ReadInOrder, InboxInOrder, ReadsInOrder, Increasing
  <2>10. \A c \in Sessions, r \in Requests :
             /\ Unread(c, r)' => Unread(c, r)
             /\ Handed(c, r)' => Handed(c, r)
    BY <2>1, <2>4, <2>5 DEF Unread, Handed
  <2>11. SentBound' /\ HandedFirst'
    BY <2>1, <2>10 DEF OrderInv, ReadInOrder, SentBound, HandedFirst
  <2>12. PoolOnce' /\ PublishedOnce' /\ AnswersInOrder'
    BY <2>1 DEF OrderInv, PoolOnce, PublishedOnce, AnswersInOrder
  <2>13. WorkerInOrder'
    BY <2>1 DEF OrderInv, WorkerInOrder, WorkerQueued, AnsweredFirst
  <2> QED
    BY <2>8, <2>9, <2>11, <2>12, <2>13 DEF OrderInv, ReadInOrder
<1>16. ASSUME NEW s \in Sessions, WriteCompletes(s) PROVE OrderInv'
  <2>1. PICK ok \in BOOLEAN : ioQ' = Append(ioQ, WriteDone(s, ok))
    BY <1>16 DEF WriteCompletes
  <2>2. WriteDone(s, ok) \in Handlers /\ WriteDone(s, ok).h = "doWrite"
    BY Types DEF WriteDone
  <2>3. ReadsMoved
    BY <2>1, <2>2, ReadsMovedBy
  <2> QED
    BY <1>16, <2>3, OrderInvKept DEF WriteCompletes
<1>17. ASSUME NEW s \in Sessions, ConnectionLost(s) PROVE OrderInv'
  <2>1. /\ inbox' = [inbox EXCEPT ![s] = <<>>]
        /\ UNCHANGED <<ioQ, reading, sent, pool, workerQ, posted, pub, published>>
    BY <1>17 DEF ConnectionLost
  <2>2. \A c \in Sessions : inbox'[c] = inbox[c] \/ Len(inbox'[c]) = 0
    BY <2>1 DEF TypeOK
  <2>3. \A i \in 1..Len(ioQ) : ioQ[i].s \in Sessions
    BY <1>0, Types
  <2>4. InboxInOrder'
    BY <2>2 DEF OrderInv, ReadInOrder, InboxInOrder, Increasing
  <2>5. ReadsInOrder'
    BY <2>1, <2>2, <2>3 DEF OrderInv, ReadInOrder, ReadsInOrder, Increasing
  <2>6. \A c \in Sessions, r \in Requests :
            /\ Unread(c, r)' => Unread(c, r)
            /\ Handed(c, r)' => Handed(c, r)
    BY <2>1, <2>2 DEF Unread, Handed
  <2>7. SentBound' /\ HandedFirst'
    BY <2>1, <2>6 DEF OrderInv, ReadInOrder, SentBound, HandedFirst
  <2>8. OneRead' /\ PoolOnce' /\ PublishedOnce' /\ AnswersInOrder'
    BY <2>1 DEF OrderInv, OneRead, PoolOnce, PublishedOnce, AnswersInOrder
  <2>9. WorkerInOrder'
    BY <2>1 DEF OrderInv, WorkerInOrder, WorkerQueued, AnsweredFirst
  <2> QED
    BY <2>4, <2>5, <2>7, <2>8, <2>9 DEF OrderInv, ReadInOrder
<1>18. ASSUME NEW s \in Sessions, NEW k \in Kinds, ClientSends(s, k) PROVE OrderInv'
  BY <1>18, ClientSendsOrder
<1> QED
  BY <1>1, <1>2, <1>3, <1>4, <1>5, <1>6, <1>7, <1>8, <1>9, <1>10, <1>11, <1>12, <1>13,
     <1>14, <1>15, <1>16, <1>17, <1>18 DEF Next, IoStep, PoolStep, AsioStep

-----------------------------------------------------------------------------
(***************************************************************************)
(* The theorems                                                            *)
(***************************************************************************)
ServerInv ==
    /\ TypeOK /\ WriteInv /\ Started /\ RoomInv /\ OrderInv
    /\ \A s \in Sessions : LostNothing(s)

(* ServerInv is inductive: the io thread, the workers, the pool, the       *)
(* publisher, the clients and the network all keep it.                     *)
THEOREM Inductive == Spec => []ServerInv
<1>1. Init => ServerInv
  <2>1. Init => Started
    BY DEF Init, Started
  <2> QED
    BY <2>1, InitTypeOK, InitWriteInv, InitRoomInv, InitOrderInv, InitNothingLost DEF ServerInv
<1>2. ServerInv /\ [Next]_vars => ServerInv'
  <2> SUFFICES ASSUME ServerInv, [Next]_vars PROVE ServerInv'
    OBVIOUS
  <2>1. TypeOK /\ WriteInv /\ Started /\ RoomInv /\ OrderInv /\ \A s \in Sessions : LostNothing(s)
    BY DEF ServerInv
  <2>2. TypeOK' /\ WriteInv' /\ Started'
    BY <2>1, NextTypeOK, NextWriteInv, NextStarted
  <2>3. RoomInv' /\ OrderInv'
    BY <2>1, NextRoomInv, NextOrderInv
  <2>4. \A s \in Sessions : LostNothing(s)'
    BY <2>1, NextNothingLost
  <2> QED
    BY <2>2, <2>3, <2>4 DEF ServerInv
<1> QED
  BY <1>1, <1>2, PTL DEF Spec

(* Every variable of the server keeps its type: a completed write finds    *)
(* the package it wrote at the front of the deque, and a publication has a *)
(* number within the bound.                                                *)
THEOREM TypeCorrect == Spec => []TypeOK
<1>1. ServerInv => TypeOK
  BY DEF ServerInv
<1> QED
  BY <1>1, Inductive, PTL

(* A session has one write outstanding while its deque is not empty and    *)
(* its connection not lost, and never two, whoever posts to it.            *)
THEOREM OneWriteHolds == Spec => []OneWrite
<1>1. ServerInv => OneWrite
  <2> SUFFICES ASSUME ServerInv, NEW s \in Sessions
               PROVE  LET n == (IF writing[s] THEN 1 ELSE 0) + Len(QueuedFor(s, "doWrite"))
                      IN  /\ n <= 1
                          /\ conn[s] = "open" => (n = 1 <=> writeDeque_[s] # <<>>)
    BY DEF OneWrite
  <2>1. WriteOk(s)
    BY DEF ServerInv, WriteInv
  <2> QED
    BY <2>1 DEF WriteOk, Outstanding
<1> QED
  BY <1>1, Inductive, PTL

(* What postPackage() was given for a session is written, in its deque or  *)
(* on its way there, once and in order.                                    *)
THEOREM NothingLostHolds == Spec => []NothingLost
<1>1. ServerInv => NothingLost
  BY NothingLostForAll DEF ServerInv
<1> QED
  BY <1>1, Inductive, PTL

(* Ordered requests are answered in the order they were sent, and nothing  *)
(* is answered twice.                                                      *)
THEOREM AnswersInOrderHolds == Spec => []AnswersInOrder
<1>1. ServerInv => AnswersInOrder
  BY DEF ServerInv, OrderInv
<1> QED
  BY <1>1, Inductive, PTL

(* A session in the room whose subscription was answered is recorded for   *)
(* every topic, whoever subscribes, leaves or joins at the same time.      *)
THEOREM SubscribedStaysHolds == Spec => []SubscribedStays
<1>1. ServerInv => SubscribedStays
  BY DEF ServerInv, RoomInv
<1> QED
  BY <1>1, Inductive, PTL

(* publishMessage() reaches every session it owes the message to that is   *)
(* still in the room.                                                      *)
THEOREM PublishReachesHolds == Spec => []PublishReaches
<1>1. ServerInv => PublishReaches
  BY DEF ServerInv, RoomInv
<1> QED
  BY <1>1, Inductive, PTL

-----------------------------------------------------------------------------
(***************************************************************************)
(* What RequestIsAnswered waits for is under way                           *)
(***************************************************************************)

(* The server holds request r of session s: it is on its way to it, read,  *)
(* with a worker, in the pool, or answered.                                *)
Kept(s, r) == Unread(s, r) \/ Handed(s, r)

(* A step that drops no request of an open session it can execute. *)
RequestsStay ==
    \A s \in Sessions, r \in Requests :
        r.k \notin {"badsub", "unknown"} /\ Kept(s, r) => Kept(s, r)' \/ conn'[s] = "lost"

(* A read of session s is outstanding, or queued for the io thread. *)
ReadUnderWay(s) ==
    reading[s] \/ \E i \in 1..Len(ioQ) : ioQ[i].h = "doRead" /\ ioQ[i].s = s

(* A write of session s is outstanding, or queued for the io thread. *)
WriteUnderWay(s) ==
    writing[s] \/ \E i \in 1..Len(ioQ) : ioQ[i].h \in {"doWrite", "writeBuffer"} /\ ioQ[i].s = s

(* An open session is being read, and one that has an answer to write is   *)
(* being written.                                                          *)
OpenIsRead == \A s \in Sessions : conn[s] = "open" => ReadUnderWay(s)
AnswerIsWritten ==
    \A s \in Sessions : conn[s] = "open" => \A p \in Packages :
        Contains(posted[s], p) /\ ~Contains(written[s], p) => WriteUnderWay(s)
NothingStalls == OpenIsRead /\ AnswerIsWritten

(* A read fails on a lost connection only. *)
FailedReadIsLost ==
    \A i \in 1..Len(ioQ) : ioQ[i].h = "doRead" /\ ~ioQ[i].ok => conn[ioQ[i].s] = "lost"

ReadInv == OpenIsRead /\ FailedReadIsLost

(* The reads that are queued stay queued. *)
ReadsStay ==
    \A i \in 1..Len(ioQ) : ioQ[i].h = "doRead" => \E j \in 1..Len(ioQ') : ioQ'[j] = ioQ[i]

(* What a queue keeps when a handler is put at its end. *)
LEMMA AppendKeeps ==
    ASSUME NEW q \in Seq(Handlers), NEW e \in Handlers
    PROVE  /\ \A i \in 1..Len(q) : i \in 1..Len(Append(q, e)) /\ Append(q, e)[i] = q[i]
           /\ \E i \in 1..Len(Append(q, e)) : Append(q, e)[i] = e
<1>1. /\ Len(q) \in Nat /\ Len(Append(q, e)) = Len(q) + 1
      /\ \A i \in 1..Len(q) : Append(q, e)[i] = q[i]
      /\ Append(q, e)[Len(q) + 1] = e
  OBVIOUS
<1>2. Len(q) + 1 \in 1..Len(Append(q, e))
  BY <1>1
<1> QED
  BY <1>1, <1>2

(* What a queue keeps when its head is taken. *)
LEMMA TailKeeps ==
    ASSUME NEW S, NEW q \in Seq(S), q # <<>>
    PROVE  /\ 1 \in 1..Len(q) /\ q[1] = Head(q)
           /\ \A i \in 1..Len(q) :
                  i = 1 \/ (i - 1 \in 1..Len(Tail(q)) /\ Tail(q)[i - 1] = q[i])
<1>1. Len(q) \in Nat /\ Len(Tail(q)) = Len(q) - 1 /\ Head(q) = q[1] /\ Len(q) # 0
  OBVIOUS
<1>2. \A i \in 1..Len(Tail(q)) : Tail(q)[i] = q[i + 1]
  OBVIOUS
<1>3. ASSUME NEW i \in 1..Len(q), i # 1
      PROVE  i - 1 \in 1..Len(Tail(q)) /\ Tail(q)[i - 1] = q[i]
  <2>1. i - 1 \in 1..Len(Tail(q)) /\ (i - 1) + 1 = i
    BY <1>1, <1>3
  <2> QED
    BY <1>2, <2>1
<1> QED
  BY <1>1, <1>3

(* Which steps leave the queued reads where they are. *)
LEMMA ReadsStayBy ==
    ASSUME TypeOK
    PROVE  /\ ioQ' = ioQ => ReadsStay
           /\ ioQ # <<>> /\ ioQ' = Tail(ioQ) /\ Head(ioQ).h # "doRead" => ReadsStay
           /\ \A e \in Handlers : ioQ' = Append(ioQ, e) => ReadsStay
           /\ \A r, S, p : Posts(r, S, p) /\ ioQ' = ioQ \o r => ReadsStay
<1>0. ioQ \in Seq(Handlers)
  BY DEF TypeOK
<1>1. ioQ' = ioQ => ReadsStay
  BY DEF ReadsStay
<1>2. ASSUME ioQ # <<>>, ioQ' = Tail(ioQ), Head(ioQ).h # "doRead" PROVE ReadsStay
  <2>1. /\ ioQ[1] = Head(ioQ)
        /\ \A i \in 1..Len(ioQ) : i = 1 \/ (i - 1 \in 1..Len(ioQ') /\ ioQ'[i - 1] = ioQ[i])
    BY <1>0, <1>2, TailKeeps
  <2> QED
    BY <1>2, <2>1 DEF ReadsStay
<1>3. ASSUME NEW e \in Handlers, ioQ' = Append(ioQ, e) PROVE ReadsStay
  <2>1. \A i \in 1..Len(ioQ) : i \in 1..Len(ioQ') /\ ioQ'[i] = ioQ[i]
    BY <1>0, <1>3, AppendKeeps
  <2> QED
    BY <2>1 DEF ReadsStay
<1>4. ASSUME NEW r, NEW S, NEW p, Posts(r, S, p), ioQ' = ioQ \o r PROVE ReadsStay
  <2>1. r \in Seq(Handlers)
    BY <1>4 DEF Posts
  <2>2. \A i \in 1..Len(ioQ) : i \in 1..Len(ioQ') /\ ioQ'[i] = ioQ[i]
    BY <1>0, <1>4, <2>1
  <2> QED
    BY <2>2 DEF ReadsStay
<1> QED
  BY <1>1, <1>2, <1>3, <1>4

(* A step that leaves the inboxes and the queued reads alone drops none of *)
(* the requests in them, and a session goes on being read.                 *)
LEMMA UnreadStays ==
    ASSUME ReadsStay, inbox' = inbox
    PROVE  \A s \in Sessions, r \in Requests : Unread(s, r) => Unread(s, r)'
BY DEF Unread, ReadsStay

(* A step that leaves reads and connections alone. *)
LEMMA ReadInvKept ==
    ASSUME ReadInv, ReadsStay, ReadsKept, reading' = reading, conn' = conn
    PROVE  ReadInv'
<1>1. OpenIsRead'
  BY DEF ReadInv, OpenIsRead, ReadUnderWay, ReadsStay
<1>2. FailedReadIsLost'
  BY DEF ReadInv, FailedReadIsLost, ReadsKept
<1> QED
  BY <1>1, <1>2 DEF ReadInv

(* The parts of Handed(s, r). *)
InPool(s, r) == \E task \in pool : task.s = s /\ task.r = r
Posted(s, r) == \E i \in 1..Len(posted[s]) : posted[s][i] = r
WithWorker(s, r) ==
    \E w \in 0..(Workers - 1) : \E i \in 1..Len(workerQ[w]) :
        workerQ[w][i].s = s /\ workerQ[w][i].r = r

(* The three places of a request that was handed on. *)
LEMMA HandedParts ==
    \A s, r : /\ Handed(s, r) <=> InPool(s, r) \/ Posted(s, r) \/ WithWorker(s, r)
              /\ Handed(s, r)' <=> InPool(s, r)' \/ Posted(s, r)' \/ WithWorker(s, r)'
BY DEF Handed, InPool, Posted, WithWorker

(* postPackage() adds its package to what was posted, and queues no read.  *)
LEMMA PostToStays ==
    ASSUME TypeOK, NEW S \in SUBSET Sessions, NEW p \in Packages, PostTo(S, p)
    PROVE  /\ ReadsStay /\ ReadsKept
           /\ \A s \in Sessions, r \in Requests : Posted(s, r) => Posted(s, r)'
           /\ \A s \in S : Posted(s, p)'
<1>1. ReadsStay
  BY PostToProperties, ReadsStayBy
<1>2. ReadsKept /\ PostedKept /\ \A s \in S : Contains(posted'[s], p)
  BY PostToKeeps
<1>3. \A s, r : /\ Posted(s, r) <=> Contains(posted[s], r)
                /\ Posted(s, r)' <=> Contains(posted'[s], r)
  BY DEF Posted, Contains
<1> QED
  BY <1>1, <1>2, <1>3 DEF PostedKept

(* A read is handed on whole: its ordered requests to the worker of the    *)
(* session, the others to the pool.                                        *)
LEMMA ReadIsHanded ==
    ASSUME TypeOK, NEW s \in Sessions, NEW in \in Seq(Requests), HandleMessages(s, in)
    PROVE  /\ \A c \in Sessions, r \in Requests :
                  /\ InPool(c, r) => InPool(c, r)'
                  /\ WithWorker(c, r) => WithWorker(c, r)'
           /\ \A j \in 1..Len(in) :
                  in[j].k # "unknown" => InPool(s, in[j])' \/ WithWorker(s, in[j])'
<1>1. /\ pool' = pool \cup {PoolTask(s, r) : r \in {x \in ToSet(in) : x.k \notin {"order", "unknown"}}}
  BY DEF HandleMessages
<1>2. \A c \in Sessions, r \in Requests : InPool(c, r) => InPool(c, r)'
  BY <1>1 DEF InPool
<1>3. ASSUME NEW j \in 1..Len(in), in[j].k \notin {"order", "unknown"} PROVE InPool(s, in[j])'
  <2>1. in[j] \in ToSet(in)
    BY DEF ToSet
  <2>2. PoolTask(s, in[j]) \in pool'
    BY <1>1, <1>3, <2>1
  <2>3. PoolTask(s, in[j]).s = s /\ PoolTask(s, in[j]).r = in[j]
    BY DEF PoolTask
  <2> QED
    BY <2>2, <2>3 DEF InPool
<1> DEFINE I(w) == {i \in 1..Len(in) : in[i].k = "order" /\ WorkerOf(s, in[i]) = w}
           add(w) == [i \in 1..Len(Pick(in, I(w))) |-> WorkerTask(s, Pick(in, I(w))[i])]
<1>4. ASSUME NEW w \in 0..(Workers - 1)
      PROVE  /\ Len(workerQ[w]) \in Nat /\ Len(add(w)) \in Nat
             /\ Len(workerQ'[w]) = Len(workerQ[w]) + Len(add(w))
             /\ \A i \in 1..Len(workerQ[w]) : workerQ'[w][i] = workerQ[w][i]
             /\ \A i \in 1..Len(add(w)) : workerQ'[w][Len(workerQ[w]) + i] = add(w)[i]
             /\ Len(add(w)) = Cardinality(I(w))
             /\ \A k \in 1..Cardinality(I(w)) : add(w)[k] = WorkerTask(s, in[Position(I(w), k)])
  <2>1. workerQ'[w] = workerQ[w] \o add(w)
    BY DEF HandleMessages, TypeOK
  <2>2. I(w) \in SUBSET (1..Len(in))
    OBVIOUS
  <2> HIDE DEF I
  <2>3. /\ Len(Pick(in, I(w))) = Cardinality(I(w)) /\ Cardinality(I(w)) \in Nat
        /\ \A k \in 1..Cardinality(I(w)) : Pick(in, I(w))[k] = in[Position(I(w), k)]
    BY <2>2, PickProperties
  <2>4. /\ Len(add(w)) = Cardinality(I(w))
        /\ \A k \in 1..Cardinality(I(w)) : add(w)[k] = WorkerTask(s, in[Position(I(w), k)])
    BY <2>3
  <2>5. add(w) \in Seq({add(w)[k] : k \in 1..Len(add(w))})
    BY <2>3, <2>4
  <2> HIDE DEF add
  <2>6. workerQ[w] \in Seq([s : Sessions, r : Requests])
    BY DEF TypeOK
  <2>7. /\ Len(workerQ'[w]) = Len(workerQ[w]) + Len(add(w))
        /\ Len(workerQ[w]) \in Nat /\ Len(add(w)) \in Nat
        /\ \A i \in 1..Len(workerQ[w]) : workerQ'[w][i] = workerQ[w][i]
        /\ \A i \in 1..Len(add(w)) : workerQ'[w][Len(workerQ[w]) + i] = add(w)[i]
    BY <2>1, <2>5, <2>6
  <2> QED
    BY <2>4, <2>7
<1>5. ASSUME NEW c \in Sessions, NEW r \in Requests, WithWorker(c, r) PROVE WithWorker(c, r)'
  <2>0. PICK w \in 0..(Workers - 1) : \E i \in 1..Len(workerQ[w]) :
            workerQ[w][i].s = c /\ workerQ[w][i].r = r
    BY <1>5 DEF WithWorker
  <2>1. PICK i \in 1..Len(workerQ[w]) : workerQ[w][i].s = c /\ workerQ[w][i].r = r
    BY <2>0
  <2>2. i \in 1..Len(workerQ'[w]) /\ workerQ'[w][i] = workerQ[w][i]
    <3> HIDE DEF add, I
    <3> QED
      BY <1>4
  <2> QED
    BY <2>1, <2>2 DEF WithWorker
<1>6. ASSUME NEW j \in 1..Len(in), in[j].k = "order" PROVE WithWorker(s, in[j])'
  <2>1. PICK w \in 0..(Workers - 1) : w = s % Workers
    BY ServerAssumption DEF Sessions
  <2>2. j \in I(w) /\ I(w) \in SUBSET (1..Len(in)) /\ Len(in) \in Nat
    BY <1>6, <2>1 DEF WorkerOf
  <2> HIDE DEF I, add
  <2>3. PICK k \in 1..Cardinality(I(w)) : Position(I(w), k) = j
    BY <2>2, PositionsEnumerate
  <2>4. add(w)[k] = WorkerTask(s, in[j]) /\ k \in 1..Len(add(w))
    BY <1>4, <2>3
  <2>5. /\ Len(workerQ[w]) + k \in 1..Len(workerQ'[w])
        /\ workerQ'[w][Len(workerQ[w]) + k] = WorkerTask(s, in[j])
    BY <1>4, <2>4
  <2>6. WorkerTask(s, in[j]).s = s /\ WorkerTask(s, in[j]).r = in[j]
    BY DEF WorkerTask
  <2> QED
    BY <2>5, <2>6 DEF WithWorker
<1> QED
  BY <1>2, <1>3, <1>5, <1>6

(* A worker's queue without its head. *)
LEMMA WorkerTailKeeps ==
    ASSUME TypeOK, NEW w \in 0..(Workers - 1), workerQ[w] # <<>>,
           workerQ' = [workerQ EXCEPT ![w] = Tail(@)]
    PROVE  \A s \in Sessions, r \in Requests : WithWorker(s, r) =>
               WithWorker(s, r)' \/ (s = Head(workerQ[w]).s /\ r = Head(workerQ[w]).r)
<1>1. SUFFICES ASSUME NEW s \in Sessions, NEW r \in Requests, WithWorker(s, r)
               PROVE  WithWorker(s, r)' \/ (s = Head(workerQ[w]).s /\ r = Head(workerQ[w]).r)
  OBVIOUS
<1>2. PICK v \in 0..(Workers - 1) : \E i \in 1..Len(workerQ[v]) :
          workerQ[v][i].s = s /\ workerQ[v][i].r = r
  BY <1>1 DEF WithWorker
<1>3. PICK i \in 1..Len(workerQ[v]) : workerQ[v][i].s = s /\ workerQ[v][i].r = r
  BY <1>2
<1>4. /\ workerQ'[w] = Tail(workerQ[w])
      /\ \A u \in 0..(Workers - 1) : u # w => workerQ'[u] = workerQ[u]
  BY DEF TypeOK
<1>5. CASE v # w
  BY <1>3, <1>4, <1>5 DEF WithWorker
<1>6. CASE v = w
  <2>1. workerQ[w] \in Seq([s : Sessions, r : Requests])
    BY DEF TypeOK
  <2>2. /\ workerQ[w][1] = Head(workerQ[w])
        /\ i = 1 \/ (i - 1 \in 1..Len(workerQ'[w]) /\ workerQ'[w][i - 1] = workerQ[w][i])
    BY <1>3, <1>4, <1>6, <2>1, TailKeeps
  <2> QED
    BY <1>3, <1>6, <2>2 DEF WithWorker
<1> QED
  BY <1>5, <1>6

(* A step that leaves the requests handed on where they are. *)
LEMMA HandedStays ==
    ASSUME UNCHANGED <<pool, posted, workerQ>>
    PROVE  \A s \in Sessions, r \in Requests : Handed(s, r) => Handed(s, r)'
BY DEF Handed

(* The io thread hands on what it has read. *)
LEMMA RunDoReadStays ==
    ASSUME TypeOK, ReadInv, RunDoRead
    PROVE  RequestsStay /\ ReadInv'
<1> USE DEF vars, sessionVars, roomVars, taskVars, pubVars, histVars
<1>0. ioQ \in Seq(Handlers)
  BY DEF TypeOK
<1>1. /\ ioQ # <<>> /\ ioQ' = Tail(ioQ) /\ Head(ioQ).h = "doRead"
      /\ HandleMessages(Head(ioQ).s, Head(ioQ).in)
      /\ reading' = [reading EXCEPT ![Head(ioQ).s] = TRUE]
      /\ UNCHANGED <<conn, inbox, posted>>
  BY DEF RunDoRead, Runs
<1>2. /\ 1 \in 1..Len(ioQ) /\ ioQ[1] = Head(ioQ)
      /\ \A i \in 1..Len(ioQ) :
             i = 1 \/ (i - 1 \in 1..Len(ioQ') /\ ioQ'[i - 1] = ioQ[i])
  BY <1>0, <1>1, TailKeeps
<1>3. Head(ioQ).s \in Sessions /\ Head(ioQ).in \in Seq(Requests)
  BY <1>0, <1>1, <1>2, Types
<1>4. PICK s \in Sessions, in \in Seq(Requests) : s = ioQ[1].s /\ in = ioQ[1].in
  BY <1>2, <1>3
<1>5. HandleMessages(s, in) /\ reading' = [reading EXCEPT ![s] = TRUE]
  BY <1>1, <1>2, <1>4
<1>6. /\ \A c \in Sessions, r \in Requests :
             /\ InPool(c, r) => InPool(c, r)'
             /\ WithWorker(c, r) => WithWorker(c, r)'
      /\ \A j \in 1..Len(in) :
             in[j].k # "unknown" => InPool(s, in[j])' \/ WithWorker(s, in[j])'
  BY <1>5, ReadIsHanded
<1>7. ASSUME NEW c \in Sessions, NEW r \in Requests, r.k # "unknown", Kept(c, r)
      PROVE  Kept(c, r)'
  <2>1. CASE \E i \in 1..Len(inbox[c]) : r = inbox[c][i]
    BY <1>1, <2>1 DEF Kept, Unread
  <2>2. ASSUME NEW i \in 1..Len(ioQ), ioQ[i].h = "doRead", ioQ[i].s = c,
               NEW j \in 1..Len(ioQ[i].in), r = ioQ[i].in[j]
        PROVE  Kept(c, r)'
    <3>1. CASE i = 1
      BY <1>4, <1>6, <1>7, <2>2, <3>1, HandedParts DEF Kept
    <3>2. CASE i # 1
      BY <1>2, <2>2, <3>2 DEF Kept, Unread
    <3> QED
      BY <3>1, <3>2
  <2>3. CASE Handed(c, r)
    <3>1. Posted(c, r) => Posted(c, r)'
      BY <1>1 DEF Posted
    <3> QED
      BY <1>6, <2>3, <3>1, HandedParts DEF Kept
  <2> QED
    BY <1>7, <2>1, <2>2, <2>3 DEF Kept, Unread
<1>8. OpenIsRead'
  <2>1. SUFFICES ASSUME NEW c \in Sessions, conn'[c] = "open" PROVE ReadUnderWay(c)'
    BY DEF OpenIsRead
  <2>2. CASE c = s
    BY <1>5, <2>2 DEF ReadUnderWay, TypeOK
  <2>3. CASE c # s
    <3>1. ReadUnderWay(c)
      BY <1>1, <2>1 DEF ReadInv, OpenIsRead
    <3>2. reading'[c] = reading[c]
      BY <1>5, <2>3 DEF TypeOK
    <3> QED
      BY <1>2, <1>4, <2>3, <3>1, <3>2 DEF ReadUnderWay
  <2> QED
    BY <2>2, <2>3
<1>9. FailedReadIsLost'
  <2>1. \A i \in 1..Len(ioQ') : i + 1 \in 1..Len(ioQ) /\ ioQ'[i] = ioQ[i + 1]
    BY <1>0, <1>1, TailElements
  <2> QED
    BY <1>1, <2>1 DEF ReadInv, FailedReadIsLost
<1> QED
  BY <1>7, <1>8, <1>9 DEF RequestsStay, ReadInv

(* leave() after a failed read or write drops the read of a lost session   *)
(* only.                                                                   *)
LEMMA RunLeaveStays ==
    ASSUME TypeOK, ReadInv, RunLeave
    PROVE  RequestsStay /\ ReadInv'
<1> USE DEF vars, sessionVars, roomVars, taskVars, pubVars, histVars
<1>0. ioQ \in Seq(Handlers)
  BY DEF TypeOK
<1>1. /\ ioQ # <<>> /\ ioQ' = Tail(ioQ) /\ ~Head(ioQ).ok
      /\ UNCHANGED <<conn, inbox, posted, pool, workerQ, reading>>
  BY DEF RunLeave, Runs
<1>2. /\ 1 \in 1..Len(ioQ) /\ ioQ[1] = Head(ioQ)
      /\ \A i \in 1..Len(ioQ) :
             i = 1 \/ (i - 1 \in 1..Len(ioQ') /\ ioQ'[i - 1] = ioQ[i])
  BY <1>0, <1>1, TailKeeps
<1>3. ioQ[1].h = "doRead" => conn[ioQ[1].s] = "lost"
  BY <1>1, <1>2 DEF ReadInv, FailedReadIsLost
<1>4. ASSUME NEW c \in Sessions, NEW r \in Requests, Kept(c, r), conn[c] # "lost"
      PROVE  Kept(c, r)'
  <2>1. CASE \E i \in 1..Len(inbox[c]) : r = inbox[c][i]
    BY <1>1, <2>1 DEF Kept, Unread
  <2>2. ASSUME NEW i \in 1..Len(ioQ), ioQ[i].h = "doRead", ioQ[i].s = c,
               NEW j \in 1..Len(ioQ[i].in), r = ioQ[i].in[j]
        PROVE  Kept(c, r)'
    <3>1. i # 1
      BY <1>3, <1>4, <2>2
    <3> QED
      BY <1>2, <2>2, <3>1 DEF Kept, Unread
  <2>3. CASE Handed(c, r)
    BY <1>1, <2>3, HandedStays DEF Kept
  <2> QED
    BY <1>4, <2>1, <2>2, <2>3 DEF Kept, Unread
<1>5. OpenIsRead'
  <2>1. SUFFICES ASSUME NEW c \in Sessions, conn'[c] = "open" PROVE ReadUnderWay(c)'
    BY DEF OpenIsRead
  <2>2. ReadUnderWay(c) /\ conn[c] # "lost"
    BY <1>1, <2>1 DEF ReadInv, OpenIsRead
  <2> QED
    BY <1>1, <1>2, <1>3, <2>2 DEF ReadUnderWay
<1>6. FailedReadIsLost'
  <2>1. \A i \in 1..Len(ioQ') : i + 1 \in 1..Len(ioQ) /\ ioQ'[i] = ioQ[i + 1]
    BY <1>0, <1>1, TailElements
  <2> QED
    BY <1>1, <2>1 DEF ReadInv, FailedReadIsLost
<1> QED
  BY <1>1, <1>4, <1>5, <1>6 DEF RequestsStay, ReadInv

(* A read that completes takes messages from the network whole. *)
LEMMA ReadCompletesStays ==
    ASSUME TypeOK, ReadInv, NEW s \in Sessions, ReadCompletes(s)
    PROVE  RequestsStay /\ ReadInv'
<1> USE DEF vars, sessionVars, roomVars, taskVars, pubVars, histVars
<1>0. ioQ \in Seq(Handlers)
  BY DEF TypeOK
<1>1. PICK len \in 1..Len(inbox[s]) :
          /\ ioQ' = Append(ioQ, ReadDone(s, SubSeq(inbox[s], 1, len), TRUE))
          /\ inbox' = [inbox EXCEPT ![s] = SubSeq(@, len + 1, Len(@))]
  BY DEF ReadCompletes
<1>2. /\ reading' = [reading EXCEPT ![s] = FALSE]
      /\ UNCHANGED <<conn, pool, workerQ, posted>>
  BY DEF ReadCompletes
<1>3. inbox[s] \in Seq(Requests) /\ len \in Nat
  BY DEF TypeOK
<1> DEFINE in == SubSeq(inbox[s], 1, len)
           rest == SubSeq(inbox[s], len + 1, Len(inbox[s]))
<1>4. /\ in \in Seq(Requests)
      /\ \A i \in 1..Len(inbox[s]) :
             \/ i \in 1..Len(in) /\ in[i] = inbox[s][i]
             \/ i - len \in 1..Len(rest) /\ rest[i - len] = inbox[s][i]
  <2>1. in \in Seq(Requests) /\ Len(in) = len /\ Len(rest) = Len(inbox[s]) - len
    BY <1>3
  <2>2. \A i \in 1..len : in[i] = inbox[s][i]
    BY <1>3
  <2>3. \A i \in 1..(Len(inbox[s]) - len) : rest[i] = inbox[s][i + len]
    BY <1>3
  <2>4. Len(inbox[s]) \in Nat
    BY <1>3
  <2> HIDE DEF in, rest
  <2>5. ASSUME NEW i \in 1..Len(inbox[s])
        PROVE  \/ i \in 1..Len(in) /\ in[i] = inbox[s][i]
               \/ i - len \in 1..Len(rest) /\ rest[i - len] = inbox[s][i]
    <3>1. CASE i <= len
      BY <1>3, <2>1, <2>2, <2>4, <3>1
    <3>2. CASE i > len
      <4>1. i - len \in 1..(Len(inbox[s]) - len) /\ (i - len) + len = i
        BY <1>3, <2>4, <3>2
      <4> QED
        BY <2>1, <2>3, <4>1
    <3> QED
      BY <1>3, <2>4, <3>1, <3>2
  <2> QED
    BY <2>1, <2>5
<1>5. inbox'[s] = rest /\ \A c \in Sessions : c # s => inbox'[c] = inbox[c]
  BY <1>1 DEF TypeOK
<1> DEFINE e == ReadDone(s, in, TRUE)
<1>6. e \in Handlers
  BY <1>4, Types, Zenon
<1>7. e.h = "doRead" /\ e.s = s /\ e.in = in /\ e.ok = TRUE
  BY DEF ReadDone
<1>8. ioQ' = Append(ioQ, e)
  BY <1>1
<1> HIDE DEF e, in, rest
<1>9. /\ \A i \in 1..Len(ioQ) : i \in 1..Len(ioQ') /\ ioQ'[i] = ioQ[i]
      /\ \E i \in 1..Len(ioQ') : ioQ'[i] = e
  BY <1>0, <1>6, <1>8, AppendKeeps
<1>10. ASSUME NEW c \in Sessions, NEW r \in Requests, Kept(c, r) PROVE Kept(c, r)'
  <2>1. ASSUME NEW i \in 1..Len(inbox[c]), r = inbox[c][i] PROVE Kept(c, r)'
    <3>1. CASE c = s
      <4>1. CASE i \in 1..Len(in) /\ in[i] = inbox[s][i]
        BY <1>7, <1>9, <2>1, <3>1, <4>1 DEF Kept, Unread
      <4>2. CASE i - len \in 1..Len(rest) /\ rest[i - len] = inbox[s][i]
        BY <1>5, <2>1, <3>1, <4>2 DEF Kept, Unread
      <4> QED
        BY <1>4, <2>1, <3>1, <4>1, <4>2
    <3>2. CASE c # s
      BY <1>5, <2>1, <3>2 DEF Kept, Unread
    <3> QED
      BY <3>1, <3>2
  <2>2. ASSUME NEW i \in 1..Len(ioQ), ioQ[i].h = "doRead", ioQ[i].s = c,
               NEW j \in 1..Len(ioQ[i].in), r = ioQ[i].in[j]
        PROVE  Kept(c, r)'
    BY <1>9, <2>2 DEF Kept, Unread
  <2>3. CASE Handed(c, r)
    BY <1>2, <2>3, HandedStays DEF Kept
  <2> QED
    BY <1>10, <2>1, <2>2, <2>3 DEF Kept, Unread
<1>11. OpenIsRead'
  <2>1. SUFFICES ASSUME NEW c \in Sessions, conn'[c] = "open" PROVE ReadUnderWay(c)'
    BY DEF OpenIsRead
  <2>2. CASE c = s
    BY <1>7, <1>9, <2>2 DEF ReadUnderWay
  <2>3. CASE c # s
    <3>1. ReadUnderWay(c) /\ reading'[c] = reading[c]
      BY <1>2, <2>1, <2>3 DEF ReadInv, OpenIsRead, TypeOK
    <3> QED
      BY <1>9, <3>1 DEF ReadUnderWay
  <2> QED
    BY <2>2, <2>3
<1>12. FailedReadIsLost'
  <2>1. \A i \in 1..Len(ioQ') : (i \in 1..Len(ioQ) /\ ioQ'[i] = ioQ[i]) \/ ioQ'[i] = e
    BY <1>0, <1>6, <1>8, AppendElements
  <2> QED
    BY <1>2, <1>7, <2>1 DEF ReadInv, FailedReadIsLost
<1> QED
  BY <1>10, <1>11, <1>12 DEF RequestsStay, ReadInv

(* A read that fails leaves the requests where they are. *)
LEMMA ReadFailsStays ==
    ASSUME TypeOK, ReadInv, NEW s \in Sessions, ReadFails(s)
    PROVE  RequestsStay /\ ReadInv'
<1>0. ioQ \in Seq(Handlers)
  BY DEF TypeOK
<1> DEFINE e == ReadDone(s, <<>>, FALSE)
<1>1. /\ conn[s] = "lost" /\ ioQ' = Append(ioQ, e) /\ reading' = [reading EXCEPT ![s] = FALSE]
      /\ UNCHANGED <<conn, inbox, pool, workerQ, posted>>
  BY DEF ReadFails, roomVars, taskVars, pubVars, histVars
<1>2. e \in Handlers
  <2>1. <<>> \in Seq(Requests)
    OBVIOUS
  <2> QED
    BY <2>1, Types, Zenon
<1>3. e.s = s
  BY DEF ReadDone
<1> HIDE DEF e
<1>4. /\ \A i \in 1..Len(ioQ) : i \in 1..Len(ioQ') /\ ioQ'[i] = ioQ[i]
      /\ \A i \in 1..Len(ioQ') : (i \in 1..Len(ioQ) /\ ioQ'[i] = ioQ[i]) \/ ioQ'[i] = e
  BY <1>0, <1>1, <1>2, AppendKeeps, AppendElements
<1>5. RequestsStay
  <2>1. ReadsStay
    BY <1>4 DEF ReadsStay
  <2> QED
    BY <1>1, <2>1, UnreadStays, HandedStays DEF RequestsStay, Kept
<1>6. OpenIsRead'
  <2>1. SUFFICES ASSUME NEW c \in Sessions, conn'[c] = "open" PROVE ReadUnderWay(c)'
    BY DEF OpenIsRead
  <2>2. c # s
    BY <1>1, <2>1
  <2>3. ReadUnderWay(c) /\ reading'[c] = reading[c]
    BY <1>1, <2>1, <2>2 DEF ReadInv, OpenIsRead, TypeOK
  <2> QED
    BY <1>4, <2>3 DEF ReadUnderWay
<1>7. FailedReadIsLost'
  BY <1>1, <1>3, <1>4 DEF ReadInv, FailedReadIsLost
<1> QED
  BY <1>5, <1>6, <1>7 DEF ReadInv

(* A worker answers the request it takes. *)
LEMMA WorkerExecutesStays ==
    ASSUME TypeOK, ReadInv, NEW w \in 0..(Workers - 1), WorkerExecutes(w)
    PROVE  RequestsStay /\ ReadInv'
<1>1. /\ workerQ[w] # <<>> /\ workerQ' = [workerQ EXCEPT ![w] = Tail(@)]
      /\ PostTo({Head(workerQ[w]).s}, Head(workerQ[w]).r)
      /\ UNCHANGED <<conn, inbox, reading, pool>>
  BY DEF WorkerExecutes, ReplyMessage
<1>2. PICK s \in Sessions, p \in Packages : s = Head(workerQ[w]).s /\ p = Head(workerQ[w]).r
  <2>1. 1 \in 1..Len(workerQ[w]) /\ workerQ[w][1] = Head(workerQ[w])
    BY <1>1, WorkerElements, TailKeeps
  <2> QED
    BY <2>1, WorkerElements
<1>3. PostTo({s}, p) /\ {s} \in SUBSET Sessions
  BY <1>1, <1>2
<1>4. /\ ReadsStay /\ ReadsKept /\ Posted(s, p)'
      /\ \A c \in Sessions, r \in Requests : Posted(c, r) => Posted(c, r)'
  BY <1>3, PostToStays
<1>5. \A c \in Sessions, r \in Requests :
          WithWorker(c, r) => WithWorker(c, r)' \/ (c = s /\ r = p)
  BY <1>1, <1>2, WorkerTailKeeps
<1>6. \A c \in Sessions, r \in Requests : InPool(c, r) => InPool(c, r)'
  BY <1>1 DEF InPool
<1>7. \A c \in Sessions, r \in Requests : Handed(c, r) => Handed(c, r)'
  BY <1>4, <1>5, <1>6, HandedParts
<1>8. RequestsStay
  BY <1>1, <1>4, <1>7, UnreadStays DEF RequestsStay, Kept
<1> QED
  BY <1>1, <1>4, <1>8, ReadInvKept

(* A thread of the pool answers the request it takes, unless it is a       *)
(* malformed subscription.                                                 *)
LEMMA PoolExecutesStays ==
    ASSUME TypeOK, ReadInv, NEW task \in pool, PoolExecutes(task)
    PROVE  RequestsStay /\ ReadInv'
<1>1. /\ pool' = pool \ {task} /\ UNCHANGED <<conn, inbox, reading, workerQ>>
      /\ IF task.r.k = "badsub" THEN UNCHANGED <<posted, ioQ>> ELSE PostTo({task.s}, task.r)
  BY DEF PoolExecutes, ReplyMessage
<1>2. task.s \in Sessions /\ task.r \in Requests /\ task.r \in Packages
  <2>1. task \in [s : Sessions, r : Requests, todo : SUBSET Topics]
    BY DEF TypeOK
  <2>2. task.s \in Sessions /\ task.r \in Requests
    BY <2>1
  <2> QED
    BY <2>2, Types
<1>3. /\ ReadsStay /\ ReadsKept /\ (task.r.k # "badsub" => Posted(task.s, task.r)')
      /\ \A c \in Sessions, r \in Requests : Posted(c, r) => Posted(c, r)'
  <2>1. CASE task.r.k = "badsub"
    <3>1. ReadsStay /\ ReadsKept
      BY <1>1, <2>1, ReadsStayBy DEF ReadsKept
    <3> QED
      BY <1>1, <2>1, <3>1 DEF Posted
  <2>2. CASE task.r.k # "badsub"
    <3>1. PostTo({task.s}, task.r) /\ {task.s} \in SUBSET Sessions
      BY <1>1, <1>2, <2>2
    <3> QED
      BY <1>2, <3>1, PostToStays
  <2> QED
    BY <2>1, <2>2
<1>4. \A c \in Sessions, r \in Requests : WithWorker(c, r) => WithWorker(c, r)'
  BY <1>1 DEF WithWorker
<1>5. \A c \in Sessions, r \in Requests :
          InPool(c, r) => InPool(c, r)' \/ (c = task.s /\ r = task.r)
  BY <1>1 DEF InPool
<1>6. \A c \in Sessions, r \in Requests :
          r.k # "badsub" /\ Handed(c, r) => Handed(c, r)'
  BY <1>3, <1>4, <1>5, HandedParts
<1>7. RequestsStay
  BY <1>1, <1>3, <1>6, UnreadStays DEF RequestsStay, Kept
<1> QED
  BY <1>1, <1>3, <1>7, ReadInvKept

(* One topic of a subscription is recorded: the request stays in the pool. *)
LEMMA SubscribeStays ==
    ASSUME TypeOK, ReadInv, NEW task \in pool, NEW t \in Topics, Subscribe(task, t)
    PROVE  RequestsStay /\ ReadInv'
<1>1. /\ pool' = (pool \ {task}) \cup {[task EXCEPT !.todo = @ \ {t}]}
      /\ UNCHANGED <<conn, inbox, reading, posted, workerQ, ioQ>>
  BY DEF Subscribe, sessionVars
<1>2. PICK new \in pool' : new = [task EXCEPT !.todo = @ \ {t}]
  BY <1>1
<1>3. new.s = task.s /\ new.r = task.r
  <2>1. task \in [s : Sessions, r : Requests, todo : SUBSET Topics]
    BY DEF TypeOK
  <2> QED
    BY <1>2, <2>1
<1>4. \A c \in Sessions, r \in Requests : InPool(c, r) => InPool(c, r)'
  BY <1>1, <1>2, <1>3 DEF InPool
<1>5. \A c \in Sessions, r \in Requests : Handed(c, r) => Handed(c, r)'
  <2>1. \A c \in Sessions, r \in Requests :
            (Posted(c, r) => Posted(c, r)') /\ (WithWorker(c, r) => WithWorker(c, r)')
    BY <1>1 DEF Posted, WithWorker
  <2> QED
    BY <1>4, <2>1, HandedParts
<1>6. ReadsStay /\ ReadsKept
  BY <1>1, ReadsStayBy DEF ReadsKept
<1>7. RequestsStay
  BY <1>1, <1>5, <1>6, UnreadStays DEF RequestsStay, Kept
<1> QED
  BY <1>1, <1>6, <1>7, ReadInvKept

(* publishMessage() posts and takes nothing away. *)
LEMMA PublishPostsStays ==
    ASSUME TypeOK, Started, ReadInv, PublishPosts
    PROVE  RequestsStay /\ ReadInv'
<1>1. /\ PostTo(pub.ids \cap sessionCache_, Publication(published))
      /\ UNCHANGED <<conn, inbox, reading, pool, workerQ>>
  BY DEF PublishPosts, taskVars
<1>2. pub.ids \cap sessionCache_ \in SUBSET Sessions
  BY DEF TypeOK
<1>3. Publication(published) \in Packages
  <2>1. published \in 1..MaxPublish
    BY ServerAssumption DEF TypeOK, Started, PublishPosts
  <2> QED
    BY <2>1 DEF Packages
<1>4. /\ ReadsStay /\ ReadsKept
      /\ \A c \in Sessions, r \in Requests : Posted(c, r) => Posted(c, r)'
  BY <1>1, <1>2, <1>3, PostToStays
<1>5. \A c \in Sessions, r \in Requests :
          (InPool(c, r) => InPool(c, r)') /\ (WithWorker(c, r) => WithWorker(c, r)')
  BY <1>1 DEF InPool, WithWorker
<1>6. \A c \in Sessions, r \in Requests : Handed(c, r) => Handed(c, r)'
  BY <1>4, <1>5, HandedParts
<1>7. RequestsStay
  BY <1>1, <1>4, <1>6, UnreadStays DEF RequestsStay, Kept
<1> QED
  BY <1>1, <1>4, <1>7, ReadInvKept

(* A client sends behind what it has sent. *)
LEMMA ClientSendsStays ==
    ASSUME TypeOK, ReadInv, NEW s \in Sessions, NEW k \in Kinds, ClientSends(s, k)
    PROVE  RequestsStay /\ ReadInv'
<1>1. /\ inbox' = [inbox EXCEPT ![s] = Append(@, Request(sent[s] + 1, k))]
      /\ UNCHANGED <<conn, reading, ioQ, pool, workerQ, posted>>
  BY DEF ClientSends, taskVars
<1>2. ReadsStay /\ ReadsKept
  BY <1>1, ReadsStayBy DEF ReadsKept
<1>3. ASSUME NEW c \in Sessions, NEW i \in 1..Len(inbox[c])
      PROVE  i \in 1..Len(inbox'[c]) /\ inbox'[c][i] = inbox[c][i]
  <2>1. CASE c = s
    <3>1. inbox[s] \in Seq(Requests) /\ inbox'[s] = Append(inbox[s], Request(sent[s] + 1, k))
      BY <1>1 DEF TypeOK
    <3> QED
      BY <2>1, <3>1
  <2>2. CASE c # s
    BY <1>1, <2>2 DEF TypeOK
  <2> QED
    BY <2>1, <2>2
<1>4. \A c \in Sessions, r \in Requests : Kept(c, r) => Kept(c, r)'
  BY <1>1, <1>2, <1>3, HandedStays DEF Kept, Unread
<1> QED
  BY <1>1, <1>2, <1>4, ReadInvKept DEF RequestsStay

(* A new session is read at once. *)
LEMMA AcceptStays ==
    ASSUME TypeOK, ReadInv, NEW s \in Sessions, Accept(s)
    PROVE  RequestsStay /\ ReadInv'
<1>1. /\ conn[s] = "none" /\ conn' = [conn EXCEPT ![s] = "open"]
      /\ reading' = [reading EXCEPT ![s] = TRUE]
      /\ UNCHANGED <<inbox, ioQ, pool, workerQ, posted>>
  BY DEF Accept, taskVars
<1>2. RequestsStay
  BY <1>1, ReadsStayBy, UnreadStays, HandedStays DEF RequestsStay, Kept
<1>3. OpenIsRead'
  <2>1. SUFFICES ASSUME NEW c \in Sessions, conn'[c] = "open" PROVE ReadUnderWay(c)'
    BY DEF OpenIsRead
  <2>2. CASE c = s
    BY <1>1, <2>2 DEF ReadUnderWay, TypeOK
  <2>3. CASE c # s
    <3>1. ReadUnderWay(c) /\ reading'[c] = reading[c]
      BY <1>1, <2>1, <2>3 DEF ReadInv, OpenIsRead, TypeOK
    <3> QED
      BY <1>1, <3>1 DEF ReadUnderWay
  <2> QED
    BY <2>2, <2>3
<1>4. FailedReadIsLost'
  BY <1>1, SMTT(60) DEF ReadInv, FailedReadIsLost, TypeOK
<1> QED
  BY <1>2, <1>3, <1>4 DEF ReadInv

(* A connection that is lost loses what its own client has sent. *)
LEMMA ConnectionLostStays ==
    ASSUME TypeOK, ReadInv, NEW s \in Sessions, ConnectionLost(s)
    PROVE  RequestsStay /\ ReadInv'
<1>1. /\ conn' = [conn EXCEPT ![s] = "lost"] /\ inbox' = [inbox EXCEPT ![s] = <<>>]
      /\ UNCHANGED <<reading, ioQ, pool, workerQ, posted>>
  BY DEF ConnectionLost, taskVars
<1>2. conn'[s] = "lost" /\ \A c \in Sessions : c # s => conn'[c] = conn[c] /\ inbox'[c] = inbox[c]
  BY <1>1 DEF TypeOK
<1>3. \A c \in Sessions, r \in Requests : c # s /\ Kept(c, r) => Kept(c, r)'
  BY <1>1, <1>2, HandedStays DEF Kept, Unread
<1>4. RequestsStay
  BY <1>2, <1>3 DEF RequestsStay
<1>5. OpenIsRead'
  BY <1>1, <1>2 DEF ReadInv, OpenIsRead, ReadUnderWay
<1>6. FailedReadIsLost'
  <2>1. \A i \in 1..Len(ioQ) : conn[ioQ[i].s] = "lost" => conn'[ioQ[i].s] = "lost"
    BY <1>1 DEF TypeOK
  <2> QED
    BY <1>1, <2>1 DEF ReadInv, FailedReadIsLost
<1> QED
  BY <1>4, <1>5, <1>6 DEF ReadInv

(* A step that touches reads, requests and answers in no way. *)
LEMMA OtherStays ==
    ASSUME ReadInv, ReadsStay, ReadsKept,
           UNCHANGED <<conn, inbox, reading, pool, workerQ, posted>>
    PROVE  RequestsStay /\ ReadInv'
<1>1. RequestsStay
  BY UnreadStays, HandedStays DEF RequestsStay, Kept
<1> QED
  BY <1>1, ReadInvKept

(* Every step of the system keeps the requests and goes on reading. *)
LEMMA NextStays ==
    ASSUME TypeOK, Started, ReadInv, [Next]_vars
    PROVE  RequestsStay /\ ReadInv'
<1> USE DEF vars, sessionVars, roomVars, taskVars, pubVars, histVars
<1>0. ioQ \in Seq(Handlers)
  BY DEF TypeOK
<1>A. ioQ' = ioQ => ReadsStay /\ ReadsKept
  BY ReadsStayBy DEF ReadsKept
<1>B. ioQ # <<>> /\ ioQ' = Tail(ioQ) /\ Head(ioQ).h # "doRead" => ReadsStay /\ ReadsKept
  BY ReadsStayBy, ReadsKeptTail
<1>1. CASE RunDoRead
  BY <1>1, RunDoReadStays
<1>2. CASE RunLeave
  BY <1>2, RunLeaveStays
<1>3. CASE RunLeaveTopics \/ PublishIds \/ Stop \/ UNCHANGED vars
  <2>1. UNCHANGED <<conn, inbox, reading, pool, workerQ, posted, ioQ>>
    BY <1>3 DEF RunLeaveTopics, PublishIds, Stop
  <2> QED
    BY <1>A, <2>1, OtherStays
<1>4. CASE RunWriteBuffer \/ RunDoWrite
  <2>1. /\ ioQ # <<>> /\ ioQ' = Tail(ioQ) /\ Head(ioQ).h # "doRead"
        /\ UNCHANGED <<conn, inbox, reading, pool, workerQ, posted>>
    BY <1>4 DEF RunWriteBuffer, RunDoWrite, Runs
  <2> QED
    BY <1>B, <2>1, OtherStays
<1>5. ASSUME NEW task \in pool, PoolExecutes(task) PROVE RequestsStay /\ ReadInv'
  BY <1>5, PoolExecutesStays
<1>6. ASSUME NEW task \in pool, NEW t \in Topics, Subscribe(task, t)
      PROVE  RequestsStay /\ ReadInv'
  BY <1>6, SubscribeStays
<1>7. CASE PublishPosts
  BY <1>7, PublishPostsStays
<1>8. ASSUME NEW w \in DOMAIN workerQ, WorkerExecutes(w) PROVE RequestsStay /\ ReadInv'
  <2>1. w \in 0..(Workers - 1)
    BY <1>8 DEF TypeOK
  <2> QED
    BY <1>8, <2>1, WorkerExecutesStays
<1>9. ASSUME NEW s \in Sessions, Accept(s) \/ ConnectionLost(s) \/ \E k \in Kinds : ClientSends(s, k)
      PROVE  RequestsStay /\ ReadInv'
  BY <1>9, AcceptStays, ConnectionLostStays, ClientSendsStays
<1>10. ASSUME NEW s \in Sessions, ReadCompletes(s) \/ ReadFails(s) PROVE RequestsStay /\ ReadInv'
  BY <1>10, ReadCompletesStays, ReadFailsStays
<1>11. ASSUME NEW s \in Sessions, WriteCompletes(s) PROVE RequestsStay /\ ReadInv'
  <2>1. PICK ok \in BOOLEAN : ioQ' = Append(ioQ, WriteDone(s, ok))
    BY <1>11 DEF WriteCompletes
  <2>2. UNCHANGED <<conn, inbox, reading, pool, workerQ, posted>>
    BY <1>11 DEF WriteCompletes
  <2> DEFINE e == WriteDone(s, ok)
  <2>3. e \in Handlers
    BY Types, Zenon
  <2>4. e.h = "doWrite"
    BY DEF WriteDone
  <2>5. ioQ' = Append(ioQ, e)
    BY <2>1
  <2> HIDE DEF e
  <2>6. ReadsStay
    BY <2>3, <2>5, ReadsStayBy
  <2>7. ReadsKept
    BY <1>0, <2>3, <2>4, <2>5, AppendElements DEF ReadsKept
  <2> QED
    BY <2>2, <2>6, <2>7, OtherStays
<1> QED
  BY <1>1, <1>2, <1>3, <1>4, <1>5, <1>6, <1>7, <1>8, <1>9, <1>10, <1>11
     DEF Next, IoStep, PoolStep, AsioStep

(* A session with a handler in its part of the queue has one in the queue. *)
LEMMA SomeQueued ==
    ASSUME TypeOK, NEW s \in Sessions, NEW h, QueuedFor(s, h) # <<>>
    PROVE  \E i \in 1..Len(ioQ) : ioQ[i].h = h /\ ioQ[i].s = s
<1> DEFINE I == {i \in 1..Len(ioQ) : ioQ[i].h = h /\ ioQ[i].s = s}
<1>1. QueuedFor(s, h) = Pick(ioQ, I)
  BY DEF QueuedFor, Of
<1>2. I # {}
  BY <1>1, PickNone
<1> QED
  BY <1>2

(* What was posted to an open session and not written is being written. *)
LEMMA AnswerUnderWay ==
    ASSUME ServerInv, NEW s \in Sessions, conn[s] = "open", NEW p \in Packages,
           Contains(posted[s], p), ~Contains(written[s], p)
    PROVE  WriteUnderWay(s)
<1>0. TypeOK /\ WriteOk(s) /\ LostNothing(s)
  BY DEF ServerInv, WriteInv
<1>1. CASE writeDeque_[s] # <<>>
  <2>1. Outstanding(s) = 1
    BY <1>0, <1>1 DEF WriteOk
  <2>2. CASE writing[s]
    BY <2>2 DEF WriteUnderWay
  <2>3. CASE ~writing[s]
    <3>1. QueuedFor(s, "doWrite") # <<>>
      <4>1. QueuedFor(s, "doWrite") = <<>> => Len(QueuedFor(s, "doWrite")) = 0
        OBVIOUS
      <4>2. Len(QueuedFor(s, "doWrite")) = 0 => Outstanding(s) = 0
        BY <2>3 DEF Outstanding
      <4> QED
        BY <2>1, <4>1, <4>2
    <3> QED
      BY <1>0, <3>1, SomeQueued DEF WriteUnderWay
  <2> QED
    BY <2>2, <2>3
<1>2. CASE writeDeque_[s] = <<>>
  <2>1. CASE QueuedFor(s, "writeBuffer") # <<>>
    BY <1>0, <2>1, SomeQueued DEF WriteUnderWay
  <2>2. CASE QueuedFor(s, "writeBuffer") = <<>>
    <3>1. Coming(s) = <<>>
      BY <2>2 DEF Coming, Payload
    <3>2. posted[s] = written[s]
      <4>1. posted[s] = written[s] \o <<>> \o <<>> /\ written[s] \in Seq(Packages)
        BY <1>0, <1>2, <3>1 DEF LostNothing, TypeOK
      <4> QED
        BY <4>1
    <3> QED
      BY <3>2
  <2> QED
    BY <2>1, <2>2
<1> QED
  BY <1>1, <1>2

(* The reads are part of the invariant of the server. *)
LEMMA ReadInvariant == Spec => []ReadInv
<1>1. Init => ReadInv
  BY DEF Init, ReadInv, OpenIsRead, FailedReadIsLost
<1>2. ServerInv /\ ReadInv /\ [Next]_vars => ReadInv'
  BY NextStays DEF ServerInv
<1> QED
  BY <1>1, <1>2, Inductive, PTL DEF Spec

(* No request is dropped: what a client has sent, and the server has not   *)
(* refused, moves on from the read to a worker or the pool and from there  *)
(* to postPackage(), whoever else reads, executes, subscribes, publishes   *)
(* or leaves.  Only its own connection takes it away.                      *)
THEOREM NoRequestIsDropped == Spec => [][RequestsStay]_vars
<1>1. ServerInv /\ ReadInv /\ [Next]_vars => [RequestsStay]_vars
  BY NextStays DEF ServerInv
<1> QED
  BY <1>1, Inductive, ReadInvariant, PTL DEF Spec

(* No session stands still: an open session has its next read outstanding  *)
(* or queued, and while an answer is not written, a write of the session   *)
(* or the handler that starts one.  So RequestIsAnswered waits, at every   *)
(* moment, for something the io thread, a worker or the pool has to do.    *)
THEOREM SessionsNeverStall == Spec => []NothingStalls
<1>1. ServerInv /\ ReadInv => NothingStalls
  <2>1. ServerInv => AnswerIsWritten
    BY AnswerUnderWay DEF AnswerIsWritten
  <2> QED
    BY <2>1 DEF ReadInv, NothingStalls
<1> QED
  BY <1>1, Inductive, ReadInvariant, PTL
=============================================================================
