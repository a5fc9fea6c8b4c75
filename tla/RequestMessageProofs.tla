------------------------ MODULE RequestMessageProofs ------------------------
(***************************************************************************)
(* Theorems about RequestMessage, for any sets of Data and Ids: the        *)
(* callback of a request runs at most once, a request is not forgotten,    *)
(* a timeout is the request's own, and the table implements RpcContract.   *)
(***************************************************************************)
EXTENDS RequestMessage, TLAPS

(* The entry of the cache under an id is the pending Data put there. *)
CacheIsPending ==
    \A i \in Ids : cache_[i] # NoData =>
        /\ idOf[cache_[i]] = i
        /\ calls[cache_[i]] = <<>>

(* Timers and callbacks exist only for Data that put() has made. *)
OnlyAfterPut ==
    /\ arming # NoData => idOf[arming] # NoId
    /\ \A d \in Data : waits[d] > 0 => idOf[d] # NoId
    /\ \A d \in Data : idOf[d] = NoId => calls[d] = <<>>

(* A queued timeout handler stems from an expired Data of that id. *)
DueIsExpired ==
    \A i \in Ids : due[i] > 0 => \E e \in expired : idOf[e] = i

(* AtMostOnce says nothing of who may still be called, so it is not        *)
(* inductive: the strengthening is that a Data in the cache has not been   *)
(* called, and lies under its own id only.                                 *)
IInv ==
    /\ TypeOK
    /\ CacheIsPending
    /\ OnlyAfterPut
    /\ DueIsExpired
    /\ AtMostOnce
    /\ NotForgotten

-----------------------------------------------------------------------------
(* Calling a callback that was never called gives a history of length one. *)
LEMMA FirstCall ==
    ASSUME NEW r \in Results
    PROVE  /\ Append(<<>>, r) = <<r>>
           /\ <<r>> \in Seq(Results)
           /\ Len(<<r>>) = 1
           /\ <<r>> # <<>>
           /\ {<<r>>[i] : i \in 1..Len(<<r>>)} = {r}
OBVIOUS

(* The initial table satisfies the inductive invariant. *)
LEMMA InitIInv == Init => IInv
<1> SUFFICES ASSUME Init PROVE IInv
  OBVIOUS
<1> USE RMAssumption DEF Init
<1>1. TypeOK
  BY DEF TypeOK
<1>2. CacheIsPending /\ OnlyAfterPut /\ DueIsExpired
  BY DEF CacheIsPending, OnlyAfterPut, DueIsExpired
<1>3. AtMostOnce /\ NotForgotten
  BY DEF AtMostOnce, NotForgotten
<1> QED
  BY <1>1, <1>2, <1>3 DEF IInv

(* Dropping pointers keeps waits a function to naturals that only shrinks. *)
LEMMA WaitsKeptFacts ==
    ASSUME NEW w \in [Data -> Nat], NEW c, NEW a
    PROVE  /\ WaitsKept(w, c, a) \in [Data -> Nat]
           /\ \A d \in Data : WaitsKept(w, c, a)[d] > 0 =>
                  w[d] > 0 /\ d \in Held(c, a)
BY DEF WaitsKept

(* put() preserves the invariant. *)
LEMMA PutIInv ==
    ASSUME IInv, NEW d \in Data, NEW id \in Ids, Put(d, id)
    PROVE  IInv'
<1> USE RMAssumption DEF IInv, Put
<1>1. waits' \in [Data -> Nat] /\ \A x \in Data : waits'[x] > 0 => waits[x] > 0
  BY WaitsKeptFacts DEF TypeOK
<1>2. TypeOK'
  BY <1>1 DEF TypeOK
<1>3. CacheIsPending'
  BY DEF TypeOK, CacheIsPending, OnlyAfterPut
<1>4. OnlyAfterPut'
  BY <1>1 DEF TypeOK, OnlyAfterPut
<1>5. DueIsExpired'
  BY <1>1 DEF TypeOK, DueIsExpired
<1>6. AtMostOnce'
  BY DEF TypeOK, AtMostOnce
<1>7. NotForgotten'
  BY DEF TypeOK, NotForgotten, OwnId
<1> QED
  BY <1>2, <1>3, <1>4, <1>5, <1>6, <1>7

(* pick() and the callback preserve the invariant, if the rest of the      *)
(* handler only takes away queued timeout handlers.                        *)
LEMMA PickIInv ==
    ASSUME IInv, NEW id \in Ids, NEW r \in Results, Pick(id, r),
           idOf' = idOf, arming' = arming, expired' = expired,
           due' \in [Ids -> Nat],
           \A i \in Ids : due'[i] > 0 => due[i] > 0
    PROVE  IInv'
<1> USE RMAssumption DEF IInv
<1>1. CASE cache_[id] = NoData
  BY <1>1 DEF Pick, TypeOK, CacheIsPending, OnlyAfterPut, DueIsExpired,
              AtMostOnce, NotForgotten, OwnId
<1>2. CASE cache_[id] # NoData
  <2> DEFINE x == cache_[id]
  <2>1. x \in Data /\ idOf[x] = id /\ calls[x] = <<>>
    BY <1>2 DEF TypeOK, CacheIsPending
  <2>2. cache_' = [cache_ EXCEPT ![id] = NoData]
    BY <1>2 DEF Pick
  <2>3. calls' = [calls EXCEPT ![x] = <<r>>]
    BY <1>2, <2>1, FirstCall DEF Pick
  <2>4. waits' \in [Data -> Nat] /\ \A d \in Data : waits'[d] > 0 => waits[d] > 0
    <3>1. waits \in [Data -> Nat] /\ waits' = WaitsKept(waits, cache_', arming)
      BY <1>2 DEF Pick, TypeOK
    <3> QED
      BY <3>1, WaitsKeptFacts
  <2> HIDE DEF x
  <2>5. TypeOK'
    BY <2>1, <2>2, <2>3, <2>4, FirstCall DEF TypeOK
  <2>6. CacheIsPending'
    BY <2>1, <2>2, <2>3 DEF TypeOK, CacheIsPending, x
  <2>7. OnlyAfterPut'
    BY <2>1, <2>2, <2>3, <2>4 DEF TypeOK, OnlyAfterPut
  <2>8. DueIsExpired'
    BY DEF TypeOK, DueIsExpired
  <2>9. AtMostOnce'
    BY <2>1, <2>3, FirstCall DEF TypeOK, AtMostOnce
  <2>10. NotForgotten'
    BY <2>1, <2>2, <2>3, FirstCall DEF TypeOK, NotForgotten, OwnId, x
  <2> QED
    BY <2>5, <2>6, <2>7, <2>8, <2>9, <2>10
<1> QED
  BY <1>1, <1>2

(* Every step of the table preserves the inductive invariant. *)
LEMMA NextIInv == IInv /\ [Next]_rmVars => IInv'
<1> SUFFICES ASSUME IInv, [Next]_rmVars PROVE IInv'
  OBVIOUS
<1> USE RMAssumption
<1>1. CASE \E d \in Data, id \in Ids : Put(d, id)
  BY <1>1, PutIInv
<1>2. CASE \E id \in Ids : StartTimerFind(id)
  BY <1>2 DEF StartTimerFind, IInv, TypeOK, CacheIsPending, OnlyAfterPut,
              DueIsExpired, AtMostOnce, NotForgotten, OwnId
<1>3. CASE StartTimerWait
  <2> USE <1>3 DEF StartTimerWait, IInv
  <2> DEFINE w == [waits EXCEPT ![arming] = @ + 1]
  <2>1. w \in [Data -> Nat]
    BY DEF TypeOK
  <2>2. waits' \in [Data -> Nat] /\ \A d \in Data : waits'[d] > 0 => w[d] > 0
    BY <2>1, WaitsKeptFacts
  <2>3. \A d \in Data : waits'[d] > 0 => idOf[d] # NoId
    BY <2>2 DEF TypeOK, OnlyAfterPut
  <2>4. TypeOK' /\ OnlyAfterPut'
    BY <2>2, <2>3 DEF TypeOK, OnlyAfterPut
  <2>5. CacheIsPending' /\ DueIsExpired'
    BY DEF CacheIsPending, DueIsExpired
  <2>6. AtMostOnce' /\ NotForgotten'
    BY DEF AtMostOnce, NotForgotten, OwnId
  <2> QED
    BY <2>4, <2>5, <2>6
<1>4. CASE \E d \in Data : TimerFires(d)
  <2>1. PICK d \in Data : TimerFires(d)
    BY <1>4
  <2> USE <2>1 DEF TimerFires, IInv
  <2>2. idOf[d] \in Ids
    BY DEF TypeOK, OnlyAfterPut
  <2>3. TypeOK'
    BY <2>2 DEF TypeOK
  <2>4. CacheIsPending' /\ OnlyAfterPut'
    BY DEF TypeOK, CacheIsPending, OnlyAfterPut
  <2>5. DueIsExpired'
    BY <2>2 DEF TypeOK, DueIsExpired
  <2>6. AtMostOnce' /\ NotForgotten'
    BY DEF AtMostOnce, NotForgotten, OwnId
  <2> QED
    BY <2>3, <2>4, <2>5, <2>6
<1>5. CASE \E id \in Ids : OnTimeout(id)
  <2>1. PICK id \in Ids : OnTimeout(id)
    BY <1>5
  <2>2. due' \in [Ids -> Nat] /\ \A i \in Ids : due'[i] > 0 => due[i] > 0
    BY <2>1 DEF OnTimeout, IInv, TypeOK
  <2>3. eTimeout \in Results /\ Pick(id, eTimeout)
    BY <2>1 DEF OnTimeout, Results
  <2> QED
    BY <2>1, <2>2, <2>3, PickIInv DEF OnTimeout
<1>6. CASE \E id \in Ids, r \in Rsps : OnResponse(id, r)
  <2>1. PICK id \in Ids, r \in Rsps : OnResponse(id, r)
    BY <1>6
  <2>2. r \in Results
    BY DEF Results
  <2>3. due' \in [Ids -> Nat] /\ \A i \in Ids : due'[i] > 0 => due[i] > 0
    BY <2>1 DEF OnResponse, IInv, TypeOK
  <2> QED
    BY <2>1, <2>2, <2>3, PickIInv DEF OnResponse
<1>7. CASE UNCHANGED rmVars
  BY <1>7 DEF rmVars, IInv, TypeOK, CacheIsPending, OnlyAfterPut,
              DueIsExpired, AtMostOnce, NotForgotten, OwnId
<1> QED
  BY <1>1, <1>2, <1>3, <1>4, <1>5, <1>6, <1>7 DEF Next

(* The inductive invariant holds in every reachable state. *)
THEOREM Invariance == Spec => []IInv
BY InitIInv, NextIInv, PTL DEF Spec

(* The variables of RequestMessage keep their types. *)
THEOREM TypeCorrect == Spec => []TypeOK
<1>1. IInv => TypeOK
  BY DEF IInv
<1> QED
  BY <1>1, Invariance, PTL

(* The Response callback passed to postMessage runs at most once. *)
THEOREM CallbackAtMostOnce == Spec => []AtMostOnce
<1>1. IInv => AtMostOnce
  BY DEF IInv
<1> QED
  BY <1>1, Invariance, PTL

(* While its id is not reused, a request that was not called back is in    *)
(* the cache, so a reply or its timer can still reach it.                  *)
THEOREM RequestNotForgotten == Spec => []NotForgotten
<1>1. IInv => NotForgotten
  BY DEF IInv
<1> QED
  BY <1>1, Invariance, PTL

-----------------------------------------------------------------------------
(* Running a callback is a step of the contract: the request was           *)
(* registered by put() and has not been reported.                          *)
LEMMA PickIsComplete ==
    ASSUME IInv, NEW id \in Ids, NEW r \in Results, Pick(id, r), idOf' = idOf
    PROVE  [Contract!Next]_<<{d \in Data : idOf[d] # NoId}, calls>>
<1> USE RMAssumption DEF IInv
<1>1. CASE cache_[id] = NoData
  BY <1>1 DEF Pick
<1>2. CASE cache_[id] # NoData
  <2> DEFINE x == cache_[id]
  <2>1. x \in Data /\ idOf[x] # NoId /\ calls[x] = <<>>
    BY <1>2 DEF TypeOK, CacheIsPending
  <2>2. calls' = [calls EXCEPT ![x] = <<r>>]
    BY <1>2, <2>1, FirstCall DEF Pick
  <2>3. Contract!Complete(x, r)
    BY <2>1, <2>2 DEF Contract!Complete
  <2> QED
    BY <2>1, <2>3 DEF Contract!Next
<1> QED
  BY <1>1, <1>2

(* Every step of the table is a step of the contract or leaves it alone. *)
LEMMA StepRefines ==
    IInv /\ [Next]_rmVars
        => [Contract!Next]_<<{d \in Data : idOf[d] # NoId}, calls>>
<1> SUFFICES ASSUME IInv, [Next]_rmVars
             PROVE  [Contract!Next]_<<{d \in Data : idOf[d] # NoId}, calls>>
  OBVIOUS
<1> USE RMAssumption
<1>1. CASE \E d \in Data, id \in Ids : Put(d, id)
  <2>1. PICK d \in Data, id \in Ids : Put(d, id)
    BY <1>1
  <2>2. {e \in Data : idOf[e] # NoId}' = {e \in Data : idOf[e] # NoId} \cup {d}
    BY <2>1 DEF Put, IInv, TypeOK
  <2>3. Contract!Register(d)
    BY <2>1, <2>2 DEF Put, Contract!Register
  <2> QED
    BY <2>3 DEF Contract!Next
<1>2. CASE \E id \in Ids : StartTimerFind(id)
  BY <1>2 DEF StartTimerFind
<1>3. CASE StartTimerWait
  BY <1>3 DEF StartTimerWait
<1>4. CASE \E d \in Data : TimerFires(d)
  BY <1>4 DEF TimerFires
<1>5. CASE \E id \in Ids : OnTimeout(id)
  BY <1>5, PickIsComplete DEF OnTimeout, Results
<1>6. CASE \E id \in Ids, r \in Rsps : OnResponse(id, r)
  BY <1>6, PickIsComplete DEF OnResponse, Results
<1>7. CASE UNCHANGED rmVars
  BY <1>7 DEF rmVars
<1> QED
  BY <1>1, <1>2, <1>3, <1>4, <1>5, <1>6, <1>7 DEF Next

(* The table implements the contract of postMessage: a callback runs once, *)
(* after its put(), and the result it reported is never replaced.          *)
THEOREM TableImplementsContract == Spec => ImplementsContract
<1>1. Init => Contract!Init
  BY RMAssumption DEF Init, Contract!Init
<1> QED
  BY <1>1, Invariance, StepRefines, PTL DEF Spec, ImplementsContract, Contract!Spec

-----------------------------------------------------------------------------
(***************************************************************************)
(* The safety half of ArmedIsCalled: the timer of a request that waits for *)
(* its answer is never disarmed silently, although destroying a Data       *)
(* aborts its waits, and although the handler that runs on a timeout is    *)
(* found by message id only.                                               *)
(***************************************************************************)
(* The timer of d runs, or its deadline has passed and a handler that will *)
(* look under its id is still queued.                                      *)
Timed(d) == waits[d] > 0 \/ (d \in expired /\ due[idOf[d]] > 0)

(* When the deadline of a request has passed and nobody has called it back *)
(* or reused its id, a timeout handler for it is still queued.             *)
ExpiredIsDue ==
    \A d \in expired : calls[d] = <<>> /\ OwnId(d) => due[idOf[d]] > 0

(* A request stays timed until it has been called back, unless put()       *)
(* overwrites it with another request of its id.                           *)
TimedUntilCalled ==
    [][\A d \in Data : Timed(d) => (Timed(d) \/ calls[d] # <<>> \/ ~OwnId(d))']_rmVars

(* What makes ExpiredIsDue inductive: only requests that were put expire. *)
DueInv ==
    /\ ExpiredIsDue
    /\ \A d \in expired : idOf[d] \in Ids

(* Running a callback under id takes the last handler of id from nobody    *)
(* who still needs it: the request of that id is the one called.           *)
LEMMA PickDueInv ==
    ASSUME IInv, DueInv, NEW id \in Ids, NEW r \in Results, Pick(id, r),
           idOf' = idOf, expired' = expired, due' \in [Ids -> Nat],
           \A i \in Ids : i # id => due'[i] = due[i],
           due'[id] = due[id] \/ r = eTimeout
    PROVE  DueInv'
<1>1. \A d \in Data : OwnId(d)' <=> OwnId(d)
  BY DEF OwnId
<1>2. \A d \in Data : calls'[d] = <<>> => calls[d] = <<>>
  BY FirstCall DEF Pick, IInv, TypeOK, CacheIsPending
<1> SUFFICES ASSUME NEW d \in expired, calls'[d] = <<>>, OwnId(d)
             PROVE  due'[idOf[d]] > 0
  <2>1. \A d \in expired : d \in Data
    BY DEF IInv, TypeOK
  <2> QED
    BY <1>1, <2>1 DEF DueInv, ExpiredIsDue
<1>3. d \in Data /\ calls[d] = <<>> /\ idOf[d] \in Ids /\ due[idOf[d]] > 0
  BY <1>2 DEF IInv, TypeOK, DueInv, ExpiredIsDue
<1>4. idOf[d] # id
  <2> SUFFICES ASSUME idOf[d] = id PROVE FALSE
    OBVIOUS
  <2>1. cache_[id] = d /\ d # NoData
    BY <1>3, RMAssumption DEF IInv, NotForgotten
  <2>2. calls'[d] = Append(<<>>, r)
    BY <1>3, <2>1 DEF Pick, IInv, TypeOK
  <2> QED
    BY <2>2, FirstCall
<1> QED
  BY <1>3, <1>4

(* Every step of the table preserves the strengthening. *)
LEMMA NextDueInv == IInv /\ DueInv /\ [Next]_rmVars => DueInv'
<1> SUFFICES ASSUME IInv, DueInv, [Next]_rmVars PROVE DueInv'
  OBVIOUS
<1> USE RMAssumption
<1>1. CASE \E d \in Data, id \in Ids : Put(d, id)
  <2>1. PICK d \in Data, id \in Ids : Put(d, id)
    BY <1>1
  <2>2. \A x \in expired : x \in Data /\ x # d /\ idOf'[x] = idOf[x]
    BY <2>1 DEF Put, DueInv, IInv, TypeOK
  <2>3. \A x \in expired : OwnId(x)' => OwnId(x)
    BY <2>1, <2>2 DEF Put, OwnId, DueInv, IInv, TypeOK
  <2>4. expired' = expired /\ due' = due /\ calls' = calls
    BY <2>1 DEF Put
  <2>5. \A x \in expired : idOf'[x] \in Ids
    BY <2>2 DEF DueInv
  <2>6. ExpiredIsDue'
    BY <2>2, <2>3, <2>4 DEF DueInv, ExpiredIsDue
  <2> QED
    BY <2>4, <2>5, <2>6 DEF DueInv
<1>2. CASE \E id \in Ids : StartTimerFind(id)
  BY <1>2 DEF StartTimerFind, DueInv, ExpiredIsDue, OwnId
<1>3. CASE StartTimerWait
  BY <1>3 DEF StartTimerWait, DueInv, ExpiredIsDue, OwnId
<1>4. CASE \E d \in Data : TimerFires(d)
  <2>1. PICK d \in Data : TimerFires(d)
    BY <1>4
  <2>2. idOf[d] \in Ids /\ waits[d] \in Nat /\ waits[d] > 0 /\ due \in [Ids -> Nat]
    BY <2>1 DEF TimerFires, IInv, TypeOK, OnlyAfterPut
  <2>3. due'[idOf[d]] > 0 /\ \A i \in Ids : due'[i] >= due[i]
    BY <2>1, <2>2 DEF TimerFires
  <2>4. \A x \in Data : OwnId(x)' <=> OwnId(x)
    BY <2>1 DEF TimerFires, OwnId
  <2> QED
    BY <2>1, <2>2, <2>3, <2>4 DEF TimerFires, DueInv, ExpiredIsDue, IInv, TypeOK
<1>5. CASE \E id \in Ids : OnTimeout(id)
  <2>1. PICK id \in Ids : OnTimeout(id)
    BY <1>5
  <2>2. due' \in [Ids -> Nat] /\ \A i \in Ids : i # id => due'[i] = due[i]
    BY <2>1 DEF OnTimeout, IInv, TypeOK
  <2>3. eTimeout \in Results /\ Pick(id, eTimeout)
    BY <2>1 DEF OnTimeout, Results
  <2> QED
    BY <2>1, <2>2, <2>3, PickDueInv DEF OnTimeout
<1>6. CASE \E id \in Ids, r \in Rsps : OnResponse(id, r)
  <2>1. PICK id \in Ids, r \in Rsps : OnResponse(id, r)
    BY <1>6
  <2>2. r \in Results /\ due' = due /\ due \in [Ids -> Nat]
    BY <2>1 DEF OnResponse, Results, IInv, TypeOK
  <2> QED
    BY <2>1, <2>2, PickDueInv DEF OnResponse
<1>7. CASE UNCHANGED rmVars
  BY <1>7 DEF rmVars, DueInv, ExpiredIsDue, OwnId
<1> QED
  BY <1>1, <1>2, <1>3, <1>4, <1>5, <1>6, <1>7 DEF Next

(* A wait that is lost without its deadline passing is lost by a Data that *)
(* has left the cache: it was called back, or overwritten.                 *)
LEMMA TimedStep ==
    ASSUME IInv, IInv', DueInv', [Next]_rmVars
    PROVE  \A d \in Data : Timed(d) => (Timed(d) \/ calls[d] # <<>> \/ ~OwnId(d))'
<1> SUFFICES ASSUME NEW d \in Data, Timed(d), calls'[d] = <<>>, OwnId(d)', d \notin expired'
             PROVE  waits'[d] > 0
  BY DEF Timed, DueInv, ExpiredIsDue
<1>1. d \notin expired /\ idOf'[d] = idOf[d] /\ idOf[d] # NoId
  <2>1. d \notin expired
    BY DEF Next, Put, StartTimerFind, StartTimerWait, TimerFires, OnTimeout,
           OnResponse, rmVars
  <2>2. waits[d] > 0 /\ idOf[d] # NoId
    BY <2>1 DEF Timed, IInv, OnlyAfterPut
  <2>3. idOf'[d] = idOf[d]
    BY <2>2 DEF Next, Put, StartTimerFind, StartTimerWait, TimerFires, OnTimeout,
           OnResponse, rmVars, IInv, TypeOK
  <2> QED
    BY <2>1, <2>2, <2>3
<1>2. waits[d] \in Nat /\ waits[d] > 0 /\ waits \in [Data -> Nat]
  BY <1>1 DEF Timed, IInv, TypeOK
<1>3. \A a : d \in Held(cache_', a)
  <2>1. idOf[d] \in Ids /\ cache_'[idOf[d]] = d
    BY <1>1 DEF IInv, TypeOK, NotForgotten
  <2> QED
    BY <2>1 DEF Held
<1>4. \A w \in [Data -> Nat] : \A a : WaitsKept(w, cache_', a)[d] = w[d]
  BY <1>3 DEF WaitsKept
<1>5. CASE \E e \in Data, id \in Ids : Put(e, id)
  BY <1>2, <1>4, <1>5 DEF Put
<1>6. CASE \E id \in Ids : StartTimerFind(id)
  BY <1>2, <1>6 DEF StartTimerFind
<1>7. CASE StartTimerWait
  <2>1. [waits EXCEPT ![arming] = @ + 1] \in [Data -> Nat]
    <3>1. arming \in Data /\ waits[arming] + 1 \in Nat
      BY <1>7 DEF StartTimerWait, IInv, TypeOK
    <3> QED
      BY <1>2, <3>1
  <2>2. waits'[d] = [waits EXCEPT ![arming] = @ + 1][d]
    BY <1>4, <1>7, <2>1 DEF StartTimerWait
  <2> QED
    BY <1>2, <2>2
<1>8. CASE \E e \in Data : TimerFires(e)
  BY <1>2, <1>8 DEF TimerFires
<1>9. CASE \E id \in Ids, r \in Results : Pick(id, r)
  BY <1>2, <1>4, <1>9 DEF Pick
<1>10. CASE UNCHANGED rmVars
  BY <1>2, <1>10 DEF rmVars
<1> QED
  BY <1>5, <1>6, <1>7, <1>8, <1>9, <1>10 DEF Next, OnTimeout, OnResponse, Results

(* No request expires without a timeout handler on its way to it.          *)
THEOREM DeadlineIsHandled == Spec => []ExpiredIsDue
<1>1. Init => DueInv
  BY DEF Init, DueInv, ExpiredIsDue
<1>2. DueInv => ExpiredIsDue
  BY DEF DueInv
<1> QED
  BY <1>1, <1>2, NextDueInv, Invariance, PTL DEF Spec

(* Once the timer of a request runs, the request stays on the way to its   *)
(* timeout until it is called back or its id is given away: ~Data and late *)
(* handlers of other requests cannot disarm it.                            *)
THEOREM TimerNeverSilent == Spec => TimedUntilCalled
<1>1. Init => DueInv
  BY DEF Init, DueInv, ExpiredIsDue
<1>2. IInv /\ IInv' /\ DueInv' /\ [Next]_rmVars
          => [\A d \in Data : Timed(d) => (Timed(d) \/ calls[d] # <<>> \/ ~OwnId(d))']_rmVars
  BY TimedStep
<1> QED
  BY <1>1, <1>2, NextDueInv, Invariance, PTL DEF Spec, TimedUntilCalled
=============================================================================
