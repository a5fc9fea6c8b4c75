--------------------------- MODULE RequestMessage ---------------------------
(***************************************************************************)
(* The table of outstanding requests of a client (class RequestMessage of  *)
(* AsioClient.h/.cpp).  A Data object is made by every put() and holds the *)
(* Response callback and a deadline_timer.  Three threads meet here:       *)
(*                                                                         *)
(*   - application threads put() requests,                                 *)
(*   - the io thread starts timers when a write completes and runs the     *)
(*     timeout handlers,                                                   *)
(*   - the response thread picks the request a reply belongs to.           *)
(*                                                                         *)
(* mutex_ protects cache_ only.  startTimer() copies the shared_ptr under  *)
(* the lock and calls async_wait after releasing it, so it is two actions. *)
(* pick() erases under the lock; its caller then owns the Data alone, so   *)
(* pick() and the callback that follows it are one action.                 *)
(*                                                                         *)
(* A timer dies with its Data: the waits of a Data no shared_ptr holds are *)
(* aborted and their handlers return without effect.  A wait that has      *)
(* already completed cannot be aborted any more: its handler, bound to the *)
(* message id and not to the Data, is counted in due.                      *)
(***************************************************************************)
EXTENDS Naturals, Sequences, FiniteSets

CONSTANTS Data,      \* the Data objects put() creates, one per request
          Ids,       \* the values of header.msgId
          Rsps,      \* the replies doResponse can hand to a callback
          eTimeout,  \* what the callback reports on a timeout
          NoData,    \* the null DataPtr
          NoId,      \* the id of a Data that was not made yet
          MaxWaits   \* bound on the waits and handlers of one id (TLC only)

ASSUME RMAssumption ==
    /\ NoData \notin Data
    /\ NoId \notin Ids
    /\ eTimeout \notin Rsps
    /\ MaxWaits \in Nat

VARIABLES cache_,    \* msgId -> DataPtr
          idOf,      \* the msgId each Data was put under
          arming,    \* the DataPtr startTimer holds after leaving the lock
          waits,     \* async_waits outstanding on the timer of each Data
          expired,   \* the Data whose deadline has passed
          due,       \* per id, completed waits whose handler is still queued
          calls      \* per Data, the results its callback was called with

rmVars == <<cache_, idOf, arming, waits, expired, due, calls>>

Results == Rsps \cup {eTimeout}

TypeOK ==
    /\ cache_ \in [Ids -> Data \cup {NoData}]
    /\ idOf \in [Data -> Ids \cup {NoId}]
    /\ arming \in Data \cup {NoData}
    /\ waits \in [Data -> Nat]
    /\ expired \in SUBSET Data
    /\ due \in [Ids -> Nat]
    /\ calls \in [Data -> Seq(Results)]

Init ==
    /\ cache_ = [i \in Ids |-> NoData]
    /\ idOf = [d \in Data |-> NoId]
    /\ arming = NoData
    /\ waits = [d \in Data |-> 0]
    /\ expired = {}
    /\ due = [i \in Ids |-> 0]
    /\ calls = [d \in Data |-> <<>>]

(* The Data some shared_ptr holds: the cache's, and startTimer's local one. *)
Held(c, a) == {c[i] : i \in Ids} \cup {a}

(* The waits left when the cache is c and startTimer holds a: destroying a *)
(* Data destroys its timer, which aborts the timer's waits.                *)
WaitsKept(w, c, a) == [d \in Data |-> IF d \in Held(c, a) THEN w[d] ELSE 0]

(***************************************************************************)
(* put(): the entry already under this id, if any, is overwritten.         *)
(***************************************************************************)
Put(d, id) ==
    /\ idOf[d] = NoId
    /\ idOf' = [idOf EXCEPT ![d] = id]
    /\ cache_' = [cache_ EXCEPT ![id] = d]
    /\ waits' = WaitsKept(waits, cache_', arming)
    /\ UNCHANGED <<arming, expired, due, calls>>

(***************************************************************************)
(* startTimer(), under the lock: find the entry and copy its pointer.      *)
(***************************************************************************)
StartTimerFind(id) ==
    /\ arming = NoData
    /\ cache_[id] # NoData
    /\ waits[cache_[id]] + due[id] < MaxWaits
    /\ arming' = cache_[id]
    /\ UNCHANGED <<cache_, idOf, waits, expired, due, calls>>

(***************************************************************************)
(* startTimer(), after the lock: async_wait, then the local pointer goes.  *)
(***************************************************************************)
StartTimerWait ==
    /\ arming # NoData
    /\ arming' = NoData
    /\ waits' = WaitsKept([waits EXCEPT ![arming] = @ + 1], cache_, NoData)
    /\ UNCHANGED <<cache_, idOf, expired, due, calls>>

(***************************************************************************)
(* The deadline passes: every wait on the timer completes and its handler  *)
(* is queued for the io thread.  A later wait on the timer completes too.  *)
(***************************************************************************)
TimerFires(d) ==
    /\ waits[d] > 0
    /\ expired' = expired \cup {d}
    /\ due' = [due EXCEPT ![idOf[d]] = @ + waits[d]]
    /\ waits' = [waits EXCEPT ![d] = 0]
    /\ UNCHANGED <<cache_, idOf, arming, calls>>

(* pick() without the erase. *)
PickNoErase(id, r) ==
    IF cache_[id] = NoData
    THEN UNCHANGED <<cache_, waits, calls>>
    ELSE /\ calls' = [calls EXCEPT ![cache_[id]] = Append(@, r)]
         /\ UNCHANGED <<cache_, waits>>

(* pick() that erases the entry it finds and forgets to return it. *)
PickReturnsNull(id, r) ==
    /\ cache_' = [cache_ EXCEPT ![id] = NoData]
    /\ waits' = WaitsKept(waits, cache_', arming)
    /\ UNCHANGED calls

(***************************************************************************)
(* pick(id) and the callback its caller runs with result r.                *)
(***************************************************************************)
Pick(id, r) ==
    IF cache_[id] = NoData
    THEN UNCHANGED <<cache_, waits, calls>>
    ELSE /\ cache_' = [cache_ EXCEPT ![id] = NoData]
         /\ waits' = WaitsKept(waits, cache_', arming)
         /\ calls' = [calls EXCEPT ![cache_[id]] = Append(@, r)]

(***************************************************************************)
(* A queued timeout handler runs: onTimeout(msgid).                        *)
(***************************************************************************)
OnTimeout(id) ==
    /\ due[id] > 0
    /\ due' = [due EXCEPT ![id] = @ - 1]
    /\ Pick(id, eTimeout)
    /\ UNCHANGED <<idOf, arming, expired>>

(* doResponse() that takes replies to arrive in the order of the requests. *)
OnResponseToAny(id, r) ==
    /\ \E i \in Ids : Pick(i, r)
    /\ UNCHANGED <<idOf, arming, expired, due>>

(***************************************************************************)
(* doResponse() with a REQREP reply r that carries message id id.          *)
(***************************************************************************)
OnResponse(id, r) ==
    /\ Pick(id, r)
    /\ UNCHANGED <<idOf, arming, expired, due>>

Next ==
    \/ \E d \in Data, id \in Ids : Put(d, id)
    \/ \E id \in Ids : StartTimerFind(id)
    \/ StartTimerWait
    \/ \E d \in Data : TimerFires(d)
    \/ \E id \in Ids : OnTimeout(id)
    \/ \E id \in Ids, r \in Rsps : OnResponse(id, r)

(* The io thread finishes the handler it runs, deadlines pass, and the io  *)
(* thread runs every queued handler.                                       *)
Fairness ==
    /\ WF_rmVars(StartTimerWait)
    /\ \A d \in Data : WF_rmVars(TimerFires(d))
    /\ \A id \in Ids : WF_rmVars(OnTimeout(id))

Spec == Init /\ [][Next]_rmVars

FairSpec == Spec /\ Fairness

-----------------------------------------------------------------------------
(***************************************************************************)
(* Properties                                                              *)
(***************************************************************************)

(* No other request was ever put under d's message id. *)
OwnId(d) == \A e \in Data : e # d => idOf[e] # idOf[d]

(* A Response callback runs at most once, whatever the order of replies,   *)
(* duplicate replies, timeouts and late timer handlers: pick() is the only *)
(* way to a callback and it erases the entry it returns.                   *)
AtMostOnce == \A d \in Data : Len(calls[d]) <= 1

(* A request whose id is not reused stays reachable until its callback has *)
(* run: nothing but its own pick() removes it from cache_.                 *)
NotForgotten ==
    \A d \in Data :
        idOf[d] # NoId /\ calls[d] = <<>> /\ OwnId(d) => cache_[idOf[d]] = d

(* Once its timer runs, a request is answered or times out, unless its id  *)
(* is given to another request, whose put() destroys it.                   *)
ArmedIsCalled ==
    \A d \in Data : waits[d] > 0 ~> (calls[d] # <<>> \/ ~OwnId(d))

(* The table implements the contract of postMessage. *)
Contract == INSTANCE RpcContract WITH
    Reqs <- Data,
    Results <- Results,
    registered <- {d \in Data : idOf[d] # NoId},
    reported <- calls

(* Every step of the table is a step the contract allows: a callback runs  *)
(* once, after its put(), and its result never changes.                    *)
ImplementsContract == Contract!Spec
=============================================================================
