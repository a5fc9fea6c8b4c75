----------------------------- MODULE ThreadPool -----------------------------
(***************************************************************************)
(* The thread pool (class ThreadPool) that executes subscribe and          *)
(* heartbeat work in the server and delivered requests in a bus stub.      *)
(*                                                                         *)
(* Callers submit tasks with run(), num_ workers execute them, and one     *)
(* thread calls stop().  What a thread does between taking mutex_ and      *)
(* releasing it, or waiting on a condition variable, is one action; the    *)
(* loops around wait() are entered again after every wake-up, a spurious   *)
(* one too.  threadFunc() reads running_ without the mutex: until it next  *)
(* takes the mutex it may still see the value it saw there last.           *)
(***************************************************************************)
EXTENDS Naturals, Sequences, FiniteSets

CONSTANTS Workers,      \* the threads start() makes, num_ of them
          Callers,      \* the threads that call run()
          Tasks,        \* what they submit
          maxQueueSize_,
          NoTask        \* the empty Task

ASSUME PoolAssumption ==
    /\ maxQueueSize_ \in Nat
    /\ NoTask \notin Tasks
    /\ IsFiniteSet(Workers) /\ IsFiniteSet(Callers)

VARIABLES queue_,
          running_,
          started,    \* whether threads_ has been filled
          pc,         \* where each worker is
          seen,       \* running_ as each worker last saw it under mutex_
          holding,    \* the task each worker executes
          submit,     \* where each caller is in run()
          arg,        \* the task each caller submits
          made,       \* the tasks that were submitted
          stopping,   \* how far stop() has come
          accepted,   \* the tasks that entered queue_, in order
          taken,      \* the tasks that left queue_, in order
          done        \* the tasks that were executed, in order

vars == <<queue_, running_, started, pc, seen, holding, submit, arg, made,
          stopping, accepted, taken, done>>

TypeOK ==
    /\ queue_ \in Seq(Tasks)
    /\ running_ \in BOOLEAN /\ started \in BOOLEAN
    /\ pc \in [Workers -> {"check", "take", "notEmpty", "exec", "exit"}]
    /\ seen \in [Workers -> BOOLEAN]
    /\ holding \in [Workers -> Tasks \cup {NoTask}]
    /\ submit \in [Callers -> {"idle", "run", "notFull"}]
    /\ arg \in [Callers -> Tasks \cup {NoTask}]
    /\ made \subseteq Tasks
    /\ stopping \in {"no", "joining", "joined"}
    /\ accepted \in Seq(Tasks) /\ taken \in Seq(Tasks) /\ done \in Seq(Tasks)

Init ==
    /\ queue_ = <<>>
    /\ running_ = FALSE /\ started = FALSE
    /\ pc = [w \in Workers |-> "check"]
    /\ seen = [w \in Workers |-> TRUE]
    /\ holding = [w \in Workers |-> NoTask]
    /\ submit = [c \in Callers |-> "idle"]
    /\ arg = [c \in Callers |-> NoTask]
    /\ made = {}
    /\ stopping = "no"
    /\ accepted = <<>> /\ taken = <<>> /\ done = <<>>

(* isFull(), with no limit at 0. *)
isFull == maxQueueSize_ > 0 /\ Len(queue_) >= maxQueueSize_

(* notify_one(): one of the threads waiting in state cond, if any, wakes   *)
(* up and enters its loop again.                                           *)
NotifyOne(p, cond, awake) ==
    LET waiting == {t \in DOMAIN p : p[t] = cond}
    IN  \/ waiting = {} /\ p' = p
        \/ \E t \in waiting : p' = [p EXCEPT ![t] = awake]

(* notify_all() *)
NotifyAll(p, cond, awake) ==
    [t \in DOMAIN p |-> IF p[t] = cond THEN awake ELSE p[t]]

(***************************************************************************)
(* start()                                                                 *)
(***************************************************************************)
Start ==
    /\ ~started
    /\ started' = TRUE /\ running_' = TRUE
    /\ UNCHANGED <<queue_, pc, seen, holding, submit, arg, made, stopping,
                   accepted, taken, done>>

(***************************************************************************)
(* run()                                                                   *)
(***************************************************************************)

(* run() is called; without threads the caller executes the task itself. *)
Call(c, t) ==
    /\ submit[c] = "idle" /\ t \notin made
    /\ made' = made \cup {t}
    /\ IF started /\ Workers # {}
       THEN /\ submit' = [submit EXCEPT ![c] = "run"]
            /\ arg' = [arg EXCEPT ![c] = t]
            /\ UNCHANGED done
       ELSE /\ done' = Append(done, t)
            /\ UNCHANGED <<submit, arg>>
    /\ UNCHANGED <<queue_, running_, started, pc, seen, holding, stopping,
                   accepted, taken>>

(* The queue is full: wait on notFull_. *)
RunWaits(c) ==
    /\ submit[c] = "run" /\ isFull /\ running_
    /\ submit' = [submit EXCEPT ![c] = "notFull"]
    /\ UNCHANGED <<queue_, running_, started, pc, seen, holding, arg, made,
                   stopping, accepted, taken, done>>

(* The pool was stopped: the task is dropped. *)
RunDrops(c) ==
    /\ submit[c] = "run" /\ ~running_
    /\ submit' = [submit EXCEPT ![c] = "idle"]
    /\ arg' = [arg EXCEPT ![c] = NoTask]
    /\ UNCHANGED <<queue_, running_, started, pc, seen, holding, made, stopping,
                   accepted, taken, done>>

(* run() that queues the task and notifies nobody. *)
RunPushesSilently(c) ==
    /\ submit[c] = "run" /\ ~isFull /\ running_
    /\ queue_' = Append(queue_, arg[c])
    /\ accepted' = Append(accepted, arg[c])
    /\ submit' = [submit EXCEPT ![c] = "idle"]
    /\ arg' = [arg EXCEPT ![c] = NoTask]
    /\ UNCHANGED <<running_, started, pc, seen, holding, made, stopping, taken, done>>

(* Queue the task and notify a worker. *)
RunPushes(c) ==
    /\ submit[c] = "run" /\ ~isFull /\ running_
    /\ queue_' = Append(queue_, arg[c])
    /\ accepted' = Append(accepted, arg[c])
    /\ NotifyOne(pc, "notEmpty", "take")
    /\ submit' = [submit EXCEPT ![c] = "idle"]
    /\ arg' = [arg EXCEPT ![c] = NoTask]
    /\ UNCHANGED <<running_, started, seen, holding, made, stopping, taken, done>>

(***************************************************************************)
(* threadFunc() and take()                                                 *)
(***************************************************************************)

(* The loop condition of threadFunc(), read without the mutex. *)
CheckRunning(w) ==
    /\ started /\ pc[w] = "check"
    /\ \/ (running_ \/ seen[w]) /\ pc' = [pc EXCEPT ![w] = "take"]
       \/ ~running_ /\ pc' = [pc EXCEPT ![w] = "exit"]
    /\ UNCHANGED <<queue_, running_, started, seen, holding, submit, arg, made,
                   stopping, accepted, taken, done>>

(* take(): nothing to do, wait on notEmpty_. *)
TakeWaits(w) ==
    /\ pc[w] = "take" /\ queue_ = <<>> /\ running_
    /\ pc' = [pc EXCEPT ![w] = "notEmpty"]
    /\ seen' = [seen EXCEPT ![w] = running_]
    /\ UNCHANGED <<queue_, running_, started, holding, submit, arg, made,
                   stopping, accepted, taken, done>>

(* take(): the pool was stopped and nothing is left, return no task. *)
TakeNothing(w) ==
    /\ pc[w] = "take" /\ queue_ = <<>> /\ ~running_
    /\ pc' = [pc EXCEPT ![w] = "check"]
    /\ seen' = [seen EXCEPT ![w] = running_]
    /\ UNCHANGED <<queue_, running_, started, holding, submit, arg, made,
                   stopping, accepted, taken, done>>

(* take() that leaves the task it returns in the queue. *)
TakeCopies(w) ==
    /\ pc[w] = "take" /\ queue_ # <<>>
    /\ holding' = [holding EXCEPT ![w] = Head(queue_)]
    /\ taken' = Append(taken, Head(queue_))
    /\ pc' = [pc EXCEPT ![w] = "exec"]
    /\ seen' = [seen EXCEPT ![w] = running_]
    /\ UNCHANGED <<queue_, running_, started, submit, arg, made, stopping, accepted, done>>

(* take() that notifies no caller that waits for a place. *)
TakeSilently(w) ==
    /\ pc[w] = "take" /\ queue_ # <<>>
    /\ holding' = [holding EXCEPT ![w] = Head(queue_)]
    /\ queue_' = Tail(queue_)
    /\ taken' = Append(taken, Head(queue_))
    /\ pc' = [pc EXCEPT ![w] = "exec"]
    /\ seen' = [seen EXCEPT ![w] = running_]
    /\ UNCHANGED <<running_, started, submit, arg, made, stopping, accepted, done>>

(* take(): return the first task, also when the pool was stopped.  *)
Take(w) ==
    /\ pc[w] = "take" /\ queue_ # <<>>
    /\ holding' = [holding EXCEPT ![w] = Head(queue_)]
    /\ queue_' = Tail(queue_)
    /\ taken' = Append(taken, Head(queue_))
    /\ IF maxQueueSize_ > 0
       THEN NotifyOne(submit, "notFull", "run")
       ELSE UNCHANGED submit
    /\ pc' = [pc EXCEPT ![w] = "exec"]
    /\ seen' = [seen EXCEPT ![w] = running_]
    /\ UNCHANGED <<running_, started, arg, made, stopping, accepted, done>>

(* threadFunc() executes the task. *)
Exec(w) ==
    /\ pc[w] = "exec"
    /\ done' = Append(done, holding[w])
    /\ holding' = [holding EXCEPT ![w] = NoTask]
    /\ pc' = [pc EXCEPT ![w] = "check"]
    /\ UNCHANGED <<queue_, running_, started, seen, submit, arg, made, stopping,
                   accepted, taken>>

(* wait() may return although nobody notified. *)
WakesSpuriously ==
    /\ \/ /\ \E w \in Workers : pc[w] = "notEmpty" /\ pc' = [pc EXCEPT ![w] = "take"]
          /\ UNCHANGED submit
       \/ /\ \E c \in Callers : submit[c] = "notFull" /\ submit' = [submit EXCEPT ![c] = "run"]
          /\ UNCHANGED pc
    /\ UNCHANGED <<queue_, running_, started, seen, holding, arg, made, stopping,
                   accepted, taken, done>>

(***************************************************************************)
(* stop()                                                                  *)
(***************************************************************************)

(* stop() that forgets the threads that wait. *)
StopSilently ==
    /\ started /\ stopping = "no"
    /\ stopping' = "joining" /\ running_' = FALSE
    /\ UNCHANGED <<queue_, started, pc, seen, holding, submit, arg, made, accepted,
                   taken, done>>

(* Under the mutex: running_ = false, and wake up everyone. *)
Stop ==
    /\ started /\ stopping = "no"
    /\ stopping' = "joining" /\ running_' = FALSE
    /\ pc' = NotifyAll(pc, "notEmpty", "take")
    /\ submit' = NotifyAll(submit, "notFull", "run")
    /\ UNCHANGED <<queue_, started, seen, holding, arg, made, accepted, taken, done>>

(* join() has returned for every thread. *)
Join ==
    /\ stopping = "joining" /\ \A w \in Workers : pc[w] = "exit"
    /\ stopping' = "joined"
    /\ UNCHANGED <<queue_, running_, started, pc, seen, holding, submit, arg, made,
                   accepted, taken, done>>

-----------------------------------------------------------------------------
WorkerStep(w) ==
    CheckRunning(w) \/ TakeWaits(w) \/ TakeNothing(w) \/ Take(w) \/ Exec(w)

RunStep(c) == RunWaits(c) \/ RunDrops(c) \/ RunPushes(c)

Next ==
    \/ Start \/ Stop \/ Join \/ WakesSpuriously
    \/ \E w \in Workers : WorkerStep(w)
    \/ \E c \in Callers : RunStep(c) \/ \E t \in Tasks : Call(c, t)

(* Threads that can go on do, and tasks return.  Nobody has to submit a    *)
(* task or stop the pool, and nothing relies on spurious wake-ups.         *)
Fairness ==
    /\ \A w \in Workers : WF_vars(WorkerStep(w))
    /\ \A c \in Callers : WF_vars(RunStep(c))
    /\ WF_vars(Join)

Spec == Init /\ [][Next]_vars

FairSpec == Spec /\ Fairness

-----------------------------------------------------------------------------
(***************************************************************************)
(* Properties                                                              *)
(***************************************************************************)
Count(s, t) == Cardinality({i \in 1..Len(s) : s[i] = t})

(* The tasks a worker holds. *)
Held(t) == {w \in Workers : holding[w] = t}

(* A submitted task is in one place only, and is executed at most once:    *)
(* with its caller, in the queue, with one worker, or executed.            *)
OnePlace ==
    \A t \in Tasks :
        Count(queue_, t) + Cardinality(Held(t)) + Count(done, t)
            + Cardinality({c \in Callers : arg[c] = t}) <= 1

(* Tasks leave the queue in the order they entered it; none is lost or     *)
(* duplicated in between, whoever waits, wakes up or stops the pool.       *)
FIFO == accepted = taken \o queue_

(* A full queue makes callers wait: the limit is never exceeded, though    *)
(* several callers may wake up for one free place.                         *)
QueueBound == maxQueueSize_ > 0 => Len(queue_) <= maxQueueSize_

(* No wake-up is lost: a queued task is executed, unless the pool stops.   *)
QueuedIsExecuted ==
    \A t \in Tasks : (Count(queue_, t) > 0) ~> (Count(done, t) > 0 \/ ~running_)

(* Nor on the other side: a caller does not go on waiting while there is a *)
(* place, or once the pool has stopped.  Who takes the place is not said:  *)
(* a caller that woke up can be overtaken by another one and wait again,   *)
(* as often as others come.                                                *)
PlaceIsTaken ==
    \A c \in Callers : (submit[c] = "notFull" /\ ~(isFull /\ running_))
                         ~> (submit[c] # "notFull" \/ (isFull /\ running_))

(* stop() returns: every worker leaves its loop, waiting or not.           *)
StopReturns == (stopping = "joining") ~> (stopping = "joined")
=============================================================================
