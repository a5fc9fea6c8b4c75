-------------------------- MODULE ThreadPoolProofs --------------------------
(***************************************************************************)
(* Theorems about ThreadPool, for any threads, tasks and queue limit: the  *)
(* limit is kept, tasks leave the queue in the order they entered it, and  *)
(* a task is in one place at a time.                                       *)
(***************************************************************************)
EXTENDS ThreadPool, FiniteSetTheorems, SequenceTheorems, TLAPS

(* A caller inside run() has a task to submit, a worker about to execute   *)
(* has one to execute; this is what keeps NoTask out of the sequences.     *)
HasTask ==
    /\ \A c \in Callers : submit[c] # "idle" => arg[c] \in Tasks
    /\ \A w \in Workers : pc[w] = "exec" => holding[w] \in Tasks

PoolInv == TypeOK /\ HasTask /\ FIFO /\ QueueBound

-----------------------------------------------------------------------------
(* Appending to the second part of a concatenation appends to the whole. *)
LEMMA AppendConcat ==
    ASSUME NEW s \in Seq(Tasks), NEW t \in Seq(Tasks), NEW x \in Tasks
    PROVE  Append(s \o t, x) = s \o Append(t, x)
OBVIOUS

(* Moving the head of the second part to the first keeps the whole. *)
LEMMA MoveHead ==
    ASSUME NEW S, NEW s \in Seq(S), NEW t \in Seq(S), t # <<>>
    PROVE  /\ Head(t) \in S /\ Tail(t) \in Seq(S)
           /\ Len(Tail(t)) = Len(t) - 1
           /\ Append(s, Head(t)) \o Tail(t) = s \o t
OBVIOUS

(* The initial pool satisfies the invariant. *)
LEMMA InitPoolInv == Init => PoolInv
<1> SUFFICES ASSUME Init PROVE PoolInv
  OBVIOUS
<1> USE PoolAssumption DEF Init
<1>1. TypeOK
  <2>1. seen \in [Workers -> BOOLEAN]
    BY Zenon
  <2>2. /\ queue_ \in Seq(Tasks) /\ accepted \in Seq(Tasks)
        /\ taken \in Seq(Tasks) /\ done \in Seq(Tasks)
    OBVIOUS
  <2> QED
    BY <2>1, <2>2 DEF TypeOK
<1>2. HasTask
  BY DEF HasTask
<1>3. FIFO
  BY DEF FIFO
<1>4. QueueBound
  BY DEF QueueBound
<1> QED
  BY <1>1, <1>2, <1>3, <1>4 DEF PoolInv

(* A push keeps the order, and the limit because the queue was not full. *)
LEMMA RunPushesInv ==
    ASSUME PoolInv, NEW c \in Callers, RunPushes(c)
    PROVE  PoolInv'
<1> USE PoolAssumption DEF PoolInv, RunPushes
<1>1. arg[c] \in Tasks
  BY DEF HasTask
<1>2. /\ pc' \in [Workers -> {"check", "take", "notEmpty", "exec", "exit"}]
      /\ \A w \in Workers : pc'[w] = "exec" => pc[w] = "exec"
  <2>1. /\ pc' \in [Workers -> {"check", "take", "notEmpty", "exec", "exit"}]
        /\ \A w \in Workers : pc'[w] # pc[w] => pc[w] = "notEmpty" /\ pc'[w] = "take"
    BY DEF NotifyOne, TypeOK
  <2> QED
    BY <2>1
<1>3. TypeOK'
  BY <1>1, <1>2 DEF TypeOK
<1>4. HasTask'
  BY <1>2 DEF TypeOK, HasTask
<1>5. FIFO'
  <2>1. accepted' = Append(taken \o queue_, arg[c])
    BY DEF FIFO
  <2>2. Append(taken \o queue_, arg[c]) = taken \o Append(queue_, arg[c])
    <3>1. taken \in Seq(Tasks) /\ queue_ \in Seq(Tasks)
      BY DEF TypeOK
    <3> HIDE DEF RunPushes, PoolInv
    <3> QED
      BY <3>1, <1>1, AppendConcat, Zenon
  <2> QED
    BY <2>1, <2>2 DEF FIFO
<1>6. QueueBound'
  BY <1>1 DEF QueueBound, TypeOK, isFull
<1> QED
  BY <1>3, <1>4, <1>5, <1>6

(* take() keeps the order and shortens the queue. *)
LEMMA TakeInv ==
    ASSUME PoolInv, NEW w \in Workers, Take(w)
    PROVE  PoolInv'
<1> USE PoolAssumption DEF PoolInv, Take
<1>1. /\ Head(queue_) \in Tasks /\ queue_' \in Seq(Tasks)
      /\ Len(queue_') = Len(queue_) - 1 /\ Len(queue_) \in Nat
      /\ taken' \o queue_' = taken \o queue_
  BY MoveHead, SMTT(60) DEF TypeOK
<1>2. /\ submit' \in [Callers -> {"idle", "run", "notFull"}]
      /\ \A c \in Callers : submit'[c] # "idle" => submit[c] # "idle"
  <2>1. CASE maxQueueSize_ > 0
    <3>1. /\ submit' \in [Callers -> {"idle", "run", "notFull"}]
          /\ \A c \in Callers : submit'[c] # submit[c] =>
                 submit[c] = "notFull" /\ submit'[c] = "run"
      BY <2>1 DEF NotifyOne, TypeOK
    <3> QED
      BY <3>1
  <2>2. CASE ~(maxQueueSize_ > 0)
    BY <2>2 DEF TypeOK
  <2> QED
    BY <2>1, <2>2
<1>3. TypeOK'
  BY <1>1, <1>2 DEF TypeOK
<1>4. HasTask'
  BY <1>1, <1>2 DEF TypeOK, HasTask
<1>5. FIFO' /\ QueueBound'
  BY <1>1 DEF FIFO, QueueBound
<1> QED
  BY <1>3, <1>4, <1>5

(* Every step of the pool preserves the invariant. *)
LEMMA NextPoolInv == PoolInv /\ [Next]_vars => PoolInv'
<1> SUFFICES ASSUME PoolInv, [Next]_vars PROVE PoolInv'
  OBVIOUS
<1> USE PoolAssumption
<1>1. CASE Start
  BY <1>1 DEF Start, PoolInv, TypeOK, HasTask, FIFO, QueueBound
<1>2. CASE Stop
  BY <1>2 DEF Stop, NotifyAll, PoolInv, TypeOK, HasTask, FIFO, QueueBound
<1>3. CASE Join
  BY <1>3 DEF Join, PoolInv, TypeOK, HasTask, FIFO, QueueBound
<1>4. CASE WakesSpuriously
  BY <1>4 DEF WakesSpuriously, PoolInv, TypeOK, HasTask, FIFO, QueueBound
<1>5. CASE \E w \in Workers : WorkerStep(w)
  <2>1. PICK w \in Workers : WorkerStep(w)
    BY <1>5
  <2>2. CASE CheckRunning(w)
    BY <2>2 DEF CheckRunning, PoolInv, TypeOK, HasTask, FIFO, QueueBound
  <2>3. CASE TakeWaits(w)
    BY <2>3 DEF TakeWaits, PoolInv, TypeOK, HasTask, FIFO, QueueBound
  <2>4. CASE TakeNothing(w)
    BY <2>4 DEF TakeNothing, PoolInv, TypeOK, HasTask, FIFO, QueueBound
  <2>5. CASE Take(w)
    BY <2>5, TakeInv
  <2>6. CASE Exec(w)
    BY <2>6 DEF Exec, PoolInv, TypeOK, HasTask, FIFO, QueueBound
  <2> QED
    BY <2>1, <2>2, <2>3, <2>4, <2>5, <2>6 DEF WorkerStep
<1>6. CASE \E c \in Callers : RunStep(c)
  <2>1. PICK c \in Callers : RunStep(c)
    BY <1>6
  <2>2. CASE RunWaits(c)
    BY <2>2 DEF RunWaits, PoolInv, TypeOK, HasTask, FIFO, QueueBound
  <2>3. CASE RunDrops(c)
    BY <2>3 DEF RunDrops, PoolInv, TypeOK, HasTask, FIFO, QueueBound
  <2>4. CASE RunPushes(c)
    BY <2>4, RunPushesInv
  <2> QED
    BY <2>1, <2>2, <2>3, <2>4 DEF RunStep
<1>7. CASE \E c \in Callers, t \in Tasks : Call(c, t)
  <2>1. PICK c \in Callers, t \in Tasks : Call(c, t)
    BY <1>7
  <2> USE <2>1 DEF Call, PoolInv
  <2>2. CASE started /\ Workers # {}
    <3>1. TypeOK'
      BY <2>2 DEF TypeOK
    <3>2. HasTask' /\ FIFO' /\ QueueBound'
      BY <2>2 DEF TypeOK, HasTask, FIFO, QueueBound
    <3> QED
      BY <3>1, <3>2
  <2>3. CASE ~(started /\ Workers # {})
    <3>1. TypeOK'
      <4>1. done' \in Seq(Tasks)
        <5>1. done \in Seq(Tasks) /\ t \in Tasks /\ done' = Append(done, t)
          BY <2>3 DEF TypeOK
        <5> HIDE DEF Call, PoolInv
        <5> QED
          BY <5>1, AppendProperties
      <4>2. made' \subseteq Tasks
        BY DEF TypeOK
      <4> QED
        BY <2>3, <4>1, <4>2 DEF TypeOK
    <3>2. HasTask' /\ FIFO' /\ QueueBound'
      BY <2>3 DEF TypeOK, HasTask, FIFO, QueueBound
    <3> QED
      BY <3>1, <3>2
  <2> QED
    BY <2>2, <2>3
<1>8. CASE UNCHANGED vars
  BY <1>8 DEF vars, PoolInv, TypeOK, HasTask, FIFO, QueueBound
<1> QED
  BY <1>1, <1>2, <1>3, <1>4, <1>5, <1>6, <1>7, <1>8 DEF Next

(* The invariant holds in every reachable state. *)
THEOREM PoolInvariance == Spec => []PoolInv
BY InitPoolInv, NextPoolInv, PTL DEF Spec

(* The variables of the pool keep their types. *)
THEOREM PoolTypeCorrect == Spec => []TypeOK
<1>1. PoolInv => TypeOK
  BY DEF PoolInv
<1> QED
  BY <1>1, PoolInvariance, PTL

(* Tasks leave the queue in the order in which run() accepted them. *)
THEOREM TasksInOrder == Spec => []FIFO
<1>1. PoolInv => FIFO
  BY DEF PoolInv
<1> QED
  BY <1>1, PoolInvariance, PTL

(* The queue never holds more than maxQueueSize_ tasks, if that is set,    *)
(* however many callers wake up for the same place.                        *)
THEOREM LimitIsKept == Spec => []QueueBound
<1>1. PoolInv => QueueBound
  BY DEF PoolInv
<1> QED
  BY <1>1, PoolInvariance, PTL

-----------------------------------------------------------------------------
(***************************************************************************)
(* Where a task is.  OnePlace counts; the invariant below says the same of *)
(* the sets that are counted, and what keeps it true: a task that was not  *)
(* submitted is nowhere, and who is not in run() or executing holds none.  *)
(***************************************************************************)
Where(s, t) == {i \in 1..Len(s) : s[i] = t}
Submitting(t) == {c \in Callers : arg[c] = t}

Single(S) == \A x, y \in S : x = y

Alone(t) ==
    /\ Single(Where(queue_, t)) /\ Single(Held(t)) /\ Single(Where(done, t)) /\ Single(Submitting(t))
    /\ Where(queue_, t) # {} => Held(t) = {} /\ Where(done, t) = {} /\ Submitting(t) = {}
    /\ Held(t) # {} => Where(done, t) = {} /\ Submitting(t) = {}
    /\ Where(done, t) # {} => Submitting(t) = {}

Nowhere(t) == Where(queue_, t) = {} /\ Held(t) = {} /\ Where(done, t) = {} /\ Submitting(t) = {}

NoneLeftBehind ==
    /\ \A c \in Callers : submit[c] = "idle" => arg[c] = NoTask
    /\ \A w \in Workers : pc[w] # "exec" => holding[w] = NoTask

PlaceInv ==
    /\ NoneLeftBehind
    /\ \A t \in Tasks : Alone(t) /\ (t \notin made => Nowhere(t))

(* Where a task is in a sequence that grows at its end. *)
LEMMA WhereAppend ==
    ASSUME NEW s \in Seq(Tasks), NEW x \in Tasks, NEW t
    PROVE  Where(Append(s, x), t) = IF x = t THEN Where(s, t) \cup {Len(s) + 1} ELSE Where(s, t)
<1>1. Len(Append(s, x)) = Len(s) + 1 /\ Append(s, x)[Len(s) + 1] = x /\ Len(s) \in Nat
  OBVIOUS
<1>2. \A i \in 1..Len(s) : Append(s, x)[i] = s[i]
  OBVIOUS
<1>3. \A i : i \in 1..(Len(s) + 1) <=> i \in 1..Len(s) \/ i = Len(s) + 1
  BY <1>1
<1> QED
  BY <1>1, <1>2, <1>3 DEF Where

(* Where a task is in a sequence that loses its head. *)
LEMMA WhereTail ==
    ASSUME NEW s \in Seq(Tasks), s # <<>>, NEW t, Single(Where(s, t))
    PROVE  /\ Single(Where(Tail(s), t))
           /\ Where(s, t) = {} => Where(Tail(s), t) = {}
           /\ Head(s) = t => Where(s, t) # {} /\ Where(Tail(s), t) = {}
<1>1. \A i \in 1..Len(Tail(s)) : i + 1 \in 1..Len(s) /\ Tail(s)[i] = s[i + 1] /\ i \in Nat /\ i # 0
  OBVIOUS
<1>2. \A i \in Where(Tail(s), t) : i + 1 \in Where(s, t) /\ i \in Nat /\ i # 0
  BY <1>1 DEF Where
<1>3. Head(s) = s[1] /\ 1 \in 1..Len(s)
  OBVIOUS
<1>4. Head(s) = t => 1 \in Where(s, t)
  BY <1>3 DEF Where
<1>5. Single(Where(Tail(s), t))
  <2>1. SUFFICES ASSUME NEW i \in Where(Tail(s), t), NEW j \in Where(Tail(s), t) PROVE i = j
    BY DEF Single
  <2>2. i + 1 = j + 1
    BY <1>2 DEF Single
  <2> QED
    BY <1>2, <2>2
<1>6. Head(s) = t => Where(Tail(s), t) = {}
  <2>1. SUFFICES ASSUME Head(s) = t, NEW i \in Where(Tail(s), t) PROVE FALSE
    OBVIOUS
  <2>2. i + 1 = 1
    BY <1>2, <1>4, <2>1 DEF Single
  <2> QED
    BY <1>2, <2>2
<1> QED
  BY <1>2, <1>4, <1>5, <1>6

(* A set without two elements has at most one. *)
LEMMA CardinalitySingle ==
    ASSUME NEW S, Single(S)
    PROVE  Cardinality(S) = IF S = {} THEN 0 ELSE 1
<1>1. CASE S = {}
  BY <1>1, FS_EmptySet
<1>2. CASE S # {}
  <2>1. PICK x : x \in S
    BY <1>2
  <2>2. S = {x}
    BY <2>1 DEF Single
  <2> QED
    BY <1>2, <2>2, FS_Singleton
<1> QED
  BY <1>1, <1>2

(* A task that is alone is counted once. *)
LEMMA AloneIsOnePlace == PlaceInv => OnePlace
<1> SUFFICES ASSUME PlaceInv, NEW t \in Tasks
             PROVE  Count(queue_, t) + Cardinality(Held(t)) + Count(done, t)
                        + Cardinality({c \in Callers : arg[c] = t}) <= 1
  BY DEF OnePlace
<1>1. Alone(t)
  BY DEF PlaceInv
<1>2. /\ Count(queue_, t) = Cardinality(Where(queue_, t))
      /\ Count(done, t) = Cardinality(Where(done, t))
      /\ Cardinality({c \in Callers : arg[c] = t}) = Cardinality(Submitting(t))
  BY DEF Count, Where, Submitting
<1>3. /\ Cardinality(Where(queue_, t)) = IF Where(queue_, t) = {} THEN 0 ELSE 1
      /\ Cardinality(Held(t)) = IF Held(t) = {} THEN 0 ELSE 1
      /\ Cardinality(Where(done, t)) = IF Where(done, t) = {} THEN 0 ELSE 1
      /\ Cardinality(Submitting(t)) = IF Submitting(t) = {} THEN 0 ELSE 1
  BY <1>1, CardinalitySingle DEF Alone
<1> QED
  BY <1>1, <1>2, <1>3 DEF Alone

(* Nothing is submitted at first. *)
LEMMA InitPlaceInv == Init => PlaceInv
<1> SUFFICES ASSUME Init PROVE PlaceInv
  OBVIOUS
<1>1. NoneLeftBehind
  BY DEF Init, NoneLeftBehind
<1>2. ASSUME NEW t \in Tasks PROVE Nowhere(t)
  BY PoolAssumption DEF Init, Nowhere, Where, Held, Submitting
<1> QED
  BY <1>1, <1>2 DEF PlaceInv, Alone, Nowhere, Single

(* A step that moves no task. *)
LEMMA PlacesKept ==
    ASSUME PlaceInv, NoneLeftBehind', UNCHANGED <<queue_, holding, done, arg, made>>
    PROVE  PlaceInv'
<1>1. \A t : Alone(t)' <=> Alone(t)
  BY DEF Alone, Held, Submitting
<1>2. \A t : Nowhere(t)' <=> Nowhere(t)
  BY DEF Nowhere, Held, Submitting
<1> QED
  BY <1>1, <1>2 DEF PlaceInv

(* run() without threads: the caller executes the task; with them, it goes *)
(* on to submit it.                                                        *)
LEMMA CallPlaces ==
    ASSUME PoolInv, PlaceInv, NEW c \in Callers, NEW t \in Tasks, Call(c, t)
    PROVE  PlaceInv'
<1>1. /\ submit[c] = "idle" /\ t \notin made /\ made' = made \cup {t}
      /\ UNCHANGED <<queue_, pc, holding>>
  BY DEF Call
<1>2. Nowhere(t) /\ arg[c] = NoTask
  BY <1>1 DEF PlaceInv, NoneLeftBehind
<1>3. \A u : Where(queue_, u)' = Where(queue_, u) /\ Held(u)' = Held(u)
  BY <1>1 DEF Held
<1>4. CASE started /\ Workers # {}
  <2>1. submit' = [submit EXCEPT ![c] = "run"] /\ arg' = [arg EXCEPT ![c] = t] /\ done' = done
    BY <1>4 DEF Call
  <2>2. NoneLeftBehind'
    BY <1>1, <2>1 DEF PoolInv, TypeOK, PlaceInv, NoneLeftBehind
  <2>3. Submitting(t)' = {c}
    BY <1>2, <2>1 DEF Nowhere, Submitting, PoolInv, TypeOK
  <2>4. \A u \in Tasks : u # t => Submitting(u)' = Submitting(u)
    BY <1>2, <2>1, PoolAssumption DEF Submitting, PoolInv, TypeOK
  <2>5. \A u : Where(done, u)' = Where(done, u)
    BY <2>1
  <2>6. Alone(t)'
    BY <1>2, <1>3, <2>3, <2>5 DEF Alone, Nowhere, Single
  <2>7. \A u \in Tasks : u # t => (Alone(u)' <=> Alone(u)) /\ (Nowhere(u)' <=> Nowhere(u))
    BY <1>3, <2>4, <2>5 DEF Alone, Nowhere
  <2> QED
    BY <1>1, <2>2, <2>6, <2>7 DEF PlaceInv
<1>5. CASE ~(started /\ Workers # {})
  <2>1. done' = Append(done, t) /\ UNCHANGED <<submit, arg>>
    BY <1>5 DEF Call
  <2>2. NoneLeftBehind'
    BY <1>1, <2>1 DEF PlaceInv, NoneLeftBehind
  <2>3. \A u : Submitting(u)' = Submitting(u)
    BY <2>1 DEF Submitting
  <2>4. \A u : Where(done, u)' = IF t = u THEN Where(done, u) \cup {Len(done) + 1} ELSE Where(done, u)
    BY <2>1, WhereAppend DEF PoolInv, TypeOK
  <2>5. Alone(t)'
    BY <1>2, <1>3, <2>3, <2>4 DEF Alone, Nowhere, Single
  <2>6. \A u \in Tasks : u # t => (Alone(u)' <=> Alone(u)) /\ (Nowhere(u)' <=> Nowhere(u))
    BY <1>3, <2>3, <2>4 DEF Alone, Nowhere
  <2> QED
    BY <1>1, <2>2, <2>5, <2>6 DEF PlaceInv
<1> QED
  BY <1>4, <1>5

(* A task that the pool drops is nowhere any more. *)
LEMMA RunDropsPlaces ==
    ASSUME PoolInv, PlaceInv, NEW c \in Callers, RunDrops(c)
    PROVE  PlaceInv'
<1>1. /\ submit' = [submit EXCEPT ![c] = "idle"] /\ arg' = [arg EXCEPT ![c] = NoTask]
      /\ UNCHANGED <<queue_, pc, holding, made, done>>
  BY DEF RunDrops
<1>2. NoneLeftBehind'
  BY <1>1 DEF PoolInv, TypeOK, PlaceInv, NoneLeftBehind
<1>3. \A u : Where(queue_, u)' = Where(queue_, u) /\ Held(u)' = Held(u) /\ Where(done, u)' = Where(done, u)
  BY <1>1 DEF Held
<1>4. \A u \in Tasks : Submitting(u)' \subseteq Submitting(u)
  BY <1>1, PoolAssumption DEF Submitting, PoolInv, TypeOK
<1>5. ASSUME NEW u \in Tasks PROVE Alone(u)' /\ (u \notin made' => Nowhere(u)')
  <2>1. Alone(u) /\ (u \notin made => Nowhere(u)) /\ made' = made
    BY <1>1 DEF PlaceInv
  <2>2. Submitting(u) = {} => Submitting(u)' = {}
    BY <1>4
  <2>3. Single(Submitting(u)) => Single(Submitting(u)')
    BY <1>4 DEF Single
  <2>4. Alone(u)'
    BY <1>3, <2>1, <2>2, <2>3 DEF Alone
  <2> QED
    BY <1>3, <2>1, <2>2, <2>4 DEF Nowhere
<1> QED
  BY <1>2, <1>5 DEF PlaceInv

(* A push moves the task from its caller to the queue. *)
LEMMA RunPushesPlaces ==
    ASSUME PoolInv, PlaceInv, NEW c \in Callers, RunPushes(c)
    PROVE  PlaceInv'
<1>1. /\ submit[c] = "run" /\ queue_' = Append(queue_, arg[c]) /\ NotifyOne(pc, "notEmpty", "take")
      /\ submit' = [submit EXCEPT ![c] = "idle"] /\ arg' = [arg EXCEPT ![c] = NoTask]
      /\ UNCHANGED <<holding, made, done>>
  BY DEF RunPushes
<1>2. PICK t \in Tasks : t = arg[c]
  BY <1>1 DEF PoolInv, HasTask
<1>3. \A w \in Workers : pc'[w] # "exec" => pc[w] # "exec"
  BY <1>1 DEF NotifyOne, PoolInv, TypeOK
<1>4. NoneLeftBehind'
  BY <1>1, <1>3 DEF PoolInv, TypeOK, PlaceInv, NoneLeftBehind
<1>5. \A u : Held(u)' = Held(u) /\ Where(done, u)' = Where(done, u)
  BY <1>1 DEF Held
<1>6. \A u : Where(queue_, u)' = IF t = u THEN Where(queue_, u) \cup {Len(queue_) + 1}
                                ELSE Where(queue_, u)
  BY <1>1, <1>2, WhereAppend DEF PoolInv, TypeOK
<1>7. c \in Submitting(t) /\ Alone(t)
  BY <1>2 DEF Submitting, PlaceInv
<1>8. Where(queue_, t) = {} /\ Held(t) = {} /\ Where(done, t) = {} /\ Submitting(t) = {c}
  BY <1>7 DEF Alone, Single
<1>9. Submitting(t)' = {}
  BY <1>1, <1>8, PoolAssumption DEF Submitting, PoolInv, TypeOK
<1>10. \A u \in Tasks : u # t => Submitting(u)' = Submitting(u)
  BY <1>1, <1>2, PoolAssumption DEF Submitting, PoolInv, TypeOK
<1>11. Alone(t)'
  BY <1>5, <1>6, <1>8, <1>9 DEF Alone, Single
<1>12. t \in made
  BY <1>8 DEF PlaceInv, Nowhere
<1>13. \A u \in Tasks : u # t => (Alone(u)' <=> Alone(u)) /\ (Nowhere(u)' <=> Nowhere(u))
  BY <1>5, <1>6, <1>10 DEF Alone, Nowhere
<1> QED
  BY <1>1, <1>4, <1>11, <1>12, <1>13 DEF PlaceInv

(* take() moves the task from the queue to the worker. *)
LEMMA TakePlaces ==
    ASSUME PoolInv, PlaceInv, NEW w \in Workers, Take(w)
    PROVE  PlaceInv'
<1>1. /\ pc[w] = "take" /\ queue_ # <<>> /\ holding' = [holding EXCEPT ![w] = Head(queue_)]
      /\ queue_' = Tail(queue_) /\ pc' = [pc EXCEPT ![w] = "exec"]
      /\ IF maxQueueSize_ > 0 THEN NotifyOne(submit, "notFull", "run") ELSE UNCHANGED submit
      /\ UNCHANGED <<arg, made, done>>
  BY DEF Take
<1>2. PICK t \in Tasks : t = Head(queue_)
  BY <1>1, MoveHead DEF PoolInv, TypeOK
<1>3. holding[w] = NoTask
  BY <1>1 DEF PlaceInv, NoneLeftBehind
<1>4. NoneLeftBehind'
  <2>1. \A c \in Callers : submit'[c] = "idle" => submit[c] = "idle"
    <3>1. CASE maxQueueSize_ > 0
      BY <1>1, <3>1 DEF NotifyOne, PoolInv, TypeOK
    <3>2. CASE ~(maxQueueSize_ > 0)
      BY <1>1, <3>2
    <3> QED
      BY <3>1, <3>2
  <2> QED
    BY <1>1, <2>1 DEF PoolInv, TypeOK, PlaceInv, NoneLeftBehind
<1>5. \A u : Submitting(u)' = Submitting(u) /\ Where(done, u)' = Where(done, u)
  BY <1>1 DEF Submitting
<1>6. queue_ \in Seq(Tasks) /\ \A u \in Tasks : Single(Where(queue_, u))
  BY DEF PoolInv, TypeOK, PlaceInv, Alone
<1>7. \A u \in Tasks : /\ Single(Where(queue_, u)')
                       /\ Where(queue_, u) = {} => Where(queue_, u)' = {}
  BY <1>1, <1>6, WhereTail
<1>8. Where(queue_, t) # {} /\ Where(queue_, t)' = {}
  BY <1>1, <1>2, <1>6, WhereTail
<1>9. Alone(t) /\ Held(t) = {} /\ Where(done, t) = {} /\ Submitting(t) = {}
  BY <1>8 DEF PlaceInv, Alone
<1>10. Held(t)' = {w}
  BY <1>1, <1>2, <1>9 DEF Held, PoolInv, TypeOK
<1>11. \A u \in Tasks : u # t => Held(u)' = Held(u)
  BY <1>1, <1>2, <1>3, PoolAssumption DEF Held, PoolInv, TypeOK
<1>12. Alone(t)'
  BY <1>5, <1>7, <1>8, <1>9, <1>10 DEF Alone, Single
<1>13. t \in made
  BY <1>8 DEF PlaceInv, Nowhere
<1>14. ASSUME NEW u \in Tasks, u # t PROVE Alone(u)' /\ (u \notin made => Nowhere(u)')
  <2>1. Alone(u) /\ (u \notin made => Nowhere(u))
    BY DEF PlaceInv
  <2>2. Alone(u)'
    BY <1>5, <1>7, <1>11, <1>14, <2>1 DEF Alone
  <2> QED
    BY <1>5, <1>7, <1>11, <1>14, <2>1, <2>2 DEF Nowhere
<1> QED
  BY <1>1, <1>4, <1>12, <1>13, <1>14 DEF PlaceInv

(* threadFunc() executes the task, and has none any more. *)
LEMMA ExecPlaces ==
    ASSUME PoolInv, PlaceInv, NEW w \in Workers, Exec(w)
    PROVE  PlaceInv'
<1>1. /\ pc[w] = "exec" /\ done' = Append(done, holding[w])
      /\ holding' = [holding EXCEPT ![w] = NoTask] /\ pc' = [pc EXCEPT ![w] = "check"]
      /\ UNCHANGED <<queue_, submit, arg, made>>
  BY DEF Exec
<1>2. PICK t \in Tasks : t = holding[w]
  BY <1>1 DEF PoolInv, HasTask
<1>3. NoneLeftBehind'
  BY <1>1 DEF PoolInv, TypeOK, PlaceInv, NoneLeftBehind
<1>4. \A u : Where(queue_, u)' = Where(queue_, u) /\ Submitting(u)' = Submitting(u)
  BY <1>1 DEF Submitting
<1>5. \A u : Where(done, u)' = IF t = u THEN Where(done, u) \cup {Len(done) + 1} ELSE Where(done, u)
  BY <1>1, <1>2, WhereAppend DEF PoolInv, TypeOK
<1>6. w \in Held(t) /\ Alone(t)
  BY <1>2 DEF Held, PlaceInv
<1>7. Where(queue_, t) = {} /\ Held(t) = {w} /\ Where(done, t) = {} /\ Submitting(t) = {}
  BY <1>6 DEF Alone, Single
<1>8. Held(t)' = {}
  BY <1>1, <1>7, PoolAssumption DEF Held, PoolInv, TypeOK
<1>9. \A u \in Tasks : u # t => Held(u)' = Held(u)
  BY <1>1, <1>2, PoolAssumption DEF Held, PoolInv, TypeOK
<1>10. Alone(t)'
  BY <1>4, <1>5, <1>7, <1>8 DEF Alone, Single
<1>11. t \in made
  BY <1>7 DEF PlaceInv, Nowhere
<1>12. \A u \in Tasks : u # t => (Alone(u)' <=> Alone(u)) /\ (Nowhere(u)' <=> Nowhere(u))
  BY <1>4, <1>5, <1>9 DEF Alone, Nowhere
<1> QED
  BY <1>1, <1>3, <1>10, <1>11, <1>12 DEF PlaceInv

(* Every step of the pool keeps a task in one place. *)
LEMMA NextPlaceInv == PoolInv /\ PlaceInv /\ [Next]_vars => PlaceInv'
<1> SUFFICES ASSUME PoolInv, PlaceInv, [Next]_vars PROVE PlaceInv'
  OBVIOUS
<1>1. CASE Start
  BY <1>1, PlacesKept DEF Start, PlaceInv, NoneLeftBehind
<1>2. CASE Stop
  <2>1. NoneLeftBehind'
    BY <1>2 DEF Stop, NotifyAll, PoolInv, TypeOK, PlaceInv, NoneLeftBehind
  <2> QED
    BY <1>2, <2>1, PlacesKept DEF Stop
<1>3. CASE Join
  BY <1>3, PlacesKept DEF Join, PlaceInv, NoneLeftBehind
<1>4. CASE WakesSpuriously
  <2>1. NoneLeftBehind'
    BY <1>4 DEF WakesSpuriously, PoolInv, TypeOK, PlaceInv, NoneLeftBehind
  <2> QED
    BY <1>4, <2>1, PlacesKept DEF WakesSpuriously
<1>5. ASSUME NEW w \in Workers, WorkerStep(w) PROVE PlaceInv'
  <2>1. CASE CheckRunning(w)
    <3>1. NoneLeftBehind'
      BY <2>1 DEF CheckRunning, PoolInv, TypeOK, PlaceInv, NoneLeftBehind
    <3> QED
      BY <2>1, <3>1, PlacesKept DEF CheckRunning
  <2>2. CASE TakeWaits(w)
    <3>1. NoneLeftBehind'
      BY <2>2 DEF TakeWaits, PoolInv, TypeOK, PlaceInv, NoneLeftBehind
    <3> QED
      BY <2>2, <3>1, PlacesKept DEF TakeWaits
  <2>3. CASE TakeNothing(w)
    <3>1. NoneLeftBehind'
      BY <2>3 DEF TakeNothing, PoolInv, TypeOK, PlaceInv, NoneLeftBehind
    <3> QED
      BY <2>3, <3>1, PlacesKept DEF TakeNothing
  <2> QED
    BY <1>5, <2>1, <2>2, <2>3, TakePlaces, ExecPlaces DEF WorkerStep
<1>6. ASSUME NEW c \in Callers, RunStep(c) PROVE PlaceInv'
  <2>1. CASE RunWaits(c)
    <3>1. NoneLeftBehind'
      BY <2>1 DEF RunWaits, PoolInv, TypeOK, PlaceInv, NoneLeftBehind
    <3> QED
      BY <2>1, <3>1, PlacesKept DEF RunWaits
  <2> QED
    BY <1>6, <2>1, RunDropsPlaces, RunPushesPlaces DEF RunStep
<1>7. ASSUME NEW c \in Callers, NEW t \in Tasks, Call(c, t) PROVE PlaceInv'
  BY <1>7, CallPlaces
<1>8. CASE UNCHANGED vars
  BY <1>8, PlacesKept DEF vars, PlaceInv, NoneLeftBehind
<1> QED
  BY <1>1, <1>2, <1>3, <1>4, <1>5, <1>6, <1>7, <1>8 DEF Next

(* A submitted task is in one place only and is executed at most once,     *)
(* whichever threads submit, take, wake up or stop the pool.               *)
THEOREM TaskInOnePlace == Spec => []OnePlace
<1>1. Init => PlaceInv
  BY InitPlaceInv
<1>2. PoolInv /\ PlaceInv /\ [Next]_vars => PlaceInv'
  BY NextPlaceInv
<1>3. PlaceInv => OnePlace
  BY AloneIsOnePlace
<1> QED
  BY <1>1, <1>2, <1>3, PoolInvariance, PTL DEF Spec

-----------------------------------------------------------------------------
(***************************************************************************)
(* The safety half of QueuedIsExecuted, PlaceIsTaken and StopReturns: why  *)
(* no wake-up is ever lost.  notify_one() wakes one thread for each task   *)
(* and each place, wherever the other threads are; so what counts is how   *)
(* many are awake, not which.                                              *)
(***************************************************************************)
(* The threads that are where s says. *)
At(p, s) == {x \in DOMAIN p : p[x] = s}

(* While a worker waits on notEmpty_, every queued task has a worker of    *)
(* its own inside take(); while a caller waits on notFull_, every free     *)
(* place has a caller of its own inside run(); and once stop() has run     *)
(* nobody waits.                                                           *)
NoLostWakeup ==
    /\ At(pc, "notEmpty") # {} => Len(queue_) <= Cardinality(At(pc, "take"))
    /\ At(submit, "notFull") # {} =>
           maxQueueSize_ - Len(queue_) <= Cardinality(At(submit, "run"))
    /\ ~running_ => At(pc, "notEmpty") = {} /\ At(submit, "notFull") = {}

(* The pool never stands still with work to do: while it runs, a queued    *)
(* task means that some worker is awake, and a caller waits for a place    *)
(* only while a task is queued or another caller is about to queue one.    *)
NeverStandsStill ==
    running_ =>
        /\ queue_ # <<>> => \E w \in Workers : pc[w] \in {"check", "take", "exec"}
        /\ At(submit, "notFull") # {} => queue_ # <<>> \/ At(submit, "run") # {}

(* The pool runs from start() to stop() and loses no worker before stop(); *)
(* only a limit makes callers wait; without workers nothing is queued.     *)
LifeInv ==
    /\ running_ <=> started /\ stopping = "no"
    /\ ~started => stopping = "no"
    /\ stopping = "no" => At(pc, "exit") = {}
    /\ At(submit, "notFull") # {} => maxQueueSize_ > 0
    /\ queue_ # <<>> \/ (\E c \in Callers : submit[c] # "idle") => Workers # {}

WakeInv == NoLostWakeup /\ LifeInv

(* The threads in one place are finitely many. *)
LEMMA AtFinite ==
    ASSUME NEW T, IsFiniteSet(T), NEW V, NEW p \in [T -> V], NEW s
    PROVE  IsFiniteSet(At(p, s)) /\ Cardinality(At(p, s)) \in Nat
<1>1. At(p, s) \in SUBSET T
  BY DEF At
<1>2. IsFiniteSet(At(p, s))
  BY <1>1, FS_Subset
<1> QED
  BY <1>2, FS_CardinalityType

(* One thread moves from a to b: one less at a, one more at b, and         *)
(* everywhere else as many as before.                                      *)
Moved(p, q, a, b) ==
    /\ Cardinality(At(q, a)) = Cardinality(At(p, a)) - 1
    /\ Cardinality(At(q, b)) = Cardinality(At(p, b)) + 1
    /\ \A s : s # a /\ s # b => At(q, s) = At(p, s)

(* A thread that goes from one place to another has moved. *)
LEMMA AtMoves ==
    ASSUME NEW T, IsFiniteSet(T), NEW V, NEW p \in [T -> V], NEW x \in T,
           NEW a, a = p[x], NEW b \in V, a # b, NEW q, q = [p EXCEPT ![x] = b]
    PROVE  Moved(p, q, a, b)
<1>1. At(q, a) = At(p, a) \ {x}
  BY DEF At
<1>2. At(q, b) = At(p, b) \cup {x}
  BY DEF At
<1>3. x \in At(p, a) /\ x \notin At(p, b)
  BY DEF At
<1>4. Cardinality(At(p, a) \ {x}) = Cardinality(At(p, a)) - 1
  BY <1>3, AtFinite, FS_RemoveElement
<1>5. Cardinality(At(p, b) \cup {x}) = Cardinality(At(p, b)) + 1
  BY <1>3, AtFinite, FS_AddElement
<1>6. \A s : s # a /\ s # b => At(q, s) = At(p, s)
  BY DEF At
<1> QED
  BY <1>1, <1>2, <1>4, <1>5, <1>6 DEF Moved

(* What notify_one() does to the counts: when somebody still waits after   *)
(* it, one more thread is awake.                                           *)
Woken(p, q, cond, awake) ==
    /\ At(q, cond) # {} => Cardinality(At(q, awake)) = Cardinality(At(p, awake)) + 1
    /\ \A s : s # cond /\ s # awake => At(q, s) = At(p, s)
    /\ At(q, cond) # {} => At(p, cond) # {}

(* notify_one() wakes one thread if one waits. *)
LEMMA NotifyWakesOne ==
    ASSUME NEW T, IsFiniteSet(T), NEW V, NEW p \in [T -> V], NEW q,
           NEW cond, NEW awake \in V, cond # awake,
           \/ At(p, cond) = {} /\ q = p
           \/ \E t \in At(p, cond) : q = [p EXCEPT ![t] = awake]
    PROVE  Woken(p, q, cond, awake)
<1>1. CASE At(p, cond) = {} /\ q = p
  BY <1>1 DEF Woken
<1>2. ASSUME NEW t \in At(p, cond), q = [p EXCEPT ![t] = awake]
      PROVE  Woken(p, q, cond, awake)
  <2>1. t \in T /\ p[t] = cond /\ p[t] # awake
    BY DEF At
  <2>2. Moved(p, q, cond, awake)
    BY <1>2, <2>1, AtMoves
  <2> QED
    BY <2>2 DEF Moved, Woken
<1> QED
  BY <1>1, <1>2

(* Nobody waits, and nobody works, before start(). *)
LEMMA InitWakeInv == Init => WakeInv
BY DEF Init, WakeInv, NoLostWakeup, LifeInv, At

(* What a change of pc alone has to respect. *)
LEMMA WorkerMoves ==
    ASSUME PoolInv, WakeInv, NEW w \in Workers,
           NEW b \in {"check", "take", "notEmpty", "exec", "exit"}, pc[w] # b,
           pc' = [pc EXCEPT ![w] = b],
           UNCHANGED <<queue_, running_, started, submit, stopping>>,
           b = "notEmpty" => queue_ = <<>> /\ running_,
           b = "exit" => ~running_ /\ started,
           pc[w] = "take" => b = "notEmpty" \/ ~running_
    PROVE  WakeInv'
<1> USE PoolAssumption DEF PoolInv
<1> DEFINE V == {"check", "take", "notEmpty", "exec", "exit"}
<1>1. IsFiniteSet(Workers) /\ pc \in [Workers -> V] /\ Len(queue_) \in Nat
  BY DEF TypeOK
<1>2. Moved(pc, pc', pc[w], b)
  <2> HIDE DEF V
  <2>1. b \in V
    BY DEF V
  <2> QED
    BY <1>1, <2>1, AtMoves
<1>3. Cardinality(At(pc, "take")) \in Nat /\ Cardinality(At(pc', "take")) \in Nat
  <2>1. pc' \in [Workers -> V]
    BY <1>1
  <2> HIDE DEF V
  <2> QED
    BY <1>1, <2>1, AtFinite
<1>4. At(pc', "notEmpty") # {} => Len(queue_') <= Cardinality(At(pc', "take"))
  <2> SUFFICES ASSUME At(pc', "notEmpty") # {} PROVE Len(queue_) <= Cardinality(At(pc', "take"))
    OBVIOUS
  <2>1. CASE b = "notEmpty"
    BY <1>3, <2>1
  <2>2. CASE b # "notEmpty"
    <3>1. At(pc, "notEmpty") # {}
      BY <1>1, <2>2 DEF At
    <3>2. Len(queue_) <= Cardinality(At(pc, "take")) /\ running_
      BY <3>1 DEF WakeInv, NoLostWakeup
    <3>3. pc[w] # "take"
      BY <2>2, <3>2
    <3>4. Cardinality(At(pc', "take")) >= Cardinality(At(pc, "take"))
      <4> HIDE DEF PoolInv
      <4>1. CASE b = "take"
        <5>1. Cardinality(At(pc', b)) = Cardinality(At(pc, b)) + 1
          BY <1>2, Zenon DEF Moved
        <5> QED
          BY <1>3, <4>1, <5>1
      <4>2. CASE b # "take"
        <5>1. At(pc', "take") = At(pc, "take")
          BY <1>2, <3>3, <4>2, Zenon DEF Moved
        <5> QED
          BY <1>3, <5>1
      <4> QED
        BY <4>1, <4>2
    <3> QED
      BY <1>1, <1>3, <3>2, <3>4
  <2> QED
    BY <2>1, <2>2
<1>5. ~running_' => At(pc', "notEmpty") = {}
  BY <1>1 DEF At, WakeInv, NoLostWakeup
<1>6. stopping' = "no" => At(pc', "exit") = {}
  BY <1>1 DEF At, WakeInv, LifeInv
<1> QED
  BY <1>4, <1>5, <1>6 DEF WakeInv, NoLostWakeup, LifeInv

(* What a change of submit alone has to respect. *)
LEMMA CallerMoves ==
    ASSUME PoolInv, WakeInv, NEW c \in Callers,
           NEW b \in {"idle", "run", "notFull"}, submit[c] # b,
           submit' = [submit EXCEPT ![c] = b],
           UNCHANGED <<queue_, running_, started, pc, stopping>>,
           b = "notFull" => isFull /\ running_,
           submit[c] = "run" => b = "notFull" \/ ~running_,
           submit[c] = "idle" => Workers # {}
    PROVE  WakeInv'
<1> USE PoolAssumption DEF PoolInv
<1> DEFINE V == {"idle", "run", "notFull"}
<1>1. IsFiniteSet(Callers) /\ submit \in [Callers -> V] /\ Len(queue_) \in Nat
  BY DEF TypeOK
<1>2. Moved(submit, submit', submit[c], b)
  <2> HIDE DEF V
  <2>1. b \in V
    BY DEF V
  <2> QED
    BY <1>1, <2>1, AtMoves
<1>3. Cardinality(At(submit, "run")) \in Nat /\ Cardinality(At(submit', "run")) \in Nat
  <2>1. submit' \in [Callers -> V]
    BY <1>1
  <2> HIDE DEF V
  <2> QED
    BY <1>1, <2>1, AtFinite
<1>4. At(submit', "notFull") # {} =>
          maxQueueSize_ - Len(queue_') <= Cardinality(At(submit', "run"))
  <2> SUFFICES ASSUME At(submit', "notFull") # {}
               PROVE  maxQueueSize_ - Len(queue_) <= Cardinality(At(submit', "run"))
    OBVIOUS
  <2>1. CASE b = "notFull"
    BY <1>1, <1>3, <2>1 DEF isFull
  <2>2. CASE b # "notFull"
    <3>1. At(submit, "notFull") # {}
      BY <1>1, <2>2 DEF At
    <3>2. maxQueueSize_ - Len(queue_) <= Cardinality(At(submit, "run")) /\ running_
      BY <3>1 DEF WakeInv, NoLostWakeup
    <3>3. submit[c] # "run"
      BY <2>2, <3>2
    <3>4. Cardinality(At(submit', "run")) >= Cardinality(At(submit, "run"))
      <4> HIDE DEF PoolInv
      <4>1. CASE b = "run"
        <5>1. Cardinality(At(submit', b)) = Cardinality(At(submit, b)) + 1
          BY <1>2, Zenon DEF Moved
        <5> QED
          BY <1>3, <4>1, <5>1
      <4>2. CASE b # "run"
        <5>1. At(submit', "run") = At(submit, "run")
          BY <1>2, <3>3, <4>2, Zenon DEF Moved
        <5> QED
          BY <1>3, <5>1
      <4> QED
        BY <4>1, <4>2
    <3> QED
      BY <1>1, <1>3, <3>2, <3>4
  <2> QED
    BY <2>1, <2>2
<1>5. ~running_' => At(submit', "notFull") = {}
  BY <1>1 DEF At, WakeInv, NoLostWakeup
<1>6. At(submit', "notFull") # {} => maxQueueSize_ > 0
  BY <1>1 DEF At, WakeInv, LifeInv, isFull
<1>7. queue_' # <<>> \/ (\E d \in Callers : submit'[d] # "idle") => Workers # {}
  BY <1>1 DEF WakeInv, LifeInv
<1> QED
  BY <1>4, <1>5, <1>6, <1>7 DEF WakeInv, NoLostWakeup, LifeInv

(* run() queues one task more and, if a worker waits, wakes one up. *)
LEMMA RunPushesWakes ==
    ASSUME PoolInv, WakeInv, NEW c \in Callers, RunPushes(c)
    PROVE  WakeInv'
<1> DEFINE V == {"check", "take", "notEmpty", "exec", "exit"}
<1> DEFINE U == {"idle", "run", "notFull"}
<1>1. /\ IsFiniteSet(Workers) /\ IsFiniteSet(Callers)
      /\ pc \in [Workers -> V] /\ submit \in [Callers -> U]
      /\ Len(queue_) \in Nat /\ Len(queue_') = Len(queue_) + 1 /\ maxQueueSize_ \in Nat
  BY PoolAssumption DEF PoolInv, TypeOK, HasTask, RunPushes
<1>2. /\ submit' = [submit EXCEPT ![c] = "idle"] /\ submit[c] = "run" /\ running_
      /\ UNCHANGED <<running_, started, stopping>>
  BY DEF RunPushes
<1>3. \/ At(pc, "notEmpty") = {} /\ pc' = pc
      \/ \E t \in At(pc, "notEmpty") : pc' = [pc EXCEPT ![t] = "take"]
  BY DEF RunPushes, NotifyOne, At
<1>4. /\ Cardinality(At(pc, "take")) \in Nat
      /\ Cardinality(At(submit, "run")) \in Nat
  <2> HIDE DEF V, U
  <2> QED
    BY <1>1, AtFinite
<1>5. Woken(pc, pc', "notEmpty", "take")
  <2>1. "take" \in V /\ "take" # "notEmpty"
    OBVIOUS
  <2> HIDE DEF V, U
  <2> QED
    BY <1>1, <1>3, <2>1, NotifyWakesOne
<1>6. Moved(submit, submit', "run", "idle")
  <2>1. "idle" \in U /\ "idle" # "run"
    OBVIOUS
  <2> HIDE DEF V, U
  <2> QED
    BY <1>1, <1>2, <2>1, AtMoves
<1>7. At(pc', "notEmpty") # {} => Len(queue_') <= Cardinality(At(pc', "take"))
  <2> SUFFICES ASSUME At(pc', "notEmpty") # {}
               PROVE  Len(queue_') <= Cardinality(At(pc', "take"))
    OBVIOUS
  <2>1. /\ Cardinality(At(pc', "take")) = Cardinality(At(pc, "take")) + 1
        /\ At(pc, "notEmpty") # {}
    BY <1>5, Zenon DEF Woken
  <2>2. Len(queue_) <= Cardinality(At(pc, "take"))
    BY <2>1 DEF WakeInv, NoLostWakeup
  <2> QED
    BY <1>1, <1>4, <2>1, <2>2
<1>8. At(submit', "notFull") = At(submit, "notFull")
  BY <1>6, Zenon DEF Moved
<1>9. At(submit', "notFull") # {} =>
          maxQueueSize_ - Len(queue_') <= Cardinality(At(submit', "run"))
  <2> SUFFICES ASSUME At(submit', "notFull") # {}
               PROVE  maxQueueSize_ - Len(queue_') <= Cardinality(At(submit', "run"))
    OBVIOUS
  <2>1. Cardinality(At(submit', "run")) = Cardinality(At(submit, "run")) - 1
    BY <1>6, Zenon DEF Moved
  <2>2. maxQueueSize_ - Len(queue_) <= Cardinality(At(submit, "run"))
    BY <1>8 DEF WakeInv, NoLostWakeup
  <2> QED
    BY <1>1, <1>4, <2>1, <2>2
<1>10. At(pc', "exit") = At(pc, "exit")
  BY <1>5, Zenon DEF Woken
<1>11. Workers # {}
  BY <1>2 DEF WakeInv, LifeInv
<1> QED
  BY <1>2, <1>7, <1>8, <1>9, <1>10, <1>11 DEF WakeInv, NoLostWakeup, LifeInv

(* take() frees one place and, if a caller waits, wakes one up. *)
LEMMA TakeWakes ==
    ASSUME PoolInv, WakeInv, NEW w \in Workers, Take(w)
    PROVE  WakeInv'
<1> DEFINE V == {"check", "take", "notEmpty", "exec", "exit"}
<1> DEFINE U == {"idle", "run", "notFull"}
<1>1. /\ IsFiniteSet(Workers) /\ IsFiniteSet(Callers)
      /\ pc \in [Workers -> V] /\ submit \in [Callers -> U]
      /\ queue_ # <<>> /\ Len(queue_) \in Nat /\ Len(queue_') = Len(queue_) - 1
      /\ maxQueueSize_ \in Nat
  BY PoolAssumption, MoveHead, SMTT(60) DEF PoolInv, TypeOK, Take
<1>2. /\ pc' = [pc EXCEPT ![w] = "exec"] /\ pc[w] = "take"
      /\ UNCHANGED <<running_, started, stopping>>
  BY DEF Take
<1>3. /\ maxQueueSize_ > 0 =>
            \/ At(submit, "notFull") = {} /\ submit' = submit
            \/ \E t \in At(submit, "notFull") : submit' = [submit EXCEPT ![t] = "run"]
      /\ ~(maxQueueSize_ > 0) => submit' = submit
  BY DEF Take, NotifyOne, At
<1>4. /\ Cardinality(At(pc, "take")) \in Nat
      /\ Cardinality(At(submit, "run")) \in Nat
  <2> HIDE DEF V, U
  <2> QED
    BY <1>1, AtFinite
<1>5. Woken(submit, submit', "notFull", "run")
  <2>1. "run" \in U /\ "run" # "notFull"
    OBVIOUS
  <2>2. ~(maxQueueSize_ > 0) => At(submit, "notFull") = {}
    BY DEF WakeInv, LifeInv
  <2> HIDE DEF V, U
  <2> QED
    BY <1>1, <1>3, <2>1, <2>2, NotifyWakesOne
<1>6. Moved(pc, pc', "take", "exec")
  <2>1. "exec" \in V /\ "exec" # "take"
    OBVIOUS
  <2> HIDE DEF V, U
  <2> QED
    BY <1>1, <1>2, <2>1, AtMoves
<1>7. At(pc', "notEmpty") = At(pc, "notEmpty") /\ At(pc', "exit") = At(pc, "exit")
  BY <1>6, Zenon DEF Moved
<1>8. At(pc', "notEmpty") # {} => Len(queue_') <= Cardinality(At(pc', "take"))
  <2> SUFFICES ASSUME At(pc', "notEmpty") # {}
               PROVE  Len(queue_') <= Cardinality(At(pc', "take"))
    OBVIOUS
  <2>1. Cardinality(At(pc', "take")) = Cardinality(At(pc, "take")) - 1
    BY <1>6, Zenon DEF Moved
  <2>2. Len(queue_) <= Cardinality(At(pc, "take"))
    BY <1>7 DEF WakeInv, NoLostWakeup
  <2> QED
    BY <1>1, <1>4, <2>1, <2>2
<1>9. At(submit', "notFull") # {} =>
          /\ maxQueueSize_ - Len(queue_') <= Cardinality(At(submit', "run"))
          /\ At(submit, "notFull") # {}
  <2> SUFFICES ASSUME At(submit', "notFull") # {}
               PROVE  /\ maxQueueSize_ - Len(queue_') <= Cardinality(At(submit', "run"))
                      /\ At(submit, "notFull") # {}
    OBVIOUS
  <2>1. /\ Cardinality(At(submit', "run")) = Cardinality(At(submit, "run")) + 1
        /\ At(submit, "notFull") # {}
    BY <1>5, Zenon DEF Woken
  <2>2. maxQueueSize_ - Len(queue_) <= Cardinality(At(submit, "run"))
    BY <2>1 DEF WakeInv, NoLostWakeup
  <2> QED
    BY <1>1, <1>4, <2>1, <2>2
<1>10. Workers # {}
  OBVIOUS
<1> QED
  BY <1>2, <1>7, <1>8, <1>9, <1>10 DEF WakeInv, NoLostWakeup, LifeInv

(* Every step of the pool preserves the counts. *)
LEMMA NextWakeInv == PoolInv /\ WakeInv /\ [Next]_vars => WakeInv'
<1> SUFFICES ASSUME PoolInv, WakeInv, [Next]_vars PROVE WakeInv'
  OBVIOUS
<1>t. /\ pc \in [Workers -> {"check", "take", "notEmpty", "exec", "exit"}]
      /\ submit \in [Callers -> {"idle", "run", "notFull"}]
  BY DEF PoolInv, TypeOK
<1>1. CASE Start
  BY <1>1 DEF Start, WakeInv, NoLostWakeup, LifeInv
<1>2. CASE Stop
  <2>1. /\ At(pc', "notEmpty") = {} /\ At(submit', "notFull") = {}
        /\ \A c \in Callers : submit'[c] # "idle" => submit[c] # "idle"
    BY <1>t, <1>2 DEF Stop, NotifyAll, At
  <2>2. UNCHANGED <<queue_, started>> /\ started /\ ~running_' /\ stopping' = "joining"
    BY <1>2 DEF Stop
  <2> QED
    BY <2>1, <2>2 DEF WakeInv, NoLostWakeup, LifeInv
<1>3. CASE Join
  BY <1>3 DEF Join, WakeInv, NoLostWakeup, LifeInv
<1>4. CASE WakesSpuriously
  <2>1. ASSUME NEW w \in Workers, pc[w] = "notEmpty", pc' = [pc EXCEPT ![w] = "take"],
               UNCHANGED submit
        PROVE  WakeInv'
    BY <1>4, <2>1, WorkerMoves DEF WakesSpuriously
  <2>2. ASSUME NEW c \in Callers, submit[c] = "notFull", submit' = [submit EXCEPT ![c] = "run"],
               UNCHANGED pc
        PROVE  WakeInv'
    BY <1>4, <2>2, CallerMoves DEF WakesSpuriously
  <2> QED
    BY <1>4, <2>1, <2>2 DEF WakesSpuriously
<1>5. ASSUME NEW w \in Workers, WorkerStep(w)
      PROVE  WakeInv'
  <2>1. CASE CheckRunning(w)
    BY <2>1, WorkerMoves DEF CheckRunning
  <2>2. CASE TakeWaits(w)
    BY <2>2, WorkerMoves DEF TakeWaits
  <2>3. CASE TakeNothing(w)
    BY <2>3, WorkerMoves DEF TakeNothing
  <2>4. CASE Take(w)
    BY <2>4, TakeWakes
  <2>5. CASE Exec(w)
    BY <2>5, WorkerMoves DEF Exec
  <2> QED
    BY <1>5, <2>1, <2>2, <2>3, <2>4, <2>5 DEF WorkerStep
<1>6. ASSUME NEW c \in Callers, RunStep(c)
      PROVE  WakeInv'
  <2>1. CASE RunWaits(c)
    BY <2>1, CallerMoves DEF RunWaits
  <2>2. CASE RunDrops(c)
    BY <2>2, CallerMoves DEF RunDrops
  <2>3. CASE RunPushes(c)
    BY <2>3, RunPushesWakes
  <2> QED
    BY <1>6, <2>1, <2>2, <2>3 DEF RunStep
<1>7. ASSUME NEW c \in Callers, NEW t \in Tasks, Call(c, t)
      PROVE  WakeInv'
  <2>1. CASE started /\ Workers # {}
    BY <1>7, <2>1, CallerMoves DEF Call
  <2>2. CASE ~(started /\ Workers # {})
    BY <1>7, <2>2 DEF Call, WakeInv, NoLostWakeup, LifeInv
  <2> QED
    BY <2>1, <2>2
<1>8. CASE UNCHANGED vars
  BY <1>8 DEF vars, WakeInv, NoLostWakeup, LifeInv
<1> QED
  BY <1>1, <1>2, <1>3, <1>4, <1>5, <1>6, <1>7, <1>8 DEF Next

(* No wake-up is lost in any pool: while threads wait, every queued task   *)
(* has a worker inside take() and every free place a caller inside run().  *)
THEOREM WakeupsSuffice == Spec => []NoLostWakeup
<1>1. WakeInv => NoLostWakeup
  BY DEF WakeInv
<1> QED
  BY <1>1, InitWakeInv, NextWakeInv, PoolInvariance, PTL DEF Spec

(* With work to do and a pool that runs, somebody is awake to do it.       *)
LEMMA AwakeForWork == PoolInv /\ WakeInv => NeverStandsStill
<1> SUFFICES ASSUME PoolInv, WakeInv, running_ PROVE NeverStandsStill
  BY DEF NeverStandsStill
<1> DEFINE V == {"check", "take", "notEmpty", "exec", "exit"}
<1> DEFINE U == {"idle", "run", "notFull"}
<1>1. /\ IsFiniteSet(Workers) /\ IsFiniteSet(Callers)
      /\ pc \in [Workers -> V] /\ submit \in [Callers -> U]
      /\ Len(queue_) \in Nat /\ maxQueueSize_ \in Nat
      /\ queue_ # <<>> => Len(queue_) > 0
      /\ queue_ = <<>> => Len(queue_) = 0
  BY PoolAssumption DEF PoolInv, TypeOK
<1>2. queue_ # <<>> => \E w \in Workers : pc[w] \in {"check", "take", "exec"}
  <2> SUFFICES ASSUME queue_ # <<>>, ~ \E w \in Workers : pc[w] \in {"check", "take", "exec"}
               PROVE  FALSE
    OBVIOUS
  <2>1. At(pc, "exit") = {} /\ Workers # {}
    BY DEF WakeInv, LifeInv
  <2>2. At(pc, "notEmpty") # {} /\ At(pc, "take") = {}
    BY <1>1, <2>1 DEF At
  <2>3. Len(queue_) <= Cardinality(At(pc, "take"))
    BY <2>2 DEF WakeInv, NoLostWakeup
  <2>4. Cardinality(At(pc, "take")) = 0
    BY <2>2, FS_EmptySet
  <2> QED
    BY <1>1, <2>3, <2>4
<1>3. At(submit, "notFull") # {} => queue_ # <<>> \/ At(submit, "run") # {}
  <2> SUFFICES ASSUME At(submit, "notFull") # {}, queue_ = <<>>, At(submit, "run") = {}
               PROVE  FALSE
    OBVIOUS
  <2>1. maxQueueSize_ - Len(queue_) <= Cardinality(At(submit, "run")) /\ maxQueueSize_ > 0
    BY DEF WakeInv, NoLostWakeup, LifeInv
  <2>2. Cardinality(At(submit, "run")) = 0
    BY FS_EmptySet
  <2> QED
    BY <1>1, <2>1, <2>2
<1> QED
  BY <1>2, <1>3 DEF NeverStandsStill

(* In every reachable state a queued task, or a caller that waits, finds   *)
(* a thread awake that will get on with it, until stop() runs.             *)
THEOREM PoolNeverStandsStill == Spec => []NeverStandsStill
<1>1. PoolInv /\ WakeInv => NeverStandsStill
  BY AwakeForWork
<1> QED
  BY <1>1, InitWakeInv, NextWakeInv, PoolInvariance, PTL DEF Spec
=============================================================================
