----------------------------- MODULE TasksProofs -----------------------------
(***************************************************************************)
(* Theorems about the executor of module Tasks, for any number of tasks,   *)
(* any assignment of parent ids and any options.                           *)
(*                                                                         *)
(* TypeOK, SlotBound and the refinement of Batch all follow from one       *)
(* inductive invariant IInv.  Its parts say where the workers are relative *)
(* to the loop (Order), that the channel and the WaitGroup count exactly   *)
(* the workers that hold a token and those that have not called wg.Done    *)
(* (Counts), and that the monitor remembers an error if and only if a task *)
(* that failed has reported (Errors).                                      *)
(*                                                                         *)
(* BarsHonest, that the progress bars tell the truth, needs three parts    *)
(* more: the bars are numbered apart and the tasks hold their own          *)
(* (Numbered), what the monitor and the bars have counted is what the      *)
(* tasks that went through returned, none lost and none twice (Tallied),   *)
(* and the main bar keeps the status it was given (MainShown).             *)
(***************************************************************************)
EXTENDS Tasks, FiniteSetTheorems, TLAPS

\* The workers that hold a token of the channel.
Holders ==
  {t \in Task : worker[t] \in {"ready", "running", "finished", "recorded", "counted"}}

\* The workers the WaitGroup waits for.
Waited == {t \in Task : worker[t] \notin {"none", "exited"}}

\* The dispatcher has taken a slot for a worker it has not started yet.
Taken == IF pc = "spawn" THEN 1 ELSE 0

Order ==
  /\ pc = "start" => next = 1 /\ nbars = 0
  /\ pc = "spawn" => next <= N
  /\ \A t \in Task : t < next <=> worker[t] # "none"
  /\ pc \in {"complete", "status", "progress", "done"} =>
       \A t \in Task : worker[t] = "exited"
  /\ pc \in {"complete", "status"} => mainBar # NoBar
  /\ nbars <= next

Counts ==
  /\ workers = Cardinality(Holders) + Taken
  /\ wg = Cardinality(Waited) + Taken
  /\ workers <= Limit

Errors ==
  /\ \A t \in Task : err[t] \in {NoError, SkipTask, t}
  /\ \A t \in Task : worker[t] \in {"none", "ready", "running"} => err[t] = NoError
  /\ merr # NoError => Reported(merr) /\ err[merr] = merr
  /\ \A t \in Task : Reported(t) /\ err[t] = t => merr # NoError
  /\ ret = IF pc = "done" THEN merr ELSE Pending

IInv == TypeOK /\ Order /\ Counts /\ Errors

-----------------------------------------------------------------------------
(* Cardinality facts. *)

LEMMA TaskFinite ==
  IsFiniteSet(Task) /\ Cardinality(Task) = N
BY FS_Interval, NAssumption DEF Task

\* The sets of workers are finite and no larger than the batch.
LEMMA SubsetsFinite ==
  ASSUME NEW S \in SUBSET Task
  PROVE  IsFiniteSet(S) /\ Cardinality(S) \in 0 .. N
<1>1. IsFiniteSet(S) /\ Cardinality(S) <= N
  BY TaskFinite, FS_Subset
<1>2. Cardinality(S) \in Nat
  BY <1>1, FS_CardinalityType
<1>. QED
  BY <1>1, <1>2, NAssumption

\* A set of workers that lacks a task is smaller than the batch.
LEMMA ProperSubset ==
  ASSUME NEW S \in SUBSET Task, NEW t \in Task, t \notin S
  PROVE  /\ Cardinality(S \cup {t}) = Cardinality(S) + 1
         /\ Cardinality(S) + 1 <= N
<1>1. IsFiniteSet(S)
  BY SubsetsFinite
<1>2. Cardinality(S \cup {t}) = Cardinality(S) + 1
  BY <1>1, FS_AddElement
<1>3. Cardinality(S \cup {t}) \in 0 .. N
  BY SubsetsFinite
<1>. QED
  BY <1>2, <1>3

LEMMA LimitPositive == TypeOK => Limit \in Nat \ {0}
BY OptionsAssumption DEF TypeOK, Limit

\* monitor.set keeps the types of what it writes.
LEMMA MonitorSetType ==
  ASSUME TypeOK, NEW b \in Bar, NEW e \in Outcome, MonitorSet(b, e)
  PROVE  result' \in [Bar -> Counter] /\ merr' \in {NoError} \cup Task
<1>1. Counted(result[b], e) \in Counter
  BY DEF TypeOK, Counted, Counter
<1>. QED
  BY <1>1 DEF TypeOK, MonitorSet, Outcome

-----------------------------------------------------------------------------
(* The invariant holds initially. *)

LEMMA InitIInv == Init => IInv
<1>. SUFFICES ASSUME Init PROVE IInv
  OBVIOUS
<1>1. TypeOK
  BY NAssumption, GroupingsAssumption DEF Init, TypeOK, Task, Bar, NoBar, NoError,
     Outcome, Counter, Pending
<1>2. Order
  BY NAssumption DEF Init, Order, Task
<1>3. Holders = {} /\ Waited = {}
  BY DEF Init, Holders, Waited
<1>4. Counts
  BY <1>1, <1>3, FS_EmptySet, LimitPositive DEF Init, Counts, Taken
<1>5. Errors
  BY DEF Init, Errors, NoError, Reported
<1>. QED
  BY <1>1, <1>2, <1>4, <1>5 DEF IInv

-----------------------------------------------------------------------------
(* Every step keeps it. *)

LEMMA NextTypeOK == IInv /\ Next => TypeOK'
<1>. SUFFICES ASSUME IInv, Next PROVE TypeOK'
  OBVIOUS
<1>. USE NAssumption DEF IInv
<1>t. ASSUME NEW t \in Task, Work(t) PROVE TypeOK'
  <2>1. CASE GetSubBar(t)
    BY <2>1 DEF GetSubBar, TypeOK, dispatcher, sync, monitor, bars, input
  <2>2. CASE Finish(t)
    BY <2>2 DEF Finish, TypeOK, Outcome, dispatcher, sync, monitor, bars, input
  <2>3. CASE Record(t)
    <3>1. BarId(t) \in Bar /\ err[t] \in Outcome
      BY DEF TypeOK, BarId, Bar, NoBar
    <3>. QED
      BY <2>3, <3>1, MonitorSetType
         DEF Record, TypeOK, dispatcher, sync, bars, input
  <2>4. CASE IncrSubBar(t)
    <3>1. current' \in [Bar -> Nat]
      BY <2>4 DEF IncrSubBar, IncrBar, TypeOK
    <3>. QED
      BY <2>4, <3>1 DEF IncrSubBar, TypeOK, dispatcher, sync, monitor, input
  <2>5. CASE Release(t)
    <3>1. t \in Holders /\ Holders \in SUBSET Task
      BY <2>5 DEF Release, Holders
    <3>2. Cardinality(Holders) \in Nat /\ Cardinality(Holders) # 0
      BY <3>1, SubsetsFinite, FS_EmptySet
    <3>3. workers' \in Nat
      BY <2>5, <3>2 DEF Release, Counts, Taken
    <3>. QED
      BY <2>5, <3>3 DEF Release, TypeOK, dispatcher, monitor, bars, input
  <2>6. CASE Done(t)
    <3>1. t \in Waited /\ Waited \in SUBSET Task
      BY <2>6 DEF Done, Waited
    <3>2. Cardinality(Waited) \in Nat /\ Cardinality(Waited) # 0
      BY <3>1, SubsetsFinite, FS_EmptySet
    <3>3. wg' \in 0 .. N
      BY <2>6, <3>2 DEF Done, Counts, Taken, TypeOK
    <3>. QED
      BY <2>6, <3>3 DEF Done, TypeOK, dispatcher, monitor, bars, input
  <2>. QED
    BY <1>t, <2>1, <2>2, <2>3, <2>4, <2>5, <2>6 DEF Work
<1>1. CASE Start
  <2>1. mainBar' \in Bar \cup {NoBar} /\ nbars' \in 0 .. N + 1
    BY <1>1 DEF Start, ProgressAdd, TypeOK, Order, Bar, NoBar
  <2>2. current' \in [Bar -> Nat] /\ total' \in [Bar -> Nat]
    BY <1>1 DEF Start, ProgressAdd, TypeOK
  <2>. QED
    BY <1>1, <2>1, <2>2 DEF Start, TypeOK, sync, locals, monitor, input
<1>2. CASE Acquire
  <2>1. Waited \in SUBSET Task /\ next \in Task /\ next \notin Waited
    BY <1>2 DEF Acquire, Waited, Task, TypeOK, Order
  <2>2. Cardinality(Waited) + 1 <= N
    BY ONLY <2>1, ProperSubset
  <2>3. Cardinality(Waited) \in Nat
    BY <2>1, SubsetsFinite
  <2>4. wg' \in 0 .. N /\ workers' \in Nat
    BY <1>2, <2>2, <2>3 DEF Acquire, Counts, Taken, TypeOK
  <2>. QED
    BY <1>2, <2>4 DEF Acquire, TypeOK, locals, monitor, bars, input
<1>3. CASE Spawn
  <2>1. next \in Task /\ next' \in 1 .. N + 1 /\ nbars \in Bar
    BY <1>3 DEF Spawn, Task, TypeOK, Order, Bar
  <2>2. CountPtid(ptid[next]) \in Nat
    BY SubsetsFinite, NAssumption DEF CountPtid
  <2>3. /\ subBar' \in [Ptid -> Bar \cup {NoBar}]
        /\ nbars' \in 0 .. N + 1
        /\ total' \in [Bar -> Nat]
        /\ current' \in [Bar -> Nat]
    <3>1. CASE UNCHANGED <<subBar, nbars, total, current>>
      BY <3>1 DEF TypeOK
    <3>2. CASE /\ subBar' = [subBar EXCEPT ![ptid[next]] = nbars]
               /\ ProgressAdd(CountPtid(ptid[next]))
      BY <3>2, <2>1, <2>2 DEF TypeOK, ProgressAdd, Bar
    <3>. QED
      BY <1>3, <3>1, <3>2 DEF Spawn, AddSubBar
  <2>. QED
    BY <1>3, <2>1, <2>3 DEF Spawn, TypeOK, sync, monitor, input
<1>4. CASE Wait
  BY <1>4 DEF Wait, TypeOK, sync, locals, monitor, bars, input
<1>5. CASE CompleteMainBar
  <2>1. current' \in [Bar -> Nat]
    BY <1>5 DEF CompleteMainBar, IncrBar, TypeOK, Order
  <2>. QED
    BY <1>5, <2>1 DEF CompleteMainBar, TypeOK, sync, locals, monitor, input
<1>6. CASE SetMainBarStatus
  <2>1. mainBar \in Bar /\ MainBarError \in Outcome
    BY <1>6 DEF SetMainBarStatus, TypeOK, Order, MainBarError, Outcome
  <2>. QED
    BY <1>6, <2>1, MonitorSetType
       DEF SetMainBarStatus, TypeOK, sync, locals, bars, input
<1>7. CASE Return
  BY <1>7 DEF Return, TypeOK, sync, locals, monitor, bars, input
<1>8. CASE Terminated
  BY <1>8 DEF Terminated, TypeOK, vars, dispatcher, sync, locals, monitor, bars, input
<1>. QED
  BY <1>t, <1>1, <1>2, <1>3, <1>4, <1>5, <1>6, <1>7, <1>8 DEF Next, Dispatch

LEMMA NextOrder == IInv /\ Next => Order'
<1>. SUFFICES ASSUME IInv, Next PROVE Order'
  OBVIOUS
<1>. USE NAssumption DEF IInv
<1>t. ASSUME NEW t \in Task, Work(t) PROVE Order'
  <2>1. /\ UNCHANGED <<pc, next, ret, nbars, mainBar>>
        /\ worker[t] \notin {"none", "exited"}
        /\ \E w \in {"running", "finished", "recorded", "counted", "released", "exited"} :
             worker' = [worker EXCEPT ![t] = w]
    BY <1>t DEF Work, GetSubBar, Finish, Record, IncrSubBar, Release, Done,
                dispatcher, bars
  <2>. QED
    BY <2>1 DEF Order, TypeOK
<1>1. CASE Start
  BY <1>1 DEF Start, ProgressAdd, Order, TypeOK, locals, Task
<1>2. CASE Acquire
  BY <1>2 DEF Acquire, Order, TypeOK, locals, bars
<1>3. CASE Spawn
  <2>1. next \in Task /\ next' = next + 1 /\ worker' = [worker EXCEPT ![next] = "ready"]
    BY <1>3 DEF Spawn, Task, TypeOK, Order
  <2>2. \A t \in Task : t < next' <=> worker'[t] # "none"
    BY <2>1 DEF Order, TypeOK, Task
  <2>3. nbars' <= next'
    BY <1>3, <2>1 DEF Spawn, AddSubBar, ProgressAdd, Order, TypeOK
  <2>. QED
    BY <1>3, <2>2, <2>3 DEF Spawn, Order
<1>4. CASE Wait
  <2>1. Waited = {}
    <3>1. Waited \in SUBSET Task /\ Cardinality(Waited) = 0
      BY <1>4, SubsetsFinite DEF Wait, Counts, Taken, Waited
    <3>. QED
      BY <3>1, SubsetsFinite, FS_EmptySet
  <2>2. \A t \in Task : t < next
    BY <1>4 DEF Wait, LoopLeft, TypeOK, Task
  <2>3. \A t \in Task : worker[t] = "exited"
    BY <2>1, <2>2 DEF Waited, Order
  <2>. QED
    BY <1>4, <2>3 DEF Wait, Order, TypeOK, locals, bars
<1>5. CASE CompleteMainBar
  BY <1>5 DEF CompleteMainBar, Order, locals
<1>6. CASE SetMainBarStatus
  BY <1>6 DEF SetMainBarStatus, Order, locals, bars
<1>7. CASE Return
  BY <1>7 DEF Return, Order, locals, bars
<1>8. CASE Terminated
  BY <1>8 DEF Terminated, Order, vars, dispatcher, locals, bars
<1>. QED
  BY <1>t, <1>1, <1>2, <1>3, <1>4, <1>5, <1>6, <1>7, <1>8 DEF Next, Dispatch

\* A worker that moves on without giving anything back leaves the sets alone.
LEMMA HoldersUnchanged ==
  ASSUME TypeOK, NEW t \in Task,
         NEW w \in {"running", "finished", "recorded", "counted"},
         worker[t] \in {"ready", "running", "finished", "recorded"},
         worker' = [worker EXCEPT ![t] = w]
  PROVE  Holders' = Holders /\ Waited' = Waited
BY DEF TypeOK, Holders, Waited

LEMMA NextCounts == IInv /\ Next => Counts'
<1>. SUFFICES ASSUME IInv, Next PROVE Counts'
  OBVIOUS
<1>. USE NAssumption DEF IInv
<1>a. Limit \in Nat /\ Limit' = Limit
  BY LimitPositive DEF Limit, Next, Dispatch, Work, Start, Acquire, Spawn, Wait,
     CompleteMainBar, SetMainBarStatus, Return, Terminated, GetSubBar, Finish,
     Record, IncrSubBar, Release, Done, input, vars
<1>b. /\ Holders \in SUBSET Task /\ Waited \in SUBSET Task
      /\ IsFiniteSet(Holders) /\ Cardinality(Holders) \in Nat
      /\ IsFiniteSet(Waited) /\ Cardinality(Waited) \in Nat
  <2>1. Holders \in SUBSET Task /\ Waited \in SUBSET Task
    BY DEF Holders, Waited
  <2>. QED
    BY <2>1, SubsetsFinite
<1>t. ASSUME NEW t \in Task, Work(t) PROVE Counts'
  <2>0. pc' = pc
    BY <1>t DEF Work, GetSubBar, Finish, Record, IncrSubBar, Release, Done, dispatcher
  <2>1. CASE GetSubBar(t) \/ Finish(t) \/ Record(t) \/ IncrSubBar(t)
    <3>1. Holders' = Holders /\ Waited' = Waited
      BY <2>1, HoldersUnchanged DEF GetSubBar, Finish, Record, IncrSubBar
    <3>2. UNCHANGED sync
      BY <2>1 DEF GetSubBar, Finish, Record, IncrSubBar
    <3>. QED
      BY <1>a, <2>0, <3>1, <3>2 DEF Counts, Taken, sync
  <2>2. CASE Release(t)
    <3>1. t \in Holders /\ Holders' = Holders \ {t} /\ Waited' = Waited
      BY <2>2 DEF Release, Holders, Waited, TypeOK
    <3>2. Cardinality(Holders') = Cardinality(Holders) - 1
      BY <1>b, <3>1, FS_RemoveElement
    <3>. QED
      BY <1>a, <1>b, <2>0, <2>2, <3>1, <3>2 DEF Release, Counts, Taken, TypeOK
  <2>3. CASE Done(t)
    <3>1. t \in Waited /\ Waited' = Waited \ {t} /\ Holders' = Holders
      BY <2>3 DEF Done, Holders, Waited, TypeOK
    <3>2. Cardinality(Waited') = Cardinality(Waited) - 1
      BY <1>b, <3>1, FS_RemoveElement
    <3>. QED
      BY <1>a, <1>b, <2>0, <2>3, <3>1, <3>2 DEF Done, Counts, Taken, TypeOK
  <2>. QED
    BY <1>t, <2>1, <2>2, <2>3 DEF Work
<1>c. ASSUME UNCHANGED worker PROVE Holders' = Holders /\ Waited' = Waited
  BY <1>c DEF Holders, Waited
<1>1. CASE Start
  BY <1>1, <1>a, <1>c DEF Start, Counts, Taken, sync, locals
<1>2. CASE Acquire
  BY <1>2, <1>a, <1>b, <1>c DEF Acquire, SlotFree, Counts, Taken, TypeOK, locals
<1>3. CASE Spawn
  <2>1. /\ next \in Task /\ worker[next] = "none"
        /\ worker' = [worker EXCEPT ![next] = "ready"]
    BY <1>3 DEF Spawn, Task, TypeOK, Order
  <2>2. /\ next \notin Holders /\ Holders' = Holders \cup {next}
        /\ next \notin Waited /\ Waited' = Waited \cup {next}
    BY <2>1 DEF Holders, Waited, TypeOK
  <2>3. Cardinality(Holders') = Cardinality(Holders) + 1
    BY <1>b, <2>2, FS_AddElement
  <2>4. Cardinality(Waited') = Cardinality(Waited) + 1
    BY <1>b, <2>2, FS_AddElement
  <2>. QED
    BY <1>3, <1>a, <1>b, <2>3, <2>4 DEF Spawn, Counts, Taken, sync
<1>4. CASE Wait \/ CompleteMainBar \/ SetMainBarStatus \/ Return
  <2>1. UNCHANGED <<worker, workers, wg>> /\ Taken' = Taken
    BY <1>4 DEF Wait, CompleteMainBar, SetMainBarStatus, Return, locals, sync, Taken
  <2>. QED
    BY <1>a, <1>c, <2>1 DEF Counts
<1>5. CASE Terminated
  BY <1>5, <1>a, <1>c DEF Terminated, Counts, Taken, vars, dispatcher, sync, locals
<1>. QED
  BY <1>t, <1>1, <1>2, <1>3, <1>4, <1>5 DEF Next, Dispatch

LEMMA NextErrors == IInv /\ Next => Errors'
<1>. SUFFICES ASSUME IInv, Next PROVE Errors'
  OBVIOUS
<1>. USE NAssumption DEF IInv, Pending, NoError, SkipTask
<1>t. ASSUME NEW t \in Task, Work(t) PROVE Errors'
  <2>0. pc' = pc /\ ret' = ret
    BY <1>t DEF Work, GetSubBar, Finish, Record, IncrSubBar, Release, Done, dispatcher
  <2>1. CASE GetSubBar(t)
    BY <2>0, <2>1 DEF GetSubBar, Errors, Reported, TypeOK, monitor
  <2>2. CASE Finish(t)
    BY <2>0, <2>2 DEF Finish, Errors, Reported, TypeOK, monitor
  <2>3. CASE Record(t)
    <3>1. merr' = IF err[t] \in {NoError, SkipTask} THEN merr ELSE err[t]
      BY <2>3 DEF Record, MonitorSet
    <3>2. err' = err /\ worker' = [worker EXCEPT ![t] = "recorded"]
      BY <2>3 DEF Record
    <3>3. worker[t] = "finished" /\ ~ Reported(t) /\ pc \notin {"done"}
      BY <2>3 DEF Record, Reported, Order
    <3>. QED
      BY <2>0, <3>1, <3>2, <3>3 DEF Errors, Reported, TypeOK, Task
  <2>4. CASE IncrSubBar(t)
    BY <2>0, <2>4 DEF IncrSubBar, Errors, Reported, TypeOK, monitor
  <2>5. CASE Release(t)
    BY <2>0, <2>5 DEF Release, Errors, Reported, TypeOK, monitor
  <2>6. CASE Done(t)
    BY <2>0, <2>6 DEF Done, Errors, Reported, TypeOK, monitor
  <2>. QED
    BY <1>t, <2>1, <2>2, <2>3, <2>4, <2>5, <2>6 DEF Work
<1>1. CASE Start
  <2>1. N = 0 => merr = NoError
    BY DEF TypeOK, Task
  <2>. QED
    BY <1>1, <2>1 DEF Start, Errors, Reported, locals, monitor
<1>2. CASE Acquire
  BY <1>2 DEF Acquire, Errors, Reported, locals, monitor
<1>3. CASE Spawn
  <2>1. next \in Task /\ worker[next] = "none"
    BY <1>3 DEF Spawn, Task, TypeOK, Order
  <2>2. worker' = [worker EXCEPT ![next] = "ready"] /\ UNCHANGED <<err, merr, ret>>
    BY <1>3 DEF Spawn, monitor
  <2>. QED
    BY <1>3, <2>1, <2>2 DEF Spawn, Errors, Reported, TypeOK
<1>4. CASE Wait
  BY <1>4 DEF Wait, Errors, Reported, locals, monitor
<1>5. CASE CompleteMainBar
  BY <1>5 DEF CompleteMainBar, Errors, Reported, locals, monitor
<1>6. CASE SetMainBarStatus
  <2>1. merr' = merr
    BY <1>6 DEF SetMainBarStatus, MonitorSet, MainBarError
  <2>. QED
    BY <1>6, <2>1 DEF SetMainBarStatus, Errors, Reported, locals
<1>7. CASE Return
  BY <1>7 DEF Return, Errors, Reported, locals, monitor
<1>8. CASE Terminated
  BY <1>8 DEF Terminated, Errors, Reported, vars, dispatcher, locals, monitor
<1>. QED
  BY <1>t, <1>1, <1>2, <1>3, <1>4, <1>5, <1>6, <1>7, <1>8 DEF Next, Dispatch

-----------------------------------------------------------------------------

\* A step that changes nothing keeps the invariant.
LEMMA StutterIInv == IInv /\ UNCHANGED vars => IInv'
<1>. SUFFICES ASSUME IInv, UNCHANGED vars PROVE IInv'
  OBVIOUS
<1>. USE DEF vars, dispatcher, sync, locals, monitor, bars, input
<1>1. TypeOK'
  BY DEF IInv, TypeOK
<1>2. Order'
  BY DEF IInv, Order
<1>3. Holders' = Holders /\ Waited' = Waited /\ Limit' = Limit /\ Taken' = Taken
  BY DEF Holders, Waited, Limit, Taken
<1>4. Counts'
  BY <1>3 DEF IInv, Counts
<1>5. Errors'
  BY DEF IInv, Errors, Reported
<1>. QED
  BY <1>1, <1>2, <1>4, <1>5 DEF IInv

LEMMA Invariance == Spec => []IInv
<1>1. IInv /\ [Next]_vars => IInv'
  BY NextTypeOK, NextOrder, NextCounts, NextErrors, StutterIInv DEF IInv
<1>. QED
  BY InitIInv, <1>1, PTL DEF Spec

\* The variables of the executor always have their types: the WaitGroup never
\* goes below zero, and every bar has a number the batch can have.
THEOREM TypeCorrect == Spec => []TypeOK
<1>1. IInv => TypeOK
  BY DEF IInv
<1>. QED
  BY Invariance, <1>1, PTL

\* Never more tasks run than the caller's concurrency: the tasks that run hold
\* a token each, and the channel has room for Limit tokens.
THEOREM SlotsBounded == Spec => []SlotBound
<1>1. IInv => SlotBound
  <2>. SUFFICES ASSUME IInv PROVE SlotBound
    OBVIOUS
  <2>. DEFINE R == {t \in Task : Running(t)}
  <2>1. Holders \in SUBSET Task /\ R \in SUBSET Holders
    BY DEF Holders, Running
  <2>2. IsFiniteSet(Holders) /\ Cardinality(Holders) \in Nat
    BY <2>1, SubsetsFinite
  <2>3. Cardinality(R) <= Cardinality(Holders)
    BY <2>1, <2>2, FS_Subset
  <2>4. Cardinality(R) \in Nat
    BY <2>1, SubsetsFinite
  <2>5. Limit \in Nat
    BY LimitPositive DEF IInv
  <2>6. Cardinality(Holders) <= Limit
    BY <2>2, <2>5 DEF IInv, Counts, Taken, TypeOK
  <2>. QED
    BY <2>2, <2>3, <2>4, <2>5, <2>6 DEF SlotBound
<1>. QED
  BY Invariance, <1>1, PTL

-----------------------------------------------------------------------------
(* The executor implements the abstract batch. *)

LEMMA InitImplements == Init => B!BatchInit
<1>. SUFFICES ASSUME Init PROVE B!BatchInit
  OBVIOUS
<1>1. TypeOK
  BY InitIInv DEF IInv
<1>. QED
  BY <1>1, LimitPositive
     DEF Init, B!BatchInit, B!Task, Task, B!NoError, NoError, B!Pending, Pending, Phase

\* Steps that move no worker across the start or the end of its task, and do
\* not end Execute, are invisible to the batch.
LEMMA Invisible ==
  ASSUME TypeOK, UNCHANGED <<options, ret, err>>,
         \A t \in Task : (worker[t] \in {"none", "ready"}) <=> (worker'[t] \in {"none", "ready"}),
         \A t \in Task : Running(t) <=> Running(t)'
  PROVE  UNCHANGED B!bvars
BY DEF B!bvars, Limit, Running, Phase

LEMMA StepImplements == IInv /\ Next => [B!BatchNext]_(B!bvars)
<1>. SUFFICES ASSUME IInv, Next PROVE B!BatchNext \/ UNCHANGED B!bvars
  OBVIOUS
<1>. USE DEF IInv
<1>t. ASSUME NEW t \in Task, Work(t) PROVE B!BatchNext \/ UNCHANGED B!bvars
  <2>0. UNCHANGED <<options, ret>>
    BY <1>t DEF Work, GetSubBar, Finish, Record, IncrSubBar, Release, Done,
                dispatcher, input
  <2>1. CASE GetSubBar(t)
    <3>1. worker[t] = "ready" /\ worker' = [worker EXCEPT ![t] = "running"] /\ err' = err
      BY <2>1 DEF GetSubBar
    <3>. DEFINE R == {s \in Task : Running(s)}
    <3>2. /\ R \in SUBSET Holders /\ t \in Holders \ R
          /\ Holders \in SUBSET Task /\ R \in SUBSET Task /\ R \cup {t} \in SUBSET Holders
      BY <3>1 DEF Holders, Running
    <3>3. IsFiniteSet(R) /\ IsFiniteSet(Holders) /\ Cardinality(R) \in Nat
          /\ Cardinality(Holders) \in Nat
      BY <3>2, SubsetsFinite
    <3>4. Cardinality(R \cup {t}) = Cardinality(R) + 1
      BY <3>2, <3>3, FS_AddElement
    <3>5. Cardinality(R \cup {t}) <= Cardinality(Holders)
      BY <3>2, <3>3, FS_Subset
    <3>6. Limit \in Nat /\ Cardinality(Holders) <= Limit
      BY <3>3, LimitPositive DEF Counts, Taken, TypeOK
    <3>7. Cardinality(R) < Limit
      BY <3>3, <3>4, <3>5, <3>6
    <3>8. B!Busy = R
      BY DEF B!Busy, B!Task, Task, Running, Phase
    <3>9. Phase[t] = "todo" /\ Phase' = [Phase EXCEPT ![t] = "busy"]
      BY <3>1 DEF Phase, Running, TypeOK
    <3>10. Limit' = Limit
      BY <2>0 DEF Limit
    <3>11. B!Cardinality(R) = Cardinality(R)
      BY DEF B!Cardinality, Cardinality
    <3>12. B!Begin(t)
      BY <2>0, <3>1, <3>7, <3>8, <3>9, <3>10, <3>11 DEF B!Begin
    <3>. QED
      BY <3>12 DEF B!BatchNext, B!Task, Task
  <2>2. CASE Finish(t)
    <3>1. /\ worker[t] = "running" /\ worker' = [worker EXCEPT ![t] = "finished"]
          /\ \E o \in {NoError, SkipTask, t} : err' = [err EXCEPT ![t] = o]
      BY <2>2 DEF Finish
    <3>2. Phase[t] = "busy" /\ Phase' = [Phase EXCEPT ![t] = "done"]
      BY <3>1 DEF Phase, Running, TypeOK
    <3>3. Limit' = Limit
      BY <2>0 DEF Limit
    <3>4. B!End(t)
      BY <2>0, <3>1, <3>2, <3>3 DEF B!End, B!NoError, B!SkipTask, NoError, SkipTask
    <3>. QED
      BY <3>4 DEF B!BatchNext, B!Task, Task
  <2>3. CASE Record(t) \/ IncrSubBar(t) \/ Release(t) \/ Done(t)
    <3>1. /\ err' = err /\ worker[t] \in {"finished", "recorded", "counted", "released"}
          /\ \E w \in {"recorded", "counted", "released", "exited"} :
               worker' = [worker EXCEPT ![t] = w]
      BY <2>3 DEF Record, IncrSubBar, Release, Done
    <3>. QED
      BY <2>0, <3>1, Invisible DEF TypeOK, Running
  <2>. QED
    BY <1>t, <2>1, <2>2, <2>3 DEF Work
<1>1. CASE Start /\ N # 0
  BY <1>1, Invisible DEF Start, locals, input, Running
<1>2. CASE Start /\ N = 0
  <2>1. Task = {} /\ ret' = NoError /\ ret = Pending /\ UNCHANGED <<options, worker, err>>
    BY <1>2 DEF Start, Errors, Task, locals, input
  <2>2. B!Conclude
    BY <2>1 DEF B!Conclude, B!Failed, B!Task, Task, B!Pending, Pending, B!NoError, NoError, Limit, Phase
  <2>. QED
    BY <2>2 DEF B!BatchNext
<1>3. CASE Acquire \/ Wait \/ CompleteMainBar \/ SetMainBarStatus
  BY <1>3, Invisible DEF Acquire, Wait, CompleteMainBar, SetMainBarStatus,
     locals, input, Running
<1>4. CASE Spawn
  <2>1. /\ next \in Task /\ worker[next] = "none" /\ UNCHANGED <<options, ret, err>>
        /\ worker' = [worker EXCEPT ![next] = "ready"]
    BY <1>4 DEF Spawn, Task, TypeOK, Order, input
  <2>. QED
    BY <2>1, Invisible DEF TypeOK, Running
<1>5. CASE Return
  <2>1. /\ ret = Pending /\ ret' = merr /\ UNCHANGED <<options, worker, err>>
        /\ \A t \in Task : worker[t] = "exited"
    BY <1>5 DEF Return, Order, Errors, locals, input
  <2>2. CASE merr = NoError
    <3>1. B!Failed = {}
      BY <2>1, <2>2 DEF B!Failed, B!Task, Task, Errors, Reported, NoError, SkipTask
    <3>. QED
      BY <2>1, <2>2, <3>1 DEF B!BatchNext, B!Conclude, B!Pending, Pending, B!NoError,
         NoError, Limit, B!Task, Task, Phase, Running
  <2>3. CASE merr # NoError
    <3>1. merr \in B!Failed
      BY <2>3 DEF B!Failed, B!Task, Task, Errors, TypeOK
    <3>. QED
      BY <2>1, <3>1 DEF B!BatchNext, B!Conclude, B!Pending, Pending, Limit, B!Task, Task, Phase, Running
  <2>. QED
    BY <2>2, <2>3
<1>6. CASE Terminated
  BY <1>6, Invisible DEF Terminated, vars, dispatcher, locals, input, Running
<1>. QED
  BY <1>t, <1>1, <1>2, <1>3, <1>4, <1>5, <1>6 DEF Next, Dispatch

\* Execute runs every task exactly once, within the limit, and returns the
\* error of a task that failed if there is one, else nil, after all of them.
THEOREM ExecutorImplementsBatch == Spec => ImplementsBatch
<1>1. IInv /\ [Next]_vars => [B!BatchNext]_(B!bvars)
  <2>1. ASSUME UNCHANGED vars PROVE UNCHANGED B!bvars
    BY <2>1 DEF vars, dispatcher, locals, input, B!bvars, Limit, Phase, Running
  <2>. QED
    BY StepImplements, <2>1
<1>. QED
  BY InitImplements, Invariance, <1>1, PTL DEF Spec, ImplementsBatch, B!BatchSpec

-----------------------------------------------------------------------------
(* The progress bars. *)

\* The bars are numbered in the order they are added, the main bar first; a sub
\* bar belongs to one parent id, and a task that runs holds that of its own.
Numbered ==
  /\ mainBar # NoBar => mainBar = 0 /\ 1 <= nbars
  /\ \A p \in Ptid : subBar[p] # NoBar =>
       /\ subBar[p] < nbars /\ subBar[p] # mainBar
       /\ ~ options.SilentSubBar
       /\ total[subBar[p]] = CountPtid(p)
  /\ \A p, q \in Ptid : subBar[p] # NoBar /\ subBar[p] = subBar[q] => p = q
  /\ \A t \in Task : worker[t] # "none" /\ ~ options.SilentSubBar => subBar[ptid[t]] # NoBar
  /\ \A t \in Task : worker[t] \notin {"none", "ready"} => bar[t] = subBar[ptid[t]]

\* The tasks whose result the monitor has under a bar.
OnBar(b) == {t \in Task : Reported(t) /\ BarId(t) = b}

\* The tasks that a bar has counted.
CountedOn(b) == {t \in Task : worker[t] \in {"counted", "released", "exited"} /\ bar[t] = b}

\* The tasks of a set that succeeded, were skipped and failed.
Succeeded(ts) == {t \in ts : err[t] = NoError}
Skipped(ts)   == {t \in ts : err[t] = SkipTask}
FailedOf(ts)  == {t \in ts : err[t] \in Task}

\* The counters that the results of a set of tasks make.
Tally(ts) == [nsucc |-> Cardinality(Succeeded(ts)),
              nskip |-> Cardinality(Skipped(ts)),
              nerr  |-> Cardinality(FailedOf(ts))]

\* No result is lost or counted twice, until the main bar gets its own.
Tallied ==
  /\ \A b \in Bar : b # mainBar => current[b] = Cardinality(CountedOn(b))
  /\ \A b \in Bar : b # mainBar \/ pc \notin {"progress", "done"} => result[b] = Tally(OnBar(b))

\* The main bar has been given its status.
MainShown ==
  pc \in {"progress", "done"} /\ mainBar # NoBar => MonitorGet(mainBar) = StatusOfTasks(Task)

\* The inductive invariant.
BarsIInv == IInv /\ Numbered /\ Tallied /\ MainShown

-----------------------------------------------------------------------------
(* Facts about tallies. *)

\* A tally is three natural numbers, each zero when its set is empty.
LEMMA TallyType ==
  ASSUME NEW ts \in SUBSET Task
  PROVE  /\ Cardinality(Succeeded(ts)) \in Nat /\ Cardinality(Skipped(ts)) \in Nat
         /\ Cardinality(FailedOf(ts)) \in Nat
         /\ Cardinality(Succeeded(ts)) = 0 <=> Succeeded(ts) = {}
         /\ Cardinality(FailedOf(ts)) = 0 <=> FailedOf(ts) = {}
<1>1. Succeeded(ts) \in SUBSET Task /\ Skipped(ts) \in SUBSET Task /\ FailedOf(ts) \in SUBSET Task
  BY DEF Succeeded, Skipped, FailedOf
<1>2. IsFiniteSet(Succeeded(ts)) /\ IsFiniteSet(Skipped(ts)) /\ IsFiniteSet(FailedOf(ts))
  BY <1>1, SubsetsFinite
<1>. QED
  BY <1>2, FS_CardinalityType, FS_EmptySet

\* monitor.get shows what the results of the tasks under a bar imply.
LEMMA TallyStatus ==
  ASSUME NEW ts \in SUBSET Task, \A t \in ts : err[t] \in Outcome
  PROVE  StatusOf(Tally(ts)) = StatusOfTasks(ts)
<1>1. (\E t \in ts : err[t] \in Task) <=> Cardinality(FailedOf(ts)) # 0
  BY TallyType DEF FailedOf
<1>2. ASSUME Cardinality(FailedOf(ts)) = 0
      PROVE  (\A t \in ts : err[t] = SkipTask) <=> Cardinality(Succeeded(ts)) = 0
  BY <1>1, <1>2, TallyType DEF Succeeded, Outcome, NoError, SkipTask
<1>3. ASSUME NEW i \in Nat, NEW j \in Nat PROVE j = i + j + 0 <=> i = 0
  OBVIOUS
<1>. QED
  BY <1>1, <1>2, <1>3, TallyType DEF StatusOf, Tally, StatusOfTasks

\* monitor.set counts one more task.
LEMMA TallyAdd ==
  ASSUME NEW ts \in SUBSET Task, NEW t \in Task \ ts, err[t] \in Outcome
  PROVE  Tally(ts \cup {t}) = Counted(Tally(ts), err[t])
<1>1. /\ IsFiniteSet(Succeeded(ts)) /\ IsFiniteSet(Skipped(ts)) /\ IsFiniteSet(FailedOf(ts))
      /\ t \notin Succeeded(ts) /\ t \notin Skipped(ts) /\ t \notin FailedOf(ts)
  BY SubsetsFinite DEF Succeeded, Skipped, FailedOf
<1>2. /\ Cardinality(Succeeded(ts) \cup {t}) = Cardinality(Succeeded(ts)) + 1
      /\ Cardinality(Skipped(ts) \cup {t}) = Cardinality(Skipped(ts)) + 1
      /\ Cardinality(FailedOf(ts) \cup {t}) = Cardinality(FailedOf(ts)) + 1
  BY <1>1, FS_AddElement
<1>3. CASE err[t] = NoError
  <2>1. /\ Succeeded(ts \cup {t}) = Succeeded(ts) \cup {t}
        /\ Skipped(ts \cup {t}) = Skipped(ts) /\ FailedOf(ts \cup {t}) = FailedOf(ts)
    BY <1>3 DEF Succeeded, Skipped, FailedOf, NoError, SkipTask, Task
  <2>. QED
    BY <1>2, <1>3, <2>1 DEF Tally, Counted, NoError, SkipTask
<1>4. CASE err[t] = SkipTask
  <2>1. /\ Skipped(ts \cup {t}) = Skipped(ts) \cup {t}
        /\ Succeeded(ts \cup {t}) = Succeeded(ts) /\ FailedOf(ts \cup {t}) = FailedOf(ts)
    BY <1>4 DEF Succeeded, Skipped, FailedOf, NoError, SkipTask, Task
  <2>. QED
    BY <1>2, <1>4, <2>1 DEF Tally, Counted, NoError, SkipTask
<1>5. CASE err[t] \in Task
  <2>1. /\ FailedOf(ts \cup {t}) = FailedOf(ts) \cup {t}
        /\ Succeeded(ts \cup {t}) = Succeeded(ts) /\ Skipped(ts \cup {t}) = Skipped(ts)
        /\ err[t] # NoError /\ err[t] # SkipTask
    BY <1>5, NAssumption DEF Succeeded, Skipped, FailedOf, NoError, SkipTask, Task
  <2>. QED
    BY <1>2, <2>1 DEF Tally, Counted
<1>. QED
  BY <1>3, <1>4, <1>5 DEF Outcome

\* Results of tasks under no change of theirs make the same tally.
LEMMA TallySame ==
  ASSUME NEW ts \in SUBSET Task, \A t \in ts : err'[t] = err[t]
  PROVE  Tally(ts)' = Tally(ts)
<1>1. /\ {t \in ts : err'[t] = NoError} = {t \in ts : err[t] = NoError}
      /\ {t \in ts : err'[t] = SkipTask} = {t \in ts : err[t] = SkipTask}
      /\ {t \in ts : err'[t] \in Task} = {t \in ts : err[t] \in Task}
  OBVIOUS
<1>. QED
  BY <1>1 DEF Tally, Succeeded, Skipped, FailedOf

\* Nothing is counted or shown before Execute starts.
LEMMA InitBars == Init => BarsIInv
<1>. SUFFICES ASSUME Init PROVE BarsIInv
  OBVIOUS
<1>1. IInv /\ Numbered /\ MainShown
  BY InitIInv DEF Init, Numbered, MainShown
<1>2. \A b \in Bar : OnBar(b) = {} /\ CountedOn(b) = {}
  BY DEF Init, OnBar, CountedOn, Reported
<1>3. Tally({}) = [nsucc |-> 0, nskip |-> 0, nerr |-> 0]
  BY FS_EmptySet DEF Tally, Succeeded, Skipped, FailedOf
<1>4. Tallied
  BY <1>2, <1>3, FS_EmptySet DEF Init, Tallied
<1>. QED
  BY <1>1, <1>4 DEF BarsIInv

-----------------------------------------------------------------------------
(* Every step keeps the invariant. *)

\* The numbers of the bars stay distinct, and the tasks hold their own.
LEMMA NextNumbered == BarsIInv /\ Next => Numbered'
<1>. SUFFICES ASSUME BarsIInv, Next PROVE Numbered'
  OBVIOUS
<1>. USE NAssumption DEF BarsIInv, IInv
<1>t. ASSUME NEW t \in Task, Work(t) PROVE Numbered'
  <2>1. UNCHANGED <<mainBar, subBar, nbars, total, options, ptid>>
    BY <1>t DEF Work, GetSubBar, Finish, Record, IncrSubBar, Release, Done, bars, input
  <2>2. /\ \A u \in Task : worker'[u] # "none" <=> worker[u] # "none"
        /\ \A u \in Task : worker'[u] \notin {"none", "ready"} => bar'[u] = subBar[ptid[u]]
    <3>1. CASE GetSubBar(t)
      BY <3>1 DEF GetSubBar, TypeOK, Numbered
    <3>2. CASE ~ GetSubBar(t)
      <4>1. /\ bar' = bar /\ worker[t] \notin {"none", "ready"}
            /\ \E w \in {"finished", "recorded", "counted", "released", "exited"} :
                 worker' = [worker EXCEPT ![t] = w]
        BY <1>t, <3>2 DEF Work, Finish, Record, IncrSubBar, Release, Done
      <4>. QED
        BY <4>1 DEF TypeOK, Numbered
    <3>. QED
      BY <3>1, <3>2
  <2>. QED
    BY <2>1, <2>2 DEF Numbered, CountPtid
<1>1. CASE Start
  <2>1. nbars = 0 /\ mainBar = NoBar /\ \A p \in Ptid : subBar[p] = NoBar
    BY <1>1 DEF Start, Order, TypeOK, Numbered, Bar, NoBar
  <2>2. mainBar' # NoBar => mainBar' = 0 /\ 1 <= nbars'
    BY <1>1, <2>1 DEF Start, ProgressAdd
  <2>. QED
    BY <1>1, <2>1, <2>2 DEF Start, Numbered, locals, input
<1>2. CASE Spawn
  <2>. DEFINE p == ptid[next]
  <2>1. /\ next \in Task /\ worker[next] = "none" /\ p \in Ptid /\ nbars \in Bar
        /\ worker' = [worker EXCEPT ![next] = "ready"]
        /\ UNCHANGED <<bar, mainBar, options, ptid>>
    BY <1>2 DEF Spawn, Task, TypeOK, Order, Bar, input
  <2>2. \A q \in Ptid : CountPtid(q)' = CountPtid(q)
    BY <2>1 DEF CountPtid
  <2>3. \A t \in Task : t # next => worker'[t] = worker[t]
    BY <2>1 DEF TypeOK
  <2>4. \A t \in Task : worker'[t] \notin {"none", "ready"} => t # next /\ bar[t] = subBar[ptid[t]]
    BY <2>1, <2>3 DEF TypeOK, Numbered
  <2>5. CASE UNCHANGED <<subBar, nbars, total, current>>
    <3>1. ~ options.SilentSubBar => subBar[p] # NoBar
      BY <1>2, <2>1, <2>5 DEF Spawn, AddSubBar, ProgressAdd, TypeOK
    <3>. QED
      BY <2>1, <2>2, <2>3, <2>4, <2>5, <3>1 DEF Numbered
  <2>6. CASE /\ subBar[p] = NoBar /\ ~ options.SilentSubBar
             /\ subBar' = [subBar EXCEPT ![p] = nbars]
             /\ nbars' = nbars + 1 /\ total' = [total EXCEPT ![nbars] = CountPtid(p)]
    <3>1. \A q \in Ptid : subBar[q] # NoBar => subBar[q] < nbars /\ subBar[q] \in Bar
      BY DEF Numbered, TypeOK
    <3>2. subBar'[p] = nbars /\ total'[nbars] = CountPtid(p) /\ nbars # NoBar
      BY <2>1, <2>6 DEF TypeOK, Bar, NoBar
    <3>3. \A q \in Ptid \ {p} : /\ subBar'[q] = subBar[q]
                                /\ subBar[q] # NoBar => total'[subBar[q]] = total[subBar[q]]
      BY <2>6, <3>1 DEF TypeOK, Bar
    <3>4. mainBar # nbars /\ nbars < nbars + 1
      BY DEF Numbered, TypeOK, NoBar
    <3>5. \A q \in Ptid : subBar'[q] # NoBar =>
            /\ subBar'[q] < nbars' /\ subBar'[q] # mainBar' /\ ~ options'.SilentSubBar
            /\ total'[subBar'[q]] = CountPtid(q)
      BY <2>1, <2>6, <3>1, <3>2, <3>3, <3>4 DEF Numbered, TypeOK, Bar
    <3>6. ASSUME NEW q \in Ptid, NEW r \in Ptid, subBar'[q] # NoBar, subBar'[q] = subBar'[r]
          PROVE  q = r
      <4>1. \A o \in Ptid \ {p} : subBar'[o] = subBar[o] /\ (subBar[o] # NoBar => subBar[o] # nbars)
        BY <3>1, <3>3 DEF TypeOK, Bar
      <4>2. CASE q # p /\ r # p
        BY <3>6, <4>1, <4>2 DEF Numbered
      <4>3. CASE q = p \/ r = p
        BY <3>2, <3>6, <4>1, <4>3
      <4>. QED
        BY <4>2, <4>3
    <3>7. \A t \in Task : worker'[t] # "none" /\ ~ options'.SilentSubBar =>
                            subBar'[ptid'[t]] # NoBar
      BY <2>1, <2>3, <3>2, <3>3 DEF Numbered, TypeOK
    <3>8. \A t \in Task : worker'[t] \notin {"none", "ready"} => bar'[t] = subBar'[ptid'[t]]
      <4>1. \A t \in Task : worker'[t] \notin {"none", "ready"} => ptid[t] # p
        BY <2>3, <2>4, <2>6 DEF Numbered
      <4>. QED
        BY <2>1, <2>4, <3>3, <4>1 DEF TypeOK
    <3>9. mainBar' # NoBar => mainBar' = 0 /\ 1 <= nbars'
      BY <2>1, <2>6 DEF Numbered, TypeOK
    <3>. QED
      BY <2>2, <3>5, <3>6, <3>7, <3>8, <3>9 DEF Numbered
  <2>. QED
    BY <1>2, <2>5, <2>6 DEF Spawn, AddSubBar, ProgressAdd
<1>3. CASE Acquire \/ Wait \/ CompleteMainBar \/ SetMainBarStatus \/ Return
  <2>1. UNCHANGED <<mainBar, subBar, nbars, total, options, ptid, worker, bar>>
    BY <1>3 DEF Acquire, Wait, CompleteMainBar, SetMainBarStatus, Return, bars, locals, input
  <2>. QED
    BY <2>1 DEF Numbered, CountPtid
<1>4. CASE Terminated
  BY <1>4 DEF Terminated, vars, bars, locals, input, Numbered, CountPtid
<1>. QED
  BY <1>t, <1>1, <1>2, <1>3, <1>4 DEF Next, Dispatch

\* No step loses a result or counts one twice.
LEMMA NextTallied == BarsIInv /\ Next => Tallied'
<1>. SUFFICES ASSUME BarsIInv, Next PROVE Tallied'
  OBVIOUS
<1>. USE NAssumption DEF BarsIInv, IInv
<1>a. \A b \in Bar : OnBar(b) \in SUBSET Task /\ CountedOn(b) \in SUBSET Task /\ b # NoBar
  BY DEF OnBar, CountedOn, Bar, NoBar
\* What a step must leave alone to keep the tally of a bar.
<1>b. ASSUME NEW b \in Bar, OnBar(b)' = OnBar(b), \A u \in OnBar(b) : err'[u] = err[u]
      PROVE  Tally(OnBar(b))' = Tally(OnBar(b))
  BY <1>b, <1>a, TallySame DEF Tally, Succeeded, Skipped, FailedOf
<1>t. ASSUME NEW t \in Task, Work(t) PROVE Tallied'
  <2>1. /\ UNCHANGED <<pc, mainBar>> /\ worker[t] \notin {"none", "exited"}
        /\ pc \notin {"progress", "done"}
    BY <1>t DEF Work, GetSubBar, Finish, Record, IncrSubBar, Release, Done, bars, dispatcher,
       Order
  <2>2. CASE Record(t)
    <3>1. /\ worker[t] = "finished" /\ worker' = [worker EXCEPT ![t] = "recorded"]
          /\ UNCHANGED <<bar, err, current>> /\ BarId(t) \in Bar /\ err[t] \in Outcome
          /\ result' = [result EXCEPT ![BarId(t)] = Counted(@, err[t])]
      BY <2>2 DEF Record, MonitorSet, bars, TypeOK, BarId, Bar, NoBar
    <3>2. ASSUME NEW b \in Bar
          PROVE  /\ CountedOn(b)' = CountedOn(b)
                 /\ b # BarId(t) => OnBar(b)' = OnBar(b)
                 /\ b = BarId(t) => t \notin OnBar(b) /\ OnBar(b)' = OnBar(b) \cup {t}
      BY <3>1 DEF CountedOn, OnBar, BarId, Reported, TypeOK
    <3>3. ASSUME NEW b \in Bar PROVE result'[b] = Tally(OnBar(b))'
      <4>1. result[b] = Tally(OnBar(b))
        BY <2>1 DEF Tallied
      <4>2. CASE b # BarId(t)
        BY <1>b, <3>1, <3>2, <4>1, <4>2 DEF TypeOK
      <4>3. CASE b = BarId(t)
        <5>1. Tally(OnBar(b) \cup {t}) = Counted(Tally(OnBar(b)), err[t])
          BY <1>a, <3>1, <3>2, <4>3, TallyAdd
        <5>2. Tally(OnBar(b))' = Tally(OnBar(b) \cup {t})
          BY <3>1, <3>2, <4>3 DEF Tally, Succeeded, Skipped, FailedOf
        <5>. QED
          BY <3>1, <4>1, <4>3, <5>1, <5>2 DEF TypeOK
      <4>. QED
        BY <4>2, <4>3
    <3>. QED
      BY <2>1, <3>1, <3>2, <3>3 DEF Tallied
  <2>3. CASE IncrSubBar(t)
    <3>1. /\ worker[t] = "recorded" /\ worker' = [worker EXCEPT ![t] = "counted"]
          /\ UNCHANGED <<bar, err, result>> /\ bar[t] \in Bar \cup {NoBar}
          /\ IF bar[t] = NoBar THEN current' = current
             ELSE current' = [current EXCEPT ![bar[t]] = @ + 1]
      BY <2>3 DEF IncrSubBar, IncrBar, monitor, TypeOK
    <3>2. ASSUME NEW b \in Bar
          PROVE  /\ OnBar(b)' = OnBar(b)
                 /\ b # bar[t] => CountedOn(b)' = CountedOn(b)
                 /\ b = bar[t] => t \notin CountedOn(b) /\ CountedOn(b)' = CountedOn(b) \cup {t}
      BY <3>1 DEF CountedOn, OnBar, BarId, Reported, TypeOK
    <3>3. ASSUME NEW b \in Bar, b # mainBar PROVE current'[b] = Cardinality(CountedOn(b))'
      <4>1. current[b] = Cardinality(CountedOn(b))
        BY <3>3 DEF Tallied
      <4>2. CASE b # bar[t]
        BY <3>1, <3>2, <4>1, <4>2 DEF TypeOK
      <4>3. CASE b = bar[t]
        <5>1. IsFiniteSet(CountedOn(b)) /\ t \notin CountedOn(b)
          BY <1>a, <3>2, <4>3, SubsetsFinite
        <5>2. Cardinality(CountedOn(b) \cup {t}) = Cardinality(CountedOn(b)) + 1
          BY <5>1, FS_AddElement
        <5>. QED
          BY <1>a, <3>1, <3>2, <4>1, <4>3, <5>2 DEF TypeOK
      <4>. QED
        BY <4>2, <4>3
    <3>4. \A b \in Bar : result'[b] = Tally(OnBar(b))'
      BY <1>b, <2>1, <3>1, <3>2 DEF Tallied
    <3>. QED
      BY <2>1, <3>3, <3>4 DEF Tallied
  <2>4. CASE GetSubBar(t) \/ Finish(t) \/ Release(t) \/ Done(t)
    <3>1. /\ UNCHANGED <<current, result>>
          /\ \A u \in Task : Reported(u)' <=> Reported(u)
          /\ \A u \in Task : Reported(u) => bar'[u] = bar[u] /\ err'[u] = err[u]
          /\ \A u \in Task : worker'[u] \in {"counted", "released", "exited"} <=>
                             worker[u] \in {"counted", "released", "exited"}
      BY <2>4 DEF GetSubBar, Finish, Release, Done, monitor, bars, TypeOK, Reported
    <3>2. ASSUME NEW b \in Bar PROVE OnBar(b)' = OnBar(b) /\ CountedOn(b)' = CountedOn(b)
      BY <3>1 DEF OnBar, CountedOn, BarId, Reported
    <3>3. \A b \in Bar : result'[b] = Tally(OnBar(b))'
      BY <1>b, <2>1, <3>1, <3>2 DEF Tallied, OnBar
    <3>. QED
      BY <2>1, <3>1, <3>2, <3>3 DEF Tallied
  <2>. QED
    BY <1>t, <2>2, <2>3, <2>4 DEF Work
\* The dispatcher reports nothing, but for the main bar.
<1>d. ASSUME UNCHANGED <<bar, err>>, \A u \in Task : Reported(u)' <=> Reported(u),
             \A u \in Task : worker'[u] \in {"counted", "released", "exited"} <=>
                             worker[u] \in {"counted", "released", "exited"},
             NEW b \in Bar
      PROVE  Tally(OnBar(b))' = Tally(OnBar(b)) /\ CountedOn(b)' = CountedOn(b)
  <2>1. OnBar(b)' = OnBar(b) /\ CountedOn(b)' = CountedOn(b)
    BY <1>d DEF OnBar, CountedOn, BarId
  <2>. QED
    BY <1>b, <1>d, <2>1
<1>1. CASE Start
  <2>1. UNCHANGED <<worker, bar, err, result, current>> /\ mainBar = NoBar
    BY <1>1 DEF Start, ProgressAdd, locals, monitor, Order, Numbered, TypeOK
  <2>2. pc' \in {"progress", "done"} => mainBar' = NoBar
    BY <1>1, <2>1 DEF Start
  <2>3. \A b \in Bar : Tally(OnBar(b))' = Tally(OnBar(b)) /\ CountedOn(b)' = CountedOn(b)
    BY <1>d, <2>1 DEF Reported
  <2>. QED
    BY <1>a, <2>1, <2>2, <2>3 DEF Tallied
<1>2. CASE Spawn
  <2>1. /\ next \in Task /\ worker[next] = "none" /\ worker' = [worker EXCEPT ![next] = "ready"]
        /\ UNCHANGED <<bar, err, result, current, mainBar>> /\ pc = "spawn" /\ pc' = "loop"
    BY <1>2 DEF Spawn, AddSubBar, ProgressAdd, monitor, Task, Order, TypeOK
  <2>2. \A b \in Bar : Tally(OnBar(b))' = Tally(OnBar(b)) /\ CountedOn(b)' = CountedOn(b)
    BY <1>d, <2>1 DEF Reported, TypeOK
  <2>. QED
    BY <2>1, <2>2 DEF Tallied
<1>3. CASE Acquire \/ Wait \/ CompleteMainBar \/ SetMainBarStatus \/ Return \/ Terminated
  <2>1. /\ UNCHANGED <<worker, bar, err, mainBar>>
        /\ \A b \in Bar : b # mainBar => result'[b] = result[b] /\ current'[b] = current[b]
        /\ (pc' \in {"progress", "done"} /\ pc \notin {"progress", "done"}) \/ result' = result
        /\ pc \in {"progress", "done"} => pc' \in {"progress", "done"}
    BY <1>3 DEF Acquire, Wait, CompleteMainBar, SetMainBarStatus, MonitorSet, IncrBar,
       Return, Terminated,
       bars, locals, monitor, vars, TypeOK, dispatcher
  <2>2. \A b \in Bar : Tally(OnBar(b))' = Tally(OnBar(b)) /\ CountedOn(b)' = CountedOn(b)
    BY <1>d, <2>1 DEF Reported
  <2>. QED
    BY <2>1, <2>2 DEF Tallied
<1>. QED
  BY <1>t, <1>1, <1>2, <1>3 DEF Next, Dispatch

-----------------------------------------------------------------------------
(* What the bars show. *)

\* The tasks of a parent id.
OfParent(p) == {t \in Task : ptid[t] = p}

\* Once all tasks of a sub bar have reported, it shows what they returned.
LEMMA SubBarStatus ==
  ASSUME BarsIInv, NEW p \in Ptid, subBar[p] # NoBar, \A t \in OfParent(p) : Reported(t)
  PROVE  MonitorGet(subBar[p]) = StatusOfTasks(OfParent(p))
<1>. USE DEF BarsIInv, IInv
<1>1. subBar[p] \in Bar /\ subBar[p] # mainBar /\ ~ options.SilentSubBar
  BY DEF TypeOK, Numbered
<1>2. \A t \in Task : Reported(t) => bar[t] = subBar[ptid[t]] /\ bar[t] # NoBar /\ ptid[t] \in Ptid
  BY <1>1 DEF Numbered, Reported, TypeOK
<1>3. OnBar(subBar[p]) = OfParent(p)
  BY <1>2 DEF OnBar, OfParent, BarId, Numbered
<1>4. StatusOf(Tally(OfParent(p))) = StatusOfTasks(OfParent(p))
  BY TallyStatus DEF OfParent, TypeOK
<1>. QED
  BY <1>1, <1>3, <1>4 DEF MonitorGet, Tallied

\* A sub bar that is complete has counted all the tasks of its parent id.
LEMMA CompleteMeansReported ==
  ASSUME BarsIInv, NEW p \in Ptid, subBar[p] # NoBar, Completed(subBar[p])
  PROVE  \A t \in OfParent(p) : Reported(t)
<1>. USE DEF BarsIInv, IInv
<1>1. subBar[p] \in Bar /\ subBar[p] # mainBar /\ total[subBar[p]] = CountPtid(p)
  BY DEF TypeOK, Numbered
<1>2. CountedOn(subBar[p]) \subseteq OfParent(p)
  BY DEF CountedOn, OfParent, Numbered, TypeOK
<1>3. /\ IsFiniteSet(OfParent(p)) /\ Cardinality(OfParent(p)) \in Nat
      /\ Cardinality(CountedOn(subBar[p])) \in Nat
  BY <1>2, SubsetsFinite DEF OfParent, CountedOn
<1>4. Cardinality(CountedOn(subBar[p])) >= Cardinality(OfParent(p))
  BY <1>1 DEF Completed, Tallied, CountPtid, OfParent
<1>5. CountedOn(subBar[p]) = OfParent(p)
  BY <1>2, <1>3, <1>4, FS_Subset
<1>. QED
  BY <1>5 DEF CountedOn, Reported

\* A sub bar that is drawn completed shows what the tasks of its parent id did.
LEMMA SubBarsTrue == BarsIInv => SubBarHonest
<1>. SUFFICES ASSUME BarsIInv, NEW p \in Ptid, subBar[p] # NoBar, Completed(subBar[p])
              PROVE  /\ \A t \in OfParent(p) : Reported(t)
                     /\ MonitorGet(subBar[p]) = StatusOfTasks(OfParent(p))
  BY DEF SubBarHonest, OfParent
<1>. QED
  BY CompleteMeansReported, SubBarStatus

\* The status that is recorded for the main bar: what the batch did.
LEMMA MainStatus ==
  ASSUME BarsIInv, pc = "status"
  PROVE  StatusOf(Counted(result[mainBar], MainBarError)) = StatusOfTasks(Task)
<1>. USE DEF BarsIInv, IInv
<1>1. mainBar = 0 /\ mainBar \in Bar /\ \A t \in Task : worker[t] = "exited" /\ Reported(t)
  BY NAssumption DEF Order, Numbered, TypeOK, Bar, Reported
<1>2. result[mainBar] = Tally(OnBar(mainBar))
  BY <1>1 DEF Tallied
<1>3. CASE options.SilentSubBar
  <2>1. \A p \in Ptid : subBar[p] = NoBar
    BY <1>3 DEF Numbered
  <2>2. MainBarError = SkipTask
    BY <2>1 DEF MainBarError, SubBars
  <2>3. OnBar(mainBar) = Task
    BY <1>1, <2>1 DEF OnBar, BarId, Numbered, TypeOK
  <2>4. StatusOf(Tally(Task)) = StatusOfTasks(Task)
    BY TallyStatus DEF TypeOK
  <2>5. ASSUME NEW i \in Nat, NEW j \in Nat, NEW k \in Nat
        PROVE  StatusOf(Counted([nsucc |-> i, nskip |-> j, nerr |-> k], SkipTask))
                 = StatusOf([nsucc |-> i, nskip |-> j, nerr |-> k])
    BY DEF StatusOf, Counted, SkipTask, NoError
  <2>6. StatusOf(Counted(Tally(Task), SkipTask)) = StatusOf(Tally(Task))
    BY <2>5, TallyType DEF Tally
  <2>. QED
    BY <1>2, <2>2, <2>3, <2>4, <2>6
<1>4. CASE ~ options.SilentSubBar
  <2>1. \A t \in Task : ptid[t] \in Ptid /\ subBar[ptid[t]] # NoBar
    BY <1>1, <1>4 DEF Numbered, TypeOK
  <2>2. \A p \in Ptid : subBar[p] # NoBar => MonitorGet(subBar[p]) = StatusOfTasks(OfParent(p))
    BY <1>1, SubBarStatus DEF OfParent
  <2>3. OnBar(mainBar) = {}
    BY <1>1, <2>1 DEF OnBar, BarId, Numbered
  <2>4. result[mainBar] = [nsucc |-> 0, nskip |-> 0, nerr |-> 0]
    BY <1>2, <2>3, FS_EmptySet DEF Tally, Succeeded, Skipped, FailedOf
  <2>5. (\E b \in SubBars : MonitorGet(b) = "ERROR") <=> \E t \in Task : err[t] \in Task
    BY <2>1, <2>2 DEF SubBars, StatusOfTasks, OfParent
  <2>6. CASE \E t \in Task : err[t] \in Task
    <3>1. merr \in Task
      BY <1>1, <2>6, NAssumption DEF Errors, TypeOK, NoError, SkipTask, Task
    <3>2. MainBarError = merr
      BY <2>5, <2>6 DEF MainBarError
    <3>3. StatusOf(Counted(result[mainBar], merr)) = "ERROR"
      BY <2>4, <3>1, NAssumption DEF StatusOf, Counted, NoError, SkipTask, Task
    <3>. QED
      BY <2>6, <3>2, <3>3 DEF StatusOfTasks
  <2>7. CASE ~ \E t \in Task : err[t] \in Task
    <3>1. (\E b \in SubBars : MonitorGet(b) = "OK") <=> ~ \A t \in Task : err[t] = SkipTask
      BY <2>1, <2>2, <2>7 DEF SubBars, StatusOfTasks, OfParent
    <3>2. MainBarError = IF \A t \in Task : err[t] = SkipTask THEN SkipTask ELSE NoError
      BY <2>5, <2>7, <3>1 DEF MainBarError
    <3>. QED
      BY <2>4, <2>7, <3>2 DEF StatusOf, Counted, NoError, SkipTask, StatusOfTasks
  <2>. QED
    BY <2>6, <2>7
<1>. QED
  BY <1>3, <1>4

\* Once it is given its status, nothing takes it from the main bar.
LEMMA NextMainShown == BarsIInv /\ Next => MainShown'
<1>. SUFFICES ASSUME BarsIInv, Next, pc' \in {"progress", "done"}, mainBar' # NoBar
              PROVE  MonitorGet(mainBar)' = StatusOfTasks(Task)'
  BY DEF MainShown
<1>. USE DEF BarsIInv, IInv
<1>1. CASE SetMainBarStatus
  <2>1. /\ pc = "status" /\ UNCHANGED <<mainBar, err>> /\ mainBar \in Bar
        /\ result' = [result EXCEPT ![mainBar] = Counted(@, MainBarError)]
    BY <1>1 DEF SetMainBarStatus, MonitorSet, bars, locals, Order, TypeOK
  <2>2. result'[mainBar'] = Counted(result[mainBar], MainBarError)
    BY <2>1 DEF TypeOK
  <2>3. MonitorGet(mainBar)' = StatusOf(Counted(result[mainBar], MainBarError))
    BY <2>2 DEF MonitorGet
  <2>4. StatusOfTasks(Task)' = StatusOfTasks(Task)
    BY <2>1 DEF StatusOfTasks
  <2>. QED
    BY <2>1, <2>3, <2>4, MainStatus
<1>2. CASE ~ SetMainBarStatus
  <2>1. /\ pc \in {"progress", "done"} /\ UNCHANGED <<mainBar, err, result>>
    <3>1. ASSUME NEW t \in Task PROVE ~ Work(t)
      <4>1. SUFFICES ASSUME Work(t) PROVE FALSE
        OBVIOUS
      <4>2. pc' = pc /\ worker[t] # "exited"
        BY <4>1 DEF Work, GetSubBar, Finish, Record, IncrSubBar, Release, Done, dispatcher
      <4>. QED
        BY <4>2 DEF Order
    <3>. QED
      BY <1>2, <3>1 DEF Next, Dispatch, Start, Acquire, Spawn, Wait, CompleteMainBar, Return,
         Terminated, ProgressAdd, Order, Numbered, bars, locals, monitor, vars, dispatcher,
         TypeOK, NoBar
  <2>2. MonitorGet(mainBar) = StatusOfTasks(Task)
    BY <2>1 DEF MainShown
  <2>. QED
    BY <2>1, <2>2 DEF MonitorGet, StatusOfTasks
<1>. QED
  BY <1>1, <1>2

\* A step that changes nothing keeps the invariant.
LEMMA StutterBars == BarsIInv /\ UNCHANGED vars => BarsIInv'
<1>. SUFFICES ASSUME BarsIInv, UNCHANGED vars PROVE BarsIInv'
  OBVIOUS
<1>. USE DEF vars, dispatcher, sync, locals, monitor, bars, input
<1>1. IInv' /\ Numbered' /\ MainShown'
  BY StutterIInv DEF BarsIInv, Numbered, MainShown, CountPtid, MonitorGet, StatusOfTasks
<1>2. \A b \in Bar : OnBar(b)' = OnBar(b) /\ CountedOn(b)' = CountedOn(b)
                     /\ Tally(OnBar(b))' = Tally(OnBar(b))
  BY DEF OnBar, CountedOn, Reported, BarId, Tally, Succeeded, Skipped, FailedOf
<1>3. Tallied'
  BY <1>2 DEF BarsIInv, Tallied
<1>. QED
  BY <1>1, <1>3 DEF BarsIInv

\* The invariant holds in every state of every execution.
LEMMA BarsInvariance == Spec => []BarsIInv
<1>1. BarsIInv /\ [Next]_vars => BarsIInv'
  <2>1. BarsIInv /\ Next => IInv'
    BY NextTypeOK, NextOrder, NextCounts, NextErrors DEF BarsIInv, IInv
  <2>. QED
    BY <2>1, NextNumbered, NextTallied, NextMainShown, StutterBars DEF BarsIInv
<1>. QED
  BY <1>1, InitBars, PTL DEF Spec

\* The bars are honest at every moment that displayStatus may draw them: a sub bar
\* is completed only when all its tasks have reported, and its status, and the main
\* bar's when Execute has returned, are those the tasks' results imply.
THEOREM BarsAreHonest == Spec => []BarsHonest
<1>1. BarsIInv => BarsHonest
  BY SubBarsTrue DEF BarsHonest, MainBarHonest, BarsIInv, MainShown
<1>. QED
  BY <1>1, BarsInvariance, PTL

=============================================================================
