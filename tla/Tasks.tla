-------------------------------- MODULE Tasks --------------------------------
(***************************************************************************)
(* The concurrent executor of a batch of tasks (internal/tasks): a         *)
(* dispatcher starts one worker per task, a buffered channel bounds how    *)
(* many of them run, the monitor collects what they return, and progress   *)
(* bars, drawn by another goroutine at any time, show it.                  *)
(*                                                                         *)
(* The monitor's list of errors per bar is kept as the three counters that *)
(* monitor.sum computes from it.  The bars are those of the mpb library:   *)
(* they are numbered from 0 in the order they are added, one is completed  *)
(* when its count reaches its total, and Progress.Wait returns when all of *)
(* them are.  What a task does is left open: it returns nil, skip, or an   *)
(* error of its own.                                                       *)
(***************************************************************************)
EXTENDS Integers, FiniteSets

CONSTANTS
  N,           \* how many tasks the batch has
  Ptid,        \* parent task ids; the tasks of one share a sub bar
  Groupings,   \* the assignments of parent ids to tasks to consider
  ExecOptions  \* the options callers execute a batch with

ASSUME NAssumption == N \in Nat
ASSUME GroupingsAssumption == Groupings \subseteq [1 .. N -> Ptid]
ASSUME OptionsAssumption ==
  ExecOptions \subseteq [Concurrency : Nat,
                         SilentMainBar : BOOLEAN, SilentSubBar : BOOLEAN]

VARIABLES
  options,   \* the caller's ExecOptions
  ptid,      \* [Task -> Ptid], set when the tasks were created
  pc,        \* where Execute is
  next,      \* the task the loop of Execute is at
  workers,   \* how many tokens the channel holds
  wg,        \* the WaitGroup's counter
  worker,    \* [Task -> where its goroutine is]
  bar,       \* [Task -> the bar its goroutine holds, or NoBar]
  err,       \* [Task -> what its Execute returned]
  result,    \* [Bar -> how many of nil, skip, error the monitor has for it]
  merr,      \* the monitor's err
  mainBar,   \* the main bar, or NoBar
  subBar,    \* [Ptid -> its bar, or NoBar]
  nbars,     \* how many bars the progress has
  current,   \* [Bar -> its count]
  total,     \* [Bar -> its total]
  ret        \* what Execute returned, or Pending

dispatcher == <<pc, next, ret>>
sync       == <<workers, wg>>
locals     == <<worker, bar, err>>
monitor    == <<result, merr>>
bars       == <<mainBar, subBar, nbars, current, total>>
input      == <<options, ptid>>
vars       == <<dispatcher, sync, locals, monitor, bars, input>>

Task     == 1 .. N
Bar      == 0 .. N            \* at most one bar per task and the main bar
NoBar    == -1
NoError  == 0
SkipTask == -1                \* task.ERR_SKIP_TASK
Pending  == -2
Outcome  == {NoError, SkipTask} \cup Task
Status   == {"OK", "SKIP", "ERROR"}

-----------------------------------------------------------------------------
(* Helpers. *)

CountPtid(p) == Cardinality({t \in Task : ptid[t] = p})

\* initOptions: no concurrency asked for means 10.
Limit == IF options.Concurrency = 0 THEN 10 ELSE options.Concurrency

\* The counters of a bar after one more error; nil and skip are errors too.
Counted(r, e) ==
  CASE e = NoError  -> [r EXCEPT !.nsucc = @ + 1]
    [] e = SkipTask -> [r EXCEPT !.nskip = @ + 1]
    [] OTHER        -> [r EXCEPT !.nerr = @ + 1]

\* Variant: the last result replaces an earlier error.
MonitorSetLast(b, e) ==
  /\ result' = [result EXCEPT ![b] = Counted(@, e)]
  /\ merr' = e

\* monitor.set: count the error under the bar, remember it unless it is a skip.
MonitorSet(b, e) ==
  /\ result' = [result EXCEPT ![b] = Counted(@, e)]
  /\ merr' = IF e \in {NoError, SkipTask} THEN merr ELSE e

\* monitor.get: a bar without any result counts as skipped.
StatusOf(r) ==
  IF r.nerr # 0 THEN "ERROR"
  ELSE IF r.nskip = r.nsucc + r.nskip + r.nerr THEN "SKIP"
  ELSE "OK"

MonitorGet(b) == StatusOf(result[b])

SubBars == {subBar[p] : p \in {q \in Ptid : subBar[q] # NoBar}}

\* Progress.Add of the mpb library: the next number, nothing counted yet.
ProgressAdd(count) ==
  /\ nbars' = nbars + 1
  /\ total' = [total EXCEPT ![nbars] = count]
  /\ UNCHANGED current

Completed(b) == b < nbars /\ current[b] >= total[b]

IncrBar(b) == current' = [current EXCEPT ![b] = @ + 1]

-----------------------------------------------------------------------------
(* The goroutine that called Execute. *)

Init ==
  /\ options \in ExecOptions
  /\ ptid \in Groupings
  /\ pc = "start" /\ next = 1 /\ ret = Pending
  /\ workers = 0 /\ wg = 0
  /\ worker = [t \in Task |-> "none"]
  /\ bar = [t \in Task |-> NoBar]
  /\ err = [t \in Task |-> NoError]
  /\ result = [b \in Bar |-> [nsucc |-> 0, nskip |-> 0, nerr |-> 0]]
  /\ merr = NoError
  /\ mainBar = NoBar
  /\ subBar = [p \in Ptid |-> NoBar]
  /\ nbars = 0
  /\ current = [b \in Bar |-> 0]
  /\ total = [b \in Bar |-> 0]

\* An empty batch returns before anything is set up; otherwise the main bar is
\* added and the loop begins.
Start ==
  /\ pc = "start"
  /\ IF N = 0
     THEN pc' = "done" /\ ret' = NoError
     ELSE pc' = "loop" /\ UNCHANGED ret
  /\ IF N = 0 \/ options.SilentMainBar
     THEN UNCHANGED <<mainBar, nbars, total, current>>
     ELSE mainBar' = nbars /\ ProgressAdd(1)
  /\ UNCHANGED <<next, sync, locals, monitor, subBar, input>>

\* Variant: the channel takes one token more than asked for.
SlotFreeOneMore == workers <= Limit

SlotFree == workers < Limit

\* Variant: the loop takes a slot and forgets wg.Add(1).
AcquireWithoutAdd ==
  /\ pc = "loop" /\ next <= N
  /\ SlotFree
  /\ workers' = workers + 1
  /\ pc' = "spawn"
  /\ UNCHANGED <<next, ret, wg, locals, monitor, bars, input>>

\* wg.Add(1), then workers <- struct{}{}, which blocks while the channel is
\* full.  An earlier error does not leave the loop (the FIXME there).
Acquire ==
  /\ pc = "loop" /\ next <= N
  /\ SlotFree
  /\ workers' = workers + 1
  /\ wg' = wg + 1
  /\ pc' = "spawn"
  /\ UNCHANGED <<next, ret, locals, monitor, bars, input>>

AddSubBar(p) ==
  IF subBar[p] # NoBar
  THEN UNCHANGED <<subBar, nbars, total, current>>
  ELSE subBar' = [subBar EXCEPT ![p] = nbars] /\ ProgressAdd(CountPtid(p))

\* Add the task's sub bar and start its worker.
Spawn ==
  /\ pc = "spawn"
  /\ IF options.SilentSubBar
     THEN UNCHANGED <<subBar, nbars, total, current>>
     ELSE AddSubBar(ptid[next])
  /\ worker' = [worker EXCEPT ![next] = "ready"]
  /\ next' = next + 1
  /\ pc' = "loop"
  /\ UNCHANGED <<ret, sync, bar, err, monitor, mainBar, input>>

\* Variant: an error leaves the loop early, as the FIXME there would have it.
LoopLeftOnError == next > N \/ merr # NoError

LoopLeft == next > N

\* wg.Wait() after the loop.
Wait ==
  /\ pc = "loop" /\ LoopLeft
  /\ wg = 0
  /\ pc' = IF mainBar # NoBar THEN "complete" ELSE "progress"
  /\ UNCHANGED <<next, ret, sync, locals, monitor, bars, input>>

\* mainBar.IncrBy(1) is called before setMainBarStatus().
CompleteMainBar ==
  /\ pc = "complete"
  /\ IncrBar(mainBar)
  /\ pc' = "status"
  /\ UNCHANGED <<next, ret, sync, locals, monitor,
                 mainBar, subBar, nbars, total, input>>

\* Variant: one skipped sub bar makes the main bar skipped.
MainBarErrorAnySkip ==
  IF \E b \in SubBars : MonitorGet(b) = "ERROR" THEN merr
  ELSE IF \A b \in SubBars : MonitorGet(b) = "OK" THEN NoError
  ELSE SkipTask

\* What setMainBarStatus records for the main bar.
MainBarError ==
  IF \E b \in SubBars : MonitorGet(b) = "ERROR" THEN merr
  ELSE IF \E b \in SubBars : MonitorGet(b) = "OK" THEN NoError
  ELSE SkipTask

SetMainBarStatus ==
  /\ pc = "status"
  /\ MonitorSet(mainBar, MainBarError)
  /\ pc' = "progress"
  /\ UNCHANGED <<next, ret, sync, locals, bars, input>>

\* progress.Wait() returns when every bar is completed.
Return ==
  /\ pc = "progress"
  /\ \A b \in 0 .. nbars - 1 : Completed(b)
  /\ pc' = "done" /\ ret' = merr
  /\ UNCHANGED <<next, sync, locals, monitor, bars, input>>

-----------------------------------------------------------------------------
(* The goroutine of a task. *)

GetSubBar(t) ==
  /\ worker[t] = "ready"
  /\ bar' = [bar EXCEPT ![t] = subBar[ptid[t]]]
  /\ worker' = [worker EXCEPT ![t] = "running"]
  /\ UNCHANGED <<dispatcher, sync, err, monitor, bars, input>>

\* t.Execute() returns.
Finish(t) ==
  /\ worker[t] = "running"
  /\ \E o \in {NoError, SkipTask, t} : err' = [err EXCEPT ![t] = o]
  /\ worker' = [worker EXCEPT ![t] = "finished"]
  /\ UNCHANGED <<dispatcher, sync, bar, monitor, bars, input>>

\* Without a bar of its own the result goes under id 0.
BarId(t) == IF bar[t] = NoBar THEN 0 ELSE bar[t]

Record(t) ==
  /\ worker[t] = "finished"
  /\ MonitorSet(BarId(t), err[t])
  /\ worker' = [worker EXCEPT ![t] = "recorded"]
  /\ UNCHANGED <<dispatcher, sync, bar, err, bars, input>>

\* The deferred function: bar.IncrBy(1), <-workers, wg.Done().
IncrSubBar(t) ==
  /\ worker[t] = "recorded"
  /\ IF bar[t] = NoBar THEN UNCHANGED current ELSE IncrBar(bar[t])
  /\ worker' = [worker EXCEPT ![t] = "counted"]
  /\ UNCHANGED <<dispatcher, sync, bar, err, monitor,
                 mainBar, subBar, nbars, total, input>>

Release(t) ==
  /\ worker[t] = "counted"
  /\ workers' = workers - 1
  /\ worker' = [worker EXCEPT ![t] = "released"]
  /\ UNCHANGED <<dispatcher, wg, bar, err, monitor, bars, input>>

Done(t) ==
  /\ worker[t] = "released"
  /\ wg' = wg - 1
  /\ worker' = [worker EXCEPT ![t] = "exited"]
  /\ UNCHANGED <<dispatcher, workers, bar, err, monitor, bars, input>>

-----------------------------------------------------------------------------

\* Execute has returned: nothing is left to do.
Terminated == pc = "done" /\ UNCHANGED vars

Dispatch == \/ Start \/ Acquire \/ Spawn
            \/ Wait \/ CompleteMainBar \/ SetMainBarStatus \/ Return

Work(t) == \/ GetSubBar(t) \/ Finish(t) \/ Record(t)
           \/ IncrSubBar(t) \/ Release(t) \/ Done(t)

Next == Dispatch \/ (\E t \in Task : Work(t)) \/ Terminated

Spec == Init /\ [][Next]_vars

\* Goroutines are scheduled, and a task ends (its ssh commands time out).
FairSpec == Spec /\ WF_vars(Dispatch) /\ \A t \in Task : WF_vars(Work(t))

-----------------------------------------------------------------------------
(* Properties. *)

Counter == [nsucc : Nat, nskip : Nat, nerr : Nat]

\* Every variable has its type; the channel, the WaitGroup and the numbering
\* of the bars stay within what the batch's tasks can use.
TypeOK ==
  /\ options \in ExecOptions
  /\ ptid \in [Task -> Ptid]
  /\ pc \in {"start", "loop", "spawn", "complete", "status", "progress", "done"}
  /\ next \in 1 .. N + 1
  /\ workers \in Nat
  /\ wg \in 0 .. N
  /\ worker \in [Task -> {"none", "ready", "running", "finished", "recorded",
                          "counted", "released", "exited"}]
  /\ bar \in [Task -> Bar \cup {NoBar}]
  /\ err \in [Task -> Outcome]
  /\ result \in [Bar -> Counter]
  /\ merr \in {NoError} \cup Task
  /\ mainBar \in Bar \cup {NoBar}
  /\ subBar \in [Ptid -> Bar \cup {NoBar}]
  /\ nbars \in 0 .. N + 1
  /\ current \in [Bar -> Nat]
  /\ total \in [Bar -> Nat]
  /\ ret \in {Pending, NoError} \cup Task

\* A task is being executed by its worker.
Running(t) == worker[t] = "running"

\* Tasks.Execute never runs more tasks at a time than the concurrency its
\* caller asked for (10 when it asked for none), whatever the speed of each.
SlotBound == Cardinality({t \in Task : Running(t)}) <= Limit

\* What a batch whose tasks ts returned err should be shown as.
StatusOfTasks(ts) ==
  IF \E t \in ts : err[t] \in Task THEN "ERROR"
  ELSE IF \A t \in ts : err[t] = SkipTask THEN "SKIP"
  ELSE "OK"

Reported(t) == worker[t] \in {"recorded", "counted", "released", "exited"}

\* Whenever a sub bar is shown completed, all the tasks of its parent id have
\* reported to the monitor, and its status is the one their results imply.
SubBarHonest ==
  \A p \in Ptid : subBar[p] # NoBar /\ Completed(subBar[p]) =>
    LET ts == {t \in Task : ptid[t] = p}
    IN  /\ \A t \in ts : Reported(t)
        /\ MonitorGet(subBar[p]) = StatusOfTasks(ts)

\* When Execute returns, the main bar is left showing what the batch did, also
\* when the sub bars are silent and the tasks' results share bar 0 with it.
MainBarHonest ==
  pc = "done" /\ mainBar # NoBar => MonitorGet(mainBar) = StatusOfTasks(Task)

\* The progress bars tell the truth: displayStatus draws the sub bars at any
\* time, between any two steps of the goroutines that share them (monitor.set
\* comes before IncrBy), and the main bar when Execute has returned.
BarsHonest == SubBarHonest /\ MainBarHonest

\* Where a task is, as seen from outside.
Phase == [t \in Task |-> IF worker[t] \in {"none", "ready"} THEN "todo"
                         ELSE IF Running(t) THEN "busy" ELSE "done"]

\* The executor implements the abstract batch: each task runs once, within the
\* limit, and Execute returns, after all of them, the error of a failed one if
\* there is any and nil otherwise.
B == INSTANCE Batch WITH
       limit <- Limit,
       phase <- Phase,
       outcome <- err,
       verdict <- ret

ImplementsBatch == B!BatchSpec

\* Execute returns whatever its tasks return: no bar is left waiting for a task
\* that was not started (what the FIXME in the loop is about), and no worker
\* waits for a slot for ever.
Returns == <>(pc = "done")

=============================================================================
