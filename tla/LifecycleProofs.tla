---------------------------- MODULE LifecycleProofs ----------------------------
(***************************************************************************)
(* Proofs about the life of the services (module Lifecycle), for any       *)
(* services, roles and commands, and any number of failures.               *)
(*                                                                         *)
(* The invariants that the runs check do not follow from a step alone:     *)
(* that a record names the container docker has depends on where each task *)
(* stands (Placed), and what a command achieves depends on the playbook    *)
(* steps it has behind it (Progress). IInv, the conjunction, is inductive. *)
(*                                                                         *)
(* A step of the system is a step of one service's task (TaskInvariant,    *)
(* from one lemma per part of the invariant, each by cases on the step),   *)
(* one of the playbook, one of the operator, or a failure.                 *)
(***************************************************************************)
EXTENDS Lifecycle, SequenceTheorems, TLAPS

\* The database names a container of the service.
Recorded(s) == record[s] \in ContainerId

\* The steps that a task goes through, by the type of its playbook step.
StepsOf(type) ==
  CASE type = "PULL_IMAGE"       -> {"pull"}
    [] type = "CREATE_CONTAINER" -> {"getService", "create", "insert", "umountCreated"}
    [] type = "SYNC_CONFIG"      -> {"sync"}
    [] type = "START_SERVICE"    -> {"list", "umount", "start", "postStart"}
    [] type = "STOP_SERVICE"     -> {"stop"}
    [] type = "RESTART_SERVICE"  -> {"listRestart", "restart", "postStart"}
    [] type = "CLEAN_SERVICE"    -> {"unbind", "mount", "files", "remove", "forget"}
    [] type = "CREATE_POOL"      -> {"pool"}
    [] type = "BALANCE_LEADER"   -> {"balance"}

\* The steps of the tasks that are given the recorded container's id.
RecordSteps == TaskStep \ ({"pull"} \cup StepsOf("CREATE_CONTAINER"))

\* The three places that know of the service's container agree as far as they
\* can: the record names docker's container if there is one, and a container
\* that was ever started is recorded.
Located(s) ==
  /\ status[s] = "absent" <=> cid[s] = NoContainer
  /\ Recorded(s) /\ cid[s] # NoContainer => record[s] = cid[s]
  /\ status[s] \in {"running", "exited"} => record[s] = cid[s]
  /\ bound[s] => s \in Disk

\* What a task that has come to a step can rely on.
Placed(s) ==
  /\ at[s] \in RecordSteps =>
       cont[s] = record[s] /\ record[s] # NoRecord
  /\ at[s] \in StepsOf("CREATE_CONTAINER") /\ s \in Disk => bound[s]
  /\ at[s] \in {"create", "insert"} => ~ Recorded(s) /\ old[s] = record[s]
  /\ at[s] = "insert" => cont[s] = cid[s] /\ status[s] = "created" /\ s \in fresh
  /\ at[s] = "umountCreated" => Recorded(s) /\ s \in fresh
  /\ at[s] \in {"umount", "start", "restart", "postStart"} =>
       record[s] = cid[s] /\ status[s] # "absent"
  /\ at[s] \in {"mount", "files", "remove", "forget"} => ~ bound[s]
  /\ at[s] = "forget" => status[s] = "absent"
  /\ at[s] \in {"remove", "forget"} => CleansContainer

\* What a start achieves: the recorded container runs, unless it exited by itself.
Running(s) == record[s] = cid[s] /\ status[s] # "absent" /\ (s \in last.on => status[s] = "running")

\* What a playbook step leaves true of a service, until the command ends.
Achieves(type, s) ==
  CASE type = "CREATE_CONTAINER" ->
         Recorded(s) /\ (s \in Disk => bound[s]) /\ (cmd = "upgrade" => s \in fresh)
    [] type = "SYNC_CONFIG" ->
         IsSkip(s) \/ (record[s] = cid[s] /\ status[s] # "absent" /\ synced[s])
    [] type \in {"START_SERVICE", "RESTART_SERVICE"} -> IsSkip(s) \/ Running(s)
    [] type = "STOP_SERVICE" ->
         cmd = "upgrade" \/ (s \in last.on => status[s] # "running")
    [] type = "CLEAN_SERVICE" ->
         IF cmd = "upgrade" THEN ~ Recorded(s) \/ s \in fresh
         ELSE ~ bound[s] /\ (cmd = "clean" => IsSkip(s) \/ record[s] = Cleaned)
    [] OTHER -> TRUE

\* The playbook of the command being run, and how many of its steps are over.
Whole == Playbook(cmd, targets)
Pos == Len(Whole) - Len(todo)

\* What is left to do is the end of the command's playbook.
Commanded ==
  IF cmd = Idle
  THEN /\ todo = << >> /\ targets = {} /\ last.result # "running"
       /\ \A s \in Service : at[s] = "none"
  ELSE /\ targets \in Targets(cmd) \ {{}}
       /\ last.cmd = cmd /\ last.result = "running" /\ last.on \subseteq targets
       /\ Pos \in 0 .. Len(Whole)
       /\ \A i \in 1 .. Len(todo) : todo[i] = Whole[Pos + i]

\* The tasks are those of the step being executed; a service of the step has
\* no task only if it is skipped.
Tasked ==
  /\ \A s \in Service : at[s] # "none" => todo # << >> /\ s \in Step.on
  /\ \A s \in Service : at[s] \notin Ended => at[s] \in StepsOf(Step.type)
  /\ Working => \A s \in Step.on : at[s] = "none" => NeedsRecord(Step.type) /\ IsSkip(s)

\* A step of this type, for this service, is over.
Over(type, s) ==
  cmd # Idle /\ \E i \in 1 .. Pos : Whole[i].type = type /\ s \in Whole[i].on

\* ... or it is being executed, and the service's task is through.
Through(type, s) ==
  Working /\ Step.type = type /\ s \in Step.on /\ at[s] \in {"none", "ok", "skip"}

\* Whatever the failures of earlier commands left, the steps this command has
\* behind it have achieved what they are for, and later steps keep it so.
Progress ==
  \A type \in StepType, s \in Service :
    Over(type, s) \/ Through(type, s) => Achieves(type, s)

\* The inductive invariant.
IInv ==
  /\ TypeOK /\ Commanded /\ Tasked
  /\ \A s \in Service : Located(s) /\ Placed(s)
  /\ Progress
  /\ SuccessMeansAchieved

\* A playbook step.
StepRecord == [type : StepType, on : SUBSET Service]

\* The order in which playbooks arrange the types of their steps.
Rank(type) ==
  CASE type = "STOP_SERVICE"     -> 1
    [] type = "CLEAN_SERVICE"    -> 2
    [] type = "PULL_IMAGE"       -> 3
    [] type = "CREATE_CONTAINER" -> 4
    [] type = "SYNC_CONFIG"      -> 5
    [] OTHER                     -> 6

\* A step of type a may come before one of type b.
Precedes(a, b) == Rank(a) < Rank(b) \/ (Rank(a) = 6 /\ Rank(b) = 6)

\* CREATE_POOL and BALANCE_LEADER are about a mds of the topology.
LEMMA FirstMdsType == FirstMds \in SUBSET Service /\ FirstMds \in SUBSET HasRole("mds")
BY MdsAssumption DEF FirstMds, HasRole

\* Every command's playbook is a sequence of steps about services.
LEMMA PlaybookType ==
  ASSUME NEW c \in CommandName, NEW ss \in SUBSET Service
  PROVE  Playbook(c, ss) \in Seq(StepRecord)
<1>. USE FirstMdsType DEF Playbook, StepRecord, StepType, On
<1>1. CASE c = "deploy"
  <2>. DEFINE P == DeploySteps(ss)
  <2>1. Len(P) = 10 /\ DOMAIN P = 1 .. 10
    BY DEF DeploySteps
  <2>2. \A i \in 1 .. 10 : P[i] \in StepRecord
    BY DEF DeploySteps, HasRole
  <2>. QED
    BY <1>1, <2>1, <2>2 DEF DeploySteps, HasRole
<1>2. CASE c = "upgrade"
  BY <1>2 DEF UpgradeSteps
<1>3. CASE c = "reload"
  BY <1>3 DEF ReloadSteps
<1>4. CASE c = "start"
  BY <1>4 DEF StartSteps
<1>5. CASE c = "stop"
  BY <1>5 DEF StopSteps
<1>6. CASE c = "restart"
  BY <1>6 DEF RestartSteps
<1>7. CASE c = "clean"
  BY <1>7 DEF CleanSteps
<1>8. CASE c = "cleanlog"
  BY <1>8 DEF CleanSteps
<1>. QED
  BY <1>1, <1>2, <1>3, <1>4, <1>5, <1>6, <1>7, <1>8 DEF CommandName

\* Every playbook arranges its steps by rank, and only an upgrade stops or
\* cleans services before it does something else.
LEMMA PlaybookOrder ==
  ASSUME NEW c \in CommandName, NEW ss \in SUBSET Service,
         NEW i \in 1 .. Len(Playbook(c, ss)), NEW j \in 1 .. Len(Playbook(c, ss)), i < j
  PROVE  /\ Precedes(Playbook(c, ss)[i].type, Playbook(c, ss)[j].type)
         /\ Playbook(c, ss)[i].type \in {"STOP_SERVICE", "CLEAN_SERVICE"} => c = "upgrade"
<1>. USE DEF Playbook, On, Rank, Precedes
<1>1. CASE c = "deploy"
  BY <1>1 DEF DeploySteps
<1>2. CASE c = "upgrade"
  BY <1>2 DEF UpgradeSteps
<1>3. CASE c = "reload"
  BY <1>3 DEF ReloadSteps
<1>4. CASE c = "start"
  BY <1>4 DEF StartSteps
<1>5. CASE c = "stop"
  BY <1>5 DEF StopSteps
<1>6. CASE c = "restart"
  BY <1>6 DEF RestartSteps
<1>7. CASE c \in {"clean", "cleanlog"}
  BY <1>7 DEF CleanSteps
<1>. QED
  BY <1>1, <1>2, <1>3, <1>4, <1>5, <1>6, <1>7 DEF CommandName

\* Only clean and upgrade have a step that cleans.
LEMMA CleanCommands ==
  ASSUME NEW c \in CommandName, NEW ss \in SUBSET Service,
         NEW i \in 1 .. Len(Playbook(c, ss)), Playbook(c, ss)[i].type = "CLEAN_SERVICE"
  PROVE  c \in {"clean", "cleanlog", "upgrade"}
<1>. USE DEF Playbook, On
<1>1. CASE c = "deploy"
  BY <1>1 DEF DeploySteps
<1>2. CASE c \in {"start", "stop", "restart", "reload"}
  BY <1>2 DEF StartSteps, StopSteps, RestartSteps, ReloadSteps
<1>. QED
  BY <1>1, <1>2 DEF CommandName

\* An upgrade creates containers after it has cleaned the same services.
LEMMA UpgradeCleans ==
  ASSUME NEW ss \in SUBSET Service, NEW i \in 1 .. Len(Playbook("upgrade", ss)),
         Playbook("upgrade", ss)[i].type = "CREATE_CONTAINER"
  PROVE  /\ i = 4 /\ Playbook("upgrade", ss)[i].on = ss
         /\ Playbook("upgrade", ss)[2] = On("CLEAN_SERVICE", ss)
BY DEF Playbook, UpgradeSteps, On

-----------------------------------------------------------------------------

\* What the position in the playbook says of the step being executed, and of
\* what is left after it.
LEMMA StepFacts ==
  ASSUME TypeOK, Commanded, cmd # Idle
  PROVE  /\ cmd \in CommandName /\ targets \in SUBSET Service
         /\ Whole \in Seq(StepRecord) /\ Len(Whole) \in Nat /\ Len(todo) \in Nat
         /\ Pos \in 0 .. Len(Whole)
         /\ \A i \in 1 .. Len(Whole) : Whole[i] \in StepRecord
         /\ todo # << >> => /\ Pos + 1 \in 1 .. Len(Whole)
                            /\ Step = Whole[Pos + 1] /\ Step \in StepRecord
                            /\ Len(Tail(todo)) = Len(todo) - 1
                            /\ \A i \in 1 .. Len(Tail(todo)) : Tail(todo)[i] = todo[i + 1]
         /\ todo = << >> => Pos = Len(Whole)
<1>1. cmd \in CommandName /\ targets \in SUBSET Service
  BY CommandAssumption DEF TypeOK
<1>2. Whole \in Seq(StepRecord)
  BY <1>1, PlaybookType DEF Whole
<1>3. todo \in Seq(StepRecord)
  BY DEF TypeOK, StepRecord
<1>4. Len(Whole) \in Nat /\ Len(todo) \in Nat
  BY <1>2, <1>3, LenProperties
<1>5. Pos \in 0 .. Len(Whole)
  BY DEF Commanded
<1>6. \A i \in 1 .. Len(Whole) : Whole[i] \in StepRecord
  BY <1>2, ElementOfSeq
<1>7. ASSUME todo # << >>
      PROVE  /\ Pos + 1 \in 1 .. Len(Whole)
             /\ Step = Whole[Pos + 1] /\ Step \in StepRecord
             /\ Len(Tail(todo)) = Len(todo) - 1
             /\ \A i \in 1 .. Len(Tail(todo)) : Tail(todo)[i] = todo[i + 1]
  <2>1. /\ Len(Tail(todo)) = Len(todo) - 1 /\ Step \in StepRecord /\ Len(todo) >= 1
        /\ \A i \in 1 .. Len(Tail(todo)) : Tail(todo)[i] = todo[i + 1]
    BY <1>3, <1>4, <1>7, HeadTailProperties, EmptySeq DEF Step
  <2>2. Step = todo[1]
    BY <1>3, <1>7 DEF Step
  <2>3. Step = Whole[Pos + 1]
    BY <2>1, <2>2, <1>4 DEF Commanded
  <2>. QED
    BY <2>1, <2>3, <1>4, <1>5 DEF Pos
<1>8. todo = << >> => Pos = Len(Whole)
  BY <1>4 DEF Pos
<1>. QED
  BY <1>1, <1>2, <1>4, <1>5, <1>6, <1>7, <1>8

\* createTasks begins a service's task at a step of the type, unless it skips
\* the service, and at "files" only if the service has no disk in the database.
LEMMA FirstStepFacts ==
  ASSUME TypeOK, Step \in StepRecord, NEW s \in Service
  PROVE  /\ FirstStep(s) \in StepsOf(Step.type) \cup {"none"}
         /\ FirstStep(s) = "none" <=> NeedsRecord(Step.type) /\ IsSkip(s)
         /\ FirstStep(s) \in {"none", "pull", "getService", "sync", "list", "stop", "listRestart",
                              "pool", "balance", "unbind", "files"}
         /\ FirstStep(s) = "files" => ~ bound[s]
         /\ Step.type \in {"PULL_IMAGE"} <=> FirstStep(s) = "pull"
         /\ Step.type \in {"CREATE_CONTAINER"} <=> FirstStep(s) = "getService"
BY DEF FirstStep, StepsOf, StepRecord, StepType, NeedsRecord

\* The invariant holds before the first command.
LEMMA InitIInv == Init => IInv
<1>. SUFFICES ASSUME Init PROVE IInv
  OBVIOUS
<1>1. TypeOK
  BY FaultAssumption, EmptySeq DEF Init, TypeOK, Ended, Record, NoRecord, NoContainer, Idle
<1>2. Commanded /\ Tasked /\ ~ Working
  BY DEF Init, Commanded, Tasked, Ended, Working
<1>3. \A s \in Service : Located(s) /\ Placed(s)
  BY DEF Init, Located, Placed, Recorded, ContainerId, NoRecord, NoContainer, StepsOf,
     RecordSteps, TaskStep
<1>4. Progress /\ SuccessMeansAchieved
  BY <1>2 DEF Init, Over, Through, Progress, SuccessMeansAchieved
<1>. QED
  BY <1>1, <1>2, <1>3, <1>4 DEF IInv

-----------------------------------------------------------------------------

\* A step leaves all but one service, and the command, as they are.
Alone(s) ==
  /\ UNCHANGED command
  /\ \A t \in Service \ {s} :
       /\ record'[t] = record[t] /\ bound'[t] = bound[t]
       /\ cid'[t] = cid[t] /\ status'[t] = status[t] /\ synced'[t] = synced[t]
       /\ at'[t] = at[t] /\ old'[t] = old[t] /\ cont'[t] = cont[t]
       /\ mounted'[t] = mounted[t] /\ found'[t] = found[t]
       /\ t \in fresh' <=> t \in fresh

\* A step of a task touches its own service only.
LEMMA TaskAlone ==
  ASSUME TypeOK, NEW s \in Service, TaskWork(s) \/ StepFails(s)
  PROVE  Alone(s)
<1>. USE DEF Alone, TypeOK, Proceed, Goto, Failure, database, docker, host, command, locals
<1>1. CASE PullImage(s)
  BY <1>1 DEF PullImage
<1>2. CASE GetService(s)
  BY <1>2 DEF GetService
<1>3. CASE CreateContainer(s)
  BY <1>3 DEF CreateContainer
<1>4. CASE InsertService(s)
  BY <1>4 DEF InsertService
<1>5. CASE UmountCreated(s)
  BY <1>5 DEF UmountCreated
<1>6. CASE SyncConfig(s)
  BY <1>6 DEF SyncConfig
<1>7. CASE ListContainers(s)
  BY <1>7 DEF ListContainers
<1>8. CASE Umount(s)
  BY <1>8 DEF Umount
<1>9. CASE StartContainer(s)
  BY <1>9 DEF StartContainer, Run
<1>10. CASE CheckPostStart(s)
  BY <1>10 DEF CheckPostStart
<1>11. CASE CreatePool(s)
  BY <1>11 DEF CreatePool
<1>12. CASE BalanceLeader(s)
  BY <1>12 DEF BalanceLeader
<1>13. CASE StopContainer(s)
  BY <1>13 DEF StopContainer
<1>14. CASE ListContainersRestart(s)
  BY <1>14 DEF ListContainersRestart
<1>15. CASE RestartContainer(s)
  BY <1>15 DEF RestartContainer, Run
<1>16. CASE CleanDiskChunkServerId(s)
  BY <1>16 DEF CleanDiskChunkServerId
<1>17. CASE MountBack(s)
  BY <1>17 DEF MountBack
<1>18. CASE RemoveFiles(s)
  BY <1>18 DEF RemoveFiles
<1>19. CASE RemoveContainer(s)
  BY <1>19 DEF RemoveContainer, Vanish
<1>20. CASE ForgetContainer(s)
  BY <1>20 DEF ForgetContainer
<1>21. CASE StepFails(s)
  BY <1>21 DEF StepFails
<1>. QED
  BY <1>1, <1>2, <1>3, <1>4, <1>5, <1>6, <1>7, <1>8, <1>9, <1>10, <1>11, <1>12, <1>13, <1>14,
     <1>15, <1>16, <1>17, <1>18, <1>19, <1>20, <1>21 DEF TaskWork

\* docker has an unused container id when it creates one.
LEMMA FreshIdType ==
  ASSUME NEW s \in Service, Located(s), Placed(s), at[s] = "create", status[s] = "absent"
  PROVE  FreshId(s) \in ContainerId
<1>1. cid[s] = NoContainer /\ old[s] = record[s] /\ record[s] \notin ContainerId
  BY DEF Located, Placed, Recorded
<1>. QED
  BY <1>1 DEF FreshId, ContainerId, NoContainer

\* However a step ends, the task is at a step or has ended.
LEMMA AtType ==
  ASSUME TypeOK, NEW s \in Service, NEW x \in Ended \cup TaskStep,
         Proceed(s, x) \/ Goto(s, x) \/ (Failure("lost") /\ at' = [at EXCEPT ![s] = x])
  PROVE  at' \in [Service -> Ended \cup TaskStep] /\ faults' \in 0 .. MaxFaults
BY FaultAssumption DEF TypeOK, Proceed, Goto, Failure, Ended

\* A step of a task preserves the types.
LEMMA TaskType ==
  ASSUME TypeOK, NEW s \in Service, Located(s), Placed(s), TaskWork(s) \/ StepFails(s)
  PROVE  TypeOK'
<1>. USE FaultAssumption DEF TypeOK, Proceed, Goto, Failure, Ended, TaskStep, database,
         docker, host, command, locals
<1>1. CASE PullImage(s)
  BY <1>1 DEF PullImage
<1>2. CASE GetService(s)
  BY <1>2 DEF GetService
<1>3. CASE CreateContainer(s)
  <2>1. ASSUME status[s] = "absent" PROVE FreshId(s) \in ContainerId
    BY <1>3, <2>1, FreshIdType DEF CreateContainer
  <2>2. /\ cid' \in [Service -> ContainerId \cup {NoContainer}]
        /\ cont' \in [Service -> Record]
        /\ status' \in [Service -> {"absent", "created", "running", "exited"}]
        /\ synced' \in [Service -> BOOLEAN]
        /\ fresh' \in SUBSET Service
    <3>1. CASE status[s] = "absent"
      <4>1. FreshId(s) \in ContainerId /\ FreshId(s) \in Record
        BY <2>1, <3>1 DEF Record
      <4>2. /\ cid' = [cid EXCEPT ![s] = FreshId(s)]
            /\ cont' = [cont EXCEPT ![s] = FreshId(s)]
            /\ status' = [status EXCEPT ![s] = "created"]
            /\ synced' = [synced EXCEPT ![s] = FALSE]
            /\ fresh' = fresh \cup {s}
        BY <1>3, <3>1 DEF CreateContainer
      <4>. QED
        BY <4>1, <4>2
    <3>2. CASE status[s] # "absent"
      BY <1>3, <3>2 DEF CreateContainer
    <3>. QED
      BY <3>1, <3>2
  <2>3. at' \in [Service -> Ended \cup TaskStep] /\ faults' \in 0 .. MaxFaults
    BY <1>3, AtType DEF CreateContainer
  <2>. QED
    BY <1>3, <2>2, <2>3 DEF CreateContainer
<1>4. CASE InsertService(s)
  BY <1>4 DEF InsertService
<1>5. CASE UmountCreated(s)
  <2>1. mounted' \in [Service -> BOOLEAN]
    BY <1>5 DEF UmountCreated
  <2>2. at' \in [Service -> Ended \cup TaskStep] /\ faults' \in 0 .. MaxFaults
    BY <1>5, AtType DEF UmountCreated
  <2>. QED
    BY <1>5, <2>1, <2>2 DEF UmountCreated
<1>6. CASE SyncConfig(s)
  <2>1. synced' \in [Service -> BOOLEAN]
    BY <1>6 DEF SyncConfig
  <2>2. at' \in [Service -> Ended \cup TaskStep] /\ faults' \in 0 .. MaxFaults
    BY <1>6, AtType DEF SyncConfig
  <2>. QED
    BY <1>6, <2>1, <2>2 DEF SyncConfig
<1>7. CASE ListContainers(s)
  BY <1>7 DEF ListContainers
<1>8. CASE Umount(s)
  BY <1>8 DEF Umount
<1>9. CASE StartContainer(s)
  BY <1>9 DEF StartContainer, Run
<1>10. CASE CheckPostStart(s)
  BY <1>10 DEF CheckPostStart
<1>11. CASE CreatePool(s)
  BY <1>11 DEF CreatePool
<1>12. CASE BalanceLeader(s)
  BY <1>12 DEF BalanceLeader
<1>13. CASE StopContainer(s)
  BY <1>13 DEF StopContainer
<1>14. CASE ListContainersRestart(s)
  BY <1>14 DEF ListContainersRestart
<1>15. CASE RestartContainer(s)
  BY <1>15 DEF RestartContainer, Run
<1>16. CASE CleanDiskChunkServerId(s)
  BY <1>16 DEF CleanDiskChunkServerId
<1>17. CASE MountBack(s)
  <2>1. mounted' \in [Service -> BOOLEAN]
    BY <1>17 DEF MountBack
  <2>2. at' \in [Service -> Ended \cup TaskStep] /\ faults' \in 0 .. MaxFaults
    BY <1>17, AtType DEF MountBack
  <2>. QED
    BY <1>17, <2>1, <2>2 DEF MountBack
<1>18. CASE RemoveFiles(s)
  BY <1>18 DEF RemoveFiles
<1>19. CASE RemoveContainer(s)
  <2>1. /\ cid' \in [Service -> ContainerId \cup {NoContainer}]
        /\ status' \in [Service -> {"absent", "created", "running", "exited"}]
        /\ synced' \in [Service -> BOOLEAN]
    BY <1>19 DEF RemoveContainer, Vanish
  <2>2. at' \in [Service -> Ended \cup TaskStep] /\ faults' \in 0 .. MaxFaults
    BY <1>19, AtType DEF RemoveContainer
  <2>. QED
    BY <1>19, <2>1, <2>2 DEF RemoveContainer
<1>20. CASE ForgetContainer(s)
  BY <1>20 DEF ForgetContainer, Record
<1>21. CASE StepFails(s)
  BY <1>21 DEF StepFails
<1>. QED
  BY <1>1, <1>2, <1>3, <1>4, <1>5, <1>6, <1>7, <1>8, <1>9, <1>10, <1>11, <1>12, <1>13, <1>14,
     <1>15, <1>16, <1>17, <1>18, <1>19, <1>20, <1>21 DEF TaskWork
\* A step of a task keeps the places that know of the container in agreement.
LEMMA TaskLocated ==
  ASSUME TypeOK, NEW s \in Service, Located(s), Placed(s), TaskWork(s) \/ StepFails(s)
  PROVE  Located(s)'
<1>. USE DEF TypeOK, Located, Placed, Recorded, RecordSteps, StepsOf, TaskStep, ContainerId,
         NoContainer, NoRecord, Cleaned, Exists, database, docker, host, command, locals
<1>1. CASE PullImage(s)
  BY <1>1 DEF PullImage
<1>2. CASE GetService(s)
  BY <1>2 DEF GetService
<1>3. CASE CreateContainer(s)
  <2>1. CASE status[s] = "absent"
    <3>1. FreshId(s) \in ContainerId
      BY <1>3, <2>1, FreshIdType DEF CreateContainer
    <3>. QED
      BY <1>3, <2>1, <3>1 DEF CreateContainer
  <2>2. CASE status[s] # "absent"
    BY <1>3, <2>2 DEF CreateContainer
  <2>. QED
    BY <2>1, <2>2
<1>4. CASE InsertService(s)
  BY <1>4 DEF InsertService
<1>5. CASE UmountCreated(s)
  BY <1>5 DEF UmountCreated
<1>6. CASE SyncConfig(s)
  BY <1>6 DEF SyncConfig
<1>7. CASE ListContainers(s)
  BY <1>7 DEF ListContainers
<1>8. CASE Umount(s)
  BY <1>8 DEF Umount
<1>9. CASE StartContainer(s)
  BY <1>9 DEF StartContainer, Run
<1>10. CASE CheckPostStart(s)
  BY <1>10 DEF CheckPostStart
<1>11. CASE CreatePool(s)
  BY <1>11 DEF CreatePool
<1>12. CASE BalanceLeader(s)
  BY <1>12 DEF BalanceLeader
<1>13. CASE StopContainer(s)
  BY <1>13 DEF StopContainer
<1>14. CASE ListContainersRestart(s)
  BY <1>14 DEF ListContainersRestart
<1>15. CASE RestartContainer(s)
  BY <1>15 DEF RestartContainer, Run
<1>16. CASE CleanDiskChunkServerId(s)
  BY <1>16 DEF CleanDiskChunkServerId
<1>17. CASE MountBack(s)
  BY <1>17 DEF MountBack
<1>18. CASE RemoveFiles(s)
  BY <1>18 DEF RemoveFiles
<1>19. CASE RemoveContainer(s)
  BY <1>19 DEF RemoveContainer, Vanish
<1>20. CASE ForgetContainer(s)
  BY <1>20 DEF ForgetContainer
<1>21. CASE StepFails(s)
  BY <1>21 DEF StepFails
<1>. QED
  BY <1>1, <1>2, <1>3, <1>4, <1>5, <1>6, <1>7, <1>8, <1>9, <1>10, <1>11, <1>12, <1>13, <1>14,
     <1>15, <1>16, <1>17, <1>18, <1>19, <1>20, <1>21 DEF TaskWork

\* A step of a task leaves it where it can rely on what it relies on there.
LEMMA TaskPlaced ==
  ASSUME TypeOK, NEW s \in Service, Located(s), Placed(s), TaskWork(s) \/ StepFails(s)
  PROVE  Placed(s)'
<1>. USE DEF TypeOK, Proceed, Goto, Located, Placed, Recorded, RecordSteps, StepsOf, TaskStep,
         ContainerId, NoContainer, NoRecord, Cleaned, Exists, CleansContainer, RowWritten, MustCreate,
         Record, database, docker, host, command, locals
<1>1. CASE PullImage(s)
  BY <1>1 DEF PullImage
<1>2. CASE GetService(s)
  BY <1>2 DEF GetService
<1>3. CASE CreateContainer(s)
  <2>1. CASE status[s] = "absent"
    <3>1. FreshId(s) \in ContainerId
      BY <1>3, <2>1, FreshIdType DEF CreateContainer
    <3>. QED
      BY <1>3, <2>1, <3>1 DEF CreateContainer
  <2>2. CASE status[s] # "absent"
    BY <1>3, <2>2 DEF CreateContainer
  <2>. QED
    BY <2>1, <2>2
<1>4. CASE InsertService(s)
  BY <1>4 DEF InsertService
<1>5. CASE UmountCreated(s)
  BY <1>5 DEF UmountCreated
<1>6. CASE SyncConfig(s)
  BY <1>6 DEF SyncConfig
<1>7. CASE ListContainers(s)
  BY <1>7 DEF ListContainers
<1>8. CASE Umount(s)
  BY <1>8 DEF Umount
<1>9. CASE StartContainer(s)
  BY <1>9 DEF StartContainer, Run
<1>10. CASE CheckPostStart(s)
  BY <1>10 DEF CheckPostStart
<1>11. CASE CreatePool(s)
  BY <1>11 DEF CreatePool
<1>12. CASE BalanceLeader(s)
  BY <1>12 DEF BalanceLeader
<1>13. CASE StopContainer(s)
  BY <1>13 DEF StopContainer
<1>14. CASE ListContainersRestart(s)
  BY <1>14 DEF ListContainersRestart
<1>15. CASE RestartContainer(s)
  BY <1>15 DEF RestartContainer, Run
<1>16. CASE CleanDiskChunkServerId(s)
  BY <1>16 DEF CleanDiskChunkServerId
<1>17. CASE MountBack(s)
  BY <1>17 DEF MountBack
<1>18. CASE RemoveFiles(s)
  BY <1>18 DEF RemoveFiles
<1>19. CASE RemoveContainer(s)
  BY <1>19 DEF RemoveContainer, Vanish
<1>20. CASE ForgetContainer(s)
  BY <1>20 DEF ForgetContainer
<1>21. CASE StepFails(s)
  BY <1>21 DEF StepFails
<1>. QED
  BY <1>1, <1>2, <1>3, <1>4, <1>5, <1>6, <1>7, <1>8, <1>9, <1>10, <1>11, <1>12, <1>13, <1>14,
     <1>15, <1>16, <1>17, <1>18, <1>19, <1>20, <1>21 DEF TaskWork

\* A task stays within the steps of its type until it has ended.
LEMMA TaskAt ==
  ASSUME TypeOK, NEW s \in Service, Located(s), Placed(s), TaskWork(s) \/ StepFails(s),
         NEW type \in StepType, at[s] \in StepsOf(type)
  PROVE  at'[s] \in StepsOf(type) \cup {"ok", "skip", "error"}
<1>. USE DEF TypeOK, Proceed, Goto, Failure, StepsOf, StepType, TaskStep
<1>1. CASE PullImage(s)
  BY <1>1 DEF PullImage
<1>2. CASE GetService(s)
  BY <1>2 DEF GetService
<1>3. CASE CreateContainer(s)
  BY <1>3 DEF CreateContainer
<1>4. CASE InsertService(s)
  BY <1>4 DEF InsertService
<1>5. CASE UmountCreated(s)
  BY <1>5 DEF UmountCreated
<1>6. CASE SyncConfig(s)
  BY <1>6 DEF SyncConfig
<1>7. CASE ListContainers(s)
  BY <1>7 DEF ListContainers
<1>8. CASE Umount(s)
  BY <1>8 DEF Umount
<1>9. CASE StartContainer(s)
  BY <1>9 DEF StartContainer, Run
<1>10. CASE CheckPostStart(s)
  BY <1>10 DEF CheckPostStart
<1>11. CASE CreatePool(s)
  BY <1>11 DEF CreatePool
<1>12. CASE BalanceLeader(s)
  BY <1>12 DEF BalanceLeader
<1>13. CASE StopContainer(s)
  BY <1>13 DEF StopContainer
<1>14. CASE ListContainersRestart(s)
  BY <1>14 DEF ListContainersRestart
<1>15. CASE RestartContainer(s)
  BY <1>15 DEF RestartContainer, Run
<1>16. CASE CleanDiskChunkServerId(s)
  BY <1>16 DEF CleanDiskChunkServerId
<1>17. CASE MountBack(s)
  BY <1>17 DEF MountBack
<1>18. CASE RemoveFiles(s)
  BY <1>18 DEF RemoveFiles
<1>19. CASE RemoveContainer(s)
  BY <1>19 DEF RemoveContainer, Vanish
<1>20. CASE ForgetContainer(s)
  BY <1>20 DEF ForgetContainer
<1>21. CASE StepFails(s)
  BY <1>21 DEF StepFails
<1>. QED
  BY <1>1, <1>2, <1>3, <1>4, <1>5, <1>6, <1>7, <1>8, <1>9, <1>10, <1>11, <1>12, <1>13, <1>14,
     <1>15, <1>16, <1>17, <1>18, <1>19, <1>20, <1>21 DEF TaskWork

\* A task that ends well has achieved what its playbook step is for.
LEMMA TaskAchieves ==
  ASSUME TypeOK, NEW s \in Service, Located(s), Placed(s), TaskWork(s) \/ StepFails(s),
         NEW type \in StepType, at[s] \in StepsOf(type),
         type = "CREATE_CONTAINER" /\ cmd = "upgrade" => Achieves("CLEAN_SERVICE", s),
         type = "CLEAN_SERVICE" => cmd \in {"clean", "cleanlog", "upgrade"}
  PROVE  at'[s] \in {"ok", "skip"} => Achieves(type, s)'
<1>. USE DEF Achieves, Running, IsSkip, TypeOK, Proceed, Goto, Failure, Located, Placed,
         Recorded, RecordSteps, StepsOf, StepType, TaskStep, NoContainer, NoRecord, Cleaned, Exists,
         CleansContainer, RowWritten, MustCreate, database, docker, host, command, locals
<1>1. CASE PullImage(s)
  BY <1>1 DEF PullImage
<1>2. CASE GetService(s)
  <2>1. type = "CREATE_CONTAINER"
    BY <1>2 DEF GetService
  <2>. QED
    BY <1>2, <2>1 DEF GetService, Record
<1>3. CASE CreateContainer(s)
  <2>1. CASE status[s] = "absent"
    <3>1. FreshId(s) \in ContainerId
      BY <1>3, <2>1, FreshIdType DEF CreateContainer
    <3>. QED
      BY <1>3, <2>1, <3>1 DEF CreateContainer
  <2>2. CASE status[s] # "absent"
    BY <1>3, <2>2 DEF CreateContainer
  <2>. QED
    BY <2>1, <2>2
<1>4. CASE InsertService(s)
  BY <1>4 DEF InsertService
<1>5. CASE UmountCreated(s)
  BY <1>5 DEF UmountCreated
<1>6. CASE SyncConfig(s)
  BY <1>6 DEF SyncConfig
<1>7. CASE ListContainers(s)
  BY <1>7 DEF ListContainers
<1>8. CASE Umount(s)
  BY <1>8 DEF Umount
<1>9. CASE StartContainer(s)
  BY <1>9 DEF StartContainer, Run
<1>10. CASE CheckPostStart(s)
  BY <1>10 DEF CheckPostStart
<1>11. CASE CreatePool(s)
  BY <1>11 DEF CreatePool
<1>12. CASE BalanceLeader(s)
  BY <1>12 DEF BalanceLeader
<1>13. CASE StopContainer(s)
  <2>1. type = "STOP_SERVICE" /\ cid[s] # Cleaned
    BY <1>13 DEF StopContainer, ContainerId
  <2>2. at'[s] \in {"ok", "skip"} => status'[s] # "running"
    BY <1>13, <2>1 DEF StopContainer
  <2>. QED
    BY <1>13, <2>1, <2>2 DEF StopContainer
<1>14. CASE ListContainersRestart(s)
  BY <1>14 DEF ListContainersRestart
<1>15. CASE RestartContainer(s)
  BY <1>15 DEF RestartContainer, Run
<1>16. CASE CleanDiskChunkServerId(s)
  BY <1>16 DEF CleanDiskChunkServerId
<1>17. CASE MountBack(s)
  BY <1>17 DEF MountBack
<1>18. CASE RemoveFiles(s)
  BY <1>18 DEF RemoveFiles
<1>19. CASE RemoveContainer(s)
  <2>1. type = "CLEAN_SERVICE"
    BY <1>19 DEF RemoveContainer
  <2>2. at'[s] \in {"ok", "skip"} => record[s] = Cleaned /\ ~ Recorded(s)
    BY <1>19 DEF RemoveContainer, ContainerId
  <2>. QED
    BY <1>19, <2>1, <2>2 DEF RemoveContainer
<1>20. CASE ForgetContainer(s)
  <2>1. type = "CLEAN_SERVICE"
    BY <1>20 DEF ForgetContainer
  <2>2. record'[s] = Cleaned /\ ~ Recorded(s)'
    BY <1>20 DEF ForgetContainer, ContainerId
  <2>. QED
    BY <1>20, <2>1, <2>2 DEF ForgetContainer
<1>21. CASE StepFails(s)
  BY <1>21 DEF StepFails
<1>. QED
  BY <1>1, <1>2, <1>3, <1>4, <1>5, <1>6, <1>7, <1>8, <1>9, <1>10, <1>11, <1>12, <1>13, <1>14,
     <1>15, <1>16, <1>17, <1>18, <1>19, <1>20, <1>21 DEF TaskWork

\* A task does not undo what the command's earlier steps achieved.
LEMMA TaskKeeps ==
  ASSUME TypeOK, NEW s \in Service, Located(s), Placed(s), TaskWork(s) \/ StepFails(s),
         NEW type \in StepType, at[s] \in StepsOf(type),
         NEW earlier \in StepType, Achieves(earlier, s), Precedes(earlier, type),
         earlier \in {"STOP_SERVICE", "CLEAN_SERVICE"} => cmd = "upgrade"
  PROVE  Achieves(earlier, s)'
<1>. USE DEF Achieves, Running, IsSkip, Precedes, Rank, TypeOK, Proceed, Goto, Failure,
         Located, Placed, Recorded, RecordSteps, StepsOf, StepType, TaskStep, NoContainer, NoRecord,
         Cleaned, Exists, CleansContainer, RowWritten, MustCreate, database, docker, host, command,
         locals
<1>1. CASE PullImage(s)
  BY <1>1 DEF PullImage
<1>2. CASE GetService(s)
  BY <1>2 DEF GetService
<1>3. CASE CreateContainer(s)
  <2>1. CASE status[s] = "absent"
    <3>1. FreshId(s) \in ContainerId
      BY <1>3, <2>1, FreshIdType DEF CreateContainer
    <3>. QED
      BY <1>3, <2>1, <3>1 DEF CreateContainer
  <2>2. CASE status[s] # "absent"
    BY <1>3, <2>2 DEF CreateContainer
  <2>. QED
    BY <2>1, <2>2
<1>4. CASE InsertService(s)
  BY <1>4 DEF InsertService
<1>5. CASE UmountCreated(s)
  BY <1>5 DEF UmountCreated
<1>6. CASE SyncConfig(s)
  BY <1>6 DEF SyncConfig
<1>7. CASE ListContainers(s)
  BY <1>7 DEF ListContainers
<1>8. CASE Umount(s)
  BY <1>8 DEF Umount
<1>9. CASE StartContainer(s)
  BY <1>9 DEF StartContainer, Run
<1>10. CASE CheckPostStart(s)
  BY <1>10 DEF CheckPostStart
<1>11. CASE CreatePool(s)
  BY <1>11 DEF CreatePool
<1>12. CASE BalanceLeader(s)
  BY <1>12 DEF BalanceLeader
<1>13. CASE StopContainer(s)
  BY <1>13 DEF StopContainer
<1>14. CASE ListContainersRestart(s)
  BY <1>14 DEF ListContainersRestart
<1>15. CASE RestartContainer(s)
  BY <1>15 DEF RestartContainer, Run
<1>16. CASE CleanDiskChunkServerId(s)
  BY <1>16 DEF CleanDiskChunkServerId
<1>17. CASE MountBack(s)
  BY <1>17 DEF MountBack
<1>18. CASE RemoveFiles(s)
  BY <1>18 DEF RemoveFiles
<1>19. CASE RemoveContainer(s)
  BY <1>19 DEF RemoveContainer, Vanish
<1>20. CASE ForgetContainer(s)
  BY <1>20 DEF ForgetContainer
<1>21. CASE StepFails(s)
  BY <1>21 DEF StepFails
<1>. QED
  BY <1>1, <1>2, <1>3, <1>4, <1>5, <1>6, <1>7, <1>8, <1>9, <1>10, <1>11, <1>12, <1>13, <1>14,
     <1>15, <1>16, <1>17, <1>18, <1>19, <1>20, <1>21 DEF TaskWork

\* Only a task that has not ended acts.
LEMMA TaskActs ==
  ASSUME TypeOK, NEW s \in Service, TaskWork(s) \/ StepFails(s)
  PROVE  at[s] \in TaskStep
<1>. USE DEF TaskStep
<1>1. CASE PullImage(s)
  BY <1>1 DEF PullImage
<1>2. CASE GetService(s)
  BY <1>2 DEF GetService
<1>3. CASE CreateContainer(s)
  BY <1>3 DEF CreateContainer
<1>4. CASE InsertService(s)
  BY <1>4 DEF InsertService
<1>5. CASE UmountCreated(s)
  BY <1>5 DEF UmountCreated
<1>6. CASE SyncConfig(s)
  BY <1>6 DEF SyncConfig
<1>7. CASE ListContainers(s)
  BY <1>7 DEF ListContainers
<1>8. CASE Umount(s)
  BY <1>8 DEF Umount
<1>9. CASE StartContainer(s)
  BY <1>9 DEF StartContainer, Run
<1>10. CASE CheckPostStart(s)
  BY <1>10 DEF CheckPostStart
<1>11. CASE CreatePool(s)
  BY <1>11 DEF CreatePool
<1>12. CASE BalanceLeader(s)
  BY <1>12 DEF BalanceLeader
<1>13. CASE StopContainer(s)
  BY <1>13 DEF StopContainer
<1>14. CASE ListContainersRestart(s)
  BY <1>14 DEF ListContainersRestart
<1>15. CASE RestartContainer(s)
  BY <1>15 DEF RestartContainer, Run
<1>16. CASE CleanDiskChunkServerId(s)
  BY <1>16 DEF CleanDiskChunkServerId
<1>17. CASE MountBack(s)
  BY <1>17 DEF MountBack
<1>18. CASE RemoveFiles(s)
  BY <1>18 DEF RemoveFiles
<1>19. CASE RemoveContainer(s)
  BY <1>19 DEF RemoveContainer, Vanish
<1>20. CASE ForgetContainer(s)
  BY <1>20 DEF ForgetContainer
<1>21. CASE StepFails(s)
  BY <1>21 DEF StepFails
<1>. QED
  BY <1>1, <1>2, <1>3, <1>4, <1>5, <1>6, <1>7, <1>8, <1>9, <1>10, <1>11, <1>12, <1>13, <1>14,
     <1>15, <1>16, <1>17, <1>18, <1>19, <1>20, <1>21 DEF TaskWork

\* What was true of a service stays true when another one's task acts.
LEMMA OthersKept ==
  ASSUME NEW s \in Service, NEW t \in Service \ {s}, Alone(s)
  PROVE  /\ Located(t) => Located(t)'
         /\ Placed(t) => Placed(t)'
         /\ \A type \in StepType : Achieves(type, t) => Achieves(type, t)'
<1>. USE DEF Alone, command
<1>1. Located(t) => Located(t)'
  BY DEF Located, Recorded
<1>2. Placed(t) => Placed(t)'
  BY DEF Placed, Recorded, CleansContainer
<1>3. ASSUME NEW type \in StepType, Achieves(type, t)
      PROVE  Achieves(type, t)'
  BY <1>3 DEF Achieves, Recorded, Running, IsSkip, StepType
<1>. QED
  BY <1>1, <1>2, <1>3

\* A step of a task preserves the invariant.
LEMMA TaskInvariant ==
  ASSUME IInv, NEW s \in Service, TaskWork(s) \/ StepFails(s)
  PROVE  IInv'
<1>. USE DEF IInv
<1>1. /\ at[s] \in TaskStep /\ Alone(s) /\ Located(s) /\ Placed(s)
      /\ UNCHANGED <<cmd, targets, todo, last>>
  BY TaskActs, TaskAlone DEF Alone, command
<1>2. /\ cmd # Idle /\ todo # << >> /\ s \in Step.on /\ at[s] \in StepsOf(Step.type)
      /\ Working
  BY <1>1 DEF Commanded, Tasked, Ended, TaskStep, Working
<1>3. /\ cmd \in CommandName /\ targets \in SUBSET Service
      /\ Pos \in 0 .. Len(Whole) /\ Pos + 1 \in 1 .. Len(Whole) /\ Len(Whole) \in Nat
      /\ Step = Whole[Pos + 1] /\ Step \in StepRecord /\ Step.type \in StepType
      /\ \A i \in 1 .. Len(Whole) : Whole[i].type \in StepType /\ Whole[i].on \subseteq Service
  BY <1>2, StepFacts DEF StepRecord
<1>4. UNCHANGED <<Whole, Pos, Step>>
  BY <1>1 DEF Whole, Pos, Step
<1>5. TypeOK'
  BY <1>1, TaskType
<1>6. Commanded'
  BY <1>1, <1>2, <1>4 DEF Commanded
<1>7. \A t \in Service : Located(t)' /\ Placed(t)'
  BY <1>1, TaskLocated, TaskPlaced, OthersKept
<1>8. at'[s] \in StepsOf(Step.type) \cup {"ok", "skip", "error"}
  BY <1>1, <1>2, <1>3, TaskAt
<1>9. Tasked'
  <2>1. at'[s] # "none"
    BY <1>3, <1>8 DEF StepsOf, StepType
  <2>2. \A t \in Service \ {s} : at'[t] = at[t] /\ record'[t] = record[t]
    BY <1>1 DEF Alone
  <2>3. \A t \in Service : at[t]' # "none" => todo' # << >> /\ t \in Step'.on
    BY <1>1, <1>2, <1>4, <2>2 DEF Tasked
  <2>4. \A t \in Service : at[t]' \notin Ended => at[t]' \in StepsOf(Step'.type)
    BY <1>4, <1>8, <2>2 DEF Tasked, Ended
  <2>5. \A t \in Step'.on : at[t]' = "none" => NeedsRecord(Step'.type) /\ IsSkip(t)'
    BY <1>2, <1>3, <1>4, <2>1, <2>2 DEF Tasked, IsSkip, StepRecord
  <2>. QED
    BY <2>3, <2>4, <2>5 DEF Tasked
<1>10. ASSUME NEW type \in StepType, NEW t \in Service, Over(type, t)
       PROVE  Achieves(type, t)'
  <2>1. PICK i \in 1 .. Pos : Whole[i].type = type /\ t \in Whole[i].on
    BY <1>10 DEF Over
  <2>2. i \in 1 .. Len(Whole) /\ i < Pos + 1
    BY <1>3
  <2>3. /\ Precedes(type, Step.type)
        /\ type \in {"STOP_SERVICE", "CLEAN_SERVICE"} => cmd = "upgrade"
    BY <1>3, <2>1, <2>2, PlaybookOrder DEF Whole
  <2>4. Achieves(type, t)
    BY <1>10 DEF Progress
  <2>5. CASE t = s
    BY <1>1, <1>2, <1>3, <2>3, <2>4, <2>5, TaskKeeps
  <2>6. CASE t # s
    BY <1>1, <2>4, <2>6, OthersKept
  <2>. QED
    BY <2>5, <2>6
<1>11. ASSUME NEW type \in StepType, NEW t \in Service, type = Step.type, t \in Step.on,
              at'[t] \in {"none", "ok", "skip"}
       PROVE  Achieves(type, t)'
  <2>1. CASE t = s
    <3>1. at'[s] \in {"ok", "skip"}
      BY <1>3, <1>8, <1>11, <2>1 DEF StepsOf, StepType
    <3>2. type = "CREATE_CONTAINER" /\ cmd = "upgrade" => Achieves("CLEAN_SERVICE", s)
      <4>1. SUFFICES ASSUME type = "CREATE_CONTAINER", cmd = "upgrade"
                     PROVE  Over("CLEAN_SERVICE", s)
        BY DEF Progress, StepType
      <4>2. Pos + 1 = 4 /\ Whole[2] = On("CLEAN_SERVICE", targets) /\ Step.on = targets
        <5>1. Whole = Playbook("upgrade", targets)
          BY <4>1 DEF Whole
        <5>2. Whole[Pos + 1].type = "CREATE_CONTAINER" /\ Step = Whole[Pos + 1]
              /\ Pos + 1 \in 1 .. Len(Whole) /\ targets \in SUBSET Service
          BY <1>3, <1>11, <4>1
        <5>. QED
          BY <5>1, <5>2, UpgradeCleans
      <4>. QED
        BY <1>2, <1>3, <4>2 DEF Over, On
    <3>3. type = "CLEAN_SERVICE" => cmd \in {"clean", "cleanlog", "upgrade"}
      BY <1>3, <1>11, CleanCommands DEF Whole
    <3>. QED
      BY <1>1, <1>2, <1>11, <2>1, <3>1, <3>2, <3>3, TaskAchieves
  <2>2. CASE t # s
    <3>1. Through(type, t)
      BY <1>1, <1>2, <1>11, <2>2 DEF Alone, Through
    <3>2. Achieves(type, t)
      BY <3>1 DEF Progress
    <3>. QED
      BY <1>1, <2>2, <3>2, OthersKept
  <2>. QED
    BY <2>1, <2>2
<1>12. Progress'
  <2>1. \A type \in StepType, t \in Service : Over(type, t)' => Over(type, t)
    BY <1>1, <1>4 DEF Over
  <2>2. \A type \in StepType, t \in Service :
          Through(type, t)' => type = Step.type /\ t \in Step.on /\ at'[t] \in {"none", "ok", "skip"}
    BY <1>4 DEF Through
  <2>. QED
    BY <1>10, <1>11, <2>1, <2>2 DEF Progress
<1>13. SuccessMeansAchieved'
  BY <1>1, <1>2 DEF Commanded, SuccessMeansAchieved
<1>. QED
  BY <1>5, <1>6, <1>7, <1>9, <1>12, <1>13

-----------------------------------------------------------------------------
(* The playbook's steps. *)

\* A service that createTasks skips has what the step would achieve.
LEMMA SkipAchieves ==
  ASSUME NEW s \in Service, NEW type \in StepType, Located(s), IsSkip(s), NeedsRecord(type)
  PROVE  Achieves(type, s)
<1>1. ~ Recorded(s) /\ status[s] # "running"
  BY DEF Located, IsSkip, Recorded, ContainerId, NoRecord, NoContainer
<1>2. ~ bound[s]
  BY DiskAssumption DEF Located, IsSkip, HasRole
<1>. QED
  BY <1>1, <1>2 DEF Achieves, NeedsRecord, StepType

\* The operator's command preserves the invariant.
LEMMA InvokeInvariant ==
  ASSUME IInv, NEW c \in Command, NEW ss \in SUBSET Service, Invoke(c, ss)
  PROVE  IInv'
<1>. USE DEF IInv, Invoke, database, docker, host, locals
<1>1. /\ c \in CommandName /\ c # Idle
      /\ Playbook(c, ss) \in Seq(StepRecord) /\ Len(Playbook(c, ss)) \in Nat
  BY CommandAssumption, PlaybookType, LenProperties DEF CommandName, Idle
<1>2. \A s \in Service : at[s] = "none" /\ at'[s] = "none"
  BY DEF Commanded
<1>3. Whole' = Playbook(c, ss) /\ Pos' = 0
  BY <1>1 DEF Whole, Pos
<1>4. TypeOK'
  BY <1>1 DEF TypeOK, StepRecord
<1>5. Commanded'
  BY <1>1, <1>2, <1>3 DEF Commanded
<1>6. Tasked' /\ ~ Working'
  BY <1>2 DEF Tasked, Ended, Working
<1>7. \A s \in Service : Located(s)' /\ Placed(s)'
  BY <1>2 DEF Located, Placed, Recorded, StepsOf, RecordSteps, TaskStep
<1>8. Progress' /\ SuccessMeansAchieved'
  BY <1>3, <1>6 DEF Progress, Over, Through, SuccessMeansAchieved
<1>. QED
  BY <1>4, <1>5, <1>6, <1>7, <1>8

\* The end of a command preserves the invariant, if what it claims is true.
LEMMA FinishInvariant ==
  ASSUME IInv, cmd # Idle, NEW result \in {"ok", "error", "crash"}, Finish(result),
         UNCHANGED <<record, docker, host, fresh>>,
         bound' \in [Service -> BOOLEAN], \A s \in Service : bound'[s] => s \in Disk,
         faults' \in 0 .. MaxFaults, SuccessMeansAchieved'
  PROVE  IInv'
<1>. USE DEF IInv, Finish, docker, host
<1>1. TypeOK'
  BY EmptySeq DEF TypeOK, Ended, Record, NoRecord
<1>2. \A s \in Service : at'[s] = "none"
  OBVIOUS
<1>3. Commanded'
  BY <1>2 DEF Commanded, TypeOK
<1>4. Tasked' /\ ~ Working'
  BY <1>2 DEF Tasked, Ended, Working
<1>5. \A s \in Service : Located(s)' /\ Placed(s)'
  BY <1>2 DEF Located, Placed, Recorded, StepsOf, RecordSteps, TaskStep
<1>6. Progress'
  BY <1>4 DEF Progress, Over, Through
<1>. QED
  BY <1>1, <1>3, <1>4, <1>5, <1>6

\* A command that fails or is killed preserves the invariant.
LEMMA FailsInvariant ==
  ASSUME IInv, CreateTasksRefused \/ StopPlaybook \/ CreateTasksFails \/ Crash
  PROVE  IInv'
<1>. USE DEF IInv, database
<1>1. SuccessMeansAchieved'
  BY DEF CreateTasksRefused, StopPlaybook, CreateTasksFails, Crash, Finish,
     SuccessMeansAchieved, TypeOK
<1>2. cmd # Idle
  BY DEF CreateTasksRefused, StopPlaybook, CreateTasksFails, Crash, BatchEnded, Working, Commanded
<1>3. CASE CreateTasksRefused \/ StopPlaybook
  BY <1>1, <1>2, <1>3, FinishInvariant DEF CreateTasksRefused, StopPlaybook, TypeOK, Located
<1>4. CASE Crash
  <2>1. faults' \in 0 .. MaxFaults
    BY <1>4, FaultAssumption DEF Crash, Failure, TypeOK
  <2>. QED
    BY <1>1, <1>2, <1>4, <2>1, FinishInvariant DEF Crash, TypeOK, Located
<1>5. CASE CreateTasksFails
  <2>1. faults' \in 0 .. MaxFaults
    BY <1>5, FaultAssumption DEF CreateTasksFails, Failure, TypeOK
  <2>2. PICK ss \in SUBSET Binds : bound' = [s \in Service |-> bound[s] \/ s \in ss]
    BY <1>5 DEF CreateTasksFails
  <2>3. bound' \in [Service -> BOOLEAN] /\ \A s \in Service : bound'[s] => s \in Disk
    BY <2>2 DEF TypeOK, Located, Binds
  <2>. QED
    BY <1>1, <1>2, <1>5, <2>1, <2>3, FinishInvariant DEF CreateTasksFails
<1>. QED
  BY <1>3, <1>4, <1>5

\* A command that has been through its playbook has achieved what it claims.
LEMMA SucceedInvariant ==
  ASSUME IInv, Succeed
  PROVE  IInv'
<1>. USE DEF IInv
<1>1. /\ cmd \in CommandName /\ cmd # Idle /\ targets \in SUBSET Service
      /\ Pos = Len(Whole) /\ last.cmd = cmd /\ last.on \subseteq targets
  BY StepFacts DEF Succeed, Commanded
<1>2. ASSUME NEW type \in StepType, NEW s \in Service, NEW i \in 1 .. Len(Whole),
             Whole[i].type = type, s \in Whole[i].on
      PROVE  Achieves(type, s)
  BY <1>1, <1>2 DEF Progress, Over
<1>3. ASSUME NEW s \in last.on
      PROVE  Achieved(cmd, s)
  <2>1. s \in targets /\ s \in Service /\ Located(s)
    BY <1>1
  <2>2. Recorded(s) => ~ IsSkip(s)
    BY DEF Recorded, IsSkip, ContainerId, NoRecord
  <2>3. CASE cmd = "deploy"
    <3>1. Whole = DeploySteps(targets)
      BY <2>3 DEF Whole, Playbook
    <3>2. Achieves("CREATE_CONTAINER", s) /\ Achieves("SYNC_CONFIG", s)
      <4>1. Len(Whole) = 10 /\ Whole[2] = On("CREATE_CONTAINER", targets)
            /\ Whole[3] = On("SYNC_CONFIG", targets)
        BY <3>1 DEF DeploySteps
      <4>. QED
        BY <1>2, <2>1, <4>1 DEF On, StepType
    <3>3. \E i \in 1 .. Len(Whole) : Whole[i].type = "START_SERVICE" /\ s \in Whole[i].on
      <4>1. /\ Len(Whole) = 10
            /\ Whole[4] = On("START_SERVICE", HasRole("etcd"))
            /\ Whole[5] = On("START_SERVICE", HasRole("mds"))
            /\ Whole[7] = On("START_SERVICE", HasRole("chunkserver"))
            /\ Whole[9] = On("START_SERVICE", targets \cap HasRole("snapshotclone"))
        BY <3>1 DEF DeploySteps
      <4>2. Role[s] \in RoleName
        BY <2>1, RoleAssumption
      <4>. QED
        BY <2>1, <4>1, <4>2 DEF On, HasRole, RoleName
    <3>4. Achieves("START_SERVICE", s)
      BY <1>2, <2>1, <3>3 DEF StepType
    <3>. QED
      BY <2>1, <2>2, <2>3, <3>2, <3>4 DEF Achieves, Achieved, Running, Located
  <2>4. CASE cmd = "upgrade"
    <3>1. /\ Len(Whole) = 6 /\ Whole[4] = On("CREATE_CONTAINER", targets)
          /\ Whole[5] = On("SYNC_CONFIG", targets) /\ Whole[6] = On("START_SERVICE", targets)
      BY <2>4 DEF Whole, Playbook, UpgradeSteps
    <3>2. /\ Achieves("CREATE_CONTAINER", s) /\ Achieves("SYNC_CONFIG", s)
          /\ Achieves("START_SERVICE", s)
      BY <1>2, <2>1, <3>1 DEF On, StepType
    <3>. QED
      BY <2>1, <2>2, <2>4, <3>2 DEF Achieves, Achieved, Running, Located
  <2>5. CASE cmd = "start"
    <3>1. Len(Whole) = 1 /\ Whole[1] = On("START_SERVICE", targets)
      BY <2>5 DEF Whole, Playbook, StartSteps
    <3>2. Achieves("START_SERVICE", s)
      BY <1>2, <2>1, <3>1 DEF On, StepType
    <3>. QED
      BY <2>5, <3>2 DEF Achieves, Achieved, Running
  <2>6. CASE cmd = "restart"
    <3>1. Len(Whole) = 1 /\ Whole[1] = On("RESTART_SERVICE", targets)
      BY <2>6 DEF Whole, Playbook, RestartSteps
    <3>2. Achieves("RESTART_SERVICE", s)
      BY <1>2, <2>1, <3>1 DEF On, StepType
    <3>. QED
      BY <2>6, <3>2 DEF Achieves, Achieved, Running
  <2>7. CASE cmd = "reload"
    <3>1. /\ Len(Whole) = 2 /\ Whole[1] = On("SYNC_CONFIG", targets)
          /\ Whole[2] = On("RESTART_SERVICE", targets)
      BY <2>7 DEF Whole, Playbook, ReloadSteps
    <3>2. Achieves("SYNC_CONFIG", s) /\ Achieves("RESTART_SERVICE", s)
      BY <1>2, <2>1, <3>1 DEF On, StepType
    <3>. QED
      BY <2>7, <3>2 DEF Achieves, Achieved, Running
  <2>8. CASE cmd = "stop"
    <3>1. Len(Whole) = 1 /\ Whole[1] = On("STOP_SERVICE", targets)
      BY <2>8 DEF Whole, Playbook, StopSteps
    <3>2. Achieves("STOP_SERVICE", s)
      BY <1>2, <2>1, <3>1 DEF On, StepType
    <3>. QED
      BY <1>3, <2>8, <3>2 DEF Achieves, Achieved
  <2>9. ASSUME cmd = "clean" \/ cmd = "cleanlog" PROVE Achieves("CLEAN_SERVICE", s)
    <3>1. Len(Whole) = 1 /\ Whole[1] = On("CLEAN_SERVICE", targets)
      BY <2>9 DEF Whole, Playbook, CleanSteps
    <3>. QED
      BY <1>2, <2>1, <3>1 DEF On, StepType
  <2>10. CASE cmd = "clean"
    BY <2>9, <2>10 DEF Achieves, Achieved
  <2>11. CASE cmd = "cleanlog"
    BY <2>9, <2>11 DEF Achieves, Achieved
  <2>. QED
    BY <1>1, <2>3, <2>4, <2>5, <2>6, <2>7, <2>8, <2>10, <2>11 DEF CommandName
<1>4. SuccessMeansAchieved'
  <2>1. last'.on = last.on /\ last'.cmd = cmd
    BY <1>1 DEF Succeed, Finish, TypeOK
  <2>2. SUFFICES ASSUME NEW s \in last.on PROVE Achieved(last.cmd, s)'
    BY <2>1 DEF SuccessMeansAchieved
  <2>. QED
    BY <1>1, <1>3, <2>1 DEF Succeed, Achieved, IsSkip, database, docker, CommandName
<1>. QED
  BY <1>1, <1>4, FinishInvariant DEF Succeed, TypeOK, Located, database

\* A container that exits by itself preserves the invariant.
LEMMA ContainerExitsInvariant ==
  ASSUME IInv, NEW s \in Service, ContainerExits(s)
  PROVE  IInv'
<1>. USE DEF IInv, ContainerExits, database, host, locals
<1>1. /\ TypeOK' /\ UNCHANGED <<Whole, Pos, Step>>
      /\ last'.on = last.on \ {s} /\ last'.cmd = last.cmd /\ last'.result = last.result
  BY FaultAssumption DEF TypeOK, Failure, Whole, Pos, Step
<1>2. Commanded'
  BY <1>1 DEF Commanded
<1>3. Tasked'
  BY DEF Tasked, Working, Step, IsSkip
<1>4. \A t \in Service : Located(t)' /\ Placed(t)'
  BY DEF TypeOK, Located, Placed, Recorded, CleansContainer
<1>5. \A type \in StepType, t \in Service : Achieves(type, t) => Achieves(type, t)'
  BY <1>1 DEF Achieves, Running, Recorded, IsSkip, TypeOK
<1>6. Progress'
  BY <1>1, <1>5 DEF Progress, Over, Through, Working
<1>7. SuccessMeansAchieved'
  <2>1. SUFFICES ASSUME last.result = "ok", NEW t \in last.on \ {s}
                 PROVE  Achieved(last.cmd, t)'
    BY <1>1 DEF SuccessMeansAchieved
  <2>2. Achieved(last.cmd, t)
    BY <2>1 DEF SuccessMeansAchieved
  <2>. QED
    BY <1>1, <2>2 DEF Achieved, IsSkip, TypeOK
<1>. QED
  BY <1>1, <1>2, <1>3, <1>4, <1>6, <1>7

\* createTasks, which marks the disks and gives the tasks their container ids,
\* preserves the invariant.
LEMMA CreateTasksInvariant ==
  ASSUME IInv, CreateTasks
  PROVE  IInv'
<1>. USE DEF IInv
<1>1. /\ cmd # Idle /\ todo # << >> /\ UNCHANGED <<cmd, targets, todo, last, Whole, Pos, Step>>
      /\ UNCHANGED <<record, cid, status, synced, mounted, data, fresh, faults>>
      /\ bound' = [s \in Service |-> bound[s] \/ s \in Binds]
      /\ at' = [s \in Service |-> IF s \in Step.on THEN FirstStep(s) ELSE "none"]
      /\ cont' = [s \in Service |-> IF s \in Step.on /\ NeedsRecord(Step.type)
                                    THEN record[s] ELSE NoRecord]
      /\ found' = [s \in Service |-> s \in Step.on /\ bound[s]]
      /\ old' = [s \in Service |-> NoRecord]
      /\ \A s \in Step.on : Creatable(s)
  BY DEF CreateTasks, command, docker, host, Whole, Pos, Step
<1>2. /\ cmd \in CommandName /\ targets \in SUBSET Service
      /\ Pos \in 0 .. Len(Whole) /\ Pos + 1 \in 1 .. Len(Whole) /\ Len(Whole) \in Nat
      /\ Step = Whole[Pos + 1] /\ Step \in StepRecord /\ Step.type \in StepType
      /\ Step.on \in SUBSET Service
  BY <1>1, StepFacts DEF StepRecord
<1>3. \A s \in Service :
        /\ FirstStep(s) \in StepsOf(Step.type) \cup {"none"}
        /\ FirstStep(s) = "none" <=> NeedsRecord(Step.type) /\ IsSkip(s)
        /\ FirstStep(s) \in {"none", "pull", "getService", "sync", "list", "stop",
                             "listRestart", "pool", "balance", "unbind", "files"}
        /\ FirstStep(s) = "files" => ~ bound[s]
        /\ Step.type \in {"PULL_IMAGE"} <=> FirstStep(s) = "pull"
        /\ Step.type \in {"CREATE_CONTAINER"} <=> FirstStep(s) = "getService"
  BY <1>2, FirstStepFacts
<1>4. TypeOK'
  <2>1. at' \in [Service -> Ended \cup TaskStep]
    BY <1>1, <1>3 DEF Ended, TaskStep
  <2>. QED
    BY <1>1, <2>1 DEF TypeOK, Record
<1>5. Commanded'
  BY <1>1 DEF Commanded
<1>6. Tasked'
  BY <1>1, <1>2, <1>3 DEF Tasked, IsSkip, Ended
<1>7. ASSUME NEW s \in Service
      PROVE  Located(s)' /\ Placed(s)'
  <2>1. Located(s)'
    BY <1>1 DEF Located, Recorded, Binds
  <2>2. s \in Step.on /\ FirstStep(s) \notin {"none", "pull", "getService"} =>
          cont'[s] = record[s] /\ record[s] # NoRecord
    BY <1>1, <1>2, <1>3 DEF Creatable, NeedsRecord
  <2>3. FirstStep(s) = "getService" /\ s \in Step.on /\ s \in Disk => bound'[s]
    BY <1>1, <1>3 DEF Binds
  <2>4. FirstStep(s) = "files" => ~ bound'[s]
    BY <1>1, <1>3 DEF Binds
  <2>5. at'[s] = "none" \/ (s \in Step.on /\ at'[s] = FirstStep(s))
    BY <1>1
  <2>. QED
    <3>1. at'[s] \in {"none", "pull", "getService", "sync", "list", "stop", "listRestart",
                      "pool", "balance", "unbind", "files"}
      BY <1>3, <2>5
    <3>2. at'[s] \notin {"none", "pull", "getService"} => cont'[s] = record'[s] /\ record'[s] # NoRecord
      BY <1>1, <2>2, <2>5
    <3>3. at'[s] = "getService" /\ s \in Disk => bound'[s]
      BY <2>3, <2>5
    <3>4. at'[s] = "files" => ~ bound'[s]
      BY <2>4, <2>5
    <3>. QED
      BY <2>1, <3>1, <3>2, <3>3, <3>4 DEF Placed, RecordSteps, StepsOf, TaskStep
<1>8. ASSUME NEW type \in StepType, NEW s \in Service, Over(type, s)
      PROVE  Achieves(type, s)'
  <2>1. PICK i \in 1 .. Pos : Whole[i].type = type /\ s \in Whole[i].on
    BY <1>8 DEF Over
  <2>2. type \in {"STOP_SERVICE", "CLEAN_SERVICE"} => cmd = "upgrade"
    BY <1>2, <2>1, PlaybookOrder DEF Whole
  <2>3. Achieves(type, s)
    BY <1>8 DEF Progress
  <2>. QED
    BY <1>1, <2>2, <2>3 DEF Achieves, Running, Recorded, IsSkip
<1>9. ASSUME NEW type \in StepType, NEW s \in Service, type = Step.type, s \in Step.on,
             at'[s] \in {"none", "ok", "skip"}
      PROVE  Achieves(type, s)'
  <2>1. NeedsRecord(type) /\ IsSkip(s)
    BY <1>1, <1>3, <1>9
  <2>2. Achieves(type, s)
    BY <2>1, SkipAchieves
  <2>3. type # "CREATE_CONTAINER" /\ bound' = bound
    BY <1>1, <1>9, <2>1 DEF NeedsRecord, Binds, TypeOK
  <2>. QED
    BY <1>1, <2>2, <2>3 DEF Achieves, Running, Recorded, IsSkip
<1>10. Progress'
  <2>1. \A type \in StepType, s \in Service : Over(type, s)' => Over(type, s)
    BY <1>1 DEF Over
  <2>2. \A type \in StepType, s \in Service :
          Through(type, s)' => type = Step.type /\ s \in Step.on /\ at'[s] \in {"none", "ok", "skip"}
    BY <1>1 DEF Through
  <2>. QED
    BY <1>8, <1>9, <2>1, <2>2 DEF Progress
<1>11. SuccessMeansAchieved'
  BY <1>1 DEF Commanded, SuccessMeansAchieved
<1>. QED
  BY <1>4, <1>5, <1>6, <1>7, <1>10, <1>11

\* Going on to the next playbook step preserves the invariant.
LEMMA StepOverInvariant ==
  ASSUME IInv, EmptyStep \/ NextStep
  PROVE  IInv'
<1>. USE DEF IInv
<1>1. /\ cmd # Idle /\ todo # << >> /\ todo' = Tail(todo)
      /\ UNCHANGED <<database, docker, host, cmd, targets, last, locals, fresh, faults, Whole>>
      /\ \A s \in Service : at'[s] = "none"
  <2>1. CASE EmptyStep
    BY <2>1 DEF EmptyStep, Working, Whole
  <2>2. CASE NextStep
    BY <2>2 DEF NextStep, BatchEnded, Working, Commanded, Tasked, Whole
  <2>. QED
    BY <2>1, <2>2
<1>2. /\ cmd \in CommandName /\ targets \in SUBSET Service
      /\ Pos \in 0 .. Len(Whole) /\ Pos + 1 \in 1 .. Len(Whole) /\ Len(Whole) \in Nat
      /\ Step = Whole[Pos + 1] /\ Step \in StepRecord /\ Step.type \in StepType
      /\ Step.on \in SUBSET Service
      /\ Len(todo) \in Nat /\ Len(todo') = Len(todo) - 1
      /\ \A i \in 1 .. Len(todo') : todo'[i] = todo[i + 1]
  BY <1>1, StepFacts DEF StepRecord
<1>3. Pos' = Pos + 1
  BY <1>1, <1>2 DEF Pos
<1>4. TypeOK'
  <2>1. at' \in [Service -> Ended \cup TaskStep]
    BY <1>1 DEF EmptyStep, NextStep, TypeOK, Ended
  <2>2. todo' \in Seq([type : StepType, on : SUBSET Service])
    BY <1>1, HeadTailProperties DEF TypeOK
  <2>. QED
    BY <1>1, <2>1, <2>2 DEF TypeOK, database, docker, host, locals
<1>5. Commanded'
  <2>1. \A i \in 1 .. Len(todo') : todo'[i] = Whole'[Pos' + i]
    BY <1>1, <1>2, <1>3 DEF Commanded
  <2>. QED
    BY <1>1, <1>2, <1>3, <2>1 DEF Commanded
<1>6. Tasked' /\ ~ Working'
  BY <1>1 DEF Tasked, Ended, Working
<1>7. \A s \in Service : Located(s)' /\ Placed(s)'
  BY <1>1 DEF Located, Placed, Recorded, StepsOf, RecordSteps, TaskStep, database, docker
<1>8. ASSUME NEW s \in Step.on
      PROVE  Achieves(Step.type, s)
  <2>1. CASE EmptyStep
    <3>1. NeedsRecord(Step.type) /\ IsSkip(s)
      BY <1>2, <2>1, FirstStepFacts DEF EmptyStep
    <3>. QED
      BY <1>2, <3>1, SkipAchieves
  <2>2. CASE NextStep
    <3>1. Through(Step.type, s)
      BY <1>2, <2>2 DEF NextStep, BatchEnded, BatchFailed, Through, Ended
    <3>. QED
      BY <1>2, <3>1 DEF Progress
  <2>. QED
    BY <2>1, <2>2
<1>9. Progress'
  <2>1. ASSUME NEW type \in StepType, NEW s \in Service, Over(type, s)'
        PROVE  Achieves(type, s)
    <3>1. PICK i \in 1 .. Pos + 1 : Whole[i].type = type /\ s \in Whole[i].on
      BY <1>1, <1>3, <2>1 DEF Over
    <3>2. CASE i = Pos + 1
      BY <1>2, <1>8, <3>1, <3>2
    <3>3. CASE i # Pos + 1
      BY <1>1, <1>2, <3>1, <3>3 DEF Progress, Over
    <3>. QED
      BY <3>2, <3>3
  <2>2. \A type \in StepType, s \in Service : Achieves(type, s) => Achieves(type, s)'
    BY <1>1 DEF Achieves, Running, Recorded, IsSkip, database, docker
  <2>. QED
    BY <1>6, <2>1, <2>2 DEF Progress, Through
<1>10. SuccessMeansAchieved'
  BY <1>1 DEF Commanded, SuccessMeansAchieved
<1>. QED
  BY <1>4, <1>5, <1>6, <1>7, <1>9, <1>10

\* Every step preserves the invariant.
LEMMA NextIInv == IInv /\ [Next]_vars => IInv'
<1>. SUFFICES ASSUME IInv, [Next]_vars PROVE IInv'
  OBVIOUS
<1>1. CASE \E c \in Command, ss \in SUBSET Service : Invoke(c, ss)
  BY <1>1, InvokeInvariant
<1>2. CASE PlaybookStep
  BY <1>2, CreateTasksInvariant, StepOverInvariant, FailsInvariant, SucceedInvariant DEF
     PlaybookStep
<1>3. CASE \E s \in Service : TaskWork(s)
  BY <1>3, TaskInvariant
<1>4. CASE \E s \in Service : StepFails(s) \/ ContainerExits(s)
  BY <1>4, TaskInvariant, ContainerExitsInvariant
<1>5. CASE CreateTasksFails \/ Crash
  BY <1>5, FailsInvariant
<1>6. CASE UNCHANGED vars
  <2>1. UNCHANGED <<record, bound, cid, status, synced, mounted, data, cmd, targets, todo, last,
                    at, old, cont, found, fresh, faults>>
    BY <1>6 DEF vars, database, docker, host, command, locals
  <2>2. TypeOK'
    BY <2>1 DEF IInv, TypeOK
  <2>3. UNCHANGED <<Whole, Pos, Step, Working>>
    BY <2>1 DEF Whole, Pos, Step, Working
  <2>4. Commanded' /\ Tasked'
    BY <2>1, <2>3 DEF IInv, Commanded, Tasked, IsSkip
  <2>5. \A s \in Service : Located(s)' /\ Placed(s)'
    BY <2>1 DEF IInv, Located, Placed, Recorded, CleansContainer
  <2>6. Progress'
    BY <2>1, <2>3 DEF IInv, Progress, Over, Through, Achieves, Running, Recorded, IsSkip
  <2>7. SuccessMeansAchieved'
    BY <2>1 DEF IInv, SuccessMeansAchieved, Achieved, IsSkip
  <2>. QED
    BY <2>2, <2>4, <2>5, <2>6, <2>7 DEF IInv
<1>. QED
  BY <1>1, <1>2, <1>3, <1>4, <1>5, <1>6 DEF Next

\* The invariant holds in every state of every execution.
THEOREM Invariance == Spec => []IInv
BY InitIInv, NextIInv, PTL DEF Spec

-----------------------------------------------------------------------------
(* What holds in every state of every execution. *)

\* Every variable keeps its type.
THEOREM TypeCorrect == Spec => []TypeOK
<1>1. IInv => TypeOK
  BY DEF IInv
<1>. QED
  BY <1>1, Invariance, PTL

\* The container that a record names is the one docker has under the service's
\* name, if it has one, whatever failed, crashed or lost its reply.
THEOREM RecordStaysFaithful == Spec => []RecordFaithful
<1>1. IInv => RecordFaithful
  BY DEF IInv, Located, Recorded, RecordFaithful
<1>. QED
  BY <1>1, Invariance, PTL

\* A command that reports success has achieved what it claims, for each of its
\* services, also when it took over what failed commands had left.
THEOREM SuccessIsTrue == Spec => []SuccessMeansAchieved
<1>1. IInv => SuccessMeansAchieved
  BY DEF IInv
<1>. QED
  BY <1>1, Invariance, PTL

\* deploy and upgrade create and configure all containers before a start.
LEMMA StartAfterConfigured ==
  ASSUME NEW c \in {"deploy", "upgrade"}, NEW ss \in SUBSET Service,
         NEW i \in 1 .. Len(Playbook(c, ss)), Playbook(c, ss)[i].type = "START_SERVICE"
  PROVE  \E j \in 1 .. i - 2 : /\ Playbook(c, ss)[j] = On("CREATE_CONTAINER", ss)
                               /\ Playbook(c, ss)[j + 1] = On("SYNC_CONFIG", ss)
<1>. USE DEF Playbook, On
<1>1. CASE c = "deploy"
  <2>1. i >= 4 /\ Playbook(c, ss)[2] = On("CREATE_CONTAINER", ss)
        /\ Playbook(c, ss)[3] = On("SYNC_CONFIG", ss)
    BY <1>1 DEF DeploySteps
  <2>2. 2 \in 1 .. i - 2 /\ 2 + 1 = 3
    BY <2>1
  <2>. QED
    BY <2>1, <2>2
<1>2. CASE c = "upgrade"
  <2>1. i = 6 /\ Playbook(c, ss)[4] = On("CREATE_CONTAINER", ss)
        /\ Playbook(c, ss)[5] = On("SYNC_CONFIG", ss)
    BY <1>2 DEF UpgradeSteps
  <2>2. 4 \in 1 .. i - 2 /\ 4 + 1 = 5
    BY <2>1
  <2>. QED
    BY <2>1, <2>2
<1>. QED
  BY <1>1, <1>2

\* The invariant implies StartsOnlyConfigured.
LEMMA ConfiguredBeforeStart == IInv => StartsOnlyConfigured
<1>. SUFFICES ASSUME IInv, cmd \in {"deploy", "upgrade"}, Working, Step.type = "START_SERVICE",
                     NEW s \in targets
              PROVE  cid[s] # NoContainer /\ synced[s] /\ record[s] = cid[s]
  BY DEF StartsOnlyConfigured
<1>. USE DEF IInv
<1>1. cmd # Idle /\ todo # << >>
  BY DEF Working, Commanded, Tasked
<1>2. /\ targets \in SUBSET Service /\ Pos \in 0 .. Len(Whole) /\ Len(Whole) \in Nat
      /\ Pos + 1 \in 1 .. Len(Whole) /\ Step = Whole[Pos + 1]
  BY <1>1, StepFacts
<1>3. PICK j \in 1 .. Pos + 1 - 2 : /\ Whole[j] = On("CREATE_CONTAINER", targets)
                                    /\ Whole[j + 1] = On("SYNC_CONFIG", targets)
  BY <1>2, StartAfterConfigured DEF Whole
<1>4. j \in 1 .. Pos /\ j + 1 \in 1 .. Pos
  BY <1>2, <1>3
<1>5. Over("CREATE_CONTAINER", s) /\ Over("SYNC_CONFIG", s)
  BY <1>1, <1>3, <1>4 DEF Over, On
<1>6. Achieves("CREATE_CONTAINER", s) /\ Achieves("SYNC_CONFIG", s) /\ s \in Service
  BY <1>2, <1>5 DEF Progress, StepType
<1>7. Recorded(s) /\ ~ IsSkip(s)
  BY <1>6 DEF Achieves, Recorded, IsSkip, ContainerId, NoRecord
<1>. QED
  BY <1>6, <1>7 DEF Achieves, Recorded, ContainerId, NoContainer

\* deploy and upgrade start a service only when all services of the command
\* have a recorded container with its configuration.
THEOREM OnlyConfiguredStart == Spec => []StartsOnlyConfigured
BY Invariance, ConfiguredBeforeStart, PTL

\* deploy's only step that starts chunkservers comes after the one for the mds.
LEMMA ChunkserversAfterMds ==
  ASSUME NEW ss \in SUBSET Service, NEW i \in 1 .. Len(Playbook("deploy", ss)),
         Playbook("deploy", ss)[i].type \in {"START_SERVICE", "RESTART_SERVICE"},
         NEW s \in HasRole("chunkserver"), s \in Playbook("deploy", ss)[i].on
  PROVE  i = 7 /\ Playbook("deploy", ss)[5] = On("START_SERVICE", HasRole("mds"))
BY DEF Playbook, DeploySteps, On, HasRole

\* The invariant implies DeployOrder.
LEMMA MdsFirst == IInv => DeployOrder
<1>. SUFFICES ASSUME IInv, NEW s \in HasRole("chunkserver"), NEW m \in HasRole("mds"),
                     cmd = "deploy", at[s] \in {"umount", "start", "postStart"}, m \in last.on
              PROVE  status[m] = "running"
  BY DEF DeployOrder
<1>. USE DEF IInv
<1>0. s \in Service /\ m \in Service /\ Role[m] = "mds"
  BY DEF HasRole
<1>1. /\ cmd # Idle /\ todo # << >> /\ s \in Step.on /\ at[s] \in StepsOf(Step.type)
  BY <1>0 DEF Tasked, Commanded, Ended, Idle
<1>2. /\ targets \in SUBSET Service /\ Pos \in 0 .. Len(Whole) /\ Len(Whole) \in Nat
      /\ Pos + 1 \in 1 .. Len(Whole) /\ Step = Whole[Pos + 1] /\ Step.type \in StepType
  BY <1>1, StepFacts DEF StepRecord
<1>3. Step.type \in {"START_SERVICE", "RESTART_SERVICE"}
  BY <1>1, <1>2 DEF StepsOf, StepType
<1>4. Pos + 1 = 7 /\ Whole[5] = On("START_SERVICE", HasRole("mds"))
  BY <1>1, <1>2, <1>3, ChunkserversAfterMds DEF Whole
<1>5. Over("START_SERVICE", m)
  BY <1>1, <1>2, <1>4 DEF Over, On
<1>6. Achieves("START_SERVICE", m)
  BY <1>0, <1>5 DEF Progress, StepType
<1>. QED
  BY <1>0, <1>6 DEF Achieves, Running, IsSkip

\* deploy starts a chunkserver only while the mds it has started are running.
THEOREM ChunkserversStartLast == Spec => []DeployOrder
BY Invariance, MdsFirst, PTL

-----------------------------------------------------------------------------
(* What no step does. *)

\* A step that changes the record of a container finds it removed from docker.
LEMMA StepForgets ==
  ASSUME IInv, [Next]_vars, NEW s \in Service, Recorded(s), record'[s] # record[s]
  PROVE  status[s] = "absent"
<1>. USE DEF IInv
<1>1. PICK t \in Service : TaskWork(t)
  <2>1. CASE UNCHANGED vars
    BY <2>1 DEF vars, database
  <2>2. CASE \E c \in Command, ss \in SUBSET Service : Invoke(c, ss)
    BY <2>2 DEF Invoke, database
  <2>3. CASE PlaybookStep
    BY <2>3 DEF PlaybookStep, CreateTasks, EmptyStep, CreateTasksRefused, NextStep,
                StopPlaybook, Succeed, database
  <2>4. CASE \E t \in Service : StepFails(t) \/ ContainerExits(t)
    BY <2>4 DEF StepFails, ContainerExits, database
  <2>5. CASE CreateTasksFails \/ Crash
    BY <2>5 DEF CreateTasksFails, Crash, database
  <2>. QED
    BY <2>1, <2>2, <2>3, <2>4, <2>5 DEF Next
<1>2. t = s
  BY <1>1, TaskAlone DEF Alone
<1>3. InsertService(s) \/ ForgetContainer(s)
  BY <1>1, <1>2 DEF TaskWork, PullImage, GetService, CreateContainer, UmountCreated, SyncConfig,
    ListContainers, Umount, StartContainer, CheckPostStart, CreatePool, BalanceLeader,
    StopContainer, ListContainersRestart, RestartContainer, CleanDiskChunkServerId, MountBack,
    RemoveFiles, RemoveContainer, database
<1>. QED
  BY <1>3 DEF InsertService, ForgetContainer, Placed

\* A container in the database is only given up once docker has removed it.
THEOREM NothingLost == Spec => ForgetOnlyRemoved
<1>1. IInv /\ [Next]_vars =>
        [\A s \in Service :
           record[s] \in ContainerId /\ record'[s] # record[s] => status[s] = "absent"]_vars
  BY StepForgets DEF Recorded
<1>. QED
  BY <1>1, Invariance, PTL DEF Spec, ForgetOnlyRemoved

\* A step of a task that makes an orphan is a failure while creating.
LEMMA TaskOrphans ==
  ASSUME IInv, NEW s \in Service, TaskWork(s) \/ StepFails(s), Orphan(s)', ~ Orphan(s)
  PROVE  faults' # faults /\ at[s] \in {"create", "insert"}
<1>. USE DEF IInv, TypeOK, Orphan, Proceed, Goto, Failure, Located, Placed, Recorded,
         RowWritten, ContainerId, NoContainer, NoRecord, database, docker, host, command, locals
<1>1. CASE PullImage(s)
  BY <1>1 DEF PullImage
<1>2. CASE GetService(s)
  BY <1>2 DEF GetService
<1>3. CASE CreateContainer(s)
  BY <1>3 DEF CreateContainer
<1>4. CASE InsertService(s)
  <2>1. Located(s) /\ Placed(s) /\ record[s] \in Record
    BY DEF IInv
  <2>2. old[s] = record[s] /\ cont[s] = cid[s] /\ record[s] \notin ContainerId
    BY <1>4, <2>1 DEF InsertService
  <2>3. RowWritten(s)
    BY <2>1, <2>2 DEF Record
  <2>4. record' = [record EXCEPT ![s] = cont[s]] /\ cid' = cid
    BY <1>4, <2>3 DEF InsertService
  <2>5. record'[s] = cid'[s]
    BY <2>2, <2>4
  <2>. QED
    BY <2>5
<1>5. CASE UmountCreated(s)
  BY <1>5 DEF UmountCreated
<1>6. CASE SyncConfig(s)
  BY <1>6 DEF SyncConfig
<1>7. CASE ListContainers(s)
  BY <1>7 DEF ListContainers
<1>8. CASE Umount(s)
  BY <1>8 DEF Umount
<1>9. CASE StartContainer(s)
  BY <1>9 DEF StartContainer, Run
<1>10. CASE CheckPostStart(s)
  BY <1>10 DEF CheckPostStart
<1>11. CASE CreatePool(s)
  BY <1>11 DEF CreatePool
<1>12. CASE BalanceLeader(s)
  BY <1>12 DEF BalanceLeader
<1>13. CASE StopContainer(s)
  BY <1>13 DEF StopContainer
<1>14. CASE ListContainersRestart(s)
  BY <1>14 DEF ListContainersRestart
<1>15. CASE RestartContainer(s)
  BY <1>15 DEF RestartContainer, Run
<1>16. CASE CleanDiskChunkServerId(s)
  BY <1>16 DEF CleanDiskChunkServerId
<1>17. CASE MountBack(s)
  BY <1>17 DEF MountBack
<1>18. CASE RemoveFiles(s)
  BY <1>18 DEF RemoveFiles
<1>19. CASE RemoveContainer(s)
  BY <1>19 DEF RemoveContainer, Vanish
<1>20. CASE ForgetContainer(s)
  BY <1>20 DEF ForgetContainer
<1>21. CASE StepFails(s)
  BY <1>21 DEF StepFails
<1>. QED
  BY <1>1, <1>2, <1>3, <1>4, <1>5, <1>6, <1>7, <1>8, <1>9, <1>10, <1>11, <1>12, <1>13, <1>14,
     <1>15, <1>16, <1>17, <1>18, <1>19, <1>20, <1>21 DEF TaskWork

\* So is any other step that makes one.
LEMMA StepOrphans ==
  ASSUME IInv, [Next]_vars, NEW s \in Service, Orphan(s)', ~ Orphan(s)
  PROVE  faults' # faults /\ at[s] \in {"create", "insert"}
<1>. USE DEF IInv
<1>1. CASE UNCHANGED vars
  BY <1>1 DEF vars, database, docker, Orphan
<1>2. CASE \E c \in Command, ss \in SUBSET Service : Invoke(c, ss)
  BY <1>2 DEF Invoke, database, docker, Orphan
<1>3. CASE PlaybookStep
  <2>1. at[s] # "insert" /\ UNCHANGED <<record, cid>>
    BY <1>3 DEF PlaybookStep, CreateTasks, EmptyStep, CreateTasksRefused, NextStep,
                StopPlaybook, Succeed, BatchEnded, Working, Ended, Commanded, Tasked,
                database, docker
  <2>. QED
    BY <2>1 DEF Orphan
<1>4. ASSUME NEW t \in Service, TaskWork(t) \/ StepFails(t)
      PROVE  faults' # faults /\ at[s] \in {"create", "insert"}
  <2>1. CASE t = s
    BY <1>4, <2>1, TaskOrphans
  <2>2. CASE t # s
    BY <1>4, <2>2, TaskAlone DEF Alone, Orphan
  <2>. QED
    BY <2>1, <2>2
<1>5. CASE \E t \in Service : ContainerExits(t)
  BY <1>5 DEF ContainerExits, database, Orphan
<1>6. CASE CreateTasksFails \/ Crash
  BY <1>6 DEF CreateTasksFails, Crash, Failure, TypeOK, Working, docker, database, Orphan
<1>. QED
  BY <1>1, <1>2, <1>3, <1>4, <1>5, <1>6 DEF Next

\* A container comes to be unknown to the database only by a failure between
\* docker create and the insertion of its id.
THEOREM OrphansOnlyFromCreate == Spec => OrphanOnlyWhileCreating
<1>1. IInv /\ [Next]_vars =>
        [\A s \in Service :
           Orphan(s)' /\ ~ Orphan(s) => faults' # faults /\ at[s] \in {"create", "insert"}]_vars
  BY StepOrphans
<1>. QED
  BY <1>1, Invariance, PTL DEF Spec, OrphanOnlyWhileCreating

-----------------------------------------------------------------------------
(* Disks that the containers mount themselves. *)

\* A start has looked for the disk of the service's id, and has unmounted the one it found.
Unmounted(s) ==
  /\ at[s] \in {"list", "umount", "start"} => found[s] = bound[s]
  /\ at[s] = "start" /\ bound[s] => ~ mounted[s]

\* A stop has stopped the service, and while an upgrade cleans it it does not run.
Stopped(s) ==
  todo # << >> =>
    /\ Step.type = "STOP_SERVICE" /\ at[s] \in {"ok", "skip"} => status[s] # "running"
    /\ cmd = "upgrade" /\ Step.type = "CLEAN_SERVICE" /\ s \in Step.on => status[s] # "running"

\* The inductive invariant of the disks.
MountIInv == IInv /\ \A s \in ServiceMount : Unmounted(s) /\ Stopped(s)

\* The services with such a disk are chunkservers.
LEMMA MountRole ==
  ASSUME NEW s \in ServiceMount
  PROVE  s \in Service /\ s \in Disk /\ Role[s] = "chunkserver" /\ ~ IsSkip(s)
BY ServiceMountAssumption, DiskAssumption DEF HasRole, IsSkip

\* Which commands start, restart and clean services; the first of a clean's steps, but an
\* upgrade's second.
LEMMA MountPlaybooks ==
  ASSUME NEW c \in CommandName, NEW ss \in SUBSET Service, NEW i \in 1 .. Len(Playbook(c, ss))
  PROVE  /\ Playbook(c, ss)[i].type = "START_SERVICE" => c \in {"deploy", "upgrade", "start"}
         /\ Playbook(c, ss)[i].type = "RESTART_SERVICE" => c \in {"restart", "reload"}
         /\ c = "upgrade" =>
              /\ Playbook(c, ss)[1] = On("STOP_SERVICE", ss)
              /\ Playbook(c, ss)[i].type = "CLEAN_SERVICE" => i = 2 /\ Playbook(c, ss)[2].on = ss
<1>. USE DEF Playbook, On
<1>1. CASE c = "deploy"
  BY <1>1 DEF DeploySteps
<1>2. CASE c = "upgrade"
  BY <1>2 DEF UpgradeSteps
<1>3. CASE c \in {"start", "stop", "restart"}
  BY <1>3 DEF StartSteps, StopSteps, RestartSteps
<1>4. CASE c \in {"reload", "clean", "cleanlog"}
  BY <1>4 DEF ReloadSteps, CleanSteps
<1>. QED
  BY <1>1, <1>2, <1>3, <1>4 DEF CommandName

\* Where a task that starts, restarts or mounts is, and for which commands.
LEMMA MountSteps ==
  ASSUME IInv, NEW s \in Service, at[s] \in {"start", "restart", "mount"}
  PROVE  /\ todo # << >> /\ s \in Step.on
         /\ at[s] = "start" => Step.type = "START_SERVICE" /\ cmd \in {"deploy", "upgrade", "start"}
         /\ at[s] = "restart" => Step.type = "RESTART_SERVICE" /\ cmd \in {"restart", "reload"}
         /\ at[s] = "mount" => Step.type = "CLEAN_SERVICE" /\ cmd \in {"clean", "cleanlog", "upgrade"}
<1>. USE DEF IInv
<1>1. cmd # Idle /\ todo # << >> /\ s \in Step.on /\ at[s] \in StepsOf(Step.type)
  BY DEF Commanded, Tasked, Ended
<1>2. /\ cmd \in CommandName /\ targets \in SUBSET Service /\ Pos + 1 \in 1 .. Len(Whole)
      /\ Step = Whole[Pos + 1] /\ Step.type \in StepType
  BY <1>1, StepFacts DEF StepRecord
<1>3. /\ at[s] = "start" => Step.type = "START_SERVICE"
      /\ at[s] = "restart" => Step.type = "RESTART_SERVICE"
      /\ at[s] = "mount" => Step.type = "CLEAN_SERVICE"
  BY <1>1, <1>2 DEF StepsOf, StepType
<1>. QED
  BY <1>1, <1>2, <1>3, MountPlaybooks, CleanCommands DEF Whole

\* deploy and upgrade have marked the disk of a chunkserver that they start.
LEMMA MarkedBeforeStart ==
  ASSUME IInv, NEW s \in ServiceMount, at[s] = "start", cmd \in {"deploy", "upgrade"}
  PROVE  bound[s]
<1>. USE DEF IInv
<1>1. s \in Service /\ s \in Disk /\ Role[s] = "chunkserver"
  BY MountRole
<1>2. todo # << >> /\ s \in Step.on /\ Step.type = "START_SERVICE" /\ cmd # Idle
  BY <1>1, MountSteps DEF Commanded
<1>3. /\ targets \in SUBSET Service /\ Pos \in 0 .. Len(Whole) /\ Len(Whole) \in Nat
      /\ Pos + 1 \in 1 .. Len(Whole) /\ Step = Whole[Pos + 1]
  BY <1>2, StepFacts
<1>4. PICK j \in 1 .. Pos + 1 - 2 : Whole[j] = On("CREATE_CONTAINER", targets)
  BY <1>2, <1>3, StartAfterConfigured DEF Whole
<1>5. s \in targets
  <2>1. CASE cmd = "deploy"
    BY <1>1, <1>2, <2>1 DEF Commanded, Targets, DeployTargets, HasRole
  <2>2. CASE cmd = "upgrade"
    BY <1>2, <1>3, <2>2 DEF Whole, Playbook, UpgradeSteps, On
  <2>. QED
    BY <2>1, <2>2
<1>6. Over("CREATE_CONTAINER", s)
  BY <1>2, <1>3, <1>4, <1>5 DEF Over, On
<1>7. Achieves("CREATE_CONTAINER", s)
  BY <1>1, <1>6 DEF Progress, StepType
<1>. QED
  BY <1>1, <1>7 DEF Achieves

\* A step of a task keeps Unmounted.
LEMMA TaskUnmounted ==
  ASSUME IInv, NEW s \in ServiceMount, Unmounted(s), TaskWork(s) \/ StepFails(s)
  PROVE  Unmounted(s)'
<1>. USE MountRole DEF IInv, TypeOK, Unmounted, Proceed, Goto, Failure, database, docker, host,
         command, locals
<1>1. CASE PullImage(s)
  BY <1>1 DEF PullImage
<1>2. CASE GetService(s)
  BY <1>2 DEF GetService
<1>3. CASE CreateContainer(s)
  BY <1>3 DEF CreateContainer
<1>4. CASE InsertService(s)
  BY <1>4 DEF InsertService
<1>5. CASE UmountCreated(s)
  BY <1>5 DEF UmountCreated
<1>6. CASE SyncConfig(s)
  BY <1>6 DEF SyncConfig
<1>7. CASE ListContainers(s)
  BY <1>7 DEF ListContainers
<1>8. CASE Umount(s)
  BY <1>8 DEF Umount
<1>9. CASE StartContainer(s)
  BY <1>9 DEF StartContainer, Run
<1>10. CASE CheckPostStart(s)
  BY <1>10 DEF CheckPostStart
<1>11. CASE CreatePool(s)
  BY <1>11 DEF CreatePool
<1>12. CASE BalanceLeader(s)
  BY <1>12 DEF BalanceLeader
<1>13. CASE StopContainer(s)
  BY <1>13 DEF StopContainer
<1>14. CASE ListContainersRestart(s)
  BY <1>14 DEF ListContainersRestart
<1>15. CASE RestartContainer(s)
  BY <1>15 DEF RestartContainer
<1>16. CASE CleanDiskChunkServerId(s)
  BY <1>16 DEF CleanDiskChunkServerId
<1>17. CASE MountBack(s)
  BY <1>17 DEF MountBack
<1>18. CASE RemoveFiles(s)
  BY <1>18 DEF RemoveFiles
<1>19. CASE RemoveContainer(s)
  BY <1>19 DEF RemoveContainer
<1>20. CASE ForgetContainer(s)
  BY <1>20 DEF ForgetContainer
<1>21. CASE StepFails(s)
  BY <1>21 DEF StepFails
<1>. QED
  BY <1>1, <1>2, <1>3, <1>4, <1>5, <1>6, <1>7, <1>8, <1>9, <1>10, <1>11, <1>12, <1>13, <1>14,
     <1>15, <1>16, <1>17, <1>18, <1>19, <1>20, <1>21 DEF TaskWork

\* It starts or restarts the container, mounts the disk, or makes neither run or mounted.
LEMMA TaskMounts ==
  ASSUME IInv, NEW s \in ServiceMount, TaskWork(s) \/ StepFails(s)
  PROVE  /\ status'[s] = "running" => status[s] = "running" \/ at[s] \in {"start", "restart"}
         /\ mounted'[s] => mounted[s] \/ at[s] = "mount"
         /\ at[s] \in {"start", "restart"} => mounted'[s] = mounted[s]
         /\ at[s] = "mount" => status'[s] = status[s]
         /\ at[s] = "stop" /\ at'[s] \in {"ok", "skip"} => status'[s] # "running"
<1>. USE MountRole DEF IInv, TypeOK, Proceed, Goto, Failure, database, docker, host, command,
         locals
<1>1. CASE PullImage(s)
  BY <1>1 DEF PullImage
<1>2. CASE GetService(s)
  BY <1>2 DEF GetService
<1>3. CASE CreateContainer(s)
  BY <1>3 DEF CreateContainer
<1>4. CASE InsertService(s)
  BY <1>4 DEF InsertService
<1>5. CASE UmountCreated(s)
  BY <1>5 DEF UmountCreated
<1>6. CASE SyncConfig(s)
  BY <1>6 DEF SyncConfig
<1>7. CASE ListContainers(s)
  BY <1>7 DEF ListContainers
<1>8. CASE Umount(s)
  BY <1>8 DEF Umount
<1>9. CASE StartContainer(s)
  BY <1>9 DEF StartContainer, Run
<1>10. CASE CheckPostStart(s)
  BY <1>10 DEF CheckPostStart
<1>11. CASE CreatePool(s)
  BY <1>11 DEF CreatePool
<1>12. CASE BalanceLeader(s)
  BY <1>12 DEF BalanceLeader
<1>13. CASE StopContainer(s)
  BY <1>13 DEF StopContainer, Located, Placed, RecordSteps, TaskStep, StepsOf, Recorded, ContainerId, NoContainer, Cleaned
<1>14. CASE ListContainersRestart(s)
  BY <1>14 DEF ListContainersRestart
<1>15. CASE RestartContainer(s)
  BY <1>15 DEF RestartContainer
<1>16. CASE CleanDiskChunkServerId(s)
  BY <1>16 DEF CleanDiskChunkServerId
<1>17. CASE MountBack(s)
  BY <1>17 DEF MountBack
<1>18. CASE RemoveFiles(s)
  BY <1>18 DEF RemoveFiles
<1>19. CASE RemoveContainer(s)
  BY <1>19 DEF RemoveContainer, Vanish
<1>20. CASE ForgetContainer(s)
  BY <1>20 DEF ForgetContainer
<1>21. CASE StepFails(s)
  BY <1>21 DEF StepFails
<1>. QED
  BY <1>1, <1>2, <1>3, <1>4, <1>5, <1>6, <1>7, <1>8, <1>9, <1>10, <1>11, <1>12, <1>13, <1>14,
     <1>15, <1>16, <1>17, <1>18, <1>19, <1>20, <1>21 DEF TaskWork

\* A step of a task keeps Stopped: it runs a container only in a step that starts it.
LEMMA TaskStopped ==
  ASSUME IInv, NEW s \in ServiceMount, Stopped(s), TaskWork(s) \/ StepFails(s)
  PROVE  Stopped(s)'
<1>. USE DEF IInv
<1>1. s \in Service
  BY MountRole
<1>2. UNCHANGED <<cmd, todo>> /\ at[s] \notin Ended
  BY <1>1, TaskAlone, TaskActs DEF Alone, command, TaskStep, Ended
<1>3. todo # << >> /\ s \in Step.on /\ at[s] \in StepsOf(Step.type)
  BY <1>1, <1>2 DEF Tasked, Ended
<1>4. ASSUME Step.type = "STOP_SERVICE", at'[s] \in {"ok", "skip"}
      PROVE  status'[s] # "running"
  BY <1>3, <1>4, TaskMounts DEF StepsOf
<1>5. ASSUME cmd = "upgrade", Step.type = "CLEAN_SERVICE"
      PROVE  status'[s] # "running"
  BY <1>3, <1>5, TaskMounts DEF StepsOf, Stopped
<1>. QED
  BY <1>2, <1>4, <1>5 DEF Stopped, Step

\* The steps of the playbook and of the operator keep both, and mount and run nothing.
LEMMA PlaybookMounts ==
  ASSUME MountIInv, NEW s \in ServiceMount,
         PlaybookStep \/ \E c \in Command, ss \in SUBSET Service : Invoke(c, ss)
  PROVE  Unmounted(s)' /\ Stopped(s)' /\ UNCHANGED <<status, mounted>>
<1>. USE DEF MountIInv, IInv
<1>0. s \in Service /\ Unmounted(s) /\ Stopped(s) /\ ~ IsSkip(s)
  BY MountRole
<1>1. ASSUME NEW c \in Command, NEW ss \in SUBSET Service, Invoke(c, ss)
      PROVE  Unmounted(s)' /\ Stopped(s)' /\ UNCHANGED <<status, mounted>>
  <2>1. /\ cmd' = c /\ todo' = Playbook(c, ss) /\ UNCHANGED <<at, status, mounted, bound, found>>
        /\ at[s] = "none" /\ c \in CommandName
    BY <1>0, <1>1, CommandAssumption DEF Invoke, Commanded, database, docker, host, locals
  <2>2. c = "upgrade" => Step'.type = "STOP_SERVICE"
    BY <2>1 DEF Playbook, UpgradeSteps, On, Step
  <2>. QED
    BY <2>1, <2>2 DEF Unmounted, Stopped
<1>2. ASSUME CreateTasks
      PROVE  Unmounted(s)' /\ Stopped(s)' /\ UNCHANGED <<status, mounted>>
  <2>1. /\ UNCHANGED <<docker, mounted, cmd, todo>>
        /\ bound' = [t \in Service |-> bound[t] \/ t \in Binds]
        /\ at' = [t \in Service |-> IF t \in Step.on THEN FirstStep(t) ELSE "none"]
        /\ found' = [t \in Service |-> t \in Step.on /\ bound[t]]
    BY <1>2 DEF CreateTasks, host, command
  <2>2. cmd # Idle /\ todo # << >> /\ Step \in StepRecord
    BY <1>2, StepFacts DEF CreateTasks
  <2>3. /\ at'[s] \notin {"umount", "start", "ok", "skip"}
        /\ Step.type = "CREATE_CONTAINER" => at'[s] # "list"
    BY <1>0, <2>1, <2>2, FirstStepFacts
  <2>4. at'[s] = "list" => found'[s] = bound'[s]
    <3>1. at'[s] = "list" => s \in Step.on /\ s \notin Binds
      BY <1>0, <2>1, <2>3 DEF Binds
    <3>. QED
      BY <1>0, <2>1, <3>1 DEF TypeOK
  <2>. QED
    BY <1>0, <2>1, <2>3, <2>4 DEF Unmounted, Stopped, Step, docker
<1>3. ASSUME NextStep \/ EmptyStep
      PROVE  Unmounted(s)' /\ Stopped(s)' /\ UNCHANGED <<status, mounted>>
  <2>1. /\ todo' = Tail(todo) /\ UNCHANGED <<cmd, targets, docker, host, locals>>
        /\ at'[s] = "none" /\ cmd # Idle /\ todo # << >>
    <3>1. CASE NextStep
      BY <1>0, <3>1 DEF NextStep, BatchEnded, Working, Commanded, Tasked
    <3>2. CASE EmptyStep
      BY <1>0, <3>2 DEF EmptyStep, Working
    <3>. QED
      BY <1>3, <3>1, <3>2
  <2>2. s \in Step.on => at[s] \in {"ok", "skip"}
    <3>1. CASE NextStep
      BY <1>0, <3>1 DEF NextStep, BatchEnded, BatchFailed, Tasked, Ended
    <3>2. CASE EmptyStep
      BY <1>0, <3>2, <2>1, FirstStepFacts, StepFacts DEF EmptyStep
    <3>. QED
      BY <1>3, <3>1, <3>2
  <2>3. ASSUME todo' # << >>, cmd = "upgrade", Step'.type = "CLEAN_SERVICE", s \in Step'.on
        PROVE  status[s] # "running"
    <3>1. /\ cmd \in CommandName /\ targets \in SUBSET Service
          /\ Pos \in Nat /\ Len(Whole) \in Nat /\ Len(todo) \in Nat /\ Pos + 1 \in 1 .. Len(Whole)
          /\ Step = Whole[Pos + 1] /\ Len(Tail(todo)) = Len(todo) - 1
          /\ \A i \in 1 .. Len(Tail(todo)) : Tail(todo)[i] = todo[i + 1]
      BY <2>1, StepFacts
    <3>2. Len(Tail(todo)) \in Nat /\ Len(Tail(todo)) # 0 /\ Step' = Tail(todo)[1]
      BY <2>1, <2>3, EmptySeq, LenProperties, HeadTailProperties DEF Step, TypeOK
    <3>3. Step' = Whole[Pos + 2] /\ Pos + 2 \in 1 .. Len(Whole)
      BY <2>1, <3>1, <3>2 DEF Commanded, Pos
    <3>4. Pos + 2 = 2 /\ Whole[1] = On("STOP_SERVICE", targets) /\ Step'.on = targets
      BY <2>3, <3>1, <3>3, MountPlaybooks DEF Whole
    <3>5. Step.type = "STOP_SERVICE" /\ s \in Step.on
      BY <2>3, <3>1, <3>4 DEF On
    <3>. QED
      BY <1>0, <2>1, <2>2, <3>5 DEF Stopped
  <2>. QED
    BY <2>1, <2>3 DEF Unmounted, Stopped, docker, host
<1>4. ASSUME CreateTasksRefused \/ StopPlaybook \/ Succeed
      PROVE  Unmounted(s)' /\ Stopped(s)' /\ UNCHANGED <<status, mounted>>
  BY <1>0, <1>4 DEF CreateTasksRefused, StopPlaybook, Succeed, Finish, docker, host, Unmounted,
                    Stopped
<1>. QED
  BY <1>1, <1>2, <1>3, <1>4 DEF PlaybookStep

\* Every step keeps both, and a disk comes to be mounted twice only by a start without
\* mark, a restart, or a clean of what runs.
LEMMA NextMounts ==
  ASSUME MountIInv, [Next]_vars, NEW s \in ServiceMount
  PROVE  /\ Unmounted(s)' /\ Stopped(s)'
         /\ MountedTwice(s)' /\ ~ MountedTwice(s) =>
              \/ cmd = "start" /\ at[s] = "start" /\ ~ bound[s]
              \/ cmd \in {"restart", "reload"} /\ at[s] = "restart"
              \/ cmd \in {"clean", "cleanlog"} /\ at[s] = "mount" /\ status[s] = "running"
<1>. DEFINE Goal == /\ Unmounted(s)' /\ Stopped(s)'
                    /\ MountedTwice(s)' /\ ~ MountedTwice(s) =>
                         \/ cmd = "start" /\ at[s] = "start" /\ ~ bound[s]
                         \/ cmd \in {"restart", "reload"} /\ at[s] = "restart"
                         \/ cmd \in {"clean", "cleanlog"} /\ at[s] = "mount" /\ status[s] = "running"
<1>. SUFFICES Goal
  OBVIOUS
<1>0. s \in Service /\ IInv /\ TypeOK /\ Unmounted(s) /\ Stopped(s)
  BY MountRole DEF MountIInv, IInv
<1>1. CASE UNCHANGED vars
  BY <1>0, <1>1 DEF vars, database, docker, host, command, locals, Unmounted, Stopped, Step, MountedTwice
<1>2. CASE PlaybookStep \/ \E c \in Command, ss \in SUBSET Service : Invoke(c, ss)
  BY <1>2, PlaybookMounts DEF MountedTwice
<1>3. ASSUME NEW t \in Service, TaskWork(t) \/ StepFails(t), t # s
      PROVE  Goal
  BY <1>0, <1>3, TaskAlone DEF Alone, command, Unmounted, Stopped, Step, MountedTwice
<1>4. CASE TaskWork(s) \/ StepFails(s)
  <2>1. Unmounted(s)' /\ Stopped(s)'
    BY <1>0, <1>4, TaskUnmounted, TaskStopped
  <2>2. ASSUME MountedTwice(s)', ~ MountedTwice(s)
        PROVE  \/ cmd = "start" /\ at[s] = "start" /\ ~ bound[s]
               \/ cmd \in {"restart", "reload"} /\ at[s] = "restart"
               \/ cmd \in {"clean", "cleanlog"} /\ at[s] = "mount" /\ status[s] = "running"
    <3>1. \/ at[s] \in {"start", "restart"} /\ mounted[s]
          \/ at[s] = "mount" /\ status[s] = "running"
      BY <1>0, <1>4, <2>2, TaskMounts DEF MountedTwice
    <3>2. CASE at[s] = "start"
      BY <1>0, <3>1, <3>2, MountSteps, MarkedBeforeStart DEF Unmounted
    <3>3. CASE at[s] = "restart"
      BY <1>0, <3>3, MountSteps
    <3>4. CASE at[s] = "mount"
      BY <1>0, <3>1, <3>4, MountSteps DEF Stopped
    <3>. QED
      BY <3>1, <3>2, <3>3, <3>4
  <2>. QED
    BY <2>1, <2>2
<1>5. CASE \E t \in Service : ContainerExits(t)
  <2>1. /\ UNCHANGED <<bound, mounted, found, at, cmd, todo>>
        /\ status'[s] = "running" => status[s] = "running"
    BY <1>0, <1>5 DEF ContainerExits, database, host, locals, TypeOK
  <2>. QED
    BY <1>0, <2>1 DEF Unmounted, Stopped, Step, MountedTwice
<1>6. CASE CreateTasksFails \/ Crash
  BY <1>0, <1>6 DEF CreateTasksFails, Crash, Finish, docker, host, Unmounted, Stopped, MountedTwice
<1>. QED
  BY <1>1, <1>2, <1>3, <1>4, <1>5, <1>6 DEF Next

\* For all eight commands and whatever fails: the disk of a chunkserver that mounts it
\* itself comes to be mounted on the host while it runs only by a start after its id has been
\* taken off the disk, a restart, or a clean of a service that runs.
THEOREM DiskMountedTwice == Spec => MountedTwiceOnly
<1>1. Init => MountIInv
  BY InitIInv, MountRole DEF Init, MountIInv, Unmounted, Stopped
<1>2. MountIInv /\ [Next]_vars => MountIInv'
  BY NextIInv, NextMounts DEF MountIInv
<1>3. MountIInv /\ [Next]_vars =>
        [\A s \in ServiceMount : MountedTwice(s)' /\ ~ MountedTwice(s) =>
           \/ cmd = "start" /\ at[s] = "start" /\ ~ bound[s]
           \/ cmd \in {"restart", "reload"} /\ at[s] = "restart"
           \/ cmd \in {"clean", "cleanlog"} /\ at[s] = "mount" /\ status[s] = "running"]_vars
  BY NextMounts
<1>. QED
  BY <1>1, <1>2, <1>3, PTL DEF Spec, MountedTwiceOnly
=============================================================================
