------------------------------ MODULE Lifecycle ------------------------------
(***************************************************************************)
(* The life of the services of one cluster under the curveadm commands     *)
(* deploy, start, stop, restart, reload, clean and upgrade.                *)
(*                                                                         *)
(* A command is a playbook: a sequence of steps, each of which creates one *)
(* task per service (reading the database as it does) and executes them    *)
(* concurrently (module Tasks); the first step with a failed task ends the *)
(* command.  A task is a sequence of steps on a host over ssh and on the   *)
(* local database.  The state that outlives a command is in three places:  *)
(* the database (record, bound), docker on the service's host (cid,        *)
(* status, synced) and the host's disk (mounted, data).                    *)
(*                                                                         *)
(* Steps fail: without effect (ssh, docker, a full disk), or with it, when *)
(* the reply is lost to the ssh timeout; the curveadm process can be       *)
(* killed between two steps; a container can exit by itself.               *)
(***************************************************************************)
EXTENDS Integers, Sequences, FiniteSets

CONSTANTS
  Service,       \* the services of the topology
  Role,          \* [Service -> RoleName]
  Disk,          \* the chunkservers, if `curveadm disks` manages their disks
  ServiceMount,  \* those whose container mounts the disk (service_mount_device)
  Command,       \* the commands the operator gives
  Fault,         \* the kinds of failure considered
  LostAt,        \* the task steps whose reply can be lost
  MaxFaults      \* bound: how many failures happen

RoleName == {"etcd", "mds", "chunkserver", "snapshotclone"}
HasRole(r) == {s \in Service : Role[s] = r}

TaskStep ==
  {"pull", "getService", "create", "insert", "umountCreated",
   "sync", "list", "umount", "start", "postStart", "pool", "balance",
   "stop", "listRestart", "restart",
   "unbind", "mount", "files", "remove", "forget"}

ASSUME RoleAssumption == Role \in [Service -> RoleName]
ASSUME MdsAssumption == HasRole("mds") # {}   \* else deploy panics
ASSUME DiskAssumption == Disk \in {{}, HasRole("chunkserver")}
ASSUME ServiceMountAssumption == ServiceMount \subseteq Disk
ASSUME FaultAssumption ==
  /\ Fault \subseteq {"remote", "database", "lost", "crash", "exit"}
  /\ LostAt \subseteq TaskStep
  /\ MaxFaults \in Nat

VARIABLES
  record,     \* containers table: [Service -> container id, Cleaned or NoRecord]
  bound,      \* disk table: is the service's disk marked with its id
  cid,        \* docker: the container with the service's name, or NoContainer
  status,     \* docker: what that container is doing
  synced,     \* docker: has its configuration been installed
  mounted,    \* host: is the service's disk mounted on the host
  data,       \* host: does its data directory, on the disk, hold its data
  cmd,        \* the command being run, or Idle
  targets,    \* the services it is about
  todo,       \* the playbook steps left; the first is being executed
  at,         \* [Service -> where its task is]
  old,        \* [Service -> the task's oldContainerId]
  cont,       \* [Service -> the task's containerId]
  found,      \* [Service -> did the task find a disk with the service's id]
  last,       \* the last command, and how it ended
  fresh,      \* the services whose container this command has created
  faults      \* how many failures have happened

database == <<record, bound>>
docker   == <<cid, status, synced>>
host     == <<mounted, data>>
command  == <<cmd, targets, todo, last>>
locals   == <<old, cont, found>>
vars     == <<database, docker, host, command, at, locals, fresh, faults>>

ContainerId == 1 .. 4    \* more than are referred to at the same time
NoContainer == 0
NoRecord    == 0         \* no row in the table
Cleaned     == -1        \* the container id "-"
Idle        == "idle"

CommandName == {"deploy", "start", "stop", "restart", "reload",
                "clean", "cleanlog", "upgrade"}

ASSUME CommandAssumption == Command \subseteq CommandName

\* Where a task that has ended stands; "none" when the service has no task.
Ended == {"none", "ok", "skip", "error"}

-----------------------------------------------------------------------------
(* Playbooks. *)

StepType == {"PULL_IMAGE", "CREATE_CONTAINER", "SYNC_CONFIG", "START_SERVICE",
             "STOP_SERVICE", "RESTART_SERVICE", "CLEAN_SERVICE", "CREATE_POOL", "BALANCE_LEADER"}

On(type, ss) == [type |-> type, on |-> ss]

\* DEPLOY_LIMIT_SERVICE: the first mds of the topology creates the pools.
FirstMds == {CHOOSE s \in HasRole("mds") : TRUE}

\* Variant: the chunkservers are started before the mds.
DeployStepsChunkserverFirst(ss) ==
  << On("PULL_IMAGE", ss), On("CREATE_CONTAINER", ss), On("SYNC_CONFIG", ss),
     On("START_SERVICE", HasRole("etcd")), On("START_SERVICE", HasRole("chunkserver")),
     On("START_SERVICE", HasRole("mds")), On("CREATE_POOL", FirstMds),
     On("CREATE_POOL", FirstMds), On("START_SERVICE", ss \cap HasRole("snapshotclone")),
     On("BALANCE_LEADER", FirstMds) >>

\* CURVEBS_DEPLOY_STEPS with the services genDeployPlaybook selects for each
\* (CLEAN_PRECHECK_ENVIRONMENT, the first, is as PULL_IMAGE: it can fail, and
\* changes nothing that others look at; one step stands for both).
DeploySteps(ss) ==
  << On("PULL_IMAGE", ss), On("CREATE_CONTAINER", ss), On("SYNC_CONFIG", ss),
     On("START_SERVICE", HasRole("etcd")), On("START_SERVICE", HasRole("mds")),
     On("CREATE_POOL", FirstMds), On("START_SERVICE", HasRole("chunkserver")),
     On("CREATE_POOL", FirstMds), On("START_SERVICE", ss \cap HasRole("snapshotclone")),
     On("BALANCE_LEADER", FirstMds) >>

\* The steps of the other commands, each about the services of the filter.
StartSteps(ss) == << On("START_SERVICE", ss) >>
StopSteps(ss) == << On("STOP_SERVICE", ss) >>
RestartSteps(ss) == << On("RESTART_SERVICE", ss) >>
ReloadSteps(ss) == << On("SYNC_CONFIG", ss), On("RESTART_SERVICE", ss) >>
CleanSteps(ss) == << On("CLEAN_SERVICE", ss) >>
UpgradeSteps(ss) ==
  << On("STOP_SERVICE", ss), On("CLEAN_SERVICE", ss), On("PULL_IMAGE", ss),
     On("CREATE_CONTAINER", ss), On("SYNC_CONFIG", ss), On("START_SERVICE", ss) >>

Playbook(c, ss) ==
  CASE c = "deploy"                -> DeploySteps(ss)
    [] c = "start"                 -> StartSteps(ss)
    [] c = "stop"                  -> StopSteps(ss)
    [] c = "restart"               -> RestartSteps(ss)
    [] c = "reload"                -> ReloadSteps(ss)
    [] c \in {"clean", "cleanlog"} -> CleanSteps(ss)
    [] c = "upgrade"               -> UpgradeSteps(ss)

\* What a clean step removes: `clean` everything, `clean --only=log` the log,
\* and upgrade only the container.
CleansData      == cmd = "clean"
CleansContainer == cmd \in {"clean", "upgrade"}

-----------------------------------------------------------------------------
(* The operator and the playbook. *)

Init ==
  /\ record = [s \in Service |-> NoRecord]
  /\ bound = [s \in Service |-> FALSE]
  /\ cid = [s \in Service |-> NoContainer]
  /\ status = [s \in Service |-> "absent"]
  /\ synced = [s \in Service |-> FALSE]
  /\ mounted = [s \in Service |-> s \in Disk]   \* as `curveadm format` leaves it
  /\ data = [s \in Service |-> FALSE]
  /\ cmd = Idle /\ targets = {} /\ todo = << >>
  /\ at = [s \in Service |-> "none"]
  /\ old = [s \in Service |-> NoRecord]
  /\ cont = [s \in Service |-> NoRecord]
  /\ found = [s \in Service |-> FALSE]
  /\ last = [cmd |-> Idle, on |-> {}, result |-> "none"]
  /\ fresh = {}
  /\ faults = 0

\* deploy is about all services, or (--skip) all but the snapshotclones.
DeployTargets == {Service, Service \ HasRole("snapshotclone")}

\* The others are about the services of the filter (id, role and host); an
\* upgrade, unless forced, is a sequence of upgrades of one service each.
Targets(c) == IF c = "deploy" THEN DeployTargets ELSE SUBSET Service

\* The operator gives a command, confirms it, and its playbook begins.
Invoke(c, ss) ==
  /\ cmd = Idle
  /\ ss \in Targets(c) \ {{}}
  /\ cmd' = c /\ targets' = ss /\ todo' = Playbook(c, ss)
  /\ last' = [cmd |-> c, on |-> ss, result |-> "running"]
  /\ fresh' = {}
  /\ UNCHANGED <<database, docker, host, at, locals, faults>>

\* The command is over; nothing of its memory remains.
Finish(result) ==
  /\ cmd' = Idle /\ targets' = {} /\ todo' = << >>
  /\ last' = [last EXCEPT !.result = result]
  /\ at' = [s \in Service |-> "none"]
  /\ old' = [s \in Service |-> NoRecord]
  /\ cont' = [s \in Service |-> NoRecord]
  /\ found' = [s \in Service |-> FALSE]

\* One more failure of a kind that is considered.
Failure(kind) ==
  /\ kind \in Fault
  /\ faults < MaxFaults
  /\ faults' = faults + 1

Step == Head(todo)

Working == \E s \in Service : at[s] # "none"

\* IsSkip: a snapshotclone that was never deployed has no tasks but those that
\* do not ask for its container.
IsSkip(s) == Role[s] = "snapshotclone" /\ record[s] = NoRecord

NeedsRecord(type) == type \notin {"PULL_IMAGE", "CREATE_CONTAINER"}

\* createTasks fails if a service of the step has no container id.
Creatable(s) == NeedsRecord(Step.type) => record[s] # NoRecord \/ IsSkip(s)

\* Where the task of a service begins, given what createTasks reads.
FirstStep(s) ==
  IF NeedsRecord(Step.type) /\ IsSkip(s) THEN "none"
  ELSE CASE Step.type = "PULL_IMAGE"       -> "pull"
         [] Step.type = "CREATE_CONTAINER" -> "getService"
         [] Step.type = "SYNC_CONFIG"      -> "sync"
         [] Step.type = "START_SERVICE"    -> "list"
         [] Step.type = "STOP_SERVICE"     -> "stop"
         [] Step.type = "RESTART_SERVICE"  -> "listRestart"
         [] Step.type = "CREATE_POOL"      -> "pool"
         [] Step.type = "BALANCE_LEADER"   -> "balance"
         [] Step.type = "CLEAN_SERVICE"    -> IF bound[s] THEN "unbind" ELSE "files"

\* Variant: the disk is not marked with the service's id.
BindsNone == {}

\* NewCreateContainerTask marks the disk of a chunkserver with its id.
Binds == IF Step.type = "CREATE_CONTAINER" THEN Disk \cap Step.on ELSE {}

\* createTasks: one task per service of the step, then their execution begins.
CreateTasks ==
  /\ cmd # Idle /\ todo # << >> /\ ~ Working
  /\ \A s \in Step.on : Creatable(s)
  /\ \E s \in Step.on : FirstStep(s) # "none"
  /\ bound' = [s \in Service |-> bound[s] \/ s \in Binds]
  /\ at' = [s \in Service |-> IF s \in Step.on THEN FirstStep(s) ELSE "none"]
  /\ cont' = [s \in Service |-> IF s \in Step.on /\ NeedsRecord(Step.type)
                                THEN record[s] ELSE NoRecord]
  /\ found' = [s \in Service |-> s \in Step.on /\ bound[s]]
  /\ old' = [s \in Service |-> NoRecord]
  /\ UNCHANGED <<record, docker, host, command, fresh, faults>>

\* A step without tasks does nothing.
EmptyStep ==
  /\ cmd # Idle /\ todo # << >> /\ ~ Working
  /\ \A s \in Step.on : Creatable(s) /\ FirstStep(s) = "none"
  /\ todo' = Tail(todo)
  /\ UNCHANGED <<database, docker, host, cmd, targets, last, at, locals, fresh, faults>>

\* createTasks fails, because a service has no container id ...
CreateTasksRefused ==
  /\ cmd # Idle /\ todo # << >> /\ ~ Working
  /\ \E s \in Step.on : ~ Creatable(s)
  /\ Finish("error")
  /\ UNCHANGED <<database, docker, host, fresh, faults>>

\* ... or because the database does, after some disks have been marked.
CreateTasksFails ==
  /\ cmd # Idle /\ todo # << >> /\ ~ Working
  /\ Failure("database")
  /\ \E ss \in SUBSET Binds :
       bound' = [s \in Service |-> bound[s] \/ s \in ss]
  /\ Finish("error")
  /\ UNCHANGED <<record, docker, host, fresh>>

BatchEnded == Working /\ \A s \in Service : at[s] \in Ended

\* Variant: a step goes on to the next whatever its tasks returned.
BatchFailedNever == FALSE

BatchFailed == \E s \in Service : at[s] = "error"

\* Tasks.Execute has returned nil: on to the next step.
NextStep ==
  /\ BatchEnded /\ ~ BatchFailed
  /\ todo' = Tail(todo)
  /\ at' = [s \in Service |-> "none"]
  /\ UNCHANGED <<database, docker, host, cmd, targets, last, locals, fresh, faults>>

\* Tasks.Execute has returned an error: the playbook ends with it.
StopPlaybook ==
  /\ BatchEnded /\ BatchFailed
  /\ Finish("error")
  /\ UNCHANGED <<database, docker, host, fresh, faults>>

Succeed ==
  /\ cmd # Idle /\ todo = << >>
  /\ Finish("ok")
  /\ UNCHANGED <<database, docker, host, fresh, faults>>

\* The curveadm process is killed between two steps.
Crash ==
  /\ cmd # Idle
  /\ Failure("crash")
  /\ Finish("crash")
  /\ UNCHANGED <<database, docker, host, fresh>>

\* A container exits by itself; what the last command achieved is gone.
ContainerExits(s) ==
  /\ status[s] = "running"
  /\ Failure("exit")
  /\ status' = [status EXCEPT ![s] = "exited"]
  /\ last' = [last EXCEPT !.on = @ \ {s}]
  /\ UNCHANGED <<database, cid, synced, host, cmd, targets, todo, at, locals, fresh>>

-----------------------------------------------------------------------------
(* The steps of a task. *)

\* The step succeeds, or takes effect but its reply does not arrive in time.
Proceed(s, next) ==
  \/ /\ at' = [at EXCEPT ![s] = next]
     /\ UNCHANGED faults
  \/ /\ at[s] \in LostAt
     /\ Failure("lost")
     /\ at' = [at EXCEPT ![s] = "error"]

\* The step decides by itself, or another look shows it cannot be done.
Goto(s, next) == at' = [at EXCEPT ![s] = next] /\ UNCHANGED faults

DatabaseSteps == {"getService", "insert", "unbind", "forget"}

\* Any step can fail without effect, on the host or in the database.
StepFails(s) ==
  /\ at[s] \in TaskStep
  /\ Failure(IF at[s] \in DatabaseSteps THEN "database" ELSE "remote")
  /\ at' = [at EXCEPT ![s] = "error"]
  /\ UNCHANGED <<database, docker, host, command, locals, fresh>>

\* The container the task knows is the one docker has.
Exists(s) == status[s] # "absent" /\ cid[s] = cont[s]

\* NewPullImageTask changes nothing the other steps look at.
PullImage(s) ==
  /\ at[s] = "pull"
  /\ Proceed(s, "ok")
  /\ UNCHANGED <<database, docker, host, command, locals, fresh>>

\* Variant: any record lets the task go on.
MustCreateAlways(s) == TRUE

\* step2GetService skips the task if there is a container that was not cleaned.
MustCreate(s) == record[s] \in {NoRecord, Cleaned}

GetService(s) ==
  /\ at[s] = "getService"
  /\ old' = [old EXCEPT ![s] = record[s]]
  /\ Goto(s, IF MustCreate(s) THEN "create" ELSE "skip")
  /\ UNCHANGED <<database, docker, host, command, cont, found, fresh>>

\* An id that nothing refers to.
FreshId(s) == CHOOSE i \in ContainerId : i \notin {record[s], cid[s], old[s], cont[s]}

\* docker create --name: the name is the service's, so there is at most one.
CreateContainer(s) ==
  /\ at[s] = "create"
  /\ IF status[s] # "absent"
     THEN Goto(s, "error") /\ UNCHANGED <<docker, cont, fresh>>
     ELSE /\ Proceed(s, "insert")
          /\ cid' = [cid EXCEPT ![s] = FreshId(s)]
          /\ cont' = [cont EXCEPT ![s] = FreshId(s)]
          /\ status' = [status EXCEPT ![s] = "created"]
          /\ synced' = [synced EXCEPT ![s] = FALSE]
          /\ fresh' = fresh \cup {s}
  /\ UNCHANGED <<database, host, command, old, found>>

\* Variant: the row is always inserted, also when there is one.
InsertsRow(s) == record[s] = NoRecord

\* step2InsertService: update the row of a cleaned container, else insert one,
\* which the primary key refuses when there is a row.
RowWritten(s) == old[s] = Cleaned \/ record[s] = NoRecord

InsertService(s) ==
  /\ at[s] = "insert"
  /\ IF RowWritten(s)
     THEN /\ record' = [record EXCEPT ![s] = cont[s]]
          /\ Goto(s, IF s \in ServiceMount THEN "umountCreated" ELSE "ok")
     ELSE Goto(s, "error") /\ UNCHANGED record
  /\ UNCHANGED <<bound, docker, host, command, locals, fresh>>

\* umount with IgnoreUmounted false.
UmountCreated(s) ==
  /\ at[s] = "umountCreated"
  /\ IF mounted[s]
     THEN Proceed(s, "ok") /\ mounted' = [mounted EXCEPT ![s] = FALSE]
     ELSE Goto(s, "error") /\ UNCHANGED mounted
  /\ UNCHANGED <<database, docker, data, command, locals, fresh>>

\* NewSyncConfigTask: checkContainerExist, then the files one by one.
SyncConfig(s) ==
  /\ at[s] = "sync"
  /\ IF Exists(s)
     THEN Proceed(s, "ok") /\ synced' = [synced EXCEPT ![s] = TRUE]
     ELSE Goto(s, "error") /\ UNCHANGED synced
  /\ UNCHANGED <<database, cid, status, host, command, locals, fresh>>

\* NewStartServiceTask: checkContainerExist, and umount only if createTasks
\* found a disk with the service's id that the container mounts.
ListContainers(s) ==
  /\ at[s] = "list"
  /\ Goto(s, IF ~ Exists(s) THEN "error"
             ELSE IF found[s] /\ s \in ServiceMount THEN "umount" ELSE "start")
  /\ UNCHANGED <<database, docker, host, command, locals, fresh>>

\* Variant: an umount that failed does not keep the service from starting.
UmountIgnored(s) ==
  /\ at[s] = "umount"
  /\ at' = [at EXCEPT ![s] = "start"]
  /\ \/ UNCHANGED faults /\ mounted' = [mounted EXCEPT ![s] = FALSE]
     \/ Failure("remote") /\ UNCHANGED mounted
  /\ UNCHANGED <<database, docker, data, command, locals, fresh>>

\* umount with IgnoreUmounted true.
Umount(s) ==
  /\ at[s] = "umount"
  /\ Proceed(s, "start")
  /\ mounted' = [mounted EXCEPT ![s] = FALSE]
  /\ UNCHANGED <<database, docker, data, command, locals, fresh>>

\* The container runs; a chunkserver writes its data directory, on its disk.
Run(s) ==
  /\ status' = [status EXCEPT ![s] = "running"]
  /\ data' = [data EXCEPT ![s] = @ \/ s \in Disk]

StartContainer(s) ==
  /\ at[s] = "start"
  /\ Proceed(s, "postStart")
  /\ Run(s)
  /\ UNCHANGED <<database, cid, synced, mounted, command, locals, fresh>>

\* Variant: the task returns docker's status instead of an error.
CheckPostStartStatus(s) ==
  /\ at[s] = "postStart"
  /\ Goto(s, IF status[s] = "running" THEN "ok" ELSE status[s])
  /\ UNCHANGED <<database, docker, host, command, locals, fresh>>

\* step2CheckPostStart: the crontab command or docker inspect shows it runs.
CheckPostStart(s) ==
  /\ at[s] = "postStart"
  /\ Goto(s, IF status[s] = "running" THEN "ok" ELSE "error")
  /\ UNCHANGED <<database, docker, host, command, locals, fresh>>

\* NewCreateTopologyTask runs curvebs-tool in the mds container.
CreatePool(s) ==
  /\ at[s] = "pool"
  /\ IF Exists(s) /\ status[s] = "running" THEN Proceed(s, "ok") ELSE Goto(s, "error")
  /\ UNCHANGED <<database, docker, host, command, locals, fresh>>

\* NewBalanceTask runs curve_ops_tool there: docker exec needs a running container.
BalanceLeader(s) ==
  /\ at[s] = "balance"
  /\ IF Exists(s) /\ status[s] = "running" THEN Proceed(s, "ok") ELSE Goto(s, "error")
  /\ UNCHANGED <<database, docker, host, command, locals, fresh>>

\* NewStopServiceTask: skip a cleaned container, fail on a lost one.
StopContainer(s) ==
  /\ at[s] = "stop"
  /\ IF cont[s] # Cleaned /\ Exists(s)
     THEN /\ Proceed(s, "ok")
          /\ status' = [status EXCEPT ![s] = IF @ = "running" THEN "exited" ELSE @]
     ELSE /\ Goto(s, IF cont[s] = Cleaned THEN "skip" ELSE "error")
          /\ UNCHANGED status
  /\ UNCHANGED <<database, cid, synced, host, command, locals, fresh>>

\* NewRestartServiceTask does not look at the disk.
ListContainersRestart(s) ==
  /\ at[s] = "listRestart"
  /\ Goto(s, IF Exists(s) THEN "restart" ELSE "error")
  /\ UNCHANGED <<database, docker, host, command, locals, fresh>>

RestartContainer(s) ==
  /\ at[s] = "restart"
  /\ Proceed(s, "postStart")
  /\ Run(s)
  /\ UNCHANGED <<database, cid, synced, mounted, command, locals, fresh>>

\* NewCleanServiceTask first takes the service's id off the disk ...
CleanDiskChunkServerId(s) ==
  /\ at[s] = "unbind"
  /\ bound' = [bound EXCEPT ![s] = FALSE]
  /\ Goto(s, IF s \in ServiceMount THEN "mount" ELSE "files")
  /\ UNCHANGED <<record, docker, host, command, locals, fresh>>

\* ... then mounts the disk back; mount refuses a disk mounted there already.
MountBack(s) ==
  /\ at[s] = "mount"
  /\ IF mounted[s]
     THEN Goto(s, "error") /\ UNCHANGED mounted
     ELSE Proceed(s, "files") /\ mounted' = [mounted EXCEPT ![s] = TRUE]
  /\ UNCHANGED <<database, docker, data, command, locals, fresh>>

\* Recycling and removing files reach the data only where it is mounted.
RemoveFiles(s) ==
  /\ at[s] = "files"
  /\ Proceed(s, IF CleansContainer THEN "remove" ELSE "ok")
  /\ data' = [data EXCEPT ![s] = @ /\ ~ (CleansData /\ mounted[s])]
  /\ UNCHANGED <<database, docker, mounted, command, locals, fresh>>

Vanish(s) ==
  /\ status' = [status EXCEPT ![s] = "absent"]
  /\ cid' = [cid EXCEPT ![s] = NoContainer]
  /\ synced' = [synced EXCEPT ![s] = FALSE]

\* Variant: the database forgets the container before docker removes it.
RemoveContainerForgotten(s) ==
  /\ at[s] = "remove"
  /\ record' = [record EXCEPT ![s] = Cleaned]
  /\ IF Exists(s) /\ status[s] # "running"
     THEN Proceed(s, "ok") /\ Vanish(s)
     ELSE Goto(s, "error") /\ UNCHANGED docker
  /\ UNCHANGED <<bound, host, command, locals, fresh>>

\* Variant: a container that is not there is an error.
RemoveContainerStrict(s) ==
  /\ at[s] = "remove"
  /\ IF cont[s] # Cleaned /\ Exists(s) /\ status[s] # "running"
     THEN Proceed(s, "forget") /\ Vanish(s)
     ELSE Goto(s, IF cont[s] = Cleaned THEN "ok" ELSE "error") /\ UNCHANGED docker
  /\ UNCHANGED <<database, host, command, locals, fresh>>

\* step2CleanContainer: docker rm, which refuses a running container; one that
\* is not there is as good as removed.
RemoveContainer(s) ==
  /\ at[s] = "remove"
  /\ IF cont[s] # Cleaned /\ Exists(s) /\ status[s] # "running"
     THEN /\ Proceed(s, "forget")
          /\ Vanish(s)
     ELSE /\ Goto(s, IF cont[s] = Cleaned THEN "ok"
                     ELSE IF Exists(s) THEN "error" ELSE "forget")
          /\ UNCHANGED docker
  /\ UNCHANGED <<database, host, command, locals, fresh>>

ForgetContainer(s) ==
  /\ at[s] = "forget"
  /\ record' = [record EXCEPT ![s] = Cleaned]
  /\ Goto(s, "ok")
  /\ UNCHANGED <<bound, docker, host, command, locals, fresh>>

-----------------------------------------------------------------------------

PlaybookStep ==
  \/ CreateTasks \/ EmptyStep \/ CreateTasksRefused
  \/ NextStep \/ StopPlaybook \/ Succeed

TaskWork(s) ==
  \/ PullImage(s) \/ GetService(s) \/ CreateContainer(s) \/ InsertService(s)
  \/ UmountCreated(s) \/ SyncConfig(s) \/ ListContainers(s) \/ Umount(s)
  \/ StartContainer(s) \/ CheckPostStart(s) \/ CreatePool(s)
  \/ BalanceLeader(s) \/ StopContainer(s) \/ ListContainersRestart(s) \/ RestartContainer(s)
  \/ CleanDiskChunkServerId(s)
  \/ MountBack(s) \/ RemoveFiles(s) \/ RemoveContainer(s) \/ ForgetContainer(s)

Next ==
  \/ \E c \in Command, ss \in SUBSET Service : Invoke(c, ss)
  \/ PlaybookStep
  \/ \E s \in Service : TaskWork(s)
  \/ \E s \in Service : StepFails(s) \/ ContainerExits(s)
  \/ CreateTasksFails \/ Crash

Spec == Init /\ [][Next]_vars

\* The process and the tasks it started are scheduled; the operator gives each
\* command, about all services, again and again, and again and again repeats one
\* that failed before turning to another.  Nothing says that failures happen.
Repeat(c) ==
  /\ last.cmd = c /\ last.on = Service /\ last.result # "ok"
  /\ Invoke(c, Service)

FairSpec ==
  /\ Spec
  /\ WF_vars(PlaybookStep)
  /\ \A s \in Service : WF_vars(TaskWork(s))
  /\ \A c \in Command : SF_vars(Invoke(c, Service)) /\ SF_vars(Repeat(c))

-----------------------------------------------------------------------------
(* Properties. *)

Record == ContainerId \cup {NoRecord, Cleaned}

TypeOK ==
  /\ record \in [Service -> Record]
  /\ bound \in [Service -> BOOLEAN]
  /\ cid \in [Service -> ContainerId \cup {NoContainer}]
  /\ status \in [Service -> {"absent", "created", "running", "exited"}]
  /\ synced \in [Service -> BOOLEAN]
  /\ mounted \in [Service -> BOOLEAN]
  /\ data \in [Service -> BOOLEAN]
  /\ cmd \in Command \cup {Idle}
  /\ targets \in SUBSET Service
  /\ todo \in Seq([type : StepType, on : SUBSET Service])
  /\ at \in [Service -> Ended \cup TaskStep]
  /\ old \in [Service -> Record]
  /\ cont \in [Service -> Record]
  /\ found \in [Service -> BOOLEAN]
  /\ last \in [cmd : Command \cup {Idle}, on : SUBSET Service,
               result : {"none", "running", "ok", "error", "crash"}]
  /\ fresh \in SUBSET Service
  /\ faults \in 0 .. MaxFaults

\* Whatever fails or crashes, the container a record names is the one docker
\* has under the service's name, if docker has one.
RecordFaithful ==
  \A s \in Service :
    record[s] \in ContainerId /\ cid[s] # NoContainer => record[s] = cid[s]

\* A container in the database is only given up once docker has removed it.
ForgetOnlyRemoved ==
  [][\A s \in Service :
       record[s] \in ContainerId /\ record'[s] # record[s] => status[s] = "absent"]_vars

\* deploy and upgrade start a service only when every service of the command
\* has a recorded container with its configuration: a failure of one task, in
\* whatever order the tasks ran, keeps all services from being started.
StartsOnlyConfigured ==
  cmd \in {"deploy", "upgrade"} /\ Working /\ Step.type = "START_SERVICE" =>
    \A s \in targets : cid[s] # NoContainer /\ synced[s] /\ record[s] = cid[s]

\* deploy starts a chunkserver only while the mds it has started are running
\* (those that did not exit by themselves).
DeployOrder ==
  \A s \in HasRole("chunkserver"), m \in HasRole("mds") :
    cmd = "deploy" /\ at[s] \in {"umount", "start", "postStart"} /\ m \in last.on =>
      status[m] = "running"

\* What each command claims when it succeeds, for each of its services, and
\* until the container exits by itself: also when it took over what earlier
\* commands that failed or were killed had left.
Achieved(c, s) ==
  CASE c = "deploy" ->
         /\ status[s] = "running" /\ record[s] = cid[s] /\ synced[s]
         /\ bound[s] <=> s \in Disk
    [] c = "upgrade" ->
         /\ status[s] = "running" /\ record[s] = cid[s] /\ synced[s]
         /\ bound[s] <=> s \in Disk
         /\ s \in fresh
    [] c \in {"start", "restart"} ->
         IsSkip(s) \/ (status[s] = "running" /\ record[s] = cid[s])
    [] c = "reload" ->
         IsSkip(s) \/ (status[s] = "running" /\ record[s] = cid[s] /\ synced[s])
    [] c = "stop"  -> status[s] # "running"
    [] c = "clean" -> IsSkip(s) \/ (record[s] = Cleaned /\ ~ bound[s])
    [] c = "cleanlog" -> ~ bound[s]

SuccessMeansAchieved ==
  last.result = "ok" => \A s \in last.on : Achieved(last.cmd, s)

\* A running chunkserver that mounts its disk itself, with the disk mounted on the
\* host as well.
MountedTwice(s) == status[s] = "running" /\ mounted[s]

\* "unmount disk device from host as it will be mounted in service(chunkserver)
\* container" (NewStartServiceTask), "should not start service if failed to
\* unmount disk from host" (NewCreateContainerTask).  Whatever earlier commands
\* left and whatever fails, no deploy and no upgrade makes a disk mounted twice,
\* and a start only if the service's id has been taken off the disk; restart and
\* reload, which do not look at the disk, may, and a clean of a service that runs.
MountedTwiceOnly ==
  [][\A s \in ServiceMount : MountedTwice(s)' /\ ~ MountedTwice(s) =>
       \/ cmd = "start" /\ at[s] = "start" /\ ~ bound[s]
       \/ cmd \in {"restart", "reload"} /\ at[s] = "restart"
       \/ cmd \in {"clean", "cleanlog"} /\ at[s] = "mount" /\ status[s] = "running"]_vars

\* A container that no record names, and that no task is about to record.
Orphan(s) == cid[s] # NoContainer /\ record[s] # cid[s] /\ at[s] # "insert"

\* A container comes to be unknown to the database in one way only: docker
\* created it and a failure, a lost reply or a kill struck before its id was
\* written.  No retry, upgrade or clean, whatever failed, loses one otherwise.
OrphanOnlyWhileCreating ==
  [][\A s \in Service :
       Orphan(s)' /\ ~ Orphan(s) => faults' # faults /\ at[s] \in {"create", "insert"}]_vars

\* Retrying heals: unless a container is unknown to the database, in whatever
\* state the failures left the services, a deploy succeeds again and again once
\* all commands are tried again and again.  (Repeating a command that failed is
\* needed: clean and deploy in turns undo each other's progress for ever when a
\* clean lost the reply of docker rm.)
RetryHeals ==
  [](\A s \in Service : ~ Orphan(s)) => []<>(last.cmd = "deploy" /\ last.result = "ok")

\* "Clean everything" (clean's help), "mount disk device back to host for data
\* cleaning" (NewCleanServiceTask): after a clean of everything has succeeded,
\* the service's disk holds no data.
CleanedHasNoData ==
  last.result = "ok" /\ last.cmd = "clean" => \A s \in last.on : ~ data[s]

=============================================================================
