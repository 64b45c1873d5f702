-------------------------------- MODULE Clients --------------------------------
(***************************************************************************)
(* The clients of a host: `map` and `unmap` of CurveBS volumes, `mount`    *)
(* and `umount` of CurveFS file systems, and the daemon that exports       *)
(* volumes as iSCSI targets.                                               *)
(*                                                                         *)
(* Each client is a container that docker restarts when its process ends   *)
(* or the host reboots; what it must do then are task files in it.  Volumes *)
(* and mount points have a record in the clients table.  A step fails      *)
(* without effect, or with its reply lost; that curveadm is killed between *)
(* two steps differs from neither.                                         *)
(***************************************************************************)
EXTENDS Integers, Sequences, FiniteSets

CONSTANTS
  Volume,       \* volumes to be mapped
  MountPoint,   \* mount points
  Target,       \* volumes to be exported, by the name tgtd shows
  PlainName,    \* [Target -> the name with other characters than letters replaced]
  ClientConf,   \* client.yaml: records [kind, mds, cluster]
  Fault,        \* the kinds of failure considered
  MaxJobs,      \* bound: how many commands the operator gives
  MaxFaults     \* bound: how many failures happen

Daemon == "curvebs-target-daemon"
Client == Volume \cup MountPoint            \* what has a record
Thing == Client \cup {Daemon}               \* what has a container
None == 0

ASSUME ClientsFaultAssumption ==
  Fault \subseteq {"fails", "lost", "exit", "reboot"} /\ MaxFaults \in Nat /\ MaxJobs \in Nat

\* What can be told apart.
ASSUME ClientsNameAssumption ==
  /\ Volume \cap MountPoint = {} /\ Daemon \notin Client \cup Target /\ Client \cap Target = {}
  /\ \A conf \in ClientConf : conf.mds \in BOOLEAN /\ conf.cluster \in BOOLEAN

\* A container that is gone leaves its id to the next one that does not find
\* it in the record.
ContainerId == {1, 2}

VARIABLES
  row,        \* clients table: [Client -> container id, or None]
  container,  \* [Thing -> id (None: there is none), state, restart policy]
  synced,     \* [Thing -> the configuration files written into the container]
  tasks,      \* [Thing -> the tasks of /curve/init.d in the container]
  attached,   \* [Thing -> mapped, mounted, or (Daemon) tgtd answers]
  exported,   \* the targets tgtd has
  exists,     \* the volumes of the cluster
  job,        \* the last command, its step, and what it remembers
  jobs,       \* how many commands have been given
  faults      \* how many failures have happened

host == <<container, synced, tasks, attached, exported, exists>>
vars == <<row, host, job, jobs, faults>>

NoContainer == [id |-> None, state |-> "none", policy |-> "none"]

Init ==
  /\ row = [c \in Client |-> None]
  /\ container = [c \in Thing |-> NoContainer]
  /\ synced = [c \in Thing |-> {}] /\ tasks = [c \in Thing |-> {}]
  /\ attached = [c \in Thing |-> FALSE] /\ exported = {} /\ exists = {}
  /\ job = [cmd |-> "none", on |-> Daemon, at |-> 1, id |-> None, status |-> "none",
            files |-> {}, result |-> "none", failed |-> FALSE]
  /\ jobs = 0 /\ faults = 0

Busy == job.result = "running"

\* The tasks' steps, without what only prepares the host (docker's state,
\* kernel module, directories, image).
NebdSteps == <<"listByName", "create", "insert", "sync", "start">>
CreateVolumeSteps == <<"checkUp", "createVolume">>

\* Variant: the container learns to map before it is configured to.
MapImageStepsTaskFirst == <<"checkUp", "mapTask", "syncClient", "mapImage">>

MapImageSteps == <<"checkUp", "syncClient", "mapTask", "mapImage">>

UnmapSteps == <<"known", "listById", "unmapImage", "stop", "remove", "delete">>
MountSteps == <<"listByName", "create", "insert", "sync", "start", "checkMount", "update">>
UmountSteps == <<"listById", "umountFS", "stop", "remove", "delete">>
TgtStartSteps == <<"checkDaemon", "create", "sync", "start", "tgtd", "tgtdTask">>
TgtStopSteps == <<"listDaemon", "stop", "remove">>
TgtAddSteps == <<"checkUp", "addTarget", "addTargetTask">>
TgtDeleteSteps == <<"checkUp", "showTargets", "delTask", "deleteTarget">>

\* The playbooks.
Steps ==
  [map |-> NebdSteps \o CreateVolumeSteps \o MapImageSteps, unmap |-> UnmapSteps,
   mount |-> MountSteps, umount |-> UmountSteps,
   tgtStart |-> TgtStartSteps, tgtStop |-> TgtStopSteps,
   tgtAdd |-> TgtAddSteps, tgtDelete |-> TgtDeleteSteps]

\* newCurveBSMutate: mounting with a volume behind asks for curvebs.cluster.
FsFiles(fstype) ==
  {"client.conf", "tools.conf"} \cup (IF fstype = "volume" THEN {"curvebs-client.conf"} ELSE {})
NebdFiles == {"client.conf", "nebd-server.conf"}
TgtdFiles == NebdFiles \cup {"/etc/curve/client.conf", "nebd-client.conf"}

\* NewClientConfig, and what the commands ask of it.
ValidConf(conf, kind) == conf.kind = kind /\ conf.mds

Begin(cmd, on, id, files) ==
  /\ ~ Busy /\ jobs < MaxJobs
  /\ jobs' = jobs + 1
  /\ job' = [cmd |-> cmd, on |-> on, at |-> 1, id |-> id, status |-> "none",
             files |-> files, result |-> "running", failed |-> FALSE]
  /\ UNCHANGED <<row, host, faults>>

RunMap(v) == \E conf \in ClientConf : ValidConf(conf, "curvebs") /\ Begin("map", v, None, NebdFiles)

\* Without curvebs.cluster the file for the volume cannot be written.
Writable(fstype, conf) == FsFiles(fstype) \ (IF conf.cluster THEN {} ELSE {"curvebs-client.conf"})
RunMount(m) == \E conf \in ClientConf, fstype \in {"s3", "volume"} :
  /\ ValidConf(conf, "curvefs")
  /\ Begin("mount", m, None,
           IF Writable(fstype, conf) = FsFiles(fstype) THEN FsFiles(fstype) ELSE {})

\* The record is read when the task is created.
RunUnmap(v) == Begin("unmap", v, row[v], {})
RunUmount(m) == Begin("umount", m, row[m], {})

RunTgtStart ==
  \E conf \in ClientConf : ValidConf(conf, "curvebs") /\ Begin("tgtStart", Daemon, None, TgtdFiles)
RunTgtStop == Begin("tgtStop", Daemon, None, {})
RunTgtAdd(t) ==
  \E conf \in ClientConf : ValidConf(conf, "curvebs") /\ Begin("tgtAdd", t, None, {})
RunTgtDelete(t) == Begin("tgtDelete", t, None, {})

-----------------------------------------------------------------------------
(* How a step ends. *)

At(step) == Busy /\ Steps[job.cmd][job.at] = step
Own == IF job.on \in Thing THEN job.on ELSE Daemon      \* the container concerned

Advanced(j) ==
  IF j.at = Len(Steps[j.cmd]) THEN [j EXCEPT !.result = "ok"] ELSE [j EXCEPT !.at = @ + 1]
Advance == job' = Advanced(job)
Stop(result) == job' = [job EXCEPT !.result = result]
Check(ok) == IF ok THEN Advance ELSE Stop("error")

Failure(kind) == kind \in Fault /\ faults < MaxFaults /\ faults' = faults + 1

\* The step has taken effect: on to the next, unless its reply is lost.
Proceed ==
  \/ Advance /\ UNCHANGED faults
  \/ Failure("lost") /\ job' = [job EXCEPT !.result = "error", !.failed = TRUE]

StepFails ==
  /\ Busy /\ Failure("fails")
  /\ job' = [job EXCEPT !.result = "error", !.failed = TRUE]
  /\ UNCHANGED <<row, host, jobs>>

\* A step that only looks.
Looks(step) == At(step) /\ UNCHANGED <<row, host, jobs, faults>>
\* A step that changes the host.
Does(step) == At(step) /\ UNCHANGED <<row, jobs>>

Exists(c) == container[c].id # None
Up(c) == container[c].state = "running"
SetState(c, state) == container' = [container EXCEPT ![c].state = state]

-----------------------------------------------------------------------------
(* map, mount and `target start` *)

\* checkVolumeExist, checkMountStatus: the name must be free.
ListByName == Looks("listByName") /\ Check(~ Exists(Own))

\* step2CheckTargetDaemonStatus.
CheckDaemon ==
  /\ Looks("checkDaemon")
  /\ IF Up(Daemon) THEN Stop("skip") ELSE Check(~ Exists(Daemon))

CreateContainer ==
  /\ Does("create")
  /\ LET used == {row[c] : c \in Client \cap {Own}}
         id == CHOOSE i \in ContainerId \ used : TRUE
     IN /\ container' = [container EXCEPT ![Own] =
             [id |-> id, state |-> "created",
              policy |-> IF job.cmd = "mount" THEN "always" ELSE "unless-stopped"]]
        /\ \/ UNCHANGED faults /\ job' = [Advanced(job) EXCEPT !.id = id]
           \/ Failure("lost") /\ job' = [job EXCEPT !.result = "error", !.failed = TRUE]
  /\ UNCHANGED <<synced, tasks, attached, exported, exists>>

\* Variant: a record that is there already stays.
InsertClientIgnored ==
  /\ At("insert")
  /\ row' = [row EXCEPT ![job.on] = IF @ = None THEN job.id ELSE @] /\ Advance
  /\ UNCHANGED <<host, jobs, faults>>

\* step2InsertClient; the id of the client is the table's primary key.
InsertClient ==
  /\ At("insert")
  /\ IF row[job.on] = None THEN row' = [row EXCEPT ![job.on] = job.id] /\ Advance
                           ELSE Stop("error") /\ UNCHANGED row
  /\ UNCHANGED <<host, jobs, faults>>

SyncFiles ==
  /\ Does("sync")
  /\ IF job.files = {} THEN Stop("error") /\ UNCHANGED <<synced, faults>>
     ELSE synced' = [synced EXCEPT ![Own] = job.files] /\ Proceed
  /\ UNCHANGED <<container, tasks, attached, exported, exists>>

StartContainer ==
  /\ Does("start")
  /\ SetState(Own, "running")
  /\ Proceed
  /\ UNCHANGED <<synced, tasks, attached, exported, exists>>

\* checkVolumeStatus, step2CheckTgtdStatus.
CheckUp == Looks("checkUp") /\ Check(Up(Own))

\* create.sh says that the volume is created or was there already.
CreateVolume ==
  /\ Does("createVolume")
  /\ IF Up(Own) THEN exists' = exists \cup {job.on} /\ Proceed
                ELSE Stop("error") /\ UNCHANGED <<exists, faults>>
  /\ UNCHANGED <<container, synced, tasks, attached, exported>>

SyncNebdClient ==
  /\ Does("syncClient")
  /\ synced' = [synced EXCEPT ![Own] = @ \cup {"nebd-client.conf"}]
  /\ Proceed
  /\ UNCHANGED <<container, tasks, attached, exported, exists>>

\* Variant: the file is not written.
AddDaemonTaskLost(c, file, what) == tasks' = tasks

\* AddDaemonTask: a file, over the one of the same name.
AddDaemonTask(c, file, what) ==
  tasks' = [tasks EXCEPT ![c] = {task \in @ : task.file # file} \cup {[file |-> file, what |-> what]}]

InstallMapTask ==
  /\ Does("mapTask")
  /\ AddDaemonTask(Own, "map", job.on)
  /\ Proceed
  /\ UNCHANGED <<container, synced, attached, exported, exists>>

\* curve-nbd map: not twice.
MapImage ==
  /\ Does("mapImage")
  /\ IF Up(Own) /\ ~ attached[Own] THEN attached' = [attached EXCEPT ![Own] = TRUE] /\ Proceed
                                   ELSE Stop("error") /\ UNCHANGED <<attached, faults>>
  /\ UNCHANGED <<container, synced, tasks, exported, exists>>

\* CheckMountDone: the mount point is looked for three times, then the
\* container is stopped.
CheckMountDone ==
  /\ Does("checkMount")
  /\ \/ attached[Own] /\ Advance /\ UNCHANGED container
     \/ ~ attached[Own] /\ SetState(Own, "stopped") /\ Stop("error")
  /\ UNCHANGED <<synced, tasks, attached, exported, exists, faults>>

UpdateContainer ==
  /\ Does("update")
  /\ container' = [container EXCEPT ![Own].policy = "unless-stopped"]
  /\ Proceed
  /\ UNCHANGED <<synced, tasks, attached, exported, exists>>

StartTgtd ==
  /\ Does("tgtd")
  /\ IF Up(Daemon) THEN attached' = [attached EXCEPT ![Daemon] = TRUE] /\ Proceed
                   ELSE Stop("error") /\ UNCHANGED <<attached, faults>>
  /\ UNCHANGED <<container, synced, tasks, exported, exists>>

InstallTgtdTask ==
  /\ Does("tgtdTask")
  /\ AddDaemonTask(Daemon, "tgtd", Daemon)
  /\ Proceed
  /\ UNCHANGED <<container, synced, attached, exported, exists>>

-----------------------------------------------------------------------------
(* unmap, umount and `target stop` *)

\* checkContainerId: nothing to do for what has no record.
Known == Looks("known") /\ IF job.id = None THEN Stop("skip") ELSE Advance

\* The list by id; by an empty id it is the list of all containers.
StatusById ==
  IF job.id = None THEN (IF \E c \in Thing : Exists(c) THEN "other" ELSE "none")
  ELSE IF container[Own].id = job.id THEN container[Own].state ELSE "none"

ListById ==
  /\ Looks("listById")
  /\ job' = [Advanced(job) EXCEPT !.status = StatusById]

\* checkTargetDaemonExist: the task is done.
ListDaemon ==
  /\ Looks("listDaemon")
  /\ IF Exists(Daemon)
     THEN job' = [Advanced(job) EXCEPT !.status = container[Daemon].state, !.id = container[Daemon].id]
     ELSE Stop("ok")

UnmapImage ==
  /\ Does("unmapImage")
  /\ IF job.status # "running" THEN Advance /\ UNCHANGED <<attached, faults>>
     ELSE IF Up(Own) THEN attached' = [attached EXCEPT ![Own] = FALSE] /\ Proceed
     ELSE Stop("error") /\ UNCHANGED <<attached, faults>>
  /\ UNCHANGED <<container, synced, tasks, exported, exists>>

\* step2UmountFS: after the umount the client's process ends, and docker is to
\* restart its container.  Of another container the status decides, and there
\* is none to run the umount in.
UmountFS ==
  /\ Does("umountFS")
  /\ \/ /\ job.status \in {"none", "created", "exited", "stopped", "other"}
        /\ Advance /\ UNCHANGED <<container, attached, faults>>
     \/ /\ job.status = "running" /\ Up(Own)
        /\ SetState(Own, "exited") /\ attached' = [attached EXCEPT ![Own] = FALSE]
        /\ Proceed
     \/ /\ job.status = "other" \/ (job.status = "running" /\ ~ Up(Own))
        /\ Stop("error") /\ UNCHANGED <<container, attached, faults>>
  /\ UNCHANGED <<synced, tasks, exported, exists>>

\* Variant: `unmap` stops what the list did not show, too.
StopsAlways == job.id # None

\* umount stops the container of the record, the others what was listed.
Stops == IF job.cmd = "umount" THEN job.id # None ELSE job.status # "none"

Detached(c) ==
  /\ attached' = [attached EXCEPT ![c] = FALSE]
  /\ exported' = IF c = Daemon THEN {} ELSE exported

StopContainer ==
  /\ Does("stop")
  /\ IF ~ Stops THEN Advance /\ UNCHANGED <<container, attached, exported, faults>>
     ELSE IF container[Own].id = job.id
     THEN /\ IF container[Own].state = "created" THEN UNCHANGED container ELSE SetState(Own, "stopped")
          /\ Detached(Own) /\ Proceed
     ELSE Stop("error") /\ UNCHANGED <<container, attached, exported, faults>>
  /\ UNCHANGED <<synced, tasks, exists>>

\* Variant: the id stays.
RemovedState(c) == [container[c] EXCEPT !.state = "none"]

Removed(c) == NoContainer

\* step2RemoveContainer: docker removes a container that does not run.
RemoveContainer ==
  /\ Does("remove")
  /\ IF job.status = "none" THEN Advance /\ UNCHANGED <<container, synced, tasks, faults>>
     ELSE IF job.status # "other" /\ container[Own].state \in {"created", "stopped"}
     THEN /\ container' = [container EXCEPT ![Own] = Removed(Own)]
          /\ synced' = [synced EXCEPT ![Own] = {}] /\ tasks' = [tasks EXCEPT ![Own] = {}]
          /\ Proceed
     ELSE Stop("error") /\ UNCHANGED <<container, synced, tasks, faults>>
  /\ UNCHANGED <<attached, exported, exists>>

DeleteClient ==
  /\ At("delete")
  /\ row' = [row EXCEPT ![job.on] = None]
  /\ Advance
  /\ UNCHANGED <<host, jobs, faults>>

-----------------------------------------------------------------------------
(* `target add` and `target delete` *)

\* target.sh: tgtd must answer and not have a target of this name.
AddTarget ==
  /\ Does("addTarget")
  /\ IF Up(Daemon) /\ attached[Daemon] /\ job.on \notin exported
     THEN exported' = exported \cup {job.on} /\ Proceed
     ELSE Stop("error") /\ UNCHANGED <<exported, faults>>
  /\ UNCHANGED <<container, synced, tasks, attached, exists>>

\* TranslateVolumeName makes the file's name.
InstallTargetTask ==
  /\ Does("addTargetTask")
  /\ AddDaemonTask(Daemon, PlainName[job.on], job.on)
  /\ Proceed
  /\ UNCHANGED <<container, synced, attached, exported, exists>>

\* step2FormatTarget remembers what tgtd shows; of nothing DelDaemonTask makes
\* a panic.
ShowTargets ==
  /\ Looks("showTargets")
  /\ IF ~ (Up(Daemon) /\ attached[Daemon]) THEN Stop("error")
     ELSE IF exported = {} THEN Stop("panic")
     ELSE job' = [Advanced(job) EXCEPT !.status = IF job.on \in exported THEN "shown" ELSE "none"]

\* Variant: the file stays.
DelDaemonTaskNone(t) == tasks[Daemon]

\* DelDaemonTask: the file called as the volume is.
DelDaemonTask(t) == {task \in tasks[Daemon] : task.file # t}

DelTask ==
  /\ Does("delTask")
  /\ tasks' = IF job.status = "shown" THEN [tasks EXCEPT ![Daemon] = DelDaemonTask(job.on)] ELSE tasks
  /\ Proceed
  /\ UNCHANGED <<container, synced, attached, exported, exists>>

DeleteTarget ==
  /\ Does("deleteTarget")
  /\ IF Up(Daemon) /\ job.on \in exported THEN exported' = exported \ {job.on} /\ Proceed
                                          ELSE Stop("error") /\ UNCHANGED <<exported, faults>>
  /\ UNCHANGED <<container, synced, tasks, attached, exists>>

-----------------------------------------------------------------------------
(* The host. *)

Noticed == job' = IF Busy THEN [job EXCEPT !.failed = TRUE] ELSE job

\* The process of a container ends; docker is to restart it.
ContainerExits(c) ==
  /\ Up(c) /\ Failure("exit")
  /\ SetState(c, "exited") /\ Detached(c) /\ Noticed
  /\ UNCHANGED <<row, synced, tasks, exists, jobs>>

\* The restart policies: of the containers that were stopped only "always".
Reboot ==
  /\ Failure("reboot")
  /\ container' = [c \in Thing |->
       IF Up(c) \/ (container[c].state = "stopped" /\ container[c].policy = "always")
       THEN [container[c] EXCEPT !.state = "exited"] ELSE container[c]]
  /\ attached' = [c \in Thing |-> FALSE] /\ exported' = {} /\ Noticed
  /\ UNCHANGED <<row, synced, tasks, exists, jobs>>

\* docker restarts the container, which does its tasks.
DockerRestarts(c) ==
  /\ container[c].state = "exited"
  /\ SetState(c, "running")
  /\ attached' = [attached EXCEPT ![c] =
       \E task \in tasks[c] : task.what = c /\ (c \in Volume => c \in exists)]
  /\ exported' = IF c = Daemon /\ attached'[c] THEN {task.what : task \in tasks[c]} \cap Target
                                               ELSE exported
  /\ UNCHANGED <<row, synced, tasks, exists, job, jobs, faults>>

\* The client of a file system creates and mounts it in its own time.
MountComesUp(m) ==
  /\ Up(m) /\ ~ attached[m]
  /\ attached' = [attached EXCEPT ![m] = TRUE]
  /\ UNCHANGED <<row, container, synced, tasks, exported, exists, job, jobs, faults>>

Step ==
  \/ ListByName \/ CheckDaemon \/ CreateContainer \/ InsertClient \/ SyncFiles \/ StartContainer
  \/ CheckUp \/ CreateVolume \/ SyncNebdClient \/ InstallMapTask \/ MapImage
  \/ CheckMountDone \/ UpdateContainer \/ StartTgtd \/ InstallTgtdTask
  \/ Known \/ ListById \/ ListDaemon \/ UnmapImage \/ UmountFS
  \/ StopContainer \/ RemoveContainer \/ DeleteClient
  \/ AddTarget \/ InstallTargetTask \/ ShowTargets \/ DelTask \/ DeleteTarget

Command ==
  \/ \E v \in Volume : RunMap(v) \/ RunUnmap(v)
  \/ \E m \in MountPoint : RunMount(m) \/ RunUmount(m)
  \/ RunTgtStart \/ RunTgtStop
  \/ \E t \in Target : RunTgtAdd(t) \/ RunTgtDelete(t)

Next ==
  \/ Command \/ Step \/ StepFails
  \/ \E c \in Thing : ContainerExits(c) \/ DockerRestarts(c)
  \/ \E m \in MountPoint : MountComesUp(m)
  \/ Reboot

\* docker restarts what its policy says, and a client that runs mounts.
Fairness ==
  /\ WF_vars(Step)
  /\ \A c \in Thing : WF_vars(DockerRestarts(c))
  /\ \A m \in MountPoint : WF_vars(MountComesUp(m))

Spec == Init /\ [][Next]_vars /\ Fairness

-----------------------------------------------------------------------------
(* Properties. *)

File == NebdFiles \cup TgtdFiles \cup FsFiles("volume")
Task == [file : {"map", "tgtd"} \cup {PlainName[t] : t \in Target}, what : Thing \cup Target]

\* Type invariant.
TypeOK ==
  /\ row \in [Client -> ContainerId \cup {None}]
  /\ container \in [Thing -> [id : ContainerId \cup {None},
                              state : {"none", "created", "running", "exited", "stopped"},
                              policy : {"none", "always", "unless-stopped"}]]
  /\ \A c \in Thing : Exists(c) <=> container[c].state # "none"
  /\ synced \in [Thing -> SUBSET File] /\ tasks \in [Thing -> SUBSET Task]
  /\ attached \in [Thing -> BOOLEAN] /\ exported \subseteq Target /\ exists \subseteq Volume
  /\ job \in [cmd : DOMAIN Steps \cup {"none"}, on : Thing \cup Target, at : 1 .. 11,
              id : ContainerId \cup {None},
              status : {"none", "created", "running", "exited", "stopped", "other", "shown"},
              files : SUBSET File, result : {"none", "running", "ok", "skip", "error", "panic"},
              failed : BOOLEAN]
  /\ jobs \in 0 .. MaxJobs /\ faults \in 0 .. MaxFaults

\* A client whose container has ever been started has a record that names
\* this container, or `unmap` and `umount` could never end it: through failed
\* creations, lost replies, records that outlive their containers.
StartedIsRecorded ==
  \A c \in Client : container[c].state \in {"running", "exited", "stopped"} => row[c] = container[c].id

Needed(c) == IF c \in Volume THEN NebdFiles \cup {"nebd-client.conf"}
             ELSE IF c = Daemon THEN TgtdFiles ELSE FsFiles("s3")

\* Nothing is mapped, mounted or served from a container without the
\* configuration that curveadm gives it, whenever docker restarts it.
AttachedIsConfigured == \A c \in Thing : attached[c] => Needed(c) \subseteq synced[c]

\* What `unmap`, `umount`, `target stop` and `target delete` have ended stays
\* ended, though docker restarts containers, while they run and afterwards;
\* a target only if its name needs no translation, and if the daemon did not
\* restart between the commands of `target delete` (it may then export a target
\* that tgtadm did not show, and whose task therefore stays).
EndedStaysEnded ==
  job.result \in {"ok", "skip"} =>
    /\ job.cmd \in {"unmap", "umount", "tgtStop"} =>
         ~ attached[job.on] /\ container[job.on].state \in {"none", "created"}
    /\ job.cmd = "tgtDelete" /\ PlainName[job.on] = job.on /\ ~ job.failed =>
         job.on \notin exported

Attached(x) == IF x \in Target THEN x \in exported ELSE attached[x]

\* A daemon of which `target start` got to its last step.
DaemonComplete == \E task \in tasks[Daemon] : task.what = Daemon

\* What was mapped, mounted or exported with success comes back whenever its
\* container ends or the host reboots, unless the next command comes first;
\* a target if the daemon was started to the end (when that was interrupted, the
\* next `target start` skips it) and did not restart before the task was written.
ComesBack ==
  job.result = "ok" /\ (job.cmd \in {"map", "mount"} \/ (job.cmd = "tgtAdd" /\ DaemonComplete /\ ~ job.failed))
    ~> Busy \/ Attached(job.on)

\* An unmap that meets no failure succeeds, whatever the commands before it
\* left: no record, a record without container (as when `docker rm` took
\* effect but lost its reply), a container in any state.
UnmapForgets == job.cmd = "unmap" /\ job.result = "error" => job.failed

=============================================================================
