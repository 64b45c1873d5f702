---------------------------- MODULE ClientsProofs ----------------------------
(***************************************************************************)
(* Proofs about the clients of a host (module Clients): for any volumes,   *)
(* mount points and targets, any number of commands and of failures.       *)
(*                                                                         *)
(* The inductive invariant says of each container what it has been given   *)
(* (Configured: the configuration files, the tasks that docker's restart   *)
(* of it carries out) and of the running command what the steps before the *)
(* one it is at have established: Creates for map, mount and the target    *)
(* commands, Ends for unmap, umount and `target stop`, Deletes for `target *)
(* delete`. The steps are told by their names (Now), and what follows each *)
(* one in the playbooks is worked out once (Advancing).                    *)
(***************************************************************************)
EXTENDS Clients, TLAPS

-----------------------------------------------------------------------------
(* The invariant. *)

\* The step the command is at.
Now == Steps[job.cmd][job.at]
\* The command runs, and is at one of these steps.
In(steps) == Busy /\ Now \in steps

\* The container has been started.
Started(c) == container[c].state \in {"running", "exited", "stopped"}

\* The configuration files a container has before it is started; the one of a volume
\* gets another one before the volume is mapped.
Base(c) == IF c \in Volume THEN NebdFiles ELSE Needed(c)

\* What files a command may have to write.
Files(cmd) ==
  CASE cmd = "map" -> {NebdFiles}
    [] cmd = "mount" -> {FsFiles("s3"), FsFiles("volume"), {}}
    [] cmd = "tgtStart" -> {TgtdFiles}
    [] OTHER -> {{}}

\* What a command may be for.
Ons(cmd) ==
  CASE cmd \in {"map", "unmap"} -> Volume
    [] cmd \in {"mount", "umount"} -> MountPoint
    [] cmd \in {"tgtAdd", "tgtDelete"} -> Target
    [] OTHER -> {Daemon}

\* How many steps a command has.
Last(cmd) ==
  CASE cmd = "map" -> 11 [] cmd = "mount" -> 7 [] cmd \in {"unmap", "tgtStart"} -> 6
    [] cmd = "umount" -> 5 [] cmd = "tgtDelete" -> 4
    [] cmd \in {"tgtStop", "tgtAdd"} -> 3 [] OTHER -> 1

\* The commands.
Commands ==
  {"map", "unmap", "mount", "umount", "tgtStart", "tgtStop", "tgtAdd", "tgtDelete"}

\* The type of job.
JobType ==
  /\ job = [cmd |-> job.cmd, on |-> job.on, at |-> job.at, id |-> job.id, status |-> job.status,
            files |-> job.files, result |-> job.result, failed |-> job.failed]
  /\ job.cmd \in Commands \cup {"none"} /\ job.on \in Ons(job.cmd) /\ job.at \in 1 .. Last(job.cmd)
  /\ job.id \in ContainerId \cup {None}
  /\ job.status \in {"none", "created", "running", "exited", "stopped", "other", "shown"}
  /\ job.files \in Files(job.cmd)
  /\ job.result \in {"none", "running", "ok", "skip", "error", "panic"}
  /\ job.result = "none" <=> job.cmd = "none"
  /\ job.failed \in BOOLEAN

\* The types of the other variables.
HostType ==
  /\ row \in [Client -> ContainerId \cup {None}]
  /\ container \in [Thing -> [id : ContainerId \cup {None},
                              state : {"none", "created", "running", "exited", "stopped"},
                              policy : {"none", "always", "unless-stopped"}]]
  /\ \A c \in Thing : Exists(c) <=> container[c].state # "none"
  /\ synced \in [Thing -> SUBSET File] /\ tasks \in [Thing -> SUBSET Task]
  /\ attached \in [Thing -> BOOLEAN] /\ exported \subseteq Target /\ exists \subseteq Volume
  /\ jobs \in 0 .. MaxJobs /\ faults \in 0 .. MaxFaults

\* What is in the containers: a container that has been started has its files, one that
\* has not has no tasks; one that maps, mounts or serves, or has the task to, has all of
\* its configuration; the task of a target is called after it.
Configured ==
  \A c \in Thing :
    /\ attached[c] => Up(c) /\ Needed(c) \subseteq synced[c]
    /\ IF Started(c) THEN Base(c) \subseteq synced[c] ELSE tasks[c] = {}
    /\ \A task \in tasks[c] :
         /\ task.what = c => Needed(c) \subseteq synced[c]
         /\ task.what \in Target => task.file = PlainName[task.what]

\* What the steps of map, mount, `target start` and `target add` have established: the
\* container is the one this command created, from its creation until its start, and is
\* recorded and configured in time.
Creates ==
  /\ In({"create"}) => ~ Exists(Own)
  /\ In({"insert", "sync", "start"}) =>
       job.id = container[Own].id /\ container[Own].state = "created"
  /\ In({"sync", "start"}) /\ job.cmd # "tgtStart" => row[job.on] = job.id
  /\ In({"start"}) => Base(Own) \subseteq synced[Own]
  /\ In({"checkUp", "createVolume", "syncClient", "mapTask", "mapImage"}) /\ job.cmd = "map" =>
       Started(Own)
  /\ In({"mapTask", "mapImage"}) => Needed(Own) \subseteq synced[Own]
  /\ In({"checkMount", "tgtd", "tgtdTask", "addTarget", "addTargetTask"}) => Started(Own)

\* The list showed the container.
Seen == job.status \notin {"none", "other"}

\* What the steps of unmap, umount and `target stop` have established: what the list did
\* not show has no started container; what it showed is stopped when it is removed,
\* unless the host rebooted or the container ended meanwhile.
Ends ==
  /\ Busy /\ job.cmd \in {"unmap", "umount"} => job.id = row[job.on]
  /\ Busy /\ job.cmd = "unmap" /\ Now # "known" => job.id # None
  /\ In({"unmapImage", "umountFS", "stop", "remove"}) =>
       /\ Seen => container[Own].id = job.id /\ job.id # None
       /\ ~ Seen => ~ Started(Own)
       /\ job.status = "other" => job.id = None
       /\ job.status # "shown" /\ (job.cmd = "tgtStop" => Seen)
  /\ In({"unmapImage"}) /\ job.status = "running" /\ ~ job.failed => Up(Own)
  /\ In({"remove"}) /\ Seen /\ ~ job.failed => container[Own].state \in {"created", "stopped"}
  /\ In({"delete"}) => ~ Started(Own)
  /\ job.cmd \in {"unmap", "umount", "tgtStop"} /\ job.result \in {"ok", "skip"} => ~ Started(Own)
  /\ job.cmd = "unmap" /\ job.result = "error" => job.failed

\* No task is to export the target.
Untold == \A task \in tasks[Daemon] : task.what # job.on

\* What the steps of `target delete` have established, unless the daemon restarted
\* meanwhile: the target is exported if tgtd showed it, and then its task is gone before
\* it is deleted.
Deletes ==
  job.cmd = "tgtDelete" /\ ~ job.failed =>
    /\ In({"showTargets", "delTask", "deleteTarget"}) => Up(Daemon)
    /\ In({"delTask", "deleteTarget"}) => (job.status = "shown" <=> job.on \in exported)
    /\ In({"deleteTarget"}) /\ PlainName[job.on] = job.on /\ job.status = "shown" => Untold
    /\ job.result = "ok" /\ PlainName[job.on] = job.on => Untold /\ job.on \notin exported
    /\ job.result # "skip"

\* The inductive invariant.
ClientsIInv ==
  /\ HostType /\ JobType /\ Configured /\ StartedIsRecorded /\ Creates /\ Ends /\ Deletes

-----------------------------------------------------------------------------
(* The playbooks. *)

\* The playbooks, step by step.
LEMMA StepsOf ==
  /\ Len(Steps["map"]) = 11
  /\ Steps["map"][1] = "listByName" /\ Steps["map"][2] = "create"
  /\ Steps["map"][3] = "insert" /\ Steps["map"][4] = "sync" /\ Steps["map"][5] = "start"
  /\ Steps["map"][6] = "checkUp" /\ Steps["map"][7] = "createVolume"
  /\ Steps["map"][8] = "checkUp" /\ Steps["map"][9] = "syncClient"
  /\ Steps["map"][10] = "mapTask" /\ Steps["map"][11] = "mapImage"
  /\ Len(Steps["unmap"]) = 6
  /\ Steps["unmap"][1] = "known" /\ Steps["unmap"][2] = "listById"
  /\ Steps["unmap"][3] = "unmapImage" /\ Steps["unmap"][4] = "stop"
  /\ Steps["unmap"][5] = "remove" /\ Steps["unmap"][6] = "delete"
  /\ Len(Steps["mount"]) = 7
  /\ Steps["mount"][1] = "listByName" /\ Steps["mount"][2] = "create"
  /\ Steps["mount"][3] = "insert" /\ Steps["mount"][4] = "sync"
  /\ Steps["mount"][5] = "start" /\ Steps["mount"][6] = "checkMount"
  /\ Steps["mount"][7] = "update"
  /\ Len(Steps["umount"]) = 5
  /\ Steps["umount"][1] = "listById" /\ Steps["umount"][2] = "umountFS"
  /\ Steps["umount"][3] = "stop" /\ Steps["umount"][4] = "remove"
  /\ Steps["umount"][5] = "delete"
  /\ Len(Steps["tgtStart"]) = 6
  /\ Steps["tgtStart"][1] = "checkDaemon" /\ Steps["tgtStart"][2] = "create"
  /\ Steps["tgtStart"][3] = "sync" /\ Steps["tgtStart"][4] = "start"
  /\ Steps["tgtStart"][5] = "tgtd" /\ Steps["tgtStart"][6] = "tgtdTask"
  /\ Len(Steps["tgtStop"]) = 3
  /\ Steps["tgtStop"][1] = "listDaemon" /\ Steps["tgtStop"][2] = "stop"
  /\ Steps["tgtStop"][3] = "remove"
  /\ Len(Steps["tgtAdd"]) = 3
  /\ Steps["tgtAdd"][1] = "checkUp" /\ Steps["tgtAdd"][2] = "addTarget"
  /\ Steps["tgtAdd"][3] = "addTargetTask"
  /\ Len(Steps["tgtDelete"]) = 4
  /\ Steps["tgtDelete"][1] = "checkUp" /\ Steps["tgtDelete"][2] = "showTargets"
  /\ Steps["tgtDelete"][3] = "delTask" /\ Steps["tgtDelete"][4] = "deleteTarget"
<1>1. /\ Len(Steps["map"]) = 11
      /\ Steps["map"][1] = "listByName" /\ Steps["map"][2] = "create"
      /\ Steps["map"][3] = "insert" /\ Steps["map"][4] = "sync" /\ Steps["map"][5] = "start"
      /\ Steps["map"][6] = "checkUp" /\ Steps["map"][7] = "createVolume"
      /\ Steps["map"][8] = "checkUp" /\ Steps["map"][9] = "syncClient"
      /\ Steps["map"][10] = "mapTask" /\ Steps["map"][11] = "mapImage"
  BY DEF Steps, NebdSteps, CreateVolumeSteps, MapImageSteps
<1>. QED
  BY <1>1 DEF Steps, UnmapSteps, MountSteps, UmountSteps, TgtStartSteps, TgtStopSteps,
     TgtAddSteps,
              TgtDeleteSteps

\* Which commands have a step.
LEMMA WhoseStep ==
  ASSUME JobType, Busy
  PROVE  /\ Now \in {"listByName", "create", "insert", "sync", "start", "checkUp", "createVolume",
              "syncClient", "mapTask", "mapImage", "known", "listById", "unmapImage",
              "stop", "remove", "delete", "checkMount", "update", "umountFS", "checkDaemon",
              "tgtd", "tgtdTask", "listDaemon", "addTarget", "addTargetTask", "showTargets",
              "delTask", "deleteTarget"}
         /\ Now \in {"listByName", "insert"} => job.cmd \in {"map", "mount"}
         /\ Now \in {"create", "sync", "start"} => job.cmd \in {"map", "mount", "tgtStart"}
         /\ Now \in {"checkUp"} => job.cmd \in {"map", "tgtAdd", "tgtDelete"}
         /\ Now \in {"createVolume", "syncClient", "mapTask", "mapImage"} => job.cmd \in {"map"}
         /\ Now \in {"known", "unmapImage"} => job.cmd \in {"unmap"}
         /\ Now \in {"listById", "delete"} => job.cmd \in {"umount", "unmap"}
         /\ Now \in {"stop", "remove"} => job.cmd \in {"tgtStop", "umount", "unmap"}
         /\ Now \in {"checkMount", "update"} => job.cmd \in {"mount"}
         /\ Now \in {"umountFS"} => job.cmd \in {"umount"}
         /\ Now \in {"checkDaemon", "tgtd", "tgtdTask"} => job.cmd \in {"tgtStart"}
         /\ Now \in {"listDaemon"} => job.cmd \in {"tgtStop"}
         /\ Now \in {"addTarget", "addTargetTask"} => job.cmd \in {"tgtAdd"}
         /\ Now \in {"showTargets", "delTask", "deleteTarget"} => job.cmd \in {"tgtDelete"}
  BY StepsOf DEF JobType, Busy, Last, Commands, Now

\* Whose container a command is about.
LEMMA OwnIs ==
  ASSUME JobType, Busy
  PROVE  /\ Own \in Thing /\ (Own \in Volume \/ Own \in MountPoint \/ Own = Daemon)
         /\ job.cmd \in {"map", "unmap"} => Own = job.on /\ Own \in Volume /\ Own \in Client
         /\ job.cmd \in {"mount", "umount"} => Own = job.on /\ Own \in MountPoint /\ Own \in Client
         /\ job.cmd \in {"tgtStart", "tgtStop"} => Own = job.on
         /\ job.cmd \in {"tgtStart", "tgtStop", "tgtAdd", "tgtDelete"} => Own = Daemon
         /\ job.cmd \in {"tgtAdd", "tgtDelete"} => job.on \in Target
  BY ClientsNameAssumption DEF JobType, Busy, Own, Ons, Thing, Client, Commands

\* Volumes, mount points, the daemon and targets differ.
LEMMA Disjoint ==
  /\ \A v \in Volume : v \in Thing /\ v \in Client
                         /\ v \notin MountPoint /\ v # Daemon /\ v \notin Target
  /\ \A m \in MountPoint : m \in Thing /\ m \in Client /\ m # Daemon /\ m \notin Target
  /\ \A c \in Thing : c \in Volume \/ c \in MountPoint \/ c = Daemon
  /\ \A c \in Thing : c \notin Target
  /\ Daemon \in Thing /\ Daemon \notin Client
  BY ClientsNameAssumption DEF Thing, Client

\* What can follow a step.
Follows(cmd, s, t) ==
  /\ s = "listByName" => t = "create"
  /\ s = "create" /\ cmd = "map" => t = "insert"
  /\ s = "create" /\ cmd = "mount" => t = "insert"
  /\ s = "create" /\ cmd = "tgtStart" => t = "sync"
  /\ s = "insert" => t = "sync"
  /\ s = "sync" => t = "start"
  /\ s = "start" /\ cmd = "map" => t = "checkUp"
  /\ s = "start" /\ cmd = "mount" => t = "checkMount"
  /\ s = "start" /\ cmd = "tgtStart" => t = "tgtd"
  /\ s = "checkUp" /\ cmd = "map" => t \in {"createVolume", "syncClient"}
  /\ s = "checkUp" /\ cmd = "tgtAdd" => t = "addTarget"
  /\ s = "checkUp" /\ cmd = "tgtDelete" => t = "showTargets"
  /\ s = "createVolume" => t = "checkUp"
  /\ s = "syncClient" => t = "mapTask"
  /\ s = "mapTask" => t = "mapImage"
  /\ s = "known" => t = "listById"
  /\ s = "listById" /\ cmd = "unmap" => t = "unmapImage"
  /\ s = "listById" /\ cmd = "umount" => t = "umountFS"
  /\ s = "unmapImage" => t = "stop"
  /\ s = "stop" => t = "remove"
  /\ s = "remove" => t = "delete"
  /\ s = "checkMount" => t = "update"
  /\ s = "umountFS" => t = "stop"
  /\ s = "checkDaemon" => t = "create"
  /\ s = "tgtd" => t = "tgtdTask"
  /\ s = "listDaemon" => t = "stop"
  /\ s = "addTarget" => t = "addTargetTask"
  /\ s = "showTargets" => t = "delTask"
  /\ s = "delTask" => t = "deleteTarget"

\* The last steps.
Final(cmd, s) ==
  s \in {"mapImage", "delete", "update", "tgtdTask", "addTargetTask", "deleteTarget"}
  \/ (s = "remove" /\ cmd = "tgtStop")

\* The command has got to its next step, or to its end.
Moved(id, status) ==
  /\ JobType'
  /\ job'.cmd = job.cmd /\ job'.on = job.on /\ job'.files = job.files /\ job'.failed = job.failed
  /\ job'.id = id /\ job'.status = status
  /\ IF Final(job.cmd, Now) THEN job'.result = "ok" /\ ~ Busy'
     ELSE job'.result = "running" /\ Busy' /\ Follows(job.cmd, Now, Now')
  /\ Own' = Own

\* Advance, with another id and status to remember.
AdvanceWith(id, status) == job' = [Advanced(job) EXCEPT !.id = id, !.status = status]

\* Advancing gets the command to the step that follows in its playbook, or to its end.
LEMMA Advancing ==
  ASSUME JobType, Busy, NEW id \in ContainerId \cup {None},
         NEW status \in {"none", "created", "running", "exited", "stopped", "other", "shown"},
         AdvanceWith(id, status)
  PROVE  Moved(id, status)
<1>. DEFINE last == job.at = Len(Steps[job.cmd])
<1>1. /\ last <=> Final(job.cmd, Now)
      /\ ~ last => job.at + 1 \in 1 .. Last(job.cmd)
                   /\ Follows(job.cmd, Now, Steps[job.cmd][job.at + 1])
  <2>1. CASE job.cmd = "map"
    <3>1. job.at \in {1, 2, 3, 4, 5, 6, 7, 8, 9, 10, 11} /\ Last(job.cmd) = 11
      BY <2>1 DEF JobType, Last
    <3>. QED
      BY <2>1, <3>1, StepsOf DEF Now, Final, Follows
  <2>2. CASE job.cmd = "unmap"
    <3>1. job.at \in {1, 2, 3, 4, 5, 6} /\ Last(job.cmd) = 6
      BY <2>2 DEF JobType, Last
    <3>. QED
      BY <2>2, <3>1, StepsOf DEF Now, Final, Follows
  <2>3. CASE job.cmd = "mount"
    <3>1. job.at \in {1, 2, 3, 4, 5, 6, 7} /\ Last(job.cmd) = 7
      BY <2>3 DEF JobType, Last
    <3>. QED
      BY <2>3, <3>1, StepsOf DEF Now, Final, Follows
  <2>4. CASE job.cmd = "umount"
    <3>1. job.at \in {1, 2, 3, 4, 5} /\ Last(job.cmd) = 5
      BY <2>4 DEF JobType, Last
    <3>. QED
      BY <2>4, <3>1, StepsOf DEF Now, Final, Follows
  <2>5. CASE job.cmd = "tgtStart"
    <3>1. job.at \in {1, 2, 3, 4, 5, 6} /\ Last(job.cmd) = 6
      BY <2>5 DEF JobType, Last
    <3>. QED
      BY <2>5, <3>1, StepsOf DEF Now, Final, Follows
  <2>6. CASE job.cmd = "tgtStop"
    <3>1. job.at \in {1, 2, 3} /\ Last(job.cmd) = 3
      BY <2>6 DEF JobType, Last
    <3>. QED
      BY <2>6, <3>1, StepsOf DEF Now, Final, Follows
  <2>7. CASE job.cmd = "tgtAdd"
    <3>1. job.at \in {1, 2, 3} /\ Last(job.cmd) = 3
      BY <2>7 DEF JobType, Last
    <3>. QED
      BY <2>7, <3>1, StepsOf DEF Now, Final, Follows
  <2>8. CASE job.cmd = "tgtDelete"
    <3>1. job.at \in {1, 2, 3, 4} /\ Last(job.cmd) = 4
      BY <2>8 DEF JobType, Last
    <3>. QED
      BY <2>8, <3>1, StepsOf DEF Now, Final, Follows
  <2>. QED
    BY <2>1, <2>2, <2>3, <2>4, <2>5, <2>6, <2>7, <2>8 DEF JobType, Commands, Busy
<1>. DEFINE old == [cmd |-> job.cmd, on |-> job.on, at |-> job.at, id |-> job.id,
                     status |-> job.status, files |-> job.files, result |-> job.result,
                     failed |-> job.failed]
<1>2. CASE last
  <2>1. Advanced(job) = [old EXCEPT !.result = "ok"]
    BY <1>2 DEF JobType, Advanced
  <2>2. job' = [cmd |-> job.cmd, on |-> job.on, at |-> job.at, id |-> id, status |-> status,
                files |-> job.files, result |-> "ok", failed |-> job.failed]
    BY <2>1 DEF AdvanceWith
  <2>3. /\ job'.cmd = job.cmd /\ job'.on = job.on /\ job'.at = job.at /\ job'.id = id
        /\ job'.status = status /\ job'.files = job.files /\ job'.result = "ok"
        /\ job'.failed = job.failed
    BY <2>2
  <2>4. JobType'
    BY <2>2, <2>3 DEF JobType, Busy
  <2>. QED
    BY <1>1, <1>2, <2>3, <2>4 DEF Moved, Busy, Own, Now
<1>3. CASE ~ last
  <2>1. Advanced(job) = [old EXCEPT !.at = job.at + 1]
    BY <1>3 DEF JobType, Advanced
  <2>2. job' = [cmd |-> job.cmd, on |-> job.on, at |-> job.at + 1, id |-> id, status |-> status,
                files |-> job.files, result |-> "running", failed |-> job.failed]
    BY <2>1 DEF Busy, AdvanceWith
  <2>3. /\ job'.cmd = job.cmd /\ job'.on = job.on /\ job'.at = job.at + 1 /\ job'.id = id
        /\ job'.status = status /\ job'.files = job.files /\ job'.result = "running"
        /\ job'.failed = job.failed
    BY <2>2
  <2>4. JobType'
    BY <1>1, <1>3, <2>2, <2>3 DEF JobType, Busy
  <2>. QED
    BY <1>1, <1>3, <2>3, <2>4 DEF Moved, Busy, Own, Now
<1>. QED
  BY <1>2, <1>3

\* The same of Advance.
LEMMA PlainAdvance ==
  ASSUME JobType, Busy, Advance
  PROVE  Moved(job.id, job.status)
<1>1. Advanced(job) = [Advanced(job) EXCEPT !.id = job.id, !.status = job.status]
  BY DEF JobType, Advanced, Busy
<1>. QED
  BY <1>1, Advancing DEF Advance, AdvanceWith, JobType

\* The command has ended with a result.
Halted(result, failed) ==
  /\ JobType'
  /\ job'.cmd = job.cmd /\ job'.on = job.on /\ job'.result = result /\ job'.failed = failed
  /\ ~ Busy'

\* The two ways to end it before its last step.
LEMMA Halting ==
  ASSUME JobType, Busy
  PROVE  /\ \A r \in {"ok", "skip", "error", "panic"} : Stop(r) => Halted(r, job.failed)
         /\ job' = [job EXCEPT !.result = "error", !.failed = TRUE] => Halted("error", TRUE)
<1>1. ASSUME NEW r \in {"ok", "skip", "error", "panic"}, NEW f \in BOOLEAN,
             job' = [job EXCEPT !.result = r, !.failed = f]
      PROVE  Halted(r, f)
  <2>1. job' = [cmd |-> job.cmd, on |-> job.on, at |-> job.at, id |-> job.id, status |-> job.status,
                files |-> job.files, result |-> r, failed |-> f]
    BY <1>1 DEF JobType
  <2>. QED
    BY <2>1 DEF Halted, JobType, Busy, Ons, Files
<1>2. ASSUME NEW r, Stop(r)
      PROVE  job' = [job EXCEPT !.result = r, !.failed = job.failed]
  BY <1>2 DEF JobType, Stop
<1>. QED
  BY <1>1, <1>2 DEF JobType

\* The parts of the invariant about the command.
Jobs == Creates /\ Ends /\ Deletes

\* A command that ended in an error has nothing to keep, but that unmap met a failure.
LEMMA HaltedJobs ==
  ASSUME JobType, Busy, NEW failed \in BOOLEAN, NEW result \in {"error", "panic"},
         Halted(result, failed), failed \/ job.cmd # "unmap"
  PROVE  Jobs'
  BY DEF Jobs, Creates, Ends, Deletes, Halted, In

-----------------------------------------------------------------------------
(* The host. *)

\* The other parts.
Host == HostType /\ Configured /\ StartedIsRecorded

\* What is needed, and what is there before the start.
LEMMA Configurations ==
  /\ \A c \in Thing : Base(c) \subseteq Needed(c)
  /\ \A v \in Volume : Needed(v) = Base(v) \cup {"nebd-client.conf"}
  /\ \A c \in Thing : c \notin Volume => Needed(c) = Base(c)
  BY DEF Base, Needed

\* The files that a command writes, if it can write them, are those its container needs
\* to be started.
LEMMA FilesSynced ==
  ASSUME JobType, Busy, job.files # {}
  PROVE  Base(Own) \subseteq job.files /\ job.files \subseteq File
<1>1. CASE job.cmd = "map"
  BY <1>1, OwnIs DEF JobType, Files, Base, NebdFiles, File
<1>2. CASE job.cmd = "mount"
  <2>1. Own \notin Volume /\ Own # Daemon
    BY <1>2, OwnIs, Disjoint
  <2>. QED
    BY <1>2, <2>1 DEF JobType, Files, Base, Needed, FsFiles, File
<1>3. CASE job.cmd = "tgtStart"
  <2>1. Own = Daemon /\ Own \notin Volume
    BY <1>3, OwnIs, Disjoint
  <2>. QED
    BY <1>3, <2>1 DEF JobType, Files, Base, Needed, File
<1>. QED
  BY <1>1, <1>2, <1>3 DEF JobType, Files, Commands

\* What is known of a container.
ContainerRow == [id : ContainerId \cup {None},
                 state : {"none", "created", "running", "exited", "stopped"},
                 policy : {"none", "always", "unless-stopped"}]

\* Another state of one container.
LEMMA StateSet ==
  ASSUME HostType, NEW c \in Thing, NEW s \in {"created", "running", "exited", "stopped"},
         Exists(c), SetState(c, s)
  PROVE  /\ container' \in [Thing -> ContainerRow]
         /\ \A d \in Thing : container'[d].id = container[d].id
         /\ \A d \in Thing : container'[d].state = IF d = c THEN s ELSE container[d].state
         /\ \A d \in Thing : Exists(d)' <=> container'[d].state # "none"
<1>. DEFINE new == [container[c] EXCEPT !.state = s]
<1>1. container' = [container EXCEPT ![c] = new]
  BY DEF SetState
<1>2. container[c] \in ContainerRow
  BY DEF HostType, ContainerRow
<1>3. new \in ContainerRow /\ new.id = container[c].id /\ new.state = s
  BY <1>2 DEF ContainerRow
<1>. HIDE DEF new
<1>4. container \in [Thing -> ContainerRow]
  BY DEF HostType, ContainerRow
<1>. QED
  BY <1>1, <1>3, <1>4 DEF HostType, Exists

\* Proceed advances the command, or loses the reply and fails it.
LEMMA Proceeding ==
  ASSUME HostType, JobType, Busy, Proceed
  PROVE  /\ faults' \in 0 .. MaxFaults
         /\ Moved(job.id, job.status) \/ Halted("error", TRUE)
<1>1. CASE Advance /\ UNCHANGED faults
  BY <1>1, PlainAdvance DEF HostType
<1>2. CASE Failure("lost") /\ job' = [job EXCEPT !.result = "error", !.failed = TRUE]
  <2>1. Halted("error", TRUE)
    BY <1>2, Halting
  <2>2. faults' \in 0 .. MaxFaults
    BY <1>2, ClientsFaultAssumption DEF Failure, HostType
  <2>. QED
    BY <2>1, <2>2
<1>. QED
  BY <1>1, <1>2 DEF Proceed

\* A step that leaves the records and the host as they are.
LEMMA SameHost ==
  ASSUME Host, UNCHANGED <<row, host>>, jobs' \in 0 .. MaxJobs, faults' \in 0 .. MaxFaults
  PROVE  Host'
  BY DEF Host, host, HostType, Configured, StartedIsRecorded, Exists, Up, Started

-----------------------------------------------------------------------------
(* The steps. *)

\* The host after a container has changed its state.
LEMMA StateHost ==
  ASSUME Host, NEW c \in Thing, NEW s \in {"running", "exited", "stopped"}, Exists(c),
         SetState(c, s), UNCHANGED <<row, synced, tasks, exists>>,
         Base(c) \subseteq synced[c], c \in Client => row[c] = container[c].id,
         attached' \in [Thing -> BOOLEAN], exported' \subseteq Target,
         \A d \in Thing : d # c /\ attached'[d] => attached[d],
         attached'[c] => s = "running" /\ Needed(c) \subseteq synced[c],
         jobs' \in 0 .. MaxJobs, faults' \in 0 .. MaxFaults
  PROVE  Host'
<1>. USE DEF Host
<1>1. /\ container' \in [Thing -> ContainerRow]
      /\ \A d \in Thing : container'[d].id = container[d].id
      /\ \A d \in Thing : container'[d].state = IF d = c THEN s ELSE container[d].state
      /\ \A d \in Thing : Exists(d)' <=> container'[d].state # "none"
  BY StateSet
<1>2. HostType'
  BY <1>1 DEF HostType, ContainerRow
<1>3. Configured'
  BY <1>1 DEF Configured, Up, Started
<1>4. StartedIsRecorded'
  BY <1>1, Disjoint DEF StartedIsRecorded, Client, Thing
<1>. QED
  BY <1>2, <1>3, <1>4

\* A command that ends in an error preserves the invariant.
LEMMA HaltedPreserves ==
  ASSUME ClientsIInv, Busy, Host', NEW result \in {"error", "panic"}, NEW failed \in BOOLEAN,
         Halted(result, failed), failed \/ job.cmd # "unmap"
  PROVE  ClientsIInv'
  BY HaltedJobs DEF ClientsIInv, Host, Halted, Jobs

\* So does a step that finds it cannot do what it is for.
LEMMA FailedPreserves ==
  ASSUME ClientsIInv, Busy, Stop("error"), job.cmd # "unmap", UNCHANGED <<row, host, jobs, faults>>
  PROVE  ClientsIInv'
<1>1. Halted("error", job.failed) /\ job.failed \in BOOLEAN
  BY Halting DEF ClientsIInv, JobType
<1>2. Host'
  BY SameHost DEF ClientsIInv, Host, HostType
<1>. QED
  BY <1>1, <1>2, HaltedPreserves

\* So does a step that takes effect, if its effect does.
LEMMA ProceedPreserves ==
  ASSUME ClientsIInv, Busy, Proceed, Host', Moved(job.id, job.status) => Jobs'
  PROVE  ClientsIInv'
<1>1. Moved(job.id, job.status) \/ Halted("error", TRUE)
  BY Proceeding DEF ClientsIInv
<1>2. CASE Moved(job.id, job.status)
  BY <1>2 DEF ClientsIInv, Host, Jobs, Moved
<1>. QED
  BY <1>1, <1>2, HaltedPreserves

\* The steps that check that a name is free or a container is up preserve the invariant.
LEMMA LooksPreserve ==
  ASSUME ClientsIInv, ListByName \/ CheckUp
  PROVE  ClientsIInv'
<1>. USE DEF ClientsIInv
<1>1. /\ Busy /\ JobType /\ UNCHANGED <<row, host, jobs, faults>>
      /\ \/ Now = "listByName" /\ Check(~ Exists(Own))
         \/ Now = "checkUp" /\ Check(Up(Own))
  BY DEF ListByName, CheckUp, Looks, At, Now
<1>2. Host'
  BY <1>1, SameHost DEF Host, HostType
<1>3. CASE Halted("error", job.failed)
  <2>1. job.cmd # "unmap"
    BY <1>1, WhoseStep
  <2>. QED
    BY <1>1, <1>2, <1>3, <2>1, HaltedJobs DEF Host, Halted, Jobs, JobType
<1>4. CASE Moved(job.id, job.status) /\ (IF Now = "checkUp" THEN Up(Own) ELSE ~ Exists(Own))
  <2>1. Creates'
    BY <1>1, <1>4, WhoseStep DEF Moved, Final, Follows, Creates, In, host, Exists, Up, Started
  <2>2. Ends'
    BY <1>1, <1>4, WhoseStep DEF Moved, Final, Follows, Ends, In, host, Seen
  <2>3. Deletes'
    BY <1>1, <1>4, WhoseStep, OwnIs DEF Moved, Final, Follows, Deletes, In, host, Up, Untold
  <2>. QED
    BY <1>2, <1>4, <2>1, <2>2, <2>3 DEF Host, Moved
<1>. QED
  BY <1>1, <1>3, <1>4, PlainAdvance, Halting DEF Check

\* So does the first step of `target start`.
LEMMA CheckDaemonPreserves ==
  ASSUME ClientsIInv, CheckDaemon
  PROVE  ClientsIInv'
<1>. USE DEF ClientsIInv
<1>1. /\ Busy /\ Now = "checkDaemon" /\ UNCHANGED <<row, host, jobs, faults>>
      /\ IF Up(Daemon) THEN Stop("skip") ELSE Check(~ Exists(Daemon))
  BY DEF CheckDaemon, Looks, At, Now
<1>2. Host' /\ job.cmd = "tgtStart" /\ Own = Daemon
  BY <1>1, SameHost, WhoseStep, OwnIs DEF Host, HostType
<1>3. CASE Stop("skip")
  <2>1. Halted("skip", job.failed)
    BY <1>1, <1>3, Halting
  <2>. QED
    BY <1>2, <2>1 DEF Host, Halted, Creates, Ends, Deletes, In
<1>4. CASE Stop("error")
  BY <1>1, <1>2, <1>4, FailedPreserves
<1>5. CASE Moved(job.id, job.status) /\ ~ Exists(Daemon)
  <2>1. Creates'
    BY <1>1, <1>2, <1>5 DEF Moved, Final, Follows, Creates, In, host, Exists
  <2>2. Ends' /\ Deletes'
    BY <1>1, <1>2, <1>5 DEF Moved, Final, Follows, Ends, Deletes, In
  <2>. QED
    BY <1>2, <1>5, <2>1, <2>2 DEF Host, Moved
<1>. QED
  BY <1>1, <1>3, <1>4, <1>5, PlainAdvance DEF Check

\* So does docker create: the id is another one than that of the record.
LEMMA CreateContainerPreserves ==
  ASSUME ClientsIInv, CreateContainer
  PROVE  ClientsIInv'
<1>. USE DEF ClientsIInv
<1>1. Busy /\ Now = "create" /\ UNCHANGED <<row, synced, tasks, attached, exported, exists, jobs>>
  BY DEF CreateContainer, Does, At, Now
<1>2. /\ job.cmd \in {"map", "mount", "tgtStart"} /\ Own \in Thing /\ ~ Exists(Own)
      /\ job.cmd \in {"map", "mount"} => Own = job.on /\ Own \in Client
      /\ job.cmd = "tgtStart" => Own \notin Client
  BY <1>1, WhoseStep, OwnIs, Disjoint DEF Creates, In
<1>. DEFINE used == {row[c] : c \in Client \cap {Own}}
<1>3. \E i \in ContainerId : i \notin used
  <2>1. \A i, j \in used : i = j
    OBVIOUS
  <2>. QED
    BY <2>1 DEF ContainerId
<1>. DEFINE id == CHOOSE i \in ContainerId \ used : TRUE
<1>4. id \in ContainerId /\ id \notin used
  BY <1>3
<1>5. /\ \E policy \in {"always", "unless-stopped"} :
           container' = [container EXCEPT ![Own] = [id |-> id, state |-> "created", policy |-> policy]]
      /\ \/ UNCHANGED faults /\ job' = [Advanced(job) EXCEPT !.id = id]
         \/ Failure("lost") /\ job' = [job EXCEPT !.result = "error", !.failed = TRUE]
  BY DEF CreateContainer
<1>. HIDE DEF id
<1>6. /\ container' \in [Thing -> ContainerRow]
      /\ container'[Own].id = id /\ container'[Own].state = "created"
      /\ \A c \in Thing : c # Own => container'[c] = container[c]
  <2>1. container \in [Thing -> ContainerRow]
    BY DEF HostType, ContainerRow
  <2>2. PICK policy \in {"always", "unless-stopped"} :
          container' = [container EXCEPT ![Own] = [id |-> id, state |-> "created", policy |-> policy]]
    BY <1>5
  <2>3. [id |-> id, state |-> "created", policy |-> policy] \in ContainerRow
    BY <1>4 DEF ContainerRow
  <2>. QED
    BY <1>2, <2>1, <2>2, <2>3
<1>7. ASSUME faults' \in 0 .. MaxFaults
      PROVE  Host'
  <2>1. HostType'
    BY <1>1, <1>4, <1>6, <1>7 DEF HostType, ContainerRow, Exists, ContainerId, None
  <2>2. ~ attached[Own] /\ tasks[Own] = {}
    BY <1>2 DEF HostType, Configured, Exists, Up, Started
  <2>3. Configured'
    BY <1>1, <1>6, <2>2 DEF Configured, Up, Started
  <2>4. StartedIsRecorded'
    BY <1>1, <1>6, Disjoint DEF StartedIsRecorded, Client, Thing
  <2>. QED
    BY <2>1, <2>3, <2>4 DEF Host
<1>8. CASE UNCHANGED faults /\ job' = [Advanced(job) EXCEPT !.id = id]
  <2>1. Host'
    BY <1>7, <1>8 DEF HostType
  <2>2. Advanced(job) = [Advanced(job) EXCEPT !.status = job.status]
    BY DEF JobType, Advanced
  <2>3. AdvanceWith(id, job.status)
    BY <1>8, <2>2 DEF AdvanceWith
  <2>4. Moved(id, job.status)
    BY <1>1, <1>4, <2>3, Advancing DEF JobType
  <2>5. Jobs'
    BY <1>1, <1>2, <1>6, <2>4 DEF Moved, Final, Follows, Jobs, Creates, Ends, Deletes, In
  <2>. QED
    BY <2>1, <2>4, <2>5 DEF Host, Moved, Jobs
<1>9. CASE Failure("lost") /\ job' = [job EXCEPT !.result = "error", !.failed = TRUE]
  <2>1. Halted("error", TRUE)
    BY <1>1, <1>9, Halting
  <2>2. faults' \in 0 .. MaxFaults
    BY <1>9, ClientsFaultAssumption DEF Failure, HostType
  <2>. QED
    BY <1>1, <1>7, <2>1, <2>2, HaltedPreserves
<1>. QED
  BY <1>5, <1>8, <1>9

\* So does the record, which must not be there already.
LEMMA InsertClientPreserves ==
  ASSUME ClientsIInv, InsertClient
  PROVE  ClientsIInv'
<1>. USE DEF ClientsIInv
<1>1. /\ Busy /\ Now = "insert" /\ UNCHANGED <<host, jobs, faults>>
      /\ IF row[job.on] = None THEN row' = [row EXCEPT ![job.on] = job.id] /\ Advance
                               ELSE Stop("error") /\ UNCHANGED row
  BY DEF InsertClient, At, Now
<1>2. job.cmd \in {"map", "mount"} /\ Own = job.on /\ Own \in Client
  BY <1>1, WhoseStep, OwnIs
<1>3. CASE Stop("error") /\ UNCHANGED row
  BY <1>1, <1>2, <1>3, FailedPreserves
<1>4. CASE row' = [row EXCEPT ![job.on] = job.id] /\ Advance
  <2>1. Moved(job.id, job.status)
    BY <1>1, <1>4, PlainAdvance
  <2>2. /\ row' \in [Client -> ContainerId \cup {None}] /\ row'[Own] = job.id
        /\ \A c \in Client : c # Own => row'[c] = row[c]
    BY <1>2, <1>4 DEF HostType, JobType
  <2>3. job.id = container[Own].id /\ container[Own].state = "created"
    BY <1>1 DEF Creates, In
  <2>4. HostType' /\ Configured'
    BY <1>1, <2>2 DEF HostType, Configured, host, Exists, Up, Started
  <2>5. StartedIsRecorded'
    BY <1>1, <2>2, <2>3 DEF StartedIsRecorded, host
  <2>6. Jobs'
    BY <1>1, <1>2, <2>1, <2>2, <2>3 DEF Moved, Final, Follows, Jobs, Creates, Ends, Deletes,
       In, host
  <2>. QED
    BY <2>1, <2>4, <2>5, <2>6 DEF Moved, Jobs
<1>. QED
  BY <1>1, <1>3, <1>4

\* So do the configuration files.
LEMMA SyncFilesPreserves ==
  ASSUME ClientsIInv, SyncFiles
  PROVE  ClientsIInv'
<1>. USE DEF ClientsIInv
<1>1. /\ Busy /\ Now = "sync"
      /\ UNCHANGED <<row, container, tasks, attached, exported, exists, jobs>>
      /\ IF job.files = {} THEN Stop("error") /\ UNCHANGED <<synced, faults>>
         ELSE synced' = [synced EXCEPT ![Own] = job.files] /\ Proceed
  BY DEF SyncFiles, Does, At, Now
<1>2. /\ job.cmd \in {"map", "mount", "tgtStart"} /\ Own \in Thing
      /\ job.id = container[Own].id /\ container[Own].state = "created"
      /\ job.cmd # "tgtStart" => row[job.on] = job.id
  <2>1. Busy /\ Now = "sync"
    BY <1>1
  <2>2. job.cmd \in {"map", "mount", "tgtStart"}
    BY <2>1, WhoseStep
  <2>3. Own \in Thing
    BY <2>1, OwnIs
  <2>. QED
    BY <2>1, <2>2, <2>3 DEF Creates, In
<1>3. CASE Stop("error") /\ UNCHANGED <<synced, faults>>
  BY <1>1, <1>2, <1>3, FailedPreserves DEF host
<1>4. CASE job.files # {} /\ synced' = [synced EXCEPT ![Own] = job.files] /\ Proceed
  <2>1. Base(Own) \subseteq job.files /\ job.files \subseteq File
    BY <1>1, <1>4, FilesSynced
  <2>2. /\ synced' \in [Thing -> SUBSET File] /\ synced'[Own] = job.files
        /\ \A c \in Thing : c # Own => synced'[c] = synced[c]
    BY <1>2, <1>4, <2>1 DEF HostType
  <2>3. HostType'
    BY <1>1, <1>4, <2>2, Proceeding DEF HostType, Exists
  <2>4. Configured'
    <3>1. ~ attached[Own] /\ tasks[Own] = {}
      BY <1>2 DEF Configured, Up, Started
    <3>. QED
      BY <1>1, <1>2, <2>2, <3>1 DEF Configured, Up, Started
  <2>5. StartedIsRecorded'
    BY <1>1 DEF StartedIsRecorded
  <2>6. Moved(job.id, job.status) => Jobs'
    BY <1>1, <1>2, <2>1, <2>2 DEF Moved, Final, Follows, Jobs, Creates, Ends, Deletes, In
  <2>. QED
    BY <1>1, <1>4, <2>3, <2>4, <2>5, <2>6, ProceedPreserves DEF Host
<1>. QED
  BY <1>1, <1>3, <1>4

\* So does the start: the container is recorded and has its files.
LEMMA StartContainerPreserves ==
  ASSUME ClientsIInv, StartContainer
  PROVE  ClientsIInv'
<1>. USE DEF ClientsIInv
<1>1. /\ Busy /\ Now = "start"
      /\ UNCHANGED <<row, synced, tasks, attached, exported, exists, jobs>>
      /\ SetState(Own, "running") /\ Proceed
  BY DEF StartContainer, Does, At, Now
<1>2. job.cmd \in {"map", "mount", "tgtStart"} /\ Own \in Thing
  <2>1. job.cmd \in {"map", "mount", "tgtStart"}
    BY <1>1, WhoseStep
  <2>. QED
    BY <1>1, <2>1, OwnIs
<1>3. /\ job.id = container[Own].id /\ container[Own].state = "created"
      /\ job.cmd # "tgtStart" => row[job.on] = job.id
      /\ Base(Own) \subseteq synced[Own]
  BY <1>1 DEF Creates, In
<1>4. /\ container[Own].state # "running" /\ Exists(Own) /\ ~ attached[Own]
      /\ Own \in Client => row[Own] = container[Own].id
  <2>1. Own \in Client => Own = job.on /\ job.cmd # "tgtStart"
    BY <1>1, <1>2, OwnIs, Disjoint
  <2>. QED
    BY <1>2, <1>3, <2>1 DEF HostType, Configured, Up
<1>5. faults' \in 0 .. MaxFaults
  BY <1>1, Proceeding
<1>6. Host'
  BY <1>1, <1>2, <1>3, <1>4, <1>5, StateHost DEF Host, HostType
<1>7. container'[Own].state = "running"
  BY <1>1, <1>2, <1>4, StateSet
<1>8. Moved(job.id, job.status) => Jobs'
  BY <1>1, <1>2, <1>7 DEF Moved, Final, Follows, Jobs, Creates, Ends, Deletes, In, Started
<1>. QED
  BY <1>1, <1>6, <1>8, ProceedPreserves

\* So does the creation of the volume.
LEMMA CreateVolumePreserves ==
  ASSUME ClientsIInv, CreateVolume
  PROVE  ClientsIInv'
<1>. USE DEF ClientsIInv
<1>1. /\ Busy /\ Now = "createVolume"
      /\ UNCHANGED <<row, container, synced, tasks, attached, exported, jobs>>
      /\ IF Up(Own) THEN exists' = exists \cup {job.on} /\ Proceed
                    ELSE Stop("error") /\ UNCHANGED <<exists, faults>>
  BY DEF CreateVolume, Does, At, Now
<1>2. job.cmd = "map" /\ job.on \in Volume
  BY <1>1, WhoseStep, OwnIs
<1>3. CASE Stop("error") /\ UNCHANGED <<exists, faults>>
  BY <1>1, <1>2, <1>3, FailedPreserves DEF host
<1>4. CASE exists' = exists \cup {job.on} /\ Proceed
  <2>1. Host'
    BY <1>1, <1>2, <1>4, Proceeding DEF Host, HostType, Configured, StartedIsRecorded,
       Exists, Up, Started
  <2>2. Moved(job.id, job.status) => Jobs'
    BY <1>1, <1>2 DEF Moved, Final, Follows, Jobs, Creates, Ends, Deletes, In, Started
  <2>. QED
    BY <1>1, <1>4, <2>1, <2>2, ProceedPreserves
<1>. QED
  BY <1>1, <1>3, <1>4

\* So does the file that makes the configuration of a volume complete.
LEMMA SyncNebdClientPreserves ==
  ASSUME ClientsIInv, SyncNebdClient
  PROVE  ClientsIInv'
<1>. USE DEF ClientsIInv
<1>1. /\ Busy /\ Now = "syncClient"
      /\ UNCHANGED <<row, container, tasks, attached, exported, exists, jobs>>
      /\ synced' = [synced EXCEPT ![Own] = @ \cup {"nebd-client.conf"}] /\ Proceed
  BY DEF SyncNebdClient, Does, At, Now
<1>2. job.cmd = "map" /\ Own \in Volume /\ Own \in Thing
  BY <1>1, WhoseStep, OwnIs
<1>3. Started(Own)
  BY <1>1, <1>2 DEF Creates, In
<1>4. /\ synced' \in [Thing -> SUBSET File] /\ synced'[Own] = synced[Own] \cup {"nebd-client.conf"}
      /\ \A c \in Thing : synced[c] \subseteq synced'[c]
  <2>1. "nebd-client.conf" \in File
    BY DEF File, TgtdFiles
  <2>. QED
    BY <1>1, <1>2, <2>1 DEF HostType
<1>5. Host'
  BY <1>1, <1>4, Proceeding DEF Host, HostType, Configured, StartedIsRecorded, Exists, Up, Started
<1>6. Needed(Own) \subseteq synced'[Own]
  BY <1>2, <1>3, <1>4, Configurations DEF Configured
<1>7. Moved(job.id, job.status) => Jobs'
  BY <1>1, <1>2, <1>3, <1>6 DEF Moved, Final, Follows, Jobs, Creates, Ends, Deletes, In, Started
<1>. QED
  BY <1>1, <1>5, <1>7, ProceedPreserves

\* What AddDaemonTask does to the tasks.
LEMMA TaskAdded ==
  ASSUME HostType, NEW c \in Thing, NEW file, NEW what, AddDaemonTask(c, file, what),
         [file |-> file, what |-> what] \in Task
  PROVE  /\ tasks' \in [Thing -> SUBSET Task]
         /\ \A d \in Thing : d # c => tasks'[d] = tasks[d]
         /\ \A task \in tasks'[c] : task \in tasks[c] \/ (task.file = file /\ task.what = what)
<1>1. tasks' = [tasks EXCEPT ![c] =
                 {task \in tasks[c] : task.file # file} \cup {[file |-> file, what |-> what]}]
  BY DEF AddDaemonTask
<1>2. {task \in tasks[c] : task.file # file} \cup {[file |-> file, what |-> what]} \in SUBSET Task
  BY DEF HostType
<1>. QED
  BY <1>1, <1>2 DEF HostType

\* The task to map preserves the invariant: the configuration is complete by then.
LEMMA InstallMapTaskPreserves ==
  ASSUME ClientsIInv, InstallMapTask
  PROVE  ClientsIInv'
<1>. USE DEF ClientsIInv
<1>1. /\ Busy /\ Now = "mapTask"
      /\ UNCHANGED <<row, container, synced, attached, exported, exists, jobs>>
      /\ AddDaemonTask(Own, "map", job.on) /\ Proceed
  BY DEF InstallMapTask, Does, At, Now
<1>2. /\ job.cmd = "map" /\ Own \in Volume /\ Own \in Thing /\ Own = job.on
      /\ Own # Daemon /\ job.on \notin Target
  BY <1>1, WhoseStep, OwnIs, Disjoint
<1>3. Started(Own) /\ Needed(Own) \subseteq synced[Own]
  BY <1>1, <1>2 DEF Creates, In
<1>4. /\ tasks' \in [Thing -> SUBSET Task]
      /\ \A d \in Thing : d # Own => tasks'[d] = tasks[d]
      /\ \A task \in tasks'[Own] : task \in tasks[Own] \/ (task.file = "map" /\ task.what = job.on)
  <2>1. [file |-> "map", what |-> job.on] \in Task
    BY <1>2 DEF Task
  <2>. QED
    BY <1>1, <1>2, <2>1, TaskAdded
<1>5. HostType' /\ StartedIsRecorded'
  BY <1>1, <1>4, Proceeding DEF HostType, StartedIsRecorded, Exists
<1>6. Configured'
  BY <1>1, <1>2, <1>3, <1>4 DEF Configured, Up, Started
<1>7. Moved(job.id, job.status) => Jobs'
  BY <1>1, <1>2, <1>3 DEF Moved, Final, Follows, Jobs, Creates, Ends, Deletes, In, Started
<1>. QED
  BY <1>1, <1>5, <1>6, <1>7, ProceedPreserves DEF Host

\* So does the task to start tgtd.
LEMMA InstallTgtdTaskPreserves ==
  ASSUME ClientsIInv, InstallTgtdTask
  PROVE  ClientsIInv'
<1>. USE DEF ClientsIInv
<1>1. /\ Busy /\ Now = "tgtdTask"
      /\ UNCHANGED <<row, container, synced, attached, exported, exists, jobs>>
      /\ AddDaemonTask(Daemon, "tgtd", Daemon) /\ Proceed
  BY DEF InstallTgtdTask, Does, At, Now
<1>2. /\ job.cmd = "tgtStart" /\ Own = Daemon /\ Daemon \in Thing
      /\ Daemon \notin Target /\ Daemon \notin Volume
  BY <1>1, WhoseStep, OwnIs, Disjoint
<1>3. Started(Daemon) /\ Needed(Daemon) \subseteq synced[Daemon]
  BY <1>1, <1>2, Configurations DEF Creates, In, Configured
<1>4. /\ tasks' \in [Thing -> SUBSET Task]
      /\ \A d \in Thing : d # Daemon => tasks'[d] = tasks[d]
      /\ \A task \in tasks'[Daemon] :
           task \in tasks[Daemon] \/ (task.file = "tgtd" /\ task.what = Daemon)
  <2>1. [file |-> "tgtd", what |-> Daemon] \in Task
    BY <1>2 DEF Task
  <2>. QED
    BY <1>1, <1>2, <2>1, TaskAdded
<1>5. HostType' /\ StartedIsRecorded'
  BY <1>1, <1>4, Proceeding DEF HostType, StartedIsRecorded, Exists
<1>6. Configured'
  BY <1>1, <1>2, <1>3, <1>4 DEF Configured, Up, Started
<1>7. Moved(job.id, job.status) => Jobs'
  BY <1>1, <1>2 DEF Moved, Final, Follows, Jobs, Creates, Ends, Deletes, In
<1>. QED
  BY <1>1, <1>5, <1>6, <1>7, ProceedPreserves DEF Host

\* So does the task to export a target.
LEMMA InstallTargetTaskPreserves ==
  ASSUME ClientsIInv, InstallTargetTask
  PROVE  ClientsIInv'
<1>. USE DEF ClientsIInv
<1>1. /\ Busy /\ Now = "addTargetTask"
      /\ UNCHANGED <<row, container, synced, attached, exported, exists, jobs>>
      /\ AddDaemonTask(Daemon, PlainName[job.on], job.on) /\ Proceed
  BY DEF InstallTargetTask, Does, At, Now
<1>2. job.cmd = "tgtAdd" /\ Own = Daemon /\ Daemon \in Thing /\ job.on \in Target
  BY <1>1, WhoseStep, OwnIs, Disjoint
<1>3. Started(Daemon)
  BY <1>1, <1>2 DEF Creates, In
<1>4. /\ tasks' \in [Thing -> SUBSET Task]
      /\ \A d \in Thing : d # Daemon => tasks'[d] = tasks[d]
      /\ \A task \in tasks'[Daemon] :
           task \in tasks[Daemon] \/ (task.file = PlainName[job.on] /\ task.what = job.on)
  <2>1. [file |-> PlainName[job.on], what |-> job.on] \in Task
    BY <1>2 DEF Task
  <2>. QED
    BY <1>1, <1>2, <2>1, TaskAdded
<1>5. HostType' /\ StartedIsRecorded'
  BY <1>1, <1>4, Proceeding DEF HostType, StartedIsRecorded, Exists
<1>6. Configured'
  BY <1>1, <1>2, <1>3, <1>4, Disjoint DEF Configured, Up, Started
<1>7. Moved(job.id, job.status) => Jobs'
  BY <1>1, <1>2 DEF Moved, Final, Follows, Jobs, Creates, Ends, Deletes, In
<1>. QED
  BY <1>1, <1>5, <1>6, <1>7, ProceedPreserves DEF Host

\* So does the mapping.
LEMMA MapImagePreserves ==
  ASSUME ClientsIInv, MapImage
  PROVE  ClientsIInv'
<1>. USE DEF ClientsIInv
<1>1. /\ Busy /\ Now = "mapImage"
      /\ UNCHANGED <<row, container, synced, tasks, exported, exists, jobs>>
      /\ IF Up(Own) /\ ~ attached[Own] THEN attached' = [attached EXCEPT ![Own] = TRUE] /\ Proceed
                                       ELSE Stop("error") /\ UNCHANGED <<attached, faults>>
  BY DEF MapImage, Does, At, Now
<1>2. job.cmd = "map" /\ Own \in Thing
  BY <1>1, WhoseStep, OwnIs
<1>3. CASE Stop("error") /\ UNCHANGED <<attached, faults>>
  BY <1>1, <1>2, <1>3, FailedPreserves DEF host
<1>4. CASE Up(Own) /\ attached' = [attached EXCEPT ![Own] = TRUE] /\ Proceed
  <2>1. Needed(Own) \subseteq synced[Own]
    BY <1>1 DEF Creates, In
  <2>2. Host'
    BY <1>1, <1>2, <1>4, <2>1, Proceeding
       DEF Host, HostType, Configured, StartedIsRecorded, Exists, Up, Started
  <2>3. Moved(job.id, job.status) => Jobs'
    BY <1>1, <1>2 DEF Moved, Final, Follows, Jobs, Creates, Ends, Deletes, In
  <2>. QED
    BY <1>1, <1>4, <2>2, <2>3, ProceedPreserves
<1>. QED
  BY <1>1, <1>3, <1>4

\* So does the start of tgtd.
LEMMA StartTgtdPreserves ==
  ASSUME ClientsIInv, StartTgtd
  PROVE  ClientsIInv'
<1>. USE DEF ClientsIInv
<1>1. /\ Busy /\ Now = "tgtd"
      /\ UNCHANGED <<row, container, synced, tasks, exported, exists, jobs>>
      /\ IF Up(Daemon) THEN attached' = [attached EXCEPT ![Daemon] = TRUE] /\ Proceed
                       ELSE Stop("error") /\ UNCHANGED <<attached, faults>>
  BY DEF StartTgtd, Does, At, Now
<1>2. job.cmd = "tgtStart" /\ Own = Daemon /\ Daemon \in Thing /\ Daemon \notin Volume
  BY <1>1, WhoseStep, OwnIs, Disjoint
<1>3. CASE Stop("error") /\ UNCHANGED <<attached, faults>>
  BY <1>1, <1>2, <1>3, FailedPreserves DEF host
<1>4. CASE Up(Daemon) /\ attached' = [attached EXCEPT ![Daemon] = TRUE] /\ Proceed
  <2>1. Needed(Daemon) \subseteq synced[Daemon]
    BY <1>2, <1>4, Configurations DEF Configured, Up, Started
  <2>2. Host'
    BY <1>1, <1>2, <1>4, <2>1, Proceeding
       DEF Host, HostType, Configured, StartedIsRecorded, Exists, Up, Started
  <2>3. Moved(job.id, job.status) => Jobs'
    BY <1>1, <1>2, <1>4 DEF Moved, Final, Follows, Jobs, Creates, Ends, Deletes, In, Up, Started
  <2>. QED
    BY <1>1, <1>4, <2>2, <2>3, ProceedPreserves
<1>. QED
  BY <1>1, <1>3, <1>4

\* So does the check of the mount point, that stops the container if it finds none.
LEMMA CheckMountDonePreserves ==
  ASSUME ClientsIInv, CheckMountDone
  PROVE  ClientsIInv'
<1>. USE DEF ClientsIInv
<1>1. /\ Busy /\ Now = "checkMount"
      /\ UNCHANGED <<row, synced, tasks, attached, exported, exists, jobs, faults>>
      /\ \/ attached[Own] /\ Advance /\ UNCHANGED container
         \/ ~ attached[Own] /\ SetState(Own, "stopped") /\ Stop("error")
  BY DEF CheckMountDone, Does, At, Now
<1>2. job.cmd = "mount" /\ Own \in Thing
  BY <1>1, WhoseStep, OwnIs
<1>3. CASE Advance /\ UNCHANGED container
  <2>1. Host'
    BY <1>1, <1>3, SameHost DEF Host, HostType, host
  <2>2. Moved(job.id, job.status)
    BY <1>1, <1>3, PlainAdvance
  <2>3. Jobs'
    BY <1>1, <1>2, <2>2 DEF Moved, Final, Follows, Jobs, Creates, Ends, Deletes, In
  <2>. QED
    BY <2>1, <2>2, <2>3 DEF Host, Jobs, Moved
<1>4. CASE ~ attached[Own] /\ SetState(Own, "stopped") /\ Stop("error")
  <2>1. Started(Own)
    BY <1>1, <1>2 DEF Creates, In
  <2>2. /\ Exists(Own) /\ Base(Own) \subseteq synced[Own]
        /\ Own \in Client => row[Own] = container[Own].id
    BY <1>2, <2>1 DEF HostType, Started, Configured, StartedIsRecorded
  <2>3. Host'
    BY <1>1, <1>2, <1>4, <2>2, StateHost DEF Host, HostType
  <2>4. Halted("error", job.failed) /\ job.failed \in BOOLEAN
    BY <1>1, <1>4, Halting DEF JobType
  <2>. QED
    BY <1>1, <1>2, <2>3, <2>4, HaltedPreserves
<1>. QED
  BY <1>1, <1>3, <1>4

\* So does the update of the restart policy.
LEMMA UpdateContainerPreserves ==
  ASSUME ClientsIInv, UpdateContainer
  PROVE  ClientsIInv'
<1>. USE DEF ClientsIInv
<1>1. /\ Busy /\ Now = "update"
      /\ UNCHANGED <<row, synced, tasks, attached, exported, exists, jobs>>
      /\ container' = [container EXCEPT ![Own].policy = "unless-stopped"] /\ Proceed
  BY DEF UpdateContainer, Does, At, Now
<1>2. job.cmd = "mount" /\ Own \in Thing
  BY <1>1, WhoseStep, OwnIs
<1>3. /\ container' \in [Thing -> ContainerRow]
      /\ \A c \in Thing : container'[c].id = container[c].id /\ container'[c].state = container[c].state
  BY <1>1, <1>2 DEF HostType, ContainerRow
<1>4. HostType'
  <2>1. faults' \in 0 .. MaxFaults /\ UNCHANGED <<row, synced, tasks, attached, exported, exists, jobs>>
    BY <1>1, Proceeding
  <2>. QED
    BY <1>3, <2>1 DEF HostType, ContainerRow, Exists
<1>5. Configured' /\ StartedIsRecorded'
  BY <1>1, <1>3, Disjoint DEF Configured, StartedIsRecorded, Up, Started, Client, Thing
<1>6. Moved(job.id, job.status) => Jobs'
  BY <1>1, <1>2 DEF Moved, Final, Follows, Jobs, Creates, Ends, Deletes, In
<1>. QED
  BY <1>1, <1>4, <1>5, <1>6, ProceedPreserves DEF Host

\* So does unmap when there is no record: then the volume has no started container.
LEMMA KnownPreserves ==
  ASSUME ClientsIInv, Known
  PROVE  ClientsIInv'
<1>. USE DEF ClientsIInv
<1>1. /\ Busy /\ Now = "known" /\ UNCHANGED <<row, host, jobs, faults>>
      /\ IF job.id = None THEN Stop("skip") ELSE Advance
  BY DEF Known, Looks, At, Now
<1>2. job.cmd = "unmap" /\ Own = job.on /\ Own \in Client /\ Own \in Thing
  BY <1>1, WhoseStep, OwnIs
<1>3. Host' /\ job.id = row[Own]
  BY <1>1, <1>2, SameHost DEF Host, HostType, Ends
<1>4. CASE job.id = None /\ Stop("skip")
  <2>1. Halted("skip", job.failed)
    BY <1>1, <1>4, Halting
  <2>2. ~ Started(Own)
    BY <1>2, <1>3, <1>4 DEF StartedIsRecorded, Started, HostType, Exists
  <2>3. job'.on = Own /\ container' = container /\ Own' = Own
    BY <1>1, <1>2, <2>1 DEF Halted, host, Own
  <2>. QED
    BY <1>2, <1>3, <2>1, <2>2, <2>3 DEF Host, Halted, Creates, Ends, Deletes, In, Started
<1>5. CASE job.id # None /\ Advance
  <2>1. Moved(job.id, job.status)
    BY <1>1, <1>5, PlainAdvance
  <2>2. Jobs'
    BY <1>1, <1>2, <1>3, <1>5, <2>1 DEF Moved, Final, Follows, Jobs, Creates, Ends, Deletes, In
  <2>. QED
    BY <1>3, <2>1, <2>2 DEF Host, Moved, Jobs
<1>. QED
  BY <1>1, <1>4, <1>5

\* So does the list by the recorded id: what it does not show has not been started.
LEMMA ListByIdPreserves ==
  ASSUME ClientsIInv, ListById
  PROVE  ClientsIInv'
<1>. USE DEF ClientsIInv
<1>1. /\ Busy /\ Now = "listById" /\ UNCHANGED <<row, host, jobs, faults>>
      /\ job' = [Advanced(job) EXCEPT !.status = StatusById]
  BY DEF ListById, Looks, At, Now
<1>2. /\ job.cmd \in {"unmap", "umount"} /\ Own = job.on /\ Own \in Client /\ Own \in Thing
      /\ job.id = row[Own] /\ (job.cmd = "unmap" => job.id # None)
  <2>1. job.cmd \in {"unmap", "umount"}
    BY <1>1, WhoseStep
  <2>2. Own = job.on /\ Own \in Client /\ Own \in Thing
    BY <1>1, <2>1, OwnIs
  <2>. QED
    BY <1>1, <2>1, <2>2 DEF Ends
<1>3. Host'
  BY <1>1, SameHost DEF Host, HostType
<1>. DEFINE status == StatusById
<1>4. /\ status \in {"none", "created", "running", "exited", "stopped", "other"}
      /\ status \notin {"none", "other"} =>
           container[Own].id = job.id /\ job.id # None /\ status = container[Own].state
      /\ status \in {"none", "other"} => ~ Started(Own)
      /\ status = "other" => job.id = None
  <2>1. container[Own] \in ContainerRow /\ (container[Own].id # None <=> container[Own].state # "none")
    BY <1>2 DEF HostType, ContainerRow, Exists
  <2>2. Started(Own) => row[Own] = container[Own].id
    BY <1>2 DEF StartedIsRecorded, Started
  <2>. QED
    BY <1>2, <2>1, <2>2 DEF StatusById, ContainerRow, Started
<1>. HIDE DEF status
<1>5. Moved(job.id, status)
  <2>1. Advanced(job) = [Advanced(job) EXCEPT !.id = job.id]
    BY DEF JobType, Advanced
  <2>2. AdvanceWith(job.id, status)
    BY <1>1, <2>1 DEF AdvanceWith, status
  <2>. QED
    BY <1>1, <1>4, <2>2, Advancing DEF JobType
<1>6. Creates' /\ Deletes'
  BY <1>1, <1>2, <1>5 DEF Moved, Final, Follows, Creates, Deletes, In
<1>7. container' = container /\ row' = row
  BY <1>1 DEF host
<1>8. Ends'
  BY <1>1, <1>2, <1>4, <1>5, <1>7 DEF Moved, Final, Follows, Ends, In, Seen, Started, Up
<1>. QED
  BY <1>3, <1>5, <1>6, <1>8 DEF Host, Moved

\* So does the list of `target stop`.
LEMMA ListDaemonPreserves ==
  ASSUME ClientsIInv, ListDaemon
  PROVE  ClientsIInv'
<1>. USE DEF ClientsIInv
<1>1. /\ Busy /\ Now = "listDaemon" /\ UNCHANGED <<row, host, jobs, faults>>
      /\ IF Exists(Daemon)
         THEN job' = [Advanced(job) EXCEPT !.status = container[Daemon].state,
                                           !.id = container[Daemon].id]
         ELSE Stop("ok")
  BY DEF ListDaemon, Looks, At, Now
<1>2. job.cmd = "tgtStop" /\ Own = Daemon /\ job.on = Daemon /\ Daemon \in Thing
  BY <1>1, WhoseStep, OwnIs, Disjoint
<1>3. Host' /\ container' = container
  BY <1>1, SameHost DEF Host, HostType, host
<1>4. container[Daemon] \in ContainerRow /\ (Exists(Daemon) <=> container[Daemon].state # "none")
  BY <1>2 DEF HostType, ContainerRow
<1>5. CASE ~ Exists(Daemon) /\ Stop("ok")
  <2>1. Halted("ok", job.failed) /\ Own' = Own
    BY <1>1, <1>2, <1>5, Halting DEF Halted, Own
  <2>2. ~ Started(Own)'
    BY <1>2, <1>3, <1>4, <1>5, <2>1 DEF Started
  <2>. QED
    BY <1>2, <1>3, <2>1, <2>2 DEF Host, Halted, Creates, Ends, Deletes, In
<1>6. CASE /\ Exists(Daemon)
           /\ job' = [Advanced(job) EXCEPT !.status = container[Daemon].state,
                                             !.id = container[Daemon].id]
  <2>. DEFINE id == container[Daemon].id
  <2>. DEFINE status == container[Daemon].state
  <2>1. /\ id \in ContainerId /\ status \in {"created", "running", "exited", "stopped"}
    BY <1>4, <1>6 DEF ContainerRow, Exists
  <2>2. [Advanced(job) EXCEPT !.status = status, !.id = id]
          = [Advanced(job) EXCEPT !.id = id, !.status = status]
    BY DEF JobType, Advanced
  <2>3. AdvanceWith(id, status)
    BY <1>6, <2>2 DEF AdvanceWith
  <2>4. Moved(id, status)
    BY <1>1, <2>1, <2>3, Advancing
  <2>5. Creates' /\ Deletes'
    BY <1>1, <1>2, <2>4 DEF Moved, Final, Follows, Creates, Deletes, In
  <2>6. Ends'
    BY <1>1, <1>2, <1>3, <2>1, <2>4 DEF Moved, Final, Follows, Ends, In, Seen, ContainerId, None
  <2>. QED
    BY <1>3, <2>4, <2>5, <2>6 DEF Host, Moved
<1>. QED
  BY <1>1, <1>5, <1>6

\* So does the unmapping.
LEMMA UnmapImagePreserves ==
  ASSUME ClientsIInv, UnmapImage
  PROVE  ClientsIInv'
<1>. USE DEF ClientsIInv
<1>1. /\ Busy /\ Now = "unmapImage"
      /\ UNCHANGED <<row, container, synced, tasks, exported, exists, jobs>>
      /\ IF job.status # "running" THEN Advance /\ UNCHANGED <<attached, faults>>
         ELSE IF Up(Own) THEN attached' = [attached EXCEPT ![Own] = FALSE] /\ Proceed
         ELSE Stop("error") /\ UNCHANGED <<attached, faults>>
  BY DEF UnmapImage, Does, At, Now
<1>2. job.cmd = "unmap" /\ Own \in Thing
  BY <1>1, WhoseStep, OwnIs
<1>3. ASSUME Moved(job.id, job.status)
      PROVE  Jobs'
  BY <1>1, <1>2, <1>3 DEF Moved, Final, Follows, Jobs, Creates, Ends, Deletes, In, Seen, Started
<1>4. ASSUME UNCHANGED <<attached, faults>>
      PROVE  Host'
  BY <1>1, <1>4, SameHost DEF Host, HostType, host
<1>5. CASE Advance /\ UNCHANGED <<attached, faults>>
  <2>1. Moved(job.id, job.status)
    BY <1>1, <1>5, PlainAdvance
  <2>. QED
    BY <1>3, <1>4, <1>5, <2>1 DEF Host, Jobs, Moved
<1>6. CASE attached' = [attached EXCEPT ![Own] = FALSE] /\ Proceed
  <2>1. Host'
    BY <1>1, <1>2, <1>6, Proceeding
       DEF Host, HostType, Configured, StartedIsRecorded, Exists, Up, Started
  <2>. QED
    BY <1>1, <1>3, <1>6, <2>1, ProceedPreserves
<1>7. CASE job.status = "running" /\ ~ Up(Own) /\ Stop("error") /\ UNCHANGED <<attached, faults>>
  <2>1. Halted("error", job.failed) /\ job.failed \in BOOLEAN
    BY <1>1, <1>7, Halting DEF JobType
  <2>2. job.failed
    BY <1>1, <1>7 DEF Ends, In
  <2>. QED
    BY <1>1, <1>4, <1>7, <2>1, <2>2, HaltedPreserves
<1>. QED
  BY <1>1, <1>5, <1>6, <1>7

\* So does the umount, although docker restarts the container after it.
LEMMA UmountFSPreserves ==
  ASSUME ClientsIInv, UmountFS
  PROVE  ClientsIInv'
<1>. USE DEF ClientsIInv
<1>1. /\ Busy /\ Now = "umountFS" /\ UNCHANGED <<row, synced, tasks, exported, exists, jobs>>
      /\ \/ Advance /\ UNCHANGED <<container, attached, faults>>
         \/ /\ job.status = "running" /\ Up(Own)
            /\ SetState(Own, "exited") /\ attached' = [attached EXCEPT ![Own] = FALSE]
            /\ Proceed
         \/ Stop("error") /\ UNCHANGED <<container, attached, faults>>
  BY DEF UmountFS, Does, At, Now
<1>2. job.cmd = "umount" /\ Own \in Thing
  BY <1>1, WhoseStep, OwnIs
<1>3. CASE Advance /\ UNCHANGED <<container, attached, faults>>
  <2>1. Host'
    BY <1>1, <1>3, SameHost DEF Host, HostType, host
  <2>2. Moved(job.id, job.status)
    BY <1>1, <1>3, PlainAdvance
  <2>3. Jobs'
    BY <1>1, <1>2, <1>3, <2>2 DEF Moved, Final, Follows, Jobs, Creates, Ends, Deletes, In,
       Seen, Started
  <2>. QED
    BY <2>1, <2>2, <2>3 DEF Host, Jobs, Moved
<1>4. CASE /\ job.status = "running" /\ Up(Own)
           /\ SetState(Own, "exited") /\ attached' = [attached EXCEPT ![Own] = FALSE]
           /\ Proceed
  <2>1. /\ Exists(Own) /\ Base(Own) \subseteq synced[Own]
        /\ Own \in Client => row[Own] = container[Own].id
    BY <1>2, <1>4 DEF HostType, Up, Started, Configured, StartedIsRecorded
  <2>2. /\ attached' \in [Thing -> BOOLEAN] /\ ~ attached'[Own]
        /\ \A c \in Thing : c # Own => attached'[c] = attached[c]
    BY <1>2, <1>4 DEF HostType
  <2>3. Host'
    BY <1>1, <1>2, <1>4, <2>1, <2>2, StateHost, Proceeding DEF Host, HostType
  <2>4. container'[Own].id = container[Own].id
    BY <1>2, <1>4, <2>1, StateSet
  <2>5. Moved(job.id, job.status) => Jobs'
    BY <1>1, <1>2, <1>4, <2>4 DEF Moved, Final, Follows, Jobs, Creates, Ends, Deletes, In, Seen
  <2>. QED
    BY <1>1, <1>4, <2>3, <2>5, ProceedPreserves
<1>5. CASE Stop("error") /\ UNCHANGED <<container, attached, faults>>
  BY <1>1, <1>2, <1>5, FailedPreserves DEF host
<1>. QED
  BY <1>1, <1>3, <1>4, <1>5

\* So does docker stop.
LEMMA StopContainerPreserves ==
  ASSUME ClientsIInv, StopContainer
  PROVE  ClientsIInv'
<1>. USE DEF ClientsIInv
<1>1. /\ Busy /\ Now = "stop" /\ UNCHANGED <<row, synced, tasks, exists, jobs>>
      /\ IF ~ Stops THEN Advance /\ UNCHANGED <<container, attached, exported, faults>>
         ELSE IF container[Own].id = job.id
         THEN /\ IF container[Own].state = "created" THEN UNCHANGED container
                 ELSE SetState(Own, "stopped")
              /\ Detached(Own) /\ Proceed
         ELSE Stop("error") /\ UNCHANGED <<container, attached, exported, faults>>
  BY DEF StopContainer, Does, At, Now
<1>2. job.cmd \in {"unmap", "umount", "tgtStop"} /\ Own \in Thing
  <2>1. job.cmd \in {"unmap", "umount", "tgtStop"}
    BY <1>1, WhoseStep
  <2>. QED
    BY <1>1, <2>1, OwnIs
<1>3. /\ Seen => container[Own].id = job.id /\ job.id # None
      /\ ~ Seen => ~ Started(Own)
      /\ job.status = "other" => job.id = None
      /\ job.status # "shown" /\ (job.cmd = "tgtStop" => Seen)
      /\ job.cmd = "unmap" => job.id # None
  BY <1>1 DEF Ends, In
<1>4. CASE ~ Stops /\ Advance /\ UNCHANGED <<container, attached, exported, faults>>
  <2>1. Host'
    BY <1>1, <1>4, SameHost DEF Host, HostType, host
  <2>2. Moved(job.id, job.status)
    BY <1>1, <1>4, PlainAdvance
  <2>3. ~ Seen
    BY <1>2, <1>3, <1>4 DEF Stops, Seen
  <2>4. Jobs'
    BY <1>1, <1>2, <1>3, <1>4, <2>2, <2>3 DEF Moved, Final, Follows, Jobs, Creates, Ends,
       Deletes, In, Seen, Started
  <2>. QED
    BY <2>1, <2>2, <2>4 DEF Host, Jobs, Moved
<1>5. CASE /\ Stops /\ container[Own].id = job.id
           /\ IF container[Own].state = "created" THEN UNCHANGED container ELSE SetState(Own, "stopped")
           /\ Detached(Own) /\ Proceed
  <2>1. job.id # None /\ Exists(Own)
    BY <1>2, <1>3, <1>5 DEF Stops, Seen, Exists
  <2>2. /\ attached' \in [Thing -> BOOLEAN] /\ ~ attached'[Own] /\ exported' \subseteq Target
        /\ \A c \in Thing : c # Own => attached'[c] = attached[c]
    BY <1>2, <1>5 DEF HostType, Detached
  <2>3. jobs' \in 0 .. MaxJobs /\ faults' \in 0 .. MaxFaults
    BY <1>1, <1>5, Proceeding DEF HostType
  <2>4. CASE container[Own].state = "created" /\ UNCHANGED container
    <3>1. Host'
      BY <1>1, <1>2, <2>2, <2>3, <2>4 DEF Host, HostType, Configured, StartedIsRecorded,
         Exists, Up, Started
    <3>2. Moved(job.id, job.status) => Jobs'
      BY <1>1, <1>2, <1>3, <2>4 DEF Moved, Final, Follows, Jobs, Creates, Ends, Deletes, In,
         Seen, Started
    <3>. QED
      BY <1>1, <1>5, <3>1, <3>2, ProceedPreserves
  <2>5. CASE container[Own].state # "created" /\ SetState(Own, "stopped")
    <3>1. Started(Own)
      BY <1>2, <2>1, <2>5 DEF HostType, Started
    <3>2. Base(Own) \subseteq synced[Own] /\ (Own \in Client => row[Own] = container[Own].id)
      BY <1>2, <3>1 DEF Started, Configured, StartedIsRecorded
    <3>3. Host'
      BY <1>1, <1>2, <2>1, <2>2, <2>3, <2>5, <3>2, StateHost DEF Host
    <3>4. container'[Own].id = container[Own].id /\ container'[Own].state = "stopped"
      BY <1>2, <2>1, <2>5, StateSet
    <3>5. Seen
      BY <1>3, <3>1
    <3>6. Moved(job.id, job.status) => Jobs'
      BY <1>1, <1>2, <1>3, <3>4, <3>5 DEF Moved, Final, Follows, Jobs, Creates, Ends,
         Deletes, In, Seen
    <3>. QED
      BY <1>1, <1>5, <3>3, <3>6, ProceedPreserves
  <2>. QED
    BY <1>5, <2>4, <2>5
<1>6. CASE /\ Stops /\ container[Own].id # job.id
           /\ Stop("error") /\ UNCHANGED <<container, attached, exported, faults>>
  <2>1. job.cmd # "unmap"
    BY <1>3, <1>6 DEF Stops, Seen
  <2>. QED
    BY <1>1, <1>6, <2>1, FailedPreserves DEF host
<1>. QED
  BY <1>1, <1>4, <1>5, <1>6

\* So does docker rm.
LEMMA RemoveContainerPreserves ==
  ASSUME ClientsIInv, RemoveContainer
  PROVE  ClientsIInv'
<1>. USE DEF ClientsIInv
<1>1. /\ Busy /\ Now = "remove" /\ UNCHANGED <<row, attached, exported, exists, jobs>>
      /\ IF job.status = "none" THEN Advance /\ UNCHANGED <<container, synced, tasks, faults>>
         ELSE IF job.status # "other" /\ container[Own].state \in {"created", "stopped"}
         THEN /\ container' = [container EXCEPT ![Own] = NoContainer]
              /\ synced' = [synced EXCEPT ![Own] = {}] /\ tasks' = [tasks EXCEPT ![Own] = {}]
              /\ Proceed
         ELSE Stop("error") /\ UNCHANGED <<container, synced, tasks, faults>>
  BY DEF RemoveContainer, Does, At, Now, Removed
<1>2. job.cmd \in {"unmap", "umount", "tgtStop"} /\ Own \in Thing
  <2>1. job.cmd \in {"unmap", "umount", "tgtStop"}
    BY <1>1, WhoseStep
  <2>. QED
    BY <1>1, <2>1, OwnIs
<1>3. /\ ~ Seen => ~ Started(Own)
      /\ job.status = "other" => job.id = None
      /\ job.cmd = "tgtStop" => Seen
      /\ job.cmd = "unmap" => job.id # None
      /\ Seen /\ ~ job.failed => container[Own].state \in {"created", "stopped"}
  BY <1>1 DEF Ends, In
<1>4. CASE job.status = "none" /\ Advance /\ UNCHANGED <<container, synced, tasks, faults>>
  <2>1. Host'
    BY <1>1, <1>4, SameHost DEF Host, HostType, host
  <2>2. Moved(job.id, job.status)
    BY <1>1, <1>4, PlainAdvance
  <2>3. Jobs'
    BY <1>1, <1>2, <1>3, <1>4, <2>2 DEF Moved, Final, Follows, Jobs, Creates, Ends, Deletes,
       In, Seen, Started
  <2>. QED
    BY <2>1, <2>2, <2>3 DEF Host, Jobs, Moved
<1>5. CASE /\ container[Own].state \in {"created", "stopped"}
           /\ container' = [container EXCEPT ![Own] = NoContainer]
           /\ synced' = [synced EXCEPT ![Own] = {}] /\ tasks' = [tasks EXCEPT ![Own] = {}]
           /\ Proceed
  <2>1. ~ attached[Own]
    BY <1>2, <1>5 DEF Configured, Up
  <2>2. NoContainer \in ContainerRow /\ NoContainer.state = "none" /\ NoContainer.id = None
    BY DEF NoContainer, ContainerRow
  <2>3. /\ container' \in [Thing -> ContainerRow] /\ container'[Own] = NoContainer
        /\ synced' \in [Thing -> SUBSET File] /\ tasks' \in [Thing -> SUBSET Task]
        /\ tasks'[Own] = {}
        /\ \A c \in Thing : c # Own => /\ container'[c] = container[c]
                                      /\ synced'[c] = synced[c] /\ tasks'[c] = tasks[c]
    <3>1. container \in [Thing -> ContainerRow]
      BY DEF HostType, ContainerRow
    <3>. QED
      BY <1>2, <1>5, <2>2, <3>1 DEF HostType
  <2>4. jobs' \in 0 .. MaxJobs /\ faults' \in 0 .. MaxFaults
    BY <1>1, <1>5, Proceeding DEF HostType
  <2>5. HostType'
    BY <1>1, <2>2, <2>3, <2>4 DEF HostType, ContainerRow, Exists
  <2>6. Configured'
    BY <1>1, <2>1, <2>2, <2>3 DEF Configured, Up, Started
  <2>7. StartedIsRecorded'
    BY <1>1, <2>2, <2>3, Disjoint DEF StartedIsRecorded, Client, Thing
  <2>8. Moved(job.id, job.status) => Jobs'
    BY <1>1, <1>2, <2>2, <2>3 DEF Moved, Final, Follows, Jobs, Creates, Ends, Deletes, In, Started
  <2>. QED
    BY <1>1, <1>5, <2>5, <2>6, <2>7, <2>8, ProceedPreserves DEF Host
<1>6. CASE /\ job.status # "none"
           /\ ~ (job.status # "other" /\ container[Own].state \in {"created", "stopped"})
           /\ Stop("error") /\ UNCHANGED <<container, synced, tasks, faults>>
  <2>1. Halted("error", job.failed) /\ job.failed \in BOOLEAN
    BY <1>1, <1>6, Halting DEF JobType
  <2>2. job.failed \/ job.cmd # "unmap"
    BY <1>3, <1>6 DEF Seen
  <2>3. Host'
    BY <1>1, <1>6, SameHost DEF Host, HostType, host
  <2>. QED
    BY <1>1, <2>1, <2>2, <2>3, HaltedPreserves
<1>. QED
  BY <1>1, <1>4, <1>5, <1>6

\* So does the deletion of the record: nothing is left that it could name.
LEMMA DeleteClientPreserves ==
  ASSUME ClientsIInv, DeleteClient
  PROVE  ClientsIInv'
<1>. USE DEF ClientsIInv
<1>1. /\ Busy /\ Now = "delete" /\ UNCHANGED <<host, jobs, faults>>
      /\ row' = [row EXCEPT ![job.on] = None] /\ Advance
  BY DEF DeleteClient, At, Now
<1>2. job.cmd \in {"unmap", "umount"} /\ Own = job.on /\ Own \in Client /\ ~ Started(Own)
  <2>1. job.cmd \in {"unmap", "umount"}
    BY <1>1, WhoseStep
  <2>. QED
    BY <1>1, <2>1, OwnIs DEF Ends, In
<1>3. Moved(job.id, job.status)
  BY <1>1, PlainAdvance
<1>4. /\ row' \in [Client -> ContainerId \cup {None}]
      /\ \A c \in Client : c # Own => row'[c] = row[c]
  BY <1>1, <1>2 DEF HostType
<1>5. HostType' /\ Configured'
  BY <1>1, <1>4 DEF HostType, Configured, host, Exists, Up, Started
<1>6. StartedIsRecorded'
  BY <1>1, <1>2, <1>4 DEF StartedIsRecorded, host, Started
<1>7. Jobs'
  BY <1>1, <1>2, <1>3 DEF Moved, Final, Follows, Jobs, Creates, Ends, Deletes, In, host, Started
<1>. QED
  BY <1>3, <1>5, <1>6, <1>7 DEF Moved, Jobs

\* So does the export of a target.
LEMMA AddTargetPreserves ==
  ASSUME ClientsIInv, AddTarget
  PROVE  ClientsIInv'
<1>. USE DEF ClientsIInv
<1>1. /\ Busy /\ Now = "addTarget"
      /\ UNCHANGED <<row, container, synced, tasks, attached, exists, jobs>>
      /\ \/ exported' = exported \cup {job.on} /\ Proceed
         \/ Stop("error") /\ UNCHANGED <<exported, faults>>
  BY DEF AddTarget, Does, At, Now
<1>2. job.cmd = "tgtAdd" /\ Own = Daemon /\ job.on \in Target
  BY <1>1, WhoseStep, OwnIs
<1>3. CASE Stop("error") /\ UNCHANGED <<exported, faults>>
  BY <1>1, <1>2, <1>3, FailedPreserves DEF host
<1>4. CASE exported' = exported \cup {job.on} /\ Proceed
  <2>1. Host'
    BY <1>1, <1>2, <1>4, Proceeding DEF Host, HostType, Configured, StartedIsRecorded,
       Exists, Up, Started
  <2>2. Moved(job.id, job.status) => Jobs'
    BY <1>1, <1>2 DEF Moved, Final, Follows, Jobs, Creates, Ends, Deletes, In, Started
  <2>. QED
    BY <1>1, <1>4, <2>1, <2>2, ProceedPreserves
<1>. QED
  BY <1>1, <1>3, <1>4

\* So does what tgtd shows.
LEMMA ShowTargetsPreserves ==
  ASSUME ClientsIInv, ShowTargets
  PROVE  ClientsIInv'
<1>. USE DEF ClientsIInv
<1>. DEFINE status == IF job.on \in exported THEN "shown" ELSE "none"
<1>1. /\ Busy /\ Now = "showTargets" /\ UNCHANGED <<row, host, jobs, faults>>
      /\ \/ \E r \in {"error", "panic"} : Stop(r)
         \/ Up(Daemon) /\ job' = [Advanced(job) EXCEPT !.status = status]
  BY DEF ShowTargets, Looks, At, Now
<1>2. job.cmd = "tgtDelete" /\ Own = Daemon
  BY <1>1, WhoseStep, OwnIs
<1>3. Host'
  BY <1>1, SameHost DEF Host, HostType
<1>4. CASE \E r \in {"error", "panic"} : Stop(r)
  <2>1. PICK r \in {"error", "panic"} : Stop(r)
    BY <1>4
  <2>2. Halted(r, job.failed) /\ job.failed \in BOOLEAN
    BY <1>1, <2>1, Halting DEF JobType
  <2>. QED
    BY <1>1, <1>2, <1>3, <2>2, HaltedPreserves
<1>5. CASE Up(Daemon) /\ job' = [Advanced(job) EXCEPT !.status = status]
  <2>1. Advanced(job) = [Advanced(job) EXCEPT !.id = job.id]
    BY DEF JobType, Advanced
  <2>2. AdvanceWith(job.id, status)
    BY <1>5, <2>1 DEF AdvanceWith
  <2>3. Moved(job.id, status)
    BY <1>1, <2>2, Advancing DEF JobType
  <2>4. container' = container /\ exported' = exported
    BY <1>1 DEF host
  <2>5. Jobs'
    BY <1>1, <1>2, <1>5, <2>3, <2>4 DEF Moved, Final, Follows, Jobs, Creates, Ends, Deletes,
       In, Up
  <2>. QED
    BY <1>3, <2>3, <2>5 DEF Host, Moved, Jobs
<1>. QED
  BY <1>1, <1>4, <1>5

\* So does the deletion of a task: it has the name of the target, if that needs no
\* translation.
LEMMA DelTaskPreserves ==
  ASSUME ClientsIInv, DelTask
  PROVE  ClientsIInv'
<1>. USE DEF ClientsIInv
<1>1. /\ Busy /\ Now = "delTask"
      /\ UNCHANGED <<row, container, synced, attached, exported, exists, jobs>>
      /\ tasks' = IF job.status = "shown" THEN [tasks EXCEPT ![Daemon] = DelDaemonTask(job.on)]
                  ELSE tasks
      /\ Proceed
  BY DEF DelTask, Does, At, Now
<1>2. job.cmd = "tgtDelete" /\ Own = Daemon /\ job.on \in Target /\ Daemon \in Thing
  BY <1>1, WhoseStep, OwnIs
<1>3. /\ tasks' \in [Thing -> SUBSET Task]
      /\ \A c \in Thing : tasks'[c] \subseteq tasks[c]
      /\ job.status = "shown" => \A task \in tasks'[Daemon] : task.file # job.on
  BY <1>1, <1>2 DEF HostType, DelDaemonTask
<1>4. Host'
  BY <1>1, <1>3, Proceeding DEF Host, HostType, Configured, StartedIsRecorded, Exists, Up, Started
<1>5. job.status = "shown" /\ PlainName[job.on] = job.on =>
        \A task \in tasks'[Daemon] : task.what # job.on
  BY <1>2, <1>3 DEF Configured
<1>6. Moved(job.id, job.status) => Jobs'
  BY <1>1, <1>2, <1>5 DEF Moved, Final, Follows, Jobs, Creates, Ends, Deletes, In, Up, Untold
<1>. QED
  BY <1>1, <1>4, <1>6, ProceedPreserves

\* So does the deletion of a target.
LEMMA DeleteTargetPreserves ==
  ASSUME ClientsIInv, DeleteTarget
  PROVE  ClientsIInv'
<1>. USE DEF ClientsIInv
<1>1. /\ Busy /\ Now = "deleteTarget"
      /\ UNCHANGED <<row, container, synced, tasks, attached, exists, jobs>>
      /\ \/ job.on \in exported /\ exported' = exported \ {job.on} /\ Proceed
         \/ Stop("error") /\ UNCHANGED <<exported, faults>>
  BY DEF DeleteTarget, Does, At, Now
<1>2. job.cmd = "tgtDelete" /\ Own = Daemon
  BY <1>1, WhoseStep, OwnIs
<1>3. CASE Stop("error") /\ UNCHANGED <<exported, faults>>
  BY <1>1, <1>2, <1>3, FailedPreserves DEF host
<1>4. CASE job.on \in exported /\ exported' = exported \ {job.on} /\ Proceed
  <2>1. Host'
    BY <1>1, <1>4, Proceeding DEF Host, HostType, Configured, StartedIsRecorded, Exists, Up,
       Started
  <2>2. Moved(job.id, job.status) => Jobs'
    BY <1>1, <1>2, <1>4 DEF Moved, Final, Follows, Jobs, Creates, Ends, Deletes, In, Untold
  <2>. QED
    BY <1>1, <1>4, <2>1, <2>2, ProceedPreserves
<1>. QED
  BY <1>1, <1>3, <1>4

\* So does a step that fails.
LEMMA StepFailsPreserves ==
  ASSUME ClientsIInv, StepFails
  PROVE  ClientsIInv'
<1>. USE DEF ClientsIInv
<1>1. Busy /\ Halted("error", TRUE)
  BY Halting DEF StepFails
<1>2. faults' \in 0 .. MaxFaults
  BY ClientsFaultAssumption DEF StepFails, Failure, HostType
<1>3. UNCHANGED <<row, host, jobs>>
  BY DEF StepFails
<1>4. Host'
  BY <1>2, <1>3, SameHost DEF Host, HostType
<1>. QED
  BY <1>1, <1>4, HaltedPreserves

-----------------------------------------------------------------------------
(* The host. *)

\* The command is where it was.
SameJob ==
  /\ JobType' /\ Now' = Now /\ (Busy' <=> Busy) /\ Own' = Own
  /\ job'.cmd = job.cmd /\ job'.on = job.on /\ job'.id = job.id /\ job'.status = job.status
  /\ job'.result = job.result

\* Noticed leaves it there, and tells it of the failure.
LEMMA Noticing ==
  ASSUME JobType, Noticed
  PROVE  SameJob /\ IF Busy THEN job'.failed = TRUE ELSE job'.failed = job.failed
<1>1. CASE Busy
  <2>1. job' = [cmd |-> job.cmd, on |-> job.on, at |-> job.at, id |-> job.id, status |-> job.status,
                files |-> job.files, result |-> job.result, failed |-> TRUE]
    BY <1>1 DEF JobType, Noticed
  <2>2. /\ job'.cmd = job.cmd /\ job'.on = job.on /\ job'.at = job.at /\ job'.id = job.id
        /\ job'.status = job.status /\ job'.files = job.files /\ job'.result = job.result
        /\ job'.failed = TRUE
    BY <2>1
  <2>3. JobType'
    BY <2>1, <2>2 DEF JobType
  <2>. QED
    BY <1>1, <2>2, <2>3 DEF SameJob, Now, Busy, Own
<1>2. CASE ~ Busy
  BY <1>2 DEF Noticed, SameJob, JobType, Now, Busy, Own
<1>. QED
  BY <1>1, <1>2

\* A container whose process ends preserves the invariant.
LEMMA ContainerExitsPreserves ==
  ASSUME ClientsIInv, NEW c \in Thing, ContainerExits(c)
  PROVE  ClientsIInv'
<1>. USE DEF ClientsIInv
<1>1. /\ Up(c) /\ SetState(c, "exited") /\ Detached(c) /\ Noticed
      /\ UNCHANGED <<row, synced, tasks, exists, jobs>>
  BY DEF ContainerExits
<1>2. faults' \in 0 .. MaxFaults
  BY ClientsFaultAssumption DEF ContainerExits, Failure, HostType
<1>3. /\ Exists(c) /\ Base(c) \subseteq synced[c] /\ (c \in Client => row[c] = container[c].id)
  BY <1>1 DEF HostType, Up, Started, Configured, StartedIsRecorded
<1>4. /\ attached' \in [Thing -> BOOLEAN] /\ ~ attached'[c] /\ exported' \subseteq exported
      /\ \A d \in Thing : d # c => attached'[d] = attached[d]
  BY <1>1 DEF HostType, Detached
<1>5. Host'
  BY <1>1, <1>2, <1>3, <1>4, StateHost DEF Host, HostType
<1>6. /\ \A d \in Thing : container'[d].id = container[d].id
      /\ \A d \in Thing : container'[d].state = IF d = c THEN "exited" ELSE container[d].state
      /\ \A d \in Thing : Exists(d)' <=> container'[d].state # "none"
      /\ \A d \in Thing : Exists(d) <=> container[d].state # "none"
  BY <1>1, <1>3, StateSet DEF HostType
<1>7. SameJob /\ IF Busy THEN job'.failed = TRUE ELSE job'.failed = job.failed
  BY <1>1, Noticing
<1>8. Busy => Own \in Thing
  BY OwnIs
<1>9. \A d \in Thing : Started(d)' <=> Started(d)
  BY <1>1, <1>6 DEF Up, Started
<1>10. Creates'
  BY <1>1, <1>6, <1>7, <1>8, <1>9 DEF SameJob, Creates, In, Up
<1>11. Ends'
  <2>1. Own \in Thing \/ ~ (job.cmd \in {"unmap", "umount", "tgtStop"})
    BY Disjoint DEF Own
  <2>. QED
    BY <1>1, <1>6, <1>7, <1>8, <1>9, <2>1 DEF SameJob, Ends, In, Seen
<1>12. Deletes'
  BY <1>1, <1>4, <1>7 DEF SameJob, Deletes, In, Untold
<1>. QED
  BY <1>5, <1>7, <1>10, <1>11, <1>12 DEF Host, SameJob

\* So does a reboot.
LEMMA RebootPreserves ==
  ASSUME ClientsIInv, Reboot
  PROVE  ClientsIInv'
<1>. USE DEF ClientsIInv
<1>1. /\ container' = [c \in Thing |->
             IF Up(c) \/ (container[c].state = "stopped" /\ container[c].policy = "always")
             THEN [container[c] EXCEPT !.state = "exited"] ELSE container[c]]
      /\ attached' = [c \in Thing |-> FALSE] /\ exported' = {} /\ Noticed
      /\ UNCHANGED <<row, synced, tasks, exists, jobs>>
  BY DEF Reboot
<1>2. faults' \in 0 .. MaxFaults
  BY ClientsFaultAssumption DEF Reboot, Failure, HostType
<1>3. ASSUME NEW c \in Thing
      PROVE  /\ container'[c] \in ContainerRow /\ container'[c].id = container[c].id
             /\ \/ container'[c].state = container[c].state
                \/ Started(c) /\ container'[c].state = "exited"
  <2>1. container[c] \in ContainerRow
    BY DEF HostType, ContainerRow
  <2>. DEFINE new == [container[c] EXCEPT !.state = "exited"]
  <2>2. new \in ContainerRow /\ new.id = container[c].id /\ new.state = "exited"
    BY <2>1 DEF ContainerRow
  <2>. HIDE DEF new
  <2>3. \/ container'[c] = container[c]
        \/ container'[c] = new /\ Started(c)
    BY <1>1 DEF Up, Started, new
  <2>. QED
    BY <2>1, <2>2, <2>3
<1>4. container' \in [Thing -> ContainerRow]
  BY <1>1, <1>3
<1>5. \A c \in Thing : /\ Exists(c)' <=> container'[c].state # "none"
                       /\ Exists(c) <=> container[c].state # "none"
                       /\ Started(c)' <=> Started(c)
  BY <1>3 DEF HostType, Exists, Started
<1>6. /\ \A c \in Thing : attached'[c] = FALSE
      /\ exported' = {} /\ attached' \in [Thing -> BOOLEAN]
  BY <1>1
<1>7. UNCHANGED <<row, synced, tasks, exists, jobs>>
  BY <1>1
<1>8. HostType'
  BY <1>2, <1>4, <1>5, <1>6, <1>7 DEF HostType, ContainerRow
<1>9. Configured'
  BY <1>5, <1>6, <1>7 DEF Configured
<1>10. StartedIsRecorded'
  BY <1>3, <1>5, <1>7, Disjoint DEF StartedIsRecorded, Client, Thing, Started
<1>11. SameJob /\ IF Busy THEN job'.failed = TRUE ELSE job'.failed = job.failed
  BY <1>1, Noticing
<1>12. Busy => Own \in Thing
  BY OwnIs
<1>13. Creates'
  BY <1>3, <1>5, <1>7, <1>11, <1>12 DEF SameJob, Creates, In, Started
<1>14. Ends'
  <2>1. Own \in Thing
    BY Disjoint DEF Own
  <2>. QED
    BY <1>3, <1>5, <1>7, <1>11, <1>12, <2>1 DEF SameJob, Ends, In, Seen
<1>15. Deletes'
  BY <1>6, <1>7, <1>11 DEF SameJob, Deletes, In, Untold
<1>. QED
  BY <1>8, <1>9, <1>10, <1>11, <1>13, <1>14, <1>15 DEF SameJob

\* So does docker, when it restarts a container: what that container does then it was
\* configured for.
LEMMA DockerRestartsPreserves ==
  ASSUME ClientsIInv, NEW c \in Thing, DockerRestarts(c)
  PROVE  ClientsIInv'
<1>. USE DEF ClientsIInv
<1>1. /\ container[c].state = "exited" /\ SetState(c, "running")
      /\ UNCHANGED <<row, synced, tasks, exists, job, jobs, faults>>
      /\ attached' = [attached EXCEPT ![c] =
           \E task \in tasks[c] : task.what = c /\ (c \in Volume => c \in exists)]
      /\ \/ exported' = exported
         \/ c = Daemon /\ exported' = {task.what : task \in tasks[c]} \cap Target
      /\ c # Daemon => exported' = exported
  BY DEF DockerRestarts
<1>2. /\ attached' \in [Thing -> BOOLEAN]
      /\ attached'[c] => Needed(c) \subseteq synced[c]
      /\ \A d \in Thing : d # c => attached'[d] = attached[d]
  <2>. DEFINE does == \E task \in tasks[c] : task.what = c /\ (c \in Volume => c \in exists)
  <2>1. does \in BOOLEAN /\ (does => Needed(c) \subseteq synced[c])
    BY DEF Configured
  <2>2. attached' = [attached EXCEPT ![c] = does]
    BY <1>1
  <2>. HIDE DEF does
  <2>. QED
    BY <2>1, <2>2 DEF HostType
<1>3. /\ Exists(c) /\ Base(c) \subseteq synced[c] /\ (c \in Client => row[c] = container[c].id)
  BY <1>1 DEF HostType, Started, Configured, StartedIsRecorded
<1>4. exported' \subseteq Target
  BY <1>1 DEF HostType
<1>5. jobs' \in 0 .. MaxJobs /\ faults' \in 0 .. MaxFaults
  BY <1>1 DEF HostType
<1>6. Host'
  BY <1>1, <1>2, <1>3, <1>4, <1>5, StateHost DEF Host
<1>7. /\ \A d \in Thing : container'[d].id = container[d].id
      /\ \A d \in Thing : container'[d].state = IF d = c THEN "running" ELSE container[d].state
      /\ \A d \in Thing : Exists(d)' <=> container'[d].state # "none"
      /\ \A d \in Thing : Exists(d) <=> container[d].state # "none"
  BY <1>1, <1>3, StateSet DEF HostType
<1>8. \A d \in Thing : Started(d)' <=> Started(d)
  BY <1>1, <1>7 DEF Started
<1>9. /\ Own \in Thing /\ job' = job /\ Own' = Own /\ Now' = Now /\ (Busy' <=> Busy)
      /\ UNCHANGED <<row, synced, tasks>>
  BY <1>1, Disjoint DEF Own, Now, Busy
<1>10. JobType'
  BY <1>9 DEF JobType
<1>11. Creates'
  BY <1>1, <1>7, <1>8, <1>9 DEF Creates, In
<1>12. Ends'
  BY <1>1, <1>7, <1>8, <1>9 DEF Ends, In, Seen, Up
<1>13. Deletes'
  <2>1. CASE Busy
    BY <1>1, <1>7, <1>9, <2>1, Disjoint DEF Deletes, In, Up, Untold, Busy
  <2>2. CASE ~ Busy
    BY <1>1, <1>9, <2>2 DEF Deletes, In, Untold
  <2>. QED
    BY <2>1, <2>2
<1>. QED
  BY <1>6, <1>10, <1>11, <1>12, <1>13 DEF Host

\* So does a client that mounts.
LEMMA MountComesUpPreserves ==
  ASSUME ClientsIInv, NEW m \in MountPoint, MountComesUp(m)
  PROVE  ClientsIInv'
<1>. USE DEF ClientsIInv
<1>1. /\ Up(m) /\ attached' = [attached EXCEPT ![m] = TRUE]
      /\ UNCHANGED <<row, container, synced, tasks, exported, exists, job, jobs, faults>>
  BY DEF MountComesUp
<1>2. m \in Thing /\ Needed(m) \subseteq synced[m]
  BY <1>1, Disjoint, Configurations DEF Configured, Up, Started
<1>3. Host'
  BY <1>1, <1>2 DEF Host, HostType, Configured, StartedIsRecorded, Exists, Up, Started
<1>4. JobType' /\ Creates' /\ Ends' /\ Deletes'
  BY <1>1 DEF JobType, Creates, Ends, Deletes, In, Busy, Now, Own, Started, Exists, Up,
     Untold, Seen
<1>. QED
  BY <1>3, <1>4 DEF Host

-----------------------------------------------------------------------------
(* The commands. *)

\* A command that begins preserves the invariant.
LEMMA Beginning ==
  ASSUME ClientsIInv, NEW cmd \in Commands, NEW on \in Ons(cmd), NEW id \in ContainerId \cup {None},
         NEW files \in Files(cmd), Begin(cmd, on, id, files),
         cmd \in {"unmap", "umount"} => id = row[on]
  PROVE  ClientsIInv'
<1>. USE DEF ClientsIInv
<1>1. /\ UNCHANGED <<row, host, faults>> /\ jobs < MaxJobs /\ jobs' = jobs + 1
      /\ job' = [cmd |-> cmd, on |-> on, at |-> 1, id |-> id, status |-> "none",
                 files |-> files, result |-> "running", failed |-> FALSE]
  BY DEF Begin
<1>2. Host'
  BY <1>1, SameHost, ClientsFaultAssumption DEF Host, HostType
<1>3. /\ job'.cmd = cmd /\ job'.on = on /\ job'.at = 1 /\ job'.id = id /\ job'.status = "none"
      /\ job'.files = files /\ job'.result = "running" /\ job'.failed = FALSE
  BY <1>1
<1>4. 1 \in 1 .. Last(cmd)
  BY DEF Last, Commands
<1>5. JobType'
  BY <1>1, <1>3, <1>4 DEF JobType, Commands
<1>6. /\ Now' \in {"listByName", "known", "listById", "checkDaemon", "listDaemon", "checkUp"}
      /\ cmd = "map" => Now' = "listByName"
      /\ cmd = "unmap" => Now' = "known"
  BY <1>3, StepsOf DEF Now, Commands
<1>7. Creates' /\ Ends' /\ Deletes'
  BY <1>1, <1>3, <1>6 DEF Creates, Ends, Deletes, In, Busy
<1>. QED
  BY <1>2, <1>5, <1>7 DEF Host

\* Whichever it is.
LEMMA CommandPreserves ==
  ASSUME ClientsIInv, Command
  PROVE  ClientsIInv'
<1>. USE DEF ClientsIInv
<1>0. None \in ContainerId \cup {None} /\ \A c \in Client : row[c] \in ContainerId \cup {None}
  BY DEF HostType
<1>1. CASE \E v \in Volume : RunMap(v)
  BY <1>0, <1>1, Beginning DEF RunMap, Ons, Files, Commands
<1>2. CASE \E v \in Volume : RunUnmap(v)
  BY <1>0, <1>2, Beginning DEF RunUnmap, Ons, Files, Commands, Client
<1>3. CASE \E m \in MountPoint : RunMount(m)
  BY <1>0, <1>3, Beginning DEF RunMount, Ons, Files, Commands
<1>4. CASE \E m \in MountPoint : RunUmount(m)
  BY <1>0, <1>4, Beginning DEF RunUmount, Ons, Files, Commands, Client
<1>5. CASE RunTgtStart
  BY <1>0, <1>5, Beginning DEF RunTgtStart, Ons, Files, Commands
<1>6. CASE RunTgtStop
  BY <1>0, <1>6, Beginning DEF RunTgtStop, Ons, Files, Commands
<1>7. CASE \E t \in Target : RunTgtAdd(t)
  BY <1>0, <1>7, Beginning DEF RunTgtAdd, Ons, Files, Commands
<1>8. CASE \E t \in Target : RunTgtDelete(t)
  BY <1>0, <1>8, Beginning DEF RunTgtDelete, Ons, Files, Commands
<1>. QED
  BY <1>1, <1>2, <1>3, <1>4, <1>5, <1>6, <1>7, <1>8 DEF Command

-----------------------------------------------------------------------------
(* The invariant is one. *)

\* The invariant holds at first.
LEMMA InitClientsIInv == Init => ClientsIInv
<1>. SUFFICES ASSUME Init PROVE ClientsIInv
  OBVIOUS
<1>1. NoContainer \in ContainerRow /\ NoContainer.id = None /\ NoContainer.state = "none"
  BY DEF NoContainer, ContainerRow
<1>2. /\ \A c \in Thing : container[c] = NoContainer /\ attached[c] = FALSE /\ tasks[c] = {}
      /\ container \in [Thing -> ContainerRow]
  BY <1>1 DEF Init
<1>3. HostType
  BY <1>1, <1>2, ClientsFaultAssumption DEF Init, HostType, ContainerRow, Exists, None
<1>4. JobType
  BY DEF Init, JobType, Ons, Files, Last, Commands
<1>5. Configured /\ StartedIsRecorded
  BY <1>1, <1>2, Disjoint DEF Configured, StartedIsRecorded, Started, Client, Thing
<1>6. Creates /\ Ends /\ Deletes
  BY DEF Init, Creates, Ends, Deletes, In, Busy
<1>. QED
  BY <1>3, <1>4, <1>5, <1>6 DEF ClientsIInv

\* Every step preserves it.
LEMMA NextPreserves == ClientsIInv /\ [Next]_vars => ClientsIInv'
<1>. SUFFICES ASSUME ClientsIInv, [Next]_vars PROVE ClientsIInv'
  OBVIOUS
<1>1. CASE UNCHANGED vars
  <2>1. UNCHANGED <<row, container, synced, tasks, attached, exported, exists, job, jobs, faults>>
    BY <1>1 DEF vars, host
  <2>. QED
    BY <2>1 DEF ClientsIInv, HostType, JobType, Configured, StartedIsRecorded, Creates, Ends,
       Deletes,
                In, Busy, Now, Own, Started, Exists, Up, Untold, Seen
<1>2. CASE Step
  BY <1>2, LooksPreserve, CheckDaemonPreserves, CreateContainerPreserves, InsertClientPreserves,
     SyncFilesPreserves, StartContainerPreserves, CreateVolumePreserves, SyncNebdClientPreserves,
     InstallMapTaskPreserves, MapImagePreserves, CheckMountDonePreserves, UpdateContainerPreserves,
     StartTgtdPreserves, InstallTgtdTaskPreserves, KnownPreserves, ListByIdPreserves,
     ListDaemonPreserves, UnmapImagePreserves, UmountFSPreserves, StopContainerPreserves,
     RemoveContainerPreserves, DeleteClientPreserves, AddTargetPreserves,
     InstallTargetTaskPreserves, ShowTargetsPreserves, DelTaskPreserves, DeleteTargetPreserves
     DEF Step
<1>3. CASE Command \/ StepFails \/ Reboot
  BY <1>3, CommandPreserves, StepFailsPreserves, RebootPreserves
<1>4. CASE \/ \E c \in Thing : ContainerExits(c) \/ DockerRestarts(c)
           \/ \E m \in MountPoint : MountComesUp(m)
  BY <1>4, ContainerExitsPreserves, DockerRestartsPreserves, MountComesUpPreserves
<1>. QED
  BY <1>1, <1>2, <1>3, <1>4 DEF Next

\* ClientsIInv is an invariant: it is what the theorems below follow from.
THEOREM Invariance == Spec => []ClientsIInv
<1>1. Init => ClientsIInv
  BY InitClientsIInv
<1>2. ClientsIInv /\ [Next]_vars => ClientsIInv'
  BY NextPreserves
<1>. QED
  BY <1>1, <1>2, PTL DEF Spec

-----------------------------------------------------------------------------
(* What follows from it. *)

\* TypeOK.
THEOREM TypeCorrect == Spec => []TypeOK
<1>1. ClientsIInv => TypeOK
  <2>. SUFFICES ASSUME ClientsIInv PROVE TypeOK
    OBVIOUS
  <2>. USE DEF ClientsIInv
  <2>1. job.cmd \in DOMAIN Steps \cup {"none"}
    BY DEF JobType, Commands, Steps
  <2>2. job.on \in Thing \cup Target
    BY DEF JobType, Ons, Thing, Client
  <2>3. Last(job.cmd) \in 1 .. 11 /\ job.at \in 1 .. 11
    BY DEF JobType, Last, Commands
  <2>4. job.files \in SUBSET File
    BY DEF JobType, Files, Commands, File, FsFiles, NebdFiles, TgtdFiles
  <2>. QED
    BY <2>1, <2>2, <2>3, <2>4 DEF TypeOK, HostType, JobType
<1>. QED
  BY <1>1, Invariance, PTL

\* The record of a client names its container as soon as that has been started, through
\* failures and lost replies: `unmap` and `umount` find it.
THEOREM RecordedWhenStarted == Spec => []StartedIsRecorded
<1>1. ClientsIInv => StartedIsRecorded
  BY DEF ClientsIInv
<1>. QED
  BY <1>1, Invariance, PTL

\* Nothing is mapped, mounted or served without its configuration, also when docker
\* restarts a container half-way through a command.
THEOREM ConfiguredWhenAttached == Spec => []AttachedIsConfigured
<1>1. ClientsIInv => AttachedIsConfigured
  BY DEF ClientsIInv, Configured, AttachedIsConfigured
<1>. QED
  BY <1>1, Invariance, PTL

\* What has been unmapped, unmounted, stopped or deleted with success does not come back.
THEOREM EndsForGood == Spec => []EndedStaysEnded
<1>1. ClientsIInv => EndedStaysEnded
  <2>. SUFFICES ASSUME ClientsIInv, job.result \in {"ok", "skip"} PROVE EndedStaysEnded
    BY DEF EndedStaysEnded
  <2>. USE DEF ClientsIInv
  <2>1. ASSUME job.cmd \in {"unmap", "umount", "tgtStop"}
        PROVE  ~ attached[job.on] /\ container[job.on].state \in {"none", "created"}
    <3>1. job.on \in Thing /\ Own = job.on
      BY <2>1, Disjoint DEF JobType, Ons, Own
    <3>2. ~ Started(Own)
      BY <2>1 DEF Ends
    <3>3. container[job.on] \in ContainerRow
      BY <3>1 DEF HostType, ContainerRow
    <3>. QED
      BY <3>1, <3>2, <3>3 DEF Started, ContainerRow, Configured, Up
  <2>2. ASSUME job.cmd = "tgtDelete" /\ PlainName[job.on] = job.on /\ ~ job.failed
        PROVE  job.on \notin exported
    BY <2>2 DEF Deletes
  <2>. QED
    BY <2>1, <2>2 DEF EndedStaysEnded
<1>. QED
  BY <1>1, Invariance, PTL

\* An unmap that meets no failure succeeds, whatever the commands before it left.
THEOREM UnmapSucceeds == Spec => []UnmapForgets
<1>1. ClientsIInv => UnmapForgets
  BY DEF ClientsIInv, Ends, UnmapForgets
<1>. QED
  BY <1>1, Invariance, PTL

=============================================================================
