--------------------------------- MODULE Disks ---------------------------------
(***************************************************************************)
(* The disks of the chunkservers: the records that `disks commit` keeps    *)
(* of them, and `format`, `format --stop` and `format --status`, which     *)
(* prepare them on their hosts.                                            *)
(*                                                                         *)
(* A disk has its file system (known by its UUID), a mount, the lines of   *)
(* its host's /etc/fstab, and the container that fills its chunkfile pool. *)
(* A format command runs one task per disk, concurrently; a task fails     *)
(* without effect or with its reply lost, curveadm can be killed, and a    *)
(* host can reboot.  Services take and release their disk as the tasks     *)
(* CREATE_CONTAINER and CLEAN_SERVICE of module Lifecycle do.              *)
(***************************************************************************)
EXTENDS Integers, Sequences, FiniteSets

CONSTANTS
  Files,        \* the disks files the operator writes, known by their number
  FormatFile,   \* format.yaml: [hosts, disks: sets of hosts, of <<device, mount>>]
  Server,       \* the chunkservers: records [id, host, dataDir]
  Uuid,         \* the UUIDs that file systems get
  Fault,        \* the kinds of failure considered
  MaxJobs,      \* bound: how many commands the operator gives
  MaxFaults     \* bound: how many failures happen

None == 0            \* no uuid, mount, owner or file
NoDisk == <<0, 0>>

ASSUME DisksFaultAssumption ==
  Fault \subseteq {"fails", "lost", "database", "crash", "exit", "reboot"} /\ MaxFaults \in Nat /\ MaxJobs \in Nat


\* mergeFinalHost: the hosts of an entry, in order, without the excluded ones.
FinalHosts(entry) == SelectSeq(entry.hosts, LAMBDA h : h \notin entry.exclude)

\* Build of one entry, and the check of ParseDisks against the earlier ones.
ValidEntry(entry) ==
  /\ entry.exclude \subseteq {entry.hosts[i] : i \in DOMAIN entry.hosts}
  /\ FinalHosts(entry) # << >>
  /\ \A i, j \in DOMAIN entry.hosts : entry.hosts[i] = entry.hosts[j] => i = j
  /\ entry.percent \in 1 .. 100

ParseDisks(file) ==
  /\ \A i \in DOMAIN file : ValidEntry(file[i])
  /\ \A i, j \in DOMAIN file :
       i # j => file[i].device # file[j].device /\ file[i].mount # file[j].mount

EntryDisks(entry) ==
  {<<FinalHosts(entry)[i], entry.device>> : i \in DOMAIN FinalHosts(entry)}
FileDisks(file) == UNION {EntryDisks(file[i]) : i \in DOMAIN file}
EntryOf(file, d) == CHOOSE i \in DOMAIN file : d \in EntryDisks(file[i])

\* assambleNewDiskRecords: serviceMountDevice is set by the first entry that
\* asks for it, and stays set for the entries after it.
ServiceMount(file, d) == \E i \in 1 .. EntryOf(file, d) : file[i].service

FileRecord(file, d) == [mount |-> file[EntryOf(file, d)].mount, service |-> ServiceMount(file, d)]
NewRecords == [n \in DOMAIN Files |-> [d \in FileDisks(Files[n]) |-> FileRecord(Files[n], d)]]

\* ParseFormat: every disk on every host.
FormatDisks == {<<h, x[1]>> : h \in FormatFile.hosts, x \in FormatFile.disks}

\* Variant: the device for the mount point.
FormatMountSwapped(d) == (CHOOSE x \in FormatFile.disks : x[1] = d[2])[1]

FormatMount(d) == (CHOOSE x \in FormatFile.disks : x[1] = d[2])[2]

Disk == (UNION {FileDisks(Files[n]) : n \in DOMAIN Files}) \cup FormatDisks
Host == {d[1] : d \in Disk}
Mount == (UNION {{Files[n][i].mount : i \in DOMAIN Files[n]} : n \in DOMAIN Files})
           \cup {x[2] : x \in FormatFile.disks}

ASSUME DisksNameAssumption ==
  /\ NoDisk \notin Disk /\ None \notin Mount /\ None \notin DOMAIN Files
  /\ Uuid \subseteq Nat \ {None}
ASSUME ServerAssumption ==
  /\ \A s, t \in Server : s.id = t.id => s = t
  /\ \A s \in Server : s.id # None

VARIABLES
  disk,       \* disk table: [some disks -> [mount, service, uri, owner]]
  disks,      \* disks.data: the committed file, or None
  uuid,       \* [Disk -> the UUID of its file system, or None]
  mounted,    \* [Disk -> where it is mounted, or None]
  fstab,      \* [Host -> the lines <<disk, uuid, mount>> that curveadm wrote]
  container,  \* [Disk -> its format container]
  pool,       \* [Disk -> how full the file system is]
  home,       \* [Server -> the disk its data lives on, or NoDisk]
  marked,     \* history: the servers with data for which a deploy has marked a record
  job,        \* the last command: what, about what, how it ended
  towrite,    \* commit: the records left to write
  todelete,   \* commit: the records left to delete
  at,         \* [Disk -> where its task is]
  old,        \* [Disk -> the task's oldUUID]
  copy,       \* [Disk -> the fstab its sed has read]
  lock,       \* the disk whose task holds memStorage, or NoDisk
  shown,      \* [Disk -> the status that format --status found]
  jobs,       \* how many commands have been given
  faults      \* how many failures have happened

database == <<disk, disks>>
host     == <<uuid, mounted, fstab, container, pool>>
locals   == <<at, old, copy, lock, shown>>
commits  == <<towrite, todelete>>
homes    == <<home, marked>>
vars     == <<database, host, homes, job, jobs, commits, locals, faults>>

Ended == {"none", "ok", "skip", "error"}
Busy == job.result = "running"
Working == \E d \in Disk : at[d] # "none"

Init ==
  /\ disk = << >> /\ disks = None
  /\ uuid = [d \in Disk |-> None] /\ mounted = [d \in Disk |-> None]
  /\ fstab = [h \in Host |-> {}]
  /\ container = [d \in Disk |-> "none"] /\ pool = [d \in Disk |-> "empty"]
  /\ home = [s \in Server |-> NoDisk] /\ marked = {}
  /\ job = [cmd |-> "none", on |-> {}, file |-> None, result |-> "none"]
  /\ towrite = {} /\ todelete = {}
  /\ at = [d \in Disk |-> "none"] /\ old = [d \in Disk |-> None]
  /\ copy = [d \in Disk |-> {}] /\ lock = NoDisk
  /\ shown = [d \in Disk |-> "none"]
  /\ jobs = 0 /\ faults = 0

Failure(kind) ==
  /\ kind \in Fault /\ faults < MaxFaults
  /\ faults' = faults + 1

\* The command is over; nothing of its memory remains but what it showed.
End(result, on) ==
  /\ job' = [job EXCEPT !.result = result, !.on = on]
  /\ towrite' = {} /\ todelete' = {}
  /\ at' = [d \in Disk |-> "none"] /\ old' = [d \in Disk |-> None]
  /\ copy' = [d \in Disk |-> {}] /\ lock' = NoDisk

Finish(result) == End(result, job.on)

Begin(cmd, on, file) ==
  /\ ~ Busy /\ jobs < MaxJobs
  /\ jobs' = jobs + 1
  /\ job' = [cmd |-> cmd, on |-> on, file |-> file, result |-> "running"]

-----------------------------------------------------------------------------
(* disks commit *)

\* SortDiskRecords: by host, then by device.
Precedes(d, e) == d[1] < e[1] \/ (d[1] = e[1] /\ d[2] < e[2])
First(d, ds) == d \in ds /\ \A e \in ds : d = e \/ Precedes(d, e)

\* readAndCheckDisks and assambleNewDiskRecords; the operator has confirmed.
Commit(n) ==
  /\ ParseDisks(Files[n])
  /\ Begin("commit", FileDisks(Files[n]), n)
  /\ towrite' = DOMAIN NewRecords[n]
  /\ todelete' = DOMAIN disk \ DOMAIN NewRecords[n]
  /\ shown' = [d \in Disk |-> "none"]
  /\ UNCHANGED <<database, host, homes, at, old, copy, lock, faults>>

\* Variant: a record that exists is written as a new one is.
SetDiskReplaces(d, r) == [mount |-> r.mount, service |-> r.service, uri |-> None, owner |-> None]

\* SetDisk updates a record that exists, and inserts it otherwise.
SetDisk(d, r) ==
  [mount |-> r.mount, service |-> r.service,
   uri   |-> IF d \in DOMAIN disk THEN disk[d].uri ELSE None,
   owner |-> IF d \in DOMAIN disk THEN disk[d].owner ELSE None]

WriteDiskRecord ==
  /\ job.cmd = "commit" /\ Busy
  /\ \E d \in towrite :
       /\ First(d, towrite)
       /\ disk' = [e \in DOMAIN disk \cup {d} |->
                     IF e = d THEN SetDisk(d, NewRecords[job.file][d]) ELSE disk[e]]
       /\ towrite' = towrite \ {d}
  /\ UNCHANGED <<disks, host, homes, jobs, job, todelete, locals, faults>>

\* A disk that a chunkserver uses keeps its record.
Deletable(d) == disk[d].owner = None

DeleteDiskRecord ==
  /\ job.cmd = "commit" /\ Busy /\ towrite = {}
  /\ \E d \in todelete :
       /\ First(d, todelete)
       /\ IF Deletable(d)
          THEN /\ disk' = [e \in DOMAIN disk \ {d} |-> disk[e]]
               /\ todelete' = todelete \ {d}
               /\ UNCHANGED <<job, towrite, at, old, copy, lock>>
          ELSE Finish("error") /\ UNCHANGED disk
  /\ UNCHANGED <<disks, host, homes, jobs, shown, faults>>

SetDisks ==
  /\ job.cmd = "commit" /\ Busy /\ towrite = {} /\ todelete = {}
  /\ disks' = job.file
  /\ Finish("ok")
  /\ UNCHANGED <<disk, host, homes, jobs, shown, faults>>

\* A statement of the commit fails: what is done stays done.
CommitFails ==
  /\ job.cmd = "commit" /\ Busy
  /\ Failure("database")
  /\ Finish("error")
  /\ UNCHANGED <<database, host, homes, jobs, shown>>

-----------------------------------------------------------------------------
(* format: which disks, and how. *)

\* runFormat skips the disk with a chunkserver id.
Unbound(d) == disk[d].owner = None

\* The disks of the records if there are any, else those of format.yaml.
FormatConfigs == IF disk = << >> THEN FormatDisks ELSE {d \in DOMAIN disk : Unbound(d)}

FromDiskRecord(d) == d \in DOMAIN disk
MountPoint(d) == IF FromDiskRecord(d) THEN disk[d].mount ELSE FormatMount(d)
ServiceMountDevice(d) == FromDiskRecord(d) /\ disk[d].service

FormatCommand == {"format", "stop", "status"}
FirstStep(cmd) == CASE cmd = "format" -> "list" [] cmd = "stop" -> "blkid" [] cmd = "status" -> "df"

\* genFormatPlaybook refuses a command without disks.
RunFormat(cmd) ==
  /\ FormatConfigs # {}
  /\ Begin(cmd, FormatConfigs, None)
  /\ at' = [d \in Disk |-> IF d \in FormatConfigs THEN FirstStep(cmd) ELSE "none"]
  /\ shown' = [d \in Disk |-> "none"]
  /\ UNCHANGED <<database, host, homes, commits, old, copy, lock, faults>>

\* The playbook ends with its one step; the disks it skipped are not its own.
FormatEnds ==
  /\ Working /\ \A d \in Disk : at[d] \in Ended
  /\ End(IF \E d \in Disk : at[d] = "error" THEN "error" ELSE "ok",
         {d \in Disk : at[d] = "ok"})
  /\ UNCHANGED <<database, host, homes, jobs, shown, faults>>

\* Variant: a task that fails in the transaction keeps the lock.
ReleasedOnSuccess(d, next) == IF lock = d /\ next \in {"record", "create", "ps"} THEN NoDisk ELSE lock

\* SafeMap.TX unlocks when the callback returns, with an error or without.
Released(d, next) == IF lock = d /\ next \notin {"delRead", "delWrite", "addRead", "addWrite"}
                     THEN NoDisk ELSE lock

\* The step of d is over, and the next one is due.
Goto(d, next) == at' = [at EXCEPT ![d] = next] /\ lock' = Released(d, next)

\* ... unless it has taken effect and its reply is lost.
Proceed(d, next) ==
  \/ Goto(d, next) /\ UNCHANGED faults
  \/ Failure("lost") /\ Goto(d, "error")

\* A step fails without effect.
StepFails(d) ==
  /\ at[d] \notin Ended
  /\ Failure("fails")
  /\ Goto(d, "error")
  /\ UNCHANGED <<database, host, homes, jobs, job, commits, old, copy, shown>>

\* The process is killed.
Crash ==
  /\ Busy /\ Failure("crash")
  /\ Finish("crash")
  /\ UNCHANGED <<database, host, homes, jobs, shown>>

Same == <<disks, homes, jobs, job, commits, shown>>

-----------------------------------------------------------------------------
(* The tasks.  A step that only reads what nobody else changes is part of  *)
(* the step after it.                                                      *)

\* Skip if a container with the name exists, running or not; else oldUUID.
ListContainers(d) ==
  /\ at[d] = "list"
  /\ IF container[d] # "none" THEN Goto(d, "skip") /\ UNCHANGED old
                              ELSE Goto(d, "umount") /\ old' = [old EXCEPT ![d] = uuid[d]]
  /\ UNCHANGED <<disk, host, copy, faults, Same>>

UmountFilesystem(d) ==
  /\ at[d] = "umount"
  /\ mounted' = [mounted EXCEPT ![d] = None]
  /\ Proceed(d, IF job.cmd = "format" THEN "mkfs" ELSE "ok")
  /\ UNCHANGED <<disk, uuid, fstab, container, pool, old, copy, Same>>

\* A UUID that nobody refers to any more is as good as new; of those, the least.
FreshUuids(d) ==
  LET used == {uuid[d], old[d]} \cup {line[2] : line \in {l \in fstab[d[1]] : l[1] = d}}
                \cup {disk[e].uri : e \in DOMAIN disk \cap {d}}
      free == Uuid \ used
  IN {u \in free : \A v \in free : u <= v}

CreateFilesystem(d) ==
  /\ at[d] = "mkfs"
  /\ \E u \in FreshUuids(d) : uuid' = [uuid EXCEPT ![d] = u]
  /\ pool' = [pool EXCEPT ![d] = "empty"]
  /\ Proceed(d, "mount")
  /\ UNCHANGED <<disk, mounted, fstab, container, old, copy, Same>>

\* After fstab, or without it: the record, or on to the container.
AfterFstab(d) == IF FromDiskRecord(d) THEN "record" ELSE "create"

MountFilesystem(d) ==
  /\ at[d] = "mount"
  /\ mounted' = [mounted EXCEPT ![d] = MountPoint(d)]
  /\ Proceed(d, IF ServiceMountDevice(d) THEN AfterFstab(d) ELSE "fstab")
  /\ UNCHANGED <<disk, uuid, fstab, container, pool, old, copy, Same>>

\* The first step of `format --stop`.
ListBlockDevice(d) ==
  /\ at[d] = "blkid"
  /\ old' = [old EXCEPT ![d] = uuid[d]]
  /\ Goto(d, "fstab")
  /\ UNCHANGED <<disk, host, copy, faults, Same>>

\* Variant: memStorage is not locked.
LockFreeNever == TRUE

LockFree == lock = NoDisk

\* step2EditFSTab: lock memStorage, then checkDeviceUUID; the line of the old
\* file system is deleted if there was one.
EditFSTab(d) ==
  /\ at[d] = "fstab" /\ LockFree
  /\ LET next == IF uuid[d] = None THEN "error" ELSE IF old[d] # None THEN "delRead" ELSE "addRead"
     IN /\ at' = [at EXCEPT ![d] = next]
        /\ lock' = IF next = "error" THEN lock ELSE d
  /\ UNCHANGED <<disk, host, old, copy, faults, Same>>

\* sed --in-place reads the file ...
SedRead(d) ==
  /\ at[d] \in {"delRead", "addRead"}
  /\ copy' = [copy EXCEPT ![d] = fstab[d[1]]]
  /\ Goto(d, IF at[d] = "delRead" THEN "delWrite" ELSE "addWrite")
  /\ UNCHANGED <<disk, host, old, faults, Same>>

\* ... and puts the edited copy in its place.
SedDelete(d) ==
  /\ at[d] = "delWrite"
  /\ fstab' = [fstab EXCEPT ![d[1]] = {line \in copy[d] : line[1] # d \/ line[2] # old[d]}]
  /\ copy' = [copy EXCEPT ![d] = {}]
  /\ Proceed(d, IF job.cmd = "format" THEN "addRead" ELSE "ps")
  /\ UNCHANGED <<disk, uuid, mounted, container, pool, old, Same>>

SedAdd(d) ==
  /\ at[d] = "addWrite"
  /\ fstab' = [fstab EXCEPT ![d[1]] = copy[d] \cup {<<d, uuid[d], MountPoint(d)>>}]
  /\ copy' = [copy EXCEPT ![d] = {}]
  /\ Proceed(d, AfterFstab(d))
  /\ UNCHANGED <<disk, uuid, mounted, container, pool, old, Same>>

RecordedUuid(d) == uuid[d]

UpdateDiskSizeUri(d) ==
  /\ at[d] = "record"
  /\ disk' = [disk EXCEPT ![d].uri = RecordedUuid(d)]
  /\ Goto(d, "create")
  /\ UNCHANGED <<host, old, copy, faults, Same>>

CreateContainer(d) ==
  /\ at[d] = "create"
  /\ container' = [container EXCEPT ![d] = "created"]
  /\ Proceed(d, "start")
  /\ UNCHANGED <<disk, uuid, mounted, fstab, pool, old, copy, Same>>

\* The script is installed (or that fails), then the container started.
StartContainer(d) ==
  /\ at[d] = "start"
  /\ container' = [container EXCEPT ![d] = "running"]
  /\ Proceed(d, "ok")
  /\ UNCHANGED <<disk, uuid, mounted, fstab, pool, old, copy, Same>>

\* `format --stop`: docker stop ends a running container, and with it (it was
\* created with --rm) the container; one that never started stays.
StopContainer(d) ==
  /\ at[d] = "ps"
  /\ container' = [container EXCEPT ![d] = IF @ = "running" THEN "none" ELSE @]
  /\ Proceed(d, "umount")
  /\ UNCHANGED <<disk, uuid, mounted, fstab, pool, old, copy, Same>>

\* Variant: the use of the file system is not compared with the percentage.
FormatStatusBlind(usage, c) ==
  IF usage = "empty" THEN "Mounting" ELSE IF c # "none" THEN "Formatting" ELSE "Done"

\* step2FormatStatus.
FormatStatus(usage, c) ==
  IF usage = "empty" THEN "Mounting" ELSE IF c # "none" THEN "Formatting"
  ELSE IF usage = "partial" THEN "Pulling image" ELSE "Done"

\* df of a device that is not mounted is about another file system.
ShowDiskFree(d) ==
  /\ at[d] = "df"
  /\ Goto(d, IF mounted[d] = None THEN "empty" ELSE pool[d])
  /\ UNCHANGED <<disk, host, old, copy, faults, Same>>

ShowStatus(d) ==
  /\ at[d] \in {"empty", "partial", "full"}
  /\ shown' = [shown EXCEPT ![d] = FormatStatus(at[d], container[d])]
  /\ Goto(d, "ok")
  /\ UNCHANGED <<database, host, homes, jobs, job, commits, old, copy, faults>>

Step(d) ==
  \/ ListContainers(d) \/ UmountFilesystem(d) \/ CreateFilesystem(d) \/ MountFilesystem(d)
  \/ ListBlockDevice(d) \/ EditFSTab(d) \/ SedRead(d) \/ SedDelete(d) \/ SedAdd(d)
  \/ UpdateDiskSizeUri(d) \/ CreateContainer(d) \/ StartContainer(d) \/ StopContainer(d)
  \/ ShowDiskFree(d) \/ ShowStatus(d)

-----------------------------------------------------------------------------
(* The hosts and the services. *)

\* The format container fills the chunkfile pool, then it is gone.
Fill(d) ==
  /\ container[d] = "running"
  /\ \/ pool[d] = "empty" /\ pool' = [pool EXCEPT ![d] = "partial"] /\ UNCHANGED container
     \/ /\ pool[d] = "partial"
        /\ pool' = [pool EXCEPT ![d] = "full"]
        /\ container' = [container EXCEPT ![d] = "none"]
  /\ UNCHANGED <<database, uuid, mounted, fstab, homes, jobs, job, commits, locals, faults>>

\* It ends before that.
FormatExits(d) ==
  /\ container[d] = "running" /\ Failure("exit")
  /\ container' = [container EXCEPT ![d] = "none"]
  /\ UNCHANGED <<database, uuid, mounted, fstab, pool, homes, jobs, job, commits, locals>>

\* After a reboot what /etc/fstab says is mounted, and nothing else.
Reboot(h) ==
  /\ ~ Busy /\ Failure("reboot")
  /\ mounted' = [d \in Disk |->
       IF d[1] # h THEN mounted[d]
       ELSE LET lines == {line \in fstab[h] : line[1] = d /\ line[2] = uuid[d]}
            IN IF lines = {} THEN None ELSE (CHOOSE line \in lines : TRUE)[3]]
  /\ container' = [d \in Disk |-> IF d[1] = h /\ container[d] = "running" THEN "none" ELSE container[d]]
  /\ UNCHANGED <<database, uuid, fstab, pool, homes, jobs, job, commits, locals>>

\* The data directory on the host, which docker binds into the container,
\* belongs to the file system of e.
OnHost(s, e) == e[1] = s.host /\ mounted[e] # None /\ mounted[e] = s.dataDir

\* With a record, the data can be on the file system with the recorded UUID.
Holds(s, d, e) == IF disk[d].service THEN e = d /\ uuid[d] = disk[d].uri ELSE OnHost(s, e)

\* NewCreateContainerTask: without any record the data directory is bound as it
\* is; else all records of it are marked, also for a service that exists, and
\* the first of them tells how its data is kept.  The task fails after that, or
\* the data comes to be on no disk, or on one.
BindDisk(s) ==
  /\ ~ Busy
  /\ LET ds == {d \in DOMAIN disk : d[1] = s.host /\ disk[d].mount = s.dataDir}
         Takes(e) == IF disk = << >> THEN OnHost(s, e) ELSE \E d \in ds : Holds(s, d, e)
     IN /\ disk' = [d \in DOMAIN disk |-> IF d \in ds THEN [disk[d] EXCEPT !.owner = s.id] ELSE disk[d]]
        /\ \/ UNCHANGED home
           \/ home[s] = NoDisk /\ \E e \in Disk : Takes(e) /\ home' = [home EXCEPT ![s] = e]
        /\ marked' = IF ds # {} /\ home'[s] # NoDisk THEN marked \cup {s} ELSE marked
  /\ UNCHANGED <<disks, host, job, jobs, commits, locals, faults>>

\* CleanDiskChunkServerId finds the records by the service, but unmarks what
\* has their mount points.
Unmarked(s, d) ==
  \E e \in DOMAIN disk : disk[e].owner = s.id /\ d[1] = e[1] /\ disk[d].mount = disk[e].mount

\* The service is cleaned: it gives its data up.
CleanDiskChunkServerId(s) ==
  /\ ~ Busy
  /\ disk' = [d \in DOMAIN disk |-> IF Unmarked(s, d) THEN [disk[d] EXCEPT !.owner = None] ELSE disk[d]]
  /\ home' = [home EXCEPT ![s] = NoDisk] /\ marked' = marked \ {s}
  /\ UNCHANGED <<disks, host, job, jobs, commits, locals, faults>>

CommitStep == WriteDiskRecord \/ DeleteDiskRecord \/ SetDisks

Next ==
  \/ \E n \in DOMAIN Files : Commit(n)
  \/ CommitStep \/ CommitFails
  \/ \E cmd \in FormatCommand : RunFormat(cmd)
  \/ FormatEnds \/ Crash
  \/ \E d \in Disk : Step(d) \/ StepFails(d) \/ Fill(d) \/ FormatExits(d)
  \/ \E h \in Host : Reboot(h)
  \/ \E s \in Server : BindDisk(s) \/ CleanDiskChunkServerId(s)

\* curveadm goes on while it runs.
Fairness ==
  /\ WF_vars(CommitStep) /\ WF_vars(FormatEnds)
  /\ \A d \in Disk : WF_vars(Step(d))

Spec == Init /\ [][Next]_vars /\ Fairness

-----------------------------------------------------------------------------
(* Properties. *)

TaskStep == {"list", "umount", "mkfs", "mount", "blkid", "fstab", "delRead", "delWrite",
             "addRead", "addWrite", "record", "create", "start", "ps", "df",
             "empty", "partial", "full"}

RecordType == [mount : Mount, service : BOOLEAN, uri : Uuid \cup {None},
               owner : {s.id : s \in Server} \cup {None}]
Line == Disk \X Uuid \X Mount

DatabaseType ==
  /\ DOMAIN disk \subseteq Disk /\ \A d \in DOMAIN disk : disk[d] \in RecordType
  /\ disks \in DOMAIN Files \cup {None}

HostType ==
  /\ uuid \in [Disk -> Uuid \cup {None}] /\ mounted \in [Disk -> Mount \cup {None}]
  /\ fstab \in [Host -> SUBSET Line]
  /\ container \in [Disk -> {"none", "created", "running"}]
  /\ pool \in [Disk -> {"empty", "partial", "full"}]

HomeType == home \in [Server -> Disk \cup {NoDisk}] /\ marked \subseteq Server

JobType ==
  /\ job \in [cmd : FormatCommand \cup {"commit", "none"}, on : SUBSET Disk,
              file : DOMAIN Files \cup {None}, result : {"none", "running", "ok", "error", "crash"}]
  /\ towrite \subseteq Disk /\ todelete \subseteq Disk
  /\ faults \in 0 .. MaxFaults

TaskType ==
  /\ at \in [Disk -> TaskStep \cup Ended] /\ old \in [Disk -> Uuid \cup {None}]
  /\ copy \in [Disk -> SUBSET Line] /\ lock \in Disk \cup {NoDisk}
  /\ shown \in [Disk -> {"none", "Mounting", "Formatting", "Pulling image", "Done"}]

\* Type invariant.
TypeOK == DatabaseType /\ HostType /\ HomeType /\ JobType /\ TaskType

\* Where the files put a disk.
MountsOf(d) ==
  {NewRecords[n][d].mount : n \in {n \in DOMAIN Files : d \in DOMAIN NewRecords[n]}}
  \cup (IF d \in FormatDisks THEN {FormatMount(d)} ELSE {})

\* All files put the same disk at the data directory of the service, always
\* put it there, and no other service has the directory.
Kept(s) ==
  /\ \A d, e \in Disk :
       d[1] = s.host /\ e[1] = s.host /\ s.dataDir \in MountsOf(d) =>
         /\ MountsOf(d) = {s.dataDir}
         /\ s.dataDir \in MountsOf(e) => d = e
  /\ \A t \in Server : t.host = s.host /\ t.dataDir = s.dataDir => t = s

\* Once a deploy has marked a record for a chunkserver with data, no file
\* system is made on the disk that the data is on, whatever is committed, bound,
\* cleaned and formatted afterwards, and wherever a commit breaks off, if the
\* operator does not move its directory from disk to disk.  (Data that came to
\* its disk without a record, when the disk table was empty, has no such guard:
\* format destroys it, with format.yaml, or with the records committed since.)
DataSafe ==
  [][\A d \in Disk : uuid'[d] # uuid[d] =>
       \A s \in marked : Kept(s) => home[s] # d]_vars

\* What a format that ends well leaves: the disk is mounted where its record
\* says and will be after a reboot, or its record has the UUID that the
\* container of its chunkserver will mount.
Ready(d) ==
  IF ServiceMountDevice(d) THEN disk[d].uri = uuid[d]
  ELSE /\ mounted[d] = MountPoint(d) /\ <<d, uuid[d], mounted[d]>> \in fstab[d[1]]
       /\ FromDiskRecord(d) => disk[d].uri = uuid[d]

\* A format that ends well leaves all the disks it has formatted ready, and
\* ready after a reboot, though the tasks of one host edit its fstab at the
\* same time, and whatever failed attempt or other file came before.
OkMeansReady ==
  job.cmd = "format" /\ job.result = "ok" => \A d \in job.on : Ready(d)

\* A disk that `format --status` calls done has its chunkfile pool filled on
\* the file system it has now, though the container that fills it may end, or
\* a reboot end it, between the two looks that the status is made from.
DoneMeansFilled == \A d \in Disk : shown[d] = "Done" => pool[d] = "full"

\* Every command ends, though its tasks wait for each other to edit fstab.
CommandEnds == Busy ~> ~ Busy

=============================================================================
