------------------------------- MODULE DisksProofs -------------------------------
(***************************************************************************)
(* Proofs about the disks (module Disks), for any files of disks and any   *)
(* format.yaml, any chunkservers and any number of failures.               *)
(*                                                                         *)
(* The inductive invariant joins what each task has achieved to what the   *)
(* others leave alone. Locked: whoever edits an fstab holds memStorage, so *)
(* what its sed has read is still what the file says when it is written    *)
(* back. Progress: the UUID that mkfs has made is new, so no line of fstab *)
(* has it until this task adds one, with the mount of the disk. Prepared:  *)
(* such a disk stays ready between commands, and a reboot finds the one    *)
(* line there is. Homed: the data of a chunkserver is on a disk whose      *)
(* record has the data directory and the chunkserver's id, for the         *)
(* chunkservers whose directory the files put at one disk only (Kept).     *)
(* Tasked: a task works on a disk whose record is unmarked, and nothing    *)
(* marks records while a command runs.                                     *)
(***************************************************************************)
EXTENDS Disks, TLAPS

-----------------------------------------------------------------------------
(* The invariant. *)

\* The steps that hold memStorage.
Editing == {"delRead", "delWrite", "addRead", "addWrite"}
\* The steps of a format after the mount, and after fstab.
Mounted == {"record", "create", "start", "ok"}

\* A disk that runFormat may take: its record is unmarked, or there is none.
Formattable(d) == IF d \in DOMAIN disk THEN Unbound(d) ELSE d \in FormatDisks

\* The steps of a command (a superset for `format --stop`).
StepsOf(cmd) ==
  CASE cmd = "format" -> {"list", "umount", "mkfs", "mount", "fstab"} \cup Editing \cup Mounted
                           \cup {"skip", "error"}
    [] cmd = "stop"   -> {"blkid", "fstab", "ps", "umount"} \cup Editing \cup Mounted \cup {"error"}
    [] cmd = "status" -> {"df", "empty", "partial", "full", "ok", "error"}

\* A disk has a task only while a format command runs, at a step of that command, and
\* its record stays unmarked.
Tasked ==
  \A d \in Disk : at[d] # "none" =>
    /\ Busy /\ job.cmd \in FormatCommand
    /\ Formattable(d)
    /\ at[d] \in StepsOf(job.cmd)

\* What a commit has left to write is in its file.
Committing ==
  job.cmd = "commit" => job.file \in DOMAIN Files /\ towrite \subseteq DOMAIN NewRecords[job.file]

\* Lines of fstab mount their disk where some file puts it.
InPlace(lines) == \A line \in lines : line[3] \in MountsOf(line[1])

\* Records, mounts, fstab and the copies of it put each disk where some file puts it.
Placed ==
  /\ \A d \in DOMAIN disk : disk[d].mount \in MountsOf(d)
  /\ \A d \in Disk : mounted[d] \in MountsOf(d) \cup {None} /\ InPlace(copy[d])
  /\ \A h \in Host : InPlace(fstab[h])

\* A chunkserver that is kept at one disk has its data there; once a deploy has marked
\* a record for it, that disk has a record with its directory and its id.
Homed ==
  /\ \A s \in marked : home[s] # NoDisk
  /\ \A s \in Server : Kept(s) /\ home[s] # NoDisk =>
       /\ home[s][1] = s.host /\ s.dataDir \in MountsOf(home[s])
       /\ s \in marked => /\ home[s] \in DOMAIN disk
                          /\ disk[home[s]].mount = s.dataDir /\ disk[home[s]].owner = s.id

\* A task at the lines of fstab holds memStorage, and what it has read is what the
\* file says.
Locked ==
  \A d \in Disk :
    /\ at[d] \in Editing => lock = d /\ uuid[d] # None
    /\ at[d] \in {"delWrite", "addWrite"} => copy[d] = fstab[d[1]]

\* The lines of fstab with the file system that the disk has now.
Lines(d) == {line \in fstab[d[1]] : line[1] = d /\ line[2] = uuid[d]}

\* They mount it where it is.
OneLine(d) == \A line \in Lines(d) : line[3] = mounted[d]

\* What the task of a format has achieved by the step it is at.
Progress(d) ==
  /\ at[d] \in {"mount", "fstab"} \cup Editing => Lines(d) = {}
  /\ at[d] \in {"mount", "fstab"} \cup Mounted => uuid[d] # None
  /\ at[d] \in {"fstab"} \cup Editing \cup Mounted => mounted[d] = MountPoint(d)
  /\ at[d] \in {"fstab"} \cup Editing => ~ ServiceMountDevice(d)
  /\ at[d] = "record" => FromDiskRecord(d)
  /\ at[d] \in Mounted /\ ~ ServiceMountDevice(d) =>
       <<d, uuid[d], mounted[d]>> \in fstab[d[1]] /\ OneLine(d)
  /\ at[d] \in {"create", "start", "ok"} /\ FromDiskRecord(d) => disk[d].uri = uuid[d]

\* All tasks of a format have.
Formatted == job.cmd = "format" => \A d \in Disk : Progress(d)

\* Ready, also after a reboot.
ReadyForGood(d) == Ready(d) /\ (~ ServiceMountDevice(d) => OneLine(d))

\* After a format that ended well, its disks are ready, until the next command.
Prepared ==
  job.cmd = "format" /\ job.result = "ok" =>
    \A d \in job.on : ReadyForGood(d)

\* A task of `format --status` that found the file system full, and a disk that it shows
\* as done: the chunkfile pool is filled.
Watched ==
  \A d \in Disk :
    /\ shown[d] # "none" => job.cmd = "status"
    /\ at[d] = "full" \/ shown[d] = "Done" => pool[d] = "full"

\* The inductive invariant.
DisksIInv ==
  /\ TypeOK /\ Tasked /\ Committing /\ Placed /\ Homed
  /\ Locked /\ Formatted /\ Prepared /\ Watched

-----------------------------------------------------------------------------
(* The files, the records and the mounts. *)

\* The records that a commit writes are about the disks of the file, and have one of the
\* mounts that the files give.
LEMMA RecordsTyped ==
  /\ \A n \in DOMAIN Files : DOMAIN NewRecords[n] \subseteq Disk /\ FileDisks(Files[n]) \subseteq Disk
  /\ \A n \in DOMAIN Files : \A d \in DOMAIN NewRecords[n] :
       NewRecords[n][d] \in [mount : Mount, service : BOOLEAN] /\ NewRecords[n][d].mount \in MountsOf(d)
<1>1. \A n \in DOMAIN Files : DOMAIN NewRecords[n] = FileDisks(Files[n])
  BY DEF NewRecords
<1>2. ASSUME NEW n \in DOMAIN Files, NEW d \in FileDisks(Files[n])
      PROVE  NewRecords[n][d] \in [mount : Mount, service : BOOLEAN]
  <2>1. NewRecords[n][d] = FileRecord(Files[n], d)
    BY <1>2 DEF NewRecords
  <2>2. EntryOf(Files[n], d) \in DOMAIN Files[n]
    BY <1>2 DEF FileDisks, EntryOf
  <2>3. Files[n][EntryOf(Files[n], d)].mount \in Mount
    <3>. DEFINE i == EntryOf(Files[n], d)
    <3>1. i \in DOMAIN Files[n]
      BY <2>2
    <3>. HIDE DEF i
    <3>2. Files[n][i].mount \in {Files[n][k].mount : k \in DOMAIN Files[n]}
      BY <3>1
    <3>3. Files[n][i].mount \in UNION {{Files[m][k].mount : k \in DOMAIN Files[m]} : m \in DOMAIN Files}
      BY <3>2
    <3>. QED
      BY <3>3 DEF Mount, i
  <2>4. ServiceMount(Files[n], d) \in BOOLEAN
    BY DEF ServiceMount
  <2>. QED
    BY <2>1, <2>3, <2>4 DEF FileRecord
<1>3. ASSUME NEW n \in DOMAIN Files, NEW d \in DOMAIN NewRecords[n]
      PROVE  NewRecords[n][d].mount \in MountsOf(d)
  BY <1>3 DEF MountsOf
<1>. QED
  BY <1>1, <1>2, <1>3 DEF Disk

\* So have the disks of format.yaml.
LEMMA FormatTyped ==
  ASSUME NEW d \in FormatDisks
  PROVE  FormatMount(d) \in Mount /\ FormatMount(d) \in MountsOf(d) /\ d \in Disk
<1>1. \E x \in FormatFile.disks : x[1] = d[2]
  BY DEF FormatDisks
<1>2. PICK x \in FormatFile.disks : FormatMount(d) = x[2]
  BY <1>1 DEF FormatMount
<1>3. FormatMount(d) \in MountsOf(d)
  BY DEF MountsOf
<1>4. x[2] \in {y[2] : y \in FormatFile.disks}
  OBVIOUS
<1>5. x[2] \in Mount
  BY <1>4 DEF Mount
<1>6. d \in Disk
  BY Zenon DEF Disk
<1>. QED
  BY <1>2, <1>3, <1>5, <1>6

\* The mounts of a disk are mounts, and never None.
LEMMA MountsTyped ==
  /\ \A d \in Disk : MountsOf(d) \subseteq Mount /\ d[1] \in Host
  /\ None \notin Mount
<1>1. ASSUME NEW d \in Disk, NEW m \in MountsOf(d)
      PROVE  m \in Mount
  <2>1. CASE \E n \in DOMAIN Files : d \in DOMAIN NewRecords[n] /\ m = NewRecords[n][d].mount
    BY <2>1, RecordsTyped
  <2>2. CASE d \in FormatDisks /\ m = FormatMount(d)
    BY <2>2, FormatTyped
  <2>. QED
    BY <1>1, <2>1, <2>2 DEF MountsOf
<1>. QED
  BY <1>1, DisksNameAssumption DEF Host

\* A disk that is formatted is mounted where some file puts it, by its record or by
\* format.yaml.
LEMMA MountPointTyped ==
  ASSUME NEW d \in Disk, Formattable(d), \A e \in DOMAIN disk : disk[e].mount \in MountsOf(e)
  PROVE  MountPoint(d) \in MountsOf(d) /\ MountPoint(d) \in Mount
<1>1. MountPoint(d) \in MountsOf(d)
  BY FormatTyped DEF MountPoint, FromDiskRecord, Formattable
<1>. QED
  BY <1>1, MountsTyped

\* The disks of a format command are disks that it may take.
LEMMA Configured ==
  ASSUME NEW d \in FormatConfigs, DOMAIN disk \subseteq Disk
  PROVE  d \in Disk /\ Formattable(d)
BY FormatTyped DEF FormatConfigs, Formattable

-----------------------------------------------------------------------------
(* The steps of a task. *)

\* What every step of the task of d does: it goes to a step of the same command, and
\* touches the lock only to take or to release it.
TaskGoes(d) ==
  /\ \E next \in StepsOf(job.cmd) : at' = [at EXCEPT ![d] = next]
  /\ lock' \in {lock, d, NoDisk}
  /\ UNCHANGED <<disks, homes, jobs, job, commits>>
  /\ faults' \in 0 .. MaxFaults

\* The steps of a command are steps, and its tasks may fail.
LEMMA ErrorIsStep ==
  \A cmd \in FormatCommand :
    "error" \in StepsOf(cmd) /\ StepsOf(cmd) \subseteq TaskStep \cup Ended
BY DEF FormatCommand, StepsOf, TaskStep, Ended, Editing, Mounted

\* A step that proceeds, with its reply or without it, does that.
LEMMA ProceedGoes ==
  ASSUME NEW d \in Disk, NEW next \in StepsOf(job.cmd),
         job.cmd \in FormatCommand, faults \in 0 .. MaxFaults,
         Proceed(d, next), UNCHANGED <<disks, homes, jobs, job, commits>>
  PROVE  TaskGoes(d)
BY ErrorIsStep, DisksFaultAssumption DEF Proceed, TaskGoes, Failure, Goto, Released

\* Every step and every failure of a task does, and belongs to the command that runs.
LEMMA StepGoes ==
  ASSUME DisksIInv, NEW d \in Disk, Step(d) \/ StepFails(d)
  PROVE  TaskGoes(d) /\ at[d] # "none" /\ at[d] \in StepsOf(job.cmd) /\ job.cmd \in FormatCommand /\ Busy
<1>0. /\ faults \in 0 .. MaxFaults
      /\ at[d] # "none" => at[d] \in StepsOf(job.cmd) /\ job.cmd \in FormatCommand /\ Busy
  BY DEF DisksIInv, TypeOK, JobType, Tasked
<1>. USE <1>0 DEF Same, commits, FormatCommand
<1>1. CASE ListContainers(d)
  <2>1. job.cmd = "format"
    BY <1>1 DEF ListContainers, StepsOf, Editing, Mounted
  <2>. QED
    BY <1>1, <2>1 DEF ListContainers, TaskGoes, StepsOf, Goto, Released
<1>2. CASE UmountFilesystem(d)
  <2>1. at[d] = "umount" /\ job.cmd \in {"format", "stop"}
    BY <1>2 DEF UmountFilesystem, StepsOf, Editing, Mounted
  <2>2. (IF job.cmd = "format" THEN "mkfs" ELSE "ok") \in StepsOf(job.cmd)
    BY <2>1 DEF StepsOf, Mounted
  <2>. QED
    BY <1>2, <2>1, <2>2, ProceedGoes DEF UmountFilesystem
<1>3. CASE CreateFilesystem(d)
  <2>1. at[d] = "mkfs" /\ job.cmd = "format" /\ "mount" \in StepsOf(job.cmd)
    BY <1>3 DEF CreateFilesystem, StepsOf, Editing, Mounted
  <2>. QED
    BY <1>3, <2>1, ProceedGoes DEF CreateFilesystem
<1>4. CASE MountFilesystem(d)
  <2>1. at[d] = "mount" /\ job.cmd = "format"
    BY <1>4 DEF MountFilesystem, StepsOf, Editing, Mounted
  <2>2. (IF ServiceMountDevice(d) THEN AfterFstab(d) ELSE "fstab") \in StepsOf(job.cmd)
    BY <2>1 DEF StepsOf, Mounted, AfterFstab
  <2>. QED
    BY <1>4, <2>1, <2>2, ProceedGoes DEF MountFilesystem
<1>5. CASE ListBlockDevice(d)
  <2>1. at[d] = "blkid" /\ job.cmd = "stop"
    BY <1>5 DEF ListBlockDevice, StepsOf, Editing, Mounted
  <2>. QED
    BY <1>5, <2>1 DEF ListBlockDevice, TaskGoes, StepsOf, Goto, Released
<1>6. CASE EditFSTab(d)
  <2>1. at[d] = "fstab" /\ job.cmd \in {"format", "stop"}
    BY <1>6 DEF EditFSTab, StepsOf, Editing, Mounted
  <2>2. {"error", "delRead", "addRead"} \subseteq StepsOf(job.cmd)
    BY <2>1 DEF StepsOf, Editing
  <2>. QED
    BY <1>6, <2>1, <2>2 DEF EditFSTab, TaskGoes
<1>7. CASE SedRead(d)
  <2>1. at[d] \in {"delRead", "addRead"} /\ job.cmd \in {"format", "stop"}
    BY <1>7 DEF SedRead, StepsOf, Editing, Mounted
  <2>2. {"delWrite", "addWrite"} \subseteq StepsOf(job.cmd)
    BY <2>1 DEF StepsOf, Editing
  <2>. QED
    BY <1>7, <2>1, <2>2 DEF SedRead, TaskGoes, Goto, Released
<1>8. CASE SedDelete(d)
  <2>1. at[d] = "delWrite" /\ job.cmd \in {"format", "stop"}
    BY <1>8 DEF SedDelete, StepsOf, Editing, Mounted
  <2>2. (IF job.cmd = "format" THEN "addRead" ELSE "ps") \in StepsOf(job.cmd)
    BY <2>1 DEF StepsOf, Editing
  <2>. QED
    BY <1>8, <2>1, <2>2, ProceedGoes DEF SedDelete
<1>9. CASE SedAdd(d)
  <2>1. at[d] = "addWrite" /\ job.cmd \in {"format", "stop"}
    BY <1>9 DEF SedAdd, StepsOf, Editing, Mounted
  <2>2. AfterFstab(d) \in StepsOf(job.cmd)
    BY <2>1 DEF StepsOf, Mounted, AfterFstab
  <2>. QED
    BY <1>9, <2>1, <2>2, ProceedGoes DEF SedAdd
<1>10. CASE UpdateDiskSizeUri(d)
  <2>1. at[d] = "record" /\ job.cmd \in {"format", "stop"}
    BY <1>10 DEF UpdateDiskSizeUri, StepsOf, Editing, Mounted
  <2>. QED
    BY <1>10, <2>1 DEF UpdateDiskSizeUri, TaskGoes, Goto, Released, StepsOf, Mounted
<1>11. CASE CreateContainer(d)
  <2>1. at[d] = "create" /\ job.cmd \in {"format", "stop"}
    BY <1>11 DEF CreateContainer, StepsOf, Editing, Mounted
  <2>2. "start" \in StepsOf(job.cmd)
    BY <2>1 DEF StepsOf, Mounted
  <2>. QED
    BY <1>11, <2>1, <2>2, ProceedGoes DEF CreateContainer
<1>12. CASE StartContainer(d)
  <2>1. at[d] = "start" /\ job.cmd \in {"format", "stop"}
    BY <1>12 DEF StartContainer, StepsOf, Editing, Mounted
  <2>2. "ok" \in StepsOf(job.cmd)
    BY <2>1 DEF StepsOf, Mounted
  <2>. QED
    BY <1>12, <2>1, <2>2, ProceedGoes DEF StartContainer
<1>13. CASE StopContainer(d)
  <2>1. at[d] = "ps" /\ job.cmd = "stop" /\ "umount" \in StepsOf(job.cmd)
    BY <1>13 DEF StopContainer, StepsOf, Editing, Mounted
  <2>. QED
    BY <1>13, <2>1, ProceedGoes DEF StopContainer
<1>14. CASE ShowDiskFree(d)
  <2>1. at[d] = "df" /\ job.cmd = "status"
    BY <1>14 DEF ShowDiskFree, StepsOf, Editing, Mounted
  <2>2. (IF mounted[d] = None THEN "empty" ELSE pool[d]) \in StepsOf(job.cmd)
    BY <2>1 DEF StepsOf, DisksIInv, TypeOK, HostType
  <2>. QED
    BY <1>14, <2>1, <2>2 DEF ShowDiskFree, TaskGoes, Goto, Released
<1>15. CASE ShowStatus(d)
  <2>1. at[d] \in {"empty", "partial", "full"} /\ job.cmd = "status"
    BY <1>15 DEF ShowStatus, StepsOf, Editing, Mounted
  <2>. QED
    BY <1>15, <2>1 DEF ShowStatus, TaskGoes, Goto, Released, StepsOf, database
<1>16. CASE StepFails(d)
  <2>1. at[d] # "none" /\ "error" \in StepsOf(job.cmd)
    BY <1>16, ErrorIsStep DEF StepFails, Ended
  <2>. QED
    <3>1. at' = [at EXCEPT ![d] = "error"] /\ lock' \in {lock, d, NoDisk}
      BY <1>16 DEF StepFails, Goto, Released
    <3>2. UNCHANGED <<disks, homes, jobs, job, commits>> /\ faults' \in 0 .. MaxFaults
      BY <1>16, DisksFaultAssumption DEF StepFails, database, Failure
    <3>. QED
      BY <2>1, <3>1, <3>2 DEF TaskGoes
<1>. QED
  BY <1>1, <1>2, <1>3, <1>4, <1>5, <1>6, <1>7, <1>8, <1>9, <1>10, <1>11, <1>12, <1>13, <1>14,
     <1>15, <1>16 DEF Step

-----------------------------------------------------------------------------
(* Types, and where a command is. *)

\* Every step preserves the type of the database.
LEMMA DatabaseTypePreserved ==
  ASSUME DisksIInv, [Next]_vars
  PROVE  DatabaseType'
<1>. USE DEF vars, database, host, homes, locals, commits, Same, Busy
<1>a. DatabaseType /\ HostType /\ JobType /\ Committing
  BY DEF DisksIInv, TypeOK
<1>1. ASSUME WriteDiskRecord
      PROVE  DatabaseType'
  <2>1. PICK d \in towrite :
              disk' = [e \in DOMAIN disk \cup {d} |->
                         IF e = d THEN SetDisk(d, NewRecords[job.file][d]) ELSE disk[e]]
    BY <1>1 DEF WriteDiskRecord
  <2>2. d \in Disk /\ job.file \in DOMAIN Files /\ d \in DOMAIN NewRecords[job.file]
    BY <1>a, <1>1 DEF WriteDiskRecord, JobType, Committing
  <2>3. SetDisk(d, NewRecords[job.file][d]) \in RecordType
    BY <1>a, <2>2, RecordsTyped DEF SetDisk, RecordType, DatabaseType
  <2>4. disks' \in DOMAIN Files \cup {None}
    BY <1>a, <1>1 DEF WriteDiskRecord, DatabaseType
  <2>. QED
    BY <1>a, <2>1, <2>2, <2>3, <2>4 DEF DatabaseType
<1>2. ASSUME DeleteDiskRecord
      PROVE  DatabaseType'
  BY <1>a, <1>2 DEF DatabaseType, RecordType, JobType, Committing, DeleteDiskRecord, First,
     Finish, End
<1>3. ASSUME SetDisks
      PROVE  DatabaseType'
  BY <1>a, <1>3 DEF DatabaseType, RecordType, JobType, Committing, SetDisks, Finish, End
<1>4. ASSUME NEW d \in Disk, UpdateDiskSizeUri(d)
      PROVE  DatabaseType'
  <2>1. disk' = [disk EXCEPT ![d].uri = uuid[d]] /\ disks' = disks
    BY <1>4 DEF UpdateDiskSizeUri, RecordedUuid
  <2>. QED
    BY <1>a, <2>1 DEF DatabaseType, HostType, RecordType
<1>5. ASSUME NEW s \in Server, BindDisk(s)
      PROVE  DatabaseType'
  BY <1>a, <1>5 DEF DatabaseType, RecordType, JobType, Committing, BindDisk
<1>6. ASSUME NEW s \in Server, CleanDiskChunkServerId(s)
      PROVE  DatabaseType'
  BY <1>a, <1>6 DEF DatabaseType, RecordType, JobType, Committing, CleanDiskChunkServerId
<1>7. CASE UNCHANGED <<disk, disks>>
  BY <1>a, <1>7 DEF DatabaseType, RecordType, JobType, Committing
<1>. QED
  BY <1>1, <1>2, <1>3, <1>4, <1>5, <1>6, <1>7 DEF Next, CommitStep, Step, Commit,
     CommitFails, RunFormat, FormatEnds, Crash, ListContainers, UmountFilesystem,
     CreateFilesystem, MountFilesystem, ListBlockDevice, EditFSTab, SedRead, SedDelete, SedAdd,
     CreateContainer, StartContainer, StopContainer, ShowDiskFree, ShowStatus, StepFails, Fill,
     FormatExits, Reboot

\* Every step preserves the types of the state of the hosts: what a task mounts or adds to
\* fstab has a mount of its record or of format.yaml.
LEMMA HostTypePreserved ==
  ASSUME DisksIInv, [Next]_vars
  PROVE  HostType'
<1>. USE DEF vars, database, host, homes, locals, commits, Same, Busy
<1>a. HostType /\ Placed /\ Locked /\ TaskType /\ Tasked
  BY DEF DisksIInv, TypeOK
<1>1. ASSUME NEW d \in Disk, UmountFilesystem(d)
      PROVE  HostType'
  BY <1>a, <1>1 DEF HostType, UmountFilesystem, Proceed, Goto, Failure, Released
<1>2. ASSUME NEW d \in Disk, CreateFilesystem(d)
      PROVE  HostType'
  BY <1>a, <1>2 DEF HostType, CreateFilesystem, Proceed, Goto, Failure, Released, FreshUuids
<1>3. ASSUME NEW d \in Disk, MountFilesystem(d)
      PROVE  HostType'
  <2>1. MountPoint(d) \in Mount
    <3>1. Formattable(d)
      BY <1>a, <1>3 DEF MountFilesystem, Tasked
    <3>. QED
      BY <1>a, <3>1, MountPointTyped DEF Placed
  <2>. QED
    BY <1>a, <1>3, <2>1 DEF HostType, MountFilesystem
<1>4. ASSUME NEW d \in Disk, SedDelete(d)
      PROVE  HostType'
  <2>1. /\ d[1] \in Host
        /\ fstab' = [fstab EXCEPT ![d[1]] = {line \in copy[d] : line[1] # d \/ line[2] # old[d]}]
    BY <1>4, MountsTyped DEF SedDelete
  <2>2. {line \in copy[d] : line[1] # d \/ line[2] # old[d]} \in SUBSET Line
    BY <1>a DEF TaskType
  <2>3. fstab' \in [Host -> SUBSET Line]
    BY <1>a, <2>1, <2>2 DEF HostType
  <2>. QED
    BY <1>a, <1>4, <2>3 DEF HostType, SedDelete
<1>5. ASSUME NEW d \in Disk, SedAdd(d)
      PROVE  HostType'
  <2>1. d[1] \in Host /\ fstab' = [fstab EXCEPT ![d[1]] = copy[d] \cup {<<d, uuid[d], MountPoint(d)>>}]
    BY <1>5, MountsTyped DEF SedAdd
  <2>2. Formattable(d) /\ uuid[d] \in Uuid
    BY <1>a, <1>5 DEF SedAdd, Tasked, Locked, Editing, HostType
  <2>3. MountPoint(d) \in Mount
    BY <1>a, <2>2, MountPointTyped DEF Placed
  <2>4. copy[d] \cup {<<d, uuid[d], MountPoint(d)>>} \in SUBSET Line
    <3>1. <<d, uuid[d], MountPoint(d)>> \in Line
      BY <2>2, <2>3 DEF Line
    <3>2. copy[d] \in SUBSET Line
      BY <1>a DEF TaskType
    <3>. QED
      BY <3>1, <3>2
  <2>5. fstab' \in [Host -> SUBSET Line]
    BY <1>a, <2>1, <2>4 DEF HostType
  <2>. QED
    BY <1>a, <1>5, <2>5 DEF HostType, SedAdd
<1>6. ASSUME NEW d \in Disk, CreateContainer(d)
      PROVE  HostType'
  BY <1>a, <1>6 DEF HostType, CreateContainer, Proceed, Goto, Failure, Released
<1>7. ASSUME NEW d \in Disk, StartContainer(d)
      PROVE  HostType'
  BY <1>a, <1>7 DEF HostType, StartContainer, Proceed, Goto, Failure, Released
<1>8. ASSUME NEW d \in Disk, StopContainer(d)
      PROVE  HostType'
  BY <1>a, <1>8 DEF HostType, StopContainer, Proceed, Goto, Failure, Released
<1>9. ASSUME NEW d \in Disk, Fill(d)
      PROVE  HostType'
  BY <1>a, <1>9 DEF HostType, Fill
<1>10. ASSUME NEW d \in Disk, FormatExits(d)
      PROVE  HostType'
  BY <1>a, <1>10 DEF HostType, FormatExits, Failure
<1>11. ASSUME NEW h \in Host, Reboot(h)
      PROVE  HostType'
  <2>1. ASSUME NEW d \in Disk, d[1] = h, NEW line \in fstab[h]
        PROVE  line[3] \in Mount
    BY <1>a DEF HostType, Line
  <2>. DEFINE lines(d) == {line \in fstab[h] : line[1] = d /\ line[2] = uuid[d]}
  <2>2. ASSUME NEW d \in Disk
        PROVE  mounted'[d] \in Mount \cup {None}
    <3>1. CASE d[1] # h
      BY <1>a, <1>11, <3>1 DEF Reboot, HostType
    <3>2. CASE d[1] = h /\ lines(d) = {}
      BY <1>11, <3>2 DEF Reboot
    <3>3. CASE d[1] = h /\ lines(d) # {}
      <4>1. (CHOOSE line \in lines(d) : TRUE) \in fstab[h]
        BY <3>3
      <4>2. mounted'[d] = (CHOOSE line \in lines(d) : TRUE)[3]
        BY <1>11, <3>3 DEF Reboot
      <4>. QED
        BY <2>1, <3>3, <4>1, <4>2
    <3>. QED
      BY <3>1, <3>2, <3>3
  <2>3. mounted' \in [Disk -> Mount \cup {None}]
    <3>1. mounted' = [d \in Disk |-> mounted'[d]]
      BY <1>11 DEF Reboot
    <3>. QED
      BY <2>2, <3>1
  <2>. QED
    BY <1>a, <1>11, <2>3 DEF HostType, Reboot
<1>12. CASE UNCHANGED <<host>>
  BY <1>a, <1>12 DEF HostType
<1>. QED
  BY <1>1, <1>2, <1>3, <1>4, <1>5, <1>6, <1>7, <1>8, <1>9, <1>10, <1>11, <1>12 DEF Next,
     CommitStep, Step, Commit, WriteDiskRecord, DeleteDiskRecord, SetDisks, CommitFails,
     RunFormat, FormatEnds, Crash, ListContainers, ListBlockDevice, EditFSTab, SedRead,
     UpdateDiskSizeUri, ShowDiskFree, ShowStatus, StepFails, BindDisk, CleanDiskChunkServerId

\* Every step preserves the type of the command.
LEMMA JobTypePreserved ==
  ASSUME DisksIInv, [Next]_vars
  PROVE  JobType'
<1>. USE DEF vars, database, host, homes, locals, commits, Same, Busy
<1>a. JobType /\ TaskType
  BY DEF DisksIInv, TypeOK
<1>1. ASSUME NEW d \in Disk, Step(d) \/ StepFails(d)
      PROVE  JobType'
  BY <1>a, <1>1, StepGoes DEF TaskGoes, JobType
<1>2. ASSUME NEW n \in DOMAIN Files, Commit(n)
      PROVE  JobType'
  <2>1. /\ FileDisks(Files[n]) \in SUBSET Disk /\ DOMAIN NewRecords[n] \in SUBSET Disk
        /\ DOMAIN disk \in SUBSET Disk
    BY RecordsTyped DEF DisksIInv, TypeOK, DatabaseType
  <2>. QED
    BY <1>a, <1>2, <2>1 DEF JobType, Commit, Begin
<1>3. ASSUME WriteDiskRecord
      PROVE  JobType'
  BY <1>a, <1>3, RecordsTyped, DisksFaultAssumption DEF JobType, FormatCommand,
     WriteDiskRecord, First
<1>4. ASSUME DeleteDiskRecord
      PROVE  JobType'
  BY <1>a, <1>4, RecordsTyped, DisksFaultAssumption DEF JobType, FormatCommand,
     DeleteDiskRecord, First, Finish, End
<1>5. ASSUME SetDisks
      PROVE  JobType'
  BY <1>a, <1>5, RecordsTyped, DisksFaultAssumption DEF JobType, FormatCommand, SetDisks,
     Finish, End
<1>6. ASSUME CommitFails
      PROVE  JobType'
  <2>1. faults' \in 0 .. MaxFaults /\ Finish("error")
    BY <1>a, <1>6, DisksFaultAssumption DEF CommitFails, Failure, JobType
  <2>. QED
    BY <1>a, <2>1 DEF JobType, Finish, End
<1>7. ASSUME NEW cmd \in FormatCommand, RunFormat(cmd)
      PROVE  JobType'
  <2>1. FormatConfigs \in SUBSET Disk
    BY Configured DEF DisksIInv, TypeOK, DatabaseType
  <2>. QED
    BY <1>a, <1>7, <2>1 DEF JobType, RunFormat, Begin
<1>8. ASSUME FormatEnds
      PROVE  JobType'
  BY <1>a, <1>8, RecordsTyped, DisksFaultAssumption DEF JobType, FormatCommand, FormatEnds,
     Working, Finish, End
<1>9. ASSUME Crash
      PROVE  JobType'
  <2>1. faults' \in 0 .. MaxFaults /\ Finish("crash")
    BY <1>a, <1>9, DisksFaultAssumption DEF Crash, Failure, JobType
  <2>. QED
    BY <1>a, <2>1 DEF JobType, Finish, End
<1>10. ASSUME NEW d \in Disk, FormatExits(d)
      PROVE  JobType'
  BY <1>a, <1>10, RecordsTyped, DisksFaultAssumption DEF JobType, FormatCommand, FormatExits,
     Failure
<1>11. ASSUME NEW h \in Host, Reboot(h)
      PROVE  JobType'
  BY <1>a, <1>11, RecordsTyped, DisksFaultAssumption DEF JobType, FormatCommand, Reboot, Failure
<1>12. CASE UNCHANGED <<job, towrite, todelete, faults>>
  BY <1>a, <1>12 DEF JobType
<1>. QED
  BY <1>1, <1>2, <1>3, <1>4, <1>5, <1>6, <1>7, <1>8, <1>9, <1>10, <1>11, <1>12 DEF Next,
     CommitStep, Fill, BindDisk, CleanDiskChunkServerId

\* Every step preserves the types of the tasks.
LEMMA TaskTypePreserved ==
  ASSUME DisksIInv, [Next]_vars
  PROVE  TaskType'
<1>. USE DEF vars, database, host, homes, locals, commits, Same, Busy
<1>a. TaskType /\ HostType /\ DatabaseType
  BY DEF DisksIInv, TypeOK
<1>1. ASSUME NEW d \in Disk, Step(d) \/ StepFails(d)
      PROVE  TaskType'
  <2>1. at[d] \in StepsOf(job.cmd) /\ job.cmd \in FormatCommand
    BY <1>1, StepGoes
  <2>2. at' \in [Disk -> TaskStep \cup Ended] /\ lock' \in Disk \cup {NoDisk}
    BY <1>a, <1>1, StepGoes, ErrorIsStep DEF TaskGoes, TaskType
  <2>3. old' \in [Disk -> Uuid \cup {None}]
    BY <1>a, <1>1 DEF Step, ListContainers, UmountFilesystem, CreateFilesystem,
       MountFilesystem, ListBlockDevice, EditFSTab, SedRead, SedDelete, SedAdd,
       UpdateDiskSizeUri, CreateContainer, StartContainer, StopContainer, ShowDiskFree,
       ShowStatus, StepFails, TaskType, HostType
  <2>4. copy' \in [Disk -> SUBSET Line]
    <3>1. d[1] \in Host
      BY MountsTyped
    <3>. QED
      BY <1>a, <1>1, <3>1 DEF Step, ListContainers, UmountFilesystem, CreateFilesystem,
         MountFilesystem, ListBlockDevice, EditFSTab, SedRead, SedDelete, SedAdd,
         UpdateDiskSizeUri, CreateContainer, StartContainer, StopContainer, ShowDiskFree,
         ShowStatus, StepFails, TaskType, HostType
  <2>5. shown' \in [Disk -> {"none", "Mounting", "Formatting", "Pulling image", "Done"}]
    BY <1>a, <1>1 DEF Step, ListContainers, UmountFilesystem, CreateFilesystem,
       MountFilesystem, ListBlockDevice, EditFSTab, SedRead, SedDelete, SedAdd,
       UpdateDiskSizeUri, CreateContainer, StartContainer, StopContainer, ShowDiskFree,
       ShowStatus, StepFails, TaskType, FormatStatus
  <2>. QED
    BY <2>2, <2>3, <2>4, <2>5 DEF TaskType
<1>2. ASSUME NEW n \in DOMAIN Files, Commit(n)
      PROVE  TaskType'
  BY <1>a, <1>2 DEF TaskType, Ended, TaskStep, Commit, Begin
<1>3. ASSUME DeleteDiskRecord
      PROVE  TaskType'
  BY <1>a, <1>3 DEF TaskType, Ended, TaskStep, DeleteDiskRecord, First, Finish, End
<1>4. ASSUME SetDisks
      PROVE  TaskType'
  BY <1>a, <1>4 DEF TaskType, Ended, TaskStep, SetDisks, Finish, End
<1>5. ASSUME CommitFails
      PROVE  TaskType'
  BY <1>a, <1>5 DEF TaskType, Ended, TaskStep, CommitFails, Failure, Finish, End
<1>6. ASSUME NEW cmd \in FormatCommand, RunFormat(cmd)
      PROVE  TaskType'
  BY <1>a, <1>6 DEF TaskType, Ended, TaskStep, RunFormat, Begin, FirstStep, FormatCommand
<1>7. ASSUME FormatEnds
      PROVE  TaskType'
  BY <1>a, <1>7 DEF TaskType, Ended, TaskStep, FormatEnds, Working, Finish, End
<1>8. ASSUME Crash
      PROVE  TaskType'
  BY <1>a, <1>8 DEF TaskType, Ended, TaskStep, Crash, Failure, Finish, End
<1>9. CASE UNCHANGED <<locals>>
  BY <1>a, <1>9 DEF TaskType
<1>. QED
  BY <1>1, <1>2, <1>3, <1>4, <1>5, <1>6, <1>7, <1>8, <1>9 DEF Next, CommitStep,
     WriteDiskRecord, Fill, FormatExits, Reboot, BindDisk, CleanDiskChunkServerId

\* Every step preserves Committing: no step changes the file of a commit.
LEMMA CommittingPreserved ==
  ASSUME DisksIInv, [Next]_vars
  PROVE  Committing'
<1>. USE DEF vars, database, host, homes, locals, commits, Same, Busy
<1>a. Committing /\ JobType /\ Tasked
  BY DEF DisksIInv, TypeOK
<1>1. ASSUME NEW d \in Disk, Step(d) \/ StepFails(d)
      PROVE  Committing'
  BY <1>a, <1>1, StepGoes DEF TaskGoes, Committing
<1>2. ASSUME NEW n \in DOMAIN Files, Commit(n)
      PROVE  Committing'
  BY <1>a, <1>2, RecordsTyped DEF Committing, JobType, FormatCommand, Commit, Begin
<1>3. ASSUME WriteDiskRecord
      PROVE  Committing'
  BY <1>a, <1>3, RecordsTyped DEF Committing, JobType, FormatCommand, WriteDiskRecord, First
<1>4. ASSUME DeleteDiskRecord
      PROVE  Committing'
  BY <1>a, <1>4, RecordsTyped DEF Committing, JobType, FormatCommand, DeleteDiskRecord,
     First, Finish, End
<1>5. ASSUME SetDisks
      PROVE  Committing'
  BY <1>a, <1>5, RecordsTyped DEF Committing, JobType, FormatCommand, SetDisks, Finish, End
<1>6. ASSUME CommitFails
      PROVE  Committing'
  BY <1>a, <1>6, RecordsTyped DEF Committing, JobType, FormatCommand, CommitFails, Failure,
     Finish, End
<1>7. ASSUME NEW cmd \in FormatCommand, RunFormat(cmd)
      PROVE  Committing'
  BY <1>a, <1>7, RecordsTyped DEF Committing, JobType, FormatCommand, RunFormat, Begin,
     FirstStep, FormatCommand
<1>8. ASSUME FormatEnds
      PROVE  Committing'
  BY <1>a, <1>8, RecordsTyped DEF Committing, JobType, FormatCommand, FormatEnds, Working,
     Finish, End
<1>9. ASSUME Crash
      PROVE  Committing'
  BY <1>a, <1>9, RecordsTyped DEF Committing, JobType, FormatCommand, Crash, Failure, Finish, End
<1>10. CASE UNCHANGED <<job, towrite>>
  BY <1>a, <1>10 DEF Committing
<1>. QED
  BY <1>1, <1>2, <1>3, <1>4, <1>5, <1>6, <1>7, <1>8, <1>9, <1>10 DEF Next, CommitStep, Fill,
     FormatExits, Reboot, BindDisk, CleanDiskChunkServerId

\* Every step preserves Tasked: records are marked only while no command runs, and written
\* only by a commit.
LEMMA TaskedPreserved ==
  ASSUME DisksIInv, [Next]_vars
  PROVE  Tasked'
<1>. USE DEF vars, database, host, homes, locals, commits, Same, Busy
<1>a. Tasked /\ TaskType /\ DatabaseType /\ JobType
  BY DEF DisksIInv, TypeOK
<1>1. ASSUME NEW d \in Disk, Step(d) \/ StepFails(d)
      PROVE  Tasked'
  <2>1. \A e \in Disk : Formattable(e) => Formattable(e)'
    BY <1>a, <1>1 DEF Step, Formattable, Unbound, DatabaseType, RecordType, ListContainers,
       UmountFilesystem, CreateFilesystem, MountFilesystem, ListBlockDevice, EditFSTab, SedRead,
       SedDelete, SedAdd, UpdateDiskSizeUri, CreateContainer, StartContainer, StopContainer,
       ShowDiskFree, ShowStatus, StepFails
  <2>. QED
    BY <1>a, <1>1, <2>1, StepGoes DEF TaskGoes, Tasked, TaskType
<1>2. ASSUME NEW n \in DOMAIN Files, Commit(n)
      PROVE  Tasked'
  BY <1>a, <1>2 DEF Tasked, JobType, FormatCommand, Commit, Begin
<1>3. ASSUME WriteDiskRecord
      PROVE  Tasked'
  BY <1>a, <1>3 DEF Tasked, JobType, FormatCommand, WriteDiskRecord, First
<1>4. ASSUME DeleteDiskRecord
      PROVE  Tasked'
  BY <1>a, <1>4 DEF Tasked, JobType, FormatCommand, DeleteDiskRecord, First, Finish, End
<1>5. ASSUME SetDisks
      PROVE  Tasked'
  BY <1>a, <1>5 DEF Tasked, JobType, FormatCommand, SetDisks, Finish, End
<1>6. ASSUME CommitFails
      PROVE  Tasked'
  BY <1>a, <1>6 DEF Tasked, JobType, FormatCommand, CommitFails, Failure, Finish, End
<1>7. ASSUME NEW cmd \in FormatCommand, RunFormat(cmd)
      PROVE  Tasked'
  <2>1. FirstStep(cmd) \in StepsOf(cmd)
    BY DEF FirstStep, StepsOf, FormatCommand
  <2>2. \A d \in Disk : at'[d] = IF d \in FormatConfigs THEN FirstStep(cmd) ELSE "none"
    BY <1>7 DEF RunFormat
  <2>3. \A d \in FormatConfigs : Formattable(d)'
    BY <1>a, <1>7, Configured DEF RunFormat, Formattable, Unbound, DatabaseType
  <2>4. job'.cmd = cmd /\ job'.result = "running"
    BY <1>7 DEF RunFormat, Begin
  <2>. QED
    BY <2>1, <2>2, <2>3, <2>4 DEF Tasked
<1>8. ASSUME FormatEnds
      PROVE  Tasked'
  BY <1>a, <1>8 DEF Tasked, JobType, FormatCommand, FormatEnds, Working, Finish, End
<1>9. ASSUME Crash
      PROVE  Tasked'
  BY <1>a, <1>9 DEF Tasked, JobType, FormatCommand, Crash, Failure, Finish, End
<1>10. ASSUME NEW s \in Server, BindDisk(s)
      PROVE  Tasked'
  BY <1>a, <1>10 DEF Tasked, JobType, FormatCommand, BindDisk
<1>11. ASSUME NEW s \in Server, CleanDiskChunkServerId(s)
      PROVE  Tasked'
  BY <1>a, <1>11 DEF Tasked, JobType, FormatCommand, CleanDiskChunkServerId
<1>12. CASE UNCHANGED <<disk, job, at>>
  BY <1>a, <1>12 DEF Tasked, Formattable, Unbound
<1>. QED
  BY <1>1, <1>2, <1>3, <1>4, <1>5, <1>6, <1>7, <1>8, <1>9, <1>10, <1>11, <1>12 DEF Next,
     CommitStep, Fill, FormatExits, Reboot

-----------------------------------------------------------------------------
(* Records, mounts and fstab. *)

\* A record that commit writes has a mount of the files, and keeps its owner.
LEMMA WriteIs ==
  ASSUME DisksIInv, WriteDiskRecord
  PROVE  \E d \in Disk :
           /\ DOMAIN disk' = DOMAIN disk \cup {d} /\ \A e \in DOMAIN disk : e # d => disk'[e] = disk[e]
           /\ disk'[d].mount \in MountsOf(d)
           /\ d \in DOMAIN disk => disk'[d].owner = disk[d].owner
<1>1. PICK d \in towrite :
        disk' = [e \in DOMAIN disk \cup {d} |->
                   IF e = d THEN SetDisk(d, NewRecords[job.file][d]) ELSE disk[e]]
  BY DEF WriteDiskRecord
<1>2. job.file \in DOMAIN Files /\ d \in DOMAIN NewRecords[job.file] /\ d \in Disk
  BY RecordsTyped DEF WriteDiskRecord, DisksIInv, Committing
<1>3. NewRecords[job.file][d].mount \in MountsOf(d)
  BY <1>2, RecordsTyped
<1>. QED
  BY <1>1, <1>2, <1>3 DEF SetDisk

\* UpdateDiskSizeUri changes the UUID of its own record and nothing else.
LEMMA RecordIs ==
  ASSUME DatabaseType, NEW d \in Disk, UpdateDiskSizeUri(d)
  PROVE  /\ DOMAIN disk' = DOMAIN disk
         /\ \A e \in DOMAIN disk :
              /\ disk'[e].mount = disk[e].mount /\ disk'[e].service = disk[e].service
              /\ disk'[e].owner = disk[e].owner
              /\ disk'[e].uri = IF e = d THEN uuid[d] ELSE disk[e].uri
BY DEF UpdateDiskSizeUri, RecordedUuid, DatabaseType, RecordType

\* Creating and cleaning a service changes the owners of records and nothing else.
LEMMA MarksOnly ==
  ASSUME DatabaseType, NEW s \in Server, BindDisk(s) \/ CleanDiskChunkServerId(s)
  PROVE  /\ DOMAIN disk' = DOMAIN disk
         /\ \A e \in DOMAIN disk :
              /\ disk'[e].mount = disk[e].mount /\ disk'[e].service = disk[e].service
              /\ disk'[e].uri = disk[e].uri
<1>1. CASE BindDisk(s)
  BY <1>1 DEF BindDisk, DatabaseType, RecordType
<1>2. CASE CleanDiskChunkServerId(s)
  BY <1>2 DEF CleanDiskChunkServerId, DatabaseType, RecordType
<1>. QED
  BY <1>1, <1>2

\* A step that leaves the editing of fstab, or is not part of it, preserves Locked.
LEMMA LocksMove ==
  ASSUME Locked, TaskType, NEW d \in Disk, NEW next, next \notin Editing, Goto(d, next),
         \A e \in Disk : e # d => uuid'[e] = uuid[e],
         at[d] \in Editing \/ UNCHANGED <<copy, fstab>>
  PROVE  Locked'
<1>1. at'[d] = next /\ \A e \in Disk : e # d => at'[e] = at[e]
  BY DEF Goto, TaskType
<1>2. ASSUME NEW e \in Disk, at'[e] \in Editing
      PROVE  e # d /\ at'[e] = at[e] /\ lock = e /\ lock' = e /\ uuid'[e] = uuid[e] /\ uuid[e] # None
             /\ UNCHANGED <<copy, fstab>>
  <2>1. e # d /\ at'[e] = at[e]
    BY <1>1, <1>2
  <2>2. lock = e /\ uuid[e] # None
    BY <1>2, <2>1 DEF Locked
  <2>3. at[d] \notin Editing
    BY <2>1, <2>2 DEF Locked
  <2>4. lock' = e
    BY <2>1, <2>2 DEF Goto, Released
  <2>. QED
    BY <2>1, <2>2, <2>3, <2>4
<1>. QED
  BY <1>2 DEF Locked, Editing

\* Every step preserves Placed.
LEMMA PlacedPreserved ==
  ASSUME DisksIInv, [Next]_vars
  PROVE  Placed'
<1>. USE DEF vars, database, host, homes, locals, commits, Same, Busy
<1>a. Placed /\ DatabaseType /\ HostType /\ TaskType /\ JobType /\ Committing /\ Tasked
  BY DEF DisksIInv, TypeOK
<1>1. ASSUME NEW n \in DOMAIN Files, Commit(n)
      PROVE  Placed'
  BY <1>a, <1>1 DEF Placed, InPlace, DatabaseType, HostType, TaskType, Commit, Begin
<1>2. ASSUME WriteDiskRecord
      PROVE  Placed'
  <2>1. UNCHANGED <<mounted, fstab, copy>>
    BY <1>2 DEF WriteDiskRecord
  <2>. QED
    BY <1>a, <1>2, <2>1, WriteIs DEF Placed, InPlace
<1>3. ASSUME DeleteDiskRecord
      PROVE  Placed'
  <2>1. UNCHANGED <<mounted, fstab>> /\ (UNCHANGED copy \/ copy' = [d \in Disk |-> {}])
    BY <1>3 DEF DeleteDiskRecord, Finish, End
  <2>2. DOMAIN disk' \subseteq DOMAIN disk /\ \A d \in DOMAIN disk' : disk'[d] = disk[d]
    BY <1>3 DEF DeleteDiskRecord
  <2>. QED
    BY <1>a, <2>1, <2>2 DEF Placed, InPlace, DatabaseType
<1>4. ASSUME SetDisks
      PROVE  Placed'
  BY <1>a, <1>4 DEF Placed, InPlace, DatabaseType, HostType, TaskType, SetDisks, Finish, End
<1>5. ASSUME CommitFails
      PROVE  Placed'
  BY <1>a, <1>5 DEF Placed, InPlace, DatabaseType, HostType, TaskType, CommitFails, Failure,
     Finish, End
<1>6. ASSUME NEW cmd \in FormatCommand, RunFormat(cmd)
      PROVE  Placed'
  BY <1>a, <1>6 DEF Placed, InPlace, DatabaseType, HostType, TaskType, RunFormat, Begin,
     FirstStep, FormatCommand
<1>7. ASSUME FormatEnds
      PROVE  Placed'
  BY <1>a, <1>7 DEF Placed, InPlace, DatabaseType, HostType, TaskType, FormatEnds, Working,
     Finish, End
<1>8. ASSUME Crash
      PROVE  Placed'
  BY <1>a, <1>8 DEF Placed, InPlace, DatabaseType, HostType, TaskType, Crash, Failure, Finish, End
<1>9. ASSUME NEW d \in Disk, UmountFilesystem(d)
      PROVE  Placed'
  BY <1>a, <1>9 DEF Placed, InPlace, DatabaseType, HostType, TaskType, UmountFilesystem,
     Proceed, Goto, Failure, Released
<1>10. ASSUME NEW d \in Disk, MountFilesystem(d)
      PROVE  Placed'
  <2>1. MountPoint(d) \in MountsOf(d)
    <3>1. Formattable(d)
      BY <1>a, <1>10 DEF MountFilesystem, Tasked
    <3>. QED
      BY <1>a, <3>1, MountPointTyped DEF Placed
  <2>. QED
    BY <1>a, <1>10, <2>1 DEF Placed, InPlace, HostType, MountFilesystem
<1>11. ASSUME NEW d \in Disk, SedRead(d)
      PROVE  Placed'
  <2>1. copy' = [copy EXCEPT ![d] = fstab[d[1]]] /\ UNCHANGED <<disk, mounted, fstab>>
    BY <1>11 DEF SedRead
  <2>2. d[1] \in Host
    BY MountsTyped
  <2>. QED
    BY <1>a, <2>1, <2>2 DEF Placed, InPlace, TaskType
<1>12. ASSUME NEW d \in Disk, SedDelete(d)
      PROVE  Placed'
  BY <1>a, <1>12 DEF Placed, InPlace, DatabaseType, HostType, TaskType, SedDelete, Proceed,
     Goto, Failure, Released
<1>13. ASSUME NEW d \in Disk, SedAdd(d)
      PROVE  Placed'
  <2>1. /\ fstab' = [fstab EXCEPT ![d[1]] = copy[d] \cup {<<d, uuid[d], MountPoint(d)>>}]
        /\ copy' = [copy EXCEPT ![d] = {}] /\ UNCHANGED <<disk, mounted>>
    BY <1>13 DEF SedAdd
  <2>2. MountPoint(d) \in MountsOf(d)
    <3>1. Formattable(d)
      BY <1>a, <1>13 DEF SedAdd, Tasked
    <3>. QED
      BY <1>a, <3>1, MountPointTyped DEF Placed
  <2>3. ASSUME NEW h \in Host, NEW line \in fstab'[h]
        PROVE  line[3] \in MountsOf(line[1])
    <3>1. line \in fstab[h] \/ line \in copy[d] \/ line = <<d, uuid[d], MountPoint(d)>>
      BY <1>a, <2>1, <2>3 DEF HostType
    <3>. QED
      BY <1>a, <2>2, <3>1 DEF Placed, InPlace
  <2>. QED
    BY <1>a, <2>1, <2>3 DEF Placed, InPlace, TaskType
<1>14. ASSUME NEW d \in Disk, UpdateDiskSizeUri(d)
      PROVE  Placed'
  <2>1. UNCHANGED <<mounted, fstab, copy>>
    BY <1>14 DEF UpdateDiskSizeUri
  <2>. QED
    BY <1>a, <1>14, <2>1, RecordIs DEF Placed, InPlace
<1>15. ASSUME NEW h \in Host, Reboot(h)
      PROVE  Placed'
  BY <1>a, <1>15 DEF Placed, InPlace, DatabaseType, HostType, TaskType, Reboot, Failure
<1>16. ASSUME NEW s \in Server, BindDisk(s)
      PROVE  Placed'
  <2>1. UNCHANGED <<mounted, fstab, copy>>
    BY <1>16 DEF BindDisk
  <2>. QED
    BY <1>a, <1>16, <2>1, MarksOnly DEF Placed, InPlace
<1>17. ASSUME NEW s \in Server, CleanDiskChunkServerId(s)
      PROVE  Placed'
  <2>1. UNCHANGED <<mounted, fstab, copy>>
    BY <1>17 DEF CleanDiskChunkServerId
  <2>. QED
    BY <1>a, <1>17, <2>1, MarksOnly DEF Placed, InPlace
<1>18. CASE UNCHANGED <<disk, mounted, fstab, copy>>
  BY <1>a, <1>18 DEF Placed, InPlace, DatabaseType, HostType, TaskType
<1>. QED
  BY <1>1, <1>2, <1>3, <1>4, <1>5, <1>6, <1>7, <1>8, <1>9, <1>10, <1>11, <1>12, <1>13, <1>14,
     <1>15, <1>16, <1>17, <1>18 DEF Next, CommitStep, Step, ListContainers, CreateFilesystem,
     ListBlockDevice, EditFSTab, CreateContainer, StartContainer, StopContainer, ShowDiskFree,
     ShowStatus, StepFails, Fill, FormatExits

\* Every step preserves Locked: while one task holds memStorage no other writes an fstab,
\* and only the task of a disk changes its UUID.
LEMMA LockedPreserved ==
  ASSUME DisksIInv, [Next]_vars
  PROVE  Locked'
<1>. USE DEF vars, database, host, homes, locals, commits, Same, Busy
<1>a. Locked /\ HostType /\ TaskType /\ JobType /\ Tasked
  BY DEF DisksIInv, TypeOK
<1>1. ASSUME NEW n \in DOMAIN Files, Commit(n)
      PROVE  Locked'
  BY <1>a, <1>1, DisksNameAssumption DEF Locked, Editing, HostType, TaskType, Commit, Begin
<1>2. ASSUME DeleteDiskRecord
      PROVE  Locked'
  <2>1. UNCHANGED <<uuid, fstab>>
    BY <1>2 DEF DeleteDiskRecord
  <2>2. UNCHANGED <<at, lock, copy>> \/ at' = [d \in Disk |-> "none"]
    BY <1>2 DEF DeleteDiskRecord, Finish, End
  <2>. QED
    BY <1>a, <2>1, <2>2 DEF Locked, Editing
<1>3. ASSUME SetDisks
      PROVE  Locked'
  BY <1>a, <1>3, DisksNameAssumption DEF Locked, Editing, HostType, TaskType, SetDisks,
     Finish, End
<1>4. ASSUME CommitFails
      PROVE  Locked'
  BY <1>a, <1>4, DisksNameAssumption DEF Locked, Editing, HostType, TaskType, CommitFails,
     Failure, Finish, End
<1>5. ASSUME NEW cmd \in FormatCommand, RunFormat(cmd)
      PROVE  Locked'
  BY <1>a, <1>5, DisksNameAssumption DEF Locked, Editing, HostType, TaskType, RunFormat,
     Begin, FirstStep, FormatCommand
<1>6. ASSUME FormatEnds
      PROVE  Locked'
  BY <1>a, <1>6, DisksNameAssumption DEF Locked, Editing, HostType, TaskType, FormatEnds,
     Working, Finish, End
<1>7. ASSUME Crash
      PROVE  Locked'
  BY <1>a, <1>7, DisksNameAssumption DEF Locked, Editing, HostType, TaskType, Crash, Failure,
     Finish, End
<1>8. ASSUME NEW h \in Host, Reboot(h)
      PROVE  Locked'
  BY <1>a, <1>8, DisksNameAssumption DEF Locked, Editing, HostType, TaskType, Reboot, Failure
<1>9. ASSUME NEW d \in Disk, ListContainers(d)
      PROVE  Locked'
  <2>1. Goto(d, "skip") \/ Goto(d, "umount")
    BY <1>9 DEF ListContainers
  <2>. QED
    BY <1>a, <1>9, <2>1, LocksMove DEF ListContainers, Editing
<1>10. ASSUME NEW d \in Disk, UmountFilesystem(d)
      PROVE  Locked'
  <2>1. Goto(d, "mkfs") \/ Goto(d, "ok") \/ Goto(d, "error")
    BY <1>10 DEF UmountFilesystem, Proceed
  <2>. QED
    BY <1>a, <1>10, <2>1, LocksMove DEF UmountFilesystem, Editing
<1>11. ASSUME NEW d \in Disk, CreateFilesystem(d)
      PROVE  Locked'
  <2>1. Goto(d, "mount") \/ Goto(d, "error")
    BY <1>11 DEF CreateFilesystem, Proceed
  <2>2. \A e \in Disk : e # d => uuid'[e] = uuid[e]
    BY <1>a, <1>11 DEF CreateFilesystem, HostType
  <2>. QED
    BY <1>a, <1>11, <2>1, <2>2, LocksMove DEF CreateFilesystem, Editing
<1>12. ASSUME NEW d \in Disk, MountFilesystem(d)
      PROVE  Locked'
  <2>1. Goto(d, "record") \/ Goto(d, "create") \/ Goto(d, "fstab") \/ Goto(d, "error")
    BY <1>12 DEF MountFilesystem, Proceed, AfterFstab
  <2>. QED
    BY <1>a, <1>12, <2>1, LocksMove DEF MountFilesystem, Editing
<1>13. ASSUME NEW d \in Disk, ListBlockDevice(d)
      PROVE  Locked'
  BY <1>a, <1>13, DisksNameAssumption DEF Locked, Editing, HostType, TaskType,
     ListBlockDevice, Proceed, Goto, Failure, Released
<1>14. ASSUME NEW d \in Disk, EditFSTab(d)
      PROVE  Locked'
  BY <1>a, <1>14, DisksNameAssumption DEF Locked, Editing, HostType, TaskType, EditFSTab,
     Proceed, Goto, Failure, Released, LockFree
<1>15. ASSUME NEW d \in Disk, SedRead(d)
      PROVE  Locked'
  BY <1>a, <1>15, DisksNameAssumption DEF Locked, Editing, HostType, TaskType, SedRead,
     Proceed, Goto, Failure, Released
<1>16. ASSUME NEW d \in Disk, SedDelete(d)
      PROVE  Locked'
  <2>1. Goto(d, "addRead") \/ Goto(d, "ps") \/ Goto(d, "error")
    BY <1>16 DEF SedDelete, Proceed
  <2>2. at[d] = "delWrite" /\ lock = d /\ uuid[d] # None /\ UNCHANGED uuid
    BY <1>a, <1>16 DEF SedDelete, Locked, Editing
  <2>3. CASE Goto(d, "addRead")
    <3>1. at'[d] = "addRead" /\ lock' = d /\ \A e \in Disk : e # d => at'[e] = at[e]
      BY <1>a, <2>2, <2>3 DEF Goto, Released, TaskType
    <3>2. \A e \in Disk : e # d => at[e] \notin Editing
      BY <1>a, <2>2 DEF Locked
    <3>. QED
      BY <2>2, <3>1, <3>2 DEF Locked, Editing
  <2>. QED
    BY <1>a, <2>1, <2>2, <2>3, LocksMove DEF Editing
<1>17. ASSUME NEW d \in Disk, SedAdd(d)
      PROVE  Locked'
  <2>1. Goto(d, "record") \/ Goto(d, "create") \/ Goto(d, "error")
    BY <1>17 DEF SedAdd, Proceed, AfterFstab
  <2>. QED
    BY <1>a, <1>17, <2>1, LocksMove DEF SedAdd, Editing
<1>18. ASSUME NEW d \in Disk, UpdateDiskSizeUri(d)
      PROVE  Locked'
  BY <1>a, <1>18, DisksNameAssumption DEF Locked, Editing, HostType, TaskType,
     UpdateDiskSizeUri, Proceed, Goto, Failure, Released, RecordedUuid
<1>19. ASSUME NEW d \in Disk, CreateContainer(d)
      PROVE  Locked'
  <2>1. Goto(d, "start") \/ Goto(d, "error")
    BY <1>19 DEF CreateContainer, Proceed
  <2>. QED
    BY <1>a, <1>19, <2>1, LocksMove DEF CreateContainer, Editing
<1>20. ASSUME NEW d \in Disk, StartContainer(d)
      PROVE  Locked'
  <2>1. Goto(d, "ok") \/ Goto(d, "error")
    BY <1>20 DEF StartContainer, Proceed
  <2>. QED
    BY <1>a, <1>20, <2>1, LocksMove DEF StartContainer, Editing
<1>21. ASSUME NEW d \in Disk, StopContainer(d)
      PROVE  Locked'
  <2>1. Goto(d, "umount") \/ Goto(d, "error")
    BY <1>21 DEF StopContainer, Proceed
  <2>. QED
    BY <1>a, <1>21, <2>1, LocksMove DEF StopContainer, Editing
<1>22. ASSUME NEW d \in Disk, ShowDiskFree(d)
      PROVE  Locked'
  BY <1>a, <1>22, DisksNameAssumption DEF Locked, Editing, HostType, TaskType, ShowDiskFree,
     Proceed, Goto, Failure, Released
<1>23. ASSUME NEW d \in Disk, ShowStatus(d)
      PROVE  Locked'
  BY <1>a, <1>23, DisksNameAssumption DEF Locked, Editing, HostType, TaskType, ShowStatus,
     Proceed, Goto, Failure, Released
<1>24. ASSUME NEW d \in Disk, StepFails(d)
      PROVE  Locked'
  BY <1>a, <1>24, DisksNameAssumption DEF Locked, Editing, HostType, TaskType, StepFails,
     Proceed, Goto, Failure, Released, Ended
<1>25. CASE UNCHANGED <<at, lock, copy, uuid, fstab>>
  BY <1>a, <1>25 DEF Locked
<1>. QED
  BY <1>1, <1>2, <1>3, <1>4, <1>5, <1>6, <1>7, <1>8, <1>9, <1>10, <1>11, <1>12, <1>13, <1>14,
     <1>15, <1>16, <1>17, <1>18, <1>19, <1>20, <1>21, <1>22, <1>23, <1>24, <1>25 DEF Next,
     CommitStep, Step, WriteDiskRecord, Fill, FormatExits, BindDisk, CleanDiskChunkServerId

\* What neither fills a disk nor shows one, and gives no task a full disk to show.
WatchedQuietly ==
  /\ UNCHANGED <<pool, shown>> /\ job'.cmd = job.cmd
  /\ \A d \in Disk : at'[d] = "full" => at[d] = "full"

LEMMA WatchedStays ==
  ASSUME Watched, WatchedQuietly
  PROVE  Watched'
BY DEF Watched, WatchedQuietly

\* Every step preserves Watched: a file system is made only by `format`, which a status
\* command excludes.
LEMMA WatchedPreserved ==
  ASSUME DisksIInv, [Next]_vars
  PROVE  Watched'
<1>. USE DEF vars, database, host, homes, locals, commits, Same, Busy
<1>a. Watched /\ HostType /\ TaskType /\ JobType /\ Tasked
  BY DEF DisksIInv, TypeOK
<1>1. ASSUME NEW n \in DOMAIN Files, Commit(n)
      PROVE  Watched'
  BY <1>a, <1>1 DEF Watched, HostType, TaskType, JobType, Commit, Begin
<1>2. ASSUME DeleteDiskRecord
      PROVE  Watched'
  <2>1. WatchedQuietly
    BY <1>a, <1>2 DEF WatchedQuietly, DeleteDiskRecord, Finish, End, JobType
  <2>. QED
    BY <1>a, <2>1, WatchedStays
<1>3. ASSUME SetDisks
      PROVE  Watched'
  <2>1. WatchedQuietly
    BY <1>a, <1>3 DEF WatchedQuietly, SetDisks, Finish, End, JobType
  <2>. QED
    BY <1>a, <2>1, WatchedStays
<1>4. ASSUME CommitFails
      PROVE  Watched'
  <2>1. WatchedQuietly
    BY <1>a, <1>4 DEF WatchedQuietly, CommitFails, Finish, End, JobType
  <2>. QED
    BY <1>a, <2>1, WatchedStays
<1>5. ASSUME NEW cmd \in FormatCommand, RunFormat(cmd)
      PROVE  Watched'
  BY <1>a, <1>5 DEF Watched, HostType, TaskType, JobType, RunFormat, Begin, FirstStep,
     FormatCommand
<1>6. ASSUME FormatEnds
      PROVE  Watched'
  <2>1. WatchedQuietly
    BY <1>a, <1>6 DEF WatchedQuietly, FormatEnds, End, JobType
  <2>. QED
    BY <1>a, <2>1, WatchedStays
<1>7. ASSUME Crash
      PROVE  Watched'
  <2>1. WatchedQuietly
    BY <1>a, <1>7 DEF WatchedQuietly, Crash, Finish, End, JobType
  <2>. QED
    BY <1>a, <2>1, WatchedStays
<1>8. ASSUME NEW d \in Disk, Fill(d)
      PROVE  Watched'
  BY <1>a, <1>8 DEF Watched, HostType, TaskType, JobType, Fill
<1>9. ASSUME NEW d \in Disk, ListContainers(d)
      PROVE  Watched'
  <2>1. at'[d] # "full" /\ \A e \in Disk : e # d => at'[e] = at[e]
    BY <1>a, <1>9 DEF ListContainers, Goto, TaskType
  <2>. QED
    BY <1>a, <1>9, <2>1 DEF ListContainers, Watched
<1>10. ASSUME NEW d \in Disk, UmountFilesystem(d)
      PROVE  Watched'
  <2>1. WatchedQuietly
    BY <1>a, <1>10 DEF WatchedQuietly, UmountFilesystem, Proceed, Goto, TaskType
  <2>. QED
    BY <1>a, <2>1, WatchedStays
<1>11. ASSUME NEW d \in Disk, CreateFilesystem(d)
      PROVE  Watched'
  <2>1. job.cmd = "format"
    BY <1>a, <1>11 DEF CreateFilesystem, Tasked, StepsOf, FormatCommand, Editing, Mounted
  <2>2. at'[d] # "full" /\ \A e \in Disk : e # d => at'[e] = at[e]
    BY <1>a, <1>11 DEF CreateFilesystem, Proceed, Goto, TaskType
  <2>3. \A e \in Disk : shown[e] # "Done" /\ shown[e] = "none"
    BY <1>a, <2>1 DEF Watched
  <2>4. \A e \in Disk : e # d => pool'[e] = pool[e]
    BY <1>a, <1>11 DEF CreateFilesystem, HostType
  <2>. QED
    BY <1>a, <1>11, <2>2, <2>3, <2>4 DEF CreateFilesystem, Watched
<1>12. ASSUME NEW d \in Disk, MountFilesystem(d)
      PROVE  Watched'
  <2>1. WatchedQuietly
    BY <1>a, <1>12 DEF WatchedQuietly, MountFilesystem, Proceed, AfterFstab, Goto, TaskType
  <2>. QED
    BY <1>a, <2>1, WatchedStays
<1>13. ASSUME NEW d \in Disk, ListBlockDevice(d)
      PROVE  Watched'
  <2>1. WatchedQuietly
    BY <1>a, <1>13 DEF WatchedQuietly, ListBlockDevice, Goto, TaskType
  <2>. QED
    BY <1>a, <2>1, WatchedStays
<1>14. ASSUME NEW d \in Disk, EditFSTab(d)
      PROVE  Watched'
  <2>1. WatchedQuietly
    BY <1>a, <1>14 DEF WatchedQuietly, EditFSTab, TaskType
  <2>. QED
    BY <1>a, <2>1, WatchedStays
<1>15. ASSUME NEW d \in Disk, SedRead(d)
      PROVE  Watched'
  <2>1. WatchedQuietly
    BY <1>a, <1>15 DEF WatchedQuietly, SedRead, Goto, TaskType
  <2>. QED
    BY <1>a, <2>1, WatchedStays
<1>16. ASSUME NEW d \in Disk, SedDelete(d)
      PROVE  Watched'
  <2>1. WatchedQuietly
    BY <1>a, <1>16 DEF WatchedQuietly, SedDelete, Proceed, Goto, TaskType
  <2>. QED
    BY <1>a, <2>1, WatchedStays
<1>17. ASSUME NEW d \in Disk, SedAdd(d)
      PROVE  Watched'
  <2>1. WatchedQuietly
    BY <1>a, <1>17 DEF WatchedQuietly, SedAdd, Proceed, AfterFstab, Goto, TaskType
  <2>. QED
    BY <1>a, <2>1, WatchedStays
<1>18. ASSUME NEW d \in Disk, UpdateDiskSizeUri(d)
      PROVE  Watched'
  <2>1. WatchedQuietly
    BY <1>a, <1>18 DEF WatchedQuietly, UpdateDiskSizeUri, Goto, TaskType
  <2>. QED
    BY <1>a, <2>1, WatchedStays
<1>19. ASSUME NEW d \in Disk, CreateContainer(d)
      PROVE  Watched'
  <2>1. WatchedQuietly
    BY <1>a, <1>19 DEF WatchedQuietly, CreateContainer, Proceed, Goto, TaskType
  <2>. QED
    BY <1>a, <2>1, WatchedStays
<1>20. ASSUME NEW d \in Disk, StartContainer(d)
      PROVE  Watched'
  <2>1. WatchedQuietly
    BY <1>a, <1>20 DEF WatchedQuietly, StartContainer, Proceed, Goto, TaskType
  <2>. QED
    BY <1>a, <2>1, WatchedStays
<1>21. ASSUME NEW d \in Disk, StopContainer(d)
      PROVE  Watched'
  <2>1. WatchedQuietly
    BY <1>a, <1>21 DEF WatchedQuietly, StopContainer, Proceed, Goto, TaskType
  <2>. QED
    BY <1>a, <2>1, WatchedStays
<1>22. ASSUME NEW d \in Disk, ShowDiskFree(d)
      PROVE  Watched'
  BY <1>a, <1>22 DEF Watched, HostType, TaskType, JobType, ShowDiskFree, Proceed, Goto,
     Failure, Released
<1>23. ASSUME NEW d \in Disk, ShowStatus(d)
      PROVE  Watched'
  <2>1. job.cmd = "status" /\ UNCHANGED <<job, pool>>
    BY <1>a, <1>23 DEF ShowStatus, Tasked, StepsOf, FormatCommand, Editing, Mounted
  <2>2. at'[d] # "full" /\ \A e \in Disk : e # d => at'[e] = at[e] /\ shown'[e] = shown[e]
    BY <1>a, <1>23 DEF ShowStatus, Goto, TaskType
  <2>3. shown'[d] = "Done" => at[d] = "full"
    BY <1>a, <1>23 DEF ShowStatus, FormatStatus, TaskType
  <2>. QED
    BY <1>a, <2>1, <2>2, <2>3 DEF Watched
<1>24. ASSUME NEW d \in Disk, StepFails(d)
      PROVE  Watched'
  <2>1. WatchedQuietly
    BY <1>a, <1>24 DEF WatchedQuietly, StepFails, Goto, TaskType
  <2>. QED
    BY <1>a, <2>1, WatchedStays
<1>25. CASE UNCHANGED <<at, pool, shown, job>>
  BY <1>a, <1>25 DEF Watched
<1>. QED
  BY <1>1, <1>2, <1>3, <1>4, <1>5, <1>6, <1>7, <1>8, <1>9, <1>10, <1>11, <1>12, <1>13, <1>14,
     <1>15, <1>16, <1>17, <1>18, <1>19, <1>20, <1>21, <1>22, <1>23, <1>24, <1>25 DEF Next,
     CommitStep, Step, WriteDiskRecord, FormatExits, Reboot, BindDisk, CleanDiskChunkServerId

\* Every step preserves the type of home.
LEMMA HomeTypePreserved ==
  ASSUME DisksIInv, [Next]_vars
  PROVE  HomeType'
<1>. USE DEF vars, database, host, homes, locals, commits, Same, Busy
<1>a. HomeType
  BY DEF DisksIInv, TypeOK
<1>1. ASSUME NEW s \in Server, BindDisk(s)
      PROVE  HomeType'
  BY <1>a, <1>1 DEF HomeType, BindDisk
<1>2. ASSUME NEW s \in Server, CleanDiskChunkServerId(s)
      PROVE  HomeType'
  BY <1>a, <1>2 DEF HomeType, CleanDiskChunkServerId
<1>3. CASE UNCHANGED homes
  BY <1>a, <1>3 DEF HomeType
<1>. QED
  BY <1>1, <1>2, <1>3 DEF Next, CommitStep, Step, Commit, WriteDiskRecord, DeleteDiskRecord,
     SetDisks, CommitFails, RunFormat, FormatEnds, Crash, ListContainers, UmountFilesystem,
     CreateFilesystem, MountFilesystem, ListBlockDevice, EditFSTab, SedRead, SedDelete, SedAdd,
     UpdateDiskSizeUri, CreateContainer, StartContainer, StopContainer, ShowDiskFree,
     ShowStatus, StepFails, Fill, FormatExits, Reboot

\* Every step preserves Homed: a record that is marked is neither deleted nor replaced, the
\* steps that mark records mark the ones with the directory, and cleaning another chunkserver
\* does not reach a directory that is kept at one disk.
LEMMA HomedPreserved ==
  ASSUME DisksIInv, [Next]_vars
  PROVE  Homed'
<1>. USE DEF vars, database, host, homes, locals, commits, Same, Busy
<1>a. Homed /\ Placed /\ DatabaseType /\ HostType /\ JobType /\ HomeType
  BY DEF DisksIInv, TypeOK
<1>1. ASSUME WriteDiskRecord
      PROVE  Homed'
  <2>1. PICK d \in Disk :
           /\ DOMAIN disk' = DOMAIN disk \cup {d} /\ \A e \in DOMAIN disk : e # d => disk'[e] = disk[e]
           /\ disk'[d].mount \in MountsOf(d)
           /\ d \in DOMAIN disk => disk'[d].owner = disk[d].owner
    BY <1>1, WriteIs
  <2>2. UNCHANGED homes
    BY <1>1 DEF WriteDiskRecord
  <2>3. ASSUME NEW s \in Server, Kept(s), home[s] = d,
               d \in DOMAIN disk, d[1] = s.host, disk[d].mount = s.dataDir
        PROVE  disk'[d].mount = s.dataDir
    <3>1. s.dataDir \in MountsOf(d)
      BY <1>a, <2>3 DEF Placed
    <3>2. MountsOf(d) = {s.dataDir}
      BY <2>3, <3>1 DEF Kept
    <3>. QED
      BY <2>1, <3>2
  <2>. QED
    BY <1>a, <2>1, <2>2, <2>3 DEF Homed
<1>2. ASSUME DeleteDiskRecord
      PROVE  Homed'
  <2>1. UNCHANGED homes
    BY <1>2 DEF DeleteDiskRecord
  <2>2. CASE UNCHANGED disk
    BY <1>a, <2>1, <2>2 DEF Homed
  <2>3. CASE \E d \in todelete : Deletable(d) /\ disk' = [e \in DOMAIN disk \ {d} |-> disk[e]]
    <3>1. PICK d \in todelete : disk[d].owner = None /\ disk' = [e \in DOMAIN disk \ {d} |-> disk[e]]
      BY <2>3 DEF Deletable
    <3>. QED
      BY <1>a, <2>1, <3>1, ServerAssumption DEF Homed
  <2>. QED
    BY <1>2, <2>2, <2>3 DEF DeleteDiskRecord
<1>3. ASSUME NEW d \in Disk, UpdateDiskSizeUri(d)
      PROVE  Homed'
  <2>1. UNCHANGED homes
    BY <1>3 DEF UpdateDiskSizeUri
  <2>. QED
    BY <1>a, <1>3, <2>1, RecordIs DEF Homed
<1>4. ASSUME NEW s \in Server, BindDisk(s)
      PROVE  Homed'
  <2>. DEFINE ds == {d \in DOMAIN disk : d[1] = s.host /\ disk[d].mount = s.dataDir}
  <2>1. /\ DOMAIN disk' = DOMAIN disk
        /\ \A d \in DOMAIN disk : disk'[d].mount = disk[d].mount
        /\ \A d \in DOMAIN disk : disk'[d].owner = IF d \in ds THEN s.id ELSE disk[d].owner
    BY <1>a, <1>4, MarksOnly DEF BindDisk, DatabaseType, RecordType
  <2>2. \/ UNCHANGED home
        \/ /\ home[s] = NoDisk
           /\ \E e \in Disk : /\ OnHost(s, e) \/ \E d \in ds : Holds(s, d, e)
                              /\ home' = [home EXCEPT ![s] = e]
    BY <1>4 DEF BindDisk
  <2>3. marked' = IF ds # {} /\ home'[s] # NoDisk THEN marked \cup {s} ELSE marked
    BY <1>4 DEF BindDisk
  <2>4. ASSUME NEW e \in Disk, OnHost(s, e) \/ \E d \in ds : Holds(s, d, e)
        PROVE  e[1] = s.host /\ s.dataDir \in MountsOf(e)
    <3>1. CASE OnHost(s, e)
      BY <1>a, <3>1 DEF OnHost, Placed
    <3>2. CASE \E d \in ds : disk[d].service /\ Holds(s, d, e)
      <4>1. e \in ds
        BY <3>2 DEF Holds
      <4>. QED
        BY <1>a, <4>1 DEF Placed
    <3>. QED
      BY <2>4, <3>1, <3>2 DEF Holds
  <2>5. ASSUME NEW t \in Server, Kept(t), home'[t] # NoDisk
        PROVE  home'[t] \in Disk /\ home'[t][1] = t.host /\ t.dataDir \in MountsOf(home'[t])
    BY <1>a, <2>2, <2>4, <2>5 DEF Homed, HomeType
  <2>6. ASSUME NEW t \in Server, Kept(t), home'[t] # NoDisk, t \in marked'
        PROVE  /\ home'[t] \in DOMAIN disk' /\ disk'[home'[t]].mount = t.dataDir
               /\ disk'[home'[t]].owner = t.id
    <3>1. CASE t = s /\ ds # {}
      <4>1. PICK d \in ds : TRUE
        BY <3>1
      <4>2. d \in Disk /\ d[1] = s.host /\ s.dataDir \in MountsOf(d)
        BY <1>a DEF Placed, DatabaseType
      <4>3. home'[s] = d
        BY <2>5, <2>6, <3>1, <4>2 DEF Kept
      <4>. QED
        BY <2>1, <3>1, <4>3
    <3>2. CASE t # s \/ ds = {}
      <4>1. t \in marked /\ home[t] # NoDisk
        BY <1>a, <2>3, <2>6, <3>2 DEF Homed
      <4>2. home'[t] = home[t]
        BY <1>a, <2>2, <3>2, <4>1 DEF HomeType
      <4>3. home[t] \in DOMAIN disk /\ home[t][1] = t.host /\ disk[home[t]].mount = t.dataDir
              /\ disk[home[t]].owner = t.id
        BY <1>a, <2>6, <4>1 DEF Homed
      <4>4. home[t] \notin ds
        BY <2>6, <3>2, <4>3 DEF Kept
      <4>. QED
        BY <2>1, <4>2, <4>3, <4>4
    <3>. QED
      BY <3>1, <3>2
  <2>7. ASSUME NEW t \in marked'
        PROVE  home'[t] # NoDisk
    BY <1>a, <2>2, <2>3, <2>7, DisksNameAssumption DEF Homed, HomeType
  <2>. QED
    BY <2>5, <2>6, <2>7 DEF Homed
<1>5. ASSUME NEW s \in Server, CleanDiskChunkServerId(s)
      PROVE  Homed'
  <2>1. /\ DOMAIN disk' = DOMAIN disk
        /\ \A d \in DOMAIN disk : disk'[d].mount = disk[d].mount
        /\ \A d \in DOMAIN disk : ~ Unmarked(s, d) => disk'[d].owner = disk[d].owner
    BY <1>a, <1>5, MarksOnly DEF CleanDiskChunkServerId, DatabaseType, RecordType
  <2>2. home' = [home EXCEPT ![s] = NoDisk] /\ marked' = marked \ {s}
    BY <1>5 DEF CleanDiskChunkServerId
  <2>3. ASSUME NEW t \in Server, Kept(t), home'[t] # NoDisk
        PROVE  t # s /\ home'[t] = home[t] /\ home[t] # NoDisk
    BY <1>a, <2>2, <2>3 DEF HomeType
  <2>4. ASSUME NEW t \in Server, Kept(t), home'[t] # NoDisk, t \in marked'
        PROVE  ~ Unmarked(s, home[t])
    <3>1. t \in marked /\ t # s /\ home[t] # NoDisk
      BY <2>2, <2>3, <2>4
    <3>2. /\ home[t] \in DOMAIN disk /\ home[t][1] = t.host
          /\ disk[home[t]].mount = t.dataDir /\ disk[home[t]].owner = t.id
      BY <1>a, <2>4, <3>1 DEF Homed
    <3>3. ASSUME NEW e \in DOMAIN disk, disk[e].owner = s.id,
                 home[t][1] = e[1], disk[home[t]].mount = disk[e].mount
          PROVE  FALSE
      <4>1. /\ home[t] \in Disk /\ e \in Disk /\ e[1] = t.host
            /\ t.dataDir \in MountsOf(home[t]) /\ t.dataDir \in MountsOf(e)
        BY <1>a, <3>2, <3>3 DEF Placed, DatabaseType
      <4>2. home[t] = e
        BY <2>4, <3>2, <4>1 DEF Kept
      <4>. QED
        BY <3>1, <3>2, <3>3, <4>2, ServerAssumption
    <3>. QED
      BY <3>3 DEF Unmarked
  <2>5. \A t \in marked' : home'[t] # NoDisk
    BY <1>a, <2>2 DEF Homed, HomeType
  <2>. QED
    BY <1>a, <2>1, <2>2, <2>3, <2>4, <2>5 DEF Homed
<1>6. CASE UNCHANGED <<disk, homes>>
  BY <1>a, <1>6 DEF Homed
<1>. QED
  BY <1>1, <1>2, <1>3, <1>4, <1>5, <1>6 DEF Next, CommitStep, Step, Commit, SetDisks,
     CommitFails, RunFormat, FormatEnds, Crash, ListContainers, UmountFilesystem,
     CreateFilesystem, MountFilesystem, ListBlockDevice, EditFSTab, SedRead, SedDelete, SedAdd,
     CreateContainer, StartContainer, StopContainer, ShowDiskFree, ShowStatus, StepFails, Fill,
     FormatExits, Reboot

-----------------------------------------------------------------------------
(* What a format has achieved. *)

\* A step leaves the record of d but for its owner.
SameRecord(d) ==
  /\ d \in DOMAIN disk' <=> d \in DOMAIN disk
  /\ d \in DOMAIN disk => /\ disk'[d].mount = disk[d].mount /\ disk'[d].service = disk[d].service
                          /\ disk'[d].uri = disk[d].uri

\* A step leaves the lines of d in fstab.
SameLines(d) == \A line : line[1] = d => (line \in fstab'[d[1]] <=> line \in fstab[d[1]])

\* A step leaves the file system of d, its mount and its lines.
SameHost(d) == uuid'[d] = uuid[d] /\ mounted'[d] = mounted[d] /\ SameLines(d)

\* Then d is mounted where it was to be mounted, and in the same way.
LEMMA RecordTells ==
  ASSUME NEW d, SameRecord(d)
  PROVE  /\ MountPoint(d)' = MountPoint(d)
         /\ ServiceMountDevice(d)' <=> ServiceMountDevice(d)
         /\ FromDiskRecord(d)' <=> FromDiskRecord(d)
BY DEF SameRecord, MountPoint, ServiceMountDevice, FromDiskRecord

\* Then the lines of its file system are the same.
LEMMA LinesTell ==
  ASSUME NEW d, SameHost(d)
  PROVE  /\ Lines(d)' = Lines(d) /\ (OneLine(d)' <=> OneLine(d))
         /\ \A m : <<d, uuid[d], m>> \in fstab'[d[1]] <=> <<d, uuid[d], m>> \in fstab[d[1]]
<1>1. Lines(d)' = Lines(d)
  BY DEF SameHost, SameLines, Lines
<1>2. \A m : <<d, uuid[d], m>> \in fstab'[d[1]] <=> <<d, uuid[d], m>> \in fstab[d[1]]
  <2>1. \A m : <<d, uuid[d], m>>[1] = d
    OBVIOUS
  <2>. QED
    BY <2>1 DEF SameHost, SameLines
<1>. QED
  BY <1>1, <1>2 DEF OneLine, SameHost

\* Then what its task has achieved stays.
LEMMA ProgressStays ==
  ASSUME NEW d, Progress(d), at'[d] = at[d], SameRecord(d), SameHost(d)
  PROVE  Progress(d)'
<1>1. uuid'[d] = uuid[d] /\ mounted'[d] = mounted[d]
  BY DEF SameHost
<1>2. disk'[d].uri = disk[d].uri \/ ~ FromDiskRecord(d)
  BY DEF SameRecord, FromDiskRecord
<1>3. /\ MountPoint(d)' = MountPoint(d)
      /\ ServiceMountDevice(d)' <=> ServiceMountDevice(d)
      /\ FromDiskRecord(d)' <=> FromDiskRecord(d)
  BY RecordTells
<1>4. Lines(d)' = Lines(d) /\ (OneLine(d)' <=> OneLine(d))
  BY LinesTell
<1>5. <<d, uuid'[d], mounted'[d]>> \in fstab'[d[1]] <=> <<d, uuid[d], mounted[d]>> \in fstab[d[1]]
  BY <1>1, LinesTell
<1>. QED
  BY <1>1, <1>2, <1>3, <1>4, <1>5 DEF Progress

\* Before mkfs and after a failure nothing has been achieved.
LEMMA NoProgress ==
  ASSUME NEW d, at'[d] \notin {"mount", "fstab"} \cup Editing \cup Mounted
  PROVE  Progress(d)'
BY DEF Progress, Mounted

\* A step that leaves the records does leave the record of d.
LEMMA SameRecordStays ==
  ASSUME NEW d, UNCHANGED disk
  PROVE  SameRecord(d)
BY DEF SameRecord

\* A step that leaves the hosts does leave the state of d.
LEMMA SameHostStays ==
  ASSUME NEW d, UNCHANGED <<uuid, mounted, fstab>>
  PROVE  SameHost(d)
BY DEF SameHost, SameLines

\* The task of d leaves the other disks alone, also those of its host whose lines are in the
\* same fstab: sed puts back what it has read, but for its own line.
LEMMA OthersStay ==
  ASSUME DisksIInv, NEW d \in Disk, Step(d) \/ StepFails(d), NEW e \in Disk, e # d
  PROVE  at'[e] = at[e] /\ SameRecord(e) /\ SameHost(e)
<1>. USE DEF database, host, homes, Same
<1>0. TypeOK /\ Locked /\ d[1] \in Host /\ e[1] \in Host
  BY MountsTyped DEF DisksIInv
<1>1. at'[e] = at[e]
  BY <1>0, StepGoes DEF TaskGoes, TypeOK, TaskType
<1>2. SameRecord(e)
  <2>1. CASE UpdateDiskSizeUri(d)
    BY <1>0, <2>1, RecordIs DEF SameRecord, TypeOK
  <2>2. CASE UNCHANGED disk
    BY <2>2, SameRecordStays
  <2>. QED
    BY <2>1, <2>2 DEF Step, ListContainers, UmountFilesystem, CreateFilesystem,
       MountFilesystem, ListBlockDevice, EditFSTab, SedRead, SedDelete, SedAdd, CreateContainer,
       StartContainer, StopContainer, ShowDiskFree, ShowStatus, StepFails
<1>3. SameHost(e)
  <2>1. CASE UNCHANGED fstab /\ uuid'[e] = uuid[e] /\ mounted'[e] = mounted[e]
    BY <2>1 DEF SameHost, SameLines
  <2>2. CASE SedDelete(d)
    <3>1. /\ UNCHANGED <<uuid, mounted>> /\ copy[d] = fstab[d[1]]
          /\ fstab' = [fstab EXCEPT ![d[1]] = {line \in copy[d] : line[1] # d \/ line[2] # old[d]}]
      BY <1>0, <2>2 DEF SedDelete, Locked
    <3>. QED
      BY <1>0, <3>1 DEF SameHost, SameLines, TypeOK, HostType
  <2>3. CASE SedAdd(d)
    <3>1. /\ UNCHANGED <<uuid, mounted>> /\ copy[d] = fstab[d[1]]
          /\ fstab' = [fstab EXCEPT ![d[1]] = copy[d] \cup {<<d, uuid[d], MountPoint(d)>>}]
      BY <1>0, <2>3 DEF SedAdd, Locked
    <3>2. <<d, uuid[d], MountPoint(d)>>[1] = d
      OBVIOUS
    <3>. QED
      BY <1>0, <3>1, <3>2 DEF SameHost, SameLines, TypeOK, HostType
  <2>4. CASE UmountFilesystem(d) \/ MountFilesystem(d) \/ CreateFilesystem(d)
    <3>1. UNCHANGED fstab /\ uuid'[e] = uuid[e] /\ mounted'[e] = mounted[e]
      BY <1>0, <2>4 DEF UmountFilesystem, MountFilesystem, CreateFilesystem, TypeOK, HostType
    <3>. QED
      BY <2>1, <3>1
  <2>. QED
    BY <2>1, <2>2, <2>3, <2>4 DEF Step, ListContainers, ListBlockDevice, EditFSTab, SedRead,
       UpdateDiskSizeUri, CreateContainer, StartContainer, StopContainer, ShowDiskFree,
       ShowStatus, StepFails
<1>. QED
  BY <1>1, <1>2, <1>3

\* Every step of a format achieves what Progress says.
LEMMA OwnProgress ==
  ASSUME DisksIInv, job.cmd = "format", NEW d \in Disk, Step(d) \/ StepFails(d)
  PROVE  Progress(d)'
<1>. USE DEF database, host, homes, Same
<1>a. TaskType /\ HostType /\ DatabaseType /\ Locked /\ Progress(d)
  BY DEF DisksIInv, TypeOK, Formatted
<1>b. job.cmd = "format" /\ at[d] \in StepsOf("format")
  BY StepGoes
<1>c. /\ MountPoint(d)' = MountPoint(d)
      /\ ServiceMountDevice(d)' <=> ServiceMountDevice(d)
      /\ FromDiskRecord(d)' <=> FromDiskRecord(d)
  <2>1. CASE UpdateDiskSizeUri(d)
    BY <1>a, <2>1, RecordIs DEF MountPoint, ServiceMountDevice, FromDiskRecord
  <2>2. CASE UNCHANGED disk
    BY <2>2, SameRecordStays, RecordTells
  <2>. QED
    BY <2>1, <2>2 DEF Step, ListContainers, UmountFilesystem, CreateFilesystem,
       MountFilesystem, ListBlockDevice, EditFSTab, SedRead, SedDelete, SedAdd, CreateContainer,
       StartContainer, StopContainer, ShowDiskFree, ShowStatus, StepFails
<1>1. CASE ListContainers(d)
  <2>1. Goto(d, "skip") \/ Goto(d, "umount")
    BY <1>1 DEF ListContainers
  <2>. QED
    BY <1>a, <2>1, NoProgress DEF Goto, TaskType, Editing, Mounted
<1>2. CASE UmountFilesystem(d)
  <2>1. Goto(d, "mkfs") \/ Goto(d, "error")
    BY <1>b, <1>2 DEF UmountFilesystem, Proceed
  <2>. QED
    BY <1>a, <2>1, NoProgress DEF Goto, TaskType, Editing, Mounted
<1>3. CASE CreateFilesystem(d)
  <2>1. PICK u \in FreshUuids(d) : uuid' = [uuid EXCEPT ![d] = u]
    BY <1>3 DEF CreateFilesystem
  <2>2. uuid'[d] = u /\ u # None /\ UNCHANGED fstab
    BY <1>a, <1>3, <2>1, DisksNameAssumption DEF CreateFilesystem, FreshUuids, HostType
  <2>3. \A line \in fstab[d[1]] : line[1] = d => line[2] # u
    BY DEF FreshUuids
  <2>4. Lines(d)' = {}
    BY <2>2, <2>3 DEF Lines
  <2>5. at'[d] \in {"mount", "error"}
    BY <1>a, <1>3 DEF CreateFilesystem, Proceed, Goto, TaskType
  <2>. QED
    BY <2>2, <2>4, <2>5 DEF Progress, Editing, Mounted
<1>4. CASE MountFilesystem(d)
  <2>1. at[d] = "mount" /\ mounted'[d] = MountPoint(d) /\ UNCHANGED <<disk, uuid, fstab>>
    BY <1>a, <1>4 DEF MountFilesystem, HostType
  <2>2. Lines(d) = {} /\ uuid[d] # None
    BY <1>a, <2>1 DEF Progress
  <2>3. Lines(d)' = {}
    BY <2>1, <2>2 DEF Lines
  <2>4. at'[d] \in {"error", IF ServiceMountDevice(d) THEN "record" ELSE "fstab"}
    BY <1>a, <1>4 DEF MountFilesystem, Proceed, Goto, TaskType, AfterFstab, ServiceMountDevice
  <2>5. ServiceMountDevice(d) => FromDiskRecord(d)
    BY DEF ServiceMountDevice
  <2>. QED
    BY <1>c, <2>1, <2>2, <2>3, <2>4, <2>5 DEF Progress, Editing, Mounted
<1>5. CASE EditFSTab(d)
  <2>1. /\ at[d] = "fstab" /\ UNCHANGED <<disk, uuid, mounted, fstab>>
        /\ at'[d] \in {"error", "delRead", "addRead"}
    BY <1>a, <1>5 DEF EditFSTab, TaskType
  <2>2. Lines(d)' = Lines(d)
    BY <2>1 DEF Lines
  <2>. QED
    BY <1>a, <1>c, <2>1, <2>2 DEF Progress, Editing, Mounted
<1>6. CASE SedRead(d)
  <2>1. /\ at[d] \in Editing /\ UNCHANGED <<disk, uuid, mounted, fstab>>
        /\ at'[d] \in {"delWrite", "addWrite"}
    BY <1>a, <1>6 DEF SedRead, Goto, TaskType, Editing
  <2>2. Lines(d)' = Lines(d)
    BY <2>1 DEF Lines
  <2>. QED
    BY <1>a, <1>c, <2>1, <2>2 DEF Progress, Editing, Mounted
<1>7. CASE SedDelete(d)
  <2>1. at[d] = "delWrite" /\ copy[d] = fstab[d[1]] /\ UNCHANGED <<disk, uuid, mounted>>
    BY <1>a, <1>7 DEF SedDelete, Locked
  <2>2. fstab' = [fstab EXCEPT ![d[1]] = {line \in copy[d] : line[1] # d \/ line[2] # old[d]}]
    BY <1>7 DEF SedDelete
  <2>3. Lines(d)' \subseteq Lines(d)
    BY <1>a, <2>1, <2>2, MountsTyped DEF Lines, HostType
  <2>4. at'[d] \in {"addRead", "error"}
    BY <1>a, <1>b, <1>7 DEF SedDelete, Proceed, Goto, TaskType
  <2>. QED
    BY <1>a, <1>c, <2>1, <2>3, <2>4 DEF Progress, Editing, Mounted
<1>8. CASE SedAdd(d)
  <2>1. at[d] = "addWrite" /\ copy[d] = fstab[d[1]] /\ UNCHANGED <<disk, uuid, mounted>>
    BY <1>a, <1>8 DEF SedAdd, Locked
  <2>2. fstab'[d[1]] = fstab[d[1]] \cup {<<d, uuid[d], MountPoint(d)>>}
    BY <1>a, <1>8, <2>1, MountsTyped DEF SedAdd, HostType
  <2>3. Lines(d) = {} /\ mounted[d] = MountPoint(d) /\ ~ ServiceMountDevice(d) /\ uuid[d] # None
    BY <1>a, <2>1 DEF Progress, Editing, Locked
  <2>4. Lines(d)' = {<<d, uuid[d], MountPoint(d)>>}
    <3>1. \A line \in fstab[d[1]] : ~ (line[1] = d /\ line[2] = uuid[d])
      BY <2>3 DEF Lines
    <3>2. uuid' = uuid
      BY <2>1
    <3>. QED
      BY <2>2, <3>1, <3>2 DEF Lines
  <2>5. OneLine(d)' /\ <<d, uuid[d], mounted[d]>> \in fstab'[d[1]]
    BY <2>1, <2>2, <2>3, <2>4 DEF OneLine
  <2>6. at'[d] \in {"error", IF FromDiskRecord(d) THEN "record" ELSE "create"}
    BY <1>a, <1>8 DEF SedAdd, Proceed, Goto, TaskType, AfterFstab
  <2>. QED
    BY <1>c, <2>1, <2>3, <2>5, <2>6 DEF Progress, Editing, Mounted
<1>9. CASE UpdateDiskSizeUri(d)
  <2>1. at[d] = "record" /\ UNCHANGED <<uuid, mounted, fstab>> /\ at'[d] = "create"
    BY <1>a, <1>9 DEF UpdateDiskSizeUri, Goto, TaskType
  <2>2. Lines(d)' = Lines(d) /\ (OneLine(d)' <=> OneLine(d))
    BY <2>1 DEF Lines, OneLine
  <2>3. FromDiskRecord(d) => disk'[d].uri = uuid[d]
    BY <1>a, <1>9, RecordIs DEF FromDiskRecord
  <2>. QED
    BY <1>a, <1>c, <2>1, <2>2, <2>3 DEF Progress, Editing, Mounted
<1>10. CASE CreateContainer(d)
  <2>1. at[d] = "create" /\ UNCHANGED <<disk, uuid, mounted, fstab>> /\ at'[d] \in {"start", "error"}
    BY <1>a, <1>10 DEF CreateContainer, Proceed, Goto, TaskType
  <2>2. Lines(d)' = Lines(d) /\ (OneLine(d)' <=> OneLine(d))
    BY <2>1 DEF Lines, OneLine
  <2>. QED
    BY <1>a, <1>c, <2>1, <2>2 DEF Progress, Editing, Mounted
<1>11. CASE StartContainer(d)
  <2>1. at[d] = "start" /\ UNCHANGED <<disk, uuid, mounted, fstab>> /\ at'[d] \in {"ok", "error"}
    BY <1>a, <1>11 DEF StartContainer, Proceed, Goto, TaskType
  <2>2. Lines(d)' = Lines(d) /\ (OneLine(d)' <=> OneLine(d))
    BY <2>1 DEF Lines, OneLine
  <2>. QED
    BY <1>a, <1>c, <2>1, <2>2 DEF Progress, Editing, Mounted
<1>12. CASE StepFails(d)
  <2>1. at'[d] = "error"
    BY <1>a, <1>12 DEF StepFails, Goto, TaskType
  <2>. QED
    BY <2>1, NoProgress DEF Editing, Mounted
<1>13. ~ (ListBlockDevice(d) \/ StopContainer(d) \/ ShowDiskFree(d) \/ ShowStatus(d))
  BY <1>b DEF StepsOf, Editing, Mounted, ListBlockDevice, StopContainer, ShowDiskFree, ShowStatus
<1>. QED
  BY <1>1, <1>2, <1>3, <1>4, <1>5, <1>6, <1>7, <1>8, <1>9, <1>10, <1>11, <1>12, <1>13 DEF Step

\* Every step preserves Formatted.
LEMMA FormattedPreserved ==
  ASSUME DisksIInv, [Next]_vars
  PROVE  Formatted'
<1>. USE DEF vars, database, host, homes, locals, commits, Same, Busy
<1>a. Formatted /\ Tasked /\ JobType
  BY DEF DisksIInv, TypeOK
<1>1. ASSUME NEW d \in Disk, Step(d) \/ StepFails(d)
      PROVE  Formatted'
  <2>. SUFFICES ASSUME job.cmd = "format", NEW e \in Disk
                PROVE  Progress(e)'
    BY <1>1, StepGoes DEF TaskGoes, Formatted
  <2>1. CASE e = d
    BY <1>1, <2>1, OwnProgress
  <2>2. CASE e # d
    <3>1. at'[e] = at[e] /\ SameRecord(e) /\ SameHost(e)
      BY <1>1, <2>2, OthersStay
    <3>. QED
      BY <1>a, <3>1, ProgressStays DEF Formatted
  <2>. QED
    BY <2>1, <2>2
<1>2. ASSUME NEW n \in DOMAIN Files, Commit(n)
      PROVE  Formatted'
  BY <1>a, <1>2 DEF Formatted, JobType, Commit, Begin
<1>3. ASSUME WriteDiskRecord
      PROVE  Formatted'
  BY <1>a, <1>3 DEF Formatted, JobType, WriteDiskRecord, First
<1>4. ASSUME DeleteDiskRecord
      PROVE  Formatted'
  BY <1>a, <1>4 DEF Formatted, JobType, DeleteDiskRecord, First, Finish, End
<1>5. ASSUME SetDisks
      PROVE  Formatted'
  BY <1>a, <1>5 DEF Formatted, JobType, SetDisks, Finish, End
<1>6. ASSUME CommitFails
      PROVE  Formatted'
  BY <1>a, <1>6 DEF Formatted, JobType, CommitFails, Failure, Finish, End
<1>7. ASSUME NEW cmd \in FormatCommand, RunFormat(cmd)
      PROVE  Formatted'
  <2>1. \A d \in Disk : at'[d] \in {"list", "blkid", "df", "none"}
    BY <1>7 DEF RunFormat, FirstStep, FormatCommand
  <2>2. \A d \in Disk : Progress(d)'
    BY <2>1, NoProgress DEF Editing, Mounted
  <2>. QED
    BY <2>2 DEF Formatted
<1>8. ASSUME FormatEnds
      PROVE  Formatted'
  <2>1. \A d \in Disk : at'[d] = "none"
    BY <1>a, <1>8 DEF FormatEnds, End, Tasked
  <2>2. \A d \in Disk : Progress(d)'
    BY <2>1, NoProgress DEF Editing, Mounted
  <2>. QED
    BY <2>2 DEF Formatted
<1>9. ASSUME Crash
      PROVE  Formatted'
  <2>1. \A d \in Disk : at'[d] = "none"
    BY <1>a, <1>9 DEF Crash, Finish, End, Tasked
  <2>2. \A d \in Disk : Progress(d)'
    BY <2>1, NoProgress DEF Editing, Mounted
  <2>. QED
    BY <2>2 DEF Formatted
<1>10. ASSUME NEW h \in Host, Reboot(h)
      PROVE  Formatted'
  <2>1. \A d \in Disk : at'[d] = "none"
    BY <1>a, <1>10 DEF Reboot, Tasked
  <2>2. \A d \in Disk : Progress(d)'
    BY <2>1, NoProgress DEF Editing, Mounted
  <2>. QED
    BY <2>2 DEF Formatted
<1>11. ASSUME NEW s \in Server, BindDisk(s)
      PROVE  Formatted'
  <2>1. \A d \in Disk : at'[d] = "none"
    BY <1>a, <1>11 DEF BindDisk, Tasked
  <2>2. \A d \in Disk : Progress(d)'
    BY <2>1, NoProgress DEF Editing, Mounted
  <2>. QED
    BY <2>2 DEF Formatted
<1>12. ASSUME NEW s \in Server, CleanDiskChunkServerId(s)
      PROVE  Formatted'
  <2>1. \A d \in Disk : at'[d] = "none"
    BY <1>a, <1>12 DEF CleanDiskChunkServerId, Tasked
  <2>2. \A d \in Disk : Progress(d)'
    BY <2>1, NoProgress DEF Editing, Mounted
  <2>. QED
    BY <2>2 DEF Formatted
<1>13. CASE UNCHANGED <<disk, uuid, mounted, fstab, job, at>>
  <2>1. \A d \in Disk : at'[d] = at[d] /\ SameRecord(d) /\ SameHost(d)
    BY <1>13, SameRecordStays, SameHostStays
  <2>. QED
    BY <1>a, <1>13, <2>1, ProgressStays DEF Formatted
<1>. QED
  BY <1>1, <1>2, <1>3, <1>4, <1>5, <1>6, <1>7, <1>8, <1>9, <1>10, <1>11, <1>12, <1>13 DEF
     Next, CommitStep, Fill, FormatExits

\* A disk whose record and host a step leaves stays ready.
LEMMA ReadyStays ==
  ASSUME NEW d, ReadyForGood(d), SameRecord(d), SameHost(d)
  PROVE  ReadyForGood(d)'
<1>1. uuid'[d] = uuid[d] /\ mounted'[d] = mounted[d]
  BY DEF SameHost
<1>2. disk'[d].uri = disk[d].uri \/ ~ FromDiskRecord(d)
  BY DEF SameRecord, FromDiskRecord
<1>3. /\ MountPoint(d)' = MountPoint(d)
      /\ ServiceMountDevice(d)' <=> ServiceMountDevice(d)
      /\ FromDiskRecord(d)' <=> FromDiskRecord(d)
  BY RecordTells
<1>4. OneLine(d)' <=> OneLine(d)
  BY LinesTell
<1>5. <<d, uuid'[d], mounted'[d]>> \in fstab'[d[1]] <=> <<d, uuid[d], mounted[d]>> \in fstab[d[1]]
  BY <1>1, LinesTell
<1>6. ServiceMountDevice(d) => FromDiskRecord(d)
  BY DEF ServiceMountDevice
<1>. QED
  BY <1>1, <1>2, <1>3, <1>4, <1>5, <1>6 DEF ReadyForGood, Ready

\* A task that is through has made its disk ready.
LEMMA ProgressReady ==
  ASSUME NEW d, Progress(d), at[d] = "ok"
  PROVE  ReadyForGood(d)
BY DEF Progress, Mounted, ReadyForGood, Ready, ServiceMountDevice

\* Every step preserves Prepared: a reboot mounts what the one line of the disk says.
LEMMA PreparedPreserved ==
  ASSUME DisksIInv, [Next]_vars
  PROVE  Prepared'
<1>. USE DEF vars, database, host, homes, locals, commits, Same, Busy
<1>a. Prepared /\ Formatted /\ Tasked /\ JobType /\ HostType /\ DatabaseType
  BY DEF DisksIInv, TypeOK
<1>1. ASSUME NEW d \in Disk, Step(d) \/ StepFails(d)
      PROVE  Prepared'
  BY <1>a, <1>1, StepGoes DEF TaskGoes, Prepared
<1>2. ASSUME NEW n \in DOMAIN Files, Commit(n)
      PROVE  Prepared'
  BY <1>a, <1>2 DEF Prepared, JobType, Commit, Begin
<1>3. ASSUME WriteDiskRecord
      PROVE  Prepared'
  BY <1>a, <1>3 DEF Prepared, JobType, WriteDiskRecord, First
<1>4. ASSUME DeleteDiskRecord
      PROVE  Prepared'
  BY <1>a, <1>4 DEF Prepared, JobType, DeleteDiskRecord, First, Finish, End
<1>5. ASSUME SetDisks
      PROVE  Prepared'
  BY <1>a, <1>5 DEF Prepared, JobType, SetDisks, Finish, End
<1>6. ASSUME CommitFails
      PROVE  Prepared'
  BY <1>a, <1>6 DEF Prepared, JobType, CommitFails, Failure, Finish, End
<1>7. ASSUME NEW cmd \in FormatCommand, RunFormat(cmd)
      PROVE  Prepared'
  BY <1>a, <1>7 DEF Prepared, JobType, RunFormat, Begin, FirstStep, FormatCommand
<1>8. ASSUME FormatEnds
      PROVE  Prepared'
  <2>1. job'.cmd = job.cmd /\ job'.on = {d \in Disk : at[d] = "ok"}
    BY <1>a, <1>8 DEF FormatEnds, End, JobType
  <2>2. UNCHANGED <<disk, uuid, mounted, fstab>>
    BY <1>8 DEF FormatEnds
  <2>3. ASSUME job.cmd = "format", NEW d \in Disk, at[d] = "ok"
        PROVE  ReadyForGood(d)'
    <3>1. ReadyForGood(d)
      BY <1>a, <2>3, ProgressReady DEF Formatted
    <3>. QED
      BY <2>2, <3>1, ReadyStays, SameRecordStays, SameHostStays
  <2>. QED
    BY <2>1, <2>3 DEF Prepared
<1>9. ASSUME Crash
      PROVE  Prepared'
  BY <1>a, <1>9 DEF Prepared, JobType, Crash, Failure, Finish, End
<1>10. ASSUME NEW h \in Host, Reboot(h)
      PROVE  Prepared'
  <2>. SUFFICES ASSUME job.cmd = "format", job.result = "ok", NEW d \in job.on
                PROVE  ReadyForGood(d)'
    BY <1>10 DEF Reboot, Prepared
  <2>1. d \in Disk /\ ReadyForGood(d)
    BY <1>a DEF Prepared, JobType
  <2>2. UNCHANGED <<disk, uuid, fstab>> /\ SameRecord(d)
    BY <1>10, SameRecordStays DEF Reboot
  <2>3. CASE ServiceMountDevice(d)
    <3>1. ServiceMountDevice(d)' /\ disk'[d].uri = uuid'[d]
      BY <2>1, <2>2, <2>3 DEF ReadyForGood, Ready, ServiceMountDevice, FromDiskRecord
    <3>. QED
      BY <3>1 DEF ReadyForGood, Ready
  <2>4. CASE ~ ServiceMountDevice(d)
    <3>1. <<d, uuid[d], mounted[d]>> \in Lines(d) /\ \A line \in Lines(d) : line[3] = mounted[d]
      BY <2>1, <2>4 DEF ReadyForGood, Ready, OneLine, Lines
    <3>2. mounted'[d] = mounted[d]
      <4>1. CASE d[1] # h
        BY <2>1, <1>10, <4>1 DEF Reboot
      <4>2. CASE d[1] = h
        <5>1. mounted'[d] = IF Lines(d) = {} THEN None ELSE (CHOOSE line \in Lines(d) : TRUE)[3]
          BY <2>1, <1>10, <4>2 DEF Reboot, Lines
        <5>2. (CHOOSE line \in Lines(d) : TRUE) \in Lines(d)
          BY <3>1
        <5>. QED
          BY <3>1, <5>1, <5>2
      <4>. QED
        BY <4>1, <4>2
    <3>3. SameHost(d)
      BY <2>2, <3>2 DEF SameHost, SameLines
    <3>. QED
      BY <2>1, <2>2, <3>3, ReadyStays
  <2>. QED
    BY <2>3, <2>4
<1>11. ASSUME NEW s \in Server, BindDisk(s)
      PROVE  Prepared'
  <2>1. \A d \in Disk : SameRecord(d) /\ SameHost(d)
    BY <1>a, <1>11, MarksOnly, SameHostStays DEF SameRecord, BindDisk
  <2>2. job' = job
    BY <1>11 DEF BindDisk
  <2>. QED
    BY <1>a, <2>1, <2>2, ReadyStays DEF Prepared, JobType
<1>12. ASSUME NEW s \in Server, CleanDiskChunkServerId(s)
      PROVE  Prepared'
  <2>1. \A d \in Disk : SameRecord(d) /\ SameHost(d)
    BY <1>a, <1>12, MarksOnly, SameHostStays DEF SameRecord, CleanDiskChunkServerId
  <2>2. job' = job
    BY <1>12 DEF CleanDiskChunkServerId
  <2>. QED
    BY <1>a, <2>1, <2>2, ReadyStays DEF Prepared, JobType
<1>13. CASE UNCHANGED <<disk, uuid, mounted, fstab, job>>
  <2>1. \A d \in Disk : SameRecord(d) /\ SameHost(d)
    BY <1>13, SameRecordStays, SameHostStays
  <2>. QED
    BY <1>a, <1>13, <2>1, ReadyStays DEF Prepared, JobType
<1>. QED
  BY <1>1, <1>2, <1>3, <1>4, <1>5, <1>6, <1>7, <1>8, <1>9, <1>10, <1>11, <1>12, <1>13 DEF
     Next, CommitStep, Fill, FormatExits

-----------------------------------------------------------------------------
(* The invariant holds. *)

\* The invariant holds of a database without records and of unused hosts.
LEMMA InitDisksIInv == Init => DisksIInv
<1>. SUFFICES ASSUME Init PROVE DisksIInv
  OBVIOUS
<1>1. \A d \in Disk : d[1] \in Host
  BY MountsTyped
<1>2. TypeOK
  <2>1. DatabaseType /\ HomeType
    BY DEF Init, DatabaseType, HomeType
  <2>2. HostType
    BY DEF Init, HostType
  <2>3. JobType
    BY DisksFaultAssumption DEF Init, JobType
  <2>4. TaskType
    BY DEF Init, TaskType, Ended
  <2>. QED
    BY <2>1, <2>2, <2>3, <2>4 DEF TypeOK
<1>3. Tasked /\ Committing /\ Homed /\ Formatted /\ Prepared
  BY DEF Init, Tasked, Committing, Homed, Formatted, Prepared
<1>4. Placed
  BY DEF Init, Placed, InPlace
<1>5. Locked /\ Watched
  BY DEF Init, Locked, Editing, Watched
<1>. QED
  BY <1>2, <1>3, <1>4, <1>5 DEF DisksIInv

\* Every step preserves the invariant.
LEMMA NextPreserves ==
  ASSUME DisksIInv, [Next]_vars
  PROVE  DisksIInv'
BY DatabaseTypePreserved, HostTypePreserved, HomeTypePreserved, JobTypePreserved,
   TaskTypePreserved, TaskedPreserved, CommittingPreserved, PlacedPreserved, HomedPreserved,
   LockedPreserved, FormattedPreserved, PreparedPreserved, WatchedPreserved
   DEF DisksIInv, TypeOK

\* DisksIInv is an invariant of the specification.
THEOREM Invariance == Spec => []DisksIInv
<1>1. Init => DisksIInv
  BY InitDisksIInv
<1>2. DisksIInv /\ [Next]_vars => DisksIInv'
  BY NextPreserves
<1>. QED
  BY <1>1, <1>2, PTL DEF Spec

-----------------------------------------------------------------------------
(* What follows from it. *)

\* TypeOK.
THEOREM TypeCorrect == Spec => []TypeOK
<1>1. DisksIInv => TypeOK
  BY DEF DisksIInv
<1>. QED
  BY <1>1, Invariance, PTL

\* A format that ends well leaves its disks mounted, in fstab and recorded, through the
\* concurrent edits of one fstab, failures and reboots.
THEOREM FormattedIsReady == Spec => []OkMeansReady
<1>1. DisksIInv => OkMeansReady
  BY DEF DisksIInv, Prepared, ReadyForGood, OkMeansReady
<1>. QED
  BY <1>1, Invariance, PTL

\* A disk that `format --status` calls done has its chunkfile pool filled.
THEOREM DoneIsFilled == Spec => []DoneMeansFilled
<1>1. DisksIInv => DoneMeansFilled
  BY DEF DisksIInv, Watched, DoneMeansFilled
<1>. QED
  BY <1>1, Invariance, PTL

\* Only CreateFilesystem changes the UUID of a disk.
LEMMA OnlyMkfsMakes ==
  ASSUME DisksIInv, [Next]_vars, NEW d \in Disk, uuid'[d] # uuid[d]
  PROVE  at[d] = "mkfs"
<1>1. \E e \in Disk : CreateFilesystem(e)
  BY DEF Next, vars, database, host, homes, Same, CommitStep, Step, Commit, WriteDiskRecord,
     DeleteDiskRecord, SetDisks, CommitFails, RunFormat, FormatEnds, Crash, ListContainers,
     UmountFilesystem, MountFilesystem, ListBlockDevice, EditFSTab, SedRead, SedDelete, SedAdd,
     UpdateDiskSizeUri, CreateContainer, StartContainer, StopContainer, ShowDiskFree,
     ShowStatus, StepFails, Fill, FormatExits, Reboot, BindDisk, CleanDiskChunkServerId
<1>2. PICK e \in Disk, u \in Uuid : at[e] = "mkfs" /\ uuid' = [uuid EXCEPT ![e] = u]
  BY <1>1 DEF CreateFilesystem, FreshUuids
<1>. QED
  BY <1>2 DEF DisksIInv, TypeOK, HostType

\* No commit, deploy, clean and format, in any order and wherever they break off, makes a
\* file system on the disk that has the data of a chunkserver for which a deploy has marked
\* a record, if the files keep its directory at one disk.
THEOREM DataIsSafe == Spec => DataSafe
<1>1. ASSUME DisksIInv, [Next]_vars, NEW d \in Disk, uuid'[d] # uuid[d], NEW s \in marked, Kept(s)
      PROVE  home[s] # d
  <2>1. Formattable(d)
    BY <1>1, OnlyMkfsMakes DEF DisksIInv, Tasked
  <2>2. s \in Server
    BY <1>1 DEF DisksIInv, TypeOK, HomeType
  <2>3. home[s] = d => d \in DOMAIN disk /\ disk[d].owner = s.id
    BY <1>1, <2>2, DisksNameAssumption DEF DisksIInv, Homed
  <2>4. d \in DOMAIN disk => disk[d].owner = None
    BY <2>1 DEF Formattable, Unbound
  <2>. QED
    BY <2>2, <2>3, <2>4, ServerAssumption
<1>2. DisksIInv /\ [Next]_vars =>
        [\A d \in Disk : uuid'[d] # uuid[d] => \A s \in marked : Kept(s) => home[s] # d]_vars
  BY <1>1
<1>. QED
  BY <1>2, Invariance, PTL DEF DataSafe, Spec

=============================================================================
