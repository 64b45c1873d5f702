# A TLA+ verification project for CurveAdm

CurveAdm deploys and operates Curve storage clusters: it reads a topology,
creates one docker container per service on remote hosts over ssh, keeps what it
did in a local SQLite database, and runs every command as a *playbook* of steps
whose tasks execute concurrently. This directory holds TLA+ modules for that
code, the TLC configurations that check them, and TLAPS proofs.

## 1. Inventory

| Component | State it keeps | Operations | What is hard | What makes it correct |
|---|---|---|---|---|
| Task executor (`internal/tasks`) | worker slots, wait group, monitor of results per bar, progress bars | `Execute`: one goroutine per task, at most `Concurrency` at once | results in any order, bars read while they change, the wait for bars | bounded parallelism; the bars never claim more than happened; an error is returned if a task failed; it returns |
| Task (`internal/task/task`) | its steps, its ssh client | run the steps until one fails, skips or ends the task | partial effects | post steps always run |
| Playbook (`internal/playbook`) | steps, options in memory storage | `createTasks` (reads **and writes** the database), `Execute`, next step | state read at creation and used later; partial creation | the first failing step ends the command |
| Service commands (`cli/command/{deploy,start,stop,restart,reload,clean,upgrade}.go`) | none of their own | build the playbook | failure or kill between any two steps, then any other command | success means what it says; retry heals; nothing is lost |
| Service tasks (`internal/task/task/common`) | database rows, docker containers, mounted disks | create, sync, start, stop, restart, clean | lost replies over ssh; three places that must agree | records name the containers docker has; a disk is mounted once |
| Pools (`internal/configure/pool.go`, `create_pool.go`) | the cluster's pool JSON | generate, scale out, migrate, store | merging by position of a stored pool with a changed topology | zones and servers keep their names |
| Scale-out, migrate, topology commit | topology text, pool text | diff, playbook, write back | retries after a half-done move | never two running copies of a service |
| Topology (`internal/configure/topology`) | none | parse, expand replicas, resolve variables | ids, cycles of variables | every service has a role and the variables of the topology |
| Disks (`cli/command/disks`, `format*.go`) | disk rows, fstab, chunk file pool | commit, format, stop, status | partial commit, repeated format, reboots, a lock around fstab | data is never formatted away; a formatted disk survives a reboot |
| Clusters and hosts | cluster rows, the current cluster, hosts.yaml | add, checkout, remove, export, import, hosts commit | LIKE against equality, interrupted import | at most one current cluster; success means it was done |
| Clients | client rows, containers on client hosts, their task files | map, unmap, mount, umount, target start/stop/add/delete | lost replies, stale records, docker restarting the container at any moment | what has started has a record; what was ended stays ended; what was attached comes back |
| Storage (`internal/storage`) | SQLite | one statement per call, no transaction across calls | migrations | - |
| Audit, self-upgrade | audit rows, version row | PreAudit, PostAudit, detectVersion | a goroutine beside the command | a killed command stays aborted |
| Remote execution (`pkg/module`) | ssh connection | run a command with a timeout | the command succeeds after the timeout | - |
| Precheck (`checker`) | mock servers on the hosts, a map of dates | the checks, start and remove mock servers | what a killed or failed precheck leaves; tasks sharing a map | passing means ready, failing means something is wrong |
| Settings (`configure/topology`, `pkg/variable`, `configure/hosts`) | none | merge, resolve variables, convert | references to references, defaults by role | (operators, used by the precheck) |
| Status (`service_status.go`, `client_status.go`) | a map in the memory storage | ask every container, display | concurrent writers, containers that change meanwhile | what is displayed was true |
| Playground, pfs, support, presentation | little | reading, formatting | - | - |

The components call each other downwards: a command builds a playbook, the
playbook creates tasks and hands them to the executor, a task runs steps, a step
runs a remote command or one SQL statement. They share the database (read at
creation time and during execution), docker on the hosts, and the memory storage.
`PROJECT.json` lists every component with its status, and under `hazards` what is
hard to test in each, at its line.

## 2. Modules

| Module | Models | State |
|---|---|---|
| `Batch` | what the executor promises: run each task once, at most `limit` at a time, return the error of a failed task or nothing | `limit`, `phase`, `outcome`, `verdict` |
| `Tasks` | `Tasks.Execute`, the monitor, the bars | the dispatcher (`pc`, `next`), its slots (`workers`), each goroutine (`worker`, `bar`), the monitor's results and last error, the bars (`current`, `total`, ...) |
| `Lifecycle` | the eight service commands over database, docker and disk | see below |
| `Topology` | parsing a topology into services, the difference of two, and what commit, scale-out and migrate accept | none: operators |
| `ClusterPool` | the cluster pool: generated, grown, migrated, merged with the stored one | none: operators over pools |
| `Reshape` | commit, deploy, scale-out and migrate over the stored topology and pool | see below |
| `Disks` | disk records, format and its stop and status, fstab, services taking and releasing disks | see below |
| `Clients` | map, unmap, mount, umount and the target daemon | see below |
| `Settings` | topology text and hosts.yaml to the settings of each service | none: operators |
| `Checks` | each check of the precheck, given services and hosts | none: operators |
| `Precheck` | the precheck command, its mock servers and dates | `mock`, `job`, `date`, `env` |
| `Invocation` | the process around any command: version check, prompt, audit, kill | `process`, `detect`, `version`, `audit` |
| `Clusters` | cluster commands, executed by `Invocation` | `clusters`, `services`, `hosts`, `file`, `cmd` |
| `Status` | status and client status | `pc`, `local`, `map`, `holder`, `shown` |
| `TasksProofs`, `LifecycleProofs`, `ReshapeProofs`, `DisksProofs`, `ClientsProofs`, `PrecheckProofs`, `ClustersProofs`, `StatusProofs` | the theorems of section 4, each named after the module it is about | - |
| `MCTasks`, `MCLifecycle`, `MCReshape`, `MCDisks`, `MCClients`, `MCPrecheck`, `MCClusters`, `MCStatus` | the instances TLC checks | - |

`Clusters` extends `Invocation` and `Precheck` extends `Checks`, which extends
`Settings`; `Reshape` uses `ClusterPool` and `Topology`. `Disks` and `Lifecycle`
meet at the disk's owner: `Lifecycle` has the tasks that mount and bind it,
`Disks` their effect on the disk's record.

`Lifecycle` and `Reshape` look at the same commands from two sides: `Lifecycle`
has each step of each task over a fixed topology; `Reshape` takes a playbook
step as a whole, with any part of its effects when it fails, and lets the
topology and the pool change. `Tasks` is what both use to run a step's tasks.

### Tasks

One action per point at which another goroutine can interleave: `Start`
(initOptions, main bar), `Acquire` (wait group and slot), `Spawn` (sub bar and
`go`), `Wait`, `CompleteMainBar`, `SetMainBarStatus`, `Return` for the loop of
`Execute`; `GetSubBar`, `Finish` (the task itself, with any of its three
results), `Record` (`monitor.set`, under its lock), `IncrSubBar`, `Release`,
`Done` for a goroutine. The mpb library is external: a bar counts increments and
is complete at its total. `Tasks` implements `Batch` under the mapping in which a
task is running from its spawn until its result is recorded.

### Lifecycle

`record` and `bound` are the database (containers table; the disk's chunkserver
id); `cid`, `status`, `synced` what docker has under the service's name;
`mounted`, `data` the host's disk. `cmd`, `targets`, `todo` are the command and
its remaining playbook steps; `at`, `old`, `cont`, `found` the tasks being
executed and what each has read. `last`, `fresh` and `faults` are history.

`CreateTasks` is `createTasks`: for all services of the step at once, including
what it reads (`cont`, `found`) and **writes** (`bound`). Then each service's task
advances step by step, interleaved with the others. `NextStep`, `StopPlaybook`,
`Succeed` are the loop of `playbook.run`. A command names the services of its
filter, any non-empty set; `upgrade` of one service at a time is the sequence of
upgrades of one service each. The executor is taken at the level of `Batch`
without its limit (every interleaving of the tasks, a superset).

Failures, each counted and bounded by `MaxFaults`:
- `remote`, `database`: a step fails without effect;
- `lost`: a step takes effect but its reply comes after `ExecTimeoutSec`
  (`execCommand` returns a `TimeoutError` whatever the command did);
- `database` at `createTasks`: after any subset of the disks was marked;
- `crash`: the process is killed between two steps;
- `exit`: a container exits by itself.

Abstractions. Container ids are reused once nothing refers to them. Pulling an
image changes nothing that others read (once per host in the code, once per
service here). A task's remote reads that change nothing are folded into the step
they guard. `clean --only` is modelled for everything, `log`, and (in upgrade)
`container`. A container with restart policy *always* that exits is not restarted
by docker here.

### Topology, ClusterPool, Reshape

`ParseTopology` gives the *set* of services: the code's order of parsing matters
only where it sorts (`SortDeployConfigs`), and Go's maps give differences in no
order at all. `DiffAdd` and `DiffDelete` are `DiffTopology` for the two kinds of
difference any command looks at. The pool operators are those of `pool.go`,
`GetClusterPool` that of `create_pool.go`, which overwrites the addresses of the
stored pool *by position*.

`topology` and `pool` are the columns of the cluster's row; `container` is what
its row in `containers` and docker say of each service; `job` and `todo` are the
command and its remaining steps. A step is one action: it takes effect for the
services `done`, and either that is all of them and the playbook goes on, or a
task failed, lost its reply or the process was killed, and the command is over
(`Fail`, bounded by `MaxFaults`). A step that finds its services not as they
have to be refuses (`StepRefused`). The pool and the topology are written in one
statement by the task of the logical pool (`CreatePool`), or the topology alone
by `UpdateTopology`. The pool is computed when the task is created and written at
its end; nothing it reads changes in between.

Abstractions. Steps with no effect on this state (images, configuration files,
etcd backup) are left out. A topology is known by its number. One address per
server and one port are kept; variables and configuration merging are left out,
so `port` is that of a deploy's only service. The precheck of deploy and
scale-out can be turned off and is not a guard; the check of a commit
(`CheckServices`) is one. `commit --force`, `deploy --skip` and the snapshotclone
are not in `Reshape`.

`getClusterPool` takes three things for granted of the operator, and no command
checks them: a storage service that stays keeps its place among the deploys, a
scale-out adds whole deploys behind the others, a migration puts the i-th new service
where the i-th old one was. `Reordered`, `AddedAmong` and `MigratedAside` say how a
topology can go against them, `Misplaces` that it does one of the three; a commit that
exchanges deploys with names, a scale-out that raises the replicas of old deploys and a
migration of a part of a host are examples that the code accepts. `SharesHost` says
that a topology gives a host two deploys of the storage role: `createServers` gives
zones to deploys in turn, and the checks count deploys where they speak of hosts.

The two properties of the stored servers say that nothing else makes them wrong:
`ServersFaithful` (they are those of the stored topology in its order, with the
addresses of their hosts) is lost only in a step that stores a topology which
`Misplaces`, and `HostsInOneZone` (of servers that are faithful) only in such a step
or with a topology that `SharesHost`. They are action properties, since once such a
topology is stored the code goes on from what it has: what the stored servers are worth
after it is not said. `PlacementStable`, `StoredOnlyStarted` and `RepeatingSucceeds`
have no such exception.

The instance has topologies of both kinds: `InPlaceBs` and `TopologiesFs` for an
operator who replaces whole hosts in place and adds new hosts at the end (with two
that the commands refuse), `MisplacedBs` for the rest: each of the three ways of
`Misplaces`, and a host with two deploys. TLC reaches a step that needs each of
the exceptions: without any one of them the properties are violated.

### Disks

`disk` and `disks` are the two tables: the record of each disk, and the committed
text. `disks commit` writes and deletes records one statement at a time
(`WriteDiskRecord`, `DeleteDiskRecord`), the text last (`SetDisks`), and may be
refused or cut off in the middle (`CommitFails`, `Crash`). `format` runs one task
per disk, at the step `at[d]`: look for its container, umount, mkfs, mount, blkid,
fstab, record, create and start the filling container. Editing fstab is a read and
a write under `lock`, so that tasks of one host can be seen to interleave.
`uuid`, `mounted`, `fstab`, `container`, `pool` are the host's. `Reboot` mounts what
fstab says. `BindDisk` and `CleanDiskChunkServerId` are a deploy and a clean of a
chunkserver: the first marks every record of the chunkserver's host and directory, or,
when the disk table is empty (format.yaml), only binds the directory into the container;
the second unmarks by the chunkserver's id, host and mount point. Two history variables
say what became of the data: `home` is the disk each chunkserver's data is on, with a
record or without, and `marked` the chunkservers with data for which a deploy has
marked a record since. A disk whose record says so is not in
fstab and is mounted by its service's container. The UUIDs a file system can get
are a constant (`Uuid`); mkfs takes one that nothing about its disk refers to: not
its record, its file system, its lines of fstab or what its task has read. `DataSafe` speaks
of the chunkservers that are `marked` and `Kept`: the disks files always put one and the
same disk at their directory. Data that is not marked is protected by nothing, and is
destroyed in this very model (section 3).

### Clients

A client is a container and what docker and curveadm keep in it: `synced`
configuration, `tasks` (the files of `/curve/init.d` that run whenever the
container starts), and whether it is `attached`. `row` is its record. `Steps` gives
each playbook; one action per step, each with failure and lost reply. `ContainerExits`
and `Reboot` let docker restart containers by policy between any two steps. A kill
of curveadm needs no action: a failed step leaves the same state. The name of a
target's task file is its name with other characters than letters replaced
(`PlainName`), and two names may be translated alike.

### Settings, Checks, Precheck

`Settings` translates parsing: a string is a sequence of parts (word, number,
address, reference), which is what merging, variables and conversion tell apart.
References are followed as often as there are variables (`Reached`, `Rendering`), which
is all of a chain that ends. The addresses that a variable names are a set: in what
order they are written is left out. `Checks` has one operator per check. `Precheck` walks
the steps of either kind of cluster (`AllSteps`), of which those that are `Included` are
run; each step is one action, as its tasks are independent, except the tasks
of `GET_HOST_DATE`, which read and write one map (`BeginDates` to `EndDates`), and mock
servers that `Clash`: with two services of one id, whose containers have one name, or
services of one host with one address (the topology's check may be skipped), the one
that comes first stays (`ComeUp`). `Post`
is the post step that removes the mock servers; it runs after success and failure,
not after `Kill`. What a host answers is a field of the environment `env`, which
`Change` changes between two runs.

### Invocation, Clusters

`Start` opens the database and starts the goroutine `detect`; then the main
goroutine offers an upgrade, writes the audit record as aborted, executes the
command, and corrects the record; `Kill` may strike at any point. `Clusters`
supplies the commands: each action is one statement or one item of a file. The
table is a set of rows, which a query returns by their ids; a process opens the
current cluster only if there is exactly one (`Opens`). A name
on the command line is a pattern where the statement uses LIKE (`Matching`) and a
name where it uses `=`. `deploy` and `clean` are reduced to their rows. One process
at a time is assumed: nothing in the code keeps two apart.

### Status

The tasks of a step interleave: `ListContainers`, `GetLeader`, then `Lock` and
`SetStatus`, the two halves of `SafeMap.TX` in which the map is fetched and put
back. `StepEnds` and `Display` are the playbook. Meanwhile containers exit, start
and go, hosts stop answering, another mds leads (`MaxChanges`). `seen` and `led` are
history: what was the case while the command ran.

## 3. Runs

| Run | Instance | Shows |
|---|---|---|
| `tasks` | 3 tasks, 3 groupings, 6 options | all properties of the executor, refinement of `Batch`, and that `Execute` returns |
| `lifecycle` | mds, chunkserver with its own disk, snapshotclone; all eight commands; one failure of any kind | configuration before start, mds before chunkserver, success means achieved, nothing recorded is given up |
| `lifecycle_retry` | mds, chunkserver; deploy, stop, clean, upgrade; two failures | faithful records, orphans only from interrupted creation, retry heals |
| `lifecycle_mount` | the same two; all eight commands; three failures | only the steps it names make a disk mounted twice |
| `lifecycle_clean` | the same two; deploy, stop, clean; one failing step | violation: a retried clean leaves the data |
| `reshape` | 7 CurveBS topologies in place (one with two services on a host), 5 CurveBS topologies that the code accepts and should not, 5 CurveFS topologies; commit, deploy, scale-out, migrate without end; two failing steps (0.43 million states, about 1.5 minutes) | only the steps it names make the stored servers differ from those of the stored topology in its order with their hosts' addresses, or mix the zones of hosts; zones never change; what is stored runs; repeating succeeds |
| `disks` | two disks of a host at three mounts, a second host that a file excludes, 4 disks files (one refused), two chunkservers; 4 commands, one failure of any kind (1.1 million states, about 3 minutes) | a format that succeeds leaves its disks ready also after a reboot; done means filled; data is never formatted away; every command ends |
| `clients` | a volume, a mount point, the target daemon with two targets (one with a translated name); 4 commands, two failures | what started is recorded; what is attached is configured; what was ended stays ended; what was attached comes back; an unmap that meets no failure succeeds, whatever is gone |
| `precheck` | 17 runs (topologies, hosts and skipped items; services with one id, and with one address), 13 environments, two in a row with one failure or kill | passing means ready and nothing left; failing means something is wrong |
| `clusters` | two names, one of them a pattern for the other, two services, three clusters ever; 3 processes, one failure or kill | success means done; rm removes only inactive clusters; the audit is truthful; one question a day |
| `clusters_checkout` | the same | violation: checkout by a pattern says it switched and leaves no current cluster |
| `status` | mds, two replicas of a chunkserver deploy, a snapshotclone, two clients; two changes meanwhile | what is displayed was so while the command ran, for every service, and merged lines too |

Bounds. In `reshape` three hosts, one with two services, are the least a commit
accepts that tells a deploy from a service; three more hosts are the least a
scale-out accepts. Migrations and scale-outs follow each other in both orders,
chunkservers, metaservers and mds are each moved or added. Two failures let one
hit the repetition of what another interrupted. When a step of `Reshape` fails,
all, all but one, one or none of its tasks took effect (`Outcomes`): no task of a
step depends on another. In `Lifecycle` the services interact only through the playbook (all of a step's tasks
must succeed), through the order of roles, and not through shared rows, so one
service of each kind the code distinguishes shows the interactions; commands
repeat without bound. One failure lets any command run into any left-over state
of any other, and those left-over states into each other; two and three failures
are checked where retries are the question. With three tasks a limit of one and
two is below the number of tasks, and a parent id has one, two or three of them.

In `disks` two disks of one host are needed for the two tasks that edit one fstab,
a second host for a file that excludes one, a file that moves the second disk's mount
and two chunkservers for records and directories that do not match; four commands allow commit, format,
deploy's binding and another format with a different file between. In `clients`
four commands are two attachments and two detachments, two failures let the second
hit the repair of the first. In `clusters` three processes and three ids let a
cluster be removed and added again while another stands; two days and two versions
are the least at which asking again is right and wrong. In `precheck` a second run
meets what the first left. In `status` two replicas are the least that can be merged,
and two tasks write the map at once in both commands. Deadlock is not checked where
the bound on commands ends the behaviour.

Fairness. `Tasks!FairSpec`: the dispatcher and every goroutine are scheduled
(weak fairness); a task is assumed to end, as its remote commands have a timeout.
`Lifecycle!FairSpec`: the process and its tasks are scheduled; the operator gives
each command again and again and repeats one that failed (strong fairness, as the
operator's other commands come between). `Reshape!FairSpec`: the playbook goes on (the tasks of a step end);
the operator deploys again and again, and repeats the last scale-out or migration
while it is accepted. `Disks!Fairness` and `Clients!Fairness`: curveadm's own steps, and docker
restarting what its policy says. No failure is fair: bounded faults end.

What the violation runs found:
- `clean` unmarks the disk before mounting it, so a retried clean has no disk
  (`lifecycle_clean`).
- `checkout` looks a cluster up by LIKE and marks it by `=`: a name that matches only
  by a wildcard or another case is said to be switched to, and no cluster is current
  (`clusters_checkout`).

What was seen while modelling, and has no run of its own:
- `Execute` completes the main bar before it sets its status, so for a moment a batch
  is shown as skipped.
- Three ways to have a chunkserver run with its disk mounted on the host as well, which
  `MountedTwiceOnly` names: a deploy that failed at its last `umount` leaves a container
  any `restart` runs; a `start` after a clean that failed, or that removed only the log,
  finds no disk with the service's id; a `clean` of a service that was not stopped mounts
  the disk under it.
- A commit may exchange two named deploys, after which `getClusterPool` gives
  each server the other's address. `getHostNum` counts deploys, not hosts, so replicas
  added to old hosts pass for new hosts, and their servers get the empty zone.
  `checkMigrateTopology` compares two numbers, so a service added beside those of
  another host passes for the whole host that it replaces.
  All three are in the instance of `reshape`, as the exceptions that
  `FaithfulUntilMisplaced` and `ZonedUntilMisplaced` name.
- `service_mount_device` of one entry of a disks file sticks to those after it.
- A refused or interrupted `disks commit` can leave two records on one mount point; a
  filling container left created makes later formats skip its disk.
- An umount whose `docker rm` lost its reply can never delete its record; `--create` of
  map is ignored; `target delete` of a name with other characters than letters removes
  the task file of another name; an interrupted `target start` is taken for a started
  daemon that has no task to come back.
- `deploy` marks every disk record of a chunkserver's host and directory, and `clean`
  unmarks by id, host and mount. An operator who moves a chunkserver's mount point from
  one disk to another has its data on a disk that no record protects: a later format
  makes a new file system on it. Hence `Kept` in `DataSafe`.
- `format` looks at the marks of the records and at its own container, never at what is on
  a disk. With an empty disk table a deploy puts a chunkserver on the disk that is mounted
  at its directory and marks nothing (`create_container.go:237`): a second `format` with
  format.yaml umounts that disk and makes a new file system on it, and so does a `format`
  after a `disks commit` that gives the disk its first record, until a deploy marks it.
  Hence `marked` in `DataSafe`.
- A target daemon that docker restarts during `target delete` can export the target again
  after `tgtadm` did not show it, and the task that brings it back may stay; hence
  `EndedStaysEnded` and `ComesBack` except a target command during which the daemon restarted.
- An import keeps the ids that the exported services had in the other cluster, so a later
  `clean` does not find them; success of `clean` is stated for the services of the topology.
- The tasks that ask hosts for their date share a map without a transaction: dates are
  lost, or the runtime kills the process.
- A service id that is given twice is never refused (`ERR_DUPLICATE_SERVICE_ID`,
  topology.go:169-180): the map `exist` that it is looked up in is never filled. The
  services then share one record and one container name, and the precheck neither
  connects them to each other nor, by timing, always fails to start the second mock
  server. Hence `~ OneId` in `PassedMeansReady` (`OneId` and `Clashes` in `Precheck`).
- In the precheck every ping goes to the last address of the list (the address of the
  loop's variable is kept), external servers of chunkservers are always refused as
  duplicates with default ports, and variables that refer to themselves exhaust the
  stack.
- A cluster whose import was interrupted blocks the next import until it is removed; a
  killed export leaves a shorter file that imports as complete.
- Not a contradiction of any text, but found while stating `RetryHeals`: after a
  clean that lost the reply of `docker rm`, alternating clean and deploy never
  succeeds (deploy marks the disk and skips create; clean unmarks it and fails to
  mount it). Two cleans in a row do. Hence the operator of `FairSpec` repeats.
- An interrupted create leaves a container only the operator can remove
  (`OrphanOnlyWhileCreating` shows that it is the only way).

## 4. Proofs

Each proof module has an inductive invariant, proved to hold initially and to be kept
by every step (one lemma per part of the invariant or per group of actions), and
the theorems that follow from it. The assumptions are the `ASSUME`s of the modules,
which TLC evaluates on the instances; the counts of services, tasks, disks, names,
topologies, hosts, runs and failures are arbitrary.

| Module | Theorems (property) |
|---|---|
| `TasksProofs` | `TypeCorrect` (`TypeOK`), `SlotsBounded` (`SlotBound`), `ExecutorImplementsBatch` (`ImplementsBatch`), `BarsAreHonest` (`BarsHonest`) |
| `LifecycleProofs` | `TypeCorrect`, `RecordStaysFaithful` (`RecordFaithful`), `SuccessIsTrue` (`SuccessMeansAchieved`), `OnlyConfiguredStart` (`StartsOnlyConfigured`), `ChunkserversStartLast` (`DeployOrder`), `NothingLost` (`ForgetOnlyRemoved`), `OrphansOnlyFromCreate` (`OrphanOnlyWhileCreating`), `DiskMountedTwice` (`MountedTwiceOnly`) |
| `ReshapeProofs` | `TypeCorrect`, `StoredWhenStarted` (`StoredOnlyStarted`), `PlacementKept` (`PlacementStable`), `Faithful` (`FaithfulUntilMisplaced`), `HostsSpread` (`ZonedUntilMisplaced`) |
| `DisksProofs` | `TypeCorrect`, `FormattedIsReady` (`OkMeansReady`), `DoneIsFilled` (`DoneMeansFilled`), `DataIsSafe` (`DataSafe`) |
| `ClientsProofs` | `TypeCorrect`, `RecordedWhenStarted` (`StartedIsRecorded`), `ConfiguredWhenAttached` (`AttachedIsConfigured`), `EndsForGood` (`EndedStaysEnded`), `UnmapSucceeds` (`UnmapForgets`) |
| `PrecheckProofs` | `PrecheckInvariant`, `PrecheckTypeOK` (`TypeOK`), `PrecheckPassedMeansReady` (`PassedMeansReady`), `PrecheckFailedMeansWrong` (`FailedMeansWrong`), `ParsedServices` |
| `ClustersProofs` | `TypeCorrect`, `AuditIsTruthful` (`AuditTruthful`), `AskedOnlyOnce` (`AskedOnceADay`), `RemovedWereInactive` (`RemovesOnlyInactive`), `SuccessIsDone` (`SuccessMeansDone`) |
| `StatusProofs` | `Invariance`, `OneWriter`, `StatusIsTrue` (`ShownTrue`) |

**Tasks.** `SlotBound` speaks of the running tasks, while the code counts slots. `IInv`
adds `Order` (the dispatcher has spawned exactly the tasks before `next`), `Counts`
(`workers` is the number of goroutines that hold a slot, plus the dispatcher's while
it is between acquire and spawn) and `Errors` (the monitor's error is the outcome of a
task that failed, and is there once a failed task was recorded). Refinement maps each
action to a step of `Batch` or a stutter, under `IInv`. For the bars, a second part adds
that the tasks hold bars of their own (`Numbered`), that what the monitor and the
bars count is what the tasks that went through returned (`Tallied`), and that the
main bar keeps the status it was given (`MainShown`).

**Lifecycle.** That a record names the container docker has cannot be kept without
knowing where each task stands: between create and insert there is a container that
only the task knows, and a task uses the id it has read. `Located` and `Placed` say
so for each step of each task, `Tasked` which services have tasks, `Progress` what
the steps of the playbook that are done have achieved. From there success, the
order of deploy and the action properties follow. `MountedTwiceOnly` is about all
commands: the code can leave a disk mounted on the host under a running container, and
the property says by which steps, so by no others. Its proof adds that a start's task
has found the mark the service has (`Unmounted`), that deploy and upgrade have marked
the disk before (`MarkedBeforeStart`), and that nothing runs which an upgrade cleans
(`Stopped`).

**Reshape.** Each step that is left of a playbook is about the services which the
difference of the stored and the new topology gives it, and only the last one
stores (`Planned`); when no `START_SERVICE` is left the new services run, when no
`CLEAN_SERVICE` is left the old ones are cleaned (`Progress`). `PoolHeld` keeps the
stored pool well-formed. `Faithful` is about the merge by position: in a step that
leaves services in place (`InPlace`, which follows from `~ Misplaces`), the sorted
storage services of the new topology are the old ones, with the new ones behind, or at
the places of those they replace (`NewOrder`), so the pool made from the stored one
lists the servers of the topology it is stored with. The topologies are any that
`TopologiesAssumption` allows: the theorem has no hypothesis about what the operator
writes.
That rests on lemmas about `SortDeployConfigs`: it lists each service once in the
order of `Before` (`Sorted`), and whatever does so is its result (`SortUnique`).
`HostsSpread` adds the zones, for which positions are enough. In the sorted services
of whole deploys the first one of each deploy comes before the others of it, so the
number of first ones up to a position, of which `Zone` is the remainder, is the same
for all services of a deploy, and takes every value up to the number of deploys
(`ZonesSpread`, `Numbered`). While no pool is stored the stored topology has three such
deploys, which a commit checks and the other commands keep (`Founded`); so the first pool
has, in every logical pool, one zone for a deploy and a server in all zones (`Spread`).
A pool that is stored and has its hosts in one zone each is spread too, as the services
of a deploy are on one host (`MeansSpread`); then a migration keeps zones and places, a
scale-out adds a logical pool made of three whole deploys of its own (`AddedWhole`), and
where no deploys share a host two servers with one address are of one deploy
(`SpreadMeans`).

**Disks.** `Locked`: whoever edits an fstab holds the lock, so what it has read is
still what the file says. `Progress`: mkfs has made a UUID that no line has until
this task adds one, with the mount of the disk. `Prepared`: a disk that was formatted
stays ready until the next command, also over a reboot. `Homed`: the data of a
chunkserver that is `Kept` is on the disk that the files put at its directory, with a
record or without, and once it is `marked` that disk has a record with its directory and
id. The first half is what makes a later mark fall on the right disk: the record with the
directory is that of the disk the data came to when there was none. `Tasked`: a task works
on an unmarked record, and nothing marks records meanwhile. Together: what `format`
formats has no marked data.

**Clients.** What each container was given (`Configured`), which docker's restart makes
effective at any moment, and what the steps before the one a command is at have
established: `Creates` for map, mount and the target commands, `Ends` for unmap, umount
and `target stop`, `Deletes` for `target delete`.

**Precheck.** A check is about what the steps before it did: a port that is listened on
is another program's only if no mock server is left, an address that does not answer
is hidden by the network only if its mock server is up. `Mocked` and `NetworkChecked`
say what the steps that are behind a run (`Past`) have established; of the steps' order
only that of cleaning, ports, starting and firewall is needed (`Places`), and that the
next step is the first one left and included (`StepIsNext`, `Behind`, `Order`). From
there what a check finds is among what is to be found wrong (`CheckFinds`), and a run
that has everything behind found the ports free and the network open (`Passed`). What
the configuration of a service names are addresses the firewall was checked for
(`ConfiguredChecked`): that needs that roles are known and that every service has the
variables of the whole topology, which `PrecheckRunsAssumption` says of the runs and
`ParsedServices` proves of the parser, for every topology text, hosts.yaml and list of
skipped items. Its one hypothesis on the text, `Shaped`, is that of the YAML decoder:
deploys are a list and replicas are integers.

**Clusters.** `Audited` and `Asked` are about the process: the row of a command that no
longer runs tells how it ended, versions are offered in increasing order and never
twice a day. `Unique` is about the table: where a name matches another as a pattern
it has the greater id, as nobody can add a cluster whose name an existing one
matches; so the first match of the name of a row is that row. `Progress` is what
the steps of export, import, deploy and clean have achieved.

**Status.** `Witnessed` and `Honest`: what a task remembers and what the map says was so
at some time while the command ran; `Excluded`: the lock keeps the map as the
transaction has fetched it (`OneWriter`: two tasks never write at once); `Mapped`: the
entries are those of the tasks that are done.

What stays with TLC:
- liveness (`Returns`, `RetryHeals`, `RepeatingSucceeds`, `CommandEnds`, `ComesBack`): TLAPS does
  not prove `ENABLED`, which fairness needs;
- what the text of each variable and setting becomes, for every chain of references:
  that is induction over data. The runs of `precheck` evaluate it on their topologies;
- that the properties the two violation runs check are violated.

## 5. Plan

Every invariant and every action property that the runs check is proved; what a later
version of this project may add is what follows.

### Not modelled

- Playground, pfs and support: development helpers beside the cluster's life.
- Client install, uninstall and enter; cluster list and show; ssh, exec: they run one
  command or read.
- Migration of a database of an older version (once per installation), and the
  playgrounds table.
- Two curveadm processes at the same time: nothing in the code orders them, and no text
  says they may.
- The contents of configuration files, templates of remote commands, tables and prompts:
  data without control.
- `internal/playbook/tasks` and `internal/task/tasks`: copies nothing imports.
- `commit --force`, `deploy --skip` followed by other commands in `Reshape`.
