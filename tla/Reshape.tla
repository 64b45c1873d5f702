-------------------------------- MODULE Reshape --------------------------------
(***************************************************************************)
(* How the topology and the pool of a cluster change: commit, deploy,      *)
(* scale-out and migrate, over the stored topology and pool (one row of    *)
(* the database) and the containers of the services.                       *)
(*                                                                         *)
(* A command that is not refused is a playbook; a step runs one task per   *)
(* service (module Lifecycle says how), of which any can fail or lose its  *)
(* reply, and the process can be killed.  Then the command is over with    *)
(* any part of the step done, and the operator gives the same or another.  *)
(*                                                                         *)
(* The steps that change nothing kept here (BACKUP_ETCD_DATA, PULL_IMAGE,  *)
(* SYNC_CONFIG, the prechecks) are left out: one that fails ends the       *)
(* command as the step after it does that fails before it did anything.    *)
(***************************************************************************)
EXTENDS ClusterPool

CONSTANTS
  Topologies,    \* the topologies the operator writes, known by their number
  MaxFaults      \* bound: how many steps fail

ASSUME TopologiesAssumption ==
  \A n \in DOMAIN Topologies :
    LET text == Topologies[n]
        dcs  == ParseTopology(text)
    IN /\ n # 0 /\ text.kind \in {"curvebs", "curvefs"}
       /\ \A role \in DOMAIN text.services : \A i \in DOMAIN text.services[role] :
            LET deploy == text.services[role][i]
            IN i \in Nat \ {0} /\ deploy.replicas \in Nat \ {0} /\ deploy.port \in Nat
       /\ IsFiniteSet(dcs)
       /\ \A dc1, dc2 \in dcs : dc1.id = dc2.id => dc1 = dc2
       /\ FilterDeployConfigByRole(dcs, "mds") # {}
       /\ FilterDeployConfigByRole(dcs, StorageRole(text.kind)) # {}
ASSUME NumbersAssumption == Copysets \in Nat /\ MaxFaults \in Nat

VARIABLES
  topology,    \* clusters.topology: the stored topology
  pool,        \* clusters.pool: the stored pool
  container,   \* [ServiceId -> what its row and docker say of its container]
  job,         \* the command, how it ended, and the last topology that a
               \* scale-out or a migration was given
  todo,        \* its steps that are left
  faults       \* how many steps have failed

stored == <<topology, pool>>
vars == <<stored, container, job, todo, faults>>

None == 0             \* no topology stored
Written == DOMAIN Topologies
Kind == [n \in Written |-> Topologies[n].kind]

\* What each topology describes.
Services == [n \in Written \cup {None} |->
               IF n = None THEN {} ELSE ParseTopology(Topologies[n])]

Added(old, new) == DiffAdd(Services[old], Services[new])
Deleted(old, new) == DiffDelete(Services[old], Services[new])

StorageInOrder ==
  [n \in Written |->
     SortDeployConfigs(FilterDeployConfigByRole(Services[n], StorageRole(Kind[n])))]
Default == [n \in Written |-> DefaultClusterPool(StorageInOrder[n])]

ServiceId == UNION {Ids(Services[n]) : n \in Written}

\* "none": no row; "cleaned": the row says "-".
ContainerState == {"none", "created", "running", "exited", "cleaned"}
HasContainer(id) == container[id] \in {"created", "running", "exited"}

ByRole(n, role) == Ids(FilterDeployConfigByRole(Services[n], role))

\* FilterDeployConfigByRole(dcs, ROLE_MDS)[:1].
FirstMds(n) ==
  {dc.id : dc \in {dc \in FilterDeployConfigByRole(Services[n], "mds") :
                     dc.hostSequence = 0 /\ dc.replicasSequence = 0}}

-----------------------------------------------------------------------------
(* Playbooks: the steps, with the services each is about. *)

On(type, ids) == [type |-> type, on |-> ids]

\* CURVEBS_DEPLOY_STEPS and CURVEFS_DEPLOY_STEPS.
DeploySteps(n) ==
  << On("CREATE_CONTAINER", Ids(Services[n])),
     On("START_SERVICE", ByRole(n, "etcd")), On("START_SERVICE", ByRole(n, "mds")) >>
  \o (IF Kind[n] = "curvebs"
      THEN << On("CREATE_PHYSICAL_POOL", FirstMds(n)),
              On("START_SERVICE", ByRole(n, "chunkserver")),
              On("CREATE_LOGICAL_POOL", FirstMds(n)),
              On("START_SERVICE", ByRole(n, "snapshotclone")) >>
      ELSE << On("CREATE_LOGICAL_POOL", FirstMds(n)),
              On("START_SERVICE", ByRole(n, "metaserver")) >>)

\* How a scale-out and a migration go on once the containers are created.
StartNew(role, old, ids) ==
  CASE role = "chunkserver" -> << On("CREATE_PHYSICAL_POOL", FirstMds(old)),
                                  On("START_SERVICE", ids),
                                  On("CREATE_LOGICAL_POOL", FirstMds(old)) >>
    [] role = "metaserver"  -> << On("START_SERVICE", ids),
                                  On("CREATE_LOGICAL_POOL", FirstMds(old)) >>
    [] OTHER                -> << On("START_SERVICE", ids), On("UPDATE_TOPOLOGY", {}) >>

\* SCALE_OUT_ROLE_STEPS with genScaleOutPlaybook's services.
ScaleOutSteps(old, new) ==
  LET add == Added(old, new)
  IN << On("CREATE_CONTAINER", Ids(add)) >>
     \o StartNew((CHOOSE dc \in add : TRUE).role, old, Ids(add))

\* MIGRATE_ROLE_STEPS with genMigratePlaybook's services.
MigrateSteps(old, new) ==
  LET add == Added(old, new)
      del == Deleted(old, new)
  IN << On("STOP_SERVICE", Ids(del)), On("CLEAN_SERVICE", Ids(del)),
        On("CREATE_CONTAINER", Ids(add)) >>
     \o StartNew((CHOOSE dc \in add : TRUE).role, old, Ids(add))

-----------------------------------------------------------------------------
(* The operator. *)

\* The topologies that each command accepts, by the stored one, and what it
\* does for them; all but commit need a stored one.
Commits == [old \in DOMAIN Services |->
              {new \in Written : /\ CheckServices(Kind[new], Services[new])
                                /\ CommitAllowed(Services[old], Services[new])}]
DeployPlaybook == [old \in Written |-> DeploySteps(old)]
ScaleOuts == [old \in Written |->
                [new \in {new \in Written : ScaleOutAllowed(Services[old], Services[new])}
                   |-> ScaleOutSteps(old, new)]]
Migrates == [old \in Written |->
               [new \in {new \in Written : MigrateAllowed(Services[old], Services[new])}
                  |-> MigrateSteps(old, new)]]

AddedInOrder ==
  [old \in Written |-> [new \in DOMAIN ScaleOuts[old] \cup DOMAIN Migrates[old] |->
     SortDeployConfigs(Added(old, new))]]
DeletedInOrder ==
  [old \in Written |-> [new \in DOMAIN Migrates[old] |-> SortDeployConfigs(Deleted(old, new))]]

Init ==
  /\ topology = None /\ pool = NoPool
  /\ container = [id \in ServiceId |-> "none"]
  /\ job = [name |-> "none", new |-> None, result |-> "ok"]
  /\ todo = << >>
  /\ faults = 0

Idle == job.result # "running"

Begin(name, new, steps) ==
  /\ job' = [name |-> name, new |-> new, result |-> "running"]
  /\ todo' = steps
  /\ UNCHANGED <<stored, container, faults>>

\* runCommit stores the topology if the difference allows it.
Commit(new) ==
  /\ Idle
  /\ new \in Commits[topology]
  /\ topology' = new
  /\ UNCHANGED <<pool, container, job, todo, faults>>

Deploy ==
  /\ Idle /\ topology # None
  /\ Begin("deploy", job.new, DeployPlaybook[topology])

ScaleOut(new) ==
  /\ Idle /\ topology # None
  /\ new \in DOMAIN ScaleOuts[topology]
  /\ Begin("scale-out", new, ScaleOuts[topology][new])

Migrate(new) ==
  /\ Idle /\ topology # None
  /\ new \in DOMAIN Migrates[topology]
  /\ Begin("migrate", new, Migrates[topology][new])

-----------------------------------------------------------------------------
(* The playbook. *)

Step == Head(todo)

Doing(type) == ~ Idle /\ todo # << >> /\ Step.type = type

Finish(result) ==
  /\ job' = [job EXCEPT !.result = result]
  /\ todo' = << >>

\* The tasks of `done` took effect.  The playbook goes on if they are all and
\* none failed; or a task failed, lost its reply, or the process was killed.
Fail ==
  /\ faults < MaxFaults
  /\ faults' = faults + 1
  /\ Finish("error")

Advance(done) ==
  \/ /\ done = Step.on
     /\ todo' = Tail(todo)
     /\ UNCHANGED <<job, faults>>
  \/ Fail

\* Variant: a cleaned service is taken for one that has a container.
MustCreateNew(id) == container[id] = "none"

\* Tasks skip a service that has a container.
MustCreate(id) == ~ HasContainer(id)

CreateContainer(done) ==
  /\ Doing("CREATE_CONTAINER")
  /\ container' = [id \in ServiceId |->
                     IF id \in done /\ MustCreate(id) THEN "created" ELSE container[id]]
  /\ Advance(done)
  /\ UNCHANGED stored

StartService(done) ==
  /\ Doing("START_SERVICE")
  /\ \A id \in Step.on : HasContainer(id)
  /\ container' = [id \in ServiceId |-> IF id \in done THEN "running" ELSE container[id]]
  /\ Advance(done)
  /\ UNCHANGED stored

\* Tasks skip a cleaned service.
StopService(done) ==
  /\ Doing("STOP_SERVICE")
  /\ \A id \in Step.on : container[id] # "none"
  /\ container' = [id \in ServiceId |->
                     IF id \in done /\ container[id] = "running" THEN "exited" ELSE container[id]]
  /\ Advance(done)
  /\ UNCHANGED stored

\* Only the container; docker rm does not remove one that runs.
CleanService(done) ==
  /\ Doing("CLEAN_SERVICE")
  /\ \A id \in Step.on : container[id] \notin {"none", "running"}
  /\ container' = [id \in ServiceId |-> IF id \in done THEN "cleaned" ELSE container[id]]
  /\ Advance(done)
  /\ UNCHANGED stored

\* Variant: a scale-out that is tried again adds to the pool it has stored.
StoresPool(type) == type \in {"CREATE_PHYSICAL_POOL", "CREATE_LOGICAL_POOL"}

\* step2SetClusterPool is added for the logical pool only.
StoresLogicalPool(type) == type = "CREATE_LOGICAL_POOL"

\* prepare: the pool the tool is given, and that is stored with the topology.
NewPool ==
  LET old == GetClusterPool(Kind[topology], Default[topology], pool)
  IN CASE job.name = "scale-out" -> ScaleOutClusterPool(old, AddedInOrder[topology][job.new])
       [] job.name = "migrate"   -> MigrateClusterServer(old, AddedInOrder[topology][job.new],
                                                         DeletedInOrder[topology][job.new])
       [] OTHER                  -> old

\* KEY_NEW_TOPOLOGY_DATA, which deploy does not set.
NewTopology == IF job.name = "deploy" THEN topology ELSE job.new

PoolPossible ==
  /\ \A id \in Step.on : container[id] = "running"
  /\ ~ GetClusterPoolPanics(Default[topology], pool)

\* NewCreateTopologyTask, in the container of an mds.
CreatePool(done) ==
  /\ Doing("CREATE_PHYSICAL_POOL") \/ Doing("CREATE_LOGICAL_POOL")
  /\ PoolPossible
  /\ IF done # {} /\ StoresLogicalPool(Step.type)
     THEN topology' = NewTopology /\ pool' = NewPool
     ELSE UNCHANGED stored
  /\ Advance(done)
  /\ UNCHANGED container

\* NewUpdateTopologyTask, about no service.
UpdateTopology ==
  /\ Doing("UPDATE_TOPOLOGY")
  /\ \/ topology' = job.new /\ Advance({})
     \/ UNCHANGED topology /\ Fail
  /\ UNCHANGED <<pool, container>>

\* createTasks or a task finds what it is about not as it has to be.
StepRefused ==
  /\ ~ Idle /\ todo # << >>
  /\ \/ Step.type = "START_SERVICE" /\ \E id \in Step.on : ~ HasContainer(id)
     \/ Step.type = "STOP_SERVICE" /\ \E id \in Step.on : container[id] = "none"
     \/ Step.type \in {"CREATE_PHYSICAL_POOL", "CREATE_LOGICAL_POOL"} /\ ~ PoolPossible
  /\ Finish("error")
  /\ UNCHANGED <<stored, container, faults>>

Succeed ==
  /\ ~ Idle /\ todo = << >>
  /\ Finish("ok")
  /\ UNCHANGED <<stored, container, faults>>

-----------------------------------------------------------------------------

Work(done) ==
  \/ CreateContainer(done) \/ StartService(done) \/ StopService(done)
  \/ CleanService(done) \/ CreatePool(done)

\* Without a failure all tasks take effect.  Bound: with one, all, all but one,
\* one, or none.
Outcomes ==
  {Step.on} \cup
  (IF faults = MaxFaults THEN {}
   ELSE {{}} \cup {{id} : id \in Step.on} \cup {Step.on \ {id} : id \in Step.on})

PlaybookStep ==
  \/ ~ Idle /\ todo # << >> /\ \E done \in Outcomes : Work(done)
  \/ UpdateTopology \/ StepRefused \/ Succeed

Next ==
  \/ \E new \in Written : Commit(new) \/ ScaleOut(new) \/ Migrate(new)
  \/ Deploy
  \/ PlaybookStep

Spec == Init /\ [][Next]_vars

\* The last scale-out or migration again.
Repeat == ScaleOut(job.new) \/ Migrate(job.new)

\* The playbook goes on.  While it is not over nothing else happens, so it is
\* enough to be fair to the steps that take effect as a whole.
Proceed ==
  \/ ~ Idle /\ todo # << >> /\ Work(Step.on)
  \/ UpdateTopology \/ StepRefused \/ Succeed

\* The process runs; the operator deploys again and again, and again and again
\* repeats the last scale-out or migration while it is accepted.
FairSpec == Spec /\ WF_vars(Proceed) /\ SF_vars(Deploy) /\ SF_vars(Repeat)

-----------------------------------------------------------------------------
(* Properties. *)

Server == [name : UNION {{ServerName(dc) : dc \in Services[n]} : n \in Written},
           ip   : UNION {{dc.host : dc \in Services[n]} : n \in Written},
           port : Nat, zone : NoZone .. DEFAULT_ZONES_PER_POOL, pool : Nat \ {0}]

TypeOK ==
  /\ topology \in Written \cup {None}
  /\ pool.servers \in Seq(Server)
  /\ pool.npools = Len(pool.logicalPools)
  /\ \A i \in 1 .. pool.npools :
       pool.logicalPools[i].name = i /\ pool.logicalPools[i].copysets \in Nat \ {0}
  /\ container \in [ServiceId -> ContainerState]
  /\ job \in [name : {"none", "deploy", "scale-out", "migrate"},
              new : Written \cup {None}, result : {"running", "ok", "error"}]
  /\ todo \in Seq([type : {"CREATE_CONTAINER", "START_SERVICE", "STOP_SERVICE",
                           "CLEAN_SERVICE", "CREATE_PHYSICAL_POOL", "CREATE_LOGICAL_POOL",
                           "UPDATE_TOPOLOGY"},
                   on : SUBSET ServiceId])
  /\ faults \in 0 .. MaxFaults

\* "curveadm gurantee oldPool and pool has same servers" (getClusterPool): the
\* servers of the stored pool are those of the stored topology, in its order,
\* without which the merge by position gives a server another's address.
Names(servers) == [i \in DOMAIN servers |-> servers[i].name]

SameServers == pool # NoPool => Names(pool.servers) = Names(Default[topology].servers)

\* Every server is registered with the address of the host it is named after.
AddressOfHost ==
  \A i \in DOMAIN pool.servers : pool.servers[i].ip = pool.servers[i].name[1]

\* What is stored of the servers is true of the hosts.
ServersFaithful == SameServers /\ AddressOfHost

\* The copies of a pool's data are on different hosts: in each pool there are
\* servers in three zones, and those on one host are in one zone.
HostsInOneZone ==
  /\ \A i, j \in DOMAIN pool.servers :
       pool.servers[i].ip = pool.servers[j].ip /\ pool.servers[i].pool = pool.servers[j].pool
         => pool.servers[i].zone = pool.servers[j].zone
  /\ \A k \in 1 .. pool.npools :
       {pool.servers[i].zone : i \in {i \in DOMAIN pool.servers : pool.servers[i].pool = k}}
         = 1 .. DEFAULT_ZONES_PER_POOL

Storage(n) == FilterDeployConfigByRole(Services[n], StorageRole(Kind[n]))

\* A storage service stays, but not at its place among the deploys: with names
\* they can be given in another order, which is no difference to a commit.
Reordered(old, new) ==
  \E dc1 \in Storage(old), dc2 \in Services[new] :
    dc1.id = dc2.id /\ dc1.hostSequence # dc2.hostSequence

\* A scale-out that does not add whole deploys behind the others.
AddedAmong(old, new) ==
  /\ new \in DOMAIN ScaleOuts[old]
  /\ \E dc \in Storage(old), add \in Added(old, new) :
       dc.role = add.role /\ dc.hostSequence >= add.hostSequence

\* A migration whose i-th new service is not where the i-th old one was.
MigratedAside(old, new) ==
  /\ new \in DOMAIN Migrates[old]
  /\ \E i \in DOMAIN DeletedInOrder[old][new] :
       LET from == DeletedInOrder[old][new][i]
           to   == AddedInOrder[old][new][i]
       IN /\ from.role = StorageRole(Kind[old])
          /\ \/ from.hostSequence # to.hostSequence
             \/ from.replicasSequence # to.replicasSequence

\* All three are accepted, and the merge by position does not bear them.
Misplaces(old, new) ==
  /\ old # None
  /\ Reordered(old, new) \/ AddedAmong(old, new) \/ MigratedAside(old, new)

\* A host with two deploys of the storage role: createServers and the checks
\* count deploys and take them for hosts.
SharesHost(n) ==
  \E dc1, dc2 \in Storage(n) : dc1.host = dc2.host /\ dc1.hostSequence # dc2.hostSequence

\* The stored servers stay true of the hosts whatever is committed, scaled out
\* or migrated, and whichever attempts failed before: only the step that stores
\* a topology that moves storage services to other places makes them untrue.
FaithfulUntilMisplaced ==
  [][ServersFaithful /\ ~ ServersFaithful' => Misplaces(topology, topology')]_vars

\* The copies of data stay on different hosts as long: servers that are true
\* lose it only with such a topology, or with one in which deploys share a host.
ZonedUntilMisplaced ==
  [][ServersFaithful /\ HostsInOneZone /\ ~ HostsInOneZone' =>
       Misplaces(topology, topology') \/ SharesHost(topology')]_vars

\* Once it is stored a server keeps its zone and its pool, whoever takes its
\* place; a pool only grows.
PlacementStable ==
  [][\A i \in DOMAIN pool.servers :
       /\ i \in DOMAIN pool'.servers
       /\ pool'.servers[i].zone = pool.servers[i].zone
       /\ pool'.servers[i].pool = pool.servers[i].pool]_vars

\* A scale-out or a migration stores its topology, of which all later commands
\* take what there is, only when its new services run and the old ones are
\* gone: one that failed before is still a difference, and can be repeated.
StoredOnlyStarted ==
  [][topology' # topology /\ ~ Idle =>
       /\ \A dc \in Added(topology, topology') : container[dc.id] = "running"
       /\ \A dc \in Deleted(topology, topology') : container[dc.id] = "cleaned"]_vars

\* Whatever failed on the way, and whatever was begun and given up before:
\* again and again the scale-out or migration that was begun last is stored
\* (but for what a commit may change), and again and again deploy succeeds.
Wanted == job.new = None \/ job.new = topology \/ job.new \in Commits[topology]

RepeatingSucceeds ==
  /\ []<>Wanted
  /\ []<>(topology = None \/ (job.name = "deploy" /\ job.result = "ok"))

=============================================================================
