------------------------------- MODULE Precheck -------------------------------
(***************************************************************************)
(* The command `precheck': whether the hosts are ready for the services of *)
(* a topology.  It starts a mock server, a container, for every service on *)
(* the addresses the service will have, connects to them from the hosts of *)
(* the others, and removes them again.                                     *)
(*                                                                         *)
(* The tasks of a step run concurrently; a step is one action, for what    *)
(* they do depends on each other only where mock servers clash, except     *)
(* that the tasks that ask the hosts for their date write one map.         *)
(***************************************************************************)
EXTENDS Checks

CONSTANTS
  Runs,          \* what precheck is run with, as Parsed gives it
  Environments,  \* what the hosts are like, as Checks has it, with the hosts' clock
  Slow,          \* bound: the services whose task may be the one that fails or is killed
  Fault,         \* the kinds of failure considered
  MaxRuns,       \* bound: how often precheck is run
  MaxFaults      \* bound: how many failures happen

ASSUME PrecheckFaultAssumption ==
  Fault \subseteq {"fails", "kill"} /\ MaxRuns \in Nat /\ MaxFaults \in Nat

Nil == "nil"

VARIABLES
  run,       \* the run of Runs, parsed: [err, dcs, hcs, skip]
  env,       \* the environment
  mock,      \* [service's id -> its mock server: "absent", "created" or "running"]
  job,       \* the step the command is at, its result, whether a failure hit it,
             \* and whether one hit its cleaning up
  date,      \* the tasks that ask for dates: where they are, the map they were given,
             \* the maps (each named for the host whose task made it), and the one shared
  runs,      \* how often precheck was run
  faults     \* how many failures have happened

vars == <<run, env, mock, job, date, runs, faults>>

-----------------------------------------------------------------------------

CURVEBS_PRECHECK_STEPS ==
  <<"CHECK_TOPOLOGY", "CHECK_SSH_CONNECT", "CHECK_PERMISSION", "CHECK_KERNEL_VERSION",
    "CLEAN_PRECHECK_ENVIRONMENT", "CHECK_PORT_IN_USE", "CHECK_DESTINATION_REACHABLE",
    "START_HTTP_SERVER", "CHECK_NETWORK_FIREWALL", "GET_HOST_DATE", "CHECK_HOST_DATE",
    "CHECK_DISK_SIZE", "CHECK_CHUNKFILE_POOL">>

\* Variant: what an earlier precheck left is not cleaned first.
CURVEFS_PRECHECK_STEPS_NoClean ==
  <<"CHECK_TOPOLOGY", "CHECK_SSH_CONNECT", "CHECK_PERMISSION", "CHECK_PORT_IN_USE",
    "START_HTTP_SERVER", "CHECK_DESTINATION_REACHABLE", "CHECK_NETWORK_FIREWALL",
    "GET_HOST_DATE", "CHECK_HOST_DATE">>

CURVEFS_PRECHECK_STEPS ==
  <<"CHECK_TOPOLOGY", "CHECK_SSH_CONNECT", "CHECK_PERMISSION", "CLEAN_PRECHECK_ENVIRONMENT",
    "CHECK_PORT_IN_USE", "START_HTTP_SERVER", "CHECK_DESTINATION_REACHABLE",
    "CHECK_NETWORK_FIREWALL", "GET_HOST_DATE", "CHECK_HOST_DATE">>

\* The item a step belongs to.  The mock servers belong to none.
BELONG_CHECK_ITEM ==
  [CHECK_TOPOLOGY |-> "topology", CHECK_SSH_CONNECT |-> "ssh", CHECK_PERMISSION |-> "permission",
   CHECK_KERNEL_VERSION |-> "kernel", CHECK_PORT_IN_USE |-> "network",
   CHECK_DESTINATION_REACHABLE |-> "network", CHECK_NETWORK_FIREWALL |-> "network",
   GET_HOST_DATE |-> "date", CHECK_HOST_DATE |-> "date", CHECK_DISK_SIZE |-> "disk",
   CHECK_CHUNKFILE_POOL |-> "service"]

\* CHECK_ITEMS, which --skip accepts: the disk is not one of them.
CHECK_ITEMS == {"topology", "ssh", "permission", "kernel", "network", "date", "service"}

\* --skip is checked; and every service that is parsed has one of the roles and,
\* with AddClusterVariables, the variables of the whole topology.
ASSUME PrecheckRunsAssumption ==
  \A r \in Runs :
    /\ r.skip \subseteq CHECK_ITEMS
    /\ r.err = "none" =>
         \A dc \in ToSet(r.dcs) :
           /\ dc.role \in DOMAIN CONNECT
           /\ \A name \in DOMAIN ClusterVariables(r.dcs) :
                dc.variables[name] = ClusterVariables(r.dcs)[name]

Skipped(step, skip) == step \in DOMAIN BELONG_CHECK_ITEM /\ BELONG_CHECK_ITEM[step] \in skip

AllSteps == IF run.dcs[1].kind = "curvebs" THEN CURVEBS_PRECHECK_STEPS
                                            ELSE CURVEFS_PRECHECK_STEPS

\* skipPrecheckSteps, and genPrecheckPlaybook leaves out the disks if there is no
\* record of any.
Included(step) == /\ ~ Skipped(step, run.skip)
                  /\ step = "CHECK_DISK_SIZE" => env.disks # {}

\* What the files and the options of a run, [text, hosts, skip], are parsed to: a
\* topology, hosts.yaml, and the items of --skip.
Parsed(files) ==
  LET hosts == ParseHosts(files.hosts, [file \in {<<<<"word", "/">>, <<"word", "id_rsa">>>>} |-> "600"])
      topology == ParseTopology(files.text, Lookup(hosts.hcs))
  IN [err |-> IF hosts.err = "none" THEN topology.err ELSE hosts.err,
      dcs |-> topology.dcs, hcs |-> hosts.hcs, skip |-> files.skip]

Services == ToSet(run.dcs)
Host == {dc.host : dc \in Services}
ChunkServers == {dc \in Services : dc.role = "chunkserver"}

NoDates == [at |-> <<>>, given |-> <<>>, maps |-> <<>>, shared |-> Nil]

Init ==
  /\ run \in Runs
  /\ env \in Environments
  /\ mock = [id \in {dc.id : dc \in Services} |-> "absent"]
  /\ job = [at |-> 0, result |-> "none", hit |-> FALSE, left |-> FALSE]
  /\ date = NoDates
  /\ runs = 0 /\ faults = 0

-----------------------------------------------------------------------------
(* Mock servers.                                                             *)

\* nginx listens on all addresses of the service, or ends if it cannot, or if one
\* of them is there twice.
Starts(dc) ==
  /\ IsInjective(ListenAddresses(dc))
  /\ \A address \in ToSet(ListenAddresses(dc)) :
       \A l \in env.used : l[1] = dc.host => l[2] # address

\* What is listened on: by other programs and by the mock servers.
Listening ==
  env.used \cup UNION {{<<dc.host, address>> : address \in ToSet(ListenAddresses(dc))} :
                       dc \in {d \in Services : mock[d.id] = "running"}}

SharesAddress(dc1, dc2) ==
  /\ dc1.host = dc2.host
  /\ ToSet(ListenAddresses(dc1)) \cap ToSet(ListenAddresses(dc2)) # {}

\* Services that cannot have their mock servers at once: their containers have one
\* name, the parser not refusing an id given twice, or their nginx one address,
\* with the topology not checked.
Clash(dc1, dc2) == dc1 # dc2 /\ (dc1.id = dc2.id \/ SharesAddress(dc1, dc2))
Clashes == \E dc1 \in Services : \/ ~ IsInjective(ListenAddresses(dc1))
                                \/ \E dc2 \in Services : Clash(dc1, dc2)

OneId == \E dc1, dc2 \in Services : dc1.id = dc2.id /\ dc1 # dc2

\* The services whose mock server can come up, and the sets of those that may: of
\* services that clash, whichever comes first.
Able(broken) ==
  {dc \in Services : /\ dc.id \notin broken /\ mock[dc.id] = "absent"
                    /\ dc.host \in env.docker /\ Starts(dc)}

ComeUp(able) ==
  LET contested == {dc \in able : \E d \in able : Clash(dc, d)}
      Settled(first) == /\ \A dc1, dc2 \in first : ~ Clash(dc1, dc2)
                        /\ \A dc \in contested \ first : \E d \in first : Clash(dc, d)
  IN {(able \ contested) \cup first : first \in {f \in SUBSET contested : Settled(f)}}

\* The tasks of START_HTTP_SERVER: a container that ends is removed.  A task of
\* `broken' ends early.
Started(up, broken, early) ==
  [id \in DOMAIN mock |->
     IF mock[id] # "absent" THEN mock[id]
     ELSE IF id \in broken /\ \E dc \in Services : dc.id = id /\ dc.host \in env.docker THEN early
     ELSE IF \E dc \in up : dc.id = id THEN "running" ELSE "absent"]

StartSucceeds == \A dc \in Services : mock[dc.id] = "absent" /\ dc.host \in env.docker

\* The name of a mock server that is up was free when it was created: the ones that
\* had it too have ended.
NamesFree(up) ==
  \A dc \in up : \A other \in Services :
    other.id = dc.id /\ other # dc =>
      ~ Starts(other) \/ \E d \in up : d.id # other.id /\ SharesAddress(d, other)

\* Variant: a container that is stopped stays.
CleanedStopped(broken) ==
  [id \in DOMAIN mock |-> IF mock[id] = "running" THEN "exited" ELSE mock[id]]

\* The tasks of CLEAN_PRECHECK_ENVIRONMENT.  A container that is stopped is
\* removed by docker; that it was gone already when removed is ignored.
Cleaned(broken) ==
  [id \in DOMAIN mock |->
     IF id \in broken \/ (CHOOSE d \in Services : d.id = id).host \notin env.docker
     THEN mock[id] ELSE "absent"]

CleanSucceeds == Host \subseteq env.docker

-----------------------------------------------------------------------------
(* The command.                                                              *)

Running == job.result = "running"

\* The steps that are left, by their place, and the next of them.
Left == {i \in DOMAIN AllSteps : i >= job.at /\ Included(AllSteps[i])}
Step == IF Left = {} THEN "none" ELSE AllSteps[Min(Left)]

Begin ==
  /\ ~ Running /\ runs < MaxRuns
  /\ runs' = runs + 1
  /\ job' = [at |-> 1, hit |-> FALSE, left |-> FALSE,
             result |-> IF run.err = "none" THEN "running"
                        ELSE IF run.err = "error" THEN "failed" ELSE "died"]
  /\ date' = NoDates
  /\ UNCHANGED <<run, env, mock, faults>>

\* Between two runs, the hosts may become another environment.
Change ==
  /\ ~ Running /\ runs < MaxRuns /\ job.result # "none"
  /\ env' \in Environments \ {env}
  /\ job' = [job EXCEPT !.result = "none"]
  /\ UNCHANGED <<run, mock, date, runs, faults>>

\* What was collected is in the map that is shared.
Dates ==
  IF date.shared = Nil THEN <<>>
  ELSE [host \in date.maps[date.shared] |-> env.clock[host]]

\* Whether the tasks of a step that changes nothing succeed.
Succeeds(step) ==
  CASE step = "CHECK_TOPOLOGY" -> CheckTopology(run.dcs, run.hcs, FALSE, FALSE)
    [] step = "CHECK_SSH_CONNECT" -> \A dc \in Services : CheckHost(dc, run.hcs, env)
    [] step = "CHECK_PERMISSION" -> \A dc \in Services : CheckPermission(dc, env)
    [] step = "CHECK_KERNEL_VERSION" -> \A dc \in ChunkServers : CheckKernelVersion(dc, env)
    [] step = "CHECK_PORT_IN_USE" -> \A dc \in Services : CheckPortInUse(dc, Listening)
    [] step = "CHECK_DESTINATION_REACHABLE" ->
         \A dc \in Services : CheckDestinationReachable(dc, run.dcs, env)
    [] step = "CHECK_NETWORK_FIREWALL" ->
         \A dc \in Services : CheckNetworkFirewall(dc, run.dcs, Listening, env)
    [] step = "CHECK_HOST_DATE" -> CheckDate(Dates)
    [] step = "CHECK_DISK_SIZE" -> \A dc \in ChunkServers : CheckDiskSize(dc, env)
    [] step = "CHECK_CHUNKFILE_POOL" -> \A dc \in ChunkServers : CheckChunkfilePool(dc, env)

Proceed == job' = [job EXCEPT !.at = Min(Left) + 1]

\* The steps that follow are not run, the post steps are.
Fail(hit) == job' = [job EXCEPT !.at = Len(AllSteps) + 1, !.result = "failing", !.hit = @ \/ hit]

Check ==
  /\ Running
  /\ Step \notin {"none", "CLEAN_PRECHECK_ENVIRONMENT", "START_HTTP_SERVER", "GET_HOST_DATE"}
  /\ IF Succeeds(Step) THEN Proceed ELSE Fail(FALSE)
  /\ UNCHANGED <<run, env, mock, date, runs, faults>>

CleanFirst ==
  /\ Running /\ Step = "CLEAN_PRECHECK_ENVIRONMENT"
  /\ mock' = Cleaned({})
  /\ IF CleanSucceeds THEN Proceed ELSE Fail(FALSE)
  /\ UNCHANGED <<run, env, date, runs, faults>>

StartHTTPServer ==
  /\ Running /\ Step = "START_HTTP_SERVER"
  /\ \E up \in ComeUp(Able({})) :
       /\ mock' = Started(up, {}, "absent")
       /\ \/ StartSucceeds /\ NamesFree(up) /\ Proceed
          \/ (~ StartSucceeds \/ OneId) /\ Fail(FALSE)
  /\ UNCHANGED <<run, env, date, runs, faults>>

\* A task fails.  A mock server may have been created, not started.
TaskFails ==
  /\ "fails" \in Fault /\ faults < MaxFaults
  /\ Running /\ Step # "none"
  /\ IF Step = "START_HTTP_SERVER"
     THEN \E id \in Slow \cap DOMAIN mock, early \in {"absent", "created"} :
            \E up \in ComeUp(Able({id})) : mock' = Started(up, {id}, early)
     ELSE IF Step = "CLEAN_PRECHECK_ENVIRONMENT"
     THEN \E id \in Slow \cap DOMAIN mock : mock' = Cleaned({id})
     ELSE UNCHANGED mock
  /\ Fail(TRUE)
  /\ faults' = faults + 1
  /\ date' = NoDates
  /\ UNCHANGED <<run, env, runs>>

\* A process that dies runs no post step.
Die ==
  /\ job' = [job EXCEPT !.result = "died", !.hit = TRUE, !.left = TRUE]
  /\ date' = NoDates
  /\ UNCHANGED <<run, env, runs>>

Kill ==
  /\ "kill" \in Fault /\ faults < MaxFaults
  /\ job.result \in {"running", "failing"}
  /\ IF Step = "START_HTTP_SERVER"
     THEN \E ids \in SUBSET (Slow \cap DOMAIN mock), early \in {"absent", "created"} :
            \E up \in ComeUp(Able(ids)) : mock' = Started(up, ids, early)
     ELSE UNCHANGED mock
  /\ faults' = faults + 1
  /\ Die

-----------------------------------------------------------------------------
(* GET_HOST_DATE, one task per host.                                         *)

BeginDates ==
  /\ Running /\ Step = "GET_HOST_DATE" /\ date = NoDates
  /\ date' = [at |-> [host \in Host |-> "get"], given |-> [host \in Host |-> Nil],
              maps |-> [host \in Host |-> {}], shared |-> Nil]
  /\ UNCHANGED <<run, env, mock, job, runs, faults>>

AtDates == Running /\ Step = "GET_HOST_DATE" /\ date # NoDates

\* newIfNil: the map that is shared, or a new one.
GetMap(host) ==
  /\ AtDates /\ date.at[host] = "get"
  /\ date' = [date EXCEPT !.at[host] = "write",
                          !.given[host] = IF date.shared = Nil THEN host ELSE date.shared]
  /\ UNCHANGED <<run, env, mock, job, runs, faults>>

WriteDate(host) ==
  /\ AtDates /\ date.at[host] = "write"
  /\ date' = [date EXCEPT !.at[host] = "set", !.maps[date.given[host]] = @ \cup {host}]
  /\ UNCHANGED <<run, env, mock, job, runs, faults>>

SetMap(host) ==
  /\ AtDates /\ date.at[host] = "set"
  /\ date' = [date EXCEPT !.at[host] = "done", !.shared = date.given[host]]
  /\ UNCHANGED <<run, env, mock, job, runs, faults>>

\* Two tasks that write one map at once end the process.
ConcurrentMapWrite(host1, host2) ==
  /\ AtDates /\ host1 # host2
  /\ date.at[host1] = "write" /\ date.at[host2] = "write"
  /\ date.given[host1] = date.given[host2]
  /\ Die
  /\ UNCHANGED <<mock, faults>>

EndDates ==
  /\ AtDates /\ \A host \in Host : date.at[host] = "done"
  /\ Proceed
  /\ UNCHANGED <<run, env, mock, date, runs, faults>>

\* The post step, whatever came before; its error is dropped.
Post(broken) ==
  /\ job.result \in {"running", "failing"} /\ Step = "none"
  /\ mock' = Cleaned(broken)
  /\ job' = [job EXCEPT !.result = IF @ = "running" THEN "passed" ELSE "failed",
                        !.left = broken # {} \/ ~ CleanSucceeds]
  /\ UNCHANGED <<run, env, date, runs>>

CleanAfter == Post({}) /\ UNCHANGED faults

CleanAfterFails ==
  /\ "fails" \in Fault /\ faults < MaxFaults
  /\ \E id \in Slow \cap DOMAIN mock : Post({id})
  /\ faults' = faults + 1

Next ==
  \/ Begin \/ Change \/ Check \/ CleanFirst \/ StartHTTPServer \/ TaskFails \/ Kill
  \/ BeginDates \/ EndDates \/ CleanAfter \/ CleanAfterFails
  \/ \E host \in Host : GetMap(host) \/ WriteDate(host) \/ SetMap(host)
  \/ \E host1, host2 \in Host : ConcurrentMapWrite(host1, host2)

Spec == Init /\ [][Next]_vars

-----------------------------------------------------------------------------
(* Properties.                                                               *)

\* The state has its type.
TypeOK ==
  /\ env \in Environments
  /\ \A id \in DOMAIN mock : mock[id] \in {"absent", "created", "running"}
  /\ job.result \in {"none", "running", "failing", "passed", "failed", "died"}
  /\ job.at \in 0 .. Len(CURVEBS_PRECHECK_STEPS) + 1
  /\ runs \in 0 .. MaxRuns /\ faults \in 0 .. MaxFaults

\* The addresses that the configuration files of the images give a service, in
\* which curveadm replaces its variables.
ConfiguredAddresses(dc) ==
  LET Peers(name) == dc.variables[name][1][2]
      Etcds == {<<p[2], p[3]>> : p \in Peers("cluster_etcd_http_addr")}
  IN CASE dc.role = "etcd" -> Etcds
       [] dc.role = "mds" -> Peers("cluster_etcd_addr") \cup Peers("cluster_mds_addr")
       [] dc.role \in {"chunkserver", "metaserver"} -> Peers("cluster_mds_addr")
       [] dc.role = "snapshotclone" -> {}

Ended == job.result \in {"passed", "failed"}

\* When precheck has passed with the network checked, for services of different
\* ids (two with one id are not connected), the network is ready: on
\* every service's host its ports are free, and from there each address its
\* configuration will name can be connected to; and unless removing them failed
\* no mock server is left, neither of this run nor of one that was killed, nor
\* after a run that failed.
PassedMeansReady ==
  /\ job.result = "passed" /\ "network" \notin run.skip /\ ~ OneId =>
       \A dc \in Services :
         /\ \A l \in env.used : l[1] = dc.host => l[2][2] \notin Ports(dc)
         /\ \A address \in ConfiguredAddresses(dc) \ ToSet(ListenAddresses(dc)) :
              address[1] \notin env.down /\ <<dc.host, address>> \notin env.blocked
  /\ Ended /\ ~ job.left => \A id \in DOMAIN mock : mock[id] = "absent"

\* What precheck is to find wrong, among the items that are not skipped.
Wrong ==
  \/ run.err # "none" \/ Clashes
  \/ "topology" \notin run.skip /\ ~ CheckTopology(run.dcs, run.hcs, FALSE, FALSE)
  \/ \E dc \in Services :
       \/ "ssh" \notin run.skip /\ ~ CheckHost(dc, run.hcs, env)
       \/ "permission" \notin run.skip /\ ~ CheckPermission(dc, env)
       \/ dc.host \notin env.docker
       \/ "network" \notin run.skip /\ \E l \in env.used : l[1] = dc.host /\ l[2][2] \in Ports(dc)
  \/ "network" \notin run.skip /\ env.blocked \cup env.down # {}
  \/ "date" \notin run.skip /\ ~ CheckDate([host \in Host |-> env.clock[host]])
  \/ \E dc \in ChunkServers :
       \/ "kernel" \notin run.skip /\ ~ CheckKernelVersion(dc, env)
       \/ "service" \notin run.skip /\ ~ CheckChunkfilePool(dc, env)
       \/ env.disks # {} /\ ~ CheckDiskSize(dc, env)

\* A precheck that no failure hits fails only if something it checks is wrong:
\* not for the mock servers an earlier one left, and not for those it started
\* itself.
FailedMeansWrong == job.result = "failed" /\ ~ job.hit => Wrong

=============================================================================
