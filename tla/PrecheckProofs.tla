---------------------------- MODULE PrecheckProofs ----------------------------
(***************************************************************************)
(* What precheck promises, whatever the topologies, the hosts, the failures*)
(* and the number of runs.                                                 *)
(*                                                                         *)
(* Each check of a run counts on what the steps before it did: the ports   *)
(* are free only if what listens is no mock server, and an address that    *)
(* does not answer is one the network hides only if its mock server runs.  *)
(* So the invariant says of a run which steps are behind it and what they  *)
(* established.  Of which steps are behind, all that is needed is the      *)
(* order of the four that the network and the mock servers are about.      *)
(*                                                                         *)
(* The last part shows that what is taken of the services of a run,        *)
(* PrecheckRunsAssumption, is what the parser gives whatever the files.    *)
(***************************************************************************)
EXTENDS Precheck, WellFoundedInduction, TLAPS

\* Where a step is among those of its kind of topology, and whether it is behind.
Place(step) == CHOOSE i \in DOMAIN AllSteps : AllSteps[i] = step
Past(step) == Place(step) < job.at

\* There is no mock server, neither of this run nor of an earlier one.
NoMock == \A id \in DOMAIN mock : mock[id] = "absent"

\* No other program listens on a port of a service.
PortsFree ==
  \A dc \in Services : \A l \in env.used : l[1] = dc.host => l[2][2] \notin Ports(dc)

\* Whoever connects to a service can reach all its addresses.
NetworkOpen ==
  \A dc, to \in Services : Connects(dc, to) =>
    \A address \in ToSet(ListenAddresses(to)) :
      address[1] \notin env.down /\ <<dc.host, address>> \notin env.blocked

\* The types of the parts of the state.
DateType ==
  [at : [Host -> {"get", "write", "set", "done"}], given : [Host -> Host \cup {Nil}],
   maps : [Host -> SUBSET Host], shared : Host \cup {Nil}]

JobType ==
  [at : 0 .. 14, hit : BOOLEAN, left : BOOLEAN,
   result : {"none", "running", "failing", "passed", "failed", "died"}]

Typed ==
  /\ run \in Runs /\ env \in Environments
  /\ DOMAIN mock = {dc.id : dc \in Services}
  /\ \A id \in DOMAIN mock : mock[id] \in {"absent", "created", "running"}
  /\ job \in JobType
  /\ date = NoDates \/ date \in DateType
  /\ runs \in 0 .. MaxRuns /\ faults \in 0 .. MaxFaults

\* Nothing is done with files that cannot be parsed.
ParsedFirst ==
  run.err # "none" => job.result \notin {"running", "failing", "passed"} /\ NoMock

\* Once cleaned, every host has docker, and no mock server is left until they are
\* started; once started, all those run that can, unless some clash.
Mocked ==
  job.result = "running" =>
    /\ Past("CLEAN_PRECHECK_ENVIRONMENT") =>
         Host \subseteq env.docker /\ (NoMock \/ Past("START_HTTP_SERVER"))
    /\ Past("START_HTTP_SERVER") =>
         Clashes \/ \A dc \in Services : Starts(dc) => mock[dc.id] = "running"

\* Once checked, the ports are free and the network is open.
NetworkChecked ==
  job.result = "running" /\ "network" \notin run.skip =>
    /\ Past("CHECK_PORT_IN_USE") => PortsFree
    /\ Past("CHECK_NETWORK_FIREWALL") => NetworkOpen

\* What a run that passed established.
Passed ==
  job.result = "passed" /\ "network" \notin run.skip => PortsFree /\ NetworkOpen

\* What is not hit by a failure fails for something that is wrong.
FailedFor == job.result \in {"failing", "failed"} /\ ~ job.hit => Wrong

\* A run that cleaned up leaves no mock server.
Cleared == Ended /\ ~ job.left => NoMock

\* The inductive invariant.
IInv == Typed /\ ParsedFirst /\ Mocked /\ NetworkChecked /\ Passed /\ FailedFor /\ Cleared

-----------------------------------------------------------------------------
(* The steps. *)

\* A set of natural numbers that is not empty has a least element.
LEMMA MinIsLeast ==
  ASSUME NEW T \in SUBSET Nat, T # {}
  PROVE  Min(T) \in T /\ \A n \in T : Min(T) <= n
<1>1. PICK m \in T : \A n \in T : ~ (<<n, m>> \in OpToRel(<, Nat))
  BY NatLessThanWellFounded, WFMin
<1>2. \A n \in T : ~ (n < m)
  BY <1>1 DEF OpToRel
<1>3. \A n \in T : m <= n
  BY <1>2
<1>. QED
  BY <1>3 DEF Min

\* The steps about the network and the mock servers, and all the steps.
MockStep == {"CLEAN_PRECHECK_ENVIRONMENT", "CHECK_PORT_IN_USE", "START_HTTP_SERVER",
             "CHECK_NETWORK_FIREWALL"}

AnyStep == MockStep \cup {"CHECK_TOPOLOGY", "CHECK_SSH_CONNECT", "CHECK_PERMISSION",
  "CHECK_KERNEL_VERSION", "CHECK_DESTINATION_REACHABLE", "GET_HOST_DATE", "CHECK_HOST_DATE",
  "CHECK_DISK_SIZE", "CHECK_CHUNKFILE_POOL"}

\* The steps of either kind, by their place.
LEMMA BSPlaces ==
  /\ Len(CURVEBS_PRECHECK_STEPS) = 13 /\ DOMAIN CURVEBS_PRECHECK_STEPS = 1 .. 13
  /\ \A i \in 1 .. 13 :
       /\ CURVEBS_PRECHECK_STEPS[i] \in AnyStep
       /\ CURVEBS_PRECHECK_STEPS[i] = "CLEAN_PRECHECK_ENVIRONMENT" <=> i = 5
       /\ CURVEBS_PRECHECK_STEPS[i] = "CHECK_PORT_IN_USE" <=> i = 6
       /\ CURVEBS_PRECHECK_STEPS[i] = "START_HTTP_SERVER" <=> i = 8
       /\ CURVEBS_PRECHECK_STEPS[i] = "CHECK_NETWORK_FIREWALL" <=> i = 9
  BY DEF CURVEBS_PRECHECK_STEPS, AnyStep, MockStep

\* The same of the other kind.
LEMMA FSPlaces ==
  /\ Len(CURVEFS_PRECHECK_STEPS) = 10 /\ DOMAIN CURVEFS_PRECHECK_STEPS = 1 .. 10
  /\ \A i \in 1 .. 10 :
       /\ CURVEFS_PRECHECK_STEPS[i] \in AnyStep
       /\ CURVEFS_PRECHECK_STEPS[i] = "CLEAN_PRECHECK_ENVIRONMENT" <=> i = 4
       /\ CURVEFS_PRECHECK_STEPS[i] = "CHECK_PORT_IN_USE" <=> i = 5
       /\ CURVEFS_PRECHECK_STEPS[i] = "START_HTTP_SERVER" <=> i = 6
       /\ CURVEFS_PRECHECK_STEPS[i] = "CHECK_NETWORK_FIREWALL" <=> i = 8
  BY DEF CURVEFS_PRECHECK_STEPS, AnyStep, MockStep

\* The steps of a run: the mock servers are cleaned, then the ports are checked,
\* then they are started, then the firewall is checked.
LEMMA Places ==
  /\ DOMAIN AllSteps \subseteq 1 .. 13 /\ Len(AllSteps) \in 1 .. 13
  /\ \A i \in DOMAIN AllSteps : AllSteps[i] \in AnyStep
  /\ \A step \in MockStep :
       /\ Place(step) \in DOMAIN AllSteps /\ AllSteps[Place(step)] = step
       /\ \A i \in DOMAIN AllSteps : AllSteps[i] = step => i = Place(step)
  /\ Place("CLEAN_PRECHECK_ENVIRONMENT") < Place("CHECK_PORT_IN_USE")
  /\ Place("CHECK_PORT_IN_USE") < Place("START_HTTP_SERVER")
  /\ Place("START_HTTP_SERVER") < Place("CHECK_NETWORK_FIREWALL")
<1>1. CASE AllSteps = CURVEBS_PRECHECK_STEPS
  <2>1. /\ Place("CLEAN_PRECHECK_ENVIRONMENT") = 5 /\ Place("CHECK_PORT_IN_USE") = 6
        /\ Place("START_HTTP_SERVER") = 8 /\ Place("CHECK_NETWORK_FIREWALL") = 9
    BY <1>1, BSPlaces DEF Place
  <2>. QED
    BY <1>1, <2>1, BSPlaces DEF MockStep
<1>2. CASE AllSteps = CURVEFS_PRECHECK_STEPS
  <2>1. /\ Place("CLEAN_PRECHECK_ENVIRONMENT") = 4 /\ Place("CHECK_PORT_IN_USE") = 5
        /\ Place("START_HTTP_SERVER") = 6 /\ Place("CHECK_NETWORK_FIREWALL") = 8
    BY <1>2, FSPlaces DEF Place
  <2>. QED
    BY <1>2, <2>1, FSPlaces DEF MockStep
<1>. QED
  BY <1>1, <1>2 DEF AllSteps

\* The next step is one that is included, and none before it that is left is.
LEMMA StepIsNext ==
  ASSUME Typed, Step # "none"
  PROVE  /\ Min(Left) \in DOMAIN AllSteps /\ Min(Left) >= job.at
         /\ Step = AllSteps[Min(Left)] /\ Step \in AnyStep /\ Included(Step)
         /\ \A i \in DOMAIN AllSteps : i >= job.at /\ Included(AllSteps[i]) => Min(Left) <= i
<1>1. Left # {} /\ Step = AllSteps[Min(Left)]
  BY DEF Step
<1>2. Left \in SUBSET Nat
  BY Places DEF Left
<1>3. Min(Left) \in Left /\ \A n \in Left : Min(Left) <= n
  BY <1>1, <1>2, MinIsLeast
<1>. QED
  BY <1>1, <1>3, Places DEF Left

\* After the next step, what is behind is what was and that step.
LEMMA Behind ==
  ASSUME Typed, Step # "none", NEW step \in MockStep, Included(step)
  PROVE  Place(step) < Min(Left) + 1 <=> Past(step) \/ step = Step
<1>1. Min(Left) \in Nat /\ Place(step) \in Nat /\ job.at \in Nat
  BY StepIsNext, Places DEF Typed, JobType
<1>2. CASE Past(step)
  BY <1>1, <1>2, StepIsNext DEF Past
<1>3. CASE ~ Past(step)
  <2>1. Place(step) >= job.at
    BY <1>1, <1>3 DEF Past
  <2>2. Min(Left) <= Place(step)
    BY <2>1, StepIsNext, Places
  <2>3. step = Step <=> Min(Left) = Place(step)
    BY StepIsNext, Places
  <2>. QED
    BY <1>1, <1>3, <2>2, <2>3
<1>. QED
  BY <1>2, <1>3

\* What comes before the next step is behind, and what comes after is not.
LEMMA Order ==
  ASSUME Typed, Step # "none", NEW step \in MockStep
  PROVE  /\ Place(step) < Min(Left) /\ Included(step) => Past(step)
         /\ Place(step) >= Min(Left) => ~ Past(step)
<1>1. Min(Left) \in Nat /\ Place(step) \in Nat /\ job.at \in Nat
  BY StepIsNext, Places DEF Typed, JobType
<1>2. Place(step) >= job.at /\ Included(step) => Min(Left) <= Place(step)
  BY StepIsNext, Places
<1>3. Min(Left) >= job.at
  BY StepIsNext
<1>. QED
  BY <1>1, <1>2, <1>3 DEF Past

\* When no step is left, everything that is included is behind.
LEMMA AllBehind ==
  ASSUME Typed, Step = "none", NEW step \in MockStep, Included(step)
  PROVE  Past(step)
<1>1. Left = {}
  <2>1. SUFFICES ASSUME Left # {} PROVE FALSE
    OBVIOUS
  <2>2. Left \in SUBSET Nat
    BY Places DEF Left
  <2>3. Min(Left) \in DOMAIN AllSteps
    BY <2>1, <2>2, MinIsLeast DEF Left
  <2>. QED
    BY <2>1, <2>3, Places DEF Step, AnyStep, MockStep
<1>2. Place(step) \in Nat /\ job.at \in Nat
  BY Places DEF Typed, JobType
<1>. QED
  BY <1>1, <1>2, Places DEF Left, Past

\* The mock servers belong to no item, and a step of an item that is included is
\* not skipped.
LEMMA Items ==
  /\ Included("CLEAN_PRECHECK_ENVIRONMENT") /\ Included("START_HTTP_SERVER")
  /\ "network" \notin run.skip <=> Included("CHECK_PORT_IN_USE")
  /\ "network" \notin run.skip <=> Included("CHECK_NETWORK_FIREWALL")
  /\ Included("CHECK_DESTINATION_REACHABLE") => "network" \notin run.skip
  /\ Included("CHECK_TOPOLOGY") => "topology" \notin run.skip
  /\ Included("CHECK_SSH_CONNECT") => "ssh" \notin run.skip
  /\ Included("CHECK_PERMISSION") => "permission" \notin run.skip
  /\ Included("CHECK_KERNEL_VERSION") => "kernel" \notin run.skip
  /\ Included("CHECK_HOST_DATE") => "date" \notin run.skip
  /\ Included("CHECK_CHUNKFILE_POOL") => "service" \notin run.skip
  /\ Included("CHECK_DISK_SIZE") => env.disks # {}
  BY DEF Included, Skipped, BELONG_CHECK_ITEM

-----------------------------------------------------------------------------
(* The checks. *)

\* Where no mock server is, only other programs listen.
LEMMA NoMockListens ==
  ASSUME Typed, NoMock
  PROVE  Listening = env.used
<1>1. \A d \in Services : mock[d.id] # "running"
  BY DEF Typed, NoMock
<1>2. {d \in Services : mock[d.id] = "running"} = {}
  BY <1>1
<1>3. UNION {{<<dc.host, address>> : address \in ToSet(ListenAddresses(dc))} :
             dc \in {d \in Services : mock[d.id] = "running"}} = {}
  BY <1>2
<1>. QED
  BY <1>3 DEF Listening

\* CHECK_PORT_IN_USE finds every port of a service that another program listens on.
LEMMA PortsFound ==
  ASSUME \A dc \in Services : CheckPortInUse(dc, Listening)
  PROVE  PortsFree
<1>. SUFFICES ASSUME NEW dc \in Services, NEW l \in env.used, l[1] = dc.host,
                     l[2][2] \in Ports(dc)
              PROVE  FALSE
  BY DEF PortsFree
<1>1. l \in Listening
  BY DEF Listening
<1>2. l[2][2] \in {k[2][2] : k \in {m \in Listening : m[1] = dc.host}}
  BY <1>1
<1>3. {k[2][2] : k \in {m \in Listening : m[1] = dc.host}} \cap Ports(dc) = {}
  BY DEF CheckPortInUse
<1>. QED
  BY <1>2, <1>3

\* With no mock server there, a port in use is one another program listens on.
LEMMA PortsTaken ==
  ASSUME Typed, NoMock, "network" \notin run.skip,
         ~ \A dc \in Services : CheckPortInUse(dc, Listening)
  PROVE  Wrong
<1>1. PICK dc \in Services : ~ CheckPortInUse(dc, env.used)
  BY NoMockListens
<1>2. PICK port : port \in {l[2][2] : l \in {k \in env.used : k[1] = dc.host}} /\ port \in Ports(dc)
  BY <1>1 DEF CheckPortInUse
<1>3. \E l \in env.used : l[1] = dc.host /\ l[2][2] \in Ports(dc)
  BY <1>2
<1>. QED
  BY <1>3 DEF Wrong

\* On a host where the ports of a service are free, its mock server starts.
LEMMA FreeStarts ==
  ASSUME PortsFree, ~ Clashes, NEW dc \in Services
  PROVE  Starts(dc)
<1>0. IsInjective(ListenAddresses(dc))
  BY DEF Clashes
<1>. SUFFICES ASSUME NEW address \in ToSet(ListenAddresses(dc)),
                     NEW l \in env.used, l[1] = dc.host, l[2] = address
              PROVE  FALSE
  BY <1>0 DEF Starts
<1>1. PICK i \in DOMAIN ListenAddresses(dc) : address = ListenAddresses(dc)[i]
  BY DEF ToSet
<1>2. l[2][2] \in Ports(dc)
  BY <1>1 DEF Ports
<1>. QED
  BY <1>2 DEF PortsFree

\* CHECK_NETWORK_FIREWALL finds every address that cannot be reached.
LEMMA FirewallOpen ==
  ASSUME \A dc \in Services : CheckNetworkFirewall(dc, run.dcs, Listening, env)
  PROVE  NetworkOpen
  BY DEF CheckNetworkFirewall, Answers, NetworkOpen, Services

\* With the mock servers started a connection fails only for the network.
LEMMA FirewallClosed ==
  ASSUME PortsFree, ~ Clashes, \A dc \in Services : Starts(dc) => mock[dc.id] = "running",
         ~ \A dc \in Services : CheckNetworkFirewall(dc, run.dcs, Listening, env)
  PROVE  env.blocked \cup env.down # {}
<1>1. PICK dc \in Services, to \in Services :
        \E address \in ToSet(ListenAddresses(to)) : ~ Answers(dc.host, address, Listening, env)
  BY DEF CheckNetworkFirewall, Services
<1>2. PICK address \in ToSet(ListenAddresses(to)) : ~ Answers(dc.host, address, Listening, env)
  BY <1>1
<1>3. to \in {d \in Services : mock[d.id] = "running"}
  BY FreeStarts
<1>4. <<to.host, address>> \in Listening
  <2>1. <<to.host, address>> \in {<<to.host, a>> : a \in ToSet(ListenAddresses(to))}
    OBVIOUS
  <2>. QED
    BY <1>3, <2>1 DEF Listening
<1>5. \E l \in Listening : l[2] = address
  BY <1>4
<1>. QED
  BY <1>2, <1>5 DEF Answers

\* Dates that differ too much are those of hosts that do: a date that was lost can
\* hide a wrong clock, never make one.
LEMMA DatesOfHosts ==
  ASSUME Typed, ~ CheckDate(Dates)
  PROVE  ~ CheckDate([host \in Host |-> env.clock[host]])
<1>1. PICK host1 \in DOMAIN Dates, host2 \in DOMAIN Dates : ~ (Dates[host1] - Dates[host2] <= 15)
  BY DEF CheckDate
<1>2. date.shared # Nil
  <2>1. DOMAIN Dates = {} \/ date.shared # Nil
    BY DEF Dates
  <2>. QED
    BY <1>1, <2>1
<1>3. date \in DateType
  BY <1>2 DEF Typed, NoDates
<1>4. date.maps[date.shared] \subseteq Host
  BY <1>2, <1>3 DEF DateType
<1>5. Dates = [host \in date.maps[date.shared] |-> env.clock[host]]
  BY <1>2 DEF Dates
<1>6. host1 \in Host /\ host2 \in Host
  BY <1>1, <1>4, <1>5
<1>7. Dates[host1] = env.clock[host1] /\ Dates[host2] = env.clock[host2]
  BY <1>1, <1>5
<1>. QED
  BY <1>1, <1>6, <1>7 DEF CheckDate

\* What a check finds wrong is something that precheck is to find wrong: the mock
\* servers are gone when the ports are looked at, and all of them run when their
\* addresses are.
LEMMA CheckFinds ==
  ASSUME Typed, Mocked, NetworkChecked, Running,
         Step \notin {"none", "CLEAN_PRECHECK_ENVIRONMENT", "START_HTTP_SERVER", "GET_HOST_DATE"},
         ~ Succeeds(Step)
  PROVE  Wrong
<1>. Included(Step) /\ Step \in AnyStep
  BY StepIsNext
<1>1. CASE Step = "CHECK_TOPOLOGY"
  BY <1>1, Items DEF Succeeds, Wrong
<1>2. CASE Step = "CHECK_SSH_CONNECT"
  BY <1>2, Items DEF Succeeds, Wrong
<1>3. CASE Step = "CHECK_PERMISSION"
  BY <1>3, Items DEF Succeeds, Wrong
<1>4. CASE Step = "CHECK_KERNEL_VERSION"
  BY <1>4, Items DEF Succeeds, Wrong
<1>5. CASE Step = "CHECK_PORT_IN_USE"
  <2>1. /\ Place("CLEAN_PRECHECK_ENVIRONMENT") < Min(Left)
        /\ Place("START_HTTP_SERVER") >= Min(Left)
    <3>1. Min(Left) = Place("CHECK_PORT_IN_USE")
      BY <1>5, StepIsNext, Places DEF MockStep
    <3>. QED
      BY <3>1, Places DEF MockStep
  <2>2. Past("CLEAN_PRECHECK_ENVIRONMENT") /\ ~ Past("START_HTTP_SERVER")
    BY <2>1, <1>5, Order, Items DEF MockStep
  <2>3. NoMock
    BY <2>2 DEF Mocked, Running
  <2>4. ~ \A dc \in Services : CheckPortInUse(dc, Listening)
    BY <1>5 DEF Succeeds
  <2>. QED
    BY <1>5, <2>3, <2>4, PortsTaken, Items
<1>6. CASE Step = "CHECK_DESTINATION_REACHABLE"
  <2>1. \E dc \in Services : ~ CheckDestinationReachable(dc, run.dcs, env)
    BY <1>6 DEF Succeeds
  <2>2. env.down # {}
    BY <2>1 DEF CheckDestinationReachable
  <2>. QED
    BY <1>6, <2>2, Items DEF Wrong
<1>7. CASE Step = "CHECK_NETWORK_FIREWALL"
  <2>1. /\ Place("CHECK_PORT_IN_USE") < Min(Left)
        /\ Place("START_HTTP_SERVER") < Min(Left)
    <3>1. Min(Left) = Place("CHECK_NETWORK_FIREWALL")
      BY <1>7, StepIsNext, Places DEF MockStep
    <3>. QED
      BY <3>1, Places DEF MockStep
  <2>0. "network" \notin run.skip
    BY <1>7, Items
  <2>2. Past("CHECK_PORT_IN_USE") /\ Past("START_HTTP_SERVER")
    BY <2>0, <2>1, <1>7, Order, Items DEF MockStep
  <2>3. PortsFree /\ (Clashes \/ \A dc \in Services : Starts(dc) => mock[dc.id] = "running")
    BY <2>0, <2>2 DEF Mocked, NetworkChecked, Running
  <2>4. ~ \A dc \in Services : CheckNetworkFirewall(dc, run.dcs, Listening, env)
    BY <1>7 DEF Succeeds
  <2>5. Clashes \/ env.blocked \cup env.down # {}
    BY <2>3, <2>4, FirewallClosed
  <2>. QED
    BY <2>0, <2>5 DEF Wrong
<1>8. CASE Step = "CHECK_HOST_DATE"
  BY <1>8, Items, DatesOfHosts DEF Succeeds, Wrong
<1>9. CASE Step = "CHECK_DISK_SIZE"
  BY <1>9, Items DEF Succeeds, Wrong
<1>10. CASE Step = "CHECK_CHUNKFILE_POOL"
  BY <1>10, Items DEF Succeeds, Wrong
<1>. QED
  BY <1>1, <1>2, <1>3, <1>4, <1>5, <1>6, <1>7, <1>8, <1>9, <1>10 DEF AnyStep, MockStep

-----------------------------------------------------------------------------
(* The mock servers. *)

\* The service of a mock server.
LEMMA Owner ==
  ASSUME Typed, NEW id \in DOMAIN mock
  PROVE  /\ (CHOOSE d \in Services : d.id = id) \in Services
         /\ (CHOOSE d \in Services : d.id = id).id = id
<1>1. \E d \in Services : d.id = id
  BY DEF Typed
<1>. QED
  BY <1>1

\* On hosts with docker, cleaning leaves no mock server.
LEMMA CleanedAway ==
  ASSUME Typed, CleanSucceeds, mock' = Cleaned({})
  PROVE  NoMock'
<1>. SUFFICES ASSUME NEW id \in DOMAIN mock PROVE Cleaned({})[id] = "absent"
  BY DEF NoMock, Cleaned
<1>1. (CHOOSE d \in Services : d.id = id).host \in Host
  BY Owner DEF Host
<1>. QED
  BY <1>1 DEF Cleaned, CleanSucceeds

\* Cleaning and starting give every mock server a state.
LEMMA CleanedTyped ==
  ASSUME Typed, NEW broken
  PROVE  /\ DOMAIN Cleaned(broken) = DOMAIN mock
         /\ \A id \in DOMAIN mock : Cleaned(broken)[id] \in {"absent", "created", "running"}
  BY DEF Typed, Cleaned

\* The same of starting.
LEMMA StartedTyped ==
  ASSUME Typed, NEW up, NEW broken, NEW early \in {"absent", "created"}
  PROVE  /\ DOMAIN Started(up, broken, early) = DOMAIN mock
         /\ \A id \in DOMAIN mock : Started(up, broken, early)[id] \in {"absent", "created", "running"}
<1>1. DOMAIN Started(up, broken, early) = DOMAIN mock
  BY DEF Started
<1>2. ASSUME NEW id \in DOMAIN mock
      PROVE  Started(up, broken, early)[id] \in {mock[id], early, "absent", "running"}
  BY DEF Started
<1>. QED
  BY <1>1, <1>2 DEF Typed

\* Where none clash, the mock server of each service that can start comes up.
LEMMA AllStarted ==
  ASSUME Typed, StartSucceeds, ~ Clashes, NEW up \in ComeUp(Able({})),
         NEW dc \in Services, Starts(dc)
  PROVE  Started(up, {}, "absent")[dc.id] = "running"
<1>1. dc.id \in DOMAIN mock /\ mock[dc.id] = "absent"
  BY DEF Typed, StartSucceeds
<1>2. dc \in Able({})
  BY DEF Able, StartSucceeds
<1>. DEFINE contested == {c \in Able({}) : \E d \in Able({}) : Clash(c, d)}
<1>3. dc \notin contested
  BY DEF Clashes, Able
<1>4. \E first : up = (Able({}) \ contested) \cup first
  BY DEF ComeUp
<1>5. dc \in up
  BY <1>2, <1>3, <1>4
<1>. QED
  BY <1>1, <1>5 DEF Started

-----------------------------------------------------------------------------
(* Every step preserves the invariant. *)

\* While neither the run nor the hosts change, what is said of them stays.
LEMMA SameHosts ==
  ASSUME run' = run, env' = env
  PROVE  /\ Services' = Services /\ Host' = Host /\ AllSteps' = AllSteps
         /\ (\A step : Place(step)' = Place(step) /\ (Included(step)' <=> Included(step)))
         /\ (PortsFree' <=> PortsFree) /\ (NetworkOpen' <=> NetworkOpen)
         /\ (Clashes' <=> Clashes) /\ (Wrong' <=> Wrong)
         /\ \A dc \in Services : Starts(dc)' <=> Starts(dc)
<1>1. Services' = Services /\ Host' = Host /\ AllSteps' = AllSteps /\ ChunkServers' = ChunkServers
  BY DEF Services, Host, AllSteps, ChunkServers
<1>2. \A step : Place(step)' = Place(step) /\ (Included(step)' <=> Included(step))
  BY <1>1 DEF Place, Included
<1>3. Clashes' <=> Clashes
  BY <1>1 DEF Clashes
<1>4. PortsFree' <=> PortsFree
  BY <1>1 DEF PortsFree
<1>5. NetworkOpen' <=> NetworkOpen
  BY <1>1 DEF NetworkOpen
<1>6. Wrong' <=> Wrong
  BY <1>1, <1>3 DEF Wrong
<1>7. \A dc \in Services : Starts(dc)' <=> Starts(dc)
  BY DEF Starts
<1>. QED
  BY <1>1, <1>2, <1>3, <1>4, <1>5, <1>6, <1>7

\* A step that is done is behind.
LEMMA Proceeded ==
  ASSUME Typed, Step # "none", Proceed, run' = run, env' = env
  PROVE  /\ \A step \in MockStep : Included(step) => (Past(step)' <=> Past(step) \/ step = Step)
         /\ job' \in JobType
         /\ job'.result = job.result /\ job'.hit = job.hit /\ job'.left = job.left
<1>1. job' = [job EXCEPT !.at = Min(Left) + 1]
  BY DEF Proceed
<1>2. Min(Left) \in 1 .. 13
  BY StepIsNext, Places
<1>3. job'.at = Min(Left) + 1
  BY <1>1 DEF Typed, JobType
<1>4. ASSUME NEW step \in MockStep, Included(step)
      PROVE  Past(step)' <=> Past(step) \/ step = Step
  BY <1>3, <1>4, Behind, SameHosts DEF Past
<1>. QED
  BY <1>1, <1>2, <1>4 DEF Typed, JobType

\* A step that fails ends them.
LEMMA FailedJob ==
  ASSUME Typed, NEW hit \in BOOLEAN, Fail(hit)
  PROVE  /\ job' \in JobType
         /\ job'.result = "failing" /\ job'.hit = (job.hit \/ hit)
<1>1. PICK n \in 1 .. 13 : Len(AllSteps) = n
  BY Places
<1>2. n + 1 \in 0 .. 14
  OBVIOUS
<1>3. job.hit \in BOOLEAN /\ (job.hit \/ hit) \in BOOLEAN
  BY DEF Typed, JobType
<1>4. job' = [job EXCEPT !.at = n + 1, !.result = "failing", !.hit = job.hit \/ hit]
  BY <1>1 DEF Fail
<1>. QED
  BY <1>2, <1>3, <1>4 DEF Typed, JobType

\* The parts of the state keep their types.
LEMMA TypedJob ==
  ASSUME Typed, Next
  PROVE  job' \in JobType
<1>1. CASE Begin
  BY <1>1 DEF Begin, Typed, JobType
<1>2. CASE Change
  BY <1>2 DEF Change, Typed, JobType
<1>3. ASSUME Proceed, Step # "none", run' = run, env' = env PROVE job' \in JobType
  BY <1>3, Proceeded
<1>4. ASSUME NEW hit \in BOOLEAN, Fail(hit) PROVE job' \in JobType
  BY <1>4, FailedJob
<1>5. CASE Check
  BY <1>5, <1>3, <1>4 DEF Check
<1>6. CASE CleanFirst
  BY <1>6, <1>3, <1>4 DEF CleanFirst
<1>7. CASE StartHTTPServer
  BY <1>7, <1>3, <1>4 DEF StartHTTPServer
<1>8. CASE TaskFails
  BY <1>8, <1>4 DEF TaskFails
<1>9. ASSUME Die PROVE job' \in JobType
  BY <1>9 DEF Die, Typed, JobType
<1>10. CASE Kill
  BY <1>10, <1>9 DEF Kill
<1>11. CASE BeginDates
  BY <1>11 DEF BeginDates, Typed
<1>12. CASE EndDates
  <2>1. Step # "none" /\ run' = run /\ env' = env /\ Proceed
    BY <1>12 DEF EndDates, AtDates
  <2>. QED
    BY <2>1, <1>3
<1>13. ASSUME NEW broken, Post(broken) PROVE job' \in JobType
  BY <1>13 DEF Post, Typed, JobType
<1>14. CASE CleanAfter
  BY <1>14, <1>13 DEF CleanAfter
<1>15. CASE CleanAfterFails
  BY <1>15, <1>13 DEF CleanAfterFails
<1>16. CASE \E host \in Host : GetMap(host) \/ WriteDate(host) \/ SetMap(host)
  BY <1>16 DEF GetMap, WriteDate, SetMap, Typed
<1>17. CASE \E host1, host2 \in Host : ConcurrentMapWrite(host1, host2)
  BY <1>17, <1>9 DEF ConcurrentMapWrite
<1>. QED
  BY <1>1, <1>2, <1>5, <1>6, <1>7, <1>8, <1>10, <1>11, <1>12, <1>14, <1>15, <1>16, <1>17 DEF Next

\* The mock servers stay those of the services, which no step changes.
LEMMA TypedMocks ==
  ASSUME Typed, Next
  PROVE  /\ run' = run /\ env' \in Environments
         /\ DOMAIN mock' = DOMAIN mock
         /\ \A id \in DOMAIN mock : mock'[id] \in {"absent", "created", "running"}
<1>1. CASE mock' = mock
  BY <1>1 DEF Typed, Next, Begin, Change, Check, CleanFirst, StartHTTPServer, TaskFails, Kill, Die,
    BeginDates, EndDates, CleanAfter, CleanAfterFails, Post, GetMap, WriteDate, SetMap,
    ConcurrentMapWrite
<1>2. CASE \E broken : mock' = Cleaned(broken)
  <2>1. run' = run /\ env' \in Environments
    BY DEF Typed, Next, Begin, Change, Check, CleanFirst, StartHTTPServer, TaskFails, Kill, Die,
      BeginDates, EndDates, CleanAfter, CleanAfterFails, Post, GetMap, WriteDate, SetMap,
      ConcurrentMapWrite
  <2>. QED
    BY <1>2, <2>1, CleanedTyped
<1>3. CASE \E up, broken, early : early \in {"absent", "created"} /\ mock' = Started(up, broken, early)
  <2>1. run' = run /\ env' \in Environments
    BY DEF Typed, Next, Begin, Change, Check, CleanFirst, StartHTTPServer, TaskFails, Kill, Die,
      BeginDates, EndDates, CleanAfter, CleanAfterFails, Post, GetMap, WriteDate, SetMap,
      ConcurrentMapWrite
  <2>. QED
    BY <1>3, <2>1, StartedTyped
<1>4. \/ mock' = mock
      \/ \E broken : mock' = Cleaned(broken)
      \/ \E up, broken, early : early \in {"absent", "created"} /\ mock' = Started(up, broken, early)
  BY DEF Next, Begin, Change, Check, CleanFirst, StartHTTPServer, TaskFails, Kill, Die,
    BeginDates, EndDates, CleanAfter, CleanAfterFails, Post, GetMap, WriteDate, SetMap,
    ConcurrentMapWrite
<1>. QED
  BY <1>1, <1>2, <1>3, <1>4

\* The tasks that ask for dates have maps of the hosts.
LEMMA TypedDate ==
  ASSUME Typed, Next, run' = run
  PROVE  date' = NoDates \/ date' \in DateType
<1>1. CASE date' = date \/ date' = NoDates
  BY <1>1 DEF Typed
<1>2. CASE BeginDates
  BY <1>2 DEF BeginDates, DateType
<1>3. ASSUME NEW host \in Host, GetMap(host) PROVE date' \in DateType
  <2>1. date \in DateType
    BY <1>3 DEF GetMap, AtDates, Typed
  <2>2. (IF date.shared = Nil THEN host ELSE date.shared) \in Host \cup {Nil}
    BY <2>1 DEF DateType
  <2>3. date' = [date EXCEPT !.at = [@ EXCEPT ![host] = "write"],
                             !.given = [@ EXCEPT ![host] = IF date.shared = Nil THEN host
                                                                                ELSE date.shared]]
    BY <1>3 DEF GetMap
  <2>. QED
    BY <2>1, <2>2, <2>3 DEF DateType
<1>4. ASSUME NEW host \in Host, WriteDate(host) PROVE date' \in DateType
  <2>1. date \in DateType
    BY <1>4 DEF WriteDate, AtDates, Typed
  <2>. DEFINE map == date.given[host]
              maps == [date.maps EXCEPT ![map] = date.maps[map] \cup {host}]
  <2>2. date' = [date EXCEPT !.at = [date.at EXCEPT ![host] = "set"], !.maps = maps]
    BY <1>4 DEF WriteDate
  <2>3. maps \in [Host -> SUBSET Host]
    BY <2>1 DEF DateType
  <2>. HIDE DEF maps
  <2>4. [date.at EXCEPT ![host] = "set"] \in [Host -> {"get", "write", "set", "done"}]
    BY <2>1 DEF DateType
  <2>. QED
    BY <2>1, <2>2, <2>3, <2>4 DEF DateType
<1>5. ASSUME NEW host \in Host, SetMap(host) PROVE date' \in DateType
  <2>1. date \in DateType
    BY <1>5 DEF SetMap, AtDates, Typed
  <2>2. date' = [date EXCEPT !.at = [@ EXCEPT ![host] = "done"], !.shared = date.given[host]]
    BY <1>5 DEF SetMap
  <2>. QED
    BY <2>1, <2>2 DEF DateType
<1>. QED
  BY <1>1, <1>2, <1>3, <1>4, <1>5 DEF Next, Begin, Change, Check, CleanFirst, StartHTTPServer,
    TaskFails, Kill, Die, EndDates, CleanAfter, CleanAfterFails, Post, ConcurrentMapWrite

\* Every step keeps the types.
LEMMA TypedStep ==
  ASSUME Typed, [Next]_vars
  PROVE  Typed'
<1>1. CASE UNCHANGED vars
  BY <1>1 DEF vars, Typed, Services, DateType, Host
<1>2. CASE Next
  <2>1. Services' = Services /\ DateType' = DateType
    BY <1>2, TypedMocks DEF Services, DateType, Host
  <2>2. runs' = runs \/ (runs < MaxRuns /\ runs' = runs + 1)
    BY <1>2 DEF Next, Begin, Change, Check, CleanFirst, StartHTTPServer, TaskFails, Kill, Die,
      BeginDates, EndDates, CleanAfter, CleanAfterFails, Post, GetMap, WriteDate, SetMap,
      ConcurrentMapWrite
  <2>4. faults' = faults \/ (faults < MaxFaults /\ faults' = faults + 1)
    BY <1>2 DEF Next, Begin, Change, Check, CleanFirst, StartHTTPServer, TaskFails, Kill, Die,
      BeginDates, EndDates, CleanAfter, CleanAfterFails, Post, GetMap, WriteDate, SetMap,
      ConcurrentMapWrite
  <2>3. runs' \in 0 .. MaxRuns /\ faults' \in 0 .. MaxFaults
    BY <2>2, <2>4, PrecheckFaultAssumption DEF Typed
  <2>. QED
    BY <1>2, <2>1, <2>3, TypedMocks, TypedDate, TypedJob DEF Typed
<1>. QED
  BY <1>1, <1>2


\* The parts of the invariant beyond the types.
Rest == ParsedFirst /\ Mocked /\ NetworkChecked /\ Passed /\ FailedFor /\ Cleared

\* Nothing is behind a run that begins.
LEMMA BeginKeeps ==
  ASSUME IInv, Begin
  PROVE  Rest'
<1>1. job'.at = 1
  BY DEF Begin
<1>2. \A step \in MockStep : ~ Past(step)'
  <2>1. \A step \in MockStep : Place(step)' \in Nat \ {0}
    BY SameHosts, Places DEF Begin
  <2>. QED
    BY <1>1, <2>1 DEF Past
<1>3. Mocked' /\ NetworkChecked'
  BY <1>2 DEF Mocked, NetworkChecked, MockStep
<1>4. Passed'
  BY DEF Begin, Passed
<1>5. FailedFor'
  BY SameHosts DEF Begin, FailedFor, Wrong
<1>6. ParsedFirst' /\ Cleared'
  BY DEF Begin, IInv, ParsedFirst, Cleared, Ended, NoMock
<1>. QED
  BY <1>3, <1>4, <1>5, <1>6 DEF Rest

\* Between two runs nothing is claimed of the hosts.
LEMMA ChangeKeeps ==
  ASSUME IInv, Change
  PROVE  Rest'
<1>1. job'.result = "none"
  BY DEF Change, IInv, Typed, JobType
<1>. QED
  BY <1>1 DEF Change, IInv, Rest, ParsedFirst, Mocked, NetworkChecked, Passed, FailedFor, Cleared,
    Ended, NoMock

\* A step that succeeds adds to what is behind what it checked or did.
LEMMA ProceedKeeps ==
  ASSUME IInv, Running, Step # "none", Proceed, run' = run, env' = env,
         Step = "CLEAN_PRECHECK_ENVIRONMENT" => NoMock' /\ Host \subseteq env.docker,
         Step = "START_HTTP_SERVER" =>
           Clashes \/ \A dc \in Services : Starts(dc) => mock'[dc.id] = "running",
         Step \notin {"CLEAN_PRECHECK_ENVIRONMENT", "START_HTTP_SERVER"} => mock' = mock,
         Step = "CHECK_PORT_IN_USE" => PortsFree,
         Step = "CHECK_NETWORK_FIREWALL" => NetworkOpen
  PROVE  Rest'
<1>. Typed
  BY DEF IInv
<1>1. job'.result = "running"
  BY Proceeded DEF Running
<1>2. /\ Past("CLEAN_PRECHECK_ENVIRONMENT")' <=>
           Past("CLEAN_PRECHECK_ENVIRONMENT") \/ Step = "CLEAN_PRECHECK_ENVIRONMENT"
      /\ Past("START_HTTP_SERVER")' <=> Past("START_HTTP_SERVER") \/ Step = "START_HTTP_SERVER"
  BY Proceeded, Items DEF MockStep
<1>3. "network" \notin run.skip =>
        /\ Past("CHECK_PORT_IN_USE")' <=> Past("CHECK_PORT_IN_USE") \/ Step = "CHECK_PORT_IN_USE"
        /\ Past("CHECK_NETWORK_FIREWALL")' <=>
             Past("CHECK_NETWORK_FIREWALL") \/ Step = "CHECK_NETWORK_FIREWALL"
  BY Proceeded, Items DEF MockStep
<1>4. Mocked'
  <2>1. CASE Step = "CLEAN_PRECHECK_ENVIRONMENT"
    <3>1. Place("START_HTTP_SERVER") >= Min(Left)
      <4>1. Min(Left) = Place("CLEAN_PRECHECK_ENVIRONMENT")
        BY <2>1, StepIsNext, Places DEF MockStep
      <4>. QED
        BY <4>1, Places DEF MockStep
    <3>2. ~ Past("START_HTTP_SERVER")'
      BY <1>2, <2>1, <3>1, Order DEF MockStep
    <3>. QED
      BY <2>1, <3>2, SameHosts DEF Mocked
  <2>2. CASE Step = "START_HTTP_SERVER"
    <3>1. Past("START_HTTP_SERVER")'
      BY <1>2, <2>2
    <3>2. Past("CLEAN_PRECHECK_ENVIRONMENT")' => Host \subseteq env.docker
      BY <1>2, <2>2 DEF IInv, Mocked, Running
    <3>. QED
      BY <2>2, <3>1, <3>2, SameHosts DEF Mocked
  <2>3. CASE Step \notin {"CLEAN_PRECHECK_ENVIRONMENT", "START_HTTP_SERVER"}
    <3>1. NoMock' <=> NoMock
      BY <2>3 DEF NoMock
    <3>. QED
      BY <1>2, <2>3, <3>1, SameHosts DEF IInv, Mocked, Running
  <2>. QED
    BY <2>1, <2>2, <2>3
<1>5. NetworkChecked'
  BY <1>3, SameHosts DEF IInv, NetworkChecked, Running
<1>6. ParsedFirst' /\ Passed' /\ FailedFor' /\ Cleared'
  BY <1>1 DEF IInv, ParsedFirst, Running, Passed, FailedFor, Cleared, Ended
<1>. QED
  BY <1>4, <1>5, <1>6 DEF Rest

\* A step that fails has found something wrong, or was hit.
LEMMA FailKeeps ==
  ASSUME IInv, Running, NEW hit \in BOOLEAN, Fail(hit), hit \/ Wrong, run' = run, env' = env
  PROVE  Rest'
<1>1. job'.result = "failing" /\ job'.hit = (job.hit \/ hit)
  BY FailedJob DEF IInv
<1>2. FailedFor'
  BY <1>1, SameHosts DEF FailedFor
<1>. QED
  BY <1>1, <1>2 DEF IInv, Running, Rest, ParsedFirst, Mocked, NetworkChecked, Passed, Cleared, Ended

\* Of a run that dies nothing is claimed.
LEMMA DieKeeps ==
  ASSUME IInv, job.result \in {"running", "failing"}, Die
  PROVE  Rest'
<1>1. job'.result = "died"
  BY DEF Die, IInv, Typed, JobType
<1>. QED
  BY <1>1 DEF Die, IInv, Rest, ParsedFirst, Mocked, NetworkChecked, Passed, FailedFor, Cleared, Ended

\* What passes has everything behind; what was cleaned leaves nothing.
LEMMA PostKeeps ==
  ASSUME IInv, NEW broken, Post(broken)
  PROVE  Rest'
<1>. Typed /\ run' = run /\ env' = env /\ Step = "none"
  BY DEF IInv, Post
<1>1. /\ job'.result = (IF job.result = "running" THEN "passed" ELSE "failed")
      /\ job'.hit = job.hit /\ job'.left = (broken # {} \/ ~ CleanSucceeds)
  BY DEF Post, Typed, JobType
<1>2. Passed'
  <2>1. CASE Running
    <3>1. "network" \notin run.skip => PortsFree /\ NetworkOpen
      BY <2>1, AllBehind, Items DEF MockStep, IInv, NetworkChecked, Running
    <3>. QED
      BY <3>1, SameHosts DEF Passed
  <2>2. CASE ~ Running
    BY <1>1, <2>2 DEF Running, Passed
  <2>. QED
    BY <2>1, <2>2
<1>3. FailedFor'
  BY <1>1, SameHosts DEF Post, IInv, FailedFor
<1>4. Cleared'
  <2>. SUFFICES ASSUME ~ job'.left PROVE NoMock'
    BY DEF Cleared
  <2>1. broken = {} /\ CleanSucceeds
    BY <1>1
  <2>. QED
    BY <2>1, CleanedAway DEF Post
<1>5. ParsedFirst' /\ Mocked' /\ NetworkChecked'
  BY <1>1 DEF Post, IInv, ParsedFirst, Mocked, NetworkChecked
<1>. QED
  BY <1>2, <1>3, <1>4, <1>5 DEF Rest

\* Asking for the dates changes nothing the invariant is about.
LEMMA IdleKeeps ==
  ASSUME IInv, run' = run, env' = env, mock' = mock, job' = job
  PROVE  Rest'
<1>1. (NoMock' <=> NoMock) /\ \A step : Past(step)' <=> Past(step)
  BY SameHosts DEF NoMock, Past
<1>2. Mocked'
  BY <1>1, SameHosts DEF IInv, Mocked
<1>. QED
  BY <1>1, <1>2, SameHosts DEF IInv, Rest, ParsedFirst, NetworkChecked, Passed, FailedFor, Cleared,
    Ended

\* Every step of the command preserves the rest of the invariant.
LEMMA NextKeeps ==
  ASSUME IInv, Next
  PROVE  Rest'
<1>. Typed
  BY DEF IInv
<1>1. CASE Begin
  BY <1>1, BeginKeeps
<1>2. CASE Change
  BY <1>2, ChangeKeeps
<1>3. CASE Check
  <2>1. Running /\ Step # "none" /\ run' = run /\ env' = env /\ mock' = mock
    BY <1>3 DEF Check
  <2>2. CASE Succeeds(Step)
    <3>1. Proceed /\ Step \notin {"CLEAN_PRECHECK_ENVIRONMENT", "START_HTTP_SERVER"}
      BY <1>3, <2>2 DEF Check
    <3>2. Step = "CHECK_PORT_IN_USE" => PortsFree
      BY <2>2, PortsFound DEF Succeeds
    <3>3. Step = "CHECK_NETWORK_FIREWALL" => NetworkOpen
      BY <2>2, FirewallOpen DEF Succeeds
    <3>. QED
      BY <2>1, <3>1, <3>2, <3>3, ProceedKeeps
  <2>3. CASE ~ Succeeds(Step)
    <3>1. Fail(FALSE)
      BY <1>3, <2>3 DEF Check
    <3>2. Wrong
      BY <1>3, <2>3, CheckFinds DEF Check, IInv
    <3>. QED
      BY <2>1, <3>1, <3>2, FailKeeps
  <2>. QED
    BY <2>2, <2>3
<1>4. CASE CleanFirst
  <2>1. /\ Running /\ Step = "CLEAN_PRECHECK_ENVIRONMENT" /\ run' = run /\ env' = env
        /\ mock' = Cleaned({})
    BY <1>4 DEF CleanFirst
  <2>2. CASE CleanSucceeds
    <3>1. Proceed /\ NoMock' /\ Host \subseteq env.docker
      BY <1>4, <2>1, <2>2, CleanedAway DEF CleanFirst, CleanSucceeds
    <3>. QED
      BY <2>1, <3>1, ProceedKeeps
  <2>3. CASE ~ CleanSucceeds
    <3>1. Fail(FALSE)
      BY <1>4, <2>3 DEF CleanFirst
    <3>2. Wrong
      BY <2>3 DEF CleanSucceeds, Host, Wrong
    <3>. QED
      BY <2>1, <3>1, <3>2, FailKeeps
  <2>. QED
    BY <2>2, <2>3
<1>5. CASE StartHTTPServer
  <2>1. /\ Running /\ Step = "START_HTTP_SERVER" /\ run' = run /\ env' = env
    BY <1>5 DEF StartHTTPServer
  <2>2. CASE StartSucceeds /\ Proceed
    <3>1. Clashes \/ \A dc \in Services : Starts(dc) => mock'[dc.id] = "running"
      BY <1>5, <2>2, AllStarted DEF StartHTTPServer
    <3>. QED
      BY <2>1, <2>2, <3>1, ProceedKeeps
  <2>3. CASE (~ StartSucceeds \/ OneId) /\ Fail(FALSE)
    <3>1. Fail(FALSE)
      BY <2>3
    <3>2. Past("CLEAN_PRECHECK_ENVIRONMENT") /\ ~ Past("START_HTTP_SERVER")
      <4>1. Min(Left) = Place("START_HTTP_SERVER")
        BY <2>1, StepIsNext, Places DEF MockStep
      <4>2. /\ Place("CLEAN_PRECHECK_ENVIRONMENT") < Min(Left)
            /\ Place("START_HTTP_SERVER") >= Min(Left)
        BY <4>1, Places DEF MockStep
      <4>. QED
        BY <2>1, <4>2, Order, Items DEF MockStep
    <3>3. NoMock /\ Host \subseteq env.docker
      BY <2>1, <3>2 DEF IInv, Mocked, Running
    <3>4. \A dc \in Services : mock[dc.id] = "absent" /\ dc.host \in env.docker
      BY <3>3 DEF Typed, NoMock, Host
    <3>5. Wrong
      BY <2>3, <3>4 DEF StartSucceeds, OneId, Clashes, Clash, Wrong
    <3>. QED
      BY <2>1, <3>1, <3>5, FailKeeps
  <2>. QED
    BY <1>5, <2>2, <2>3 DEF StartHTTPServer
<1>6. CASE TaskFails
  <2>1. Running /\ Fail(TRUE) /\ run' = run /\ env' = env
    BY <1>6 DEF TaskFails
  <2>. QED
    BY <2>1, FailKeeps
<1>7. CASE Kill
  BY <1>7, DieKeeps DEF Kill
<1>8. CASE EndDates
  <2>1. /\ Running /\ Step = "GET_HOST_DATE" /\ Proceed /\ run' = run /\ env' = env
        /\ mock' = mock
    BY <1>8 DEF EndDates, AtDates
  <2>. QED
    BY <2>1, ProceedKeeps
<1>9. CASE CleanAfter
  BY <1>9, PostKeeps DEF CleanAfter
<1>10. CASE CleanAfterFails
  BY <1>10, PostKeeps DEF CleanAfterFails
<1>11. CASE BeginDates \/ \E host \in Host : GetMap(host) \/ WriteDate(host) \/ SetMap(host)
  BY <1>11, IdleKeeps DEF BeginDates, GetMap, WriteDate, SetMap
<1>12. CASE \E host1, host2 \in Host : ConcurrentMapWrite(host1, host2)
  BY <1>12, DieKeeps DEF ConcurrentMapWrite, AtDates, Running
<1>. QED
  BY <1>1, <1>2, <1>3, <1>4, <1>5, <1>6, <1>7, <1>8, <1>9, <1>10, <1>11, <1>12 DEF Next

\* The invariant holds before the first run.
LEMMA InitIInv ==
  ASSUME Init
  PROVE  IInv
<1>1. Typed
  BY PrecheckFaultAssumption DEF Init, Typed, JobType
<1>. QED
  BY <1>1 DEF Init, IInv, ParsedFirst, NoMock, Mocked, NetworkChecked, Passed, FailedFor, Cleared,
    Ended

\* The invariant holds: at each step of a run, what the steps behind it (src/internal/
\* playbook/playbook.go runs them in order and ends at the first that fails)
\* established about the hosts and the mock servers still does.
THEOREM PrecheckInvariant == Spec => []IInv
<1>1. IInv /\ [Next]_vars => IInv'
  <2>. SUFFICES ASSUME IInv, [Next]_vars PROVE IInv'
    OBVIOUS
  <2>1. Typed'
    BY TypedStep DEF IInv
  <2>2. Rest'
    BY NextKeeps, IdleKeeps DEF vars
  <2>. QED
    BY <2>1, <2>2 DEF IInv, Rest
<1>. QED
  BY <1>1, InitIInv, PTL DEF Spec

\* The state of the command, of the mock servers and of the dates has its type, at
\* every step of every run.
THEOREM PrecheckTypeOK == Spec => []TypeOK
<1>1. IInv => TypeOK
  BY BSPlaces DEF IInv, Typed, JobType, TypeOK
<1>. QED
  BY <1>1, PrecheckInvariant, PTL

\* A precheck that no failure hits fails only for something it is to find wrong,
\* never for a mock server, its own or one that a run that was killed left
\* (src/cli/command/precheck.go).
THEOREM PrecheckFailedMeansWrong == Spec => []FailedMeansWrong
<1>1. IInv => FailedMeansWrong
  BY DEF IInv, FailedFor, FailedMeansWrong
<1>. QED
  BY <1>1, PrecheckInvariant, PTL

\* Each address a service's configuration names is its own or one that the
\* firewall was checked for.
LEMMA ConfiguredChecked ==
  ASSUME Typed, run.err = "none", ~ OneId, NEW dc \in Services,
         NEW address \in ConfiguredAddresses(dc), address \notin ToSet(ListenAddresses(dc))
  PROVE  \E to \in Services : Connects(dc, to) /\ address \in ToSet(ListenAddresses(to))
<1>1. /\ dc.role \in {"etcd", "mds", "chunkserver", "snapshotclone", "metaserver"}
      /\ \A name \in DOMAIN ClusterVariables(run.dcs) :
           dc.variables[name] = ClusterVariables(run.dcs)[name]
  BY PrecheckRunsAssumption DEF Typed, Services, CONNECT
<1>2. /\ dc.variables["cluster_etcd_http_addr"] = JoinEtcdPeer(run.dcs)
      /\ dc.variables["cluster_etcd_addr"] = JoinPeer(run.dcs, "etcd", "listen.client_port")
      /\ dc.variables["cluster_mds_addr"] = JoinPeer(run.dcs, "mds", "listen.port")
  BY <1>1 DEF ClusterVariables
<1>3. PICK to \in Services :
        \/ to.role = "etcd" /\ dc.role \in {"etcd", "mds"}
           /\ \/ address = <<GetListenIp(to), GetInt(to, "listen.port")>>
              \/ address = <<GetListenIp(to), GetInt(to, "listen.client_port")>>
        \/ to.role = "mds" /\ dc.role \in {"mds", "chunkserver", "metaserver"}
           /\ address = <<GetListenIp(to), GetInt(to, "listen.port")>>
  <2>1. CASE dc.role = "etcd"
    <3>1. address \in {<<p[2], p[3]>> : p \in dc.variables["cluster_etcd_http_addr"][1][2]}
      BY <2>1 DEF ConfiguredAddresses
    <3>2. PICK p \in JoinEtcdPeer(run.dcs)[1][2] : address = <<p[2], p[3]>>
      BY <1>2, <3>1
    <3>3. \E to \in Services : to.role = "etcd" /\ p[2] = GetListenIp(to) /\ p[3] = GetListenPort(to)
      BY <3>2 DEF JoinEtcdPeer, Services
    <3>. QED
      BY <2>1, <3>2, <3>3 DEF GetListenPort
  <2>2. CASE dc.role = "mds"
    <3>1. \/ address \in JoinPeer(run.dcs, "etcd", "listen.client_port")[1][2]
          \/ address \in JoinPeer(run.dcs, "mds", "listen.port")[1][2]
      BY <1>2, <2>2 DEF ConfiguredAddresses
    <3>. QED
      BY <2>2, <3>1 DEF JoinPeer, Services
  <2>3. CASE dc.role \in {"chunkserver", "metaserver"}
    <3>1. address \in JoinPeer(run.dcs, "mds", "listen.port")[1][2]
      BY <1>2, <2>3 DEF ConfiguredAddresses
    <3>. QED
      BY <2>3, <3>1 DEF JoinPeer, Services
  <2>4. CASE dc.role = "snapshotclone"
    BY <2>4 DEF ConfiguredAddresses
  <2>. QED
    BY <1>1, <2>1, <2>2, <2>3, <2>4
<1>4. address \in ToSet(ListenAddresses(to))
  BY <1>3 DEF ListenAddresses, ToSet
<1>5. to.id # dc.id
  BY <1>4 DEF OneId
<1>. QED
  BY <1>3, <1>4, <1>5 DEF Connects, CONNECT

\* When precheck has passed for services of different ids, the ports of every service are free and each address
\* its configuration will name can be connected to; and a precheck that ended and
\* could clean up leaves no mock server (src/internal/task/task/checker/network.go).
THEOREM PrecheckPassedMeansReady == Spec => []PassedMeansReady
<1>1. IInv => PassedMeansReady
  <2>. SUFFICES ASSUME IInv PROVE PassedMeansReady
    OBVIOUS
  <2>1. ASSUME job.result = "passed", "network" \notin run.skip, ~ OneId, NEW dc \in Services
        PROVE  /\ \A l \in env.used : l[1] = dc.host => l[2][2] \notin Ports(dc)
               /\ \A address \in ConfiguredAddresses(dc) \ ToSet(ListenAddresses(dc)) :
                    address[1] \notin env.down /\ <<dc.host, address>> \notin env.blocked
    <3>1. Typed /\ run.err = "none" /\ PortsFree /\ NetworkOpen
      BY <2>1 DEF IInv, ParsedFirst, Passed
    <3>. QED
      BY <2>1, <3>1, ConfiguredChecked DEF PortsFree, NetworkOpen
  <2>2. Ended /\ ~ job.left => \A id \in DOMAIN mock : mock[id] = "absent"
    BY DEF IInv, Cleared, NoMock
  <2>. QED
    BY <2>1, <2>2 DEF PassedMeansReady
<1>. QED
  BY <1>1, PrecheckInvariant, PTL

-----------------------------------------------------------------------------
(* What is parsed. *)

\* Numbers of which none is the least are none.
LEMMA NoLeastNone ==
  ASSUME NEW n \in Nat, NEW T \in SUBSET (0 .. n),
         \A i \in T : \E j \in T : j < i
  PROVE  T = {}
<1>. SUFFICES ASSUME T # {} PROVE FALSE
  OBVIOUS
<1>1. T \in SUBSET Nat
  OBVIOUS
<1>2. Min(T) \in T /\ \A j \in T : Min(T) <= j
  BY <1>1, MinIsLeast
<1>3. PICK m \in T : \A j \in T : m <= j
  BY <1>2
<1>4. PICK j \in T : j < m
  BY <1>3
<1>5. m <= j /\ m \in Nat /\ j \in Nat
  BY <1>1, <1>3
<1>. QED
  BY <1>4, <1>5

\* The sequences of a sequence, one after the other, are a sequence.
LEMMA FlattenSeqType ==
  ASSUME NEW S, NEW s \in Seq(Seq(S))
  PROVE  FlattenSeq(s) \in Seq(S)
<1>. DEFINE Sum(f, i) == IF i = 1 THEN s[i] ELSE f[i - 1] \o s[i]
            Upto(n, f) == f \in [1 .. n -> Seq(S)] /\ \A i \in 1 .. n : f[i] = Sum(f, i)
            Bad == {n \in 0 .. Len(s) : ~ \E f : Upto(n, f)}
            flatten == CHOOSE f : f = [i \in 1 .. Len(s) |-> Sum(f, i)]
<1>0. Len(s) \in Nat /\ \A i \in 1 .. Len(s) : s[i] \in Seq(S)
  OBVIOUS
<1>1. Bad = {}
  <2>1. ASSUME NEW n \in Bad PROVE \E m \in Bad : m < n
    <3>0. n \in 0 .. Len(s) /\ ~ \E f : Upto(n, f)
      OBVIOUS
    <3>1. n # 0
      <4>1. Upto(0, [i \in 1 .. 0 |-> <<>>])
        OBVIOUS
      <4>. QED
        BY <4>1
    <3>2. n - 1 \in 0 .. Len(s) /\ n - 1 < n
      BY <3>0, <3>1, <1>0
    <3>3. ASSUME NEW f, Upto(n - 1, f) PROVE FALSE
      <4>. DEFINE g == [i \in 1 .. n |-> IF i = n THEN Sum(f, n) ELSE f[i]]
      <4>1. n # 1 => n - 1 \in 1 .. n - 1
        BY <3>0, <3>1, <1>0
      <4>2. Sum(f, n) \in Seq(S)
        <5>1. n \in 1 .. Len(s)
          BY <3>0, <3>1, <1>0
        <5>. QED
          BY <3>3, <4>1, <5>1, <1>0
      <4>0. \A i \in 1 .. n : i # n => i \in 1 .. n - 1
        BY <3>0, <1>0
      <4>3. g \in [1 .. n -> Seq(S)]
        BY <3>3, <4>0, <4>2
      <4>4. ASSUME NEW i \in 1 .. n PROVE g[i] = Sum(g, i)
        <5>1. i # 1 => i - 1 \in 1 .. n /\ i - 1 # n
          BY <3>0, <1>0
        <5>2. i # 1 => g[i - 1] = f[i - 1]
          BY <5>1
        <5>3. Sum(g, i) = Sum(f, i)
          BY <5>2
        <5>4. CASE i = n
          BY <5>3, <5>4
        <5>5. CASE i # n
          BY <3>3, <4>0, <5>3, <5>5
        <5>. QED
          BY <5>4, <5>5
      <4>5. Upto(n, g)
        BY <4>3, <4>4
      <4>. HIDE DEF g, Upto
      <4>. QED
        BY <3>0, <4>5
    <3>4. n - 1 \in Bad
      <4>. HIDE DEF Upto
      <4>. QED
        BY <3>2, <3>3
    <3>. QED
      BY <3>2, <3>4
  <2>2. Bad \in SUBSET (0 .. Len(s))
    OBVIOUS
  <2>. HIDE DEF Bad
  <2>. QED
    BY <2>1, <2>2, <1>0, NoLeastNone
<1>2. CASE Len(s) = 0
  BY <1>2 DEF FlattenSeq
<1>3. CASE Len(s) # 0
  <2>1. PICK f : Upto(Len(s), f)
    <3>. HIDE DEF Upto
    <3>1. Len(s) \in 0 .. Len(s)
      BY <1>0
    <3>2. (~ \E f : Upto(Len(s), f)) => Len(s) \in Bad
      BY <3>1
    <3>. HIDE DEF Bad
    <3>. QED
      BY <1>1, <3>2
  <2>2. f = [i \in 1 .. Len(s) |-> Sum(f, i)]
    BY <2>1
  <2>3. flatten = [i \in 1 .. Len(s) |-> Sum(flatten, i)]
    BY <2>2
  <2>4. {i \in 1 .. Len(s) : flatten[i] \notin Seq(S)} = {}
    <3>. DEFINE T == {i \in 1 .. Len(s) : flatten[i] \notin Seq(S)}
    <3>1. ASSUME NEW i \in T PROVE \E j \in T : j < i
      <4>1. i \in 1 .. Len(s) /\ flatten[i] = Sum(flatten, i) /\ flatten[i] \notin Seq(S)
        BY <2>3
      <4>. HIDE DEF flatten
      <4>2. i # 1
        BY <4>1, <1>0
      <4>3. i - 1 \in 1 .. Len(s) /\ i - 1 < i
        BY <4>1, <4>2, <1>0
      <4>4. flatten[i - 1] \notin Seq(S)
        BY <4>1, <4>2, <1>0
      <4>. QED
        BY <4>3, <4>4
    <3>2. T \in SUBSET (0 .. Len(s))
      <4>. HIDE DEF flatten
      <4>. QED
        BY <1>0
    <3>. HIDE DEF T
    <3>3. T = {}
      BY <3>1, <3>2, <1>0, NoLeastNone
    <3>. QED
      BY <3>3 DEF T
  <2>5. FlattenSeq(s) = flatten[Len(s)]
    BY <1>3 DEF FlattenSeq
  <2>6. Len(s) \in 1 .. Len(s)
    BY <1>0, <1>3
  <2>. HIDE DEF flatten
  <2>. QED
    BY <2>4, <2>5, <2>6
<1>. QED
  BY <1>2, <1>3

\* What is taken of the shape of a topology: deploys in a sequence, with how many
\* replicas each.
Shaped(text) ==
  \A role \in DOMAIN text.services :
    /\ \E n \in Nat : DOMAIN text.services[role].deploy = 1 .. n
    /\ \A i \in DOMAIN text.services[role].deploy : text.services[role].deploy[i].replicas \in Int

\* The fields of a service, and that its role is one of those there are.
IsService(dc) ==
  /\ {"kind", "role", "host", "hostname", "name", "id", "parentId", "replicas", "hostSequence",
      "replicasSequence", "config", "variables"} \subseteq DOMAIN dc
  /\ dc.role \in DOMAIN CONNECT

\* What is written in a topology are services (NewDeployConfig).
LEMMA Written ==
  ASSUME NEW text, Shaped(text),
         \A role \in DOMAIN text.services :
           \A i \in DOMAIN text.services[role].deploy : text.services[role].deploy[i].replicas >= 0
  PROVE  \E S : (\A dc \in S : IsService(dc)) /\ NewDeployConfigs(text) \in Seq(S)
<1>. DEFINE
       roles == IF text.kind = "curvebs" THEN <<"etcd", "mds", "chunkserver", "snapshotclone">>
                                         ELSE <<"etcd", "mds", "metaserver">>
       Replicas(deploy) == IF deploy.replicas = 0 THEN 1 ELSE deploy.replicas
       Config(service, deploy) == Merge(Merge(text.global, service.config), deploy.config)
       New(role, i, k) ==
         NewDeployConfig(text.kind, role,
           [text.services[role].deploy[i] EXCEPT !.replicas = Replicas(text.services[role].deploy[i])],
           Config(text.services[role], text.services[role].deploy[i]), i - 1, k - 1)
       OfDeploy(role, i) == [k \in 1 .. Replicas(text.services[role].deploy[i]) |-> New(role, i, k)]
       OfRole(role) == FlattenSeq([i \in DOMAIN text.services[role].deploy |-> OfDeploy(role, i)])
       all == [r \in DOMAIN roles |->
                 IF roles[r] \in DOMAIN text.services THEN OfRole(roles[r]) ELSE <<>>]
       S == UNION {UNION {{New(role, i, k) : k \in Nat} : i \in Nat} : role \in DOMAIN CONNECT}
<1>1. NewDeployConfigs(text) = FlattenSeq(all)
  BY DEF NewDeployConfigs
<1>2. ASSUME NEW role \in DOMAIN CONNECT, NEW i, NEW k PROVE IsService(New(role, i, k))
  BY DEF NewDeployConfig, IsService
<1>3. \A dc \in S : IsService(dc)
  <2>. HIDE DEF New
  <2>. QED
    BY <1>2
<1>4. ASSUME NEW role \in DOMAIN CONNECT, role \in DOMAIN text.services
      PROVE  OfRole(role) \in Seq(S)
  <2>. DEFINE deploys == text.services[role].deploy
  <2>1. PICK n \in Nat : DOMAIN deploys = 1 .. n
    BY <1>4 DEF Shaped
  <2>2. ASSUME NEW i \in 1 .. n PROVE OfDeploy(role, i) \in Seq(S)
    <3>1. Replicas(deploys[i]) \in Nat
      BY <1>4, <2>1 DEF Shaped
    <3>2. \A k \in 1 .. Replicas(deploys[i]) : New(role, i, k) \in S
      <4>. HIDE DEF New
      <4>. QED
        BY <3>1
    <3>. HIDE DEF New, S, Replicas
    <3>. QED
      BY <3>1, <3>2
  <2>3. [i \in DOMAIN deploys |-> OfDeploy(role, i)] \in Seq(Seq(S))
    <3>. HIDE DEF OfDeploy, S
    <3>. QED
      BY <2>1, <2>2
  <2>. HIDE DEF OfDeploy, S
  <2>. QED
    BY <2>3, FlattenSeqType
<1>5. all \in Seq(Seq(S))
  <2>. HIDE DEF OfRole, S
  <2>0. DOMAIN roles = 1 .. 4 \/ DOMAIN roles = 1 .. 3
    OBVIOUS
  <2>1. \E n \in Nat : DOMAIN roles = 1 .. n
    BY <2>0
  <2>2. \A r \in DOMAIN roles : roles[r] \in DOMAIN CONNECT
    BY DEF CONNECT
  <2>3. \A r \in DOMAIN roles : all[r] \in Seq(S)
    BY <1>4, <2>2
  <2>. HIDE DEF roles
  <2>. QED
    BY <2>1, <2>3
<1>6. NewDeployConfigs(text) \in Seq(S)
  <2>. HIDE DEF all, S
  <2>. QED
    BY <1>1, <1>5, FlattenSeqType
<1>. HIDE DEF S
<1>. QED
  BY <1>3, <1>6

\* A service that was built is still one.
LEMMA BuiltService ==
  ASSUME NEW written, IsService(written), NEW hosts, Built(written, hosts).err = "none"
  PROVE  IsService(Built(written, hosts).dc)
<1>. DEFINE host == Rendering(written.variables, written.host)
            dc == ResolveHost(written, host, hosts)
            variables == Registered(dc.variables, ServiceVariables(dc))
<1>1. ResolveError(written, hosts) = "none"
  BY DEF Built
<1>2. Built(written, hosts) = WithVariables(dc, ServiceVariables(dc))
  BY <1>1 DEF Built, Resolved
<1>3. Built(written, hosts) = Build(dc, variables)
  BY <1>2 DEF WithVariables
<1>4. Built(written, hosts).dc = Rendered(dc, variables)
  <2>1. BuildVariables(variables) # "none"
    BY DEF BuildVariables
  <2>. HIDE DEF dc, variables
  <2>. QED
    BY <1>3, <2>1 DEF Build
<1>5. IsService(dc)
  BY DEF IsService, ResolveHost
<1>6. IsService(Rendered(dc, variables))
  <2>. HIDE DEF dc, variables
  <2>. QED
    BY <1>5 DEF IsService, Rendered
<1>. QED
  BY <1>4, <1>6

\* Adding variables to the services changes none of their settings.
LEMMA SettingsStay ==
  ASSUME NEW dc, IsService(dc), NEW variables, NEW d, d = [dc EXCEPT !.variables = variables]
  PROVE  /\ IsService(d) /\ d.kind = dc.kind /\ d.role = dc.role
         /\ d.hostSequence = dc.hostSequence /\ d.replicasSequence = dc.replicasSequence
         /\ d.variables = variables
         /\ GetListenIp(d) = GetListenIp(dc)
         /\ \A key : Get(d, key) = Get(dc, key)
<1>1. /\ d.kind = dc.kind /\ d.role = dc.role /\ d.hostSequence = dc.hostSequence
      /\ d.replicasSequence = dc.replicasSequence /\ d.variables = variables
      /\ d.config = dc.config /\ d.hostname = dc.hostname
  BY DEF IsService
<1>2. \A key : Get(d, key) = Get(dc, key)
  BY <1>1 DEF Get, Default
<1>3. GetListenIp(d) = GetListenIp(dc)
  BY <1>2 DEF GetListenIp
<1>4. IsService(d)
  BY <1>1 DEF IsService
<1>. QED
  BY <1>1, <1>2, <1>3, <1>4

\* Every service gets the variables of the whole topology.
LEMMA TogetherShare ==
  ASSUME NEW dcs, NEW n \in Nat, DOMAIN dcs = 1 .. n,
         \A i \in DOMAIN dcs : IsService(dcs[i]), Together(dcs).err = "none"
  PROVE  LET after == Together(dcs).dcs
         IN \A dc \in ToSet(after) :
              /\ dc.role \in DOMAIN CONNECT
              /\ \A name \in DOMAIN ClusterVariables(after) :
                   dc.variables[name] = ClusterVariables(after)[name]
<1>. DEFINE added == ClusterVariables(dcs)
            after == [i \in DOMAIN dcs |->
                        [dcs[i] EXCEPT !.variables = Registered(dcs[i].variables, added)]]
<1>1. Together(dcs).dcs = after
  BY DEF Together, WithClusterVariables
<1>2. ASSUME NEW i \in DOMAIN dcs
      PROVE  /\ after[i].kind = dcs[i].kind /\ after[i].role = dcs[i].role
             /\ after[i].hostSequence = dcs[i].hostSequence
             /\ after[i].replicasSequence = dcs[i].replicasSequence
             /\ after[i].variables = Registered(dcs[i].variables, added)
             /\ GetListenIp(after[i]) = GetListenIp(dcs[i])
             /\ \A key : Get(after[i], key) = Get(dcs[i], key)
             /\ IsService(after[i])
  <2>. HIDE DEF added
  <2>1. after[i] = [dcs[i] EXCEPT !.variables = Registered(dcs[i].variables, added)]
    OBVIOUS
  <2>2. IsService(dcs[i])
    OBVIOUS
  <2>. HIDE DEF after
  <2>. QED
    BY <2>1, <2>2, SettingsStay
<1>. HIDE DEF added
<1>3. DOMAIN after = DOMAIN dcs
  OBVIOUS
<1>. HIDE DEF after
<1>4. ASSUME NEW role, NEW port PROVE JoinPeer(after, role, port) = JoinPeer(dcs, role, port)
  BY <1>2, <1>3 DEF JoinPeer, ToSet, GetInt
<1>5. ASSUME NEW role PROVE JoinDummyPort(after, role) = JoinDummyPort(dcs, role)
  BY <1>2, <1>3 DEF JoinDummyPort, ToSet, GetInt
<1>6. JoinEtcdPeer(after) = JoinEtcdPeer(dcs)
  BY <1>2, <1>3 DEF JoinEtcdPeer, ToSet, GetListenPort, GetInt
<1>7. ASSUME n # 0 PROVE ClusterVariables(after) = added
  <2>1. after[1].kind = dcs[1].kind
    BY <1>2, <1>7
  <2>. QED
    BY <1>4, <1>5, <1>6, <2>1 DEF ClusterVariables, added
<1>8. ASSUME NEW dc \in ToSet(after)
      PROVE  /\ n # 0 /\ dc.role \in DOMAIN CONNECT
             /\ \A name \in DOMAIN added : dc.variables[name] = added[name]
  <2>1. PICK i \in DOMAIN dcs : dc = after[i]
    BY <1>3 DEF ToSet
  <2>2. n # 0
    BY <2>1
  <2>3. dc.role \in DOMAIN CONNECT
    BY <1>2, <2>1 DEF IsService
  <2>4. dc.variables = Registered(dcs[i].variables, added)
    BY <1>2, <2>1
  <2>5. \A name \in DOMAIN added : dc.variables[name] = added[name]
    BY <2>4 DEF Registered
  <2>. QED
    BY <2>2, <2>3, <2>5
<1>. QED
  BY <1>1, <1>7, <1>8

\* Whatever the files say, the services they are parsed to are as
\* PrecheckRunsAssumption takes them to be.
THEOREM ParsedServices ==
  ASSUME NEW files, Shaped(files.text), files.skip \subseteq CHECK_ITEMS
  PROVE  LET r == Parsed(files)
         IN /\ r.skip \subseteq CHECK_ITEMS
            /\ r.err = "none" =>
                 \A dc \in ToSet(r.dcs) :
                   /\ dc.role \in DOMAIN CONNECT
                   /\ \A name \in DOMAIN ClusterVariables(r.dcs) :
                        dc.variables[name] = ClusterVariables(r.dcs)[name]
<1>1. Parsed(files).skip = files.skip
  BY DEF Parsed
<1>. SUFFICES ASSUME Parsed(files).err = "none"
              PROVE  \A dc \in ToSet(Parsed(files).dcs) :
                       /\ dc.role \in DOMAIN CONNECT
                       /\ \A name \in DOMAIN ClusterVariables(Parsed(files).dcs) :
                            dc.variables[name] = ClusterVariables(Parsed(files).dcs)[name]
  BY <1>1
<1>2. PICK hosts : /\ ParseTopology(files.text, hosts).err = "none"
                   /\ Parsed(files).dcs = ParseTopology(files.text, hosts).dcs
  BY DEF Parsed
<1>. DEFINE written == NewDeployConfigs(files.text)
            built == [i \in DOMAIN written |-> Built(written[i], hosts)]
            dcs == [i \in DOMAIN built |-> built[i].dc]
<1>3. ParseTopology(files.text, hosts) = AllBuilt(built)
  BY <1>2 DEF ParseTopology, BuildAll
<1>0. \A role \in DOMAIN files.text.services :
        \A i \in DOMAIN files.text.services[role].deploy :
          files.text.services[role].deploy[i].replicas >= 0
  BY <1>2 DEF ParseTopology, Shaped
<1>4. PICK n \in Nat : DOMAIN written = 1 .. n /\ \A i \in 1 .. n : IsService(written[i])
  <2>. HIDE DEF written
  <2>1. PICK S : (\A dc \in S : IsService(dc)) /\ written \in Seq(S)
    BY <1>0, Written DEF written
  <2>. QED
    BY <2>1
<1>. HIDE DEF written
<1>5. \A i \in DOMAIN built : built[i].err = "none"
  <2>. DEFINE wrong == {i \in DOMAIN built : built[i].err # "none"}
  <2>1. SUFFICES ASSUME wrong # {} PROVE FALSE
    OBVIOUS
  <2>2. wrong \in SUBSET Nat
    BY <1>4
  <2>3. \E i \in wrong : \A j \in wrong : i <= j
    <3>. HIDE DEF wrong
    <3>. QED
      BY <2>1, <2>2, MinIsLeast
  <2>4. AllBuilt(built).err = built[CHOOSE i \in wrong : \A j \in wrong : i <= j].err
    BY <2>1 DEF AllBuilt
  <2>5. (CHOOSE i \in wrong : \A j \in wrong : i <= j) \in wrong
    <3>. HIDE DEF wrong
    <3>. QED
      BY <2>3
  <2>. HIDE DEF built
  <2>. QED
    BY <1>2, <1>3, <2>4, <2>5
<1>6. AllBuilt(built) = Together(dcs)
  <2>. HIDE DEF built
  <2>. QED
    BY <1>5 DEF AllBuilt
<1>7. DOMAIN dcs = 1 .. n /\ \A i \in DOMAIN dcs : IsService(dcs[i])
  BY <1>4, <1>5, BuiltService
<1>. HIDE DEF dcs
<1>. QED
  BY <1>2, <1>3, <1>6, <1>7, TogetherShare

=============================================================================
