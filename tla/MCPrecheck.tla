------------------------------ MODULE MCPrecheck ------------------------------
(* Topologies of two and three hosts for Precheck, and what can be wrong with *)
(* the hosts.                                                                *)
EXTENDS Precheck

Key == <<<<"word", "/">>, <<"word", "id_rsa">>>>
Dir(name) == <<<<"word", "/">>, <<"word", name>>>>

Hosts ==
  [global |-> [user |-> Word("curve")] @@ ("labels" :> <<<<"list">>>>),
   hosts |-> <<[host |-> Word("h1"), hostname |-> Address("ip1")],
               [host |-> Word("h2"), hostname |-> Address("ip2"), ssh_port |-> Number(1022)],
               [host |-> Word("h3"), hostname |-> Address("ip3")]>>]

NoConfig == [items |-> <<>>, variables |-> <<>>]
Items(items) == [items |-> items, variables |-> <<>>]

\* The users' variables name the machines.
Global == [items |-> "log_dir" :> <<<<"word", "/">>, <<"word", "logs">>, <<"ref", "service_role">>>>,
           variables |-> [machine1 |-> Word("h1"), machine2 |-> Word("h2"),
                          machine3 |-> Word("h3"), machine4 |-> Word("h4")]]

Deploy(machine, replicas) ==
  [host |-> Ref(machine), name |-> <<>>, replicas |-> replicas, config |-> NoConfig]

\* A port that ends with the number of the host, or of the replica.
PortOf(n, variable) == <<<<"num", n, Len(ToString(n))>>, <<"ref", variable>>>>

One(machine, config) == [config |-> config, deploy |-> <<Deploy(machine, 1)>>]
Both(config) == [config |-> config, deploy |-> <<Deploy("machine1", 1), Deploy("machine2", 1)>>]
Three(config) ==
  [config |-> config,
   deploy |-> <<Deploy("machine1", 1), Deploy("machine1", 1), Deploy("machine2", 1)>>]

\* Nine services, as the topology's check wants.
Whole ==
  [kind |-> "curvefs", global |-> Global,
   services |->
     [etcd |-> Three(Items(("listen.port" :> PortOf(238, "service_host_sequence")) @@
                           ("listen.client_port" :> PortOf(237, "service_host_sequence")))),
      mds |-> Three(Items(("listen.port" :> PortOf(670, "service_host_sequence")) @@
                          ("listen.dummy_port" :> PortOf(770, "service_host_sequence")))),
      metaserver |-> Three(Items("listen.port" :> PortOf(680, "service_host_sequence") @@
                           "data_dir" :> Dir("meta") \o Ref("service_host_sequence") @@
                           "listen.external_port" :> PortOf(780, "service_host_sequence") @@
                           "global.enable_external_server" :> Word("true")))]]

With(role, key, value) == [Whole EXCEPT !.services[role].config.items = (key :> value) @@ @]

\* Three services of CurveFS, and five of CurveBS: not enough for that check.
Small ==
  [kind |-> "curvefs", global |-> Global,
   services |-> [etcd |-> Both(NoConfig), mds |-> One("machine2", NoConfig)]]

\* A service on each of three hosts, whose dates are asked for at the same time.
Triple ==
  [kind |-> "curvefs", global |-> Global,
   services |-> [etcd |-> [config |-> NoConfig,
                           deploy |-> [i \in 1 .. 3 |->
                                         Deploy(<<"machine1", "machine2", "machine3">>[i], 1)]]]]

SmallBS ==
  [kind |-> "curvebs", global |-> Global,
   services |->
     [etcd |-> One("machine1", NoConfig), mds |-> One("machine1", NoConfig),
      chunkserver |->
        [config |-> Items("listen.port" :> <<<<"num", 82, 2>>, <<"ref", "format_replicas_sequence">>>>
                          @@ "data_dir" :> Dir("chunk") \o Ref("service_replicas_sequence")),
         deploy |-> <<Deploy("machine2", 2)>>]]]

\* A host that is in no hosts.yaml, a port defined by itself, a variable of
\* curveadm's name, and one that does not exist.
Unknown == [Small EXCEPT !.services["mds"] = One("machine4", NoConfig)]
Endless == [Small EXCEPT !.services["mds"] =
              One("machine2", Items("listen.port" :> Ref("service_port")))]
Taken == [Small EXCEPT !.global.variables = @ @@ [service_id |-> Word("id")]]
Undefined == [Small EXCEPT !.services["mds"] =
                One("machine2", [NoConfig EXCEPT !.variables = [v |-> Ref("service_addr")]])]
NotAPort == [Small EXCEPT !.services["mds"] =
               One("machine2", Items("listen.port" :> Word("port")))]

\* Two services of one id, and a service that wants a port of another one, or one of
\* its own twice.
Named(port) == [Deploy("machine1", 1) EXCEPT !.name = Word("twin"),
                                             !.config = Items("listen.port" :> Number(port))]
Twins == [Small EXCEPT !.services["mds"] =
            [config |-> NoConfig, deploy |-> <<Named(6700), Named(6710)>>]]
Mds(port) == [Small EXCEPT !.services["mds"] = One("machine2", Items("listen.port" :> Number(port)))]

Run(text, skip) == [text |-> text, hosts |-> Hosts, skip |-> skip]

AllFiles ==
  {Run(Triple, CHECK_ITEMS \ {"date"}),
   Run(Whole, {}), Run(Small, {"topology"}), Run(Small, {"topology", "network"}),
   Run(SmallBS, {"topology"}), Run(SmallBS, {"topology", "kernel", "service"}), Run(Small, {}),
   Run(Twins, {"topology"}), Run(Twins, {"topology", "network"}), Run(Mds(2379), {"topology"}),
   Run(Mds(7700), {"topology"}),
   Run(With("metaserver", "data_dir", Word("data")), {}),
   Run(With("metaserver", "listen.port", Number(6800)), {}),
   Run(With("metaserver", "data_dir", Dir("meta")), {"date"}),
   Run(Unknown, {}), Run(Endless, {}), Run(Taken, {}), Run(Undefined, {}), Run(NotAPort, {}),
   [Run(Small, {"topology"}) EXCEPT !.hosts.hosts[2] = Hosts.hosts[1]]}

AllRuns == {Parsed(files) : files \in AllFiles}

-----------------------------------------------------------------------------

H1 == Word("h1")
H2 == Word("h2")
H3 == Word("h3")
Ip1 == Address("ip1")
Ip2 == Address("ip2")

Ready ==
  [mode |-> Key :> "600", becomes |-> {H1, H2, H3}, resolves |-> {H1, H2, H3}, docker |-> {H1, H2, H3},
   denied |-> {}, kernel |-> [h \in {H1, H2, H3} |-> <<4, 19, 0>>], used |-> {}, down |-> {},
   blocked |-> {}, disks |-> {},
   pool |-> {<<H2, Dir("chunk") \o Number(i)>> : i \in 0 .. 1},
   clock |-> [h \in {H1, H2, H3} |-> 100]]

AllEnvironments ==
  {Ready,
   [Ready EXCEPT !.mode = Key :> "644"],
   [Ready EXCEPT !.docker = {H1}],
   [Ready EXCEPT !.denied = {<<H2, Dir("logs") \o Word("etcd")>>}],
   [Ready EXCEPT !.kernel[H2] = <<3, 10, 0>>],
   [Ready EXCEPT !.used = {<<H1, <<Ip1, 2379>>>>, <<H1, <<Ip1, 6700>>>>}],
   [Ready EXCEPT !.down = {Ip2}],
   [Ready EXCEPT !.blocked = {<<H2, <<Ip1, 2379>>>>, <<H2, <<Ip1, 2370>>>>}],
   [Ready EXCEPT !.blocked = {<<H1, <<Ip2, 2380>>>>, <<H2, <<Ip1, 6700>>>>}],
   [Ready EXCEPT !.pool = {}],
   [Ready EXCEPT !.disks = {<<H2, Dir("chunk") \o Number(0), TRUE>>}],
   [Ready EXCEPT !.disks = {<<H2, Dir("chunk") \o Number(i), TRUE>> : i \in 0 .. 1}],
   [Ready EXCEPT !.clock[H2] = 116]}

\* The first service of each role.
Firsts ==
  {<<Word(role), H1, Number(0), Number(0)>> : role \in {"etcd", "mds"}}
  \cup {<<Word("mds"), H2, Number(0), Number(0)>>,
        <<Word("chunkserver"), H2, Number(0), Number(1)>>}
=============================================================================
