------------------------------- MODULE Settings -------------------------------
(***************************************************************************)
(* From the text of a topology, and that of hosts.yaml, to the settings of  *)
(* the services: merging, variables, defaults and conversion.  (Topology    *)
(* keeps of this only which services there are.)                           *)
(*                                                                         *)
(* A string is a text, a sequence of parts: a word, an IP address, a number  *)
(* with its digits, or a reference ${name}; equal strings are split alike.   *)
(* A configuration is [items, variables]: its items by key, its `variable:' *)
(* section by name.  A topology is [kind, global, services]; services maps  *)
(* a role to [config, deploy], deploy a sequence of [host, name, replicas,  *)
(* config].  Its shape is right; its values may not be.                     *)
(***************************************************************************)
EXTENDS Integers, FiniteSets, SequencesExt

Word(s) == <<<<"word", s>>>>
Number(n) == <<<<"num", n, Len(ToString(n))>>>>
Address(ip) == <<<<"ip", ip>>>>
Ref(name) == <<<<"ref", name>>>>

\* "%02d"
Format02(n) == <<<<"num", n, 2>>>>

IsInt(text) == text # <<>> /\ \A i \in DOMAIN text : text[i][1] = "num"
ToInt(text) == FoldLeft(LAMBDA n, part : n * 10^part[3] + part[2], 0, text)

TrueTexts == {Word("true"), Number(1)}
BoolTexts == TrueTexts \cup {Word("false"), Number(0)}

Refs(text) == {text[i][2] : i \in {j \in DOMAIN text : text[j][1] = "ref"}}

-----------------------------------------------------------------------------
(* Variables: a function from names to texts.                                *)

\* The names that names refer to, and those that these do: n references away.
Reached(variables, names) ==
  LET within[n \in Nat] ==
        IF n = 0 THEN names
        ELSE LET nearer == within[n - 1]
             IN nearer \cup UNION {Refs(variables[v]) : v \in nearer \cap DOMAIN variables}
  IN within[Cardinality(DOMAIN variables)]

\* Variables.Build.  `resolve' marks what it has visited and never looks at the
\* marks: variables defined by each other exhaust its stack.  (Variables are
\* built in the order of a Go map; none of the texts has both faults.)
BuildVariables(variables) ==
  IF \E n \in DOMAIN variables : ~ Refs(variables[n]) \subseteq DOMAIN variables THEN "error"
  ELSE IF \E n \in DOMAIN variables : n \in Reached(variables, Refs(variables[n])) THEN "overflow"
  ELSE "ok"

\* Variables.Rendering, with variables that were built: no chain of references is
\* longer than there are variables.
Rendering(variables, text) ==
  LET Replaced(part) == IF part[1] = "ref" THEN variables[part[2]] ELSE <<part>>
      rendered[n \in Nat] ==
        IF n = 0 THEN text
        ELSE LET before == rendered[n - 1]
             IN FlattenSeq([i \in DOMAIN before |-> Replaced(before[i])])
  IN rendered[Cardinality(DOMAIN variables)]

Renderable(variables, text) == Refs(text) \subseteq DOMAIN variables

\* `merge': what the child does not say is as in the parent.
Merge(parent, child) ==
  [items |-> child.items @@ parent.items, variables |-> child.variables @@ parent.variables]

-----------------------------------------------------------------------------
(* Items of a deploy configuration.                                          *)

\* The items curveadm knows, by what their value must be; with `exclude',
\* those it does not write into the service's configuration file.
Require ==
  [key \in {"prefix", "container_image", "log_dir", "data_dir", "core_dir", "listen.ip",
            "listen.external_ip", "s3.ak", "s3.sk", "s3.nos_address",
            "s3.snapshot_bucket_name"} |-> "string"]
  @@ [key \in {"listen.port", "listen.client_port", "listen.dummy_port", "listen.proxy_port",
               "listen.external_port", "copysets"} |-> "positive"]
  @@ [key \in {"report_usage", "global.enable_external_server", "enable_rdma",
               "fs.enable_renameat2", "chunkfilepool.enable_get_chunk_from_pool"} |-> "bool"]

Exclude ==
  DOMAIN Require \ {"s3.ak", "s3.sk", "s3.nos_address", "s3.snapshot_bucket_name",
                    "global.enable_external_server", "fs.enable_renameat2",
                    "chunkfilepool.enable_get_chunk_from_pool"}

ListenPort ==
  [etcd |-> 2380, mds |-> 6700, chunkserver |-> 8200, snapshotclone |-> 5555, metaserver |-> 6800]

\* The value of an item that is not configured; <<>> if it has none.
Default(dc, key) ==
  CASE key = "prefix" -> <<<<"word", "/" >>, <<"word", dc.kind>>, <<"word", dc.role>>>>
    [] key = "container_image" -> Word("image")
    [] key \in {"listen.ip", "listen.external_ip"} -> dc.hostname
    [] key = "listen.port" -> Number(ListenPort[dc.role])
    [] key = "listen.client_port" -> Number(2379)
    [] key = "listen.dummy_port" /\ dc.role = "mds" -> Number(7700)
    [] key = "listen.dummy_port" /\ dc.role = "snapshotclone" -> Number(8081)
    [] key = "listen.proxy_port" -> Number(8080)
    [] key = "listen.external_port" ->
         IF dc.role = "metaserver" THEN Number(7800)
         ELSE IF "listen.port" \in DOMAIN dc.config THEN dc.config["listen.port"]
         ELSE Number(ListenPort[dc.role])
    [] key = "copysets" -> Number(100)
    [] key \in {"global.enable_external_server", "enable_rdma"} -> Word("false")
    [] key \in {"report_usage", "fs.enable_renameat2",
                "chunkfilepool.enable_get_chunk_from_pool"} -> Word("true")
    [] OTHER -> <<>>

Get(dc, key) == IF key \in DOMAIN dc.config THEN dc.config[key] ELSE Default(dc, key)

GetBool(dc, key) == Get(dc, key) \in TrueTexts
GetInt(dc, key) == ToInt(Get(dc, key))

GetListenIp(dc) == Get(dc, "listen.ip")
GetListenPort(dc) == GetInt(dc, "listen.port")
GetEnableExternalServer(dc) == GetBool(dc, "global.enable_external_server")
GetListenExternalPort(dc) ==
  IF GetEnableExternalServer(dc) THEN GetInt(dc, "listen.external_port") ELSE GetListenPort(dc)

\* Where a service's files are inside of its container.
ProjectLayout(dc) ==
  LET root == Get(dc, "prefix")
  IN [ServiceRootDir |-> root, ServiceConfDir |-> root \o Word("/conf"),
      ServiceLogDir |-> root \o Word("/logs"), ServiceDataDir |-> root \o Word("/data")]

\* convert: the value of every item is what the item requires.
Converts(dc) ==
  \A key \in DOMAIN Require \cap DOMAIN dc.config :
    LET value == dc.config[key]
    IN CASE Require[key] = "string" -> value # <<>>
         [] Require[key] = "positive" -> IsInt(value) /\ ToInt(value) > 0
         [] Require[key] = "bool" -> value \in BoolTexts

\* What is written into the service's configuration file.
ServiceConfig(dc) == [key \in DOMAIN dc.config \ Exclude |-> dc.config[key]]

-----------------------------------------------------------------------------
(* The variables curveadm defines for a service.                             *)

\* The addresses of the services of a role; in what order the texts name them is
\* left out.
JoinPeer(dcs, role, port) ==
  <<<<"peers", {<<GetListenIp(dc), GetInt(dc, port)>> : dc \in {d \in ToSet(dcs) : d.role = role}}>>>>

JoinDummyPort(dcs, role) ==
  <<<<"ports", {GetInt(dc, "listen.dummy_port") : dc \in {d \in ToSet(dcs) : d.role = role}}>>>>

\* etcd<host><replica>=http://<address>: the two sequences are not separated.
JoinEtcdPeer(dcs) ==
  LET Name(dc) == ToInt(Number(dc.hostSequence) \o Number(dc.replicasSequence))
  IN <<<<"named", {<<Name(dc), GetListenIp(dc), GetListenPort(dc)>> :
                     dc \in {d \in ToSet(dcs) : d.role = "etcd"}}>>>>

\* AddServiceVariables: `skip' leaves out what other roles have.
ServiceVariables(dc) ==
  ("prefix" :> ProjectLayout(dc).ServiceRootDir) @@
  ("service_id" :> FlattenSeq(dc.id)) @@
  ("service_role" :> Word(dc.role)) @@
  ("service_host" :> dc.hostname) @@
  ("service_host_sequence" :> Number(dc.hostSequence)) @@
  [n \in {"service_replica_sequence", "service_replicas_sequence"} |->
     Number(dc.replicasSequence)] @@
  [n \in {"format_replica_sequence", "format_replicas_sequence"} |->
     Format02(dc.replicasSequence)] @@
  ("service_addr" :> GetListenIp(dc)) @@
  ("service_port" :> Get(dc, "listen.port")) @@
  [n \in IF dc.role = "etcd" THEN {"service_client_port"} ELSE {} |->
     Get(dc, "listen.client_port")] @@
  [n \in IF dc.role \in {"mds", "snapshotclone"} THEN {"service_dummy_port"} ELSE {} |->
     Get(dc, "listen.dummy_port")] @@
  [n \in IF dc.role = "snapshotclone" THEN {"service_proxy_port"} ELSE {} |->
     Get(dc, "listen.proxy_port")] @@
  [n \in IF dc.role \in {"chunkserver", "metaserver"} THEN {"service_external_addr"} ELSE {} |->
     Get(dc, "listen.external_ip")] @@
  [n \in IF dc.role = "metaserver" THEN {"service_external_port"} ELSE {} |->
     IF Get(dc, "global.enable_external_server") = Word("true")
     THEN Get(dc, "listen.external_port") ELSE Get(dc, "listen.port")] @@
  ("log_dir" :> ProjectLayout(dc).ServiceLogDir) @@
  ("data_dir" :> ProjectLayout(dc).ServiceDataDir) @@
  ("random_uuid" :> Word("uuid"))

\* AddClusterVariables, the same for every service of a topology.
ClusterVariables(dcs) ==
  LET ofKind == IF dcs[1].kind = "curvefs" THEN {"cluster_metaserver_addr"}
                ELSE {"cluster_chunkserver_addr", "cluster_snapshotclone_addr",
                      "cluster_snapshotclone_nginx_upstream", "cluster_snapshotclone_proxy_addr",
                      "cluster_snapshotclone_dummy_port"}
  IN [name \in {"cluster_etcd_http_addr", "cluster_etcd_addr", "cluster_mds_addr",
                "cluster_mds_dummy_addr", "cluster_mds_dummy_port"} \cup ofKind |->
        CASE name = "cluster_etcd_http_addr" -> JoinEtcdPeer(dcs)
          [] name = "cluster_etcd_addr" -> JoinPeer(dcs, "etcd", "listen.client_port")
          [] name = "cluster_mds_addr" -> JoinPeer(dcs, "mds", "listen.port")
          [] name = "cluster_mds_dummy_addr" -> JoinPeer(dcs, "mds", "listen.dummy_port")
          [] name = "cluster_mds_dummy_port" -> JoinDummyPort(dcs, "mds")
          [] name = "cluster_metaserver_addr" -> JoinPeer(dcs, "metaserver", "listen.port")
          [] name = "cluster_chunkserver_addr" -> JoinPeer(dcs, "chunkserver", "listen.port")
          [] name \in {"cluster_snapshotclone_addr", "cluster_snapshotclone_nginx_upstream"} ->
               JoinPeer(dcs, "snapshotclone", "listen.port")
          [] name = "cluster_snapshotclone_proxy_addr" ->
               JoinPeer(dcs, "snapshotclone", "listen.proxy_port")
          [] name = "cluster_snapshotclone_dummy_port" -> JoinDummyPort(dcs, "snapshotclone")]

-----------------------------------------------------------------------------
(* ParseTopology.                                                            *)

NewDeployConfig(kind, role, deploy, config, hostSequence, replicasSequence) ==
  LET name == IF deploy.name = <<>> THEN Number(hostSequence) ELSE deploy.name
  IN [kind |-> kind, role |-> role, host |-> deploy.host, hostname |-> <<>>, name |-> name,
      id |-> <<Word(role), deploy.host, name, Number(replicasSequence)>>,
      parentId |-> <<Word(role), deploy.host, name, Number(0)>>,
      replicas |-> deploy.replicas, hostSequence |-> hostSequence,
      replicasSequence |-> replicasSequence,
      config |-> config.items, variables |-> config.variables]

\* The services as they are written, in order.
NewDeployConfigs(text) ==
  LET roles == IF text.kind = "curvebs" THEN <<"etcd", "mds", "chunkserver", "snapshotclone">>
                                        ELSE <<"etcd", "mds", "metaserver">>
      Replicas(deploy) == IF deploy.replicas = 0 THEN 1 ELSE deploy.replicas
      OfRole(role) ==
        LET service == text.services[role]
            Config(deploy) == Merge(Merge(text.global, service.config), deploy.config)
            OfDeploy(i) ==
              LET deploy == service.deploy[i]
              IN [k \in 1 .. Replicas(deploy) |->
                    NewDeployConfig(text.kind, role, [deploy EXCEPT !.replicas = Replicas(deploy)],
                                    Config(deploy), i - 1, k - 1)]
        IN FlattenSeq([i \in DOMAIN service.deploy |-> OfDeploy(i)])
  IN FlattenSeq([r \in DOMAIN roles |->
                   IF roles[r] \in DOMAIN text.services THEN OfRole(roles[r]) ELSE <<>>])

\* ResolveHost of one service, hosts a function from the names of the hosts to
\* their addresses.  The user's variables are built before the service's are
\* there, and may refer to each other only.
ResolveError(written, hosts) ==
  CASE <<>> \in {written.variables[n] : n \in DOMAIN written.variables} -> "error"
    [] BuildVariables(written.variables) # "ok" -> BuildVariables(written.variables)
    [] ~ Renderable(written.variables, written.host) -> "error"
    [] Rendering(written.variables, written.host) \notin DOMAIN hosts -> "error"
    [] OTHER -> "none"

ResolveHost(written, host, hosts) == [written EXCEPT !.host = host, !.hostname = hosts[host]]

\* renderVariables, with all the variables of the service.
Rendered(dc, variables) ==
  LET Render(text) == Rendering(variables, text)
  IN [dc EXCEPT !.name = Render(@), !.variables = variables,
                !.id = [i \in DOMAIN @ |-> Render(@[i])],
                !.parentId = [i \in DOMAIN @ |-> Render(@[i])],
                !.config = [key \in DOMAIN @ |-> Render(@[key])]]

\* Build: [err, dc].
Build(dc, variables) ==
  LET texts == {dc.config[key] : key \in DOMAIN dc.config} \cup {dc.name, FlattenSeq(dc.id)}
  IN CASE BuildVariables(variables) # "ok" -> [err |-> BuildVariables(variables), dc |-> dc]
       [] \E text \in texts : ~ Renderable(variables, text) -> [err |-> "error", dc |-> dc]
       [] ~ Converts(Rendered(dc, variables)) -> [err |-> "error", dc |-> dc]
       [] OTHER -> [err |-> "none", dc |-> Rendered(dc, variables)]

\* Register of variables that are not there yet.
Registered(variables, added) ==
  [name \in DOMAIN variables \cup DOMAIN added |->
     IF name \in DOMAIN added THEN added[name] ELSE variables[name]]

\* AddServiceVariables: none may have the name of one of the user's.
WithVariables(dc, added) ==
  IF DOMAIN dc.variables \cap DOMAIN added # {} THEN [err |-> "error", dc |-> dc]
  ELSE Build(dc, Registered(dc.variables, added))

Resolved(dc) == WithVariables(dc, ServiceVariables(dc))

Built(written, hosts) ==
  LET err == ResolveError(written, hosts)
  IN IF err # "none" THEN [err |-> err, dc |-> written]
     ELSE Resolved(ResolveHost(written, Rendering(written.variables, written.host), hosts))

\* AddClusterVariables of all services, with the same rule.
WithClusterVariables(dcs, added) ==
  IF \E i \in DOMAIN dcs : DOMAIN dcs[i].variables \cap DOMAIN added # {}
  THEN [err |-> "error", dcs |-> <<>>]
  ELSE [err |-> "none",
        dcs |-> [i \in DOMAIN dcs |-> [dcs[i] EXCEPT !.variables = Registered(@, added)]]]

Together(dcs) == WithClusterVariables(dcs, ClusterVariables(dcs))

\* The first service that fails is the error.
AllBuilt(built) ==
  LET wrong == {i \in DOMAIN built : built[i].err # "none"}
  IN IF wrong = {} THEN Together([i \in DOMAIN built |-> built[i].dc])
     ELSE [err |-> built[CHOOSE i \in wrong : \A j \in wrong : i <= j].err, dcs |-> <<>>]

BuildAll(written, hosts) == AllBuilt([i \in DOMAIN written |-> Built(written[i], hosts)])

\* [err, dcs]: "error" is any of the parser's errors, "overflow" a crash.
ParseTopology(text, hosts) ==
  IF \E role \in DOMAIN text.services :
       \E i \in DOMAIN text.services[role].deploy : text.services[role].deploy[i].replicas < 0
  THEN [err |-> "error", dcs |-> <<>>]
  ELSE BuildAll(NewDeployConfigs(text), hosts)

-----------------------------------------------------------------------------
(* hosts.yaml: [global, hosts], a configuration and a sequence of them, each  *)
(* a function from keys to texts; a list is the text <<<<"list">>>>.          *)

HostRequire ==
  [key \in {"host", "hostname", "ssh_hostname", "user", "private_key_file",
            "become_user"} |-> "string"]
  @@ ("ssh_port" :> "positive") @@ ("forward_agent" :> "bool")

HostDefault(key) ==
  CASE key = "user" -> Word("user")
    [] key = "ssh_port" -> Number(22)
    [] key = "private_key_file" -> <<<<"word", "/">>, <<"word", "id_rsa">>>>
    [] key = "forward_agent" -> Word("false")
    [] OTHER -> <<>>

HostGet(hc, key) == IF key \in DOMAIN hc THEN hc[key] ELSE HostDefault(key)

\* ItemSet.Build.
HostItemOk(key, value) ==
  CASE key \in {"labels", "envs"} -> value = <<<<"list">>>>
    [] key \notin DOMAIN HostRequire -> FALSE
    [] HostRequire[key] = "string" -> value # <<>>
    [] HostRequire[key] = "positive" -> IsInt(value) /\ ToInt(value) > 0
    [] HostRequire[key] = "bool" -> value \in BoolTexts

\* The private key file, of which `mode' gives the permissions, is usable.
KeyUsable(hc, mode) ==
  HostGet(hc, "forward_agent") \in TrueTexts \/ mode[HostGet(hc, "private_key_file")] = "600"

\* HostConfig.Build.
HostOk(hc, mode) ==
  /\ \A key \in DOMAIN hc : HostItemOk(key, hc[key])
  /\ HostGet(hc, "host") # <<>>
  /\ HostGet(hc, "hostname") # <<>> /\ HostGet(hc, "hostname")[1][1] = "ip"
  /\ ToInt(HostGet(hc, "ssh_port")) <= 65535
  /\ HostGet(hc, "private_key_file")[1] = <<"word", "/">>
  /\ KeyUsable(hc, mode)

\* [err, hcs].
ParseHosts(text, mode) ==
  LET hcs == [i \in DOMAIN text.hosts |-> text.hosts[i] @@ text.global]
  IN IF /\ \A i \in DOMAIN hcs : HostOk(hcs[i], mode)
        /\ \A i, j \in DOMAIN hcs : hcs[i]["host"] = hcs[j]["host"] => i = j
     THEN [err |-> "none", hcs |-> hcs]
     ELSE [err |-> "error", hcs |-> <<>>]

\* Context.Lookup: the address of every host.
Lookup(hcs) ==
  [host \in {hcs[i]["host"] : i \in DOMAIN hcs} |->
     hcs[CHOOSE i \in DOMAIN hcs : hcs[i]["host"] = host]["hostname"]]

=============================================================================
