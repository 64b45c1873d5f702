-------------------------------- MODULE Checks --------------------------------
(***************************************************************************)
(* What curveadm checks of the services of a topology before it commits it *)
(* (the topology alone) and in `precheck' (the hosts they shall run on).    *)
(*                                                                         *)
(* Each check says whether its tasks succeed, given what the hosts are like *)
(* (`env').  Of the services it takes dcs, the sequence ParseTopology       *)
(* returns.                                                                *)
(***************************************************************************)
EXTENDS Settings

-----------------------------------------------------------------------------
(* What a service uses of its host.                                          *)

\* Variant: etcd's client port is forgotten.
ListenAddressesPeer(dc) ==
  LET ports == [etcd |-> <<"listen.port">>, mds |-> <<"listen.port", "listen.dummy_port">>,
                metaserver |-> <<"listen.port">>, chunkserver |-> <<"listen.port">>]
  IN [i \in DOMAIN ports[dc.role] |-> <<GetListenIp(dc), GetInt(dc, ports[dc.role][i])>>]

\* getServiceListenAddresses, in order: <<ip, port>>.
ListenAddresses(dc) ==
  LET At(port) == <<GetListenIp(dc), GetInt(dc, port)>>
      External(ip) == IF GetEnableExternalServer(dc)
                      THEN <<<<ip, GetListenExternalPort(dc)>>>> ELSE <<>>
  IN CASE dc.role = "etcd" -> <<At("listen.port"), At("listen.client_port")>>
       [] dc.role = "mds" -> <<At("listen.port"), At("listen.dummy_port")>>
       [] dc.role = "chunkserver" -> <<At("listen.port")>> \o External(GetListenIp(dc))
       [] dc.role = "snapshotclone" ->
            <<At("listen.port"), At("listen.dummy_port"), At("listen.proxy_port")>>
       [] dc.role = "metaserver" ->
            <<At("listen.port")>> \o External(Get(dc, "listen.external_ip"))

CONNECT ==
  [etcd |-> {"etcd"}, mds |-> {"mds", "etcd"}, chunkserver |-> {"chunkserver", "mds"},
   snapshotclone |-> {"snapshotclone"}, metaserver |-> {"metaserver", "mds"}]

\* The services that getServiceConnectAddress has a service connect to.
Connects(from, to) == to.id # from.id /\ to.role \in CONNECT[from.role]

\* getServiceConnectAddress, in order.
ConnectAddresses(from, dcs) ==
  LET others == SelectSeq(dcs, LAMBDA to : Connects(from, to))
  IN FlattenSeq([i \in DOMAIN others |-> ListenAddresses(others[i])])

\* getServiceDirectorys
Directories(dc) == {Get(dc, key) : key \in {"log_dir", "data_dir", "core_dir"}} \ {<<>>}

-----------------------------------------------------------------------------
(* CHECK_TOPOLOGY, one task of many steps.  `weak' for a commit, where the    *)
(* snapshotclones may come later; skipSnapshotClone where deploy leaves them  *)
(* out.                                                                       *)

CheckDirectoryPath(dcs) ==
  \A dc \in ToSet(dcs) : \A dir \in Directories(dc) : dir[1] = <<"word", "/">>

CheckDataDirectoryDuplicate(dcs) ==
  \A i, j \in DOMAIN dcs :
    /\ i # j /\ dcs[i].host = dcs[j].host
    /\ Get(dcs[i], "data_dir") # <<>>
    => Get(dcs[i], "data_dir") # Get(dcs[j], "data_dir")

AllAddresses(dcs) == FlattenSeq([i \in DOMAIN dcs |-> ListenAddresses(dcs[i])])

CheckAddressDuplicate(dcs) == IsInjective(AllAddresses(dcs))

\* Three services of every role, and three hosts.  Hosts are counted by parent
\* ids, which differ for two deploys on one host.
CheckServices(dcs, weak, skipSnapshotClone) ==
  LET kind == dcs[1].kind
      roles == IF kind = "curvefs" THEN {"etcd", "mds", "metaserver"}
               ELSE {"etcd", "mds", "chunkserver"}
                    \cup IF skipSnapshotClone THEN {} ELSE {"snapshotclone"}
      OfRole(role) == {dc \in ToSet(dcs) : dc.role = role}
      HostNum(role) == Cardinality({dc.parentId : dc \in OfRole(role)})
  IN \A role \in roles :
       \/ Cardinality(OfRole(role)) >= 3 /\ HostNum(role) >= 3
       \/ weak /\ role = "snapshotclone" /\ OfRole(role) = {}

\* A value that was not filled in; none may be missing unless `weak'.
CheckS3Configure(dc, weak, skipSnapshotClone) ==
  skipSnapshotClone \/ dc.kind = "curvefs" \/
  \A key \in {"s3.ak", "s3.sk", "s3.nos_address", "s3.snapshot_bucket_name"} :
    Get(dc, key) # Word("<>") /\ (Get(dc, key) = <<>> => weak)

CheckTopology(dcs, hcs, weak, skipSnapshotClone) ==
  /\ \A dc \in ToSet(dcs) : dc.host \in DOMAIN Lookup(hcs)
  /\ CheckDirectoryPath(dcs)
  /\ CheckDataDirectoryDuplicate(dcs)
  /\ CheckAddressDuplicate(dcs)
  /\ CheckServices(dcs, weak, skipSnapshotClone)
  /\ \A dc \in ToSet(dcs) : CheckS3Configure(dc, weak, skipSnapshotClone)

-----------------------------------------------------------------------------
(* The checks of a host, as `precheck' makes them for a service on it.  env:  *)
(*   mode       permissions of the private key files                          *)
(*   becomes, resolves, docker    hosts where the user, the host name and     *)
(*              docker are as they must be                                    *)
(*   denied     <<host, directory>> that may not be created                   *)
(*   kernel     host -> <<major, minor, patch>>                               *)
(*   used       <<host, address>> some program listens on                     *)
(*   down       addresses of hosts that do not answer                         *)
(*   blocked    <<host, address>>: a firewall between                         *)
(*   pool       <<host, directory>> with a chunkfile pool                     *)
(*   disks      records <<host, directory, formatted>>                        *)

\* CHECK_SSH_CONNECT: the key file only; the connection was made, if at all,
\* when the task began.
CheckHost(dc, hcs, env) ==
  LET i == CHOOSE k \in DOMAIN hcs : hcs[k]["host"] = dc.host
  IN KeyUsable(hcs[i], env.mode)

\* CHECK_PERMISSION
CheckPermission(dc, env) ==
  /\ dc.host \in env.becomes
  /\ dc.host \in env.resolves
  /\ \A dir \in Directories(dc) : <<dc.host, dir>> \notin env.denied
  /\ dc.host \in env.docker

\* CHECK_KERNEL_VERSION, at least 3.15.0.
CalcKernelVersion(v) == v[1] * 1000000 + v[2] * 1000 + v[3]

CheckKernelVersion(dc, env) ==
  \/ ~ GetBool(dc, "fs.enable_renameat2")
  \/ CalcKernelVersion(env.kernel[dc.host]) >= CalcKernelVersion(<<3, 15, 0>>)

Ports(dc) == {ListenAddresses(dc)[i][2] : i \in DOMAIN ListenAddresses(dc)}

\* CHECK_PORT_IN_USE: whatever the address it is bound to; listening are the
\* <<host, address>> something listens on.
CheckPortInUse(dc, listening) ==
  {l[2][2] : l \in {k \in listening : k[1] = dc.host}} \cap Ports(dc) = {}

\* The ips among addresses, each where it occurs first.
Unique(addresses) ==
  FoldLeft(LAMBDA ips, a : IF a[1] \in ToSet(ips) THEN ips ELSE Append(ips, a[1]), <<>>, addresses)

\* CHECK_DESTINATION_REACHABLE.  Each ping is given a pointer to the loop's
\* variable, which all of them read when the loop is over: every ping goes to
\* the last address.
CheckDestinationReachable(dc, dcs, env) ==
  LET ips == Unique(ConnectAddresses(dc, dcs))
  IN ips # <<>> => Last(ips) \notin env.down

\* CHECK_NETWORK_FIREWALL: from the service's host, every mock server answers, at
\* each of the ConnectAddresses.
Answers(from, address, listening, env) ==
  /\ \E l \in listening : l[2] = address
  /\ address[1] \notin env.down
  /\ <<from, address>> \notin env.blocked

CheckNetworkFirewall(dc, dcs, listening, env) ==
  \A to \in ToSet(dcs) : Connects(dc, to) =>
    \A address \in ToSet(ListenAddresses(to)) : Answers(dc.host, address, listening, env)

\* CHECK_CHUNKFILE_POOL
CheckChunkfilePool(dc, env) ==
  \/ ~ GetBool(dc, "chunkfilepool.enable_get_chunk_from_pool")
  \/ <<dc.host, Get(dc, "data_dir")>> \in env.pool

\* CHECK_DISK_SIZE
CheckDiskSize(dc, env) == <<dc.host, Get(dc, "data_dir"), TRUE>> \in env.disks

\* CHECK_HOST_DATE, of the dates that were collected.
CheckDate(dates) == \A host1, host2 \in DOMAIN dates : dates[host1] - dates[host2] <= 15

=============================================================================
