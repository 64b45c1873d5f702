------------------------------ MODULE ClusterPool ------------------------------
(***************************************************************************)
(* The pool of a cluster: the servers of the storage role with the zone    *)
(* and the pool each is in, as curveadm generates it from a topology,      *)
(* stores it, and changes it for a scale-out or a migration.               *)
(*                                                                         *)
(* A pool is [servers, logicalPools, npools]; pools are called 1, 2, ...   *)
(* Of a server's two addresses one is kept, and a service listens on the   *)
(* address of its host.                                                    *)
(***************************************************************************)
EXTENDS Topology

CONSTANT Copysets    \* the `copysets` of a service

DEFAULT_REPLICAS_PER_COPYSET == 3
DEFAULT_ZONES_PER_POOL == 3

NoZone == 0
NoPool == [servers |-> << >>, logicalPools |-> << >>, npools |-> 0]   \* none stored

StorageRole(kind) == IF kind = "curvebs" THEN "chunkserver" ELSE "metaserver"

\* Variant: the services in the order of their replica first.
BeforeReplicas(dc1, dc2) ==
  \/ dc1.replicasSequence < dc2.replicasSequence
  \/ dc1.replicasSequence = dc2.replicasSequence /\ dc1.hostSequence < dc2.hostSequence

\* For services of one role.
Before(dc1, dc2) ==
  \/ dc1.hostSequence < dc2.hostSequence
  \/ dc1.hostSequence = dc2.hostSequence /\ dc1.replicasSequence < dc2.replicasSequence

SortDeployConfigs(dcs) ==
  [i \in 1 .. Cardinality(dcs) |->
     CHOOSE dc \in dcs : Cardinality({other \in dcs : Before(other, dc)}) = i - 1]

ServerName(dc) == <<dc.host, dc.name, dc.replicasSequence>>

\* Services that share a host get their ports from the mds.
ServerPort(dc) == IF dc.replicas > 1 THEN 0 ELSE dc.port

\* genNextZone: 1, 2, 3, 1, ...; a service takes the next zone if it is the
\* first of its deploy, and else that of the service before it.
Zone(dcs, i) ==
  LET parents == Cardinality({j \in 1 .. i : dcs[j].parentId = dcs[j].id})
  IN IF parents = 0 THEN NoZone ELSE ((parents - 1) % DEFAULT_ZONES_PER_POOL) + 1

\* createLogicalPool's servers, from services of the storage role in order.
Servers(dcs, pool) ==
  [i \in 1 .. Len(dcs) |->
     [name |-> ServerName(dcs[i]), ip |-> dcs[i].host, port |-> ServerPort(dcs[i]),
      zone |-> Zone(dcs, i), pool |-> pool]]

\* Its number of copysets, at least one.
PoolCopysets(dcs) ==
  LET copysets == (Len(dcs) * Copysets) \div DEFAULT_REPLICAS_PER_COPYSET
  IN IF copysets = 0 THEN 1 ELSE copysets

GenerateClusterPool(dcs, pool) ==
  [servers      |-> Servers(dcs, pool),
   logicalPools |-> << [name |-> pool, copysets |-> PoolCopysets(dcs)] >>,
   npools       |-> 1]

\* GenerateDefaultClusterPool, from the services of the storage role in order.
DefaultClusterPool(dcs) == GenerateClusterPool(dcs, 1)

\* Variant: the servers of the old pools lose their zones.
ScaleOutClusterPoolAnew(old, dcs) ==
  LET new == GenerateClusterPool(dcs, old.npools + 1)
  IN [servers      |-> [i \in 1 .. Len(old.servers) |-> [old.servers[i] EXCEPT !.zone = 1]]
                       \o new.servers,
      logicalPools |-> old.logicalPools \o new.logicalPools,
      npools       |-> old.npools + 1]

\* Variant: the number of pools is left as it was.
ScaleOutClusterPoolUncounted(old, dcs) ==
  LET new == GenerateClusterPool(dcs, old.npools + 1)
  IN [servers      |-> old.servers \o new.servers,
      logicalPools |-> old.logicalPools \o new.logicalPools,
      npools       |-> old.npools]

\* A scale-out adds a pool made of the new services, in order.
ScaleOutClusterPool(old, dcs) ==
  LET new == GenerateClusterPool(dcs, old.npools + 1)
  IN [servers      |-> old.servers \o new.servers,
      logicalPools |-> old.logicalPools \o new.logicalPools,
      npools       |-> old.npools + 1]

\* Variant: the server is renamed but keeps its address.
MovedByName(server, dc) == [server EXCEPT !.name = ServerName(dc)]

Moved(server, dc) ==
  [server EXCEPT !.name = ServerName(dc), !.ip = dc.host,
                 !.port = IF @ = 0 THEN 0 ELSE dc.port]

\* A migration replaces servers where they are, by name; the i-th service
\* that is deleted, `from`, by the i-th that is added, `to` (getMigrates).
MigrateClusterServer(old, to, from) ==
  LET Migrates(server) == {i \in DOMAIN from : ServerName(from[i]) = server.name}
      Migrate(server) ==
        IF Migrates(server) = {} THEN server
        ELSE Moved(server, to[CHOOSE i \in Migrates(server) : TRUE])
  IN [old EXCEPT !.servers = [k \in DOMAIN old.servers |-> Migrate(old.servers[k])]]

\* getClusterPool: the stored pool, its addresses and its first number of
\* copysets brought up to date BY POSITION from `default`, the pool generated
\* from the stored topology.
GetClusterPool(kind, default, stored) ==
  IF stored = NoPool THEN default
  ELSE [stored EXCEPT
          !.servers = [i \in DOMAIN stored.servers |->
             IF i \in DOMAIN default.servers
             THEN [stored.servers[i] EXCEPT !.ip = default.servers[i].ip,
                                            !.port = default.servers[i].port]
             ELSE stored.servers[i]],
          !.logicalPools[1].copysets =
             IF kind = "curvebs" THEN default.logicalPools[1].copysets ELSE @]

\* Go's index out of range: the process dies.
GetClusterPoolPanics(default, stored) ==
  stored # NoPool /\ Len(default.servers) > Len(stored.servers)

=============================================================================
