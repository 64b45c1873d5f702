------------------------------- MODULE Topology -------------------------------
(***************************************************************************)
(* What curveadm computes from the text of a topology: the services        *)
(* (deploy configs) it describes, the difference of two topologies, and    *)
(* whether a commit, a scale-out or a migration may go from one to the     *)
(* other.                                                                  *)
(*                                                                         *)
(* A topology is [kind, services]; services maps a role to the sequence of *)
(* its deploys, [host, name, replicas, port].  A deploy stands for         *)
(* `replicas` services on one host.  Variables, the other configuration    *)
(* items and their merging are left out; hosts are known.                  *)
(***************************************************************************)
EXTENDS Integers, Sequences, FiniteSets

NoName == -1    \* `name:` left out

CURVEBS_ROLES == {"etcd", "mds", "chunkserver", "snapshotclone"}
CURVEFS_ROLES == {"etcd", "mds", "metaserver"}

Roles(kind) == IF kind = "curvebs" THEN CURVEBS_ROLES ELSE CURVEFS_ROLES

\* A deploy without a name is called by its position among those of its role.
FormatName(deploy, hostSequence) ==
  IF deploy.name = NoName THEN hostSequence ELSE deploy.name

FormatId(role, host, name, replicasSequence) == <<role, host, name, replicasSequence>>

NewDeployConfig(role, deploy, hostSequence, replicasSequence) ==
  LET name == FormatName(deploy, hostSequence)
  IN [id               |-> FormatId(role, deploy.host, name, replicasSequence),
      parentId         |-> FormatId(role, deploy.host, name, 0),
      role             |-> role,
      host             |-> deploy.host,
      name             |-> name,
      replicas         |-> deploy.replicas,
      port             |-> deploy.port,
      hostSequence     |-> hostSequence,
      replicasSequence |-> replicasSequence]

\* The services of a topology.  (The code's test for duplicate ids never fires:
\* its map `exist` is not written.  The topologies considered have none.)
ParseTopology(text) ==
  UNION {
    UNION {
      LET deploy == text.services[role][i]
      IN {NewDeployConfig(role, deploy, i - 1, k) : k \in 0 .. deploy.replicas - 1}
      : i \in DOMAIN text.services[role] }
    : role \in Roles(text.kind) \cap DOMAIN text.services }

FilterDeployConfigByRole(dcs, role) == {dc \in dcs : dc.role = role}

Ids(dcs) == {dc.id : dc \in dcs}

\* DiffTopology, of the services of two topologies: those only in the new one,
\* and those only in the old one.  (No command uses DIFF_CHANGE.)
DiffAdd(old, new) == {dc \in new : dc.id \notin Ids(old)}
DiffDelete(old, new) == {dc \in old : dc.id \notin Ids(new)}

IsSameRole(dcs) == \A dc1, dc2 \in dcs : dc1.role = dc2.role

\* Counts parent ids: deploys, not hosts.
GetHostNum(dcs) == Cardinality({dc.parentId : dc \in dcs})

\* step2CheckServices for a commit: three services and three deploys of every
\* role; no snapshotclone is well too.
CheckServices(kind, dcs) ==
  \A role \in Roles(kind) :
    LET ofRole == FilterDeployConfigByRole(dcs, role)
    IN \/ Cardinality(ofRole) >= 3 /\ GetHostNum(ofRole) >= 3
       \/ role = "snapshotclone" /\ ofRole = {}

-----------------------------------------------------------------------------
(* What the commands accept, given the services of the stored topology (none *)
(* if there is no topology) and those of the one they are given.             *)

\* checkDiff, for a commit that is not forced.
CommitAllowed(old, new) ==
  old # {} => DiffAdd(old, new) = {} /\ DiffDelete(old, new) = {}

\* checkScaleOutTopology.
ScaleOutAllowed(old, new) ==
  LET add == DiffAdd(old, new)
  IN /\ DiffDelete(old, new) = {}
     /\ add # {}
     /\ IsSameRole(add)
     /\ \A dc \in add : dc.role \in {"chunkserver", "metaserver"} => GetHostNum(add) >= 3

\* checkMigrateTopology.  GetReplicas is that of any one of the services.
MigrateAllowed(old, new) ==
  LET add == DiffAdd(old, new)
      del == DiffDelete(old, new)
  IN /\ Cardinality(add) = Cardinality(del)
     /\ add # {}
     /\ IsSameRole(add \cup del)
     /\ \E dc \in del : Cardinality(del) = dc.replicas

=============================================================================
