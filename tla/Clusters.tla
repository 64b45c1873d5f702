------------------------------- MODULE Clusters -------------------------------
(***************************************************************************)
(* The clusters curveadm knows: `cluster add`, `checkout`, `rm`, `export`  *)
(* and `import`, `hosts commit`, and, summed up to their effect on the     *)
(* tables, `deploy` and `clean` of the current cluster (module Lifecycle   *)
(* has their steps).  Every command is executed by a process of module     *)
(* Invocation; one call of the database or one item of a file is a step.   *)
(*                                                                         *)
(* A cluster is looked up by LIKE, so that the name given on the command   *)
(* line is a pattern, and written by =.                                    *)
(***************************************************************************)
EXTENDS Invocation, FiniteSets

CONSTANTS
  Name,          \* names of clusters
  Like,          \* the pairs <<name, pattern>> of them that match
  Service,       \* the services of a topology
  HostsFile,     \* what is given to `hosts commit`
  ValidHosts,    \* those that ParseHosts accepts
  MaxClusters    \* bound: how many clusters are ever added

ASSUME ClustersAssumption ==
  /\ Like \subseteq Name \X Name
  /\ \A n \in Name : <<n, n>> \in Like
  /\ ValidHosts \subseteq HostsFile
  /\ IsFiniteSet(Service)
  /\ MaxClusters \in Nat \ {0}

VARIABLES
  clusters,      \* the clusters table, a set of rows
  next,          \* the next id, which a removed cluster does not give back
  services,      \* the containers table
  hosts,         \* the hosts table, or None
  file,          \* curveadm.db as export writes it, or NoFile
  cmd            \* the command that is executed

tables == <<clusters, next, services, hosts, file>>
vars == <<ivars, tables, cmd>>

\* A topology file is missing, refused, or describes the services.
Topologies == {"none", "bad", "good"}
NoFile == [topology |-> "none", services |-> {}, broken |-> TRUE]

\* The file exported by a curveadm with another database, whose cluster has
\* the UUID None.
Foreign == [topology |-> "good", broken |-> FALSE,
            services |-> {[id |-> <<None, s>>, active |-> TRUE] : s \in Service}]

NoCommand == [op |-> "none", name |-> "none", data |-> "none", force |-> FALSE,
              opened |-> None, hosts |-> None, step |-> 1, left |-> {}]

\* A new database, or one in which a cluster has been added and checked out.
Init ==
  /\ InvocationInit
  /\ \/ clusters = {} /\ next = 1 /\ hosts = None
     \/ /\ \E n \in Name :
            clusters = {[id |-> 1, name |-> n, topology |-> "good", current |-> TRUE]}
        /\ next = 2 /\ hosts \in ValidHosts
  /\ services = {}
  /\ file \in {NoFile, Foreign}
  /\ cmd = NoCommand

-----------------------------------------------------------------------------
(* The tables. *)

Is(op) == At("command") /\ cmd.op = op

\* GetClusters returns rows in the order of their ids; its callers take the first.
Matching(name) == {c \in clusters : <<c.name, name>> \in Like}
First(name) == CHOOSE c \in Matching(name) : \A d \in Matching(name) : c.id <= d.id

GetServices(cluster) == {r \in services : r.cluster = cluster}
Active(cluster) == {r \in GetServices(cluster) : r.active}

\* GetCurrentCluster: only if there is exactly one.
Current == {c \in clusters : c.current}
Opens == \E c \in clusters : Current = {c}
Opened == CHOOSE c \in Current : TRUE

\* The opened cluster is a copy made when the process started.
OpenedId == IF Opens THEN Opened.id ELSE None
OpenedTopology == IF Opens THEN Opened.topology ELSE "none"

Taken(name) == Matching(name) # {}

InsertCluster(name, topology) ==
  /\ clusters' = clusters \cup {[id |-> next, name |-> name, topology |-> topology,
                                  current |-> FALSE]}
  /\ next' = next + 1

DeleteCluster(name) ==
  /\ clusters' = {c \in clusters : c.name # name}
  /\ UNCHANGED next

\* Variant: the other clusters keep their mark.
CheckoutClusterKeeps(name) ==
  clusters' = {[c EXCEPT !.current = @ \/ c.name = name] : c \in clusters}

CheckoutCluster(name) ==
  clusters' = {[c EXCEPT !.current = (c.name = name)] : c \in clusters}

-----------------------------------------------------------------------------
(* The operator gives a command; the process opens the current cluster.    *)

Execute(op, name, data, force) ==
  /\ Start(op # "audit")
  /\ cmd' = [NoCommand EXCEPT !.op = op, !.name = name, !.data = data, !.force = force,
                              !.opened = OpenedId, !.hosts = hosts,
                              !.left = IF OpenedTopology = "good" THEN Service ELSE {}]
  /\ UNCHANGED tables

Commands ==
  \/ \E n \in Name, t \in Topologies : Execute("add", n, t, FALSE)
  \/ \E n \in Name, op \in {"checkout", "export", "import"} : Execute(op, n, "none", FALSE)
  \/ \E n \in Name, force \in BOOLEAN : Execute("rm", n, "none", force)
  \/ \E h \in HostsFile : Execute("hosts", "none", h, FALSE)
  \/ \E op \in {"deploy", "clean", "update", "audit"} : Execute(op, "none", "none", FALSE)

Ends(result) == Return(result) /\ UNCHANGED <<cmd, faults>>
Refused(error) == error /\ Ends("fail") /\ UNCHANGED tables
Declined == Ends("cancel") /\ UNCHANGED tables
Goes(step, left) ==
  /\ cmd' = [cmd EXCEPT !.step = step, !.left = left]
  /\ UNCHANGED <<ivars, hosts>>

\* Reading the tables fails, or the only write does.
CallFails ==
  /\ At("command") /\ (cmd.op = "export" => cmd.step = 1)
  /\ cmd.op \notin {"import", "update"}
  /\ DatabaseFails /\ Return("fail")
  /\ UNCHANGED <<tables, cmd>>

Add ==
  /\ Is("add")
  /\ \/ Refused(Taken(cmd.name) \/ cmd.data = "bad")
     \/ /\ ~ Taken(cmd.name) /\ cmd.data # "bad" /\ next <= MaxClusters
        /\ InsertCluster(cmd.name, cmd.data)
        /\ Ends("success") /\ UNCHANGED <<services, hosts, file>>

Checkout ==
  /\ Is("checkout")
  /\ \/ Refused(~ Taken(cmd.name))
     \/ /\ Taken(cmd.name)
        /\ CheckoutCluster(cmd.name)
        /\ Ends("success") /\ UNCHANGED <<next, services, hosts, file>>

\* Variant: the services of the current cluster are looked at.
InUseOpened(name) == ~ cmd.force /\ Active(cmd.opened) # {}

InUse(name) == ~ cmd.force /\ Active(First(name).id) # {}

Remove ==
  /\ Is("rm")
  /\ \/ Refused(~ Taken(cmd.name))
     \/ /\ Taken(cmd.name)
        /\ \/ Refused(InUse(cmd.name))
           \/ ~ InUse(cmd.name) /\ Declined
           \/ /\ ~ InUse(cmd.name)
              /\ DeleteCluster(cmd.name)
              /\ Ends("success") /\ UNCHANGED <<services, hosts, file>>

CommitHosts ==
  /\ Is("hosts")
  /\ \/ Refused(cmd.data \notin ValidHosts)
     \/ cmd.data \in ValidHosts /\ Declined
     \/ /\ cmd.data \in ValidHosts
        /\ hosts' = cmd.data
        /\ Ends("success") /\ UNCHANGED <<clusters, next, services, file>>

\* `audit` shows the records.
Audit == Is("audit") /\ Ends("success") /\ UNCHANGED tables

Update == Is("update") /\ SelfUpgrade /\ UNCHANGED <<tables, cmd>>

-----------------------------------------------------------------------------
(* Export: the file is overwritten, item by item. *)

Exported(row) == [id |-> row.id, active |-> row.active]

ExportOpen ==
  /\ Is("export") /\ cmd.step = 1
  /\ \/ Refused(~ Taken(cmd.name))
     \/ /\ Taken(cmd.name)
        /\ file' = [topology |-> "none", services |-> {}, broken |-> FALSE]
        /\ Goes(2, {Exported(r) : r \in GetServices(First(cmd.name).id)})
        /\ UNCHANGED <<clusters, next, services>>

ExportCluster ==
  /\ Is("export") /\ cmd.step = 2
  /\ file' = [file EXCEPT !.topology = First(cmd.name).topology]
  /\ Goes(3, cmd.left)
  /\ UNCHANGED <<clusters, next, services>>

ExportService ==
  /\ Is("export") /\ cmd.step = 3
  /\ \E s \in cmd.left :
       /\ file' = [file EXCEPT !.services = @ \cup {s}]
       /\ Goes(3, cmd.left \ {s})
  /\ UNCHANGED <<clusters, next, services>>

ExportEnds == Is("export") /\ cmd.step = 3 /\ cmd.left = {} /\ Ends("success") /\ UNCHANGED tables

\* An item is cut in the middle.  A file cut between two looks complete.
ExportFails ==
  /\ Is("export") /\ cmd.step > 1
  /\ file' = [file EXCEPT !.broken = TRUE]
  /\ \/ Failure("file") /\ Return("fail") /\ UNCHANGED cmd
     \/ Kill /\ cmd' = NoCommand
  /\ UNCHANGED <<clusters, next, services, hosts>>

-----------------------------------------------------------------------------
(* Import: the cluster, then its services. *)

ImportCluster ==
  /\ Is("import") /\ cmd.step = 1
  /\ \/ Refused(Taken(cmd.name) \/ file.broken)
     \/ /\ ~ Taken(cmd.name) /\ ~ file.broken /\ next <= MaxClusters
        /\ InsertCluster(cmd.name, file.topology)
        /\ Goes(2, file.services)
        /\ UNCHANGED <<services, file>>

ImportReadFails ==
  /\ Is("import") /\ cmd.step = 1
  /\ DatabaseFails /\ Return("fail")
  /\ UNCHANGED <<tables, cmd>>

\* The error of InsertCluster is dropped, and the first of no clusters used.
ImportClusterFails ==
  /\ Is("import") /\ cmd.step = 1
  /\ ~ Taken(cmd.name) /\ ~ file.broken
  /\ DatabaseFails /\ Panic
  /\ cmd' = NoCommand
  /\ UNCHANGED tables

Known(s) == \E r \in services : r.id = s.id

\* Variant: a service that is already there counts as imported.
ImportServiceSkips ==
  /\ Is("import") /\ cmd.step = 2
  /\ \E s \in cmd.left :
       /\ services' = IF Known(s) THEN services
                      ELSE services \cup {[id |-> s.id, cluster |-> First(cmd.name).id,
                                           active |-> s.active]}
       /\ Goes(2, cmd.left \ {s})
  /\ UNCHANGED <<clusters, next, file>>

ImportService ==
  /\ Is("import") /\ cmd.step = 2
  /\ \E s \in cmd.left :
       IF Known(s)
       THEN Goes(3, {}) /\ UNCHANGED services
       ELSE /\ services' = services \cup {[id |-> s.id, cluster |-> First(cmd.name).id,
                                           active |-> s.active]}
            /\ Goes(2, cmd.left \ {s})
  /\ UNCHANGED <<clusters, next, file>>

ImportServiceFails ==
  /\ Is("import") /\ cmd.step = 2 /\ DatabaseFails
  /\ cmd' = [cmd EXCEPT !.step = 3, !.left = {}]
  /\ UNCHANGED <<release, version, process, detect, log, asked, commands, tables>>

\* The services that had been inserted stay.
ImportUndo ==
  /\ Is("import") /\ cmd.step = 3
  /\ DeleteCluster(cmd.name)
  /\ Ends("fail") /\ UNCHANGED <<services, hosts, file>>

ImportUndoFails ==
  /\ Is("import") /\ cmd.step = 3
  /\ DatabaseFails /\ Return("fail")
  /\ UNCHANGED <<tables, cmd>>

ImportEnds == Is("import") /\ cmd.step = 2 /\ cmd.left = {} /\ Ends("success") /\ UNCHANGED tables

-----------------------------------------------------------------------------
(* Deploy and clean, service by service, of the cluster opened. *)

\* GetServiceId
ServiceId(s) == <<cmd.opened, s>>
Recorded(s) == \E r \in services : r.id = ServiceId(s)
Set(s, active) ==
  services' = {r \in services : r.id # ServiceId(s)}
              \cup {[id |-> ServiceId(s), cluster |-> cmd.opened, active |-> active]}

\* No current cluster, no topology, or no hosts.
NotReady == cmd.opened = None \/ cmd.hosts = None \/ (cmd.step = 1 /\ cmd.left = {})

DeployService ==
  /\ Is("deploy")
  /\ \/ Refused(NotReady)
     \/ /\ ~ NotReady
        /\ \E s \in cmd.left : Set(s, TRUE) /\ Goes(2, cmd.left \ {s})
        /\ UNCHANGED <<clusters, next, file>>

CleanService ==
  /\ Is("clean")
  /\ \/ Refused(NotReady \/ \E s \in cmd.left : ~ Recorded(s))
     \/ cmd.step = 1 /\ ~ NotReady /\ Declined
     \/ /\ ~ NotReady
        /\ \E s \in cmd.left : Recorded(s) /\ Set(s, FALSE) /\ Goes(2, cmd.left \ {s})
        /\ UNCHANGED <<clusters, next, file>>

ServicesEnd ==
  /\ (Is("deploy") \/ Is("clean")) /\ cmd.step = 2 /\ cmd.left = {}
  /\ Ends("success") /\ UNCHANGED tables

-----------------------------------------------------------------------------

Next ==
  \/ Commands
  \/ Surroundings /\ UNCHANGED tables /\ cmd' = IF process'.at = "none" THEN NoCommand ELSE cmd
  \/ Add \/ Checkout \/ Remove \/ CommitHosts \/ Audit \/ Update \/ CallFails
  \/ ExportOpen \/ ExportCluster \/ ExportService \/ ExportEnds \/ ExportFails
  \/ ImportCluster \/ ImportReadFails \/ ImportClusterFails \/ ImportService
  \/ ImportServiceFails \/ ImportUndo \/ ImportUndoFails \/ ImportEnds
  \/ DeployService \/ CleanService \/ ServicesEnd

Spec == Init /\ [][Next]_vars

-----------------------------------------------------------------------------

(* Types; and what the tables promise: ids and names are unique, ids only    *)
(* grow, a service has one row, and at most one cluster is the current one.  *)
Row == [id : (None .. MaxClusters) \X Service, cluster : 1 .. MaxClusters, active : BOOLEAN]
TypeOK ==
  /\ clusters \subseteq [id : 1 .. (next - 1), name : Name, topology : Topologies,
                          current : BOOLEAN]
  /\ \A c, d \in clusters : c.id = d.id \/ c.name = d.name => c = d
  /\ \A c, d \in Current : c = d
  /\ next \in 1 .. MaxClusters + 1
  /\ services \subseteq Row /\ \A r, s \in services : r.id = s.id => r = s
  /\ hosts \in ValidHosts \cup {None}
  /\ file.topology \in Topologies /\ file.broken \in BOOLEAN
  /\ process.id \in 0 .. Len(audit)

\* What a command that succeeds is for.
Holds(c, f) ==
  c.topology = f.topology /\ {Exported(r) : r \in GetServices(c.id)} = f.services

Done ==
  CASE cmd.op = "add"      -> \E c \in clusters : c.name = cmd.name /\ c.topology = cmd.data
    [] cmd.op = "rm"       -> \A c \in clusters : c.name # cmd.name
    [] cmd.op = "checkout" -> \A c \in Current : c.name = cmd.name
    [] cmd.op = "export"   -> ~ file.broken /\ \E c \in Matching(cmd.name) : Holds(c, file)
    [] cmd.op = "import"   -> \E c \in clusters : c.name = cmd.name /\ Holds(c, file)
    [] cmd.op = "deploy"   -> \A s \in Service : \E r \in services : r.id = ServiceId(s) /\ r.active
    [] cmd.op = "clean"    -> \A s \in Service : \E r \in services : r.id = ServiceId(s) /\ ~ r.active
    [] cmd.op = "hosts"    -> hosts = cmd.data
    [] OTHER -> TRUE

Succeeds == At("command") /\ process'.at = "postAudit" /\ process'.result = "success"

(* A command that reports success has done all it is for, whatever commands  *)
(* succeeded, failed half-way or were killed before it: an imported cluster  *)
(* has every service of the file, an exported file every service of the      *)
(* cluster, a removed name is free.                                          *)
SuccessMeansDone == [][Succeeds => Done']_vars

(* `cluster rm` without --force removes only a cluster none of whose         *)
(* services is active, though it looks at the services of the first cluster  *)
(* that the name matches as a pattern, and deletes the one that has the name.*)
RemovesOnlyInactive ==
  [][Is("rm") /\ ~ cmd.force =>
       \A c \in clusters : (\E d \in clusters' : d.id = c.id) \/ Active(c.id) = {}]_vars

(* After checkout has said "Switched to cluster" (checkout.go:77) there is   *)
(* a current cluster.  It is violated: the name is looked up as a pattern,   *)
(* but compared by = when the clusters are marked.                           *)
SwitchedMeansCurrent == [][Succeeds /\ cmd.op = "checkout" => Current' # {}]_vars

=============================================================================
