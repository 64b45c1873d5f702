-------------------------------- MODULE Status --------------------------------
(***************************************************************************)
(* `status` and `client status`: tasks that run at the same time look at   *)
(* one container each, and put what they saw into one map of the memory    *)
(* storage, which is displayed when the playbook has ended.  Meanwhile     *)
(* containers end and start and the mds elect another leader.              *)
(*                                                                         *)
(* `status` writes every service as Unknown first, and displays what there *)
(* is even if tasks failed; `client status` does neither.                  *)
(***************************************************************************)
EXTENDS Integers, FiniteSets

CONSTANTS
  Service,       \* the services of the topology that have been matched
  Client,        \* the clients in the database
  Mds,           \* the services that are mds
  Parent,        \* [Service -> the deploy it is a replica of]
  Skippable,     \* the snapshotclones
  MaxChanges     \* bound: how often the surroundings change

Nobody == "nobody"
Thing == Service \cup Client

ASSUME StatusAssumption ==
  /\ Mds \subseteq Service /\ Skippable \subseteq Service
  /\ Service \cap Client = {} /\ Nobody \notin Thing /\ IsFiniteSet(Service)
  /\ DOMAIN Parent = Service
  /\ MaxChanges \in Nat

State == {"Up", "Exited", "gone"}
\* No map has been stored: one that is stored has an entry.
NoMap == <<>>

\* A row of the containers table: there is none, "-", or a container's.
Rows == [Service -> {"none", "cleaned", "id"}]

VARIABLES
  row,         \* the containers table
  state,       \* [Thing -> state of its container]
  leader,      \* the mds that leads
  down,        \* the things on hosts that do not answer
  changes,     \* how often the surroundings have changed
  kind,        \* "status" or "client status"
  step,        \* the step of the playbook
  pc,          \* [Thing -> where its task is]
  local,       \* [Thing -> the variables of its task]
  map,         \* KEY_ALL_SERVICE_STATUS: NoMap, or what it says of each thing
  holder,      \* the task that is in a transaction of the memory storage
  shown,       \* what was displayed: a map, or NoMap
  error,       \* whether the playbook failed
  seen,        \* history: [Thing -> the states it was in while the command ran]
  led          \* history: the mds that led while the command ran

surroundings == <<row, state, leader, down, changes>>
history == <<seen, led>>
vars == <<surroundings, kind, step, pc, local, map, holder, shown, error, history>>

Unseen == [status |-> "", leads |-> FALSE, fresh |-> FALSE]

\* NewInitServiceStatusTask and NewGetServiceStatusTask build no task for a
\* snapshotclone without a row; any other service without one is an error.
Skipped == {s \in Skippable : row[s] = "none"}
Complete == \A s \in Service \ Skipped : row[s] # "none"
Things == IF kind = "status" THEN Service \ Skipped ELSE Client

HasContainer(t) ==
  IF t \in Service THEN row[t] = "id" ELSE kind = "client status"

Init ==
  /\ kind \in {"status", "client status"} /\ step = "begin"
  /\ row \in Rows
  /\ kind = "client status" => \A s \in Service : row[s] = "none"
  /\ state \in [Thing -> State]
  /\ \A t \in Thing : state[t] = "gone" <=> ~ HasContainer(t)
  /\ leader \in {m \in Mds : state[m] = "Up"} \cup {Nobody}
  /\ down = {}
  /\ changes = 0
  /\ pc = [t \in Thing |-> "none"] /\ local = [t \in Thing |-> Unseen]
  /\ map = NoMap /\ holder = Nobody /\ shown = NoMap /\ error = FALSE
  /\ seen = [t \in Thing |-> {}] /\ led = {}

Running == step \in {"init", "get"}
See(s, l) ==
  /\ seen' = [t \in Thing |-> seen[t] \cup {s[t]}]
  /\ led' = led \cup {l}

-----------------------------------------------------------------------------
(* The playbook. *)

Starts(at) == pc' = [t \in Thing |-> IF t \in Things THEN at ELSE "none"]

Begin ==
  /\ step = "begin"
  /\ See(state, leader)
  /\ IF kind = "client status" THEN step' = "get" /\ Starts("list") /\ UNCHANGED error
     ELSE IF Complete THEN step' = "init" /\ Starts("lock") /\ UNCHANGED error
     ELSE step' = "display" /\ error' = TRUE /\ UNCHANGED pc
  /\ UNCHANGED <<surroundings, kind, local, map, holder, shown>>

\* Tasks.Execute returns when all tasks have, failed or not.
Ended == \A t \in Things : pc[t] \in {"done", "failed"}

StepEnds ==
  /\ Running /\ Ended
  /\ IF step = "init" THEN step' = "get" /\ Starts("list") ELSE step' = "display" /\ UNCHANGED pc
  /\ error' = \E t \in Things : pc[t] = "failed"
  /\ UNCHANGED <<surroundings, kind, local, map, holder, shown, history>>

Display ==
  /\ step = "display"
  /\ step' = "end"
  /\ shown' = IF kind = "client status" /\ error THEN NoMap ELSE map
  /\ UNCHANGED <<surroundings, kind, pc, local, map, holder, error, history>>

-----------------------------------------------------------------------------
(* The tasks. *)

GoTo(t, at) == pc' = [pc EXCEPT ![t] = at]
Task(t) == Running /\ t \in Things /\ UNCHANGED <<surroundings, kind, step, shown, error, history>>

\* docker ps -a --filter id=...: nothing for a container that is gone, or "-".
ListContainers(t) ==
  /\ pc[t] = "list" /\ Task(t)
  /\ IF t \in down
     THEN GoTo(t, "failed") /\ UNCHANGED local
     ELSE /\ local' = [local EXCEPT ![t].status = IF state[t] = "gone" THEN "" ELSE state[t]]
          /\ GoTo(t, IF t \in Mds /\ state[t] = "Up" THEN "leader" ELSE "lock")
  /\ UNCHANGED <<map, holder>>

\* The mds is asked for its metric in the container; no answer is a no.
GetLeader(t) ==
  /\ pc[t] = "leader" /\ Task(t)
  /\ local' = [local EXCEPT ![t].leads = leader = t]
  /\ GoTo(t, "lock")
  /\ UNCHANGED <<map, holder>>

GetLeaderFails(t) ==
  /\ pc[t] = "leader" /\ Task(t)
  /\ GoTo(t, "lock")
  /\ UNCHANGED <<local, map, holder>>

\* Variant: the map is read and written without the lock.
LockNone(t) ==
  /\ pc[t] = "lock" /\ Task(t)
  /\ holder' = t
  /\ local' = [local EXCEPT ![t].fresh = map = NoMap]
  /\ GoTo(t, "set")
  /\ UNCHANGED map

\* SafeMap.TX: the map is taken from the storage, or a new one made.
Lock(t) ==
  /\ pc[t] = "lock" /\ Task(t)
  /\ holder = Nobody /\ holder' = t
  /\ local' = [local EXCEPT ![t].fresh = map = NoMap]
  /\ GoTo(t, "set")
  /\ UNCHANGED map

Format(t) ==
  IF step = "init" THEN [status |-> "Unknown", leads |-> FALSE]
  ELSE [status |-> IF t \in Service /\ row[t] = "cleaned" THEN "Cleaned"
                   ELSE IF local[t].status = "" THEN "Losed" ELSE local[t].status,
        leads |-> local[t].leads]

\* setServiceStatus, setClientStatus.
SetStatus(t) ==
  /\ pc[t] = "set" /\ Task(t)
  /\ LET old == IF local[t].fresh THEN [u \in {} |-> Format(t)] ELSE map IN
     map' = [u \in DOMAIN old \cup {t} |-> IF u = t THEN Format(t) ELSE old[u]]
  /\ holder' = Nobody
  /\ GoTo(t, "done")
  /\ local' = [local EXCEPT ![t] = Unseen]

-----------------------------------------------------------------------------
(* Meanwhile. *)

Changed(s, l, d) ==
  /\ Running /\ changes < MaxChanges /\ changes' = changes + 1
  /\ state' = s /\ leader' = l /\ down' = d
  /\ See(s, l)
  /\ UNCHANGED <<row, kind, step, pc, local, map, holder, shown, error>>

ContainerExits(t) ==
  /\ state[t] = "Up"
  /\ Changed([state EXCEPT ![t] = "Exited"], IF leader = t THEN Nobody ELSE leader, down)

ContainerStarts(t) == state[t] = "Exited" /\ Changed([state EXCEPT ![t] = "Up"], leader, down)

ContainerRemoved(t) == state[t] = "Exited" /\ Changed([state EXCEPT ![t] = "gone"], leader, down)

Elects(m) == leader # m /\ state[m] = "Up" /\ Changed(state, m, down)

HostFails(t) == t \in Things \ down /\ Changed(state, leader, down \cup {t})

-----------------------------------------------------------------------------

Next ==
  \/ Begin \/ StepEnds \/ Display
  \/ \E t \in Thing : \/ ListContainers(t) \/ GetLeader(t) \/ GetLeaderFails(t)
                      \/ Lock(t) \/ SetStatus(t)
                      \/ ContainerExits(t) \/ ContainerStarts(t) \/ ContainerRemoved(t)
                      \/ HostFails(t)
  \/ \E m \in Mds : Elects(m)

Spec == Init /\ [][Next]_vars

-----------------------------------------------------------------------------
(* What is displayed: one line for the replicas of a deploy. *)

Replicas(p) == {s \in DOMAIN shown : Parent[s] = p}

\* The function status of tui/service/status.go.
Merged(ts) ==
  IF \A t \in ts : shown[t].status = "Up" THEN "RUNNING"
  ELSE IF \A t \in ts : shown[t].status = "Exited" THEN "STOPPED"
  ELSE IF \E v \in {"Cleaned", "Losed", "Unknown"} : \A t \in ts : shown[t].status = v
  THEN (CHOOSE v \in {"Cleaned", "Losed", "Unknown"} : \A t \in ts : shown[t].status = v)
  ELSE "ABNORMAL"

Displayed == step = "end" /\ shown # NoMap

\* The state a status tells of.
Of(status) == IF status \in {"Cleaned", "Losed"} THEN "gone" ELSE status

EntriesTrue ==
  /\ DOMAIN shown = Things
  /\ \A t \in Things :
       IF shown[t].status = "Unknown" THEN t \in down /\ error
       ELSE Of(shown[t].status) \in seen[t]
  /\ \A t \in Things : shown[t].leads => t \in led

LinesTrue ==
  kind = "status" =>
    \A s \in Things :
      Merged(Replicas(Parent[s])) = "RUNNING" =>
        \A r \in Things : Parent[r] = Parent[s] => "Up" \in seen[r]

(* What is displayed has been the case while the command ran: there is an    *)
(* entry for every service (client) that has a container, whatever the order *)
(* in which the tasks write the map; a service that is not Unknown has been  *)
(* in the state shown, an mds shown as leader has led; a service is Unknown  *)
(* only if its host failed, and then the command does; and a deploy is shown *)
(* as RUNNING only if each of its replicas has been up.                      *)
ShownTrue == Displayed => EntriesTrue /\ LinesTrue

=============================================================================
