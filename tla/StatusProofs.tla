----------------------------- MODULE StatusProofs -----------------------------
(***************************************************************************)
(* Proof that what `status` and `client status` display is true (module    *)
(* Status), for any number of services and clients, however their          *)
(* containers, their hosts and the leader change meanwhile.                *)
(*                                                                         *)
(* The inductive invariant follows a task from what it saw to the entry it *)
(* writes: what a task remembers, and what the map says, is a state its    *)
(* container was in while the command ran (Witnessed, Honest); the lock    *)
(* keeps the map as it was when the transaction began (Excluded), so that  *)
(* no entry is lost and the entries are those of the tasks that are done   *)
(* (Mapped).                                                               *)
(***************************************************************************)
EXTENDS Status, TLAPS

\* Where a task can be.
PC == {"none", "list", "leader", "lock", "set", "done", "failed"}
\* What a task can remember.
Local == [status : {"", "Up", "Exited"}, leads : BOOLEAN, fresh : BOOLEAN]
\* What the map can say of a thing.
Entry == [status : {"Unknown", "Cleaned", "Losed", "Up", "Exited"}, leads : BOOLEAN]

\* Types.
TypeInv ==
  /\ kind \in {"status", "client status"}
  /\ step \in {"begin", "init", "get", "display", "end"}
  /\ row \in Rows /\ state \in [Thing -> State] /\ down \subseteq Thing
  /\ pc \in [Thing -> PC] /\ local \in [Thing -> Local]
  /\ map \in [DOMAIN map -> Entry] /\ DOMAIN map \subseteq Things
  /\ error \in BOOLEAN
  /\ seen \in [Thing -> SUBSET State]

\* Only things of the command have tasks; the first step of `status` has nothing to
\* ask a host for, and a task fails only because its host does not answer.
Tasked ==
  /\ \A t \in Thing \ Things : pc[t] = "none"
  /\ step = "begin" => \A t \in Thing : pc[t] = "none"
  /\ step = "init" => kind = "status" /\ \A t \in Things : pc[t] \in {"lock", "set", "done"}
  /\ step = "get" => \A t \in Things : pc[t] # "none"
  /\ \A t \in Thing : pc[t] = "failed" => t \in down

\* One task is in a transaction, and whether it found a map is still the case.
Excluded ==
  \A t \in Thing : pc[t] = "set" => holder = t /\ (local[t].fresh <=> map = NoMap)

\* The entries are those of the tasks that are done, or of all once a step has passed
\* in which none fails.
Mapped ==
  /\ step = "begin" => map = NoMap
  /\ step = "init" => DOMAIN map = {t \in Things : pc[t] = "done"}
  /\ step = "get" => DOMAIN map = IF kind = "status" THEN Things
                                  ELSE {t \in Things : pc[t] = "done"}
  /\ step \in {"display", "end"} =>
       map = NoMap \/ DOMAIN map = Things \/ (kind = "client status" /\ error)

\* The state that the output of docker ps tells of.
Looked(status) == IF status = "" THEN "gone" ELSE status

\* What a task remembers was so while the command ran, and what is so is recorded.
Witnessed ==
  /\ step # "begin" => leader \in led /\ \A t \in Thing : state[t] \in seen[t]
  /\ \A s \in Service : row[s] = "cleaned" => state[s] = "gone"
  /\ \A t \in Thing :
       step = "get" /\ pc[t] \in {"leader", "lock", "set"} => Looked(local[t].status) \in seen[t]
  /\ \A t \in Thing : local[t].leads => t \in led

\* So was what the map says; an entry that is still Unknown has no task that got
\* through.
Honest ==
  \A t \in DOMAIN map :
    /\ map[t].leads => t \in led
    /\ IF map[t].status = "Unknown"
       THEN /\ step = "get" => pc[t] # "done"
            /\ step \in {"display", "end"} => t \in down /\ error
       ELSE Of(map[t].status) \in seen[t]

\* What is displayed is the map, and never that of a `client status` that failed.
Shown ==
  shown # NoMap => step = "end" /\ shown = map /\ ~ (kind = "client status" /\ error)

\* The inductive invariant.
StatusIInv == TypeInv /\ Tasked /\ Excluded /\ Mapped /\ Witnessed /\ Honest /\ Shown

-----------------------------------------------------------------------------
(* The first state. *)

\* A map that has not been stored has no entries.
LEMMA EmptyMap == DOMAIN NoMap = {} /\ NoMap \in [DOMAIN NoMap -> Entry]
  BY DEF NoMap

\* The invariant holds at first.
LEMMA InitStatusIInv == Init => StatusIInv
<1>. SUFFICES ASSUME Init PROVE StatusIInv
  OBVIOUS
<1>. USE EmptyMap DEF Init
<1>1. TypeInv
  BY DEF TypeInv, Things, State, PC, Local, Unseen
<1>2. Tasked /\ Excluded /\ Mapped /\ Honest /\ Shown
  BY DEF Tasked, Excluded, Mapped, Honest, Shown
<1>3. Witnessed
  BY StatusAssumption DEF Witnessed, HasContainer, Thing, Rows, Unseen
<1>. QED
  BY <1>1, <1>2, <1>3 DEF StatusIInv

-----------------------------------------------------------------------------
(* The playbook. *)

\* A command that begins preserves the invariant.
LEMMA BeginPreserves ==
  ASSUME StatusIInv, Begin
  PROVE  StatusIInv'
<1>. USE StatusAssumption, EmptyMap
<1>0. Things' = Things /\ Things \subseteq Thing
  BY DEF Begin, Starts, See, Running, surroundings, Complete, Things, Skipped, Thing,
     TypeInv, StatusIInv
<1>1. TypeInv'
  BY <1>0 DEF Begin, Starts, See, Running, surroundings, Complete, StatusIInv, TypeInv, PC,
     Local, State, Entry, Unseen
<1>2. Tasked'
  BY <1>0 DEF Begin, Starts, See, Running, surroundings, Complete, StatusIInv, TypeInv, Tasked, PC
<1>3. Excluded'
  BY <1>0 DEF Begin, Starts, See, Running, surroundings, Complete, StatusIInv, TypeInv,
     Excluded, Unseen, Tasked
<1>4. Mapped'
  BY <1>0 DEF Begin, Starts, See, Running, surroundings, Complete, StatusIInv, TypeInv,
     Mapped, Tasked, Excluded
<1>5. Witnessed'
  BY <1>0 DEF Begin, Starts, See, Running, surroundings, Complete, StatusIInv, TypeInv,
     Witnessed, Looked, Unseen, State
<1>6. Honest'
  BY <1>0 DEF Begin, Starts, See, Running, surroundings, Complete, StatusIInv, TypeInv,
     Honest, Of, Looked, Entry, Witnessed, Mapped, Tasked
<1>7. Shown'
  BY <1>0 DEF Begin, Starts, See, Running, surroundings, Complete, StatusIInv, TypeInv, Shown
<1>. QED
  BY <1>1, <1>2, <1>3, <1>4, <1>5, <1>6, <1>7 DEF StatusIInv

\* So does the end of a step of the playbook.
LEMMA StepEndsPreserves ==
  ASSUME StatusIInv, StepEnds
  PROVE  StatusIInv'
<1>. USE StatusAssumption, EmptyMap
<1>0. Things' = Things /\ Things \subseteq Thing
  BY DEF StepEnds, Starts, Ended, Running, surroundings, history, Things, Skipped, Thing,
     TypeInv, StatusIInv
<1>1. TypeInv'
  BY <1>0 DEF StepEnds, Starts, Ended, Running, surroundings, history, StatusIInv, TypeInv,
     PC, Local, State, Entry, Unseen
<1>2. Tasked'
  BY <1>0 DEF StepEnds, Starts, Ended, Running, surroundings, history, StatusIInv, TypeInv,
     Tasked, PC
<1>3. Excluded'
  BY <1>0 DEF StepEnds, Starts, Ended, Running, surroundings, history, StatusIInv, TypeInv,
     Excluded, Unseen, Tasked
<1>4. Mapped'
  BY <1>0 DEF StepEnds, Starts, Ended, Running, surroundings, history, StatusIInv, TypeInv,
     Mapped, Tasked, Excluded
<1>5. Witnessed'
  BY <1>0 DEF StepEnds, Starts, Ended, Running, surroundings, history, StatusIInv, TypeInv,
     Witnessed, Looked, Unseen, State
<1>6. Honest'
  BY <1>0 DEF StepEnds, Starts, Ended, Running, surroundings, history, StatusIInv, TypeInv,
     Honest, Of, Looked, Entry, Witnessed, Mapped, Tasked
<1>7. Shown'
  BY <1>0 DEF StepEnds, Starts, Ended, Running, surroundings, history, StatusIInv, TypeInv, Shown
<1>. QED
  BY <1>1, <1>2, <1>3, <1>4, <1>5, <1>6, <1>7 DEF StatusIInv

\* So does the display.
LEMMA DisplayPreserves ==
  ASSUME StatusIInv, Display
  PROVE  StatusIInv'
<1>. USE StatusAssumption, EmptyMap
<1>0. Things' = Things /\ Things \subseteq Thing
  BY DEF Display, surroundings, history, Things, Skipped, Thing, TypeInv, StatusIInv
<1>1. TypeInv'
  BY <1>0 DEF Display, surroundings, history, StatusIInv, TypeInv, PC, Local, State, Entry, Unseen
<1>2. Tasked'
  BY <1>0 DEF Display, surroundings, history, StatusIInv, TypeInv, Tasked, PC
<1>3. Excluded'
  BY <1>0 DEF Display, surroundings, history, StatusIInv, TypeInv, Excluded, Unseen, Tasked
<1>4. Mapped'
  BY <1>0 DEF Display, surroundings, history, StatusIInv, TypeInv, Mapped, Tasked, Excluded
<1>5. Witnessed'
  BY <1>0 DEF Display, surroundings, history, StatusIInv, TypeInv, Witnessed, Looked, Unseen,
     State
<1>6. Honest'
  BY <1>0 DEF Display, surroundings, history, StatusIInv, TypeInv, Honest, Of, Looked, Entry,
     Witnessed, Mapped, Tasked
<1>7. Shown'
  BY <1>0 DEF Display, surroundings, history, StatusIInv, TypeInv, Shown
<1>. QED
  BY <1>1, <1>2, <1>3, <1>4, <1>5, <1>6, <1>7 DEF StatusIInv

-----------------------------------------------------------------------------
(* The tasks. *)

\* So does docker ps.
LEMMA ListContainersPreserves ==
  ASSUME StatusIInv, NEW t \in Thing, ListContainers(t)
  PROVE  StatusIInv'
<1>. USE StatusAssumption, EmptyMap
<1>0. Things' = Things /\ Things \subseteq Thing
  BY DEF ListContainers, Task, GoTo, Running, surroundings, history, Things, Skipped, Thing,
     TypeInv, StatusIInv
<1>a. /\ t \in Thing /\ t \in Things /\ Running /\ pc[t] = "list"
      /\ pc' = [pc EXCEPT ![t] = pc'[t]] /\ pc'[t] \in {"failed", "leader", "lock"}
      /\ pc'[t] = "failed" => t \in down
  BY DEF ListContainers, Task, GoTo, StatusIInv, TypeInv
<1>b. /\ local' = [local EXCEPT ![t] = local'[t]] /\ local'[t] \in Local
      /\ local'[t].leads = local[t].leads
      /\ pc'[t] # "failed" => Looked(local'[t].status) = state[t]
  <2>1. CASE t \in down
    BY <1>a, <2>1 DEF ListContainers, GoTo, StatusIInv, TypeInv
  <2>2. CASE t \notin down
    <3>1. local' = [local EXCEPT ![t].status = IF state[t] = "gone" THEN "" ELSE state[t]]
      BY <2>2 DEF ListContainers
    <3>2. local[t] \in Local /\ state[t] \in State
      BY <1>a DEF StatusIInv, TypeInv
    <3>3. local' = [local EXCEPT ![t] = local'[t]]
      BY <1>a, <3>1 DEF StatusIInv, TypeInv
    <3>4. local'[t] = [local[t] EXCEPT !.status = IF state[t] = "gone" THEN "" ELSE state[t]]
      BY <1>a, <3>1 DEF StatusIInv, TypeInv
    <3>. QED
      BY <3>2, <3>3, <3>4 DEF Local, Looked, State
  <2>. QED
    BY <2>1, <2>2
<1>c. UNCHANGED <<surroundings, kind, step, shown, error, history, map, holder>>
  BY DEF ListContainers, Task
<1>1. TypeInv'
  BY <1>0, <1>a, <1>b, <1>c DEF Running, surroundings, history, StatusIInv, TypeInv, PC
<1>2. Tasked'
  BY <1>0, <1>a, <1>b, <1>c DEF Running, surroundings, history, StatusIInv, TypeInv, Tasked, PC
<1>3. Excluded'
  BY <1>0, <1>a, <1>b, <1>c DEF Running, surroundings, history, StatusIInv, TypeInv,
     Excluded, Unseen, Tasked
<1>4. Mapped'
  BY <1>0, <1>a, <1>b, <1>c DEF Running, surroundings, history, StatusIInv, TypeInv, Mapped,
     Tasked, Excluded
<1>5. Witnessed'
  <2>1. step # "begin" /\ \A u \in Thing : state[u] \in seen[u]
    BY <1>a DEF Running, StatusIInv, Witnessed
  <2>2. \A u \in Thing : step = "get" /\ pc'[u] \in {"leader", "lock", "set"} =>
                           Looked(local'[u].status) \in seen[u]
    <3>. SUFFICES ASSUME NEW u \in Thing, step = "get", pc'[u] \in {"leader", "lock", "set"}
                  PROVE  Looked(local'[u].status) \in seen[u]
      OBVIOUS
    <3>1. CASE u = t
      BY <3>1, <2>1, <1>b
    <3>2. CASE u # t
      BY <3>2, <1>a, <1>b DEF StatusIInv, TypeInv, Witnessed
    <3>. QED
      BY <3>1, <3>2
  <2>3. \A u \in Thing : local'[u].leads => u \in led
    BY <1>a, <1>b DEF StatusIInv, TypeInv, Witnessed
  <2>. QED
    BY <1>c, <2>1, <2>2, <2>3 DEF Witnessed, StatusIInv, surroundings, history
<1>6. Honest'
  <2>1. \A u \in Thing : pc'[u] = "done" => pc[u] = "done"
    BY <1>a DEF StatusIInv, TypeInv
  <2>2. DOMAIN map \subseteq Thing
    BY <1>0 DEF StatusIInv, TypeInv
  <2>. QED
    BY <1>a, <1>c, <2>1, <2>2 DEF Honest, StatusIInv, surroundings, history
<1>7. Shown'
  BY <1>0, <1>a, <1>b, <1>c DEF Running, surroundings, history, StatusIInv, TypeInv, Shown
<1>. QED
  BY <1>1, <1>2, <1>3, <1>4, <1>5, <1>6, <1>7 DEF StatusIInv

\* So does an mds that answers whether it leads.
LEMMA GetLeaderPreserves ==
  ASSUME StatusIInv, NEW t \in Thing, GetLeader(t)
  PROVE  StatusIInv'
<1>. USE StatusAssumption, EmptyMap
<1>0. Things' = Things /\ Things \subseteq Thing
  BY DEF GetLeader, Task, GoTo, Running, surroundings, history, Things, Skipped, Thing,
     TypeInv, StatusIInv
<1>a. /\ t \in Thing /\ t \in Things /\ Running /\ pc[t] = "leader"
      /\ pc' = [pc EXCEPT ![t] = "lock"]
  BY DEF GetLeader, Task, GoTo, StatusIInv, TypeInv
<1>b. /\ local' = [local EXCEPT ![t] = local'[t]] /\ local'[t] \in Local
      /\ local'[t].status = local[t].status /\ (local'[t].leads => t = leader)
  BY <1>a DEF GetLeader, StatusIInv, TypeInv, Local
<1>c. UNCHANGED <<surroundings, kind, step, shown, error, history, map, holder>>
  BY DEF GetLeader, Task
<1>1. TypeInv'
  BY <1>0, <1>a, <1>b, <1>c DEF Running, surroundings, history, StatusIInv, TypeInv, PC
<1>2. Tasked'
  BY <1>0, <1>a, <1>b, <1>c DEF Running, surroundings, history, StatusIInv, TypeInv, Tasked, PC
<1>3. Excluded'
  BY <1>0, <1>a, <1>b, <1>c DEF Running, surroundings, history, StatusIInv, TypeInv,
     Excluded, Unseen, Tasked
<1>4. Mapped'
  BY <1>0, <1>a, <1>b, <1>c DEF Running, surroundings, history, StatusIInv, TypeInv, Mapped,
     Tasked, Excluded
<1>5. Witnessed'
  BY <1>0, <1>a, <1>b, <1>c DEF Running, surroundings, history, StatusIInv, TypeInv,
     Witnessed, Tasked
<1>6. Honest'
  BY <1>0, <1>a, <1>b, <1>c DEF Running, surroundings, history, StatusIInv, TypeInv, Honest,
     Of, Looked, Entry, Witnessed, Mapped, Tasked
<1>7. Shown'
  BY <1>0, <1>a, <1>b, <1>c DEF Running, surroundings, history, StatusIInv, TypeInv, Shown
<1>. QED
  BY <1>1, <1>2, <1>3, <1>4, <1>5, <1>6, <1>7 DEF StatusIInv

\* So does one that does not answer.
LEMMA GetLeaderFailsPreserves ==
  ASSUME StatusIInv, NEW t \in Thing, GetLeaderFails(t)
  PROVE  StatusIInv'
<1>. USE StatusAssumption, EmptyMap
<1>0. Things' = Things /\ Things \subseteq Thing
  BY DEF GetLeaderFails, Task, GoTo, Running, surroundings, history, Things, Skipped, Thing,
     TypeInv, StatusIInv
<1>1. TypeInv'
  BY <1>0 DEF GetLeaderFails, Task, GoTo, Running, surroundings, history, StatusIInv,
     TypeInv, PC, Local, State, Entry, Unseen
<1>2. Tasked'
  BY <1>0 DEF GetLeaderFails, Task, GoTo, Running, surroundings, history, StatusIInv,
     TypeInv, Tasked, PC
<1>3. Excluded'
  BY <1>0 DEF GetLeaderFails, Task, GoTo, Running, surroundings, history, StatusIInv,
     TypeInv, Excluded, Unseen, Tasked
<1>4. Mapped'
  BY <1>0 DEF GetLeaderFails, Task, GoTo, Running, surroundings, history, StatusIInv,
     TypeInv, Mapped, Tasked, Excluded
<1>5. Witnessed'
  BY <1>0 DEF GetLeaderFails, Task, GoTo, Running, surroundings, history, StatusIInv,
     TypeInv, Witnessed, Looked, Unseen, State
<1>6. Honest'
  BY <1>0 DEF GetLeaderFails, Task, GoTo, Running, surroundings, history, StatusIInv,
     TypeInv, Honest, Of, Looked, Entry, Witnessed, Mapped, Tasked
<1>7. Shown'
  BY <1>0 DEF GetLeaderFails, Task, GoTo, Running, surroundings, history, StatusIInv,
     TypeInv, Shown
<1>. QED
  BY <1>1, <1>2, <1>3, <1>4, <1>5, <1>6, <1>7 DEF StatusIInv

\* So does the beginning of a transaction.
LEMMA LockPreserves ==
  ASSUME StatusIInv, NEW t \in Thing, Lock(t)
  PROVE  StatusIInv'
<1>. USE StatusAssumption, EmptyMap
<1>0. Things' = Things /\ Things \subseteq Thing
  BY DEF Lock, Task, GoTo, Running, surroundings, history, Things, Skipped, Thing, TypeInv,
     StatusIInv
<1>a. /\ t \in Thing /\ t \in Things /\ Running /\ pc[t] = "lock"
      /\ pc' = [pc EXCEPT ![t] = "set"] /\ holder = Nobody /\ holder' = t
  BY DEF Lock, Task, GoTo, StatusIInv, TypeInv
<1>b. /\ local' = [local EXCEPT ![t] = local'[t]] /\ local'[t] \in Local
      /\ local'[t].status = local[t].status /\ local'[t].leads = local[t].leads
      /\ local'[t].fresh <=> map = NoMap
  BY <1>a DEF Lock, StatusIInv, TypeInv, Local
<1>c. UNCHANGED <<surroundings, kind, step, shown, error, history, map>>
  BY DEF Lock, Task
<1>1. TypeInv'
  BY <1>0, <1>a, <1>b, <1>c DEF Running, surroundings, history, StatusIInv, TypeInv, PC
<1>2. Tasked'
  BY <1>0, <1>a, <1>b, <1>c DEF Running, surroundings, history, StatusIInv, TypeInv, Tasked, PC
<1>3. Excluded'
  BY <1>0, <1>a, <1>b, <1>c DEF Running, surroundings, history, StatusIInv, TypeInv,
     Excluded, Unseen, Tasked
<1>4. Mapped'
  BY <1>0, <1>a, <1>b, <1>c DEF Running, surroundings, history, StatusIInv, TypeInv, Mapped,
     Tasked, Excluded
<1>5. Witnessed'
  BY <1>0, <1>a, <1>b, <1>c DEF Running, surroundings, history, StatusIInv, TypeInv,
     Witnessed, Tasked
<1>6. Honest'
  BY <1>0, <1>a, <1>b, <1>c DEF Running, surroundings, history, StatusIInv, TypeInv, Honest,
     Of, Looked, Entry, Witnessed, Mapped, Tasked
<1>7. Shown'
  BY <1>0, <1>a, <1>b, <1>c DEF Running, surroundings, history, StatusIInv, TypeInv, Shown
<1>. QED
  BY <1>1, <1>2, <1>3, <1>4, <1>5, <1>6, <1>7 DEF StatusIInv

\* So does the write that ends it: the map found under the lock is the map still.
LEMMA SetStatusPreserves ==
  ASSUME StatusIInv, NEW t \in Thing, SetStatus(t)
  PROVE  StatusIInv'
<1>. USE StatusAssumption, EmptyMap
<1>0. Things' = Things /\ Things \subseteq Thing
  BY DEF SetStatus, Task, GoTo, Running, surroundings, history, Format, Things, Skipped,
     Thing, TypeInv, StatusIInv
<1>a. /\ t \in Thing /\ t \in Things /\ Running /\ pc[t] = "set"
      /\ pc' = [pc EXCEPT ![t] = "done"]
  BY DEF SetStatus, Task, GoTo, StatusIInv, TypeInv
<1>b. map' = [u \in DOMAIN map \cup {t} |-> IF u = t THEN Format(t) ELSE map[u]]
  <2>1. local[t].fresh <=> map = NoMap
    BY <1>a DEF StatusIInv, Excluded
  <2>2. CASE local[t].fresh
    BY <2>1, <2>2 DEF SetStatus
  <2>3. CASE ~ local[t].fresh
    BY <2>3 DEF SetStatus
  <2>. QED
    BY <2>2, <2>3
<1>c. UNCHANGED <<surroundings, kind, step, shown, error, history>>
  BY DEF SetStatus, Task
<1>d. /\ Format(t) \in Entry
      /\ Format(t).leads => t \in led
      /\ IF step = "init" THEN Format(t).status = "Unknown"
         ELSE Format(t).status # "Unknown" /\ Of(Format(t).status) \in seen[t]
  <2>1. local[t] \in Local
    BY <1>a DEF StatusIInv, TypeInv
  <2>2. local[t].leads => t \in led
    BY <1>a DEF StatusIInv, Witnessed
  <2>3. CASE step = "init"
    BY <2>3 DEF Format, Entry
  <2>4. CASE step = "get"
    <3>1. Looked(local[t].status) \in seen[t]
      BY <1>a, <2>4 DEF StatusIInv, Witnessed
    <3>2. t \in Service /\ row[t] = "cleaned" => "gone" \in seen[t]
      BY <1>a, <2>4 DEF StatusIInv, Witnessed
    <3>. QED
      BY <2>1, <2>2, <2>4, <3>1, <3>2 DEF Format, Entry, Local, Looked, Of
  <2>. QED
    BY <1>a, <2>3, <2>4 DEF Running
<1>1. TypeInv'
  BY <1>0 DEF SetStatus, Task, GoTo, Running, surroundings, history, Format, StatusIInv,
     TypeInv, PC, Local, State, Entry, Unseen
<1>2. Tasked'
  BY <1>0 DEF SetStatus, Task, GoTo, Running, surroundings, history, Format, StatusIInv,
     TypeInv, Tasked, PC
<1>3. Excluded'
  BY <1>0 DEF SetStatus, Task, GoTo, Running, surroundings, history, Format, StatusIInv,
     TypeInv, Excluded, Unseen, Tasked
<1>4. Mapped'
  <2>1. {u \in Things : pc'[u] = "done"} = {u \in Things : pc[u] = "done"} \cup {t}
    BY <1>0, <1>a DEF StatusIInv, TypeInv
  <2>2. DOMAIN map' = DOMAIN map \cup {t}
    BY <1>b
  <2>. QED
    BY <1>0, <1>a, <1>c, <2>1, <2>2 DEF Running, Mapped, StatusIInv
<1>5. Witnessed'
  BY <1>0 DEF SetStatus, Task, GoTo, Running, surroundings, history, Format, StatusIInv,
     TypeInv, Witnessed, Looked, Unseen, State
<1>6. Honest'
  <2>. SUFFICES ASSUME NEW u \in DOMAIN map'
                PROVE  /\ map'[u].leads => u \in led
                       /\ IF map'[u].status = "Unknown" THEN step = "get" => pc'[u] # "done"
                          ELSE Of(map'[u].status) \in seen[u]
    BY <1>a, <1>c DEF Honest, Running, history
  <2>1. CASE u = t
    <3>1. map'[u] = Format(t)
      BY <1>b, <2>1
    <3>2. Format(t).leads => u \in led
      BY <1>d, <2>1
    <3>3. IF Format(t).status = "Unknown" THEN step = "get" => pc'[u] # "done"
          ELSE Of(Format(t).status) \in seen[u]
      BY <1>d, <2>1
    <3>. QED
      BY <3>1, <3>2, <3>3, Zenon
  <2>2. CASE u # t
    <3>1. u \in DOMAIN map /\ map'[u] = map[u] /\ pc'[u] = pc[u] /\ u \in Thing
      BY <1>0, <1>a, <1>b, <2>2 DEF StatusIInv, TypeInv
    <3>. QED
      BY <3>1 DEF Honest, StatusIInv
  <2>. QED
    BY <2>1, <2>2
<1>7. Shown'
  BY <1>0 DEF SetStatus, Task, GoTo, Running, surroundings, history, Format, StatusIInv,
     TypeInv, Shown
<1>. QED
  BY <1>1, <1>2, <1>3, <1>4, <1>5, <1>6, <1>7 DEF StatusIInv

-----------------------------------------------------------------------------
(* Meanwhile. *)

\* A change of the surroundings preserves it, as long as no container comes back that
\* was removed and no host that failed.
LEMMA ChangedPreserves ==
  ASSUME StatusIInv, NEW s \in [Thing -> State], NEW l, NEW d \in SUBSET Thing,
         Changed(s, l, d), down \subseteq d,
         \A t \in Thing : state[t] = "gone" => s[t] = "gone"
  PROVE  StatusIInv'
<1>. USE StatusAssumption, EmptyMap
<1>0. Things' = Things /\ Things \subseteq Thing
  BY DEF Changed, See, Running, Things, Skipped, Thing, TypeInv, StatusIInv
<1>1. TypeInv'
  BY <1>0 DEF Changed, See, Running, StatusIInv, TypeInv, PC, Local, State, Entry, Unseen
<1>2. Tasked'
  BY <1>0 DEF Changed, See, Running, StatusIInv, TypeInv, Tasked, PC
<1>3. Excluded'
  BY <1>0 DEF Changed, See, Running, StatusIInv, TypeInv, Excluded, Unseen, Tasked
<1>4. Mapped'
  BY <1>0 DEF Changed, See, Running, StatusIInv, TypeInv, Mapped, Tasked, Excluded
<1>5. Witnessed'
  BY <1>0 DEF Changed, See, Running, StatusIInv, TypeInv, Witnessed, Thing, surroundings
<1>6. Honest'
  BY <1>0 DEF Changed, See, Running, StatusIInv, TypeInv, Honest, Of, Looked, Entry,
     Witnessed, Mapped, Tasked
<1>7. Shown'
  BY <1>0 DEF Changed, See, Running, StatusIInv, TypeInv, Shown
<1>. QED
  BY <1>1, <1>2, <1>3, <1>4, <1>5, <1>6, <1>7 DEF StatusIInv

\* Containers that end, start or are removed and hosts that fail are such changes.
LEMMA SurroundingsPreserve ==
  ASSUME StatusIInv, NEW t \in Thing,
         ContainerExits(t) \/ ContainerStarts(t) \/ ContainerRemoved(t) \/ HostFails(t)
  PROVE  StatusIInv'
<1>. DEFINE Keeps(s, d) ==
       /\ s \in [Thing -> State] /\ d \in SUBSET Thing /\ down \subseteq d
       /\ \A u \in Thing : state[u] = "gone" => s[u] = "gone"
<1>1. /\ state \in [Thing -> State] /\ down \subseteq Thing /\ Things \subseteq Thing
  BY DEF StatusIInv, TypeInv, Things, Thing, Skipped
<1>2. CASE ContainerExits(t)
  <2>1. Keeps([state EXCEPT ![t] = "Exited"], down)
    BY <1>1, <1>2 DEF ContainerExits, State
  <2>. QED
    BY <1>2, <2>1, ChangedPreserves DEF ContainerExits
<1>3. CASE ContainerStarts(t)
  <2>1. Keeps([state EXCEPT ![t] = "Up"], down)
    BY <1>1, <1>3 DEF ContainerStarts, State
  <2>. QED
    BY <1>3, <2>1, ChangedPreserves DEF ContainerStarts
<1>4. CASE ContainerRemoved(t)
  <2>1. Keeps([state EXCEPT ![t] = "gone"], down)
    BY <1>1, <1>4 DEF ContainerRemoved, State
  <2>. QED
    BY <1>4, <2>1, ChangedPreserves DEF ContainerRemoved
<1>5. CASE HostFails(t)
  <2>1. Keeps(state, down \cup {t})
    BY <1>1, <1>5 DEF HostFails
  <2>. QED
    BY <1>5, <2>1, ChangedPreserves DEF HostFails
<1>. QED
  BY <1>2, <1>3, <1>4, <1>5

\* So is an election.
LEMMA ElectsPreserves ==
  ASSUME StatusIInv, NEW m \in Mds, Elects(m)
  PROVE  StatusIInv'
  BY ChangedPreserves DEF Elects, StatusIInv, TypeInv

-----------------------------------------------------------------------------

\* Every step preserves the invariant.
LEMMA NextPreserves == StatusIInv /\ [Next]_vars => StatusIInv'
<1>. SUFFICES ASSUME StatusIInv, [Next]_vars PROVE StatusIInv'
  OBVIOUS
<1>1. CASE Begin
  BY <1>1, BeginPreserves
<1>2. CASE StepEnds
  BY <1>2, StepEndsPreserves
<1>3. CASE Display
  BY <1>3, DisplayPreserves
<1>4. ASSUME NEW t \in Thing,
             \/ ListContainers(t) \/ GetLeader(t) \/ GetLeaderFails(t)
             \/ Lock(t) \/ SetStatus(t)
      PROVE  StatusIInv'
  BY <1>4, ListContainersPreserves, GetLeaderPreserves, GetLeaderFailsPreserves,
     LockPreserves, SetStatusPreserves
<1>5. ASSUME NEW t \in Thing,
             \/ ContainerExits(t) \/ ContainerStarts(t) \/ ContainerRemoved(t)
             \/ HostFails(t)
      PROVE  StatusIInv'
  BY <1>5, SurroundingsPreserve
<1>6. ASSUME NEW m \in Mds, Elects(m)
      PROVE  StatusIInv'
  BY <1>6, ElectsPreserves
<1>7. CASE UNCHANGED vars
  BY <1>7 DEF vars, surroundings, history, StatusIInv, TypeInv, Things, Skipped, Tasked, Excluded,
              Mapped, Witnessed, Honest, Shown
<1>. QED
  BY <1>1, <1>2, <1>3, <1>4, <1>5, <1>6, <1>7 DEF Next

\* In every state of every run of the commands the invariant holds.
THEOREM Invariance == Spec => []StatusIInv
<1>1. Init => StatusIInv
  BY InitStatusIInv
<1>2. StatusIInv /\ [Next]_vars => StatusIInv'
  BY NextPreserves
<1>. QED
  BY <1>1, <1>2, PTL DEF Spec

\* A line says RUNNING only if every replica on it is up.
LEMMA MergedRunning ==
  ASSUME NEW ts, Merged(ts) = "RUNNING"
  PROVE  \A t \in ts : shown[t].status = "Up"
<1>. DEFINE Common == {"Cleaned", "Losed", "Unknown"}
            All(v) == \A t \in ts : shown[t].status = v
<1>. SUFFICES ASSUME ~ All("Up") PROVE FALSE
  OBVIOUS
<1>1. ~ All("Exited")
  BY DEF Merged
<1>2. \E v \in Common : All(v)
  BY <1>1 DEF Merged
<1>3. Merged(ts) = CHOOSE v \in Common : All(v)
  BY <1>1, <1>2 DEF Merged
<1>4. Merged(ts) \in Common
  <2>. HIDE DEF All, Common
  <2>. QED
    BY <1>2, <1>3
<1>. QED
  BY <1>4

\* The invariant implies that what is displayed is true.
LEMMA IInvShownTrue == StatusIInv => ShownTrue
<1>. SUFFICES ASSUME StatusIInv, Displayed PROVE EntriesTrue /\ LinesTrue
  BY DEF ShownTrue
<1>. USE DEF StatusIInv, Displayed
<1>1. shown = map /\ DOMAIN shown = Things
  BY DEF Shown, Mapped
<1>2. EntriesTrue
  BY <1>1 DEF EntriesTrue, Honest
<1>3. LinesTrue
  <2>. SUFFICES ASSUME NEW s \in Things, Merged(Replicas(Parent[s])) = "RUNNING",
                       NEW r \in Things, Parent[r] = Parent[s]
                PROVE  "Up" \in seen[r]
    BY DEF LinesTrue
  <2>1. r \in Replicas(Parent[s])
    BY <1>1 DEF Replicas
  <2>2. shown[r].status = "Up"
    BY <2>1, MergedRunning
  <2>. QED
    BY <1>2, <2>2 DEF EntriesTrue, Of
<1>. QED
  BY <1>2, <1>3

\* The transactions of the memory storage exclude each other (SafeMap.TX): of the tasks
\* that run at the same time, at most one is between reading the map and writing it.
THEOREM OneWriter ==
  Spec => [](\A t, u \in Thing : pc[t] = "set" /\ pc[u] = "set" => t = u)
<1>1. StatusIInv => \A t, u \in Thing : pc[t] = "set" /\ pc[u] = "set" => t = u
  BY DEF StatusIInv, Excluded
<1>. QED
  BY <1>1, Invariance, PTL

\* What is displayed has been the case while the command ran: every service (client)
\* that has a container has an entry, which tells a state its container was in, or
\* Unknown if its host failed, and then the command fails; an mds shown as leader has
\* led; and a deploy is RUNNING only if each replica has been up.
THEOREM StatusIsTrue == Spec => []ShownTrue
<1>1. StatusIInv => ShownTrue
  BY IInvShownTrue
<1>. QED
  BY <1>1, Invariance, PTL

=============================================================================
