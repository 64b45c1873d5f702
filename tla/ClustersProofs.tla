---------------------------- MODULE ClustersProofs ----------------------------
(***************************************************************************)
(* Proofs about the commands on the tables of clusters and services        *)
(* (module Clusters) together with the process that runs them, its audit   *)
(* record and the version prompt (module Invocation), for any number of    *)
(* clusters and services, any names and any relation Like between them.    *)
(*                                                                         *)
(* The inductive invariant has seven parts. Three are about the process:   *)
(* IntroType; Audited, that the row of a command that no longer runs tells *)
(* how it ended; Asked, that versions are recorded and offered in          *)
(* increasing order and never twice on a day. Four are about the tables:   *)
(* TablesType; Unique, where a name that another one matches has the       *)
(* greater id, because nobody can add a cluster whose name an existing one *)
(* matches; CommandType; and Progress, what the steps already taken by     *)
(* export, import, deploy or clean have achieved, however the tables were  *)
(* before.                                                                 *)
(***************************************************************************)
EXTENDS Clusters, SequenceTheorems, WellFoundedInduction, TLAPS

-----------------------------------------------------------------------------
(* The invariant. *)

\* Where a process is before its command.
Before == {"upgrade", "note", "prompt", "preAudit"}
\* How a command ends.
Result == {"success", "fail", "cancel"}
\* What a row of the audit table says: "abort" until the command has ended.
AuditStatus == Result \cup {"abort"}
\* What became of an audited command.
Fate == Result \cup {"running", "died", "unrecorded"}

\* Types of the variables of Invocation.
IntroType ==
  /\ day \in Nat /\ latest \in Nat /\ installed \in Nat
  /\ version \in [version : Nat, confirmed : Nat]
  /\ process \in [at : {"none", "command", "postAudit"} \cup Before, audited : BOOLEAN,
                  pending : Nat, today : Nat, id : Nat, result : Result \cup {"none"}]
  /\ detect \in [at : {"fetch", "compare", "write", "done"}, found : Nat]
  /\ audit \in Seq(AuditStatus) /\ fate \in Seq(Fate)
  /\ asked \subseteq Nat \X Nat

\* What the i-th row says of the i-th command that was audited.
Recorded1(i) ==
  IF i = process.id
  THEN audit[i] = "abort" /\ fate[i] = IF At("postAudit") THEN process.result ELSE "running"
  ELSE IF audit[i] = "abort" THEN fate[i] \in {"died", "unrecorded"} ELSE fate[i] = audit[i]

\* The audit table against what happened: one row for each command, and the row of
\* the process, if it has one, has not been written to yet.
Audited ==
  /\ Len(fate) = Len(audit)
  /\ process.id \in 0 .. Len(audit)
  /\ process.id # None => process.at \in {"command", "postAudit"}
  /\ At("postAudit") => process.result \in Result
  /\ \A i \in 1 .. Len(audit) : Recorded1(i)

\* The version table against what the user was asked: a version is in it before the
\* user is asked, with the day, and neither goes back; what the goroutine of Detect is
\* about to write is newer than what it read.
Asked ==
  /\ version.version <= latest /\ version.confirmed <= day
  /\ \A q \in asked : q[1] <= version.version /\ q[2] <= day
  /\ \A q \in asked : q[1] = version.version => q[2] <= version.confirmed
  /\ detect.at \in {"compare", "write"} =>
       version.version <= detect.found /\ detect.found <= latest
  /\ detect.at = "write" => version.version # detect.found
  /\ At("note") =>
       /\ process.pending <= version.version /\ process.today <= day
       /\ \A q \in asked : q[1] <= process.pending /\ q[2] <= process.today
       /\ <<process.pending, process.today>> \notin asked
       /\ detect.at # "done" => version.version = process.pending

\* A service in an exported file.
FileRow == [id : (None .. MaxClusters) \X Service, active : BOOLEAN]
\* The commands.
Ops == {"none", "add", "checkout", "rm", "export", "import", "hosts", "deploy", "clean",
        "update", "audit"}

\* Types of the tables and of the file; no row refers to a cluster that was never
\* added.
TablesType ==
  /\ clusters \subseteq [id : 1 .. (next - 1), name : Name, topology : Topologies,
                         current : BOOLEAN]
  /\ next \in 1 .. MaxClusters + 1
  /\ services \subseteq [id : (None .. MaxClusters) \X Service, cluster : 1 .. (next - 1),
                         active : BOOLEAN]
  /\ hosts \in ValidHosts \cup {None}
  /\ file \in [topology : Topologies, services : SUBSET FileRow, broken : BOOLEAN]

\* No two clusters have the same id or the same name, or are both current, and of two
\* clusters the one whose name is matched by the other's was added earlier.
UniqueRows(rows) ==
  /\ \A c, d \in rows : c.id = d.id \/ c.name = d.name => c = d
  /\ \A c, d \in rows : c.current = TRUE /\ d.current = TRUE => c = d
  /\ \A c, d \in rows : <<c.name, d.name>> \in Like /\ c # d => d.id < c.id

\* Nor do two services have the same id.
Unique == UniqueRows(clusters) /\ \A r, s \in services : r.id = s.id => r = s

\* What is known of the command that runs, and where it can be.
CommandType ==
  /\ cmd = [op |-> cmd.op, name |-> cmd.name, data |-> cmd.data, force |-> cmd.force,
            opened |-> cmd.opened, hosts |-> cmd.hosts, step |-> cmd.step, left |-> cmd.left]
  /\ cmd.op \in Ops /\ cmd.opened \in Nat /\ cmd.step \in 1 .. 3
  /\ ~ Alive => cmd = NoCommand
  /\ cmd.op \in {"add", "checkout", "rm", "export", "import"} => cmd.name \in Name
  /\ cmd.op = "add" => cmd.data \in Topologies
  /\ cmd.opened < next
  /\ process.at \in Before => cmd.step = 1
  /\ cmd.step = 1 => cmd.left \in {{}, Service}
  /\ cmd.op \in {"deploy", "clean"} => cmd.left \subseteq Service /\ cmd.step < 3
  /\ cmd.op \in {"import", "export"} /\ cmd.step > 1 => cmd.left \subseteq FileRow

\* What export writes of a cluster.
ExportedOf(c) == {Exported(r) : r \in GetServices(c.id)}

\* What the steps of a command have achieved: the file of an export has the services
\* that are not left, an imported cluster those of the file that are not left, and the
\* services that deploy or clean is through with have the status it gives.
Progress ==
  /\ Is("export") /\ cmd.step \in {2, 3} =>
       /\ Taken(cmd.name) /\ ~ file.broken
       /\ file.services \cup cmd.left = ExportedOf(First(cmd.name))
       /\ cmd.step = 3 => file.topology = First(cmd.name).topology
  /\ Is("import") /\ cmd.step = 2 =>
       \E c \in clusters :
         /\ Matching(cmd.name) = {c} /\ c.name = cmd.name /\ c.topology = file.topology
         /\ ExportedOf(c) \cup cmd.left = file.services
  /\ (Is("deploy") \/ Is("clean")) /\ cmd.step = 2 =>
       /\ cmd.opened # None
       /\ \A s \in Service \ cmd.left :
            \E r \in services : r.id = ServiceId(s) /\ r.active = (cmd.op = "deploy")

\* The inductive invariant.
ClustersIInv ==
  /\ IntroType /\ Audited /\ Asked
  /\ TablesType /\ Unique /\ CommandType /\ Progress

-----------------------------------------------------------------------------
(* The process, its goroutine, the version table and the audit table. *)

\* The part of it about the process.
Invoc == IntroType /\ Audited /\ Asked

\* A step that leaves the process where it is.
SameProcess == UNCHANGED <<release, version, process, detect, log, asked>>

\* What a step of the program is for the variables of Invocation.
ProcessStep ==
  \/ Surroundings \/ (\E b \in BOOLEAN : Start(b)) \/ (\E r \in Result : Return(r))
  \/ Panic \/ Kill \/ SelfUpgrade \/ SameProcess

\* A sequence with one element replaced, if its index is one.
LEMMA UpdatedSeq ==
  ASSUME NEW S, NEW s \in Seq(S), NEW i \in 0 .. Len(s), NEW e \in S,
         NEW t, t = IF i = None THEN s ELSE [s EXCEPT ![i] = e]
  PROVE  /\ t \in Seq(S) /\ Len(t) = Len(s)
         /\ \A j \in 1 .. Len(s) : t[j] = IF j = i THEN e ELSE s[j]
<1>1. CASE i = None
  BY <1>1 DEF None
<1>2. CASE i # None
  <2>1. i \in 1 .. Len(s)
    BY <1>2 DEF None
  <2>. QED
    BY <1>2, <2>1, ExceptSeq
<1>. QED
  BY <1>1, <1>2

\* What Becomes does to the fate of the command: only that of this process changes.
LEMMA BecomesFate ==
  ASSUME Invoc, NEW what \in Fate, Becomes(what)
  PROVE  /\ fate' \in Seq(Fate) /\ Len(fate') = Len(fate)
         /\ \A i \in 1 .. Len(fate) : fate'[i] = IF i = process.id THEN what ELSE fate[i]
<1>1. fate \in Seq(Fate) /\ process.id \in 0 .. Len(fate)
  BY DEF Invoc, IntroType, Audited
<1>2. fate' = IF process.id = None THEN fate ELSE [fate EXCEPT ![process.id] = what]
  BY DEF Becomes
<1>. QED
  BY <1>1, <1>2, UpdatedSeq DEF None

\* Every step preserves the types of Invocation.
LEMMA InvocIntroType ==
  ASSUME Invoc, ProcessStep
  PROVE  IntroType'
<1>. USE InvocationAssumption DEF Invoc, IntroType, Before, Result, At, Alive, NoDetect,
         NoProcess, NoVersion, None, Never, release, log
<1>1. CASE DetectFetch
  BY <1>1 DEF DetectFetch, Detect
<1>2. CASE DetectCompare
  BY <1>2 DEF DetectCompare, Detect
<1>3. CASE DetectWrite
  BY <1>3 DEF DetectWrite, Detect
<1>4. CASE DetectFails
  BY <1>4 DEF DetectFails, Detect
<1>5. CASE UpgradeRead
  BY <1>5 DEF UpgradeRead, Main, Offered
<1>6. CASE UpgradeReadFails
  BY <1>6 DEF UpgradeReadFails, Main, GoTo
<1>7. CASE UpgradeNote
  <2>1. <<process.pending, process.today>> \in Nat \X Nat
    OBVIOUS
  <2>2. /\ version' = [version |-> process.pending, confirmed |-> process.today]
        /\ process' = [process EXCEPT !.at = "prompt"]
        /\ asked' = asked \cup {<<process.pending, process.today>>}
        /\ UNCHANGED <<release, log, commands, detect>>
    BY <1>7 DEF UpgradeNote, Main, GoTo
  <2>. QED
    BY <2>1, <2>2
<1>8. CASE UpgradeNoteFails
  BY <1>8 DEF UpgradeNoteFails, Main, GoTo
<1>9. CASE UpgradeDeclined
  BY <1>9 DEF UpgradeDeclined, Main, Exit
<1>10. CASE UpgradeAccepted
  BY <1>10 DEF UpgradeAccepted, Exit
<1>11. CASE PreAudit
  <2>1. /\ Append(audit, "abort") \in Seq(AuditStatus)
        /\ Append(fate, "running") \in Seq(Fate)
    BY AppendProperties DEF AuditStatus, Fate
  <2>2. Len(audit) + 1 \in Nat
    BY LenProperties
  <2>. QED
    BY <1>11, <2>1, <2>2 DEF PreAudit
<1>12. CASE NoAudit
  BY <1>12 DEF NoAudit, Main, GoTo
<1>13. CASE PreAuditFails
  BY <1>13 DEF PreAuditFails, Main, GoTo
<1>14. CASE PostAudit
  <2>1. process.id \in 0 .. Len(audit) /\ process.result \in AuditStatus
    BY <1>14 DEF PostAudit, AuditStatus, Audited
  <2>2. audit' \in Seq(AuditStatus)
    BY <1>14, <2>1, UpdatedSeq DEF PostAudit, Status
  <2>. QED
    BY <1>14, <2>2 DEF PostAudit, Exit
<1>15. CASE PostAuditFails
  BY <1>15, BecomesFate DEF PostAuditFails, Exit, Fate
<1>16. CASE Kill
  BY <1>16, BecomesFate DEF Kill, Exit, Fate
<1>17. CASE NextDay
  BY <1>17 DEF NextDay
<1>18. CASE Publish
  BY <1>18 DEF Publish
<1>19. CASE Panic
  BY <1>19, BecomesFate DEF Panic, Exit, Fate
<1>20. CASE SelfUpgrade
  BY <1>20, BecomesFate DEF SelfUpgrade, Fate
<1>21. CASE SameProcess
  BY <1>21 DEF SameProcess
<1>22. CASE \E b \in BOOLEAN : Start(b)
  <2>. PICK b \in BOOLEAN : Start(b)
    BY <1>22
  <2>1. process' = [at |-> IF AutoUpgrade THEN "upgrade" ELSE "preAudit", audited |-> b,
                    pending |-> 0, today |-> 0, id |-> 0, result |-> "none"]
    BY DEF Start
  <2>2. detect' = [at |-> "fetch", found |-> 0]
    BY DEF Start
  <2>3. UNCHANGED <<release, version, log, asked>>
    BY DEF Start
  <2>. QED
    BY <2>1, <2>2, <2>3
<1>23. CASE \E r \in Result : Return(r)
  BY <1>23, BecomesFate DEF Return, Fate
<1>. QED
  BY <1>1, <1>2, <1>3, <1>4, <1>5, <1>6, <1>7, <1>8, <1>9, <1>10, <1>11, <1>12, <1>13, <1>14,
     <1>15, <1>16, <1>17, <1>18, <1>19, <1>20, <1>21, <1>22, <1>23 DEF ProcessStep, Surroundings

\* Every step preserves the truth of the audit table: only the command that runs has a
\* row that is not final.
LEMMA InvocAudited ==
  ASSUME Invoc, ProcessStep
  PROVE  Audited'
<1>. USE InvocationAssumption DEF Invoc, Audited, Result, IntroType, Recorded1, Before, At,
         Alive, NoDetect, NoProcess, NoVersion, None, Never, release, log
<1>1. CASE DetectFetch
  BY <1>1 DEF DetectFetch, Detect
<1>2. CASE DetectCompare
  BY <1>2 DEF DetectCompare, Detect
<1>3. CASE DetectWrite
  BY <1>3 DEF DetectWrite, Detect
<1>4. CASE DetectFails
  BY <1>4 DEF DetectFails, Detect
<1>5. CASE UpgradeRead
  BY <1>5 DEF UpgradeRead, Main, Offered
<1>6. CASE UpgradeReadFails
  BY <1>6 DEF UpgradeReadFails, Main, GoTo
<1>7. CASE UpgradeNote
  BY <1>7 DEF UpgradeNote, Main, GoTo
<1>8. CASE UpgradeNoteFails
  BY <1>8 DEF UpgradeNoteFails, Main, GoTo
<1>9. CASE UpgradeDeclined
  BY <1>9 DEF UpgradeDeclined, Main, Exit
<1>10. CASE UpgradeAccepted
  BY <1>10 DEF UpgradeAccepted, Exit
<1>11. CASE PreAudit
  BY <1>11 DEF PreAudit
<1>12. CASE NoAudit
  BY <1>12 DEF NoAudit, Main, GoTo
<1>13. CASE PreAuditFails
  BY <1>13 DEF PreAuditFails, Main, GoTo
<1>14. CASE PostAudit
  <2>1. process.id \in 0 .. Len(audit) /\ process.result \in AuditStatus
    BY <1>14 DEF PostAudit, AuditStatus
  <2>2. /\ Len(audit') = Len(audit)
        /\ \A i \in 1 .. Len(audit) :
             audit'[i] = IF i = process.id THEN process.result ELSE audit[i]
    BY <1>14, <2>1, UpdatedSeq DEF PostAudit, Status
  <2>. QED
    BY <1>14, <2>2 DEF PostAudit, Exit
<1>15. CASE PostAuditFails
  BY <1>15, BecomesFate DEF PostAuditFails, Exit, Fate
<1>16. CASE Kill
  BY <1>16, BecomesFate DEF Kill, Exit, Fate
<1>17. CASE NextDay
  BY <1>17 DEF NextDay
<1>18. CASE Publish
  BY <1>18 DEF Publish
<1>19. CASE Panic
  BY <1>19, BecomesFate DEF Panic, Exit, Fate
<1>20. CASE SelfUpgrade
  <2>. PICK result \in {"success", "fail"} :
         /\ process' = [process EXCEPT !.at = "postAudit", !.result = result]
         /\ Becomes(result)
    BY <1>20 DEF SelfUpgrade
  <2>1. /\ Len(fate') = Len(fate)
        /\ \A i \in 1 .. Len(fate) : fate'[i] = IF i = process.id THEN result ELSE fate[i]
    BY BecomesFate DEF Fate
  <2>2. UNCHANGED audit
    BY <1>20 DEF SelfUpgrade
  <2>. QED
    BY <2>1, <2>2
<1>21. CASE SameProcess
  BY <1>21 DEF SameProcess
<1>22. CASE \E b \in BOOLEAN : Start(b)
  BY <1>22 DEF Start
<1>23. CASE \E r \in Result : Return(r)
  <2>. PICK r \in Result : Return(r)
    BY <1>23
  <2>1. /\ Len(fate') = Len(fate)
        /\ \A i \in 1 .. Len(fate) : fate'[i] = IF i = process.id THEN r ELSE fate[i]
    BY BecomesFate DEF Fate, Return
  <2>2. UNCHANGED audit /\ process' = [process EXCEPT !.at = "postAudit", !.result = r]
    BY DEF Return
  <2>. QED
    BY <2>1, <2>2
<1>. QED
  BY <1>1, <1>2, <1>3, <1>4, <1>5, <1>6, <1>7, <1>8, <1>9, <1>10, <1>11, <1>12, <1>13, <1>14,
     <1>15, <1>16, <1>17, <1>18, <1>19, <1>20, <1>21, <1>22, <1>23 DEF ProcessStep, Surroundings

\* Every step preserves what is known of the versions asked for.
LEMMA InvocAsked ==
  ASSUME Invoc, ProcessStep
  PROVE  Asked'
<1>. USE InvocationAssumption DEF Invoc, Asked, IntroType, Before, Result, At, Alive,
         NoDetect, NoProcess, NoVersion, None, Never, release, log
<1>1. CASE DetectFetch
  BY <1>1 DEF DetectFetch, Detect
<1>2. CASE DetectCompare
  BY <1>2 DEF DetectCompare, Detect
<1>3. CASE DetectWrite
  BY <1>3 DEF DetectWrite, Detect
<1>4. CASE DetectFails
  BY <1>4 DEF DetectFails, Detect
<1>5. CASE UpgradeRead
  BY <1>5 DEF UpgradeRead, Main, Offered
<1>6. CASE UpgradeReadFails
  BY <1>6 DEF UpgradeReadFails, Main, GoTo
<1>7. CASE UpgradeNote
  BY <1>7 DEF UpgradeNote, Main, GoTo
<1>8. CASE UpgradeNoteFails
  BY <1>8 DEF UpgradeNoteFails, Main, GoTo
<1>9. CASE UpgradeDeclined
  BY <1>9 DEF UpgradeDeclined, Main, Exit
<1>10. CASE UpgradeAccepted
  BY <1>10 DEF UpgradeAccepted, Exit
<1>11. CASE PreAudit
  BY <1>11 DEF PreAudit
<1>12. CASE NoAudit
  BY <1>12 DEF NoAudit, Main, GoTo
<1>13. CASE PreAuditFails
  BY <1>13 DEF PreAuditFails, Main, GoTo
<1>14. CASE PostAudit
  BY <1>14 DEF PostAudit, Exit, Status
<1>15. CASE PostAuditFails
  BY <1>15, BecomesFate DEF PostAuditFails, Exit, Fate
<1>16. CASE Kill
  BY <1>16, BecomesFate DEF Kill, Exit, Fate
<1>17. CASE NextDay
  BY <1>17 DEF NextDay
<1>18. CASE Publish
  BY <1>18 DEF Publish
<1>19. CASE Panic
  BY <1>19, BecomesFate DEF Panic, Exit, Fate
<1>20. CASE SelfUpgrade
  BY <1>20, BecomesFate DEF SelfUpgrade, Fate
<1>21. CASE SameProcess
  BY <1>21 DEF SameProcess
<1>22. CASE \E b \in BOOLEAN : Start(b)
  BY <1>22 DEF Start
<1>23. CASE \E r \in Result : Return(r)
  BY <1>23, BecomesFate DEF Return, Fate
<1>. QED
  BY <1>1, <1>2, <1>3, <1>4, <1>5, <1>6, <1>7, <1>8, <1>9, <1>10, <1>11, <1>12, <1>13, <1>14,
     <1>15, <1>16, <1>17, <1>18, <1>19, <1>20, <1>21, <1>22, <1>23 DEF ProcessStep, Surroundings

-----------------------------------------------------------------------------
(* The tables. *)

\* A set of natural numbers that is not empty has a least element.
LEMMA LeastId ==
  ASSUME NEW T \in SUBSET Nat, T # {}
  PROVE  \E m \in T : \A n \in T : m <= n
<1>1. PICK m \in T : \A n \in T : ~ (<<n, m>> \in OpToRel(<, Nat))
  BY NatLessThanWellFounded, WFMin
<1>2. \A n \in T : ~ (n < m)
  BY <1>1 DEF OpToRel
<1>. QED
  BY <1>2

\* What GetClusters gives first is a match, and the oldest.
LEMMA FirstMatches ==
  ASSUME TablesType, NEW name, Taken(name)
  PROVE  /\ First(name) \in Matching(name) /\ First(name) \in clusters
         /\ \A d \in Matching(name) : First(name).id <= d.id
<1>. DEFINE Ids == {c.id : c \in Matching(name)}
<1>1. Ids \subseteq Nat
  <2>1. \A c \in Matching(name) : c.id \in Nat
    BY DEF TablesType, Matching
  <2>. QED
    BY <2>1
<1>0. Ids # {}
  BY DEF Matching, Taken
<1>2. PICK m \in Ids : \A n \in Ids : m <= n
  BY <1>0, <1>1, LeastId
<1>3. \E c \in Matching(name) : \A d \in Matching(name) : c.id <= d.id
  <2>1. PICK c \in Matching(name) : c.id = m
    OBVIOUS
  <2>2. \A d \in Matching(name) : d.id \in Ids
    OBVIOUS
  <2>. QED
    BY <1>2, <2>1, <2>2
<1>. QED
  BY <1>3 DEF First, Matching

\* Asked for the name of a cluster, GetClusters gives that cluster first, although
\* others may match: they were added later. Commands that take the first row (checkout,
\* rm, export) rely on it.
LEMMA FirstIsNamed ==
  ASSUME TablesType, Unique, NEW c \in clusters
  PROVE  Taken(c.name) /\ First(c.name) = c
<1>1. c \in Matching(c.name)
  BY ClustersAssumption DEF Matching, TablesType
<1>2. \A d \in Matching(c.name) : d # c => c.id < d.id
  BY DEF Matching, Unique, UniqueRows
<1>3. First(c.name) \in Matching(c.name) /\ First(c.name).id <= c.id
  BY <1>1, FirstMatches DEF Taken
<1>4. c.id \in Nat /\ First(c.name).id \in Nat
  BY <1>3 DEF TablesType, Matching
<1>. QED
  BY <1>1, <1>2, <1>3, <1>4 DEF Taken

\* The part of the invariant about the tables and the command.
Tables == TablesType /\ Unique /\ CommandType /\ Progress

\* The steps of the commands.
CommandSteps ==
  \/ Add \/ Checkout \/ Remove \/ CommitHosts \/ Audit \/ Update
  \/ CallFails \/ ExportOpen \/ ExportCluster \/ ExportService \/ ExportEnds \/ ExportFails
  \/ ImportCluster \/ ImportReadFails \/ ImportClusterFails \/ ImportService \/ ImportServiceFails
  \/ ImportUndo \/ ImportUndoFails \/ ImportEnds \/ DeployService \/ CleanService \/ ServicesEnd

\* To Invocation, a step of a command is Return, SelfUpgrade, Panic or nothing.
LEMMA CommandIsProcessStep ==
  ASSUME Invoc, CommandSteps
  PROVE  ProcessStep
<1>. USE DEF ProcessStep, SameProcess, Result, Is, ivars, log
<1>1. CASE Add
  BY <1>1 DEF Add, Refused, Ends, Declined, Goes
<1>2. CASE Checkout
  BY <1>2 DEF Checkout, Refused, Ends, Declined, Goes
<1>3. CASE Remove
  BY <1>3 DEF Remove, Refused, Ends, Declined, Goes
<1>4. CASE CommitHosts
  BY <1>4 DEF CommitHosts, Refused, Ends, Declined, Goes
<1>5. CASE Audit
  BY <1>5 DEF Audit, Refused, Ends, Declined, Goes
<1>6. CASE Update
  BY <1>6 DEF Update, Refused, Ends, Declined, Goes
<1>7. CASE CallFails
  BY <1>7 DEF CallFails, Refused, Ends, Declined, Goes
<1>8. CASE ExportOpen
  BY <1>8 DEF ExportOpen, Refused, Ends, Declined, Goes
<1>9. CASE ExportCluster
  BY <1>9 DEF ExportCluster, Refused, Ends, Declined, Goes
<1>10. CASE ExportService
  BY <1>10 DEF ExportService, Refused, Ends, Declined, Goes
<1>11. CASE ExportEnds
  BY <1>11 DEF ExportEnds, Refused, Ends, Declined, Goes
<1>12. CASE ExportFails
  BY <1>12 DEF ExportFails, Refused, Ends, Declined, Goes
<1>13. CASE ImportCluster
  BY <1>13 DEF ImportCluster, Refused, Ends, Declined, Goes
<1>14. CASE ImportReadFails
  BY <1>14 DEF ImportReadFails, Refused, Ends, Declined, Goes
<1>15. CASE ImportClusterFails
  BY <1>15 DEF ImportClusterFails, Refused, Ends, Declined, Goes
<1>16. CASE ImportService
  BY <1>16 DEF ImportService, Refused, Ends, Declined, Goes
<1>17. CASE ImportServiceFails
  BY <1>17 DEF ImportServiceFails, Refused, Ends, Declined, Goes
<1>18. CASE ImportUndo
  BY <1>18 DEF ImportUndo, Refused, Ends, Declined, Goes
<1>19. CASE ImportUndoFails
  BY <1>19 DEF ImportUndoFails, Refused, Ends, Declined, Goes
<1>20. CASE ImportEnds
  BY <1>20 DEF ImportEnds, Refused, Ends, Declined, Goes
<1>21. CASE DeployService
  BY <1>21 DEF DeployService, Refused, Ends, Declined, Goes
<1>22. CASE CleanService
  BY <1>22 DEF CleanService, Refused, Ends, Declined, Goes
<1>23. CASE ServicesEnd
  BY <1>23 DEF ServicesEnd, Refused, Ends, Declined, Goes
<1>. QED
  BY <1>1, <1>2, <1>3, <1>4, <1>5, <1>6, <1>7, <1>8, <1>9, <1>10, <1>11, <1>12, <1>13, <1>14,
     <1>15, <1>16, <1>17, <1>18, <1>19, <1>20, <1>21, <1>22, <1>23 DEF CommandSteps

\* A step that leaves the tables alone and starts, ends or leaves the command
\* preserves the invariant of the tables.
LEMMA QuietPreserves ==
  ASSUME IntroType, Tables, UNCHANGED tables,
         \/ /\ cmd' = cmd
            /\ \/ process' = process \/ process'.at = "postAudit"
               \/ process.at \in Before /\ process'.at \in Before \cup {"command"}
         \/ cmd' = NoCommand /\ process'.at = "none"
  PROVE  Tables'
<1>1. TablesType' /\ Unique'
  BY DEF Tables, TablesType, Unique, UniqueRows, tables
<1>2. CASE cmd' = NoCommand /\ process'.at = "none"
  BY <1>1, <1>2 DEF Tables, CommandType, Progress, NoCommand, Is, At, Alive, tables,
     TablesType, None, Ops, Before
<1>3. CASE /\ cmd' = cmd
           /\ \/ process' = process \/ process'.at = "postAudit"
              \/ process.at \in Before /\ process'.at \in Before \cup {"command"}
  <2>1. CommandType'
    BY <1>3 DEF Tables, CommandType, Alive, At, tables, Before, IntroType
  <2>2. Progress'
    <3>1. CASE process' = process
      BY <1>3, <3>1 DEF Tables, Progress, tables, Is, At, Taken, Matching, First, ExportedOf,
         GetServices, ServiceId
    <3>2. CASE process'.at = "postAudit"
      BY <3>2 DEF Progress, Is, At
    <3>3. CASE process.at \in Before
      BY <1>3, <3>3 DEF Tables, CommandType, Progress, Is, At, Before
    <3>. QED
      BY <1>3, <3>1, <3>2, <3>3
  <2>. QED
    BY <1>1, <2>1, <2>2 DEF Tables
<1>. QED
  BY <1>2, <1>3

\* Of a command that has ended nothing is required.
LEMMA EndedCommand ==
  ASSUME TablesType, CommandType, cmd' = cmd, process'.at = "postAudit",
         next' \in Nat, next <= next'
  PROVE  CommandType' /\ Progress'
  BY DEF TablesType, CommandType, Progress, Is, At, Alive, Before

\* A row with a new id and a name that nothing matches keeps the rows unique.
LEMMA InsertedRow ==
  ASSUME NEW T, UniqueRows(T), NEW n \in Nat, NEW name, NEW row,
         row.id = n, row.name = name, row.current = FALSE,
         \A c \in T : c.id \in Nat /\ c.id < n /\ c.name # name /\ <<c.name, name>> \notin Like
  PROVE  UniqueRows(T \cup {row})
<1>1. ASSUME NEW c \in T \cup {row}, NEW d \in T \cup {row}, c # d
      PROVE  /\ c.id # d.id /\ c.name # d.name
             /\ ~ (c.current = TRUE /\ d.current = TRUE)
             /\ <<c.name, d.name>> \in Like => d.id < c.id
  <2>1. CASE c \in T /\ d \in T
    BY <1>1, <2>1 DEF UniqueRows
  <2>2. CASE c \in T /\ d = row
    BY <2>2
  <2>3. CASE c = row /\ d \in T
    <3>1. d.id \in Nat /\ d.id < n /\ d.name # name
          /\ c.id = n /\ c.name = name /\ c.current = FALSE
      BY <2>3
    <3>. QED
      BY <3>1
  <2>. QED
    BY <1>1, <2>1, <2>2, <2>3
<1>. QED
  BY <1>1, Zenon DEF UniqueRows

\* InsertCluster, after the check that the name is free: the new cluster is the only
\* one that its name matches, and has no services.
LEMMA InsertedCluster ==
  ASSUME TablesType, Unique, NEW name \in Name, NEW topology \in Topologies,
         InsertCluster(name, topology), ~ Taken(name), next <= MaxClusters,
         UNCHANGED <<services, hosts, file>>
  PROVE  /\ TablesType' /\ Unique' /\ next' \in Nat /\ next <= next'
         /\ \E c \in clusters' :
              /\ c.id = next /\ c.name = name /\ c.topology = topology
              /\ Matching(name)' = {c} /\ ExportedOf(c)' = {}
<1>. PICK row : row = [id |-> next, name |-> name, topology |-> topology, current |-> FALSE]
  OBVIOUS
<1>0. /\ clusters' = clusters \cup {row} /\ next' = next + 1 /\ next \in Nat /\ next' \in Nat
      /\ MaxClusters \in Nat
  BY ClustersAssumption DEF InsertCluster, TablesType
<1>1. \A c \in clusters : c.id \in Nat /\ c.id < next /\ c.name # name
                          /\ <<c.name, name>> \notin Like
  BY ClustersAssumption DEF Taken, Matching, TablesType
<1>2. TablesType'
  <2>1. row \in [id : 1 .. (next' - 1), name : Name, topology : Topologies, current : BOOLEAN]
    BY <1>0 DEF TablesType
  <2>2. clusters \subseteq [id : 1 .. (next' - 1), name : Name, topology : Topologies,
                            current : BOOLEAN]
    BY <1>0 DEF TablesType
  <2>3. services \subseteq [id : (None .. MaxClusters) \X Service, cluster : 1 .. (next' - 1),
                            active : BOOLEAN]
    BY <1>0 DEF TablesType
  <2>4. next' \in 1 .. MaxClusters + 1
    BY <1>0 DEF TablesType
  <2>. QED
    BY <1>0, <2>1, <2>2, <2>3, <2>4 DEF TablesType
<1>3. Unique'
  <2>1. UniqueRows(clusters')
    BY <1>0, <1>1, InsertedRow DEF Unique
  <2>. QED
    BY <2>1 DEF Unique
<1>4. Matching(name)' = {row}
  BY <1>0, <1>1, ClustersAssumption DEF Matching
<1>5. \A r \in services : r.cluster # next
  BY <1>0 DEF TablesType
<1>6. ExportedOf(row)' = {}
  <2>1. GetServices(row.id)' = {}
    BY <1>5 DEF GetServices
  <2>. QED
    BY <2>1 DEF ExportedOf
<1>7. \E c \in clusters' :
        /\ c.id = next /\ c.name = name /\ c.topology = topology
        /\ Matching(name)' = {c} /\ ExportedOf(c)' = {}
  <2>1. row \in clusters' /\ row.id = next /\ row.name = name /\ row.topology = topology
    BY <1>0
  <2>. QED
    BY <2>1, <1>4, <1>6
<1>. QED
  BY <1>0, <1>2, <1>3, <1>7

\* cluster add preserves the invariant.
LEMMA AddPreserves ==
  ASSUME IntroType, Tables, Add
  PROVE  Tables'
<1>. USE DEF Tables
<1>1. CASE Refused(Taken(cmd.name) \/ cmd.data = "bad")
  BY <1>1, QuietPreserves DEF Refused, Ends, Return, IntroType
<1>2. CASE /\ ~ Taken(cmd.name) /\ cmd.data # "bad" /\ next <= MaxClusters
           /\ InsertCluster(cmd.name, cmd.data)
           /\ Ends("success") /\ UNCHANGED <<services, hosts, file>>
  <2>1. cmd.name \in Name /\ cmd.data \in Topologies
    BY DEF Add, Is, CommandType
  <2>2. cmd' = cmd /\ process'.at = "postAudit"
    BY <1>2 DEF Ends, Return, IntroType
  <2>. QED
    BY <1>2, <2>1, <2>2, InsertedCluster, EndedCommand
<1>. QED
  BY <1>1, <1>2 DEF Add

\* cluster checkout does: it leaves at most one current cluster, whichever it was asked for.
LEMMA CheckoutPreserves ==
  ASSUME IntroType, Tables, Checkout
  PROVE  Tables'
<1>. USE DEF Tables
<1>1. CASE Refused(~ Taken(cmd.name))
  BY <1>1, QuietPreserves DEF Refused, Ends, Return, IntroType
<1>2. CASE CheckoutCluster(cmd.name) /\ Ends("success") /\ UNCHANGED <<next, services, hosts, file>>
  <2>1. cmd' = cmd /\ process'.at = "postAudit"
    BY <1>2 DEF Ends, Return, IntroType
  <2>2. clusters' = {[c EXCEPT !.current = (c.name = cmd.name)] : c \in clusters}
    BY <1>2 DEF CheckoutCluster
  <2>3. ASSUME NEW d \in clusters'
        PROVE  \E c \in clusters :
                 /\ d.id = c.id /\ d.name = c.name /\ d.topology = c.topology
                 /\ d.current = TRUE => d.name = cmd.name
                 /\ d = [id |-> d.id, name |-> d.name, topology |-> d.topology,
                         current |-> d.current]
    <3>1. PICK c \in clusters : d = [c EXCEPT !.current = (c.name = cmd.name)]
      BY <2>2
    <3>2. c \in [id : 1 .. (next - 1), name : Name, topology : Topologies, current : BOOLEAN]
      BY DEF TablesType
    <3>3. d.current = (c.name = cmd.name)
      BY <3>1, <3>2
    <3>4. d.current = TRUE => c.name = cmd.name
      BY <3>3
    <3>. QED
      BY <3>1, <3>2, <3>4
  <2>4. TablesType'
    <3>1. ASSUME NEW d \in clusters'
          PROVE  d \in [id : 1 .. (next - 1), name : Name, topology : Topologies, current : BOOLEAN]
      <4>. PICK c \in clusters :
             /\ d = [c EXCEPT !.current = (c.name = cmd.name)]
             /\ c \in [id : 1 .. (next - 1), name : Name, topology : Topologies, current : BOOLEAN]
        BY <2>2 DEF TablesType
      <4>. QED
        OBVIOUS
    <3>. QED
      BY <1>2, <3>1 DEF TablesType
  <2>5. Unique'
    <3>1. UniqueRows(clusters')
      <4>. SUFFICES ASSUME NEW d1 \in clusters', NEW d2 \in clusters', d1 # d2
                    PROVE  /\ d1.id # d2.id /\ d1.name # d2.name
                           /\ ~ (d1.current = TRUE /\ d2.current = TRUE)
                           /\ <<d1.name, d2.name>> \in Like => d2.id < d1.id
        BY Zenon DEF UniqueRows
      <4>1. PICK c1 \in clusters : d1 = [c1 EXCEPT !.current = (c1.name = cmd.name)]
        BY <2>2
      <4>2. PICK c2 \in clusters : d2 = [c2 EXCEPT !.current = (c2.name = cmd.name)]
        BY <2>2
      <4>3. /\ c1 # c2 /\ c1.id # c2.id /\ c1.name # c2.name
            /\ <<c1.name, c2.name>> \in Like => c2.id < c1.id
        BY <4>1, <4>2, Zenon DEF Unique, UniqueRows
      <4>4. d1.id = c1.id /\ d1.name = c1.name /\ d2.id = c2.id /\ d2.name = c2.name
        BY <4>1, <4>2 DEF TablesType
      <4>5. /\ d1.current = TRUE => d1.name = cmd.name
            /\ d2.current = TRUE => d2.name = cmd.name
        BY <2>3
      <4>. QED
        BY <4>3, <4>4, <4>5
    <3>. QED
      BY <1>2, <3>1 DEF Unique
  <2>. QED
    BY <1>2, <2>1, <2>4, <2>5, EndedCommand DEF TablesType
<1>. QED
  BY <1>1, <1>2 DEF Checkout

\* Deleting a cluster by name, with which a command ends, does.
LEMMA DeletedCluster ==
  ASSUME IntroType, Tables, NEW name, DeleteCluster(name), NEW result, Ends(result),
         UNCHANGED <<services, hosts, file>>
  PROVE  Tables'
<1>. USE DEF Tables
<1>1. cmd' = cmd /\ process'.at = "postAudit"
  BY DEF Ends, Return, IntroType
<1>2. clusters' \subseteq clusters /\ next' = next
  BY DEF DeleteCluster
<1>3. TablesType'
  BY <1>2 DEF TablesType
<1>4. Unique'
  BY <1>2 DEF Unique, UniqueRows
<1>. QED
  BY <1>1, <1>2, <1>3, <1>4, EndedCommand DEF TablesType

\* cluster rm does.
LEMMA RemovePreserves ==
  ASSUME IntroType, Tables, Remove
  PROVE  Tables'
<1>1. CASE UNCHANGED tables /\ \E r \in Result : Ends(r)
  BY <1>1, QuietPreserves DEF Ends, Return, IntroType
<1>2. CASE DeleteCluster(cmd.name) /\ Ends("success") /\ UNCHANGED <<services, hosts, file>>
  BY <1>2, DeletedCluster
<1>. QED
  BY <1>1, <1>2 DEF Remove, Refused, Declined, Result

\* hosts commit does.
LEMMA CommitHostsPreserves ==
  ASSUME IntroType, Tables, CommitHosts
  PROVE  Tables'
<1>1. CASE UNCHANGED tables /\ \E r \in Result : Ends(r)
  BY <1>1, QuietPreserves DEF Ends, Return, IntroType
<1>2. CASE /\ cmd.data \in ValidHosts /\ hosts' = cmd.data
           /\ Ends("success") /\ UNCHANGED <<clusters, next, services, file>>
  <2>1. cmd' = cmd /\ process'.at = "postAudit"
    BY <1>2 DEF Ends, Return, IntroType
  <2>2. TablesType' /\ Unique'
    BY <1>2 DEF Tables, TablesType, Unique
  <2>. QED
    BY <1>2, <2>1, <2>2, EndedCommand DEF Tables, TablesType
<1>. QED
  BY <1>1, <1>2 DEF CommitHosts, Refused, Declined, Result

\* The steps that write nothing to the tables do.
LEMMA ReadersPreserve ==
  ASSUME IntroType, Tables,
         \/ Audit \/ Update \/ CallFails \/ ExportEnds \/ ImportReadFails \/ ImportClusterFails
         \/ ImportUndoFails \/ ImportEnds \/ ServicesEnd
  PROVE  Tables'
<1>1. CASE Update
  <2>1. cmd' = cmd /\ process'.at = "postAudit" /\ UNCHANGED tables
    BY <1>1 DEF Update, SelfUpgrade, IntroType
  <2>. QED
    BY <2>1, QuietPreserves
<1>2. CASE ImportClusterFails
  BY <1>2, QuietPreserves DEF ImportClusterFails, Panic, Exit, NoProcess
<1>3. CASE \/ Audit \/ CallFails \/ ExportEnds \/ ImportReadFails
           \/ ImportUndoFails \/ ImportEnds \/ ServicesEnd
  <2>1. cmd' = cmd /\ process'.at = "postAudit" /\ UNCHANGED tables
    BY <1>3 DEF Audit, CallFails, ExportEnds, ImportReadFails, ImportUndoFails, ImportEnds,
                ServicesEnd, Ends, Return, IntroType
  <2>. QED
    BY <2>1, QuietPreserves
<1>. QED
  BY <1>1, <1>2, <1>3

\* Of a command whose process is gone nothing is required.
LEMMA KilledCommand ==
  ASSUME next' \in Nat, 0 < next', cmd' = NoCommand, process'.at = "none"
  PROVE  CommandType' /\ Progress'
  BY DEF CommandType, Progress, NoCommand, Is, At, Alive, None, Ops, Before

\* The command goes on to a step, with what is left to do in it.
Gone(step, left) ==
  cmd' = [cmd EXCEPT !.step = step, !.left = left] /\ process' = process

\* A command that goes on stays the same command.
LEMMA GoneOnCommand ==
  ASSUME TablesType, CommandType, At("command"), NEW step \in 2 .. 3, NEW left,
         Gone(step, left),
         next' \in Nat, next <= next',
         cmd.op \in {"deploy", "clean"} => left \subseteq Service /\ step = 2,
         cmd.op \in {"import", "export"} => left \subseteq FileRow
  PROVE  /\ CommandType' /\ At("command")'
         /\ cmd'.op = cmd.op /\ cmd'.name = cmd.name /\ cmd'.opened = cmd.opened
         /\ cmd'.step = step /\ cmd'.left = left
<1>1. cmd' = [op |-> cmd.op, name |-> cmd.name, data |-> cmd.data, force |-> cmd.force,
              opened |-> cmd.opened, hosts |-> cmd.hosts, step |-> step, left |-> left]
  BY DEF CommandType, Gone
<1>2. /\ cmd'.op = cmd.op /\ cmd'.name = cmd.name /\ cmd'.data = cmd.data
      /\ cmd'.opened = cmd.opened /\ cmd'.step = step /\ cmd'.left = left
      /\ cmd' = [op |-> cmd'.op, name |-> cmd'.name, data |-> cmd'.data, force |-> cmd'.force,
                 opened |-> cmd'.opened, hosts |-> cmd'.hosts, step |-> cmd'.step,
                 left |-> cmd'.left]
  BY <1>1
<1>. QED
  BY <1>2 DEF Gone, CommandType, TablesType, At, Alive, Before

\* As long as the table of clusters is the same, GetClusters gives the same cluster.
LEMMA SameClusters ==
  ASSUME clusters' = clusters, cmd'.name = cmd.name, Taken(cmd.name)
  PROVE  /\ Taken(cmd.name)' /\ First(cmd.name)' = First(cmd.name)
         /\ services' = services => ExportedOf(First(cmd.name))' = ExportedOf(First(cmd.name))
  BY DEF Taken, Matching, First, ExportedOf, GetServices

\* What is exported of a cluster has the type of the file.
LEMMA ExportedType ==
  ASSUME TablesType, NEW c
  PROVE  ExportedOf(c) \subseteq FileRow
<1>1. ASSUME NEW r \in services
      PROVE  Exported(r) \in FileRow
  BY DEF TablesType, Exported, FileRow
<1>. QED
  BY <1>1 DEF ExportedOf, GetServices

\* cluster export, once it has found the cluster and made the file, preserves the
\* invariant: nothing of the services is in the file.
LEMMA ExportOpenPreserves ==
  ASSUME IntroType, Tables, ExportOpen
  PROVE  Tables'
<1>. USE DEF Tables
<1>1. CASE Refused(~ Taken(cmd.name))
  BY <1>1, QuietPreserves DEF Refused, Ends, Return, IntroType
<1>2. CASE /\ Taken(cmd.name)
           /\ file' = [topology |-> "none", services |-> {}, broken |-> FALSE]
           /\ Goes(2, ExportedOf(First(cmd.name)))
           /\ UNCHANGED <<clusters, next, services>>
  <2>1. Gone(2, ExportedOf(First(cmd.name))) /\ hosts' = hosts
    BY <1>2 DEF Gone, Goes, ivars
  <2>2. TablesType' /\ Unique'
    BY <1>2, <2>1 DEF TablesType, Unique, Topologies
  <2>3. At("command") /\ cmd.op = "export" /\ next \in Nat
    BY DEF ExportOpen, Is, TablesType
  <2>4. /\ CommandType' /\ cmd'.op = cmd.op /\ cmd'.name = cmd.name
        /\ cmd'.step = 2 /\ cmd'.left = ExportedOf(First(cmd.name))
    <3>1. ExportedOf(First(cmd.name)) \subseteq FileRow
      BY ExportedType
    <3>2. next' \in Nat /\ next <= next'
      BY <1>2, <2>3
    <3>. QED
      BY <2>1, <2>3, <3>1, <3>2, GoneOnCommand
  <2>5. /\ Taken(cmd.name)' /\ First(cmd.name)' = First(cmd.name)
        /\ ExportedOf(First(cmd.name))' = ExportedOf(First(cmd.name))
    BY <1>2, <2>4, SameClusters
  <2>6. Progress'
    BY <1>2, <2>3, <2>4, <2>5 DEF Progress, Is
  <2>. QED
    BY <2>2, <2>4, <2>6
<1>. QED
  BY <1>1, <1>2 DEF ExportOpen, ExportedOf

\* Writing the topology, or a service, to the file does.
LEMMA ExportItemPreserves ==
  ASSUME IntroType, Tables, ExportCluster \/ ExportService
  PROVE  Tables'
<1>. USE DEF Tables
<1>0. /\ At("command") /\ cmd.op = "export" /\ cmd.step \in {2, 3} /\ next \in Nat
      /\ Taken(cmd.name) /\ ~ file.broken /\ cmd.left \subseteq FileRow
      /\ file.services \cup cmd.left = ExportedOf(First(cmd.name))
      /\ cmd.step = 3 => file.topology = First(cmd.name).topology
      /\ UNCHANGED <<clusters, next, services>>
  BY DEF ExportCluster, ExportService, Is, TablesType, Progress, CommandType
<1>1. PICK left, topology, items :
        /\ left \subseteq cmd.left
        /\ file' = [file EXCEPT !.topology = topology, !.services = items]
        /\ items \cup left = file.services \cup cmd.left
        /\ topology = First(cmd.name).topology
        /\ Goes(3, left)
  <2>1. CASE ExportCluster
    <3>1. /\ file' = [file EXCEPT !.topology = First(cmd.name).topology]
          /\ Goes(3, cmd.left)
      BY <2>1 DEF ExportCluster
    <3>2. file' = [file EXCEPT !.topology = First(cmd.name).topology,
                               !.services = file.services]
      BY <3>1 DEF TablesType
    <3>. QED
      BY <3>1, <3>2
  <2>2. CASE ExportService
    <3>1. PICK s \in cmd.left : /\ file' = [file EXCEPT !.services = file.services \cup {s}]
                                /\ Goes(3, cmd.left \ {s})
      BY <2>2 DEF ExportService
    <3>2. file' = [file EXCEPT !.topology = file.topology, !.services = file.services \cup {s}]
      BY <3>1 DEF TablesType
    <3>3. (file.services \cup {s}) \cup (cmd.left \ {s}) = file.services \cup cmd.left
      OBVIOUS
    <3>4. cmd.step = 3
      BY <2>2 DEF ExportService
    <3>. QED
      BY <1>0, <3>1, <3>2, <3>3, <3>4
  <2>. QED
    BY <2>1, <2>2
<1>2. Gone(3, left) /\ hosts' = hosts
  BY <1>1 DEF Gone, Goes, ivars
<1>3. First(cmd.name) \in clusters
  BY <1>0, FirstMatches
<1>4. /\ file'.topology = topology /\ file'.services = items /\ ~ file'.broken
      /\ file' \in [topology : Topologies, services : SUBSET FileRow, broken : BOOLEAN]
  <2>1. topology \in Topologies /\ items \subseteq FileRow
    BY <1>0, <1>1, <1>3 DEF TablesType
  <2>. QED
    BY <1>0, <1>1, <2>1 DEF TablesType
<1>5. TablesType' /\ Unique'
  BY <1>0, <1>2, <1>4 DEF TablesType, Unique
<1>6. /\ CommandType' /\ cmd'.op = cmd.op /\ cmd'.name = cmd.name
      /\ cmd'.step = 3 /\ cmd'.left = left
  <2>1. next' \in Nat /\ next <= next' /\ left \subseteq FileRow
    BY <1>0, <1>1
  <2>. QED
    BY <1>0, <1>2, <2>1, GoneOnCommand
<1>7. /\ Taken(cmd.name)' /\ First(cmd.name)' = First(cmd.name)
      /\ ExportedOf(First(cmd.name))' = ExportedOf(First(cmd.name))
  BY <1>0, <1>6, SameClusters
<1>8. Progress'
  BY <1>0, <1>1, <1>4, <1>6, <1>7 DEF Progress, Is
<1>. QED
  BY <1>5, <1>6, <1>8

\* A write that fails does, whatever it leaves of the file.
LEMMA ExportFailsPreserves ==
  ASSUME IntroType, Tables, ExportFails
  PROVE  Tables'
<1>. USE DEF Tables
<1>1. UNCHANGED <<clusters, next, services, hosts>> /\ next \in Nat /\ 0 < next
  BY DEF ExportFails, TablesType
<1>2. TablesType' /\ Unique'
  BY <1>1 DEF ExportFails, TablesType, Unique
<1>3. CASE cmd' = NoCommand /\ Kill
  BY <1>1, <1>2, <1>3, KilledCommand DEF Kill, Exit, NoProcess
<1>4. CASE cmd' = cmd /\ Return("fail")
  BY <1>1, <1>2, <1>4, EndedCommand DEF Return, IntroType
<1>. QED
  BY <1>3, <1>4 DEF ExportFails

\* Inserting the cluster of an import does.
LEMMA ImportClusterPreserves ==
  ASSUME IntroType, Tables, ImportCluster
  PROVE  Tables'
<1>. USE DEF Tables
<1>1. CASE Refused(Taken(cmd.name) \/ file.broken)
  BY <1>1, QuietPreserves DEF Refused, Ends, Return, IntroType
<1>2. CASE /\ ~ Taken(cmd.name) /\ next <= MaxClusters
           /\ InsertCluster(cmd.name, file.topology)
           /\ Goes(2, file.services)
           /\ UNCHANGED <<services, file>>
  <2>1. Gone(2, file.services) /\ hosts' = hosts
    BY <1>2 DEF Gone, Goes, ivars
  <2>2. /\ cmd.name \in Name /\ file.topology \in Topologies /\ file.services \subseteq FileRow
        /\ At("command") /\ cmd.op = "import"
    BY DEF ImportCluster, Is, CommandType, TablesType
  <2>3. /\ TablesType' /\ Unique' /\ next' \in Nat /\ next <= next'
        /\ \E c \in clusters' :
             /\ c.id = next /\ c.name = cmd.name /\ c.topology = file.topology
             /\ {d \in clusters' : <<d.name, cmd.name>> \in Like} = {c} /\ ExportedOf(c)' = {}
    BY <1>2, <2>1, <2>2, InsertedCluster DEF Matching
  <2>4. /\ CommandType' /\ cmd'.op = cmd.op /\ cmd'.name = cmd.name
        /\ cmd'.step = 2 /\ cmd'.left = file.services
    BY <2>1, <2>2, <2>3, GoneOnCommand
  <2>5. Progress'
    BY <1>2, <2>2, <2>3, <2>4 DEF Progress, Is, Matching
  <2>. QED
    BY <2>3, <2>4, <2>5
<1>. QED
  BY <1>1, <1>2 DEF ImportCluster

\* Inserting a service of an import does: no row had its id.
LEMMA ImportServicePreserves ==
  ASSUME IntroType, Tables, ImportService
  PROVE  Tables'
<1>. USE DEF Tables
<1>0. /\ At("command") /\ cmd.op = "import" /\ cmd.step = 2 /\ next \in Nat
      /\ cmd.left \subseteq FileRow /\ UNCHANGED <<clusters, next, file>>
  BY DEF ImportService, Is, TablesType, CommandType
<1>1. PICK c \in clusters :
        /\ Matching(cmd.name) = {c} /\ c.name = cmd.name /\ c.topology = file.topology
        /\ ExportedOf(c) \cup cmd.left = file.services
  BY <1>0 DEF Progress, Is
<1>2. First(cmd.name) = c /\ c.id \in 1 .. (next - 1)
  <2>1. Taken(cmd.name)
    BY <1>1 DEF Taken
  <2>. QED
    BY <1>1, <2>1, FirstMatches DEF TablesType
<1>3. PICK s \in cmd.left :
        IF Known(s)
        THEN Goes(3, {}) /\ UNCHANGED services
        ELSE /\ services' = services \cup {[id |-> s.id, cluster |-> c.id, active |-> s.active]}
             /\ Goes(2, cmd.left \ {s})
  BY <1>2 DEF ImportService
<1>4. CASE Known(s)
  <2>1. Gone(3, {}) /\ hosts' = hosts /\ services' = services
    BY <1>3, <1>4 DEF Gone, Goes, ivars
  <2>2. next' \in Nat /\ next <= next' /\ {} \subseteq FileRow
    BY <1>0
  <2>3. CommandType' /\ cmd'.op = "import" /\ cmd'.step = 3
    BY <1>0, <2>1, <2>2, GoneOnCommand
  <2>. QED
    BY <1>0, <2>1, <2>3 DEF TablesType, Unique, Progress, Is
<1>5. CASE ~ Known(s)
  <2>. PICK row : row = [id |-> s.id, cluster |-> c.id, active |-> s.active]
    OBVIOUS
  <2>1. Gone(2, cmd.left \ {s}) /\ hosts' = hosts /\ services' = services \cup {row}
    BY <1>3, <1>5 DEF Gone, Goes, ivars
  <2>2. next' \in Nat /\ next <= next' /\ cmd.left \ {s} \subseteq FileRow
    BY <1>0
  <2>3. /\ CommandType' /\ cmd'.op = cmd.op /\ cmd'.name = cmd.name
        /\ cmd'.step = 2 /\ cmd'.left = cmd.left \ {s}
    BY <1>0, <2>1, <2>2, GoneOnCommand
  <2>4. TablesType'
    <3>1. row \in [id : (None .. MaxClusters) \X Service, cluster : 1 .. (next - 1),
                   active : BOOLEAN]
      BY <1>0, <1>2 DEF FileRow
    <3>. QED
      BY <1>0, <2>1, <3>1 DEF TablesType
  <2>5. Unique'
    <3>1. \A r \in services : r.id # row.id
      BY <1>5 DEF Known
    <3>2. \A r, u \in services' : r.id = u.id => r = u
      BY <2>1, <3>1 DEF Unique
    <3>. QED
      BY <1>0, <3>2 DEF Unique
  <2>6. Exported(row) = s
    BY <1>0 DEF Exported, FileRow
  <2>7. ExportedOf(c)' = ExportedOf(c) \cup {s}
    <3>1. GetServices(c.id)' = GetServices(c.id) \cup {row}
      BY <2>1 DEF GetServices
    <3>2. ExportedOf(c)' = {Exported(r) : r \in GetServices(c.id) \cup {row}}
      BY <3>1 DEF ExportedOf, Exported
    <3>. QED
      BY <2>6, <3>2 DEF ExportedOf
  <2>8. Matching(cmd.name)' = {c}
    BY <1>0, <1>1, <2>3 DEF Matching
  <2>9. Progress'
    BY <1>0, <1>1, <2>3, <2>7, <2>8 DEF Progress, Is
  <2>. QED
    BY <2>3, <2>4, <2>5, <2>9
<1>. QED
  BY <1>4, <1>5

\* A service that cannot be inserted does.
LEMMA ImportServiceFailsPreserves ==
  ASSUME IntroType, Tables, ImportServiceFails
  PROVE  Tables'
<1>. USE DEF Tables
<1>1. Gone(3, {}) /\ UNCHANGED tables /\ At("command") /\ cmd.op = "import"
  BY DEF ImportServiceFails, Gone, Is
<1>2. next' \in Nat /\ next <= next' /\ {} \subseteq FileRow
  BY <1>1 DEF tables, TablesType
<1>3. CommandType' /\ cmd'.op = "import" /\ cmd'.step = 3
  BY <1>1, <1>2, GoneOnCommand
<1>. QED
  BY <1>1, <1>3 DEF tables, TablesType, Unique, Progress, Is

\* Removing the cluster after that does.
LEMMA ImportUndoPreserves ==
  ASSUME IntroType, Tables, ImportUndo
  PROVE  Tables'
  BY DeletedCluster DEF ImportUndo

\* Writing the row of a service, of which deploy and clean each have one for each
\* service, does.
LEMMA SetPreserves ==
  ASSUME IntroType, Tables, At("command"), cmd.op \in {"deploy", "clean"}, ~ NotReady,
         NEW s \in cmd.left, Set(s, cmd.op = "deploy"), Goes(2, cmd.left \ {s}),
         UNCHANGED <<clusters, next, file>>
  PROVE  Tables'
<1>. USE DEF Tables
<1>1. /\ cmd.left \subseteq Service /\ s \in Service /\ next \in Nat /\ next - 1 <= MaxClusters
      /\ cmd.opened \in 1 .. (next - 1) /\ MaxClusters \in Nat
  BY ClustersAssumption DEF CommandType, NotReady, TablesType, None
<1>. PICK active \in BOOLEAN : active = (cmd.op = "deploy")
  OBVIOUS
<1>. PICK row : row = [id |-> ServiceId(s), cluster |-> cmd.opened, active |-> active]
  OBVIOUS
<1>2. /\ services' = {r \in services : r.id # ServiceId(s)} \cup {row}
      /\ row.id = ServiceId(s) /\ row.active = active
  BY DEF Set
<1>3. Gone(2, cmd.left \ {s}) /\ hosts' = hosts
  BY DEF Gone, Goes, ivars
<1>4. next' \in Nat /\ next <= next' /\ cmd.left \ {s} \subseteq Service
  BY <1>1
<1>5. /\ CommandType' /\ cmd'.op = cmd.op /\ cmd'.opened = cmd.opened
      /\ cmd'.step = 2 /\ cmd'.left = cmd.left \ {s}
  BY <1>3, <1>4, GoneOnCommand
<1>6. TablesType'
  <2>1. row \in [id : (None .. MaxClusters) \X Service, cluster : 1 .. (next - 1),
                 active : BOOLEAN]
    BY <1>1 DEF ServiceId, None
  <2>. QED
    BY <1>2, <1>3, <2>1 DEF TablesType
<1>7. Unique'
  <2>1. \A r, u \in services' : r.id = u.id => r = u
    BY <1>2 DEF Unique
  <2>. QED
    BY <2>1 DEF Unique
<1>8. \A u \in Service \ (cmd.left \ {s}) :
        \E r \in services' : r.id = ServiceId(u) /\ r.active = (cmd.op = "deploy")
  <2>. SUFFICES ASSUME NEW u \in Service \ (cmd.left \ {s})
                PROVE  \E r \in services' : r.id = ServiceId(u) /\ r.active = (cmd.op = "deploy")
    OBVIOUS
  <2>1. CASE u = s
    BY <1>2, <2>1
  <2>2. CASE u # s
    <3>1. cmd.step = 2 /\ u \in Service \ cmd.left
      BY <2>2 DEF CommandType, NotReady
    <3>2. PICK r \in services : r.id = ServiceId(u) /\ r.active = (cmd.op = "deploy")
      BY <3>1 DEF Progress, Is
    <3>3. ServiceId(u) # ServiceId(s)
      BY <2>2 DEF ServiceId
    <3>. QED
      BY <1>2, <3>2, <3>3
  <2>. QED
    BY <2>1, <2>2
<1>9. Progress'
  <2>1. \A u \in Service : ServiceId(u)' = ServiceId(u)
    BY <1>5 DEF ServiceId
  <2>. QED
    BY <1>1, <1>5, <1>8, <2>1 DEF Progress, Is, None
<1>. QED
  BY <1>5, <1>6, <1>7, <1>9

\* A step of deploy or clean does.
LEMMA ServicePreserves ==
  ASSUME IntroType, Tables, DeployService \/ CleanService
  PROVE  Tables'
<1>1. CASE UNCHANGED tables /\ \E r \in Result : Ends(r)
  BY <1>1, QuietPreserves DEF Ends, Return, IntroType
<1>2. CASE /\ Is("deploy") /\ ~ NotReady /\ UNCHANGED <<clusters, next, file>>
           /\ \E s \in cmd.left : Set(s, TRUE) /\ Goes(2, cmd.left \ {s})
  BY <1>2, SetPreserves DEF Is
<1>3. CASE /\ Is("clean") /\ ~ NotReady /\ UNCHANGED <<clusters, next, file>>
           /\ \E s \in cmd.left : Set(s, FALSE) /\ Goes(2, cmd.left \ {s})
  BY <1>3, SetPreserves DEF Is
<1>. QED
  BY <1>1, <1>2, <1>3 DEF DeployService, CleanService, Refused, Declined, Result

\* A command that starts does.
LEMMA ExecutePreserves ==
  ASSUME IntroType, Tables, NEW op \in Ops, NEW name, NEW data, NEW force,
         Execute(op, name, data, force),
         op \in {"add", "checkout", "rm", "export", "import"} => name \in Name,
         op = "add" => data \in Topologies
  PROVE  Tables' /\ \E b \in BOOLEAN : Start(b)
<1>. USE DEF Tables
<1>1. Execute(op, name, data, force)
  OBVIOUS
<1>2. \E b \in BOOLEAN : Start(b)
  BY <1>1 DEF Execute
<1>. PICK left \in {{}, Service} :
       left = IF OpenedTopology = "good" THEN Service ELSE {}
  OBVIOUS
<1>3. cmd' = [op |-> op, name |-> name, data |-> data, force |-> force, opened |-> OpenedId,
              hosts |-> hosts, step |-> 1, left |-> left]
  BY <1>1 DEF Execute, NoCommand
<1>4. OpenedId \in Nat /\ OpenedId < next
  <2>1. CASE Opens
    <3>1. Opened \in clusters
      BY <2>1 DEF Opens, Opened, Current
    <3>. QED
      BY <2>1, <3>1 DEF OpenedId, TablesType
  <2>2. CASE ~ Opens
    BY <2>2 DEF OpenedId, None, TablesType
  <2>. QED
    BY <2>1, <2>2
<1>5. process'.at \in Before
  BY <1>2 DEF Start, NoProcess, Before
<1>6. UNCHANGED tables
  BY <1>1 DEF Execute
<1>7. TablesType' /\ Unique' /\ next' = next
  BY <1>6 DEF tables, TablesType, Unique
<1>8. /\ cmd'.op = op /\ cmd'.name = name /\ cmd'.data = data /\ cmd'.opened = OpenedId
      /\ cmd'.step = 1 /\ cmd'.left = left
      /\ cmd' = [op |-> cmd'.op, name |-> cmd'.name, data |-> cmd'.data, force |-> cmd'.force,
                 opened |-> cmd'.opened, hosts |-> cmd'.hosts, step |-> cmd'.step,
                 left |-> cmd'.left]
  BY <1>3
<1>9. CommandType'
  BY <1>1, <1>4, <1>5, <1>7, <1>8 DEF CommandType, Before, Alive, At
<1>10. Progress'
  BY <1>5 DEF Progress, Is, At, Before
<1>. QED
  BY <1>2, <1>7, <1>9, <1>10

\* Whichever command it is.
LEMMA CommandsPreserve ==
  ASSUME IntroType, Tables, Commands
  PROVE  Tables' /\ \E b \in BOOLEAN : Start(b)
<1>1. CASE \E n \in Name, t \in Topologies : Execute("add", n, t, FALSE)
  <2>. PICK n \in Name, t \in Topologies : Execute("add", n, t, FALSE)
    BY <1>1
  <2>. QED
    BY ExecutePreserves, "add" \in Ops DEF Ops
<1>2. CASE \E n \in Name, o \in {"checkout", "export", "import"} :
             Execute(o, n, "none", FALSE)
  <2>. PICK n \in Name, o \in {"checkout", "export", "import"} : Execute(o, n, "none", FALSE)
    BY <1>2
  <2>. QED
    BY ExecutePreserves DEF Ops
<1>3. CASE \E n \in Name, force \in BOOLEAN : Execute("rm", n, "none", force)
  BY <1>3, ExecutePreserves DEF Ops
<1>4. CASE \E h \in HostsFile : Execute("hosts", "none", h, FALSE)
  BY <1>4, ExecutePreserves DEF Ops
<1>5. CASE \E o \in {"deploy", "clean", "update", "audit"} :
             Execute(o, "none", "none", FALSE)
  BY <1>5, ExecutePreserves DEF Ops
<1>. QED
  BY <1>1, <1>2, <1>3, <1>4, <1>5 DEF Commands

\* What the process does before and after its command, its goroutine, the days, the
\* releases and a kill do.
LEMMA SurroundingsPreserve ==
  ASSUME IntroType, Tables, Surroundings, UNCHANGED tables,
         cmd' = IF process'.at = "none" THEN NoCommand ELSE cmd
  PROVE  Tables'
<1>1. \/ process' = process \/ process'.at = "none"
      \/ process.at \in Before /\ process'.at \in Before \cup {"command"}
  <2>1. CASE DetectFetch \/ DetectCompare \/ DetectWrite \/ DetectFails \/ NextDay \/ Publish
    BY <2>1 DEF DetectFetch, DetectCompare, DetectWrite, DetectFails, Detect, NextDay, Publish
  <2>2. CASE UpgradeDeclined \/ UpgradeAccepted \/ PostAudit \/ PostAuditFails \/ Kill
    BY <2>2 DEF UpgradeDeclined, UpgradeAccepted, PostAudit, PostAuditFails, Kill, Exit, NoProcess
  <2>3. CASE UpgradeRead
    BY <2>3 DEF UpgradeRead, At, Before, IntroType
  <2>4. CASE UpgradeReadFails \/ UpgradeNote \/ UpgradeNoteFails \/ NoAudit \/ PreAuditFails
    BY <2>4 DEF UpgradeReadFails, UpgradeNote, UpgradeNoteFails, NoAudit, PreAuditFails, GoTo,
                At, Before, IntroType
  <2>5. CASE PreAudit
    BY <2>5 DEF PreAudit, At, Before, IntroType
  <2>. QED
    BY <2>1, <2>2, <2>3, <2>4, <2>5 DEF Surroundings
<1>2. process' = process => cmd' = cmd
  BY DEF Tables, CommandType, Alive
<1>. QED
  BY <1>1, <1>2, QuietPreserves, IntroType DEF Before

-----------------------------------------------------------------------------
(* The invariant is one. *)

\* The invariant holds at first.
LEMMA InitClustersIInv == Init => ClustersIInv
<1>. SUFFICES ASSUME Init PROVE ClustersIInv
  OBVIOUS
<1>. USE DEF Init, InvocationInit, Version, NoVersion, NoProcess, NoDetect, None, Never
<1>1. IntroType /\ Audited
  <2>1. <<>> \in Seq(AuditStatus) /\ <<>> \in Seq(Fate) /\ Len(<<>>) = 0
    BY EmptySeq
  <2>. QED
    BY <2>1, InvocationAssumption DEF IntroType, Audited, Before, Result, At, Recorded1
<1>2. Asked
  BY InvocationAssumption DEF Asked, At
<1>3. TablesType
  <2>1. file \in [topology : Topologies, services : SUBSET FileRow, broken : BOOLEAN]
    <3>1. NoFile \in [topology : Topologies, services : SUBSET FileRow, broken : BOOLEAN]
      BY DEF NoFile, Topologies
    <3>2. \A s \in Service : [id |-> <<None, s>>, active |-> TRUE] \in FileRow
      BY ClustersAssumption DEF FileRow
    <3>3. {[id |-> <<None, s>>, active |-> TRUE] : s \in Service} \subseteq FileRow
      BY <3>2
    <3>4. Foreign \in [topology : Topologies, services : SUBSET FileRow, broken : BOOLEAN]
      BY <3>3 DEF Foreign, Topologies
    <3>. QED
      BY <3>1, <3>4
  <2>2. \/ clusters = {} /\ next = 1
        \/ \E n \in Name :
             /\ clusters = {[id |-> 1, name |-> n, topology |-> "good", current |-> TRUE]}
             /\ next = 2
    OBVIOUS
  <2>3. /\ clusters \subseteq [id : 1 .. (next - 1), name : Name, topology : Topologies,
                              current : BOOLEAN]
        /\ next \in 1 .. MaxClusters + 1
    <3>1. CASE clusters = {} /\ next = 1
      BY <3>1, ClustersAssumption
    <3>2. ASSUME NEW n \in Name, next = 2,
                 clusters = {[id |-> 1, name |-> n, topology |-> "good", current |-> TRUE]}
          PROVE  /\ clusters \subseteq [id : 1 .. (next - 1), name : Name,
                                       topology : Topologies, current : BOOLEAN]
                 /\ next \in 1 .. MaxClusters + 1
      <4>1. [id |-> 1, name |-> n, topology |-> "good", current |-> TRUE]
              \in [id : 1 .. (next - 1), name : Name, topology : Topologies, current : BOOLEAN]
        BY <3>2 DEF Topologies
      <4>. QED
        BY <3>2, <4>1, ClustersAssumption
    <3>. QED
      BY <2>2, <3>1, <3>2
  <2>4. services = {} /\ hosts \in ValidHosts \cup {None}
    OBVIOUS
  <2>. QED
    BY <2>1, <2>3, <2>4 DEF TablesType
<1>4. Unique
  BY DEF Unique, UniqueRows
<1>5. CommandType /\ Progress
  BY DEF CommandType, Progress, NoCommand, Alive, At, Is, Before, Ops
<1>. QED
  BY <1>1, <1>2, <1>3, <1>4, <1>5 DEF ClustersIInv

\* Every step preserves it.
LEMMA NextPreserves == ClustersIInv /\ [Next]_vars => ClustersIInv'
<1>. SUFFICES ASSUME ClustersIInv, [Next]_vars PROVE ClustersIInv'
  OBVIOUS
<1>. USE DEF ClustersIInv, Invoc, Tables
<1>1. CASE UNCHANGED vars
  <2>1. SameProcess
    BY <1>1 DEF vars, ivars, SameProcess, release, log
  <2>2. IntroType' /\ Audited' /\ Asked'
    BY <2>1, InvocIntroType, InvocAudited, InvocAsked DEF ProcessStep
  <2>3. Tables'
    BY <1>1, QuietPreserves DEF vars, ivars
  <2>. QED
    BY <2>2, <2>3
<1>2. CASE Commands
  <2>1. Tables' /\ \E b \in BOOLEAN : Start(b)
    BY <1>2, CommandsPreserve
  <2>2. IntroType' /\ Audited' /\ Asked'
    BY <2>1, InvocIntroType, InvocAudited, InvocAsked DEF ProcessStep
  <2>. QED
    BY <2>1, <2>2
<1>3. CASE /\ Surroundings /\ UNCHANGED tables
           /\ cmd' = IF process'.at = "none" THEN NoCommand ELSE cmd
  <2>1. Tables'
    BY <1>3, SurroundingsPreserve
  <2>2. IntroType' /\ Audited' /\ Asked'
    BY <1>3, InvocIntroType, InvocAudited, InvocAsked DEF ProcessStep
  <2>. QED
    BY <2>1, <2>2
<1>4. CASE CommandSteps
  <2>1. ProcessStep
    BY <1>4, CommandIsProcessStep
  <2>2. IntroType' /\ Audited' /\ Asked'
    BY <2>1, InvocIntroType, InvocAudited, InvocAsked
  <2>3. Tables'
    BY <1>4, AddPreserves, CheckoutPreserves, RemovePreserves, CommitHostsPreserves,
       ReadersPreserve, ExportOpenPreserves, ExportItemPreserves, ExportFailsPreserves,
       ImportClusterPreserves, ImportServicePreserves, ImportServiceFailsPreserves,
       ImportUndoPreserves, ServicePreserves DEF CommandSteps
  <2>. QED
    BY <2>2, <2>3
<1>. QED
  BY <1>1, <1>2, <1>3, <1>4 DEF Next, CommandSteps

\* ClustersIInv is an invariant: it is what the theorems below follow from.
THEOREM Invariance == Spec => []ClustersIInv
<1>1. Init => ClustersIInv
  BY InitClustersIInv
<1>2. ClustersIInv /\ [Next]_vars => ClustersIInv'
  BY NextPreserves
<1>. QED
  BY <1>1, <1>2, PTL DEF Spec

-----------------------------------------------------------------------------
(* What follows from it. *)

\* TypeOK, in which the tables have at most one current cluster, and no two clusters
\* with an id or a name, no two services with an id.
THEOREM TypeCorrect == Spec => []TypeOK
<1>1. ClustersIInv => TypeOK
  <2>. SUFFICES ASSUME ClustersIInv PROVE TypeOK
    OBVIOUS
  <2>. USE DEF ClustersIInv
  <2>1. next \in 1 .. MaxClusters + 1 /\ MaxClusters \in Nat
    BY ClustersAssumption DEF TablesType
  <2>2. services \subseteq Row
    BY <2>1 DEF TablesType, Row
  <2>3. \A c, d \in Current : c = d
    BY DEF Unique, UniqueRows, Current, TablesType
  <2>4. /\ \A c, d \in clusters : c.id = d.id \/ c.name = d.name => c = d
        /\ \A r, s \in services : r.id = s.id => r = s
    BY DEF Unique, UniqueRows
  <2>5. file.topology \in Topologies /\ file.broken \in BOOLEAN
    BY DEF TablesType
  <2>6. process.id \in 0 .. Len(audit)
    BY DEF Audited
  <2>. QED
    BY <2>2, <2>3, <2>4, <2>5, <2>6 DEF TablesType, TypeOK
<1>. QED
  BY <1>1, Invariance, PTL

\* What `audit` shows: a command is recorded with the status with which it ended, and
\* one whose status is still abort was killed, panicked, or could not be recorded.
THEOREM AuditIsTruthful == Spec => []AuditTruthful
<1>1. ClustersIInv => AuditTruthful
  BY DEF ClustersIInv, Audited, Recorded1, AuditTruthful
<1>. QED
  BY <1>1, Invariance, PTL

\* The prompt is reached only from the step that notes the version.
LEMMA OnlyNotedPrompts ==
  ASSUME IntroType, ProcessStep, ~ At("prompt"), process'.at = "prompt"
  PROVE  /\ At("note") /\ process'.pending = process.pending /\ process'.today = process.today
<1>. USE DEF IntroType, At, NoProcess, Before
<1>1. CASE UpgradeNote \/ UpgradeNoteFails
  BY <1>1 DEF UpgradeNote, UpgradeNoteFails, GoTo
<1>2. CASE DetectFetch \/ DetectCompare \/ DetectWrite \/ DetectFails \/ NextDay \/ Publish
           \/ SameProcess
  BY <1>2 DEF DetectFetch, DetectCompare, DetectWrite, DetectFails, Detect, NextDay, Publish,
              SameProcess
<1>3. CASE \/ UpgradeDeclined \/ UpgradeAccepted \/ PostAudit \/ PostAuditFails \/ Kill \/ Panic
  BY <1>3 DEF UpgradeDeclined, UpgradeAccepted, PostAudit, PostAuditFails, Kill, Panic, Exit
<1>4. CASE UpgradeRead
  BY <1>4 DEF UpgradeRead
<1>5. CASE UpgradeReadFails \/ NoAudit \/ PreAuditFails \/ PreAudit
  BY <1>5 DEF UpgradeReadFails, NoAudit, PreAuditFails, PreAudit, GoTo
<1>6. CASE (\E b \in BOOLEAN : Start(b)) \/ (\E r \in Result : Return(r)) \/ SelfUpgrade
  BY <1>6 DEF Start, Return, SelfUpgrade
<1>. QED
  BY <1>1, <1>2, <1>3, <1>4, <1>5, <1>6 DEF ProcessStep, Surroundings

\* Nobody is asked twice on a day about the same version, although the goroutine of
\* Detect and the prompt write the same row (tools/upgrade.go).
THEOREM AskedOnlyOnce == Spec => AskedOnceADay
<1>1. ClustersIInv /\ [Next]_vars =>
        [~ At("prompt") /\ process'.at = "prompt" =>
           <<process.pending, process.today>> \notin asked]_ivars
  <2>. SUFFICES ASSUME ClustersIInv, Next, ~ At("prompt"), process'.at = "prompt"
                PROVE  <<process.pending, process.today>> \notin asked
    BY DEF vars, ivars
  <2>1. ProcessStep
    <3>1. CASE Commands
      BY <3>1, CommandsPreserve DEF ProcessStep, ClustersIInv, Tables
    <3>2. CASE Surroundings
      BY <3>2 DEF ProcessStep
    <3>3. CASE CommandSteps
      BY <3>3, CommandIsProcessStep DEF ClustersIInv, Invoc
    <3>. QED
      BY <3>1, <3>2, <3>3 DEF Next, CommandSteps
  <2>2. At("note")
    BY <2>1, OnlyNotedPrompts DEF ClustersIInv
  <2>. QED
    BY <2>2 DEF ClustersIInv, Asked
<1>. QED
  BY <1>1, Invariance, PTL DEF Spec, AskedOnceADay

\* cluster rm without --force never removes a cluster that has an active service.
THEOREM RemovedWereInactive == Spec => RemovesOnlyInactive
<1>1. ClustersIInv /\ [Next]_vars =>
        [Is("rm") /\ ~ cmd.force =>
           \A c \in clusters : (\E d \in clusters' : d.id = c.id) \/ Active(c.id) = {}]_vars
  <2>. SUFFICES ASSUME ClustersIInv, Next, Is("rm"), ~ cmd.force, NEW c \in clusters,
                       clusters' # clusters, c \notin clusters'
                PROVE  Active(c.id) = {}
    OBVIOUS
  <2>1. CASE Commands
    BY <2>1, CommandsPreserve DEF ClustersIInv, Tables, Start, Is, At, Alive
  <2>2. CASE Surroundings /\ UNCHANGED tables
    BY <2>2 DEF tables
  <2>3. CASE CommandSteps
    <3>1. Remove
      BY <2>3 DEF CommandSteps, Add, Checkout, CommitHosts, Audit, Update, CallFails, ExportOpen,
         ExportCluster, ExportService, ExportEnds, ExportFails, ImportCluster, ImportReadFails,
         ImportClusterFails, ImportService, ImportServiceFails, ImportUndo, ImportUndoFails,
         ImportEnds, DeployService, CleanService, ServicesEnd, Is, tables
    <3>2. ~ InUse(cmd.name) /\ DeleteCluster(cmd.name)
      BY <3>1 DEF Remove, Refused, Declined, tables
    <3>3. c.name = cmd.name
      BY <3>2 DEF DeleteCluster
    <3>4. First(cmd.name) = c
      BY <3>3, FirstIsNamed DEF ClustersIInv
    <3>. QED
      BY <3>2, <3>4 DEF InUse
  <2>. QED
    BY <2>1, <2>2, <2>3 DEF Next, CommandSteps
<1>. QED
  BY <1>1, Invariance, PTL DEF Spec, RemovesOnlyInactive

\* Only a command succeeds.
LEMMA SurroundingsNotSuccess ==
  ASSUME Surroundings, IntroType, At("command")
  PROVE  ~ Succeeds
  BY DEF Surroundings, DetectFetch, DetectCompare, DetectWrite, DetectFails, Detect, UpgradeRead,
         UpgradeReadFails, UpgradeNote, UpgradeNoteFails, UpgradeDeclined, UpgradeAccepted,
         PreAudit, NoAudit, PreAuditFails, PostAudit, PostAuditFails, Kill, NextDay, Publish,
         Main, GoTo, Exit, NoProcess, At, Succeeds

\* A command that says it succeeded has done what it is for (Done): the cluster is
\* there, is current, is gone; the file has the cluster and all its services, or the
\* other way round; the services are deployed, or none is recorded active.
THEOREM SuccessIsDone == Spec => SuccessMeansDone
<1>1. ClustersIInv /\ [Next]_vars => [Succeeds => Done']_vars
  <2>. SUFFICES ASSUME ClustersIInv, Next, Succeeds
                PROVE  Done'
    OBVIOUS
  <2>. USE DEF ClustersIInv
  <2>0. At("command") /\ process'.at = "postAudit" /\ process'.result = "success"
    BY DEF Succeeds
  <2>1. CommandSteps
    <3>1. ~ Commands
      BY <2>0, CommandsPreserve DEF Tables, Start, At, Alive
    <3>. QED
      BY <2>0, <3>1, SurroundingsNotSuccess DEF Next, CommandSteps
  <2>2. CASE Add
    <3>1. /\ cmd.op = "add" /\ cmd' = cmd
          /\ clusters' = clusters \cup {[id |-> next, name |-> cmd.name, topology |-> cmd.data,
                                         current |-> FALSE]}
      BY <2>0, <2>2 DEF Add, Refused, Ends, Return, InsertCluster, Is, IntroType
    <3>2. \E c \in clusters' : c.name = cmd.name /\ c.topology = cmd.data
      <4>. PICK row : row = [id |-> next, name |-> cmd.name, topology |-> cmd.data,
                             current |-> FALSE]
        OBVIOUS
      <4>1. row \in clusters' /\ row.name = cmd.name /\ row.topology = cmd.data
        BY <3>1
      <4>. QED
        BY <4>1
    <3>. QED
      BY <3>1, <3>2 DEF Done
  <2>3. CASE Checkout
    <3>1. /\ cmd.op = "checkout" /\ cmd' = cmd
          /\ clusters' = {[c EXCEPT !.current = (c.name = cmd.name)] : c \in clusters}
      BY <2>0, <2>3 DEF Checkout, Refused, Ends, Return, CheckoutCluster, Is, IntroType
    <3>2. ASSUME NEW d \in clusters', d.current
          PROVE  d.name = cmd.name
      <4>1. PICK c \in clusters : d = [c EXCEPT !.current = (c.name = cmd.name)]
        BY <3>1
      <4>2. c \in [id : 1 .. (next - 1), name : Name, topology : Topologies, current : BOOLEAN]
        BY DEF TablesType
      <4>3. d.current = (c.name = cmd.name) /\ d.name = c.name
        BY <4>1, <4>2
      <4>. QED
        BY <3>2, <4>3
    <3>3. \A d \in Current' : d.name = cmd.name
      BY <3>2 DEF Current
    <3>. QED
      BY <3>1, <3>3 DEF Done
  <2>4. CASE Remove
    <3>1. cmd.op = "rm" /\ cmd' = cmd /\ clusters' = {c \in clusters : c.name # cmd.name}
      BY <2>0, <2>4 DEF Remove, Refused, Declined, Ends, Return, DeleteCluster, Is, IntroType
    <3>. QED
      BY <3>1 DEF Done
  <2>5. CASE CommitHosts
    <3>1. cmd.op = "hosts" /\ cmd' = cmd /\ hosts' = cmd.data
      BY <2>0, <2>5 DEF CommitHosts, Refused, Declined, Ends, Return, Is, IntroType
    <3>. QED
      BY <3>1 DEF Done
  <2>6. CASE Audit \/ Update
    <3>1. cmd.op \in {"audit", "update"} /\ cmd' = cmd
      BY <2>6 DEF Audit, Update, Ends, Is
    <3>. QED
      BY <3>1 DEF Done
  <2>7. CASE ExportEnds
    <3>1. /\ cmd.op = "export" /\ cmd.step = 3 /\ cmd.left = {} /\ cmd' = cmd
          /\ UNCHANGED tables
      BY <2>7 DEF ExportEnds, Ends, Is
    <3>2. /\ Taken(cmd.name) /\ ~ file.broken /\ file.services = ExportedOf(First(cmd.name))
          /\ file.topology = First(cmd.name).topology
      BY <2>0, <3>1 DEF Progress, Is
    <3>3. First(cmd.name) \in Matching(cmd.name)
      BY <3>2, FirstMatches
    <3>4. \E c \in Matching(cmd.name) : Holds(c, file)
      BY <3>2, <3>3 DEF Holds, ExportedOf
    <3>5. (\E c \in Matching(cmd.name) : Holds(c, file))'
      BY <3>1, <3>4 DEF Matching, Holds, GetServices, tables
    <3>. QED
      BY <3>1, <3>2, <3>5 DEF Done, tables
  <2>8. CASE ImportEnds
    <3>1. /\ cmd.op = "import" /\ cmd.step = 2 /\ cmd.left = {} /\ cmd' = cmd
          /\ UNCHANGED tables
      BY <2>8 DEF ImportEnds, Ends, Is
    <3>2. \E c \in clusters : c.name = cmd.name /\ Holds(c, file)
      BY <2>0, <3>1 DEF Progress, Is, Holds, ExportedOf
    <3>3. (\E c \in clusters : c.name = cmd.name /\ Holds(c, file))'
      BY <3>1, <3>2 DEF Holds, GetServices, tables
    <3>. QED
      BY <3>1, <3>3 DEF Done
  <2>9. CASE ServicesEnd
    <3>1. /\ cmd.op \in {"deploy", "clean"} /\ cmd.step = 2 /\ cmd.left = {} /\ cmd' = cmd
          /\ UNCHANGED tables
      BY <2>9 DEF ServicesEnd, Ends, Is
    <3>2. \A s \in Service :
            \E r \in services : r.id = ServiceId(s) /\ r.active = (cmd.op = "deploy")
      BY <2>0, <3>1 DEF Progress, Is
    <3>3. \A s \in Service : ServiceId(s)' = ServiceId(s)
      BY <3>1 DEF ServiceId
    <3>4. services' = services
      BY <3>1 DEF tables
    <3>5. CASE cmd.op = "deploy"
      <4>1. (\A s \in Service : \E r \in services : r.id = ServiceId(s) /\ r.active)'
        BY <3>2, <3>3, <3>4, <3>5
      <4>. QED
        BY <3>1, <3>5, <4>1 DEF Done
    <3>6. CASE cmd.op = "clean"
      <4>1. (\A s \in Service : \E r \in services : r.id = ServiceId(s) /\ ~ r.active)'
        BY <3>2, <3>3, <3>4, <3>6
      <4>. QED
        BY <3>1, <3>6, <4>1 DEF Done
    <3>. QED
      BY <3>1, <3>5, <3>6
  <2>10. ASSUME \/ CallFails \/ ExportOpen \/ ExportCluster \/ ExportService \/ ExportFails
                \/ ImportCluster \/ ImportReadFails \/ ImportClusterFails \/ ImportService
                \/ ImportServiceFails \/ ImportUndo \/ ImportUndoFails
                \/ DeployService \/ CleanService
         PROVE  FALSE
    <3>1. CASE CallFails \/ ImportReadFails \/ ImportUndo \/ ImportUndoFails
      BY <2>0, <3>1 DEF CallFails, ImportReadFails, ImportUndo, ImportUndoFails, Ends, Return,
         IntroType
    <3>6. CASE ImportClusterFails
      BY <2>0, <3>6 DEF ImportClusterFails, Panic, Exit, NoProcess
    <3>7. CASE ExportFails
      <4>1. CASE Return("fail")
        BY <2>0, <4>1 DEF Return, IntroType
      <4>2. CASE Kill
        BY <2>0, <4>2 DEF Kill, Exit, NoProcess
      <4>. QED
        BY <3>7, <4>1, <4>2 DEF ExportFails
    <3>2. CASE ExportCluster \/ ExportService \/ ImportServiceFails
      BY <2>0, <3>2 DEF ExportCluster, ExportService, ImportServiceFails, Goes, ivars, At
    <3>3. CASE ImportService
      BY <2>0, <3>3 DEF ImportService, Goes, ivars, At
    <3>4. CASE ExportOpen \/ ImportCluster \/ DeployService
      BY <2>0, <3>4 DEF ExportOpen, ImportCluster, DeployService, Refused, Ends, Return, Goes,
         ivars, At, IntroType
    <3>5. CASE CleanService
      BY <2>0, <3>5 DEF CleanService, Refused, Declined, Ends, Return, Goes, ivars, At, IntroType
    <3>. QED
      BY <2>10, <3>1, <3>2, <3>3, <3>4, <3>5, <3>6, <3>7
  <2>. QED
    BY <2>1, <2>2, <2>3, <2>4, <2>5, <2>6, <2>7, <2>8, <2>9, <2>10 DEF CommandSteps
<1>. QED
  BY <1>1, Invariance, PTL DEF Spec, SuccessMeansDone

=============================================================================
