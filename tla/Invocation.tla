------------------------------ MODULE Invocation ------------------------------
(***************************************************************************)
(* What surrounds every command of curveadm: a process opens the database, *)
(* looks for a newer version in a goroutine of its own, offers it to the   *)
(* operator at most once a day, records the command as aborted, executes   *)
(* it, and corrects the record by its result.  The process may be killed   *)
(* at any point, the command may panic, and a call of the database fail.   *)
(*                                                                         *)
(* The commands are those of the module that extends this one: it starts   *)
(* a process with Start, and ends the command with Return or Panic.        *)
(***************************************************************************)
EXTENDS Integers, Sequences

CONSTANTS
  AutoUpgrade,  \* curveadm.cfg: auto_upgrade
  Fault,        \* the kinds of failure considered
  MaxCommands,  \* bound: how many processes are started
  MaxVersion,   \* bound: the last version that is published
  MaxDay,       \* bound: the last day
  MaxFaults     \* bound: how many failures happen

ASSUME InvocationAssumption ==
  /\ AutoUpgrade \in BOOLEAN
  /\ Fault \subseteq {"database", "file", "kill"}
  /\ {MaxCommands, MaxVersion, MaxDay, MaxFaults} \subseteq Nat

Version == 1 .. MaxVersion
Never == 0                        \* lastconfirm of a version nobody was asked about
NoVersion == [version |-> 0, confirmed |-> Never]

VARIABLES
  day,        \* today
  latest,     \* the version that is published
  installed,  \* the version of the program
  version,    \* the row of the version table, or NoVersion
  process,    \* the process: where it is, and what it remembers
  detect,     \* its goroutine detectVersion
  audit,      \* the audit table: the status of each record
  fate,       \* history: what became of the command of each record
  asked,      \* history: the <<version, day>> of which the table noted a question
  commands,   \* how many processes have been started
  faults      \* how many failures have happened

release == <<day, latest, installed>>
log == <<audit, fate>>
ivars == <<release, version, process, detect, log, asked, commands, faults>>

None == 0
NoDetect == [at |-> "done", found |-> None]
NoProcess == [at |-> "none", audited |-> FALSE, pending |-> None, today |-> None, id |-> None,
              result |-> "none"]

InvocationInit ==
  /\ day = 1 /\ latest \in Version /\ installed = 1
  /\ version = NoVersion /\ process = NoProcess /\ detect = NoDetect
  /\ audit = <<>> /\ fate = <<>> /\ asked = {} /\ commands = 0 /\ faults = 0

At(step) == process.at = step
Alive == process.at # "none"
GoTo(step) == process' = [process EXCEPT !.at = step] /\ UNCHANGED detect

Failure(kind) == kind \in Fault /\ faults < MaxFaults /\ faults' = faults + 1
DatabaseFails == Failure("database")

\* NewCurveAdm.  What the command itself reads here is up to the command.
Start(audited) ==
  /\ ~ Alive /\ commands < MaxCommands
  /\ commands' = commands + 1
  /\ process' = [NoProcess EXCEPT !.at = IF AutoUpgrade THEN "upgrade" ELSE "preAudit",
                                  !.audited = audited]
  /\ detect' = [NoDetect EXCEPT !.at = "fetch"]
  /\ UNCHANGED <<release, version, log, asked, faults>>

-----------------------------------------------------------------------------
(* The goroutine. *)

Detect(next) == detect' = next /\ UNCHANGED <<release, process, log, asked, commands>>

\* GetLatestVersion: nothing comes back if the program is up to date.
DetectFetch ==
  /\ Alive /\ detect.at = "fetch"
  /\ Detect(IF latest > installed THEN [at |-> "compare", found |-> latest] ELSE NoDetect)
  /\ UNCHANGED <<version, faults>>

\* Variant: the version that is already known is written again.
DetectCompareAlways ==
  /\ Alive /\ detect.at = "compare"
  /\ Detect([detect EXCEPT !.at = "write"])
  /\ UNCHANGED <<version, faults>>

DetectCompare ==
  /\ Alive /\ detect.at = "compare"
  /\ Detect(IF version.version = detect.found THEN NoDetect ELSE [detect EXCEPT !.at = "write"])
  /\ UNCHANGED <<version, faults>>

DetectWrite ==
  /\ Alive /\ detect.at = "write"
  /\ Detect(NoDetect)
  /\ version' = [version |-> detect.found, confirmed |-> Never]
  /\ UNCHANGED faults

DetectFails ==
  /\ Alive /\ detect.at \in {"compare", "write"}
  /\ DatabaseFails
  /\ Detect(NoDetect)
  /\ UNCHANGED version

-----------------------------------------------------------------------------
(* Upgrade: what the version table offers. *)

Main == UNCHANGED <<release, log, commands>>

\* The goroutine ends with its process.
Exit == process' = NoProcess /\ detect' = NoDetect

Offered == version # NoVersion /\ version.version > installed /\ version.confirmed # day

UpgradeRead ==
  /\ At("upgrade")
  /\ process' = IF Offered
                THEN [process EXCEPT !.at = "note", !.pending = version.version, !.today = day]
                ELSE [process EXCEPT !.at = "preAudit"]
  /\ Main /\ UNCHANGED <<detect, version, asked, faults>>

UpgradeReadFails ==
  /\ At("upgrade") /\ DatabaseFails
  /\ GoTo("preAudit")
  /\ Main /\ UNCHANGED <<version, asked>>

UpgradeNote ==
  /\ At("note")
  /\ version' = [version |-> process.pending, confirmed |-> process.today]
  /\ asked' = asked \cup {<<process.pending, process.today>>}
  /\ GoTo("prompt")
  /\ Main /\ UNCHANGED faults

\* The operator is asked all the same.
UpgradeNoteFails ==
  /\ At("note") /\ DatabaseFails
  /\ GoTo("prompt")
  /\ Main /\ UNCHANGED <<version, asked>>

\* Neither answer executes the command: it is the next process that does.
UpgradeDeclined ==
  /\ At("prompt")
  /\ Exit
  /\ Main /\ UNCHANGED <<version, asked, faults>>

\* The installation script installs the version asked for, or fails.
UpgradeAccepted ==
  /\ At("prompt")
  /\ Exit
  /\ installed' \in {installed, process.pending}
  /\ UNCHANGED <<day, latest, version, log, asked, commands, faults>>

-----------------------------------------------------------------------------
(* The audit record. *)

PreAudit ==
  /\ At("preAudit") /\ process.audited
  /\ audit' = Append(audit, "abort") /\ fate' = Append(fate, "running")
  /\ process' = [process EXCEPT !.at = "command", !.id = Len(audit) + 1]
  /\ UNCHANGED <<release, version, detect, asked, commands, faults>>

\* No arguments, `audit`, or the shell's completion: id -1.
NoAudit ==
  /\ At("preAudit") /\ ~ process.audited
  /\ GoTo("command")
  /\ Main /\ UNCHANGED <<version, asked, faults>>

PreAuditFails ==
  /\ At("preAudit") /\ process.audited /\ DatabaseFails
  /\ GoTo("command")
  /\ Main /\ UNCHANGED <<version, asked>>

Becomes(what) == fate' = IF process.id = None THEN fate ELSE [fate EXCEPT ![process.id] = what]

\* The command has returned nil, ERR_CANCEL_OPERATION, or another error.
Return(result) ==
  /\ At("command")
  /\ process' = [process EXCEPT !.at = "postAudit", !.result = result]
  /\ Becomes(result)
  /\ UNCHANGED <<release, version, detect, audit, asked, commands>>

\* Variant: a cancelled command counts as failed.
StatusNoCancel(result) == IF result = "success" THEN "success" ELSE "fail"

Status(result) == result

PostAudit ==
  /\ At("postAudit")
  /\ audit' = IF process.id = None THEN audit ELSE [audit EXCEPT ![process.id] = Status(process.result)]
  /\ Exit
  /\ UNCHANGED <<release, version, fate, asked, commands, faults>>

PostAuditFails ==
  /\ At("postAudit") /\ process.id # None /\ DatabaseFails
  /\ Becomes("unrecorded")
  /\ Exit
  /\ UNCHANGED <<release, version, audit, asked, commands>>

Panic ==
  /\ At("command")
  /\ Becomes("died")
  /\ Exit
  /\ UNCHANGED <<release, version, audit, asked, commands>>

Kill ==
  /\ Alive /\ Failure("kill")
  /\ Becomes("died")
  /\ Exit
  /\ UNCHANGED <<release, version, audit, asked, commands>>

\* curveadm -u: Upgrade2Latest.  To decline is a success.
SelfUpgrade ==
  /\ At("command")
  /\ \E offered \in {TRUE, FALSE}, result \in {"success", "fail"} :
       /\ installed' = IF offered /\ latest > installed /\ result = "success" THEN latest ELSE installed
       /\ process' = [process EXCEPT !.at = "postAudit", !.result = result]
       /\ Becomes(result)
  /\ UNCHANGED <<day, latest, version, detect, audit, asked, commands, faults>>

-----------------------------------------------------------------------------

NextDay ==
  /\ day < MaxDay /\ day' = day + 1
  /\ UNCHANGED <<latest, installed, version, process, detect, log, asked, commands, faults>>

Publish ==
  /\ latest < MaxVersion /\ latest' = latest + 1
  /\ UNCHANGED <<day, installed, version, process, detect, log, asked, commands, faults>>

\* Everything but the command, which changes only these variables.
Surroundings ==
  \/ DetectFetch \/ DetectCompare \/ DetectWrite \/ DetectFails
  \/ UpgradeRead \/ UpgradeReadFails \/ UpgradeNote \/ UpgradeNoteFails
  \/ UpgradeDeclined \/ UpgradeAccepted
  \/ PreAudit \/ NoAudit \/ PreAuditFails \/ PostAudit \/ PostAuditFails
  \/ Kill \/ NextDay \/ Publish

-----------------------------------------------------------------------------

(* The operator is asked about a version again only on another day: once a   *)
(* question has been noted, no interleaving of the goroutine that looks for  *)
(* versions with the offer, in this process or later ones, makes curveadm    *)
(* ask it again that day.                                                    *)
AskedOnceADay ==
  [][~ At("prompt") /\ process'.at = "prompt" => <<process.pending, process.today>> \notin asked]_ivars

(* What `curveadm audit` shows of a command is what became of it: a result   *)
(* only if the command returned it, and aborted only if it still runs, died, *)
(* or its result could not be written.                                       *)
AuditTruthful ==
  /\ Len(fate) = Len(audit)
  /\ \A i \in 1 .. Len(audit) :
       IF audit[i] = "abort"
       THEN fate[i] \in {"died", "unrecorded"} \/ process.id = i
       ELSE fate[i] = audit[i]

=============================================================================
