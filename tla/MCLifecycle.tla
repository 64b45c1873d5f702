----------------------------- MODULE MCLifecycle -----------------------------
(***************************************************************************)
(* The roles the code treats differently: an mds, a chunkserver whose      *)
(* container mounts its disk, and a snapshotclone, which deploy can skip.  *)
(***************************************************************************)
EXTENDS Lifecycle

CONSTANTS m, c, n

MCServiceAll == {m, c, n}
MCService == {m, c}

RoleOf(s) == CASE s = m -> "mds" [] s = c -> "chunkserver" [] s = n -> "snapshotclone"

MCRoleAll == [s \in MCServiceAll |-> RoleOf(s)]
MCRole == [s \in MCService |-> RoleOf(s)]

MCDisk == {c}

AllFaults == {"remote", "database", "lost", "crash", "exit"}

=============================================================================
