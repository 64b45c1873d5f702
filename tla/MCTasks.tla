------------------------------- MODULE MCTasks -------------------------------
(***************************************************************************)
(* Three tasks: grouped under one parent id, under two, or each its own;   *)
(* the options are the four ways to silence the bars (the commands pass    *)
(* three of them), with a limit below the number of tasks, a limit of one, *)
(* and the default.                                                        *)
(***************************************************************************)
EXTENDS Tasks

CONSTANTS p, q, r

MCPtid == {p, q, r}

MCGroupings == {<<p, p, p>>, <<p, q, p>>, <<p, q, r>>}

Opt(c, silentMain, silentSub) ==
  [Concurrency |-> c, SilentMainBar |-> silentMain, SilentSubBar |-> silentSub]

MCExecOptions ==
  {Opt(0, FALSE, FALSE), Opt(1, FALSE, FALSE), Opt(2, FALSE, FALSE),
   Opt(2, FALSE, TRUE), Opt(2, TRUE, TRUE), Opt(2, TRUE, FALSE)}

=============================================================================
