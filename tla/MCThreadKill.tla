---------------------------- MODULE MCThreadKill ----------------------------
(* Instances of ThreadKill for TLC.                                        *)
EXTENDS ThreadKill

KillCalls == {"create", "yield", "exit", "sleep", "wakeup", "wait", "kill"}
=============================================================================
