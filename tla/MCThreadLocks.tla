--------------------------- MODULE MCThreadLocks ---------------------------
(* An instance of ThreadLocks for TLC.  The threads also sleep in a queue   *)
(* of their own and wait for each other.  The timer makes every             *)
(* interleaving that calls of thread_yield would.                           *)
EXTENDS ThreadLocks

CONSTANT OwnQueue

LockCalls  == {"create", "exit", "lock", "sleep", "wakeup", "wait"}
LockQueues == Locks \cup CVs \cup {OwnQueue}
=============================================================================
