--------------------------- MODULE MCThreadSched ---------------------------
(* Instances of ThreadSched for TLC.                                       *)
EXTENDS ThreadSched

AllCalls  == {"create", "create_when_full", "create_without_memory", "yield",
              "exit", "sleep", "wakeup", "wait"}
GoodCalls == AllCalls \ {"create_when_full", "create_without_memory"}
=============================================================================
