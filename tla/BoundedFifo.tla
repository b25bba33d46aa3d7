----------------------------- MODULE BoundedFifo -----------------------------
(***************************************************************************)
(* What the request queue of the web server promises, without threads,     *)
(* locks or a ring: connections are handed over one at a time, in the      *)
(* order in which they were accepted, at most Capacity are in the queue,   *)
(* and none is lost, repeated or invented.                                 *)
(***************************************************************************)
EXTENDS Naturals, Sequences

CONSTANTS Conns,        \* connections
          Capacity      \* sv->max_requests

VARIABLES queue,        \* accepted and not yet handed to a worker
          delivered     \* handed to a worker, oldest first

vars == <<queue, delivered>>

Init == queue = <<>> /\ delivered = <<>>

Put(c) ==
    /\ Len(queue) < Capacity
    /\ queue' = Append(queue, c)
    /\ UNCHANGED delivered

Get ==
    /\ queue # <<>>
    /\ delivered' = Append(delivered, Head(queue))
    /\ queue' = Tail(queue)

Next == Get \/ \E c \in Conns : Put(c)

Spec == Init /\ [][Next]_vars
=============================================================================
