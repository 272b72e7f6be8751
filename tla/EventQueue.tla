------------------------------ MODULE EventQueue ------------------------------
(***************************************************************************)
(* What a sensor driver expects of its reader of input events: a bounded   *)
(* queue.  A fill puts what the kernel has returned at the end, never more *)
(* than there is room for; the oldest event is looked at as often as one   *)
(* likes, and leaves with next.                                            *)
(***************************************************************************)
EXTENDS Integers, Sequences

CONSTANTS Events,     \* input events
          Capacity    \* how many of them the queue holds

VARIABLES queue, received   \* the events of the last read

QueueInit == queue = << >> /\ received = << >>

Fill == \E k \in 0 .. Capacity - Len(queue) : \E s \in [1 .. k -> Events] :
          received' = s /\ queue' = queue \o s

Take == queue # << >> /\ queue' = Tail(queue) /\ UNCHANGED received

QueueNext == Fill \/ Take

QueueSpec == QueueInit /\ [][QueueNext]_<<queue, received>>
=============================================================================
