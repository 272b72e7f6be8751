------------------------------ MODULE LatestValue ------------------------------
(***************************************************************************)
(* What the location service expects of each callback of the GPS HAL: it   *)
(* need not be told of every change, but what it is told is the value at   *)
(* that time, whole, and the last change is always told.                   *)
(***************************************************************************)
EXTENDS Naturals

VARIABLES value,      \* the number of the last change
          reported    \* the number of the change last told

ValueInit == value = 0 /\ reported = 0

Change == value' = value + 1 /\ UNCHANGED reported

Tell == reported' = value /\ UNCHANGED value

ValueNext == Change \/ Tell

ValueSpec == ValueInit /\ [][ValueNext]_<<value, reported>>

FairValueSpec == ValueSpec /\ WF_<<value, reported>>(Tell)
=============================================================================
