---------------------------- MODULE MCSensorsPoll ----------------------------
(* Readers so small that a packet may not fit into one.                     *)
EXTENDS SensorsPoll

SmallReaders == [proximity |-> 2, bosch |-> 2, akm |-> 2]
=============================================================================
