CONSTANTS
  Threads = {player, recorder, control}
  Outs = {o1}
  Ins = {i1}
  EchoRefs = {e1, e2, e3}
  None = none
  Player = player
  Recorder = recorder
  Ops <- EchoOps
  Faults <- EchoFaults
SPECIFICATION Spec
INVARIANTS
  LockOrder
  EchoValid
PROPERTIES
  EchoGuarded
