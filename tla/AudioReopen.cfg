CONSTANTS
  Threads = {player, recorder, control}
  Outs = {o1, o2}
  Ins = {i1, i2}
  EchoRefs = {e1, e2, e3}
  None = none
  Player = player
  Recorder = recorder
  Ops <- ReopenOps
  Faults <- DeviceFaults
SPECIFICATION Spec
INVARIANTS
  SharedDevicesCounted
  StandbyClosed
CHECK_DEADLOCK FALSE
