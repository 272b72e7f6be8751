\* Little room in data: packets of akm are cut in two and left in the readers.
CONSTANTS
  Devices = {"akm"}
  ReaderSize <- SmallReaders
  Counts = {1, 2}
  ReadErrors = {1}
  PollMayFail = TRUE
  IoctlMayFail = TRUE
  Noisy = {"akm"}
  MaxQueue = 4
  MaxActivates = 1
  MaxErrors = 1
SPECIFICATION Spec
CHECK_DEADLOCK FALSE
INVARIANTS OnePerPacket NothingHeldBack
