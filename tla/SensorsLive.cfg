\* Two devices that go on sending, and room for two events: a pass over the
\* drivers may use it up, the first driver alone may not.
CONSTANTS
  Devices = {"proximity", "bosch"}
  ReaderSize <- SmallReaders
  Counts = {2}
  ReadErrors = {}
  PollMayFail = FALSE
  IoctlMayFail = FALSE
  Noisy = {}
  MaxQueue = 2
  MaxActivates = 1
  MaxErrors = 0
SPECIFICATION FairSpec
CHECK_DEADLOCK FALSE
INVARIANTS BlocksOnlyOnLeftover
PROPERTIES PendingReported DevicesServed
