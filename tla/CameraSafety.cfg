CONSTANTS
  None = None
  w1 = w1
  w2 = w2
  b1 = b1
  b2 = b2
  Windows = {w1, w2}
  Buffers = {b1}
  Calls = {"setPreviewWindow", "startPreview", "stopPreview", "startRecording", "stopRecording", "takePicture", "cancelPicture", "autoFocus", "cancelAutoFocus", "release", "open"}
  Faults = {"window", "stall", "frame", "record", "address", "capture", "focus"}
  Orderly = FALSE
  INITIAL_SKIP_FRAME = 1
SPECIFICATION Spec
SYMMETRY Alike
CHECK_DEADLOCK FALSE
INVARIANTS NoFrameWhenStopped HeapNotInUse CaptureAlone RecordedFrames FocusAsleep
PROPERTY FrameOfWindow
