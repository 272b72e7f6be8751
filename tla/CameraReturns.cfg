CONSTANTS
  None = None
  w1 = w1
  w2 = w2
  b1 = b1
  b2 = b2
  Windows = {w1}
  Buffers = {b1, b2}
  Calls = {"setPreviewWindow", "startPreview", "stopPreview", "startRecording", "stopRecording"}
  Faults = {"start", "stop", "stall", "input", "record"}
  Orderly = TRUE
  INITIAL_SKIP_FRAME = 0
SPECIFICATION FairSpec
CHECK_DEADLOCK FALSE
PROPERTIES CallsReturn RecordingFlows
