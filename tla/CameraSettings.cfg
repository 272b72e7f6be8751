\* Three parameters that depend on each other, and a request that fails.
CONSTANTS
  Keys = {"scene_mode", "focus_mode", "flash_mode"}
  MaxFailures = 1
SPECIFICATION Spec
INVARIANTS SettingsAgree Reflected TorchOff StillsAfterRecording
