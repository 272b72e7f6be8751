CONSTANTS
  OutDevices = {"headset", "speaker+headset"}
  InDevices = {"main mic", "headset mic"}
  Sources = {"default", "communication"}
  Volumes = {"low", "high"}
  MaxCalls = 3
SPECIFICATION Spec
INVARIANTS RadioPlays
PROPERTIES CaptureRoute PlaybackRoute VoiceRouting VoiceVolume DevicesCounted
