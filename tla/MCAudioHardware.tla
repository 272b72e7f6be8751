--------------------------- MODULE MCAudioHardware ---------------------------
(* The entry points and the faults of each instance of AudioHardware given  *)
(* to the model checker.                                                    *)
EXTENDS AudioHardware

(* The stream methods, without the echo canceller.                          *)
StreamOps == {"write", "outStandby", "outRouting", "read", "inStandby",
              "inRouting", "inSource"}

(* One output and one input that stay open, every call but the effects.     *)
ModeOps == StreamOps \cup {"openOut", "openIn", "setMode", "setMicMute"}

(* The echo canceller, without setMode.                                     *)
EchoOps == (StreamOps \ {"outRouting", "inRouting", "inSource"})
             \cup {"openOut", "openIn", "setMicMute", "addAec", "removeAec"}

(* Streams closed and opened again while they are in use.                   *)
ReopenOps == {"write", "outStandby", "read", "inStandby", "setMicMute",
              "openOut", "openIn", "closeOut", "closeIn"}

LiveOps == {"write", "outStandby", "read", "inStandby", "setMode", "setMicMute",
            "openOut", "openIn"}

EchoFaults == {"pcmOut", "mixer", "io", "echo"}

DeviceFaults == {"pcmOut", "pcmIn", "mixer", "io"}

NoFaults == {}

=============================================================================
