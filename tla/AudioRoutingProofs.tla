--------------------------- MODULE AudioRoutingProofs ---------------------------
(***************************************************************************)
(* All properties of AudioRouting, for every set of devices, sources and   *)
(* volumes, any number of calls on the interface, any number of deaths of  *)
(* the radio daemon, and pings and requests that fail on a live socket.    *)
(*                                                                         *)
(* What a handler does to the devices is a composition of the functions of *)
(* AudioRouting, so first comes what each of them does to the counts and   *)
(* to the controls; then the invariant; then the properties, action by     *)
(* action.                                                                 *)
(***************************************************************************)
EXTENDS AudioRouting, TLAPS

HwFields ==
  [pcm : Nat, mixer : Nat, mInputSource : Sources \cup {DEFAULT},
   playback : AllOutDevices \cup {Unset}, capture : InDevices \cup {Unset},
   source : (Sources \ {DEFAULT}) \cup {"camcorder", Unset},
   voice : AllOutDevices \cup {"off", "full", Unset}]

-----------------------------------------------------------------------------
(* What the functions do to the devices.                                   *)

Selected(h) == h.source = SourcePath(h.mInputSource)

(* g has the controls of h.                                                *)
SameControls(g, h) ==
  /\ g.playback = h.playback /\ g.capture = h.capture /\ g.voice = h.voice
  /\ g.source = h.source /\ g.mInputSource = h.mInputSource

SameCounts(g, h) == g.pcm = h.pcm /\ g.mixer = h.mixer

(* Opening and closing change the counts alone.                            *)
LEMMA MixerOpened ==
  ASSUME NEW h \in HwFields
  PROVE  /\ openMixer_l(h) \in HwFields /\ SameControls(openMixer_l(h), h)
         /\ openMixer_l(h).pcm = h.pcm
         /\ openMixer_l(h).mixer = h.mixer + 1
  BY DEF HwFields, openMixer_l, SameControls

(* Closing counts down, and never below zero.                              *)
LEMMA MixerClosed ==
  ASSUME NEW h \in HwFields
  PROVE  /\ closeMixer_l(h) \in HwFields /\ SameControls(closeMixer_l(h), h)
         /\ closeMixer_l(h).pcm = h.pcm
         /\ closeMixer_l(h).mixer = Less(h.mixer)
<1>1. Less(h.mixer) \in Nat
  BY DEF HwFields, Less
<1>2. closeMixer_l(h) = [h EXCEPT !.mixer = Less(h.mixer)]
  BY DEF closeMixer_l, HwFields
<1>3. closeMixer_l(h) \in HwFields
  BY <1>1, <1>2 DEF HwFields
<1> QED
  BY <1>2, <1>3 DEF HwFields, SameControls

(* The playback device with the mixer, opened                              *)
LEMMA BothOpened ==
  ASSUME NEW h \in HwFields
  PROVE  /\ Opened(h) \in HwFields /\ SameControls(Opened(h), h)
         /\ Opened(h).pcm = h.pcm + 1
         /\ Opened(h).mixer = h.mixer + 1
<1> DEFINE g == [h EXCEPT !.pcm = h.pcm + 1]
<1>1. h.pcm + 1 \in Nat
  BY DEF HwFields
<1>2. g \in HwFields
  BY <1>1 DEF HwFields
<1>3. g.pcm = h.pcm + 1 /\ g.mixer = h.mixer /\ SameControls(g, h)
  BY DEF HwFields, SameControls
<1>4. Opened(h) = openMixer_l(g)
  BY DEF Opened, HwFields
<1> HIDE DEF g
<1> QED
  BY <1>2, <1>3, <1>4, MixerOpened DEF SameControls

(* and closed.                                                             *)
LEMMA BothClosed ==
  ASSUME NEW h \in HwFields
  PROVE  /\ Closed(h) \in HwFields /\ SameControls(Closed(h), h)
         /\ Closed(h).pcm = Less(h.pcm)
         /\ Closed(h).mixer = Less(h.mixer)
<1> DEFINE g == [h EXCEPT !.pcm = Less(h.pcm)]
<1>1. Less(h.pcm) \in Nat
  BY DEF HwFields, Less
<1>2. g \in HwFields
  BY <1>1 DEF HwFields
<1>3. g.pcm = Less(h.pcm) /\ g.mixer = h.mixer /\ SameControls(g, h)
  BY DEF HwFields, SameControls
<1>4. Closed(h) = closeMixer_l(g)
  BY DEF Closed, HwFields
<1> HIDE DEF g
<1> QED
  BY <1>2, <1>3, <1>4, MixerClosed DEF SameControls

(* Selecting changes one control, on a mixer that is open.                 *)
LEMMA PlaybackSelected ==
  ASSUME NEW h \in HwFields, NEW v \in AllOutDevices
  PROVE  LET g == Select(h, "playback", v)
         IN  /\ g \in HwFields /\ SameCounts(g, h)
             /\ g.capture = h.capture /\ g.voice = h.voice
             /\ g.source = h.source /\ g.mInputSource = h.mInputSource
             /\ g.playback = IF h.mixer = 0 THEN h.playback ELSE v
  BY DEF HwFields, Select, SameCounts

(* The same for the route of the input,                                    *)
LEMMA CaptureSelected ==
  ASSUME NEW h \in HwFields, NEW v \in InDevices
  PROVE  LET g == Select(h, "capture", v)
         IN  /\ g \in HwFields /\ SameCounts(g, h)
             /\ g.playback = h.playback /\ g.voice = h.voice
             /\ g.source = h.source /\ g.mInputSource = h.mInputSource
             /\ g.capture = IF h.mixer = 0 THEN h.capture ELSE v
  BY DEF HwFields, Select, SameCounts

(* and for the voice path.                                                 *)
LEMMA VoiceSelected ==
  ASSUME NEW h \in HwFields, NEW v \in AllOutDevices \cup {"off", "full"}
  PROVE  LET g == Select(h, "voice", v)
         IN  /\ g \in HwFields /\ SameCounts(g, h)
             /\ g.playback = h.playback /\ g.capture = h.capture
             /\ g.source = h.source /\ g.mInputSource = h.mInputSource
             /\ g.voice = IF h.mixer = 0 THEN h.voice ELSE v
  BY DEF HwFields, Select, SameCounts

(* Only a source set in a call, or on a closed mixer, is not selected.     *)
LEMMA SourceSet ==
  ASSUME NEW h \in HwFields, NEW source \in Sources \cup {DEFAULT}, NEW mode \in Modes
  PROVE  LET g == setInputSource_l(h, source, mode)
         IN  /\ g \in HwFields /\ SameCounts(g, h)
             /\ g.playback = h.playback /\ g.capture = h.capture /\ g.voice = h.voice
             /\ h.mixer # 0 /\ (source = DEFAULT \/ mode # "in call") /\ Selected(h)
                  => Selected(g)
             /\ source = h.mInputSource => g = h
<1>1. SourcePath(source) \in (Sources \ {DEFAULT}) \cup {"camcorder"}
  BY DEF SourcePath
<1>2. CASE source = h.mInputSource
  BY <1>2 DEF setInputSource_l, SameCounts
<1>3. CASE /\ source # h.mInputSource
           /\ setInputSource_l(h, source, mode) = [h EXCEPT !.mInputSource = source]
           /\ (source # DEFAULT /\ mode = "in call") \/ h.mixer = 0
  BY <1>3 DEF HwFields, SameCounts
<1>4. CASE setInputSource_l(h, source, mode) = h /\ source # h.mInputSource
  BY <1>4 DEF SameCounts
<1>5. CASE /\ source # h.mInputSource
           /\ setInputSource_l(h, source, mode)
                = [h EXCEPT !.mInputSource = source, !.source = SourcePath(source)]
  BY <1>1, <1>5 DEF HwFields, SameCounts, Selected
<1> QED
  BY <1>2, <1>3, <1>4, <1>5 DEF setInputSource_l

-----------------------------------------------------------------------------
(* The types of the HAL's state.                                           *)

Types ==
  /\ mMode \in Modes /\ mInCallAudioMode \in BOOLEAN
  /\ mVoiceVol \in Volumes /\ mTTYMode \in {"off", "full"}
  /\ hw \in HwFields
  /\ out \in [device : OutDevices, active : BOOLEAN]
  /\ in \in [device : InDevices, active : BOOLEAN]
  /\ mFmFd \in BOOLEAN /\ mFmResumeAfterCall \in BOOLEAN /\ asked \in BOOLEAN
  /\ caller.at = "setMode" => caller.read \in Modes
  /\ caller.at \in {"tty", "fm"} => caller.read \in OutDevices
  /\ daemon \in [Commands -> {NoRequest} \cup AllOutDevices \cup Volumes]

(* The devices of an output are devices of the codec.                      *)
LEMMA Devices ==
  ASSUME NEW device \in OutDevices
  PROVE  /\ device \in AllOutDevices /\ FmDevice(device) \in AllOutDevices
         /\ PathOf(device) \in AllOutDevices
         /\ \A tty \in {"off", "full"} :
              VoiceRoute(device, tty) \in AllOutDevices \cup {"off", "full"}
<1>1. device \in AllOutDevices
  BY RoutingAssumption
<1>2. FmDevice(device) \in AllOutDevices /\ PathOf(device) \in AllOutDevices
  BY <1>1 DEF FmDevice, PathOf, AllOutDevices
<1>3. ASSUME NEW tty \in {"off", "full"}
      PROVE  VoiceRoute(device, tty) \in AllOutDevices \cup {"off", "full"}
  BY <1>1 DEF VoiceRoute
<1> QED
  BY <1>1, <1>2, <1>3

(* An output that starts has its route, unless there is a call.            *)
LEMMA OutDoes ==
  ASSUME Types, NEW h \in HwFields
  PROVE  LET g == OutOpened(h)
         IN  /\ g \in HwFields /\ g.pcm = h.pcm + 1 /\ g.mixer = h.mixer + 1
             /\ g.capture = h.capture /\ g.voice = h.voice
             /\ g.source = h.source /\ g.mInputSource = h.mInputSource
             /\ g.playback = IF mMode = "in call" THEN h.playback ELSE out.device
<1>1. out.device \in AllOutDevices
  BY RoutingAssumption DEF Types
<1>2. h.mixer \in Nat
  BY DEF HwFields
<1> DEFINE o == Opened(h)
<1>3. /\ o \in HwFields /\ SameControls(o, h)
      /\ o.pcm = h.pcm + 1 /\ o.mixer = h.mixer + 1
  BY BothOpened
<1>4. OutOpened(h) = IF mMode = "in call" THEN o ELSE Select(o, "playback", out.device)
  BY DEF OutOpened
<1> HIDE DEF o
<1>5. o.mixer # 0
  BY <1>2, <1>3
<1> DEFINE g == Select(o, "playback", out.device)
<1>6. /\ g \in HwFields /\ SameCounts(g, o)
      /\ g.capture = o.capture /\ g.voice = o.voice
      /\ g.source = o.source /\ g.mInputSource = o.mInputSource
      /\ g.playback = out.device
  BY <1>1, <1>3, <1>5, PlaybackSelected
<1>7. OutOpened(h) = IF mMode = "in call" THEN o ELSE g
  BY <1>4
<1> HIDE DEF g
<1> QED
  BY <1>3, <1>6, <1>7 DEF SameControls, SameCounts

(* The same of an input, which opens the mixer alone.                      *)
LEMMA InDoes ==
  ASSUME Types, NEW h \in HwFields
  PROVE  LET g == InOpened(h)
         IN  /\ g \in HwFields /\ g.pcm = h.pcm /\ g.mixer = h.mixer + 1
             /\ g.playback = h.playback /\ g.voice = h.voice
             /\ g.source = h.source /\ g.mInputSource = h.mInputSource
             /\ g.capture = IF mMode = "in call" THEN h.capture ELSE in.device
<1>1. in.device \in InDevices
  BY DEF Types
<1>2. h.mixer \in Nat
  BY DEF HwFields
<1> DEFINE o == openMixer_l(h)
<1>3. /\ o \in HwFields /\ SameControls(o, h)
      /\ o.pcm = h.pcm /\ o.mixer = h.mixer + 1
  BY MixerOpened
<1>4. InOpened(h) = IF mMode = "in call" THEN o ELSE Select(o, "capture", in.device)
  BY DEF InOpened
<1> HIDE DEF o
<1>5. o.mixer # 0
  BY <1>2, <1>3
<1> DEFINE g == Select(o, "capture", in.device)
<1>6. /\ g \in HwFields /\ SameCounts(g, o)
      /\ g.playback = o.playback /\ g.voice = o.voice
      /\ g.source = o.source /\ g.mInputSource = o.mInputSource
      /\ g.capture = in.device
  BY <1>1, <1>3, <1>5, CaptureSelected
<1>7. InOpened(h) = IF mMode = "in call" THEN o ELSE g
  BY <1>4
<1> HIDE DEF g
<1> QED
  BY <1>3, <1>6, <1>7 DEF SameControls, SameCounts

(* Standby closes what the stream has opened, and leaves the controls.     *)
LEMMA StandbyDoes ==
  ASSUME NEW h \in HwFields
  PROVE  /\ OutClosed(h) \in HwFields /\ SameControls(OutClosed(h), h)
         /\ OutClosed(h).pcm = (IF out.active THEN Less(h.pcm) ELSE h.pcm)
         /\ OutClosed(h).mixer = (IF out.active THEN Less(h.mixer) ELSE h.mixer)
         /\ InClosed(h) \in HwFields /\ SameControls(InClosed(h), h)
         /\ InClosed(h).pcm = h.pcm
         /\ InClosed(h).mixer = (IF in.active THEN Less(h.mixer) ELSE h.mixer)
BY BothClosed, MixerClosed DEF OutClosed, InClosed, SameControls

(* The FM radio opens the devices and takes the default source;            *)
LEMMA FmOpens ==
  ASSUME NEW h \in HwFields, NEW mode \in Modes
  PROVE  LET g == FmOpened(h, mode)
         IN  /\ g \in HwFields /\ g.pcm = h.pcm + 1 /\ g.mixer = h.mixer + 1
             /\ g.playback = h.playback /\ g.capture = h.capture /\ g.voice = h.voice
             /\ Selected(h) => Selected(g)
<1> DEFINE o == Opened(h)
<1>1. /\ o \in HwFields /\ SameControls(o, h)
      /\ o.pcm = h.pcm + 1 /\ o.mixer = h.mixer + 1
  BY BothOpened
<1>2. FmOpened(h, mode) = setInputSource_l(o, DEFAULT, mode)
  BY DEF FmOpened
<1>3. h.mixer \in Nat
  BY DEF HwFields
<1> HIDE DEF o
<1>4. o.mixer # 0 /\ (Selected(h) => Selected(o))
  BY <1>1, <1>3 DEF Selected, SameControls
<1> DEFINE g == setInputSource_l(o, DEFAULT, mode)
<1>5. /\ g \in HwFields /\ SameCounts(g, o)
      /\ g.playback = o.playback /\ g.capture = o.capture /\ g.voice = o.voice
      /\ Selected(o) => Selected(g)
  BY <1>1, <1>4, SourceSet
<1>6. FmOpened(h, mode) = g
  BY <1>2
<1> HIDE DEF g
<1> QED
  BY <1>1, <1>4, <1>5, <1>6 DEF SameControls, SameCounts

(* and then the path of its device.                                        *)
LEMMA FmSelects ==
  ASSUME NEW h \in HwFields, NEW device \in OutDevices
  PROVE  LET g == FmRouted(h, device)
         IN  /\ g \in HwFields /\ SameCounts(g, h)
             /\ g.capture = h.capture /\ g.voice = h.voice
             /\ g.source = h.source /\ g.mInputSource = h.mInputSource
             /\ g.playback = IF h.mixer = 0 THEN h.playback ELSE FmDevice(device)
<1>1. FmDevice(device) \in AllOutDevices
  BY Devices
<1> QED
  BY <1>1, PlaybackSelected DEF FmRouted

Once(b, n) == IF b THEN Less(n) ELSE n

(* Of the streams, setMode closes the active ones that it stops.           *)
LEMMA StopDoes ==
  ASSUME NEW h \in HwFields, NEW stopsOut \in BOOLEAN
  PROVE  LET g == InClosed(IF stopsOut THEN OutClosed(h) ELSE h)
         IN  /\ g \in HwFields /\ SameControls(g, h)
             /\ g.pcm = Once(stopsOut /\ out.active, h.pcm)
             /\ g.mixer = Once(in.active, Once(stopsOut /\ out.active, h.mixer))
<1> DEFINE o == IF stopsOut THEN OutClosed(h) ELSE h
<1>1. /\ o \in HwFields /\ SameControls(o, h)
      /\ o.pcm = Once(stopsOut /\ out.active, h.pcm)
      /\ o.mixer = Once(stopsOut /\ out.active, h.mixer)
  BY StandbyDoes DEF SameControls, Once
<1> HIDE DEF o
<1>2. /\ InClosed(o) \in HwFields /\ SameControls(InClosed(o), o)
      /\ InClosed(o).pcm = o.pcm
      /\ InClosed(o).mixer = Once(in.active, o.mixer)
  BY <1>1, StandbyDoes DEF Once
<1>3. /\ InClosed(o) \in HwFields /\ SameControls(InClosed(o), h)
      /\ InClosed(o).pcm = Once(stopsOut /\ out.active, h.pcm)
      /\ InClosed(o).mixer = Once(in.active, Once(stopsOut /\ out.active, h.mixer))
  BY <1>1, <1>2 DEF SameControls
<1> QED
  BY <1>3 DEF o

(* A call that starts takes the default source, and changes no other       *)
(* control;                                                                *)
LEMMA CallBegins ==
  ASSUME Types, NEW stopsOut \in BOOLEAN
  PROVE  LET g == CallBegun(stopsOut)
         IN  /\ g \in HwFields
             /\ g.playback = hw.playback /\ g.capture = hw.capture /\ g.voice = hw.voice
             /\ Selected(hw) => Selected(g)
             /\ g.pcm = Once(stopsOut /\ out.active, hw.pcm) + 1
             /\ g.mixer = Once(in.active, Once(stopsOut /\ out.active, hw.mixer)) + 1
<1>1. hw \in HwFields /\ "in call" \in Modes
  BY DEF Types, Modes
<1> DEFINE h == InClosed(IF stopsOut THEN OutClosed(hw) ELSE hw)
<1>2. /\ h \in HwFields /\ SameControls(h, hw)
      /\ h.pcm = Once(stopsOut /\ out.active, hw.pcm)
      /\ h.mixer = Once(in.active, Once(stopsOut /\ out.active, hw.mixer))
  BY <1>1, StopDoes
<1>3. CallBegun(stopsOut) = FmOpened(h, "in call")
  BY DEF CallBegun, FmOpened
<1> HIDE DEF h
<1> DEFINE g == FmOpened(h, "in call")
<1>4. /\ g \in HwFields /\ g.pcm = h.pcm + 1 /\ g.mixer = h.mixer + 1
      /\ g.playback = h.playback /\ g.capture = h.capture /\ g.voice = h.voice
      /\ Selected(h) => Selected(g)
  BY <1>1, <1>2, FmOpens
<1>5. CallBegun(stopsOut) = g
  BY <1>3
<1> HIDE DEF g
<1> QED
  BY <1>2, <1>4, <1>5 DEF SameControls, Selected

(* one that ends leaves the source alone.                                  *)
LEMMA CallEnds ==
  ASSUME Types, NEW stopsOut \in BOOLEAN
  PROVE  LET g == CallEnded(stopsOut)
         IN  /\ g \in HwFields
             /\ g.capture = hw.capture /\ g.voice = hw.voice
             /\ Selected(hw) => Selected(g)
             /\ g.pcm = Once(stopsOut /\ out.active, Less(hw.pcm))
             /\ g.mixer = Once(in.active, Once(stopsOut /\ out.active, Less(hw.mixer)))
<1>1. hw \in HwFields
  BY DEF Types
<1>2. setInputSource_l(hw, hw.mInputSource, "normal") = hw
  BY DEF setInputSource_l
<1> DEFINE e == Select(hw, "playback", "earpiece")
           c == Closed(e)
           g == InClosed(IF stopsOut THEN OutClosed(c) ELSE c)
<1>3. CallEnded(stopsOut) = g
  BY <1>2 DEF CallEnded
<1>4. "earpiece" \in AllOutDevices
  BY DEF AllOutDevices
<1>5. /\ e \in HwFields /\ SameCounts(e, hw)
      /\ e.capture = hw.capture /\ e.voice = hw.voice
      /\ e.source = hw.source /\ e.mInputSource = hw.mInputSource
  BY <1>1, <1>4, PlaybackSelected
<1> HIDE DEF e
<1>6. /\ c \in HwFields /\ SameControls(c, e)
      /\ c.pcm = Less(e.pcm) /\ c.mixer = Less(e.mixer)
  BY <1>5, BothClosed
<1> HIDE DEF c
<1>7. /\ g \in HwFields /\ SameControls(g, c)
      /\ g.pcm = Once(stopsOut /\ out.active, c.pcm)
      /\ g.mixer = Once(in.active, Once(stopsOut /\ out.active, c.mixer))
  BY <1>6, StopDoes
<1> HIDE DEF g
<1> QED
  BY <1>3, <1>5, <1>6, <1>7 DEF SameControls, SameCounts, Selected

Resumes(mode) == mFmResumeAfterCall /\ mode # "in call"

(* The end of setMode opens the devices for a radio that has waited.       *)
LEMMA ResumeDoes ==
  ASSUME Types, NEW h \in HwFields, NEW mode \in Modes, Resume(mode, h)
  PROVE  /\ hw' \in HwFields
         /\ hw'.capture = h.capture /\ hw'.voice = h.voice
         /\ Selected(h) => Selected(hw')
         /\ Resumes(mode) =>
              /\ hw'.pcm = h.pcm + 1 /\ hw'.mixer = h.mixer + 1
              /\ mFmFd' = TRUE /\ mFmResumeAfterCall' = FALSE
         /\ ~Resumes(mode) => hw' = h /\ UNCHANGED <<mFmFd, mFmResumeAfterCall>>
<1>1. out.device \in OutDevices
  BY DEF Types
<1>2. CASE Resumes(mode)
  <2> DEFINE o == FmOpened(h, mode)
             r == FmRouted(o, out.device)
  <2>1. hw' = r /\ mFmFd' = TRUE /\ mFmResumeAfterCall' = FALSE
    BY <1>2 DEF Resume, Resumes
  <2>2. /\ o \in HwFields /\ o.pcm = h.pcm + 1 /\ o.mixer = h.mixer + 1
        /\ o.playback = h.playback /\ o.capture = h.capture /\ o.voice = h.voice
        /\ Selected(h) => Selected(o)
    BY FmOpens
  <2> HIDE DEF o
  <2>3. /\ r \in HwFields /\ SameCounts(r, o)
        /\ r.capture = o.capture /\ r.voice = o.voice
        /\ r.source = o.source /\ r.mInputSource = o.mInputSource
    BY <1>1, <2>2, FmSelects
  <2> HIDE DEF r
  <2> QED
    BY <1>2, <2>1, <2>2, <2>3 DEF SameCounts, Selected
<1>3. CASE ~Resumes(mode)
  BY <1>3 DEF Resume, Resumes
<1> QED
  BY <1>2, <1>3

-----------------------------------------------------------------------------
(* The invariant: a call's mode is known as such, a radio that waits does  *)
(* so in a call, and an input outside a call has its route.                *)

CallMode == mMode = "in call" => mInCallAudioMode

IInv == Types /\ RadioPlays /\ CallMode /\ MicRouted

(* A request is received, or known to have failed: then the daemon knows   *)
(* what it knew.                                                           *)
LEMMA Sends ==
  ASSUME Types, NEW command \in Commands, NEW value \in AllOutDevices \cup Volumes,
         NEW connected \in BOOLEAN, Sent(command, value, connected)
  PROVE  /\ daemon' \in [Commands -> {NoRequest} \cup AllOutDevices \cup Volumes]
         /\ \A c \in Commands : c # command => daemon'[c] = daemon[c]
         /\ daemon'[command] = value \/ (refused' /\ UNCHANGED daemon)
         /\ ~connected => refused' /\ UNCHANGED daemon
<1>1. CASE refused' = TRUE /\ UNCHANGED daemon
  BY <1>1 DEF Types
<1>2. CASE connected /\ daemon' = [daemon EXCEPT ![command] = value]
  BY <1>2 DEF Types
<1> QED
  BY <1>1, <1>2 DEF Sent

(* The volume is that of one of the types of sound.                        *)
LEMMA SoundTypeOfDevice ==
  ASSUME NEW device \in OutDevices
  PROVE  SoundType(device) \in SoundTypes /\ SoundType(device) \in Commands
<1>1. device \in AllOutDevices
  BY RoutingAssumption
<1>2. SoundType(device) \in SoundTypes
  BY <1>1 DEF SoundType, SoundTypes, AllOutDevices
<1> QED
  BY <1>2 DEF Commands

(* A volume sent for the output's device.                                  *)
LEMMA VolumeSent ==
  ASSUME Types, NEW volume \in Volumes, SendVolume(volume)
  PROVE  /\ daemon' \in [Commands -> {NoRequest} \cup AllOutDevices \cup Volumes]
         /\ daemon'["path"] = daemon["path"]
         /\ daemon'[SoundType(out.device)] = volume \/ (refused' /\ UNCHANGED daemon)
<1>1. PICK connected \in BOOLEAN : Sent(SoundType(out.device), volume, connected)
  BY DEF SendVolume
<1>2. SoundType(out.device) \in SoundTypes /\ SoundType(out.device) \in Commands
  BY SoundTypeOfDevice DEF Types
<1>3. "path" \in Commands /\ "path" \notin SoundTypes
  BY DEF Commands, SoundTypes
<1> QED
  BY <1>1, <1>2, <1>3, Sends

(* The radio's own steps leave the daemon with what it knew, or, if it has *)
(* died, with nothing and without a socket.                                *)
LEMMA RadioForgets ==
  ASSUME Types, RadioStep
  PROVE  /\ daemon' \in [Commands -> {NoRequest} \cup AllOutDevices \cup Volumes]
         /\ daemon' = daemon \/ link' # "open"
<1>1. CASE DaemonDies
  BY <1>1 DEF DaemonDies
<1>2. CASE ThreadEnds \/ ThreadGoesOn
  BY <1>2 DEF ThreadEnds, ThreadGoesOn, Types
<1> QED
  BY <1>1, <1>2 DEF RadioStep

(* The path of a call, once set for a device: a request that has failed    *)
(* leaves the daemon with the path it had, and may leave the codec so,     *)
(* too.                                                                    *)
LEMMA PathSet ==
  ASSUME IInv, NEW device \in OutDevices, setIncallPath_l(device)
  PROVE  /\ hw' \in HwFields
         /\ hw'.playback = hw.playback /\ hw'.capture = hw.capture
         /\ SameCounts(hw', hw)
         /\ hw'.source = hw.source /\ hw'.mInputSource = hw.mInputSource
         /\ daemon' \in [Commands -> {NoRequest} \cup AllOutDevices \cup Volumes]
         /\ \A t \in SoundTypes : daemon'[t] = daemon[t]
         /\ daemon'["path"] = PathOf(device) \/ (refused' /\ daemon' = daemon)
         /\ \/ hw'.voice = VoiceRoute(device, mTTYMode)
            \/ hw.mixer = 0
            \/ refused' /\ daemon' = daemon /\ hw'.voice = hw.voice
<1>1. PICK connected \in BOOLEAN :
        /\ Sent("path", PathOf(device), connected)
        /\ hw' = IF connected THEN Select(hw, "voice", VoiceRoute(device, mTTYMode)) ELSE hw
  BY DEF setIncallPath_l
<1>2. /\ PathOf(device) \in AllOutDevices
      /\ VoiceRoute(device, mTTYMode) \in AllOutDevices \cup {"off", "full"}
  BY Devices DEF IInv, Types
<1>3. "path" \in Commands /\ SoundTypes \subseteq Commands /\ "path" \notin SoundTypes
  BY DEF Commands, SoundTypes
<1>4. /\ daemon' \in [Commands -> {NoRequest} \cup AllOutDevices \cup Volumes]
      /\ \A c \in Commands : c # "path" => daemon'[c] = daemon[c]
      /\ daemon'["path"] = PathOf(device) \/ (refused' /\ UNCHANGED daemon)
      /\ ~connected => refused' /\ UNCHANGED daemon
  BY <1>1, <1>2, <1>3, Sends DEF IInv
<1>5. \A t \in SoundTypes : daemon'[t] = daemon[t]
  BY <1>3, <1>4
<1> DEFINE g == Select(hw, "voice", VoiceRoute(device, mTTYMode))
<1>6. /\ g \in HwFields /\ SameCounts(g, hw)
      /\ g.playback = hw.playback /\ g.capture = hw.capture
      /\ g.source = hw.source /\ g.mInputSource = hw.mInputSource
      /\ g.voice = IF hw.mixer = 0 THEN hw.voice ELSE VoiceRoute(device, mTTYMode)
  BY <1>2, VoiceSelected DEF IInv, Types
<1>7. hw' = IF connected THEN g ELSE hw
  BY <1>1
<1>8. hw \in HwFields
  BY DEF IInv, Types
<1> HIDE DEF g
<1> QED
  BY <1>4, <1>5, <1>6, <1>7, <1>8 DEF SameCounts

(* What setMode does, whether or not it had to wait.                       *)
LEMMA ModeDoes ==
  ASSUME IInv, NEW mode \in Modes, NEW stopsOut \in BOOLEAN, ModeSet(mode, stopsOut),
         caller.at # "fm"
  PROVE  /\ Types' /\ RadioPlays' /\ CallMode' /\ MicRouted'
         /\ hw'.voice = hw.voice
         /\ Selected(hw) => Selected(hw')
         /\ HoldersCounted => HoldersCounted' \/ (mFmResumeAfterCall /\ ~asked')
<1> USE DEF IInv
<1>1. /\ mMode' = mode /\ caller' = Idle /\ UNCHANGED <<mVoiceVol, mTTYMode, asked>>
      /\ Types
  BY DEF ModeSet
<1>2. /\ mFmResumeAfterCall => mMode = "in call" /\ mInCallAudioMode
      /\ asked => mFmFd \/ mFmResumeAfterCall \/ caller.at = "fm"
  BY DEF RadioPlays, CallMode
<1>3. /\ hw' \in HwFields
      /\ mFmFd' \in BOOLEAN /\ mFmResumeAfterCall' \in BOOLEAN
      /\ mInCallAudioMode' \in BOOLEAN
      /\ out' \in [device : OutDevices, active : BOOLEAN]
      /\ in' \in [device : InDevices, active : BOOLEAN]
      /\ daemon' \in [Commands -> {NoRequest} \cup AllOutDevices \cup Volumes]
      /\ hw'.voice = hw.voice
      /\ Selected(hw) => Selected(hw')
      /\ IF Resumes(mode) THEN mFmFd' = TRUE /\ mFmResumeAfterCall' = FALSE
                          ELSE UNCHANGED <<mFmFd, mFmResumeAfterCall>>
      /\ mode = "in call" => mInCallAudioMode'
      /\ MicRouted'
      /\ HoldersCounted => HoldersCounted' \/ (mFmResumeAfterCall /\ ~asked')
  <2>1. CASE /\ mode = "in call" /\ ~mInCallAudioMode
             /\ Stop(stopsOut)
             /\ Resume(mode, CallBegun(stopsOut))
             /\ mInCallAudioMode' = TRUE
             /\ SendVolume(mVoiceVol)
    <3> DEFINE g == CallBegun(stopsOut)
    <3>1. /\ g \in HwFields
          /\ g.capture = hw.capture /\ g.voice = hw.voice
          /\ Selected(hw) => Selected(g)
          /\ g.pcm = Once(stopsOut /\ out.active, hw.pcm) + 1
          /\ g.mixer = Once(in.active, Once(stopsOut /\ out.active, hw.mixer)) + 1
      BY CallBegins
    <3>2. ~Resumes(mode) /\ hw' = g /\ UNCHANGED <<mFmFd, mFmResumeAfterCall>>
      BY <2>1 DEF Resume, Resumes
    <3> HIDE DEF g
    <3>3. /\ out' \in [device : OutDevices, active : BOOLEAN]
          /\ in' \in [device : InDevices, active : BOOLEAN]
          /\ out'.active = (out.active /\ ~stopsOut) /\ in'.active = FALSE
      BY <2>1, <1>1 DEF Stop, Types
    <3>5. daemon' \in [Commands -> {NoRequest} \cup AllOutDevices \cup Volumes]
      BY <1>1, <2>1, VolumeSent DEF Types
    <3>6. hw.pcm \in Nat /\ hw.mixer \in Nat /\ out.active \in BOOLEAN /\ in.active \in BOOLEAN
      BY <1>1 DEF Types, HwFields
    <3>7. HoldersCounted => HoldersCounted'
      <4> DEFINE r == N(asked /\ ~mFmResumeAfterCall)
      <4>1. r' = r /\ r \in {0, 1}
        BY <1>1, <3>2 DEF N
      <4>2. /\ mInCallAudioMode = FALSE /\ mInCallAudioMode' = TRUE
            /\ N(FALSE) = 0 /\ N(TRUE) = 1
        BY <1>1, <2>1 DEF N, Types
      <4>3. /\ HoldersCounted => /\ hw.pcm = N(out.active) + r
                                /\ hw.mixer = N(out.active) + r + N(in.active)
            /\ /\ hw'.pcm = N(out'.active) + 1 + r
               /\ hw'.mixer = N(out'.active) + 1 + r + N(in'.active)
               => HoldersCounted'
        BY <4>1, <4>2 DEF HoldersCounted, N
      <4>4. /\ hw'.pcm = Once(stopsOut /\ out.active, hw.pcm) + 1
            /\ hw'.mixer = Once(in.active, Once(stopsOut /\ out.active, hw.mixer)) + 1
        BY <3>1, <3>2
      <4>5. /\ \A n \in Nat : Less(n + 1) = n
            /\ \A n \in Nat : Once(TRUE, n) = Less(n) /\ Once(FALSE, n) = n
        BY DEF Less, Once
      <4> HIDE DEF r
      <4>6. ASSUME HoldersCounted PROVE HoldersCounted'
        <5> DEFINE o == N(out.active)
                   i == N(in.active)
                   k == N(out'.active)
        <5>1. o \in {0, 1} /\ i \in {0, 1} /\ N(in'.active) = 0
          BY <3>3 DEF N
        <5>2. k = IF stopsOut /\ out.active THEN 0 ELSE o
          BY <3>3 DEF N
        <5>3. hw.pcm = o + r /\ hw.mixer = o + r + i
          BY <4>3, <4>6
        <5>4. hw'.pcm = k + 1 + r /\ hw'.mixer = k + 1 + r => HoldersCounted'
          <6>1. k \in {0, 1}
            BY <5>1, <5>2
          <6> QED
            BY <4>1, <4>3, <5>1, <6>1
        <5>5. stopsOut /\ out.active => o = 1
          BY DEF N
        <5>6. i = IF in.active THEN 1 ELSE 0
          BY DEF N
        <5> HIDE DEF o, i, k
        <5>7. CASE stopsOut /\ out.active
          BY <4>1, <4>4, <5>1, <5>2, <5>3, <5>4, <5>5, <5>6, <5>7 DEF Once, Less
        <5>8. CASE ~(stopsOut /\ out.active)
          BY <4>1, <4>4, <5>1, <5>2, <5>3, <5>4, <5>6, <5>8 DEF Once, Less
        <5> QED
          BY <5>7, <5>8
      <4> QED
        BY <4>6
    <3> QED
      BY <1>1, <2>1, <3>1, <3>2, <3>3, <3>5, <3>7 DEF Types, MicRouted
  <2>2. CASE /\ mode = "normal" /\ mInCallAudioMode
             /\ Stop(stopsOut)
             /\ Resume(mode, CallEnded(stopsOut))
             /\ mInCallAudioMode' = FALSE
             /\ UNCHANGED rilVars
    <3> DEFINE g == CallEnded(stopsOut)
    <3>1. /\ g \in HwFields
          /\ g.capture = hw.capture /\ g.voice = hw.voice
          /\ Selected(hw) => Selected(g)
          /\ g.pcm = Once(stopsOut /\ out.active, Less(hw.pcm))
          /\ g.mixer = Once(in.active, Once(stopsOut /\ out.active, Less(hw.mixer)))
      BY CallEnds
    <3> HIDE DEF g
    <3>2. /\ hw' \in HwFields
          /\ hw'.capture = g.capture /\ hw'.voice = g.voice
          /\ Selected(g) => Selected(hw')
          /\ Resumes(mode) =>
               /\ hw'.pcm = g.pcm + 1 /\ hw'.mixer = g.mixer + 1
               /\ mFmFd' = TRUE /\ mFmResumeAfterCall' = FALSE
          /\ ~Resumes(mode) => hw' = g /\ UNCHANGED <<mFmFd, mFmResumeAfterCall>>
      <4>1. Resume(mode, g)
        BY <2>2 DEF g
      <4> QED
        BY <4>1, <3>1, ResumeDoes
    <3>3. /\ out' \in [device : OutDevices, active : BOOLEAN]
          /\ in' \in [device : InDevices, active : BOOLEAN]
          /\ out'.active = (out.active /\ ~stopsOut) /\ in'.active = FALSE
      BY <2>2, <1>1 DEF Stop, Types
    <3>5. daemon' \in [Commands -> {NoRequest} \cup AllOutDevices \cup Volumes]
      BY <2>2, <1>1 DEF rilVars, Types
    <3>6. /\ hw.pcm \in Nat /\ hw.mixer \in Nat /\ out.active \in BOOLEAN /\ in.active \in BOOLEAN
          /\ mFmResumeAfterCall \in BOOLEAN /\ asked \in BOOLEAN
      BY <1>1 DEF Types, HwFields
    <3>7. HoldersCounted => HoldersCounted' \/ (mFmResumeAfterCall /\ ~asked')
      BY <1>1, <2>2, <3>1, <3>2, <3>3, <3>6 DEF HoldersCounted, Once, Less, N, Resumes
    <3>8. hw'.voice = hw.voice /\ (Selected(hw) => Selected(hw'))
      BY <3>1, <3>2
    <3>9. mFmFd' \in BOOLEAN /\ mFmResumeAfterCall' \in BOOLEAN
      BY <1>1, <3>2 DEF Types
    <3> QED
      BY <2>2, <3>2, <3>3, <3>5, <3>7, <3>8, <3>9 DEF MicRouted
  <2>3. CASE /\ ~(mode = "in call" /\ ~mInCallAudioMode)
             /\ Resume(mode, hw)
             /\ UNCHANGED <<rilVars, mInCallAudioMode, out, in>>
    <3>1. hw \in HwFields
      BY <1>1 DEF Types
    <3>2. /\ hw' \in HwFields
          /\ hw'.capture = hw.capture /\ hw'.voice = hw.voice
          /\ Selected(hw) => Selected(hw')
          /\ Resumes(mode) =>
               /\ hw'.pcm = hw.pcm + 1 /\ hw'.mixer = hw.mixer + 1
               /\ mFmFd' = TRUE /\ mFmResumeAfterCall' = FALSE
          /\ ~Resumes(mode) => hw' = hw /\ UNCHANGED <<mFmFd, mFmResumeAfterCall>>
      BY <2>3, <3>1, ResumeDoes
    <3>5. daemon' \in [Commands -> {NoRequest} \cup AllOutDevices \cup Volumes]
      BY <2>3, <1>1 DEF rilVars, Types
    <3>6. /\ hw.pcm \in Nat /\ hw.mixer \in Nat /\ out.active \in BOOLEAN /\ in.active \in BOOLEAN
          /\ mFmResumeAfterCall \in BOOLEAN /\ asked \in BOOLEAN
      BY <1>1 DEF Types, HwFields
    <3>7. HoldersCounted => HoldersCounted' \/ (mFmResumeAfterCall /\ ~asked')
      <4>1. CASE Resumes(mode) /\ asked
        <5> DEFINE n == N(out.active) + N(mInCallAudioMode)
        <5>1. n \in Nat /\ n' = n /\ N(in'.active) = N(in.active)
          <6>1. /\ N(out.active) \in Nat /\ N(mInCallAudioMode) \in Nat
            BY DEF N
          <6>2. UNCHANGED <<mInCallAudioMode, out, in>>
            BY <2>3
          <6> QED
            BY <6>1, <6>2
        <5>2. HoldersCounted <=> hw.pcm = n + 0 /\ hw.mixer = n + 0 + N(in.active)
          BY <4>1 DEF HoldersCounted, N, Resumes
        <5>3. HoldersCounted' <=> hw'.pcm = n' + 1 /\ hw'.mixer = n' + 1 + N(in'.active)
          <6>1. asked' /\ ~mFmResumeAfterCall'
            BY <4>1, <1>1, <3>2
          <6> QED
            BY <6>1 DEF HoldersCounted, N
        <5> HIDE DEF n
        <5> QED
          BY <4>1, <5>1, <5>2, <5>3, <3>2, <3>6 DEF N
      <4>2. CASE ~Resumes(mode)
        <5>1. UNCHANGED <<hw, out, in, mInCallAudioMode, asked, mFmResumeAfterCall>>
          BY <4>2, <1>1, <2>3, <3>2
        <5> QED
          BY <5>1 DEF HoldersCounted
      <4>3. CASE Resumes(mode) /\ ~asked
        BY <4>3, <1>1 DEF Resumes
      <4> QED
        BY <4>1, <4>2, <4>3
    <3>8. /\ hw'.voice = hw.voice /\ (Selected(hw) => Selected(hw'))
          /\ MicRouted'
      BY <2>3, <3>2 DEF MicRouted
    <3>9. mFmFd' \in BOOLEAN /\ mFmResumeAfterCall' \in BOOLEAN
      BY <1>1, <3>2 DEF Types
    <3> QED
      BY <1>1, <2>3, <3>2, <3>5, <3>7, <3>8, <3>9 DEF Types
  <2> QED
    BY <2>1, <2>2, <2>3 DEF ModeSet
<1>4. Types'
  BY <1>1, <1>3 DEF Types, Idle
<1>5. caller.at # "fm" => RadioPlays'
  BY <1>1, <1>2, <1>3 DEF RadioPlays, Resumes, Idle
<1>6. CallMode'
  BY <1>1, <1>3 DEF CallMode
<1> QED
  BY <1>3, <1>4, <1>5, <1>6

(* The start.                                                              *)
LEMMA InvInit == Init => IInv
<1> SUFFICES ASSUME Init PROVE IInv
  OBVIOUS
<1>1. hw \in HwFields
  BY DEF Init, HwFields, DEFAULT
<1>2. daemon = [c \in Commands |-> NoRequest]
  BY DEF Init, RilInit
<1>3. Types
  BY <1>1, <1>2, RoutingAssumption DEF Init, Types, Modes, Idle
<1>4. out.active = FALSE /\ in.active = FALSE
  BY DEF Init
<1> QED
  BY <1>2, <1>3, <1>4 DEF Init, IInv, RadioPlays, CallMode, MicRouted

-----------------------------------------------------------------------------
(* What a step may do to a route, a volume or a count: the bodies of the   *)
(* five action properties.                                                 *)

KeepsCapture ==
  /\ MicRouted'
  /\ SourceSelected => SourceSelected' \/ (mMode = "in call" /\ in' = in /\ out' = out)

KeepsPlayback ==
  LeadsToDevice =>
    \/ LeadsToDevice'
    \/ caller.at = "setMode" /\ caller' = Idle
    \/ caller.at = "fm" /\ FmDevice(caller.read) # out.device

KeepsVoice ==
  mMode = "in call" /\ mMode' = "in call" /\ VoiceFollowsDevice =>
    \/ VoiceFollowsDevice'
    \/ link' # "open" \/ hw.mixer = 0
    \/ refused' /\ out'.device # out.device
    \/ caller'.at = "tty"
    \/ caller.at = "tty" /\ caller.read # out.device

KeepsVolume ==
  mMode' = "in call" =>
    /\ ~mInCallAudioMode \/ mVoiceVol' # mVoiceVol => VolumeHeard' \/ refused'
    /\ VolumeHeard /\ mVoiceVol' = mVoiceVol =>
         \/ VolumeHeard'
         \/ link' # "open"
         \/ SoundType(out'.device) # SoundType(out.device)

KeepsCount == HoldersCounted => HoldersCounted' \/ (mFmResumeAfterCall /\ ~asked')

Keeps == KeepsCapture /\ KeepsPlayback /\ KeepsVoice /\ KeepsVolume /\ KeepsCount

(* A step that leaves the calls' state and the daemon's volumes alone      *)
(* keeps the volume, but for an output that goes to another type of        *)
(* device.                                                                 *)
LEMMA HeardKept ==
  ASSUME IInv, UNCHANGED <<mMode, mInCallAudioMode, mVoiceVol>>,
         \A t \in SoundTypes : daemon'[t] = daemon[t]
  PROVE  KeepsVolume
<1>1. SoundType(out.device) \in SoundTypes
  BY SoundTypeOfDevice DEF IInv, Types
<1>2. SoundType(out'.device) = SoundType(out.device) /\ VolumeHeard => VolumeHeard'
  BY <1>1 DEF VolumeHeard
<1>3. mMode' = "in call" => mInCallAudioMode
  BY DEF IInv, CallMode
<1> QED
  BY <1>2, <1>3 DEF KeepsVolume

(* A step that leaves the daemon, the voice path and the output's device   *)
(* alone keeps the path of a call.                                         *)
LEMMA VoiceKept ==
  ASSUME UNCHANGED <<mTTYMode, daemon>>, hw'.voice = hw.voice, out'.device = out.device
  PROVE  KeepsVoice
BY DEF KeepsVoice, VoiceFollowsDevice

(* Without a change to the devices, the streams and the radio, all routes  *)
(* and counts stay.                                                        *)
LEMMA RoutesKept ==
  ASSUME IInv, UNCHANGED <<mInCallAudioMode, hw, out, in, mFmFd, mFmResumeAfterCall, asked>>
  PROVE  KeepsCapture /\ KeepsPlayback /\ KeepsCount
BY DEF IInv, KeepsCapture, KeepsPlayback, KeepsCount, MicRouted, SourceSelected, LeadsToDevice,
       HoldersCounted

(* setMode: a call that begins or ends stops the streams, tells the daemon *)
(* the volume, and leaves the voice path alone.                            *)
LEMMA SetModeKeeps ==
  ASSUME IInv, (\E mode \in Modes : SetMode(mode)) \/ SetModeGoesOn
  PROVE  IInv' /\ Keeps
<1>1. out.active \in BOOLEAN /\ (caller.at = "setMode" => caller.read \in Modes)
  BY DEF IInv, Types
<1>2. ASSUME NEW mode \in Modes, SetMode(mode)
      PROVE  ModeSet(mode, out.active) /\ caller.at # "fm" /\ mode # mMode
  BY <1>2 DEF SetMode
<1>3. ASSUME SetModeGoesOn
      PROVE  ModeSet(caller.read, FALSE) /\ caller.at = "setMode" /\ caller.read \in Modes
  BY <1>1, <1>3 DEF SetModeGoesOn
<1>4. PICK mode \in Modes, stopsOut \in BOOLEAN :
           /\ ModeSet(mode, stopsOut) /\ caller.at # "fm"
           /\ stopsOut = out.active \/ caller.at = "setMode"
           /\ mode # mMode \/ caller.at = "setMode"
  BY <1>1, <1>2, <1>3
<1>5. /\ Types' /\ RadioPlays' /\ CallMode' /\ MicRouted'
      /\ hw'.voice = hw.voice
      /\ Selected(hw) => Selected(hw')
      /\ KeepsCount
  BY <1>4, ModeDoes DEF KeepsCount
<1>6. KeepsCapture
  BY <1>5 DEF KeepsCapture, SourceSelected, Selected
<1>7. mMode' = mode /\ caller' = Idle /\ UNCHANGED <<mVoiceVol, mTTYMode>>
  BY <1>4 DEF ModeSet
<1>8. CASE /\ mode = "in call" /\ ~mInCallAudioMode
           /\ Stop(stopsOut)
           /\ Resume(mode, CallBegun(stopsOut))
           /\ mInCallAudioMode' = TRUE
           /\ SendVolume(mVoiceVol)
  <2>1. KeepsPlayback
    BY <1>8 DEF KeepsPlayback, LeadsToDevice
  <2>2. Types /\ mVoiceVol \in Volumes /\ out'.device = out.device
    BY <1>8 DEF IInv, Types, Stop
  <2>3. daemon'[SoundType(out.device)] = mVoiceVol \/ (refused' /\ daemon' = daemon)
    BY <1>8, <2>2, VolumeSent
  <2>4. VolumeHeard' <=> daemon'[SoundType(out.device)] = mVoiceVol
    BY <1>7, <2>2 DEF VolumeHeard
  <2>5. KeepsVolume
    BY <1>7, <2>3, <2>4 DEF KeepsVolume, VolumeHeard
  <2>6. KeepsVoice
    BY <1>8 DEF KeepsVoice, IInv, CallMode
  <2> QED
    BY <1>5, <1>6, <2>1, <2>5, <2>6 DEF IInv, Keeps
<1>9. CASE /\ mode = "normal" /\ mInCallAudioMode
           /\ Stop(stopsOut)
           /\ Resume(mode, CallEnded(stopsOut))
           /\ mInCallAudioMode' = FALSE
           /\ UNCHANGED rilVars
  <2>1. KeepsPlayback
    <3>1. out'.active = (out.active /\ ~stopsOut)
      BY <1>9 DEF Stop, IInv, Types
    <3> QED
      BY <1>4, <1>7, <3>1 DEF KeepsPlayback, LeadsToDevice
  <2>2. KeepsVolume /\ KeepsVoice
    BY <1>7, <1>9 DEF KeepsVolume, KeepsVoice
  <2> QED
    BY <1>5, <1>6, <2>1, <2>2 DEF IInv, Keeps
<1>10. CASE /\ ~(mode = "in call" /\ ~mInCallAudioMode)
            /\ Resume(mode, hw)
            /\ UNCHANGED <<rilVars, mInCallAudioMode, out, in>>
  <2>1. daemon' = daemon
    BY <1>10 DEF rilVars
  <2>2. KeepsVoice
    BY <1>5, <1>7, <1>10, <2>1, VoiceKept
  <2>3. KeepsVolume
    BY <1>4, <1>7, <1>10, <2>1 DEF KeepsVolume, VolumeHeard
  <2>4. KeepsPlayback
    <3>1. CASE Resumes(mode)
      <4>1. mInCallAudioMode
        BY <3>1 DEF Resumes, IInv, RadioPlays, CallMode
      <4> QED
        BY <4>1, <1>10 DEF KeepsPlayback, LeadsToDevice
    <3>2. CASE ~Resumes(mode)
      <4>1. hw' = hw
        BY <1>10, <3>2 DEF Resume, Resumes
      <4> QED
        BY <4>1, <1>10 DEF KeepsPlayback, LeadsToDevice
    <3> QED
      BY <3>1, <3>2
  <2> QED
    BY <1>5, <1>6, <2>2, <2>3, <2>4 DEF IInv, Keeps
<1> QED
  BY <1>4, <1>8, <1>9, <1>10 DEF ModeSet

(* A wait for the input and a TTY mode change nothing but what is read; a  *)
(* volume that is set in a call is sent.                                   *)
LEMMA QuietKeeps ==
  ASSUME IInv,
         \/ \E mode \in Modes : SetModeWaits(mode)
         \/ \E volume \in Volumes : setVoiceVolume(volume)
         \/ \E tty \in {"off", "full"} : SetTTYMode(tty)
  PROVE  IInv' /\ Keeps
<1>1. UNCHANGED <<mMode, mInCallAudioMode, hw, out, in, mFmFd, mFmResumeAfterCall, asked>>
  BY DEF SetModeWaits, setVoiceVolume, SetTTYMode
<1>2. KeepsCapture /\ KeepsPlayback /\ KeepsCount
  BY <1>1, RoutesKept
<1>3. CallMode' /\ MicRouted' /\ Types
  BY <1>1 DEF IInv, CallMode, MicRouted
<1>4. CASE \E mode \in Modes : SetModeWaits(mode)
  <2>1. PICK mode \in Modes : SetModeWaits(mode)
    BY <1>4
  <2>2. /\ caller' = [at |-> "setMode", read |-> mode] /\ caller.at = "idle"
        /\ UNCHANGED <<rilVars, mVoiceVol, mTTYMode>>
    BY <2>1 DEF SetModeWaits
  <2>3. daemon' = daemon
    BY <2>2 DEF rilVars
  <2>4. Types'
    BY <1>1, <1>3, <2>2, <2>3 DEF Types
  <2>5. RadioPlays'
    BY <1>1, <2>2 DEF IInv, RadioPlays
  <2>6. KeepsVolume /\ KeepsVoice
    BY <1>1, <2>2, <2>3, HeardKept, VoiceKept
  <2> QED
    BY <1>2, <1>3, <2>3, <2>4, <2>5, <2>6 DEF IInv, Keeps
<1>5. CASE \E volume \in Volumes : setVoiceVolume(volume)
  <2>1. PICK volume \in Volumes : setVoiceVolume(volume)
    BY <1>5
  <2>2. mVoiceVol' = volume /\ UNCHANGED <<mTTYMode, caller>>
    BY <2>1 DEF setVoiceVolume
  <2>3. /\ daemon' \in [Commands -> {NoRequest} \cup AllOutDevices \cup Volumes]
        /\ daemon'["path"] = daemon["path"]
        /\ \/ daemon'[SoundType(out.device)] = volume
           \/ daemon' = daemon /\ (mMode # "in call" \/ refused')
    <3>1. CASE mMode = "in call"
      <4>1. SendVolume(volume)
        BY <2>1, <3>1 DEF setVoiceVolume
      <4> QED
        BY <1>3, <4>1, VolumeSent
    <3>2. CASE mMode # "in call"
      <4>1. UNCHANGED rilVars
        BY <2>1, <3>2 DEF setVoiceVolume
      <4> QED
        BY <1>3, <3>2, <4>1 DEF rilVars, Types
    <3> QED
      BY <3>1, <3>2
  <2>4. Types'
    BY <1>1, <1>3, <2>2, <2>3 DEF Types
  <2>5. RadioPlays'
    BY <1>1, <2>2 DEF IInv, RadioPlays
  <2>6. KeepsVoice
    BY <1>1, <2>2, <2>3 DEF KeepsVoice, VoiceFollowsDevice
  <2>7. VolumeHeard' <=> daemon'[SoundType(out.device)] = volume
    BY <1>1, <2>2 DEF VolumeHeard
  <2>8. KeepsVolume
    BY <1>1, <2>2, <2>3, <2>7 DEF KeepsVolume, VolumeHeard, IInv, CallMode
  <2> QED
    BY <1>2, <1>3, <2>3, <2>4, <2>5, <2>6, <2>8 DEF IInv, Keeps
<1>6. CASE \E tty \in {"off", "full"} : SetTTYMode(tty)
  <2>1. PICK tty \in {"off", "full"} : SetTTYMode(tty)
    BY <1>6
  <2>2. /\ mTTYMode' = tty /\ UNCHANGED <<rilVars, mVoiceVol>>
        /\ caller.at = "idle"
        /\ caller' = IF mMode = "in call"
                       THEN [at |-> "tty", read |-> out.device] ELSE caller
    BY <2>1 DEF SetTTYMode
  <2>3. daemon' = daemon
    BY <2>2 DEF rilVars
  <2>4. Types'
    BY <1>1, <1>3, <2>2, <2>3 DEF Types
  <2>5. RadioPlays'
    BY <1>1, <2>2 DEF IInv, RadioPlays
  <2>6. KeepsVolume
    BY <1>1, <2>2, <2>3, HeardKept
  <2>7. KeepsVoice
    BY <1>1, <2>2, <2>3 DEF KeepsVoice, VoiceFollowsDevice
  <2> QED
    BY <1>2, <1>3, <2>3, <2>4, <2>5, <2>6, <2>7 DEF IInv, Keeps
<1> QED
  BY <1>4, <1>5, <1>6

(* What a step that leaves the calls' state alone may do to the devices    *)
(* when no stream starts or stops: routes and counts stay, and so does the *)
(* invariant.                                                              *)
LEMMA PathKeeps ==
  ASSUME IInv, NEW device \in OutDevices, setIncallPath_l(device),
         mMode = "in call" \/ out' = out,
         out'.active = out.active, out' \in [device : OutDevices, active : BOOLEAN],
         UNCHANGED <<mMode, mInCallAudioMode, mVoiceVol, mTTYMode, in, mFmFd,
                     mFmResumeAfterCall, asked>>,
         caller' = caller \/ (caller' = Idle /\ caller.at = "tty")
  PROVE  IInv' /\ KeepsCapture /\ KeepsPlayback /\ KeepsVolume /\ KeepsCount
<1>1. /\ hw' \in HwFields
      /\ hw'.playback = hw.playback /\ hw'.capture = hw.capture
      /\ SameCounts(hw', hw)
      /\ hw'.source = hw.source /\ hw'.mInputSource = hw.mInputSource
      /\ daemon' \in [Commands -> {NoRequest} \cup AllOutDevices \cup Volumes]
      /\ \A t \in SoundTypes : daemon'[t] = daemon[t]
  BY PathSet
<1>2. Types'
  <2>1. /\ caller'.at = "setMode" => caller'.read \in Modes
        /\ caller'.at \in {"tty", "fm"} => caller'.read \in OutDevices
    <3>1. CASE caller' = caller
      BY <3>1 DEF IInv, Types
    <3>2. CASE caller' = Idle
      BY <3>2 DEF Idle
    <3> QED
      BY <3>1, <3>2
  <2>2. in' \in [device : InDevices, active : BOOLEAN]
    BY DEF IInv, Types
  <2> QED
    BY <1>1, <2>1, <2>2 DEF IInv, Types
<1>3. RadioPlays' /\ CallMode' /\ MicRouted'
  BY <1>1 DEF IInv, RadioPlays, CallMode, MicRouted, Idle
<1>4. KeepsCapture
  BY <1>1, <1>3 DEF KeepsCapture, SourceSelected
<1>5. KeepsPlayback
  BY <1>1 DEF KeepsPlayback, LeadsToDevice, IInv, CallMode
<1>6. KeepsVolume
  BY <1>1, HeardKept
<1>7. KeepsCount
  BY <1>1 DEF KeepsCount, HoldersCounted, SameCounts
<1> QED
  BY <1>1, <1>2, <1>3, <1>4, <1>5, <1>6, <1>7 DEF IInv

(* The path set for a TTY mode.                                            *)
LEMMA TTYKeeps == ASSUME IInv, TTYRoutes PROVE IInv' /\ Keeps
<1>1. /\ caller.at = "tty" /\ caller.read \in OutDevices /\ caller' = Idle
      /\ setIncallPath_l(caller.read)
      /\ UNCHANGED <<mMode, mInCallAudioMode, mVoiceVol, mTTYMode, out, in, mFmFd,
                     mFmResumeAfterCall, asked>>
  BY DEF TTYRoutes, IInv, Types
<1>2. out' \in [device : OutDevices, active : BOOLEAN]
  BY <1>1 DEF IInv, Types
<1>3. IInv' /\ KeepsCapture /\ KeepsPlayback /\ KeepsVolume /\ KeepsCount
  BY <1>1, <1>2, PathKeeps
<1>4. /\ daemon'["path"] = PathOf(caller.read) \/ daemon' = daemon
      /\ \/ hw'.voice = VoiceRoute(caller.read, mTTYMode)
         \/ hw.mixer = 0
         \/ hw'.voice = hw.voice
  BY <1>1, PathSet
<1>5. KeepsVoice
  BY <1>1, <1>4 DEF KeepsVoice, VoiceFollowsDevice
<1> QED
  BY <1>3, <1>5 DEF Keeps

(* What the radio's calls leave alone.                                     *)
RadioLeaves ==
  UNCHANGED <<mMode, mInCallAudioMode, mVoiceVol, mTTYMode, out, in, daemon>>

(* Outside a call the radio opens the devices; in one it waits.            *)
LEMMA FmOnKeeps == ASSUME IInv, enableFMRadio PROVE IInv' /\ Keeps
<1>1. RadioLeaves /\ ~asked /\ asked' = TRUE /\ mFmFd' = mFmFd /\ caller.at = "idle"
  BY DEF enableFMRadio, RadioLeaves, rilVars
<1>2. CASE mMode = "in call"
  <2>1. mFmResumeAfterCall' = TRUE /\ UNCHANGED <<hw, caller>>
    BY <1>2 DEF enableFMRadio
  <2>2. Types' /\ RadioPlays' /\ CallMode' /\ MicRouted'
    BY <1>1, <1>2, <2>1 DEF RadioLeaves, IInv, Types, RadioPlays, CallMode, MicRouted
  <2>3. KeepsCapture /\ KeepsPlayback
    BY <1>1, <2>1, <2>2 DEF RadioLeaves, KeepsCapture, KeepsPlayback, SourceSelected,
                            LeadsToDevice
  <2>4. KeepsVolume /\ KeepsVoice
    BY <1>1, <2>1, HeardKept, VoiceKept DEF RadioLeaves
  <2>5. KeepsCount
    <3>1. N(asked /\ ~mFmResumeAfterCall) = 0 /\ N(asked' /\ ~mFmResumeAfterCall') = 0
      BY <1>1, <2>1 DEF N
    <3>2. UNCHANGED <<hw, out, in, mInCallAudioMode>>
      BY <1>1, <2>1 DEF RadioLeaves
    <3> QED
      BY <3>1, <3>2 DEF KeepsCount, HoldersCounted
  <2> QED
    BY <1>1, <2>2, <2>3, <2>4, <2>5 DEF RadioLeaves, IInv, Keeps
<1>3. CASE mMode # "in call"
  <2>1. /\ hw' = FmOpened(hw, mMode) /\ mFmResumeAfterCall' = mFmResumeAfterCall
        /\ caller' = [at |-> "fm", read |-> out.device]
    BY <1>3 DEF enableFMRadio
  <2>2. /\ hw' \in HwFields /\ hw'.pcm = hw.pcm + 1 /\ hw'.mixer = hw.mixer + 1
        /\ hw'.playback = hw.playback /\ hw'.capture = hw.capture /\ hw'.voice = hw.voice
        /\ Selected(hw) => Selected(hw')
    BY <2>1, FmOpens DEF IInv, Types
  <2>3. Types' /\ RadioPlays' /\ CallMode' /\ MicRouted'
    BY <1>1, <1>3, <2>1, <2>2 DEF RadioLeaves, IInv, Types, RadioPlays, CallMode, MicRouted
  <2>4. KeepsCapture
    BY <1>1, <2>2, <2>3 DEF RadioLeaves, KeepsCapture, SourceSelected, Selected
  <2>5. KeepsPlayback
    BY <1>1, <2>2 DEF RadioLeaves, KeepsPlayback, LeadsToDevice
  <2>6. KeepsVolume /\ KeepsVoice
    BY <1>1, <2>2, HeardKept, VoiceKept DEF RadioLeaves
  <2>7. KeepsCount
    <3>1. ~mFmResumeAfterCall /\ ~mFmResumeAfterCall'
      BY <1>3, <2>1 DEF IInv, RadioPlays
    <3>2. N(asked /\ ~mFmResumeAfterCall) = 0 /\ N(asked' /\ ~mFmResumeAfterCall') = 1
      BY <1>1, <3>1 DEF N
    <3> DEFINE n == N(out.active) + N(mInCallAudioMode)
    <3>3. n \in Nat /\ n' = n /\ N(in'.active) = N(in.active) /\ N(in.active) \in Nat
      <4>1. /\ N(out.active) \in Nat /\ N(mInCallAudioMode) \in Nat /\ N(in.active) \in Nat
        BY DEF N
      <4>2. UNCHANGED <<mInCallAudioMode, out, in>>
        BY <1>1 DEF RadioLeaves
      <4> QED
        BY <4>1, <4>2
    <3>4. /\ HoldersCounted <=> hw.pcm = n + 0 /\ hw.mixer = n + 0 + N(in.active)
          /\ HoldersCounted' <=> hw'.pcm = n' + 1 /\ hw'.mixer = n' + 1 + N(in'.active)
      BY <3>2 DEF HoldersCounted
    <3> HIDE DEF n
    <3> QED
      BY <2>2, <3>3, <3>4 DEF KeepsCount
  <2> QED
    BY <1>1, <2>3, <2>4, <2>5, <2>6, <2>7 DEF RadioLeaves, IInv, Keeps
<1> QED
  BY <1>2, <1>3

(* Then it routes.                                                         *)
LEMMA FmRoutesKeeps == ASSUME IInv, FmRoutes PROVE IInv' /\ Keeps
<1>1. /\ RadioLeaves /\ UNCHANGED <<asked, mFmResumeAfterCall>> /\ mFmFd' = TRUE
      /\ caller.at = "fm" /\ caller.read \in OutDevices /\ caller' = Idle
      /\ hw' = FmRouted(hw, caller.read) /\ hw \in HwFields
  BY DEF FmRoutes, RadioLeaves, rilVars, IInv, Types
<1>2. /\ hw' \in HwFields /\ SameCounts(hw', hw)
      /\ hw'.capture = hw.capture /\ hw'.voice = hw.voice
      /\ hw'.source = hw.source /\ hw'.mInputSource = hw.mInputSource
      /\ hw'.playback = IF hw.mixer = 0 THEN hw.playback ELSE FmDevice(caller.read)
  BY <1>1, FmSelects
<1>3. Types' /\ RadioPlays' /\ CallMode' /\ MicRouted'
  BY <1>1, <1>2 DEF RadioLeaves, IInv, Types, RadioPlays, CallMode, MicRouted, Idle
<1>4. KeepsCapture
  BY <1>1, <1>2, <1>3 DEF RadioLeaves, KeepsCapture, SourceSelected
<1>5. KeepsPlayback
  BY <1>1, <1>2 DEF RadioLeaves, KeepsPlayback, LeadsToDevice
<1>6. KeepsVolume /\ KeepsVoice
  BY <1>1, <1>2, HeardKept, VoiceKept DEF RadioLeaves
<1>7. KeepsCount
  BY <1>1, <1>2 DEF RadioLeaves, KeepsCount, HoldersCounted, SameCounts
<1> QED
  BY <1>1, <1>3, <1>4, <1>5, <1>6, <1>7 DEF RadioLeaves, IInv, Keeps

(* A radio that is switched off gives back what it had opened, unless it   *)
(* still waited.                                                           *)
LEMMA FmOffKeeps == ASSUME IInv, disableFMRadio PROVE IInv' /\ Keeps
<1>1. /\ RadioLeaves /\ UNCHANGED <<mFmResumeAfterCall, caller>>
      /\ asked /\ asked' = FALSE /\ mFmFd' = FALSE /\ caller.at = "idle"
      /\ hw' = (IF hw.mixer = 0 THEN hw ELSE Closed(hw)) /\ hw \in HwFields
  BY DEF disableFMRadio, RadioLeaves, rilVars, IInv, Types
<1>2. /\ hw' \in HwFields /\ SameControls(hw', hw)
      /\ hw'.pcm = (IF hw.mixer = 0 THEN hw.pcm ELSE Less(hw.pcm))
      /\ hw'.mixer = Less(hw.mixer)
  BY <1>1, BothClosed DEF SameControls, Less
<1>3. Types' /\ RadioPlays' /\ CallMode' /\ MicRouted'
  BY <1>1, <1>2 DEF RadioLeaves, SameControls, IInv, Types, RadioPlays, CallMode, MicRouted
<1>4. KeepsCapture
  BY <1>1, <1>2, <1>3 DEF RadioLeaves, SameControls, KeepsCapture, SourceSelected
<1>5. KeepsPlayback
  BY <1>1, <1>2 DEF RadioLeaves, SameControls, KeepsPlayback, LeadsToDevice
<1>6. KeepsVolume /\ KeepsVoice
  BY <1>1, <1>2, HeardKept, VoiceKept DEF RadioLeaves, SameControls
<1>7. KeepsCount
  <2>1. CASE mFmResumeAfterCall
    BY <1>1, <2>1 DEF KeepsCount
  <2>2. CASE ~mFmResumeAfterCall
    <3>1. N(asked /\ ~mFmResumeAfterCall) = 1 /\ N(asked' /\ ~mFmResumeAfterCall') = 0
      BY <1>1, <2>2 DEF N
    <3> DEFINE n == N(out.active) + N(mInCallAudioMode)
    <3>2. n \in Nat /\ n' = n /\ N(in'.active) = N(in.active) /\ N(in.active) \in Nat
      <4>1. /\ N(out.active) \in Nat /\ N(mInCallAudioMode) \in Nat /\ N(in.active) \in Nat
        BY DEF N
      <4>2. UNCHANGED <<mInCallAudioMode, out, in>>
        BY <1>1 DEF RadioLeaves
      <4> QED
        BY <4>1, <4>2
    <3>3. /\ HoldersCounted <=> hw.pcm = n + 1 /\ hw.mixer = n + 1 + N(in.active)
          /\ HoldersCounted' <=> hw'.pcm = n' + 0 /\ hw'.mixer = n' + 0 + N(in'.active)
      BY <3>1 DEF HoldersCounted
    <3> HIDE DEF n
    <3> QED
      BY <1>2, <3>2, <3>3 DEF KeepsCount, Less
  <2> QED
    BY <2>1, <2>2
<1> QED
  BY <1>1, <1>3, <1>4, <1>5, <1>6, <1>7 DEF RadioLeaves, IInv, Keeps

-----------------------------------------------------------------------------
(* The streams.                                                            *)

(* What the streams leave alone.                                           *)
LEMMA StreamsLeaveKeeps ==
  ASSUME IInv, UNCHANGED StreamsLeave, UNCHANGED rilVars,
         hw' \in HwFields, hw'.voice = hw.voice,
         out' \in [device : OutDevices, active : BOOLEAN],
         in' \in [device : InDevices, active : BOOLEAN],
         out'.device = out.device \/ mMode # "in call"
  PROVE  /\ Types' /\ RadioPlays' /\ CallMode'
         /\ KeepsVolume /\ KeepsVoice
<1>1. daemon' = daemon
  BY DEF rilVars
<1>2. UNCHANGED <<mMode, mInCallAudioMode, mVoiceVol, mTTYMode, mFmFd, mFmResumeAfterCall,
                  asked, caller>>
  BY DEF StreamsLeave
<1>3. Types' /\ RadioPlays' /\ CallMode'
  BY <1>1, <1>2 DEF IInv, Types, RadioPlays, CallMode
<1>4. KeepsVolume
  BY <1>1, <1>2, HeardKept
<1>5. KeepsVoice
  BY <1>1, <1>2 DEF KeepsVoice, VoiceFollowsDevice
<1> QED
  BY <1>1, <1>3, <1>4, <1>5

Others == N(mInCallAudioMode) + N(asked /\ ~mFmResumeAfterCall)

(* The counts are those of the output, of the input, and of the others,    *)
(* which a stream leaves alone.                                            *)
LEMMA OthersKept ==
  ASSUME IInv, UNCHANGED StreamsLeave, out'.active \in BOOLEAN, in'.active \in BOOLEAN
  PROVE  /\ Others \in {0, 1, 2} /\ Others' = Others
         /\ HoldersCounted <=>
              /\ hw.pcm = (IF out.active THEN 1 + Others ELSE Others)
              /\ hw.mixer = (IF in.active THEN hw.pcm + 1 ELSE hw.pcm)
         /\ HoldersCounted' <=>
              /\ hw'.pcm = (IF out'.active THEN 1 + Others ELSE Others)
              /\ hw'.mixer = (IF in'.active THEN hw'.pcm + 1 ELSE hw'.pcm)
<1> DEFINE a == N(mInCallAudioMode)
           b == N(asked /\ ~mFmResumeAfterCall)
           o == N(out.active)
           i == N(in.active)
<1>1. a \in {0, 1} /\ b \in {0, 1}
  BY DEF N
<1>2. a' = a /\ b' = b
  <2>1. UNCHANGED <<mInCallAudioMode, asked, mFmResumeAfterCall>>
    BY DEF StreamsLeave
  <2> QED
    BY <2>1
<1>3. Others = a + b /\ Others' = a' + b'
  BY DEF Others
<1>4. out.active \in BOOLEAN /\ in.active \in BOOLEAN
  BY DEF IInv, Types
<1>5. /\ o = (IF out.active THEN 1 ELSE 0) /\ o' = (IF out'.active THEN 1 ELSE 0)
      /\ i = (IF in.active THEN 1 ELSE 0) /\ i' = (IF in'.active THEN 1 ELSE 0)
  BY DEF N
<1>6. /\ HoldersCounted <=> hw.pcm = o + a + b /\ hw.mixer = o + a + b + i
      /\ HoldersCounted' <=> hw'.pcm = o' + a' + b' /\ hw'.mixer = o' + a' + b' + i'
  BY DEF HoldersCounted
<1> HIDE DEF a, b, o, i
<1>7. Others \in {0, 1, 2} /\ Others' = Others
  BY <1>1, <1>2, <1>3
<1>8. HoldersCounted <=>
        /\ hw.pcm = (IF out.active THEN 1 + Others ELSE Others)
        /\ hw.mixer = (IF in.active THEN hw.pcm + 1 ELSE hw.pcm)
  BY <1>1, <1>3, <1>4, <1>5, <1>6
<1>9. HoldersCounted' <=>
        /\ hw'.pcm = (IF out'.active THEN 1 + Others ELSE Others)
        /\ hw'.mixer = (IF in'.active THEN hw'.pcm + 1 ELSE hw'.pcm)
  BY <1>1, <1>2, <1>3, <1>5, <1>6
<1> QED
  BY <1>7, <1>8, <1>9

(* An output that starts, with an input that is closed and opened again.   *)
LEMMA OutStartsKeeps == ASSUME IInv, OutStarts PROVE IInv' /\ Keeps
<1>1. /\ ~out.active /\ out' = [out EXCEPT !.active = TRUE]
      /\ hw' = (IF in.active THEN InOpened(OutOpened(InClosed(hw))) ELSE OutOpened(hw))
      /\ UNCHANGED rilVars /\ in' = in /\ UNCHANGED StreamsLeave /\ Types /\ hw \in HwFields
  BY DEF OutStarts, IInv, Types
<1>2. UNCHANGED <<mMode, mInCallAudioMode>>
  BY <1>1 DEF StreamsLeave
<1>3. /\ out' \in [device : OutDevices, active : BOOLEAN] /\ out'.device = out.device
      /\ in' \in [device : InDevices, active : BOOLEAN] /\ out'.active = TRUE
  BY <1>1 DEF Types
<1>4. /\ hw' \in HwFields /\ hw'.voice = hw.voice
      /\ hw'.source = hw.source /\ hw'.mInputSource = hw.mInputSource
      /\ hw'.pcm = hw.pcm + 1
      /\ hw'.mixer = (IF in.active THEN Less(hw.mixer) + 2 ELSE hw.mixer + 1)
      /\ mMode # "in call" => hw'.playback = out.device
      /\ ~in.active \/ mMode = "in call" => hw'.capture = hw.capture
      /\ in.active /\ mMode # "in call" => hw'.capture = in.device
  <2>1. CASE in.active
    <3> DEFINE c == InClosed(hw)
               o == OutOpened(c)
               g == InOpened(o)
    <3>1. /\ c \in HwFields /\ SameControls(c, hw)
          /\ c.pcm = hw.pcm /\ c.mixer = Less(hw.mixer)
      BY <1>1, <2>1, StandbyDoes
    <3> HIDE DEF c
    <3>2. /\ o \in HwFields /\ o.pcm = c.pcm + 1 /\ o.mixer = c.mixer + 1
          /\ o.capture = c.capture /\ o.voice = c.voice
          /\ o.source = c.source /\ o.mInputSource = c.mInputSource
          /\ o.playback = IF mMode = "in call" THEN c.playback ELSE out.device
      BY <1>1, <3>1, OutDoes
    <3> HIDE DEF o
    <3>3. /\ g \in HwFields /\ g.pcm = o.pcm /\ g.mixer = o.mixer + 1
          /\ g.playback = o.playback /\ g.voice = o.voice
          /\ g.source = o.source /\ g.mInputSource = o.mInputSource
          /\ g.capture = IF mMode = "in call" THEN o.capture ELSE in.device
      BY <1>1, <3>2, InDoes
    <3>4. hw' = g
      BY <1>1, <2>1 DEF o, c
    <3> HIDE DEF g
    <3>5. c.mixer \in Nat
      BY <3>1 DEF HwFields
    <3>6. hw'.pcm = hw.pcm + 1 /\ hw'.mixer = Less(hw.mixer) + 2
      <4>1. hw'.mixer = (Less(hw.mixer) + 1) + 1 /\ hw'.pcm = hw.pcm + 1
        BY <3>1, <3>2, <3>3, <3>4
      <4>2. Less(hw.mixer) \in Nat
        BY <3>1, <3>5
      <4> QED
        BY <4>1, <4>2
    <3>7. /\ hw' \in HwFields /\ hw'.voice = hw.voice
          /\ hw'.source = hw.source /\ hw'.mInputSource = hw.mInputSource
      BY <3>1, <3>2, <3>3, <3>4 DEF SameControls
    <3>8. /\ mMode # "in call" => hw'.playback = out.device
          /\ hw'.capture = IF mMode = "in call" THEN hw.capture ELSE in.device
      BY <3>1, <3>2, <3>3, <3>4 DEF SameControls
    <3> QED
      BY <2>1, <3>6, <3>7, <3>8
  <2>2. CASE ~in.active
    BY <1>1, <2>2, OutDoes
  <2> QED
    BY <2>1, <2>2
<1>5. /\ Types' /\ RadioPlays' /\ CallMode'
      /\ KeepsVolume /\ KeepsVoice
  BY <1>1, <1>3, <1>4, StreamsLeaveKeeps
<1>6. MicRouted'
  BY <1>1, <1>2, <1>4 DEF MicRouted, IInv, CallMode
<1>7. KeepsCapture
  BY <1>4, <1>6 DEF KeepsCapture, SourceSelected
<1>8. KeepsPlayback
  BY <1>2, <1>3, <1>4 DEF KeepsPlayback, LeadsToDevice, IInv, CallMode
<1>9. KeepsCount
  <2>1. /\ Others \in {0, 1, 2} /\ Others' = Others
        /\ HoldersCounted <=>
             /\ hw.pcm = (IF out.active THEN 1 + Others ELSE Others)
             /\ hw.mixer = (IF in.active THEN hw.pcm + 1 ELSE hw.pcm)
        /\ HoldersCounted' <=>
             /\ hw'.pcm = (IF out'.active THEN 1 + Others ELSE Others)
             /\ hw'.mixer = (IF in'.active THEN hw'.pcm + 1 ELSE hw'.pcm)
    BY <1>1, <1>3, OthersKept
  <2>2. /\ out.active = FALSE /\ out'.active = TRUE
        /\ in'.active = in.active /\ in.active \in BOOLEAN
    BY <1>1, <1>3 DEF Types
  <2>3. /\ hw'.pcm = hw.pcm + 1
        /\ hw'.mixer = (IF in.active THEN (IF hw.mixer = 0 THEN 0 ELSE hw.mixer - 1) + 2
                                     ELSE hw.mixer + 1)
    BY <1>4 DEF Less
  <2>4. ASSUME in.active PROVE KeepsCount
    BY <2>1, <2>2, <2>3, <2>4 DEF KeepsCount
  <2>5. ASSUME ~in.active PROVE KeepsCount
    BY <2>1, <2>2, <2>3, <2>5 DEF KeepsCount
  <2> QED
    BY <2>4, <2>5
<1> QED
  BY <1>5, <1>6, <1>7, <1>8, <1>9 DEF IInv, Keeps

(* An input that starts, with an output that is closed and opened again.   *)
LEMMA InStartsKeeps == ASSUME IInv, InStarts PROVE IInv' /\ Keeps
<1>1. /\ ~in.active /\ in' = [in EXCEPT !.active = TRUE]
      /\ hw' = InOpened(IF out.active THEN OutOpened(OutClosed(hw)) ELSE hw)
      /\ UNCHANGED rilVars /\ out' = out /\ UNCHANGED StreamsLeave /\ Types /\ hw \in HwFields
  BY DEF InStarts, IInv, Types
<1>2. UNCHANGED <<mMode, mInCallAudioMode>>
  BY <1>1 DEF StreamsLeave
<1>3. /\ out' \in [device : OutDevices, active : BOOLEAN] /\ in'.device = in.device
      /\ in' \in [device : InDevices, active : BOOLEAN] /\ in'.active = TRUE
  BY <1>1 DEF Types
<1>4. /\ hw' \in HwFields /\ hw'.voice = hw.voice
      /\ hw'.source = hw.source /\ hw'.mInputSource = hw.mInputSource
      /\ hw'.pcm = (IF out.active THEN Less(hw.pcm) + 1 ELSE hw.pcm)
      /\ hw'.mixer = (IF out.active THEN Less(hw.mixer) + 2 ELSE hw.mixer + 1)
      /\ out.active /\ mMode # "in call" => hw'.playback = out.device
      /\ mMode # "in call" => hw'.capture = in.device
  <2> DEFINE o == IF out.active THEN OutOpened(OutClosed(hw)) ELSE hw
             g == InOpened(o)
  <2>1. /\ o \in HwFields /\ o.voice = hw.voice
        /\ o.source = hw.source /\ o.mInputSource = hw.mInputSource
        /\ o.pcm = (IF out.active THEN Less(hw.pcm) + 1 ELSE hw.pcm)
        /\ o.mixer = (IF out.active THEN Less(hw.mixer) + 1 ELSE hw.mixer)
        /\ out.active /\ mMode # "in call" => o.playback = out.device
    <3>1. CASE out.active
      <4> DEFINE c == OutClosed(hw)
                 q == OutOpened(c)
      <4>1. /\ c \in HwFields /\ SameControls(c, hw)
            /\ c.pcm = Less(hw.pcm) /\ c.mixer = Less(hw.mixer)
        BY <1>1, <3>1, StandbyDoes
      <4> HIDE DEF c
      <4>2. /\ q \in HwFields /\ q.pcm = c.pcm + 1 /\ q.mixer = c.mixer + 1
            /\ q.capture = c.capture /\ q.voice = c.voice
            /\ q.source = c.source /\ q.mInputSource = c.mInputSource
            /\ q.playback = IF mMode = "in call" THEN c.playback ELSE out.device
        BY <1>1, <4>1, OutDoes
      <4>3. o = q
        BY <3>1 DEF c
      <4> HIDE DEF o, q
      <4> QED
        BY <3>1, <4>1, <4>2, <4>3 DEF SameControls
    <3>2. CASE ~out.active
      BY <1>1, <3>2
    <3> QED
      BY <3>1, <3>2
  <2>2. hw' = g
    BY <1>1
  <2> HIDE DEF o
  <2>3. /\ g \in HwFields /\ g.pcm = o.pcm /\ g.mixer = o.mixer + 1
        /\ g.playback = o.playback /\ g.voice = o.voice
        /\ g.source = o.source /\ g.mInputSource = o.mInputSource
        /\ g.capture = IF mMode = "in call" THEN o.capture ELSE in.device
    BY <1>1, <2>1, InDoes
  <2> HIDE DEF g
  <2>4. Less(hw.mixer) \in Nat /\ hw.mixer \in Nat
    BY <1>1 DEF HwFields, Less
  <2>5. /\ hw'.pcm = (IF out.active THEN Less(hw.pcm) + 1 ELSE hw.pcm)
        /\ hw'.mixer = (IF out.active THEN Less(hw.mixer) + 2 ELSE hw.mixer + 1)
    <3>1. CASE out.active
      <4>1. hw'.mixer = (Less(hw.mixer) + 1) + 1 /\ hw'.pcm = Less(hw.pcm) + 1
        BY <2>1, <2>2, <2>3, <3>1
      <4> QED
        BY <2>4, <3>1, <4>1
    <3>2. CASE ~out.active
      BY <2>1, <2>2, <2>3, <3>2
    <3> QED
      BY <3>1, <3>2
  <2>6. /\ hw' \in HwFields /\ hw'.voice = hw.voice
        /\ hw'.source = hw.source /\ hw'.mInputSource = hw.mInputSource
    BY <2>1, <2>2, <2>3
  <2>7. /\ out.active /\ mMode # "in call" => hw'.playback = out.device
        /\ mMode # "in call" => hw'.capture = in.device
    BY <2>1, <2>2, <2>3
  <2> QED
    BY <2>5, <2>6, <2>7
<1>5. /\ Types' /\ RadioPlays' /\ CallMode'
      /\ KeepsVolume /\ KeepsVoice
  BY <1>1, <1>3, <1>4, StreamsLeaveKeeps
<1>6. MicRouted'
  BY <1>2, <1>3, <1>4 DEF MicRouted, IInv, CallMode
<1>7. KeepsCapture
  BY <1>4, <1>6 DEF KeepsCapture, SourceSelected
<1>8. KeepsPlayback
  BY <1>1, <1>2, <1>4 DEF KeepsPlayback, LeadsToDevice, IInv, CallMode
<1>9. KeepsCount
  <2>1. /\ Others \in {0, 1, 2} /\ Others' = Others
        /\ HoldersCounted <=>
             /\ hw.pcm = (IF out.active THEN 1 + Others ELSE Others)
             /\ hw.mixer = (IF in.active THEN hw.pcm + 1 ELSE hw.pcm)
        /\ HoldersCounted' <=>
             /\ hw'.pcm = (IF out'.active THEN 1 + Others ELSE Others)
             /\ hw'.mixer = (IF in'.active THEN hw'.pcm + 1 ELSE hw'.pcm)
    BY <1>1, <1>3, OthersKept
  <2>2. /\ in.active = FALSE /\ in'.active = TRUE
        /\ out'.active = out.active /\ out.active \in BOOLEAN
    BY <1>1, <1>3 DEF Types
  <2>3. /\ hw'.pcm = (IF out.active THEN (IF hw.pcm = 0 THEN 0 ELSE hw.pcm - 1) + 1 ELSE hw.pcm)
        /\ hw'.mixer = (IF out.active THEN (IF hw.mixer = 0 THEN 0 ELSE hw.mixer - 1) + 2
                                      ELSE hw.mixer + 1)
    BY <1>4 DEF Less
  <2>4. ASSUME out.active PROVE KeepsCount
    BY <2>1, <2>2, <2>3, <2>4 DEF KeepsCount
  <2>5. ASSUME ~out.active PROVE KeepsCount
    BY <2>1, <2>2, <2>3, <2>5 DEF KeepsCount
  <2> QED
    BY <2>4, <2>5
<1> QED
  BY <1>5, <1>6, <1>7, <1>8, <1>9 DEF IInv, Keeps

(* One less of what is held, by the output and perhaps the input.          *)
LEMMA OneLess ==
  ASSUME NEW o \in {0, 1, 2}
  PROVE  Less(1 + o) = o /\ Less((1 + o) + 1) = o + 1
BY DEF Less

(* An output that stops, for standby or for a new device outside a call.   *)
LEMMA OutStopsKeeps ==
  ASSUME IInv, out.active, hw' = OutClosed(hw),
         out'.active = FALSE, out' \in [device : OutDevices, active : BOOLEAN],
         out'.device = out.device \/ mMode # "in call",
         UNCHANGED rilVars, in' = in, UNCHANGED StreamsLeave
  PROVE  IInv' /\ Keeps
<1>1. hw \in HwFields /\ in \in [device : InDevices, active : BOOLEAN]
  BY DEF IInv, Types
<1>2. /\ hw' \in HwFields /\ SameControls(hw', hw)
      /\ hw'.pcm = Less(hw.pcm) /\ hw'.mixer = Less(hw.mixer)
  BY <1>1, StandbyDoes
<1>3. /\ Types' /\ RadioPlays' /\ CallMode'
      /\ KeepsVolume /\ KeepsVoice
  BY <1>1, <1>2, StreamsLeaveKeeps DEF SameControls
<1>4. MicRouted'
  BY <1>2 DEF StreamsLeave, SameControls, IInv, MicRouted
<1>5. KeepsCapture
  BY <1>2, <1>4 DEF SameControls, KeepsCapture, SourceSelected
<1>6. KeepsPlayback
  BY DEF KeepsPlayback, LeadsToDevice
<1>7. KeepsCount
  <2>1. /\ Others \in {0, 1, 2} /\ Others' = Others
        /\ HoldersCounted <=>
             /\ hw.pcm = (IF out.active THEN 1 + Others ELSE Others)
             /\ hw.mixer = (IF in.active THEN hw.pcm + 1 ELSE hw.pcm)
        /\ HoldersCounted' <=>
             /\ hw'.pcm = (IF out'.active THEN 1 + Others ELSE Others)
             /\ hw'.mixer = (IF in'.active THEN hw'.pcm + 1 ELSE hw'.pcm)
    BY <1>1, OthersKept
  <2>2. in.active \in BOOLEAN
    BY <1>1
  <2>3. /\ HoldersCounted => /\ hw.pcm = 1 + Others
                             /\ hw.mixer = (IF in.active THEN hw.pcm + 1 ELSE hw.pcm)
        /\ hw'.pcm = Others /\ hw'.mixer = (IF in.active THEN Others + 1 ELSE Others)
             => HoldersCounted'
    BY <2>1
  <2>4. HoldersCounted => /\ Less(hw.pcm) = Others
                          /\ Less(hw.mixer) = IF in.active THEN Others + 1 ELSE Others
    <3> SUFFICES ASSUME HoldersCounted
                 PROVE  /\ Less(hw.pcm) = Others
                        /\ Less(hw.mixer) = IF in.active THEN Others + 1 ELSE Others
      OBVIOUS
    <3>1. /\ hw.pcm = 1 + Others
          /\ hw.mixer = IF in.active THEN hw.pcm + 1 ELSE hw.pcm
      BY <2>3
    <3>2. Others \in {0, 1, 2}
      BY <2>1
    <3>3. Less(1 + Others) = Others /\ Less((1 + Others) + 1) = Others + 1
      BY <3>2, OneLess
    <3> QED
      BY <3>1, <3>3
  <2> QED
    BY <1>2, <2>3, <2>4 DEF KeepsCount
<1> QED
  BY <1>3, <1>4, <1>5, <1>6, <1>7 DEF IInv, Keeps

(* An input that stops, likewise.                                          *)
LEMMA InStopsKeeps ==
  ASSUME IInv, in.active, hw' = InClosed(hw),
         in'.active = FALSE, in' \in [device : InDevices, active : BOOLEAN],
         UNCHANGED rilVars, out' = out, UNCHANGED StreamsLeave
  PROVE  IInv' /\ Keeps
<1>1. hw \in HwFields /\ out \in [device : OutDevices, active : BOOLEAN]
  BY DEF IInv, Types
<1>2. /\ hw' \in HwFields /\ SameControls(hw', hw)
      /\ hw'.pcm = hw.pcm /\ hw'.mixer = Less(hw.mixer)
  BY <1>1, StandbyDoes
<1>3. /\ Types' /\ RadioPlays' /\ CallMode'
      /\ KeepsVolume /\ KeepsVoice
  BY <1>1, <1>2, StreamsLeaveKeeps DEF SameControls
<1>4. MicRouted'
  BY DEF MicRouted
<1>5. KeepsCapture
  BY <1>2, <1>4 DEF SameControls, KeepsCapture, SourceSelected
<1>6. KeepsPlayback
  BY <1>2 DEF SameControls, StreamsLeave, KeepsPlayback, LeadsToDevice
<1>7. KeepsCount
  <2>1. /\ Others \in {0, 1, 2} /\ Others' = Others
        /\ HoldersCounted <=>
             /\ hw.pcm = (IF out.active THEN 1 + Others ELSE Others)
             /\ hw.mixer = (IF in.active THEN hw.pcm + 1 ELSE hw.pcm)
        /\ HoldersCounted' <=>
             /\ hw'.pcm = (IF out'.active THEN 1 + Others ELSE Others)
             /\ hw'.mixer = (IF in'.active THEN hw'.pcm + 1 ELSE hw'.pcm)
    BY <1>1, OthersKept
  <2>2. out.active \in BOOLEAN /\ out' = out
    BY <1>1
  <2>3. in.active = TRUE /\ in'.active = FALSE
    BY DEF IInv, Types
  <2>4. CASE out.active
    BY <1>2, <2>1, <2>2, <2>3, <2>4 DEF KeepsCount, Less
  <2>5. CASE ~out.active
    BY <1>2, <2>1, <2>2, <2>3, <2>5 DEF KeepsCount, Less
  <2> QED
    BY <2>4, <2>5
<1> QED
  BY <1>3, <1>4, <1>5, <1>6, <1>7 DEF IInv, Keeps

(* A stream that is idle, or stays with its device, may be routed without  *)
(* any effect on the devices.                                              *)
LEMMA IdleRouted ==
  ASSUME IInv, UNCHANGED hw, UNCHANGED rilVars, UNCHANGED StreamsLeave,
         out' \in [device : OutDevices, active : BOOLEAN], out'.active = out.active,
         in' \in [device : InDevices, active : BOOLEAN], in'.active = in.active,
         out'.device = out.device \/ mMode # "in call",
         out.active => out' = out,
         in.active => in' = in \/ mMode = "in call"
  PROVE  IInv' /\ Keeps
<1>1. hw \in HwFields
  BY DEF IInv, Types
<1>2. /\ Types' /\ RadioPlays' /\ CallMode'
      /\ KeepsVolume /\ KeepsVoice
  BY <1>1, StreamsLeaveKeeps
<1>3. UNCHANGED <<mMode, mInCallAudioMode, asked, mFmResumeAfterCall>>
  BY DEF StreamsLeave
<1>4. MicRouted'
  BY <1>3 DEF IInv, CallMode, MicRouted
<1>5. KeepsCapture
  BY <1>4 DEF KeepsCapture, SourceSelected
<1>6. KeepsPlayback
  BY <1>3 DEF KeepsPlayback, LeadsToDevice
<1>7. KeepsCount
  BY <1>3 DEF KeepsCount, HoldersCounted
<1> QED
  BY <1>2, <1>4, <1>5, <1>6, <1>7 DEF IInv, Keeps

(* A new device for the output: in a call it is the call's.                *)
LEMMA OutRoutingKeeps ==
  ASSUME IInv, NEW device \in OutDevices, OutSetRouting(device)
  PROVE  IInv' /\ Keeps
<1>1. /\ out' = [device |-> device,
                 active |-> out.active /\ (device = out.device \/ mMode = "in call")]
      /\ in' = in /\ UNCHANGED StreamsLeave
      /\ out \in [device : OutDevices, active : BOOLEAN]
      /\ in \in [device : InDevices, active : BOOLEAN]
  BY DEF OutSetRouting, IInv, Types
<1>2. out' \in [device : OutDevices, active : BOOLEAN] /\ out'.device = device
  BY <1>1
<1>3. CASE mMode = "in call"
  <2>0. out'.active = out.active
    BY <1>1, <1>3
  <2>1. setIncallPath_l(device)
    BY <1>3 DEF OutSetRouting
  <2>2. UNCHANGED <<mMode, mInCallAudioMode, mVoiceVol, mTTYMode, mFmFd, mFmResumeAfterCall,
                    asked, caller>>
    BY <1>1 DEF StreamsLeave
  <2>3. IInv' /\ KeepsCapture /\ KeepsPlayback /\ KeepsVolume /\ KeepsCount
    <3>1. /\ UNCHANGED <<mMode, mInCallAudioMode, mVoiceVol, mTTYMode, in, mFmFd,
                        mFmResumeAfterCall, asked>>
          /\ caller' = caller
      BY <1>1, <2>2
    <3>2. /\ mMode = "in call" \/ out' = out
          /\ caller' = caller \/ (caller' = Idle /\ caller.at = "tty")
      BY <1>3, <3>1
    <3> QED
      BY <1>2, <2>0, <2>1, <3>1, <3>2, PathKeeps
  <2>4. /\ daemon'["path"] = PathOf(device) \/ (refused' /\ daemon' = daemon)
        /\ \/ hw'.voice = VoiceRoute(device, mTTYMode)
           \/ hw.mixer = 0
           \/ refused' /\ daemon' = daemon /\ hw'.voice = hw.voice
    BY <2>1, PathSet
  <2>5. KeepsVoice
    BY <1>2, <2>2, <2>4 DEF KeepsVoice, VoiceFollowsDevice
  <2> QED
    BY <2>3, <2>5 DEF Keeps
<1>4. CASE mMode # "in call"
  <2>1. /\ hw' = (IF device = out.device THEN hw ELSE OutClosed(hw)) /\ UNCHANGED rilVars
    BY <1>4 DEF OutSetRouting
  <2>2. CASE device = out.device \/ ~out.active
    <3>1. hw' = hw
      BY <2>1, <2>2 DEF OutClosed
    <3>2. out'.active = out.active
      BY <1>1, <2>2
    <3>3. out.active => out' = out
      BY <1>1, <2>2
    <3> QED
      BY <1>1, <1>2, <1>4, <2>1, <3>1, <3>2, <3>3, IdleRouted
  <2>3. CASE device # out.device /\ out.active
    BY <1>1, <1>2, <1>4, <2>1, <2>3, OutStopsKeeps
  <2> QED
    BY <1>1, <2>2, <2>3
<1> QED
  BY <1>3, <1>4

(* And for the input.                                                      *)
LEMMA InRoutingKeeps ==
  ASSUME IInv, NEW device \in InDevices, InSetRouting(device)
  PROVE  IInv' /\ Keeps
<1>1. /\ in' = [device |-> device,
                active |-> in.active /\ (device = in.device \/ mMode = "in call")]
      /\ hw' = (IF device = in.device \/ mMode = "in call" THEN hw ELSE InClosed(hw))
      /\ out' = out /\ UNCHANGED StreamsLeave /\ UNCHANGED rilVars
      /\ out \in [device : OutDevices, active : BOOLEAN]
      /\ in \in [device : InDevices, active : BOOLEAN]
  BY DEF InSetRouting, IInv, Types
<1>2. in' \in [device : InDevices, active : BOOLEAN]
  BY <1>1
<1>3. CASE device = in.device \/ mMode = "in call" \/ ~in.active
  <2>1. hw' = hw
    BY <1>1, <1>3 DEF InClosed
  <2>2. in'.active = in.active
    BY <1>1, <1>3
  <2>3. in.active => in' = in \/ mMode = "in call"
    BY <1>1, <1>3
  <2> QED
    BY <1>1, <1>2, <2>1, <2>2, <2>3, IdleRouted
<1>4. CASE device # in.device /\ mMode # "in call" /\ in.active
  BY <1>1, <1>2, <1>4, InStopsKeeps
<1> QED
  BY <1>1, <1>3, <1>4

(* A source: the mixer is opened for it and closed again.                  *)
LEMMA SourceKeeps ==
  ASSUME IInv, NEW source \in Sources, InSetSource(source)
  PROVE  IInv' /\ Keeps
<1>1. /\ hw' = closeMixer_l(setInputSource_l(openMixer_l(hw), source, mMode))
      /\ UNCHANGED <<out, in>> /\ UNCHANGED StreamsLeave /\ UNCHANGED rilVars
      /\ hw \in HwFields /\ mMode \in Modes /\ hw.mixer \in Nat
      /\ out \in [device : OutDevices, active : BOOLEAN]
      /\ in \in [device : InDevices, active : BOOLEAN]
  BY DEF InSetSource, IInv, Types, HwFields
<1> DEFINE o == openMixer_l(hw)
           g == setInputSource_l(o, source, mMode)
           c == closeMixer_l(g)
<1>2. /\ o \in HwFields /\ SameControls(o, hw)
      /\ o.pcm = hw.pcm /\ o.mixer = hw.mixer + 1
  BY <1>1, MixerOpened
<1> HIDE DEF o
<1>3. /\ g \in HwFields /\ SameCounts(g, o)
      /\ g.playback = o.playback /\ g.capture = o.capture /\ g.voice = o.voice
      /\ o.mixer # 0 /\ mMode # "in call" /\ Selected(o) => Selected(g)
  BY <1>1, <1>2, SourceSet
<1> HIDE DEF g
<1>4. /\ c \in HwFields /\ SameControls(c, g)
      /\ c.pcm = g.pcm /\ c.mixer = Less(g.mixer)
  BY <1>3, MixerClosed
<1>5. hw' = c
  BY <1>1 DEF g, o
<1> HIDE DEF c
<1>6. hw' \in HwFields /\ SameCounts(hw', hw)
  <2>1. g.mixer = hw.mixer + 1 /\ g.pcm = hw.pcm
    BY <1>2, <1>3 DEF SameCounts
  <2>2. Less(g.mixer) = hw.mixer
    BY <1>1, <2>1 DEF Less
  <2> QED
    BY <1>4, <1>5, <2>1, <2>2 DEF SameCounts
<1>7. hw'.playback = hw.playback /\ hw'.capture = hw.capture /\ hw'.voice = hw.voice
  BY <1>2, <1>3, <1>4, <1>5 DEF SameControls
<1>8. mMode # "in call" /\ Selected(hw) => Selected(hw')
  <2>1. o.mixer # 0 /\ (Selected(hw) => Selected(o))
    BY <1>1, <1>2 DEF SameControls, Selected
  <2>2. Selected(g) => Selected(hw')
    BY <1>4, <1>5 DEF SameControls, Selected
  <2> QED
    BY <1>3, <2>1, <2>2
<1>9. /\ Types' /\ RadioPlays' /\ CallMode'
      /\ KeepsVolume /\ KeepsVoice
  BY <1>1, <1>6, <1>7, StreamsLeaveKeeps
<1>10. UNCHANGED <<mMode, mInCallAudioMode, asked, mFmResumeAfterCall>>
  BY <1>1 DEF StreamsLeave
<1>11. MicRouted'
  BY <1>1, <1>7, <1>10 DEF IInv, MicRouted
<1>12. KeepsCapture
  BY <1>1, <1>8, <1>11 DEF KeepsCapture, SourceSelected, Selected
<1>13. KeepsPlayback
  BY <1>1, <1>7, <1>10 DEF KeepsPlayback, LeadsToDevice
<1>14. KeepsCount
  BY <1>1, <1>6, <1>10 DEF KeepsCount, HoldersCounted, SameCounts
<1> QED
  BY <1>9, <1>11, <1>12, <1>13, <1>14 DEF IInv, Keeps

(* The daemon and the client's thread: a daemon that dies has been told    *)
(* nothing, which every property allows.                                   *)
LEMMA RadioKeeps == ASSUME IInv, RadioStep, UNCHANGED hwVars PROVE IInv' /\ Keeps
<1>1. UNCHANGED <<mMode, mInCallAudioMode, mVoiceVol, mTTYMode, hw, out, in, mFmFd,
                  mFmResumeAfterCall, asked, caller>>
  BY DEF hwVars
<1>2. /\ daemon' \in [Commands -> {NoRequest} \cup AllOutDevices \cup Volumes]
      /\ daemon' = daemon \/ link' # "open"
  BY RadioForgets DEF IInv
<1>3. Types' /\ RadioPlays' /\ CallMode' /\ MicRouted'
  BY <1>1, <1>2 DEF IInv, Types, RadioPlays, CallMode, MicRouted
<1>4. KeepsCapture /\ KeepsPlayback /\ KeepsCount
  BY <1>1, RoutesKept
<1>5. KeepsVoice /\ KeepsVolume
  BY <1>1, <1>2 DEF KeepsVoice, KeepsVolume, VoiceFollowsDevice, VolumeHeard, IInv, CallMode
<1> QED
  BY <1>2, <1>3, <1>4, <1>5 DEF IInv, Keeps

(* Every step keeps the invariant, the routes, the volume and the counts.  *)
LEMMA Step == IInv /\ [Next]_vars => IInv' /\ Keeps
<1> SUFFICES ASSUME IInv, [Next]_vars PROVE IInv' /\ Keeps
  OBVIOUS
<1>1. CASE Interface
  BY <1>1, SetModeKeeps, QuietKeeps, TTYKeeps, FmOnKeeps, FmRoutesKeeps, FmOffKeeps
  DEF Interface
<1>2. ASSUME OutStandby PROVE IInv' /\ Keeps
  <2>1. /\ out.active /\ out' = [out EXCEPT !.active = FALSE] /\ hw' = OutClosed(hw)
        /\ UNCHANGED rilVars /\ in' = in /\ UNCHANGED StreamsLeave
        /\ out \in [device : OutDevices, active : BOOLEAN]
    BY <1>2 DEF OutStandby, IInv, Types
  <2>2. /\ out' \in [device : OutDevices, active : BOOLEAN]
        /\ out'.active = FALSE /\ out'.device = out.device
    BY <2>1
  <2> QED
    BY <2>1, <2>2, OutStopsKeeps
<1>3. ASSUME InStandby PROVE IInv' /\ Keeps
  <2>1. /\ in.active /\ in' = [in EXCEPT !.active = FALSE] /\ hw' = InClosed(hw)
        /\ UNCHANGED rilVars /\ out' = out /\ UNCHANGED StreamsLeave
        /\ in \in [device : InDevices, active : BOOLEAN]
    BY <1>3 DEF InStandby, IInv, Types
  <2>2. in' \in [device : InDevices, active : BOOLEAN] /\ in'.active = FALSE
    BY <2>1
  <2> QED
    BY <2>1, <2>2, InStopsKeeps
<1>4. CASE Streams
  BY <1>2, <1>3, <1>4, OutStartsKeeps, InStartsKeeps, OutRoutingKeeps, InRoutingKeeps, SourceKeeps
  DEF Streams
<1>5. CASE RadioStep /\ UNCHANGED hwVars
  BY <1>5, RadioKeeps
<1>6. CASE UNCHANGED vars
  <2>1. UNCHANGED <<mMode, mInCallAudioMode, mVoiceVol, mTTYMode, hw, out, in, mFmFd,
                    mFmResumeAfterCall, asked, caller, opened, link, daemon>>
    BY <1>6 DEF vars, hwVars, rilVars
  <2>2. IInv'
    BY <2>1 DEF IInv, Types, RadioPlays, CallMode, MicRouted
  <2>3. KeepsCapture /\ KeepsPlayback /\ KeepsCount
    BY <2>1, RoutesKept
  <2>4. KeepsVoice /\ KeepsVolume
    BY <2>1, VoiceKept, HeardKept
  <2> QED
    BY <2>2, <2>3, <2>4 DEF Keeps
<1> QED
  BY <1>1, <1>4, <1>5, <1>6 DEF Next

-----------------------------------------------------------------------------
(* The invariant holds of every state that is reached.                     *)
THEOREM RoutingInvariant == Spec => []IInv
<1>1. IInv /\ [Next]_vars => IInv'
  BY Step
<1> QED
  BY <1>1, InvInit, PTL DEF Spec

(* The types that the invariant has no use for.                            *)
RestTypes ==
  /\ opened \in BOOLEAN /\ handler \in BOOLEAN /\ refused \in BOOLEAN
  /\ link \in {"closed", "open", "broken"}
  /\ thread \in {"none", "reading", "lost"}
  /\ caller \in [at : {"idle", "setMode", "tty", "fm"}, read : Modes \cup OutDevices \cup {Unset}]
  /\ calls \in 0 .. MaxCalls

(* A request leaves all of the client but the socket alone.                *)
LEMMA SentTypes ==
  ASSUME RestTypes, NEW command, NEW value, NEW connected \in BOOLEAN,
         Sent(command, value, connected)
  PROVE  /\ link' \in {"closed", "open", "broken"} /\ refused' \in BOOLEAN
         /\ UNCHANGED <<opened, thread, handler>>
BY DEF RestTypes, Sent

(* Every step keeps the rest of the types.                                 *)
LEMMA RestStep == IInv /\ RestTypes /\ [Next]_vars => RestTypes'
<1> SUFFICES ASSUME IInv, RestTypes, [Next]_vars PROVE RestTypes'
  OBVIOUS
<1> DEFINE Client == /\ link' \in {"closed", "open", "broken"} /\ refused' \in BOOLEAN
                     /\ UNCHANGED <<opened, thread, handler>>
           Caller == caller' \in [at : {"idle", "setMode", "tty", "fm"},
                                  read : Modes \cup OutDevices \cup {Unset}]
           Calls == calls' \in 0 .. MaxCalls
<1>1. Client /\ Caller /\ Calls => RestTypes'
  BY DEF RestTypes
<1>2. UNCHANGED rilVars => Client
  BY DEF rilVars, RestTypes
<1>3. UNCHANGED caller => Caller
  BY DEF RestTypes
<1>4. caller' = Idle => Caller
  BY DEF Idle
<1>5. UNCHANGED calls \/ (calls < MaxCalls /\ calls' = calls + 1) => Calls
  BY RoutingAssumption DEF RestTypes
<1>6. out.device \in OutDevices
  BY DEF IInv, Types
<1> HIDE DEF Client, Caller, Calls
<1>7. ASSUME NEW mode, NEW stopsOut, ModeSet(mode, stopsOut)
      PROVE  Client /\ Caller
  <2>1. \/ UNCHANGED rilVars
        \/ \E connected \in BOOLEAN : Sent(SoundType(out.device), mVoiceVol, connected)
    BY <1>7 DEF ModeSet, SendVolume
  <2>2. caller' = Idle
    BY <1>7 DEF ModeSet
  <2> QED
    BY <1>2, <1>4, <2>1, <2>2, SentTypes DEF Client
<1>8. ASSUME NEW device, setIncallPath_l(device) PROVE Client
  <2>1. \E connected \in BOOLEAN : Sent("path", PathOf(device), connected)
    BY <1>8 DEF setIncallPath_l
  <2> QED
    BY <2>1, SentTypes DEF Client
<1>9. ASSUME NEW mode \in Modes, SetMode(mode) \/ SetModeWaits(mode) PROVE RestTypes'
  <2>1. CASE SetMode(mode)
    BY <1>1, <1>5, <1>7, <2>1 DEF SetMode
  <2>2. CASE SetModeWaits(mode)
    <3>1. caller' = [at |-> "setMode", read |-> mode] /\ UNCHANGED rilVars
      BY <2>2 DEF SetModeWaits
    <3>2. Caller
      BY <3>1 DEF Caller
    <3> QED
      BY <1>1, <1>2, <1>5, <2>2, <3>1, <3>2 DEF SetModeWaits
  <2> QED
    BY <1>9, <2>1, <2>2
<1>10. ASSUME SetModeGoesOn PROVE RestTypes'
  BY <1>1, <1>5, <1>7, <1>10 DEF SetModeGoesOn
<1>11. ASSUME NEW volume \in Volumes, setVoiceVolume(volume) PROVE RestTypes'
  <2>1. \/ UNCHANGED rilVars
        \/ \E connected \in BOOLEAN : Sent(SoundType(out.device), volume, connected)
    BY <1>11 DEF setVoiceVolume, SendVolume
  <2>2. Client
    BY <1>2, <2>1, SentTypes DEF Client
  <2> QED
    BY <1>1, <1>3, <1>5, <1>11, <2>2 DEF setVoiceVolume
<1>12. ASSUME NEW tty \in {"off", "full"}, SetTTYMode(tty) PROVE RestTypes'
  <2>1. caller' = caller \/ caller' = [at |-> "tty", read |-> out.device]
    BY <1>12 DEF SetTTYMode
  <2>2. Caller
    BY <1>3, <1>6, <2>1 DEF Caller
  <2> QED
    BY <1>1, <1>2, <1>5, <1>12, <2>2 DEF SetTTYMode
<1>13. ASSUME TTYRoutes PROVE RestTypes'
  BY <1>1, <1>4, <1>5, <1>8, <1>13 DEF TTYRoutes
<1>14. ASSUME enableFMRadio PROVE RestTypes'
  <2>1. caller' = caller \/ caller' = [at |-> "fm", read |-> out.device]
    BY <1>14 DEF enableFMRadio
  <2>2. Caller
    BY <1>3, <1>6, <2>1 DEF Caller
  <2> QED
    BY <1>1, <1>2, <1>5, <1>14, <2>2 DEF enableFMRadio
<1>15. ASSUME FmRoutes \/ disableFMRadio PROVE RestTypes'
  BY <1>1, <1>2, <1>3, <1>4, <1>5, <1>15 DEF FmRoutes, disableFMRadio
<1>16. CASE Streams
  <2>1. UNCHANGED StreamsLeave
    BY <1>16 DEF Streams, OutStarts, OutStandby, OutSetRouting, InStarts, InStandby,
                 InSetRouting, InSetSource
  <2>2. UNCHANGED rilVars \/ \E device \in OutDevices : setIncallPath_l(device)
    BY <1>16 DEF Streams, OutStarts, OutStandby, OutSetRouting, InStarts, InStandby,
                 InSetRouting, InSetSource
  <2>3. Client
    BY <1>2, <1>8, <2>2
  <2> QED
    BY <1>1, <1>3, <1>5, <2>1, <2>3 DEF StreamsLeave
<1>17. CASE RadioStep /\ UNCHANGED hwVars
  BY <1>17 DEF RadioStep, DaemonDies, ThreadEnds, ThreadGoesOn, hwVars, RestTypes
<1>18. CASE UNCHANGED vars
  BY <1>18 DEF vars, hwVars, rilVars, RestTypes
<1> QED
  BY <1>9, <1>10, <1>11, <1>12, <1>13, <1>14, <1>15, <1>16, <1>17, <1>18 DEF Next, Interface

(* The types of the HAL's state and of the radio client's.                 *)
THEOREM RoutingTypes == Spec => []TypeOK
<1>1. Init => RestTypes
  <2>1. 0 \in 0 .. MaxCalls
    BY RoutingAssumption
  <2>2. Init => caller = [at |-> "idle", read |-> Unset] /\ calls = 0
    BY DEF Init, Idle
  <2>3. ASSUME NEW ok \in BOOLEAN, RilInit(ok)
        PROVE  /\ opened \in BOOLEAN /\ link = "closed" /\ thread = "none"
               /\ handler = FALSE /\ refused = FALSE
    BY <2>3 DEF RilInit
  <2>4. Init => /\ opened \in BOOLEAN /\ link = "closed" /\ thread = "none"
                /\ handler = FALSE /\ refused = FALSE
    BY <2>3 DEF Init
  <2>5. Init => caller \in [at : {"idle", "setMode", "tty", "fm"},
                            read : Modes \cup OutDevices \cup {Unset}]
    BY <2>2
  <2> QED
    BY <2>1, <2>2, <2>4, <2>5 DEF RestTypes
<1>2. IInv /\ RestTypes => TypeOK
  BY DEF IInv, Types, RestTypes, TypeOK, RilTypeOK, HwFields
<1> QED
  BY <1>1, <1>2, RestStep, RoutingInvariant, PTL DEF Spec

(* A radio that was switched on plays, or waits for the end of a call.     *)
THEOREM RadioAlwaysPlays == Spec => []RadioPlays
<1>1. IInv => RadioPlays
  BY DEF IInv
<1> QED
  BY <1>1, RoutingInvariant, PTL

(* An input records from its device and its source, but for a source set   *)
(* in a call.                                                              *)
THEOREM CaptureKept == Spec => CaptureRoute
<1>1. IInv /\ [Next]_vars => KeepsCapture
  BY Step DEF Keeps
<1> QED
  BY <1>1, RoutingInvariant, PTL DEF Spec, CaptureRoute, KeepsCapture

(* An output plays to its device, but for a setMode that missed it and a   *)
(* radio with another device.                                              *)
THEOREM PlaybackKept == Spec => PlaybackRoute
<1>1. IInv /\ [Next]_vars => KeepsPlayback
  BY Step DEF Keeps
<1> QED
  BY <1>1, RoutingInvariant, PTL DEF Spec, PlaybackRoute, KeepsPlayback

(* In a call the radio and the codec follow the output's device, as far as *)
(* the requests for it get through.                                        *)
THEOREM VoiceKeptInCalls == Spec => VoiceRouting
<1>1. IInv /\ [Next]_vars => KeepsVoice
  BY Step DEF Keeps
<1> QED
  BY <1>1, RoutingInvariant, PTL DEF Spec, VoiceRouting, KeepsVoice

(* The daemon has the volume of a call for the device in use, or the       *)
(* request has failed, until the output goes to a device of another type.  *)
THEOREM VolumeKept == Spec => VoiceVolume
<1>1. IInv /\ [Next]_vars => KeepsVolume
  BY Step DEF Keeps
<1> QED
  BY <1>1, RoutingInvariant, PTL DEF Spec, VoiceVolume, KeepsVolume

(* The devices are open once for each that uses them, until a radio that   *)
(* waits is switched off.                                                  *)
THEOREM CountsKept == Spec => DevicesCounted
<1>1. IInv /\ [Next]_vars => KeepsCount
  BY Step DEF Keeps
<1> QED
  BY <1>1, RoutingInvariant, PTL DEF Spec, DevicesCounted, KeepsCount

=============================================================================
