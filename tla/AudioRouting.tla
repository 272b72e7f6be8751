------------------------------ MODULE AudioRouting ------------------------------
(***************************************************************************)
(* Where the sound goes: the mixer controls, the counts of the playback    *)
(* device and the mixer, and the requests to the radio daemon that the     *)
(* audio HAL makes when streams start, stop and are routed, in calls, for  *)
(* TTY and for the FM radio.                                               *)
(*                                                                         *)
(* AudioHardware has the locks.  Here a handler that keeps the hardware    *)
(* lock over all it does is one step, and three that do not are cut where  *)
(* others may come in: setMode, which has looked at the output and waits   *)
(* for the input, and the TTY and FM parts of setParameters, which take no *)
(* lock and use the device they have read.  One thread makes the calls on  *)
(* the interface; each stream has its own thread.  The one output is open  *)
(* all the time, and no device fails (AudioHardware has failing ones).     *)
(***************************************************************************)
EXTENDS Naturals, RilClient

CONSTANTS OutDevices,   \* the devices the output is routed to
          InDevices,    \* and the input
          Sources,      \* the input sources a client asks for
          Volumes,      \* of the voice in a call
          MaxCalls      \* how often the mode is set

(* A headset is used together with the speaker for a notification.         *)
AllOutDevices == {"earpiece", "speaker", "headset", "speaker+headset", "bluetooth"}

DEFAULT == "default"

LOUDEST == "high"

ASSUME RoutingAssumption ==
  /\ OutDevices \subseteq AllOutDevices
  /\ LOUDEST \in Volumes
  /\ MaxCalls \in Nat

VARIABLES
  mMode, mInCallAudioMode, mVoiceVol, mTTYMode,
  hw,       \* mPcmOpenCnt, mMixerOpenCnt, mInputSource and the mixer's controls
  out, in,  \* the output and the input: their device, and whether they are active
  mFmFd,    \* the radio's device is open
  mFmResumeAfterCall,
  asked,    \* the client has switched the FM radio on
  caller,   \* the thread that calls the interface: what it is in and what it has read
  calls     \* made on the interface so far

hwVars  == <<mMode, mInCallAudioMode, mVoiceVol, mTTYMode, hw, out, in, mFmFd,
             mFmResumeAfterCall, asked, caller, calls>>
vars == <<rilVars, hwVars>>

Modes == {"normal", "ringtone", "in call"}

Unset == "unset"

Idle == [at |-> "idle", read |-> Unset]

Init ==
  /\ \E ok \in BOOLEAN : RilInit(ok)
  /\ mMode = "normal" /\ mInCallAudioMode = FALSE
  /\ mVoiceVol = LOUDEST
  /\ mTTYMode = "off"
  /\ hw = [pcm |-> 0, mixer |-> 0, mInputSource |-> DEFAULT,
           playback |-> Unset, capture |-> Unset, source |-> Unset, voice |-> Unset]
  /\ out \in [device : OutDevices, active : {FALSE}]
  /\ in \in [device : InDevices, active : {FALSE}]
  /\ mFmFd = FALSE /\ mFmResumeAfterCall = FALSE /\ asked = FALSE
  /\ caller = Idle
  /\ calls = 0

----------------------------------------------------------------------------
(* What the functions of the HAL do to the devices, each a function of the *)
(* state of the devices, so that a handler is their composition.           *)

Less(n) == IF n = 0 THEN 0 ELSE n - 1

openMixer_l(h)  == [h EXCEPT !.mixer = @ + 1]
closeMixer_l(h) == [h EXCEPT !.mixer = Less(@)]

(* openPcmOut_l with openMixer_l, and the other way.                       *)
Opened(h) == openMixer_l([h EXCEPT !.pcm = @ + 1])
Closed(h) == closeMixer_l([h EXCEPT !.pcm = Less(@)])

(* mixer_ctl_set_enum_by_string, on a mixer that is open.                  *)
Select(h, control, value) == IF h.mixer = 0 THEN h ELSE [h EXCEPT ![control] = value]

(* open_l of the streams sets the route, except in a call.  A route is     *)
(* named by its device here.                                               *)
OutOpened(h) ==
  IF mMode = "in call" THEN Opened(h) ELSE Select(Opened(h), "playback", out.device)

InOpened(h) ==
  IF mMode = "in call" THEN openMixer_l(h) ELSE Select(openMixer_l(h), "capture", in.device)

(* doStandby_l of a stream that is active.                                 *)
OutClosed(h) == IF out.active THEN Closed(h) ELSE h
InClosed(h)  == IF in.active THEN closeMixer_l(h) ELSE h

(* The sources of a call have no path of their own and are refused.        *)
SourcePath(source) == IF source = DEFAULT THEN "camcorder" ELSE source

(* Mutant: in a call no source is selected, the default neither.           *)
setInputSource_l_NotInCall(h, source, mode) ==
  IF source = h.mInputSource
    THEN h
  ELSE IF mode = "in call" \/ h.mixer = 0
    THEN [h EXCEPT !.mInputSource = source]
  ELSE IF source = "voice call"
    THEN h
    ELSE [h EXCEPT !.mInputSource = source, !.source = SourcePath(source)]

setInputSource_l(h, source, mode) ==
  IF source = h.mInputSource
    THEN h
  ELSE IF (source # DEFAULT /\ mode = "in call") \/ h.mixer = 0
    THEN [h EXCEPT !.mInputSource = source]
  ELSE IF source = "voice call"
    THEN h
    ELSE [h EXCEPT !.mInputSource = source, !.source = SourcePath(source)]

(* The radio's path for a device: what it does not know is the handset.    *)
PathOf(device) == IF device = "speaker+headset" THEN "earpiece" ELSE device

(* getVoiceRouteFromDevice.                                                *)
VoiceRoute(device, tty) ==
  CASE device = "speaker+headset"          -> "off"
    [] device = "headset" /\ tty # "off" -> tty
    [] OTHER                               -> device

(* setVoiceVolume_l: the type of sound the volume is sent for.             *)
SoundType(device) ==
  CASE device \in {"earpiece", "speaker+headset"} -> "voice"
    [] device = "bluetooth"                       -> "btvoice"
    [] OTHER                                      -> device

(* connectRILDIfRequired and, if that has connected, a request: the ping,  *)
(* the new connection (which a failed ping leaves behind) and the request  *)
(* may each fail.                                                          *)
Sent(command, value, connected) ==
  /\ connected => opened
  /\ link' \in IF connected THEN {"open"} ELSE IF opened THEN {link, "open"} ELSE {link}
  /\ \/ refused' = TRUE /\ UNCHANGED daemon
     \/ connected /\ refused' = FALSE /\ daemon' = [daemon EXCEPT ![command] = value]
  /\ UNCHANGED <<opened, thread, handler>>

(* setVoiceVolume_l in a call.                                             *)
SendVolume(volume) ==
  \E connected \in BOOLEAN : Sent(SoundType(out.device), volume, connected)

(* Whether the path reached the daemon is not looked at.                   *)
setIncallPath_l(device) ==
  \E connected \in BOOLEAN :
    /\ Sent("path", PathOf(device), connected)
    /\ hw' = IF connected THEN Select(hw, "voice", VoiceRoute(device, mTTYMode)) ELSE hw

(* setFMRadioPath_l takes the speaker away from a headset.                 *)
FmDevice(device) == IF device = "speaker+headset" THEN "headset" ELSE device

(* The first part of enableFMRadio, and the second.                        *)
FmOpened(h, mode) == setInputSource_l(Opened(h), DEFAULT, mode)
FmRouted(h, device) == Select(h, "playback", FmDevice(device))

----------------------------------------------------------------------------
(* The calls on the interface.                                             *)

(* What setMode does to the devices when a call starts: both streams are   *)
(* stopped, if setMode has found them active, and the call's devices       *)
(* opened;                                                                 *)
CallBegun(stopsOut) ==
  LET stopped == InClosed(IF stopsOut THEN OutClosed(hw) ELSE hw)
  IN  setInputSource_l(Opened(stopped), DEFAULT, "in call")

(* and when it ends: the earpiece, the call's devices closed, the streams  *)
(* stopped.                                                                *)
CallEnded(stopsOut) ==
  LET source == setInputSource_l(hw, hw.mInputSource, "normal")
      closed == Closed(Select(source, "playback", "earpiece"))
  IN  InClosed(IF stopsOut THEN OutClosed(closed) ELSE closed)

Stop(stopsOut) ==
  /\ out' = [out EXCEPT !.active = @ /\ ~stopsOut]
  /\ in' = [in EXCEPT !.active = FALSE]

(* Mutant: the radio asked for in the call is forgotten.                   *)
Resume_Forgets(mode, h) == hw' = h /\ UNCHANGED <<mFmFd, mFmResumeAfterCall>>

(* The end of setMode: an FM radio that was asked for in the call.         *)
Resume(mode, h) ==
  IF mFmResumeAfterCall /\ mode # "in call"
    THEN /\ hw' = FmRouted(FmOpened(h, mode), out.device)
         /\ mFmFd' = TRUE
         /\ mFmResumeAfterCall' = FALSE
    ELSE hw' = h /\ UNCHANGED <<mFmFd, mFmResumeAfterCall>>

ModeSet(mode, stopsOut) ==
  LET begins == mode = "in call" /\ ~mInCallAudioMode
      ends   == mode = "normal" /\ mInCallAudioMode
  IN  /\ mMode' = mode
      /\ \/ /\ begins
            /\ Stop(stopsOut)
            /\ Resume(mode, CallBegun(stopsOut))
            /\ mInCallAudioMode' = TRUE
            /\ SendVolume(mVoiceVol)
         \/ /\ ends
            /\ Stop(stopsOut)
            /\ Resume(mode, CallEnded(stopsOut))
            /\ mInCallAudioMode' = FALSE
            /\ UNCHANGED rilVars
         \/ /\ ~begins /\ ~ends
            /\ Resume(mode, hw)
            /\ UNCHANGED <<rilVars, mInCallAudioMode, out, in>>
      /\ caller' = Idle
      /\ UNCHANGED <<mVoiceVol, mTTYMode, asked>>

(* setMode with the output locked if it is active, and the input not       *)
(* locked or locked at once;                                               *)
SetMode(mode) ==
  /\ caller.at = "idle"
  /\ calls < MaxCalls
  /\ mode # mMode
  /\ ModeSet(mode, out.active)
  /\ calls' = calls + 1

(* or the output not locked, and a wait for the input.                     *)
SetModeWaits(mode) ==
  /\ caller.at = "idle"
  /\ calls < MaxCalls
  /\ mode # mMode
  /\ ~out.active /\ in.active
  /\ caller' = [at |-> "setMode", read |-> mode]
  /\ calls' = calls + 1
  /\ UNCHANGED <<rilVars, mMode, mInCallAudioMode, mVoiceVol, mTTYMode, hw, out, in, mFmFd,
                 mFmResumeAfterCall, asked>>

SetModeGoesOn ==
  /\ caller.at = "setMode"
  /\ ModeSet(caller.read, FALSE)
  /\ UNCHANGED calls

(* Mutant: the volume is sent before the new one is stored.                *)
setVoiceVolume_Before(volume) ==
  /\ caller.at = "idle"
  /\ calls < MaxCalls
  /\ mVoiceVol' = volume
  /\ IF mMode = "in call"
       THEN SendVolume(mVoiceVol)
       ELSE UNCHANGED rilVars
  /\ calls' = calls + 1
  /\ UNCHANGED <<mMode, mInCallAudioMode, mTTYMode, hw, out, in, mFmFd, mFmResumeAfterCall,
                 asked, caller>>

setVoiceVolume(volume) ==
  /\ caller.at = "idle"
  /\ calls < MaxCalls
  /\ mVoiceVol' = volume
  /\ IF mMode = "in call"
       THEN SendVolume(volume)
       ELSE UNCHANGED rilVars
  /\ calls' = calls + 1
  /\ UNCHANGED <<mMode, mInCallAudioMode, mTTYMode, hw, out, in, mFmFd, mFmResumeAfterCall,
                 asked, caller>>

(* tty_mode: in a call the path is set again for the output's device.  A   *)
(* mode set already is no call at all.                                     *)
SetTTYMode(tty) ==
  /\ caller.at = "idle"
  /\ calls < MaxCalls
  /\ tty # mTTYMode
  /\ mTTYMode' = tty
  /\ caller' = IF mMode = "in call"
                 THEN [at |-> "tty", read |-> out.device] ELSE caller
  /\ calls' = calls + 1
  /\ UNCHANGED <<rilVars, mMode, mInCallAudioMode, mVoiceVol, hw, out, in, mFmFd,
                 mFmResumeAfterCall, asked>>

TTYRoutes ==
  /\ caller.at = "tty"
  /\ setIncallPath_l(caller.read)
  /\ caller' = Idle
  /\ UNCHANGED <<mMode, mInCallAudioMode, mVoiceVol, mTTYMode, out, in, mFmFd,
                 mFmResumeAfterCall, asked, calls>>

(* fm_on: not before the end of a call.                                    *)
enableFMRadio ==
  /\ caller.at = "idle"
  /\ calls < MaxCalls
  /\ ~asked
  /\ asked' = TRUE
  /\ IF mMode = "in call"
       THEN mFmResumeAfterCall' = TRUE /\ UNCHANGED <<hw, caller>>
       ELSE /\ hw' = FmOpened(hw, mMode)
            /\ caller' = [at |-> "fm", read |-> out.device]
            /\ UNCHANGED mFmResumeAfterCall
  /\ calls' = calls + 1
  /\ UNCHANGED <<rilVars, mMode, mInCallAudioMode, mVoiceVol, mTTYMode, out, in, mFmFd>>

FmRoutes ==
  /\ caller.at = "fm"
  /\ hw' = FmRouted(hw, caller.read)
  /\ mFmFd' = TRUE
  /\ caller' = Idle
  /\ UNCHANGED <<rilVars, mMode, mInCallAudioMode, mVoiceVol, mTTYMode, out, in,
                 mFmResumeAfterCall, asked, calls>>

(* Mutant: the radio leaves the playback device to the next standby.       *)
disableFMRadio_MixerOnly ==
  /\ caller.at = "idle"
  /\ calls < MaxCalls
  /\ asked
  /\ asked' = FALSE
  /\ hw' = closeMixer_l(hw)
  /\ mFmFd' = FALSE
  /\ calls' = calls + 1
  /\ UNCHANGED <<rilVars, mMode, mInCallAudioMode, mVoiceVol, mTTYMode, out, in,
                 mFmResumeAfterCall, caller>>

(* fm_off, whether or not the radio plays.                                 *)
disableFMRadio ==
  /\ caller.at = "idle"
  /\ calls < MaxCalls
  /\ asked
  /\ asked' = FALSE
  /\ hw' = IF hw.mixer = 0 THEN hw ELSE Closed(hw)
  /\ mFmFd' = FALSE
  /\ calls' = calls + 1
  /\ UNCHANGED <<rilVars, mMode, mInCallAudioMode, mVoiceVol, mTTYMode, out, in,
                 mFmResumeAfterCall, caller>>

Interface ==
  \/ \E mode \in Modes : SetMode(mode) \/ SetModeWaits(mode)
  \/ SetModeGoesOn
  \/ \E volume \in Volumes : setVoiceVolume(volume)
  \/ \E tty \in {"off", "full"} : SetTTYMode(tty)
  \/ TTYRoutes
  \/ enableFMRadio \/ FmRoutes \/ disableFMRadio

----------------------------------------------------------------------------
(* The threads of the streams.  setMode keeps them out as long as it has   *)
(* anything to do but wait.                                                *)

StreamsLeave == <<mMode, mInCallAudioMode, mVoiceVol, mTTYMode, mFmFd, mFmResumeAfterCall,
                  asked, caller, calls>>

(* write() of an output in standby opens the output before the input.      *)
OutStarts ==
  /\ ~out.active
  /\ out' = [out EXCEPT !.active = TRUE]
  /\ hw' = IF in.active THEN InOpened(OutOpened(InClosed(hw))) ELSE OutOpened(hw)
  /\ UNCHANGED <<rilVars, in, StreamsLeave>>

OutStandby ==
  /\ out.active
  /\ out' = [out EXCEPT !.active = FALSE]
  /\ hw' = OutClosed(hw)
  /\ UNCHANGED <<rilVars, in, StreamsLeave>>

(* Mutant: in a call an output is not routed, either.                      *)
OutSetRouting_NoCall(device) ==
  /\ out' = [device |-> device,
             active |-> out.active /\ (device = out.device \/ mMode = "in call")]
  /\ IF mMode = "in call"
       THEN UNCHANGED <<hw, rilVars>>
       ELSE hw' = (IF device = out.device THEN hw ELSE OutClosed(hw)) /\ UNCHANGED rilVars
  /\ UNCHANGED <<in, StreamsLeave>>

(* Mutant: an active output goes on with its old path.                     *)
OutSetRouting_GoesOn(device) ==
  /\ out' = [out EXCEPT !.device = device]
  /\ IF mMode = "in call"
       THEN setIncallPath_l(device)
       ELSE UNCHANGED <<hw, rilVars>>
  /\ UNCHANGED <<in, StreamsLeave>>

(* setParameters: a new device takes effect when the output starts again,  *)
(* or in a call at once.                                                   *)
OutSetRouting(device) ==
  /\ out' = [device |-> device,
             active |-> out.active /\ (device = out.device \/ mMode = "in call")]
  /\ IF mMode = "in call"
       THEN setIncallPath_l(device)
       ELSE hw' = (IF device = out.device THEN hw ELSE OutClosed(hw)) /\ UNCHANGED rilVars
  /\ UNCHANGED <<in, StreamsLeave>>

(* read() of an input in standby closes and opens an active output first.  *)
InStarts ==
  /\ ~in.active
  /\ in' = [in EXCEPT !.active = TRUE]
  /\ hw' = InOpened(IF out.active THEN OutOpened(OutClosed(hw)) ELSE hw)
  /\ UNCHANGED <<rilVars, out, StreamsLeave>>

InStandby ==
  /\ in.active
  /\ in' = [in EXCEPT !.active = FALSE]
  /\ hw' = InClosed(hw)
  /\ UNCHANGED <<rilVars, out, StreamsLeave>>

(* Mutant: an input that is active goes on with its old path.              *)
InSetRouting_GoesOn(device) ==
  /\ in' = [in EXCEPT !.device = device]
  /\ UNCHANGED <<rilVars, hw, out, StreamsLeave>>

InSetRouting(device) ==
  /\ in' = [device |-> device,
            active |-> in.active /\ (device = in.device \/ mMode = "in call")]
  /\ hw' = IF device = in.device \/ mMode = "in call" THEN hw ELSE InClosed(hw)
  /\ UNCHANGED <<rilVars, out, StreamsLeave>>

InSetSource(source) ==
  /\ hw' = closeMixer_l(setInputSource_l(openMixer_l(hw), source, mMode))
  /\ UNCHANGED <<rilVars, out, in, StreamsLeave>>

Streams ==
  \/ OutStarts \/ OutStandby \/ \E device \in OutDevices : OutSetRouting(device)
  \/ InStarts \/ InStandby \/ \E device \in InDevices : InSetRouting(device)
  \/ \E source \in Sources : InSetSource(source)

Next == Interface \/ Streams \/ (RadioStep /\ UNCHANGED hwVars)

Spec == Init /\ [][Next]_vars

----------------------------------------------------------------------------
TypeOK ==
  /\ RilTypeOK(AllOutDevices \cup Volumes)
  /\ mMode \in Modes /\ mInCallAudioMode \in BOOLEAN
  /\ mVoiceVol \in Volumes /\ mTTYMode \in {"off", "full"}
  /\ hw \in [pcm : Nat, mixer : Nat, mInputSource : Sources \cup {DEFAULT},
             playback : AllOutDevices \cup {Unset}, capture : InDevices \cup {Unset},
             source : (Sources \ {DEFAULT}) \cup {"camcorder", Unset},
             voice : AllOutDevices \cup {"off", "full", Unset}]
  /\ out \in [device : OutDevices, active : BOOLEAN]
  /\ in \in [device : InDevices, active : BOOLEAN]
  /\ mFmFd \in BOOLEAN /\ mFmResumeAfterCall \in BOOLEAN /\ asked \in BOOLEAN
  /\ caller \in [at : {"idle", "setMode", "tty", "fm"}, read : Modes \cup OutDevices \cup {Unset}]
  /\ calls \in 0 .. MaxCalls

(* An FM radio that was switched on plays, or will at the end of the call  *)
(* it waits for (AudioHardware.cpp:466-472, :857-880): the flag is never   *)
(* left behind by the call.                                                *)
RadioPlays ==
  /\ asked => mFmFd \/ mFmResumeAfterCall \/ caller.at = "fm"
  /\ mFmResumeAfterCall => mMode = "in call"

MicRouted      == in.active /\ ~mInCallAudioMode => hw.capture = in.device
SourceSelected == hw.source = SourcePath(hw.mInputSource)

(* An input that is active outside a call records from its own device, and *)
(* the codec from the source the HAL goes by, whatever calls, routes and   *)
(* restarts of the output come in between (:446-449, :2189-2197,           *)
(* :2280-2287).  Only a source that is set in a call parts the HAL from    *)
(* the codec: it is stored without being selected, and nothing selects it  *)
(* afterwards (:1193, :425).                                               *)
CaptureRoute ==
  [][/\ MicRouted'
     /\ SourceSelected => \/ SourceSelected'
                          \/ mMode = "in call" /\ in' = in /\ out' = out]_vars

LeadsToDevice == out.active /\ ~mInCallAudioMode => hw.playback = out.device

(* An output that plays outside a call plays to its own device.  Two steps *)
(* may end that, and nothing else: the end of a setMode that missed the    *)
(* output while it waited for the input (:378), and an FM radio that       *)
(* routes to a device other than the output's: one read before the output  *)
(* was routed, without a lock (:870), or a headset without the speaker     *)
(* (:911).                                                                 *)
PlaybackRoute ==
  [][LeadsToDevice =>
       \/ LeadsToDevice'
       \/ caller.at = "setMode" /\ caller' = Idle
       \/ caller.at = "fm" /\ FmDevice(caller.read) # out.device]_vars

VoiceFollowsDevice ==
  /\ daemon["path"] \in {NoRequest, PathOf(out.device)}
  /\ hw.voice \in {Unset, VoiceRoute(out.device, mTTYMode)}

(* In a call the radio's path and the codec's voice path stay with the     *)
(* device the output was last routed to, unless there is no daemon to talk *)
(* to or the routing's own request has failed, which the code does not     *)
(* look at (:833); except while tty_mode is being set, which uses the      *)
(* device it has read and takes no lock (:551).                            *)
VoiceRouting ==
  [][mMode = "in call" /\ mMode' = "in call" /\ VoiceFollowsDevice =>
       \/ VoiceFollowsDevice'
       \/ link' # "open" \/ hw.mixer = 0
       \/ refused' /\ out'.device # out.device
       \/ caller'.at = "tty"
       \/ caller.at = "tty" /\ caller.read # out.device]_vars

(* The daemon goes by the volume of the type of sound it plays.            *)
VolumeHeard == daemon[SoundType(out.device)] = mVoiceVol

(* The volume of a call is the one that was set, before the call or in it, *)
(* for the device in use: whoever begins a call or sets the volume in one  *)
(* either gets it through to the daemon or sees the request fail (:422,    *)
(* :617-664), and no later step of the call takes it away but the death of *)
(* the daemon and a route to a device of another type, for which the code  *)
(* sends no volume (:1584-1587).                                           *)
VoiceVolume ==
  [][mMode' = "in call" =>
       /\ ~mInCallAudioMode \/ mVoiceVol' # mVoiceVol => VolumeHeard' \/ refused'
       /\ VolumeHeard /\ mVoiceVol' = mVoiceVol =>
            \/ VolumeHeard'
            \/ link' # "open"
            \/ SoundType(out'.device) # SoundType(out.device)]_vars

N(b) == IF b THEN 1 ELSE 0

HoldersCounted ==
  /\ hw.pcm = N(out.active) + N(mInCallAudioMode) + N(asked /\ ~mFmResumeAfterCall)
  /\ hw.mixer = hw.pcm + N(in.active)

(* The playback device and the mixer are open once for each of the output, *)
(* the call and the radio, and the mixer for the input.  Only a radio that *)
(* is switched off while it waits for the end of a call breaks the count:  *)
(* fm_off closes what the call has opened (:883-903), and the end of the   *)
(* call opens the devices for it all the same (:466-472).                  *)
DevicesCounted ==
  [][HoldersCounted => HoldersCounted' \/ (mFmResumeAfterCall /\ ~asked')]_vars
=============================================================================
