# A verification project for the Samsung Wave device tree

The repository holds the device support of an Android phone: the hardware abstraction layers
(HALs) that the Android servers load as libraries, the client of the radio daemon, a settings
application, and build and configuration files. This directory models the parts of it that have
state and that several threads, callbacks, devices or processes share, checks the models with TLC
on small instances, and proves what matters most for every instance with TLAPS.

Paths below are relative to `src/`.

## 1. Inventory of the system

| part | state | operations | who calls it | what is hard about it |
|---|---|---|---|---|
| audio HAL, `libaudio/AudioHardware.*` | hardware object (shared PCM and mixer handles with use counts, mode, mute, echo reference, list of inputs, the output), one object per stream (handles, standby flag and count, echo reference) | write, read, standby, setParameters, addAudioEffect, removeAudioEffect, setMode, setMicMute, opening and closing of streams | playback thread, record thread and binder threads of the audio server | three kinds of mutex with an order that often has to be restored by unlock, lock and a second look; reference-counted streams whose destructors take locks; shared device counts; errors of every open |
| audio routing, same files | devices of each stream, input source, TTY mode, voice volume, FM radio, the mixer's controls, requests to the radio | route selection, setParameters of the hardware object and of the streams, setVoiceVolume, setIncallPath_l, FM radio on and off | the same | which route is set when several actors ask for different ones; TTY and FM functions that run without the lock; a daemon that dies in a call |
| sensors HAL, `libsensors` | poll loop (results of poll kept between calls, wake pipe), one driver per sensor (enabled flag, pending event), circular reader of input events | activate, setDelay, poll; fill, readEvent, next | poll thread and binder threads of the sensor service | results kept across calls, blocking reads, flags shared by two threads with no lock, wrap-around of the reader |
| camera HAL, `libcamera/SecCameraHWInterface.*` | preview window, message mask, preview, recording and capture flags, three threads (preview, focus, picture) with conditions, memory heaps, parameters | open, close, preview, recording, autofocus, takePicture, setParameters, release | camera service; its own threads | conditions and flags under four mutexes, a picture taken while the preview runs, release while threads run, a driver object that outlives the interface |
| camera driver, `libcamera/SecCamera.*` | file descriptors, about fifty stored settings, stream-on flags | setters, start and stop of preview, recording, capture, focus | camera HAL | stored and device settings that come apart when a call fails |
| GPS HAL, `libgps/gps_wave.c` | callbacks, status, location, satellites, a mutex | init, start, stop, cleanup, the handler of the daemon's messages, threads that report | location service, radio client's thread, threads of its own | callbacks from other threads, a connection set up late and lost |
| radio client, `libril-client` | handle, socket, thread, handler | open, connect, ping, register, one request each | audio HAL, GPS HAL | requests over a socket that may be gone, answers and messages on the same socket |
| lights HAL, `liblight/lights.c` | one lock | one setter for the backlight, one for the notification LED | power manager, notification service | the lock is initialised again for each light that is opened |
| `DeviceSettings` | preferences, sysfs files | restore at boot, write on change | user interface | values restored at boot and written on change |
| recovery UI, `recovery` | framebuffer, key state | draw, flip | recovery binary | none of note |
| `bdaddr_read`, `pvrsrvinit` | none | run once at boot | init | none: a file read, a value formatted, a file written |
| `overlay`, `prebuilt`, `*.mk`, `*.rc`, `sepolicy`, `bluetooth`, `releasetools.py`, `partition.sh` | none | configuration data, build and packaging rules | the build, init | none |

The parts meet at few places. The audio server, the sensor service, the camera service and the
location service each load one HAL and call it from several threads; the audio and GPS HALs use the
radio client, each with a client of its own; the camera HAL drives the camera driver from the
threads of the service and from its own. What makes each correct: locks taken in one order and what
they guard; shared devices counted exactly and closed in standby; the sound where it was routed,
and a radio that plays when it was switched on; an event of a sensor reported once and not held
back; no frame on its way when a stop has returned; calls that return; settings that agree between
the client, the store and the device; a location service that ends up with the newest status.
The line at which each of these can go wrong is a hazard in `PROJECT.json`, with the property that
watches it and, where that property does not cover all of it, a note that says what is left.

## 2. Modules

| module | models | as |
|---|---|---|
| `AudioHardware` | `AudioHardware.cpp`: the hardware object, its streams and the threads in it | one action per stretch of code from one lock acquisition to the next |
| `AudioRouting` | the same file: where the sound goes, TTY, the voice volume, the FM radio | one action per handler that keeps the hardware lock, and the cuts where a handler waits or takes no lock; extends `RilClient` |
| `RilClient` | `ril-client.c`: handle, socket, thread and requests, and the daemon behind them | one operator per function, with its result as the argument |
| `GpsWave` | `gps_wave.c`: the calls of the location service, the handler of the radio client's thread, the threads that report | one action per call to the client, per lock and per half of a memcpy; extends `RilClient` |
| `LatestValue` | the abstract promise of each GPS callback | a value that changes, and a report of the newest |
| `InputEventReader` | `InputEventReader.cpp` | `fill`, `next` on buffer, positions and free space |
| `EventQueue` | the abstract queue the reader implements | a bounded queue: append, take |
| `SensorsPoll` | `sensors.cpp`, `ProximitySensor.cpp`, `Smb380Sensor.cpp`, `AkmSensor.cpp`, `SensorBase.cpp` | `pollEvents` and `readEvents` step by step, `activate` in the steps another thread can come between, the input devices |
| `CameraHal` | `SecCameraHWInterface.cpp` with the streams and the focus of `SecCamera.cpp` | client, preview thread, picture thread and focus thread, each from lock to lock, wait to wait and ioctl to ioctl |
| `CameraSettings` | `setParameters` and the settings of `SecCamera.cpp` | one action per call, with the request that fails as its choice |
| `MCAudioHardware`, `MCSensorsPoll`, `MCCameraHal` | instances for TLC | sets of calls and faults, sizes, model values, symmetry |
| `AudioHardwareProofs`, `AudioStreamsProofs`, `AudioRoutingProofs`, `GpsWaveProofs`, `InputEventReaderProofs`, `SensorsPollProofs`, `CameraHalProofs`, `CameraSettingsProofs` | proofs | see section 5 |

The names of variables, actions and operators are those of the code where TLA+ allows it; the map
in `PROJECT.json` has the lines of each. Definitions with a `_` and a suffix (for example
`Set_NotStored`) directly before a definition are mutants of it: plausible errors that the
property named for them in `PROJECT.json` finds.

**AudioHardware.** `hwLock`, `outLock`, `inLock` are the mutexes; `hw`, `out`, `in` the fields of
the objects; `pc` says where each thread is, and `spOut`, `spIn`, `dOut` are its local strong
pointers, from which it follows when a destructor runs (`LastRefOut`, `LastRefIn`, `Destroy`).
`standbyCnt` is compared by the code with a value read before; the model keeps the outcome of that
comparison (`fresh`), which `Invalidate` clears. The code that is shared, such as `standby()` and
`doStandby_l`, is modelled once with places to return to (`ret`, `dret`). Each open may fail if the
instance says so (`Faults`), those of a call included. Left out: what the mixer is set to, apart
from the microphone path that muting changes; that is `AudioRouting`.

**AudioRouting.** What the functions do to the devices (`openPcmOut_l`, `openMixer_l`, a control of
the mixer, `setInputSource_l`) are operators on a record of the counts and controls (`hw`), and a
handler is their composition (`CallBegun`, `OutOpened`, `FmRouted`), so that it is one step exactly
where the code keeps the hardware lock over all of it. `caller` holds what the one thread on the
interface has read before a cut: the mode for which `setMode` waits on the input, having already
decided that the output is idle (`SetModeWaits`, `SetModeGoesOn`), the device the TTY mode and the FM
radio have read without a lock (`TTYRoutes`, `FmRoutes`). `asked` is a history variable: the client
has switched the radio on. A route is named by its device. The voice volume goes to the daemon for
the type of sound of the output's device (`SoundType`, four types), and the daemon has a level for
each. Locks and failing devices are `AudioHardware`'s.

**RilClient.** `opened`, `link`, `thread` and `handler` are the client; `daemon` is what the living
daemon has last been told of each kind (hello, navigation, path and a volume level for each type of
sound), which `DaemonDies` forgets; `refused` says that the last request that was due did not reach
it. The socket and the thread belong to libsrs-client, which is not in the repository: what they may
do is taken from how they are used. The client looks at nothing but a result below zero, so a ping,
a connection and a request may each fail at any time, on an open socket too. A connection whose ping
fails leaves the new socket open.

**GpsWave.** `caller` says where the location service is in its call, `reader` where the client's
thread is in `_GpsHandler`, `threads` counts the threads created for each kind of report. A datum is
the number of its last change; the handler's `memcpy` has two halves, with a number of no change
between them, so that a torn read would be seen. `reported` is what each callback was last given.
Setting the handler (`Register`) and starting the client's thread (`StartThread`) are two steps. The
history variables `unfinished` and `early` say that a start or stop has opened a socket and given up,
and that a navigation mode went out without an introduction on a socket not excused by that.
`LatestValue` is instantiated for each kind (`StatusFeed`, `LocationFeed`, `SvStatusFeed`).

**InputEventReader** is taken literally: a buffer of twice the capacity, written at `mHead` even
over the end, what went over copied to the front. `EventQueue` is what a driver expects of it; both
have what the last read returned (`received`), so the queue holds those events and no others.

**SensorsPoll** uses the reader as the queue it is. A device sends value events and a SYN after each
packet, without end; `MaxQueue` bounds those not yet read. A driver remembers the values and reports
at the SYN. The thread of `pollEvents` goes through `Scan`, `ReadEvents`, `FillReader`, `TakeValue`,
`TakeSyn`/`AkmSyn`, `Took` and `Poll`; `Activate` runs beside it. History variables: `owed` counts
the packets of each sensor that were sent and not yet dealt with, `leftover` names the drivers whose
POLLIN was kept because they used up the room of a call.

**CameraHal.** `client`, `preview`, `picture` and `focus` say where the four threads are. A wait on a
condition is a place of its own that the other thread's signal leaves, so a signal that nobody waits
for is lost, as it is in the code. What an operation of the driver can come to, with the flags and
streams it leaves, is a set of outcomes (`StartsPreview`, `StopsPreview`, `StartsRecord`,
`StopsRecord`). `startPreviewInternal` is four steps: the device streams from the first on, the frames
to skip are set in the next, and the preview heap is released and asked for again in the last two
(`setSkipFrame`, `ReleaseHeap`, `RequestHeap`). The preview thread reads `mPreviewWindow` three times
in a frame (`TestWindow`, `DequeueBuffer`, `EnqueueBuffer`) and the heap in between (`CopyFrame`). A
NULL that is used ends the process: the thread is at `nullWindow` or `nullHeap` and the client is
`dead`. `early` is a history variable: the thread last passed its test while the preview was
deferred. `release` and the closing of the device end a session, `open` begins another with the flags
that the driver object, a singleton, has kept. The client is the camera service: one call at a time,
in any order, or in the order its interface asks for when `Orderly` is TRUE.

**CameraSettings.** `mParameters` is what the client reads back, `cached` what `SecCamera` stores,
`device` what was sent last, `pending` what was sent since the last batch reflection, every request
included that goes out after it. Four history variables tell what the code does not: `unsent`, settings
stored while no preview ran that `startPreview` does not send (quality, for which wide dynamic range
and anti-shake go too, and scene); `late`, settings sent outside of a batch; `parted`, parameters whose
settings changed behind the client; `refused`, parameters whose last change failed. One setting stands
for those that are passed on alike. Left out: the front camera, sizes other than that of the preview,
EXIF and GPS data, touch focus.

The parts of the camera are not composed: `CameraHal` decides when streams start and stop and looks
at no setting, `CameraSettings` looks at no thread. Their one meeting point, the preview thread's
reset of a stalled device in the middle of a `setParameters`, is not modelled.

## 3. Runs

State counts are of distinct states; every action of every module fires in some run.

| run | instance | what it shows |
|---|---|---|
| `audio_mode` | 3 threads (player, recorder, control), 1 output, 1 input, every call but the effects and closing, every device may fail; 644,000 states | `LockOrder`: a waiting thread holds no lock of the same or a later kind, so no deadlock; `StandbyClosed`; `MicMuteRespected`; `AwakeWhilePlaying`; `DevicesGuarded`: only the holder of a stream's lock opens or closes its devices; `OutputOpensFirst` |
| `audio_echo` | the same with the echo canceller added and removed, without calls; the playback device, the mixer, transfers and the reference may fail; 351,000 states | `LockOrder`; `EchoValid`: no stream keeps a reference that was released; `EchoGuarded` |
| `audio_reopen` | 2 outputs and 2 inputs, opened and closed while other threads hold pointers, every device may fail; 105,000 states | `SharedDevicesCounted`: the playback device and the mixer are counted exactly through closing, failures and destructors; `StandbyClosed` |
| `audio_live` | 1 output, 1 input, mode changes, fairness; 55,000 states | `StreamCallsReturn`: each call of the playing and recording threads returns |
| `audio_routing` | 2 devices for each stream, a source besides the default, 2 volumes, 3 calls on the interface; the daemon dies any number of times, pings and requests fail; 1.65 million states | `RadioPlays`: a radio that was switched on plays or waits for a call that is there; `CaptureRoute`, `PlaybackRoute`, `VoiceRouting`: each route follows its device, but for the steps named in the property; `VoiceVolume`: a call's volume gets to the daemon for the type of sound in use, and no later step takes it away but those named; `DevicesCounted` |
| `gps` | status and location, two changes of each; the daemon dies at any time and any number of times, pings, connections, introductions and requests fail on an open socket; fairness; 418,000 states | `MessagesFindHandler`: no message without handler and callbacks; `IntroducedFirst`: navigation is asked for after hello, but on a socket that an earlier call opened and gave up; `StartedNavigates`: a HAL that is started has a daemon that navigates, or its request failed; `CallbacksTold`: each callback is a `LatestValue` and is told the newest value in the end |
| `reader_queue` | capacity 3, reads of every size, 2 events and an unused cell's contents; 6,900 states | `ImplementsQueue`: the reader is the abstract queue |
| `sensors_packets` | the compass alone, which sends without end with at most 4 events unread, reader of 2, room for 1 or 2 events, noise, one activate, one failing read, failing poll; 1.61 million states | `OnePerPacket`: each packet is dealt with once for each of its sensors; `NothingHeldBack`: the thread waits with empty readers |
| `sensors_live` | proximity and accelerometer, which send without end, room for 2 events, readers of 2, at most 2 events unread, one activate; fairness; 282,000 states | `BlocksOnlyOnLeftover`: the read of a device waits only if that driver had used up the room of an earlier call; `PendingReported`: the event activate makes pending is reported, unless the thread is in such a read; `DevicesServed`: no device is starved by those before it |
| `camera_safety` | every call in any order, over any number of sessions, 2 windows, a recording buffer, failures of window, frame, recording, picture, focus; 3.2 million states | `NoFrameWhenStopped`: the stop handshake; `HeapNotInUse`: the heap that is replaced while the device streams is in nobody's hands but those of a thread that passed its test while the preview was deferred; `FrameOfWindow`: a buffer goes back to the window it is from, but during a change of the window; `CaptureAlone`; `RecordedFrames`: no frame is with the device or the client of a recording that is over; `FocusAsleep`: the device focuses only for a thread that waits for the result |
| `camera_returns` | an orderly client, 2 recording buffers, failures of start, stop, recording, stalled device; fairness; 238,000 states | `CallsReturn`, `RecordingFlows` |
| `camera_settings` | 3 parameters that depend on each other (scene, focus, flash), one failing request anywhere; 71,000 states | `SettingsAgree`: a running preview has the stored settings and the client is told them, but for those the property names; `Reflected`: nothing waits for a batch but what went out after it; `TorchOff`; `StillsAfterRecording`: a movie's settings end with it |

Bounds and why they are enough:

- Audio: three threads are the three roles the server has (one thread per stream and one that makes
  the other calls); with one the lock order is trivial and with two the unlock, wait and second look
  of `setMode` never meets both streams moving. Two objects of each kind are needed only where one is
  replaced by another while pointers to it are left. The count of the mixer reaches 3.
- Routing: two devices are a device and another; headset and headset with speaker are the pair that
  the FM radio tells apart, and two types of sound. Three calls are a radio switched on and a call
  begun and ended, or a volume set and a route changed in a call; the streams start, stop and are
  routed in between, which is not bounded. The theorems lift all of these bounds.
- GPS: a second change meets the report of the first, a second kind the mutex held for another; the
  kinds differ only in the order of the handler. The theorems lift these bounds for all but
  liveness.
- Reader: capacity 3 reaches every relation of the positions: at the end, over the end by one and by
  more, at the front, full and empty. The theorems lift the bound.
- Sensors: a packet of the compass has two sensors and a SYN, so a reader of 2 and room of 1 cut it at
  every place. `MaxQueue` bounds what a device has sent and nobody has read, `MaxActivates` and
  `MaxErrors` the calls of `activate` and the failing reads, `Noisy` says which devices send events of
  no meaning; the packets of a run are not bounded. In `sensors_live` a pass over the drivers may use
  up the room while the first driver alone may not. With room for one event TLC refutes
  `DevicesServed` (section 6). With readers of 4 and room for 3 (918,000 states) it holds as well.
- Camera: two windows make a change of window; two buffers (`camera_returns`) are one with the client
  while the other is recorded, and `camera_safety`, which asks where each buffer is, has one and every
  call (with two, 4.5 million states, it holds as well). `INITIAL_SKIP_FRAME` is 1 in place of 3: a counter with no other use. Windows are alike,
  and so are buffers: no definition names one, which `SYMMETRY` uses in `camera_safety`.
- Settings: two or three values of each parameter; the scene, the focus and the flash are the ones whose
  requests depend on each other; one failure, since each is independent of others. The theorems lift
  both bounds.

`CHECK_DEADLOCK FALSE` stands where the system may really stop: the sensor thread when no device sends
any more, the camera when the process has ended, with `mPreviewLock` left taken by a failing window
(`camera_safety`) or with a client that owes no call (`camera_returns`), and `audio_reopen`, where a
thread that drops the last pointer to a closed output stops itself (section 6).

## 4. Fairness

- Audio: strong fairness of each thread's own steps (`Run(t)`), nothing of the calls. A thread that
  waits for a mutex gets it because the one that has just released it sleeps: `mSleepReq` exists for
  that (`AudioHardware.cpp:1361`, `:1995`).
- GPS: weak fairness of the location service's call once begun, of the handler's thread and of each
  kind of reporting thread. The daemon owes nothing, and nobody owes a call. Weak is enough: a thread
  that waits for `GpsMutex` waits for one that only copies or reports, and reports end.
- Sensors: weak fairness of the poll thread, of the sensor service's calling it again, and of an
  `activate` that has begun. The devices owe nothing.
- Camera: weak fairness of the preview, picture and focus threads and strong fairness of the client's
  steps inside a call and of the preview thread's getting its lock. Both wait for `mPreviewLock`, and
  the other side gives it up for as long as a frame takes, or until its next call. The client gives
  recorded frames back (strong, since it may be inside another call most of the time) and disables
  the message some time; it owes no call.

The routing and the settings have no liveness of their own: each of their handlers ends by itself.

## 5. Proofs

All theorems hold for every value of the constants under the modules' named assumptions:
`ConstantsAssumption` (streams and `None` are distinct, the sets of streams finite),
`RoutingAssumption` (devices of the codec, the loudest volume among the volumes), `GpsAssumption` (the
bound is a number, messages are of the kinds there are), `ReaderAssumption` (a positive capacity),
`PollAssumption` (sizes and room positive), `CameraAssumption` (no window or buffer is `None`),
`SettingsAssumption` (the parameters are of those there are). A bound such as `MaxCalls` or
`MaxChanges` is any number, so a theorem covers runs of any length. What a theorem assumes beyond these
is written in its statement. Every invariant and every action property of the runs is stated by a
theorem.

- `AudioHardwareProofs`. The inductive invariant is `LockInv`: `TypeOK` and, for each thread,
  `ThreadOK`: its pointers are of the right kind where the code follows them (`Pointers`), the places
  it returns to are possible (`Returns`), and it holds the locks the code counts on there (`Holds`,
  and `HoldsInDo` inside `doStandby_l`, which drops and retakes its caller's locks). `TypeOK` alone is
  not inductive: that a pointer is not null where it is followed depends on where the thread came from.
  `LocksHeld` is `Spec => []LockInv`; `TypeCorrect` and `StreamDevicesGuarded`, which is
  `DevicesGuarded` of the run, follow from it. The proof has one lemma per group of actions for
  control (`...Control`) and one for the fields of the objects (`...Fields`).
- `AudioStreamsProofs` has the other seven properties of `AudioHardware`, and what they rest on.
  - `AlwaysInOrder`. `LockInv` says that a thread holds certain locks; the order needs the converse,
    that it holds no others. `OrderInv` says so (`HoldsOnly`), with what that rests on: no stream asks
    for an echo reference (`EchoOff`) and no local pointer is the last one to its stream (`Kept`).
  - `StreamsKept`, without a hypothesis: `RefInv`, no thread keeps or uses a pointer to a stream that
    is freed and nobody but its destructor touches a stream that is being destroyed; and `DevInv`, which
    streams may have a device open at each place, also inside `write()`, which opens devices while
    the stream is still flagged standby. All that follows is proved relative to these.
  - `StandbyAlwaysClosed` adds `WriteKeepsLock`: `write()` has the hardware lock while its output is
    open and still flagged standby.
  - `DevicesAlwaysCounted`: the counts are the numbers of streams that have the device open and one
    for a call (`Exact`), and a freed stream has none (`GoneClosed`). The number of streams, threads
    and failures is any.
  - `AlwaysAwake` (`AwakeInv`), `EchoAlwaysGuarded`, `EchoAlwaysValid` (`EchoInv`: only the streams of
    the hardware object have a reference, and it is the hardware object's), `OutputAlwaysFirst`
    (`FoundInv`: what a thread found out of the inputs is still so when it goes on) and
    `MicMuteAlwaysRespected` (`FoundInv`, and `CallMode`: the mode runs ahead of the call's devices
    only inside `setMode`).

  The hypotheses name the calls or failures that break each property. TLC finds a counterexample
  with any one of them given up; section 6 says what happens:

  | theorem | hypothesis |
  |---|---|
  | `AlwaysInOrder` | `StreamsStay`: no echo canceller is added, no stream closed |
  | `StandbyAlwaysClosed` | no echo canceller is added, or opening an input does not fail |
  | `DevicesAlwaysCounted` | `CallsReliable`: `setMode` is not called, or no echo canceller is added and neither the playback device nor the mixer fails |
  | `AlwaysAwake`, `EchoAlwaysGuarded` | no output is closed |
  | `EchoAlwaysValid` | no stream is closed |
  | `OutputAlwaysFirst` | no input is closed |
  | `MicMuteAlwaysRespected` | no input is closed, no echo canceller is added |
- `AudioRoutingProofs`. First what each operator on the devices does to the counts and the controls
  (`BothOpened`, `SourceSet`, ... `CallBegins`, `CallEnds`), then the invariant `IInv`: types, that the
  mode of a call is known as a call (`CallMode`), that a radio waits in a call only (`RadioPlays`),
  that an input outside a call has its route (`MicRouted`), and that a daemon whose socket is not open
  has been told nothing (`Linked`; without it a request that fails could leave an old value standing).
  One lemma per action shows that it keeps the invariant and the five action properties together
  (`Keeps`), so every property of `audio_routing` is a theorem: `RadioAlwaysPlays`, `CaptureKept`,
  `PlaybackKept`, `VoiceKeptInCalls`, `VolumeKept` (for each type of sound), `CountsKept`;
  `RoutingTypes` is the type invariant. The proof of `CountsKept` found what the small run could not: a
  radio switched on and off in one call, and again in the next, breaks the count upwards as well as
  downwards.
- `GpsWaveProofs`. `TypeCorrect`, and from one invariant (types, what comes before what on every path,
  the introduction of each socket, the mutex over half a message) `HandlerFound`, `HelloFirst` and
  `StartedMeansNavigating`, the three invariants of the run, with pings, connections and requests that
  fail on a live socket, and `StatusImplements`, `LocationImplements`, `SvStatusImplements`: the HAL
  implements `LatestValue` for each kind, each step of it a change, a report or a stutter. That the
  newest value is told in the end is liveness and stays with TLC.
- `InputEventReaderProofs`. `ReaderPositions`: `TypeOK` and `HeadFollows` always hold.
  `ReaderIsQueue`: the reader implements `EventQueue`, `Contents` being the queue; `FillIsFill` and
  `TakeIsTake` map each step, cell by cell (`FillCells`).
- `SensorsPollProofs`. `NeverHeldBack` is `NothingHeldBack`. The invariant `HeldInv` ties the readers
  to `revents` (`Announced`), to the room (`RoomKept`) and to how far the scan has come (`Visited`). A
  failing read breaks it for good, since a negative count reaches the arithmetic of the room; so
  `HeldUntilError` is proved: as long as no read has failed, `HeldInv`. `AlwaysOnePerPacket` has no
  hypothesis. It counts the packets on their way, in the reader and in the kernel: a `SYN` that is read
  takes the first of them away, and the others are found one place further on, a bijection between
  finite sets and no induction. `Begun` ties the packet that has not ended to the mask of the compass,
  which is how a packet that is cut by the end of the room is not lost. `NeverBlocksOtherwise` is
  `BlocksOnlyOnLeftover`, also without hypothesis: `Promised` in the invariant `RestInv` says that a
  driver's POLLIN is set because its device has events, or because it has just been read, or because it
  was left over.
- `CameraHalProofs`. An invariant in six parts, each proved from those before it. Three need no
  assumption: the focus thread, the way of `release` and the recorded frames (`FramesOnlyRecorded`,
  `FocusSleepsIdle`). The others assume `WholeStarts`, that a start of the preview does not fail
  half-way and the reset of a stalled device does not start it: the stop handshake (`StopStopsFrames`);
  the heaps (`HeapsNotInUse` from `HeapInv`: there is a heap unless a start is replacing it, and a
  thread that is past its test while one does is `early`); and the window (`OwnWindow`, an action
  property: the two windows are compared at the step that gives the buffer back). The picture
  (`PictureAlone`) assumes that stops do not fail either. TLC shows the assumptions to be needed: a
  start that fails half-way leaves a device that streams for a preview that does not run.

- `CameraSettingsProofs`. `SettingsInv` has the four properties, what the device was told
  (`SettingsAlwaysAgree`, `AlwaysReflected`, `TorchAlwaysOff`, `StillsAlwaysAfterRecording`), and the
  ranges of the parameters and of the store, which decide the branches of the setters. One lemma for
  each setter says what it does to the store, to what is pending and to what is unsent, and one for
  each call composes them in the order of the code. `SettingsTyped` is the type invariant. The store is
  changed with the model's own `Over`, since the provers know nothing of `@@`.

Only model-checked is all liveness, which TLAPS does not do: `StreamCallsReturn`, `CallbacksTold`,
`PendingReported`, `DevicesServed`, `CallsReturn`, `RecordingFlows`; and, of `audio_echo`,
`LockOrder` with the echo canceller in use, which holds there, without calls and with inputs that
open, and of which `AlwaysInOrder` says nothing. The type invariants of `SensorsPoll` and
`CameraHal` are stated for the reader; no run keeps them, since what the other invariants say of the
same variables is stronger.

## 6. Where the code and its comments part

The modules state more of what comments, messages and names say, in a section of their own or among
the properties, that the code does not do; TLC has refuted each. No run is kept for them: they explain
shapes of the runs above, or what the properties except.

Audio:

- "Mutex acquisition order is always out -> in -> hw" (`AudioHardware.cpp:354`, `:2107`). `setMode`
  holds the output's lock and the input's and calls `doStandby_l` of an input with an echo reference,
  which asks for the output's lock again (`:2113`). That is why `audio_mode` has no echo canceller and
  `audio_echo` no `setMode`.
- The last pointer to a closed output, dropped in `setMode` or `read` under the hardware lock, runs a
  destructor that takes the lock again, so `audio_reopen` checks neither `LockOrder` nor deadlock.
- The echo reference survives the output (`EchoReleasedOnClose`, `:277`), so `audio_echo` closes no
  stream.
- The destructor also releases the one wake lock there is (`releaseWakeLock` of its standby). When
  another thread has opened a new output by then, and it plays, it plays without: `AwakeWhilePlaying`
  asks that no output is closed. With a single thread for the calls the destructor runs under the
  hardware lock and stops itself first, which is why `audio_mode` would not show it.
- `doStandby_l` locks one output and takes the reference from the one that `mOutput` is afterwards
  (`:2113-2116`, `:1258`); if the first was closed between, it keeps what was released (`EchoValid`), and
  if a new one was opened, that one is changed without its lock (`EchoGuarded`).
- A closed input is no more in `mInputs` while its device is still open, so an output that opens does
  not find it (`OutputOpensFirst`), and neither does `setMicMute` (`MicMuteRespected`). An input with
  an echo reference is not yet in standby when its `doStandby_l` gives up the hardware lock, so
  `setMicMute` and `setMode` meet it with the old path (`MicMuteRespected`).
- An input whose open fails inside `write()` is put in standby by `doStandby_l`; with an echo reference
  that gives up the hardware lock while the output is open and flagged standby (`StandbyClosed`), and
  asks for the output's lock, which `write()` has: the thread waits for itself.
- An output that starts while `setMode` waits for the input is missed (`OutputQuietAtCall`, `:378`), and
  its route is not restored at the end of the call: the first exception of `PlaybackRoute`.
- `setMode` ignores the results of `openPcmOut_l` and `openMixer_l` at the start of a call (`:417`) and
  closes both at its end: `PcmCounted` does not survive a failure there, which `audio_mode`'s instance
  has and `audio_reopen`'s, without calls, has not. With an echo reference its `doStandby_l` gives up
  the hardware lock, and two threads in `setMode` can open the call's devices twice.
- At the end of a call `setInputSource_l(mInputSource)` is meant to restore the source and returns at
  once, because the source equals `mInputSource` (`:425`); by then the start of the call has overwritten
  it with the default, and a source set in the call is stored without reaching the mixer (`:1193`). This
  is what `CaptureRoute` excepts.
- `fm_off` for a radio that waits for the end of a call closes devices that the call has opened, and
  leaves `mFmResumeAfterCall` set, so that the end of the call opens them for a radio nobody wants
  (`:883-903`, `:466-472`); `DevicesCounted` ends there. `fm_on` twice would open them twice; the
  model's client asks once.
- The TTY and FM parts of `setParameters` and `setFmVolume` take no lock (`:536-600`). The model cuts
  them where the device is read; that two threads then change the counts at once is a data race,
  described here and not modelled. The variable for the radio's path is used uninitialised for a device
  that is neither speaker nor headset (`:910`); the model gives such a device its own route.
- A mode that goes from a call to a ring tone and back leaves `mInCallAudioMode` set, and the second
  call sends neither path nor volume; `VoiceVolume` holds because the daemon remembers, unless it has
  died in between, which then no step notices.
- `setVoiceVolume` sends the volume for the type of sound of the device in use (`:627-664`). A device
  that changes in a call gets the route (`:1584-1587`) and no volume, so a daemon that has never been
  told one for the new type, or an old one, plays with that: the last exception of `VoiceVolume`.

GPS and radio client:

- `isConnected_RILD` "Returns 0 or 1" (`secril-client.h:84-86`) and returns an error code, a truth
  value, for a handle that is null: a start without a client goes on to register and is refused there.
- `Connect_RILD` returns an error when the ping on its new socket fails, and leaves the socket open
  (`ril-client.c:62-66`); `wave_gps_start` gives up, as it does when the hello fails
  (`gps_wave.c:123-134`). The next start finds itself connected (`:119`), skips registration and hello,
  and asks for navigation on a socket without an introduction, and without a thread that reads
  messages if registration was skipped: the exception of `IntroducedFirst`.
- The result of the navigation request is ignored (`gps_wave.c:200`): a request that fails on a live
  socket leaves `STATE_START` with a daemon that does not navigate. `StartedNavigates` excepts it
  (`refused`).
- `cleanup` in a session that navigates leaves navigation on at the daemon; `open_gps` initialises the
  mutex again (`gps_wave.c:303`); `inject_time`, `inject_location`, `delete_aiding_data` and
  `set_position_mode` return at once.

Sensors:

- "just wait if we don't have anything to return" (`sensors.cpp:233-235`) is so of `poll()` only. A
  driver that uses up the room exactly keeps its POLLIN (`:222`), and the next call reads from its
  device, which waits until that sends again, the other sensors with it: `BlocksOnlyOnLeftover` says
  that no other read waits, and `PendingReported` and `DevicesServed` except a thread stuck there.
- The drivers are served in a fixed order until the room is used up (`:212-231`). With room for one
  event a proximity sensor that goes on sending starves the accelerometer: TLC refutes `DevicesServed`
  with `Counts = {1}`. Room for two is enough for readers of two, from which proximity takes one event
  at a time.
- The pending event of proximity, returned alone, looks like an empty reader
  (`ProximitySensor.cpp:102-107`): events it has read are held until its device sends again
  (`Forgotten`, excepted by `DevicesServed`). The initial distance can be the old one
  (`DistanceReported`). A failing read gives a negative count to the arithmetic of the room
  (`sensors.cpp:226`, `:241`): `HeldUntilError` ends there.

Camera:

- The comment at `SecCameraHWInterface.cpp:2180` says the preview thread wakes up and exits; the signal
  of `release` is given without the lock and is lost when the thread is between its test and its wait
  (`ReleaseReturns`). That is why `camera_returns` has no `release`.
- A thread that passes its test (`:484`, `:485`) while the preview is deferred for want of a window is
  not waited for by the start that follows. The device streams (`SecCamera.cpp:803-849`) before the
  preview heap is released and asked for again (`:719-727`), so such a thread can get a frame and copy
  it from a heap that is NULL (`HeapAlwaysThere`); `HeapNotInUse` excepts that thread and no other.
- `setPreviewWindow` changes `mPreviewWindow` at `:370-375` without a lock and before the preview
  stops. A buffer can be given back to the new window (`SameWindow`), and with no window at all the
  thread, which tests at `:546` and reads again at `:549` and `:598`, uses NULL (`WindowNotNull`).
  `FrameOfWindow` holds for every buffer outside that call.
- `startRecording` replaces `mRecordHeap` also when it is running (`:779-787`). It does so with
  `mRecordLock`, under which the frames are taken from it, and a frame at the client keeps a reference
  to the old heap, so nothing of the model tells the heaps apart.
- The first test of `mPreviewRunning` races the first start (`ActiveMeansRunning`, `:484`); a failed
  start counts as running (`EnabledMeansStarted`, `:690`); the reset gives up because the name of the
  input is taken for an error (`ResetRestarts`, `SecCamera.cpp:1075`); with that fault and a deferred
  preview the reset starts what nobody watches, and `HeapNotInUse` fails, which is why `camera_safety`
  leaves "input" and "start" out. The capture flag is set after the thread that resets it was run
  (`WaitsForPicture`, `:1227`); frames with the client when the message is disabled are lost
  (`SentFramesManaged`), so with every buffer lost the preview thread holds `mRecordLock` waiting for a
  frame.
- A release in which `stopRecord` fails leaves `m_flag_record_start` set in the singleton, and the next
  session records without a stream (`RecordingHasStream`); `m_flag_camera_start` likewise.
- Autofocus: the comment at `:873` says that a cancel "is considered a true result", and
  `getAutoFocusResult` has no value for it; a request made while the thread focuses, or before it
  waits, is lost; a `setAutofocus` that fails sends no message.
- The preview's size changes although "preview is running, cannot change size and format!"
  (`PreviewSizeFixed`), any `setParameters` during a recording ends the movie's ISO (`MovieSettings`),
  and macro, faces, macro leaves the device in automatic focus (`FocusModeKept`).
- "Must call after parameter update on CE147 (so the changes are reflected in batch)"
  (`SecCamera.cpp:2753`): `startPreview` sends the flash after its batch (`:844`), the end of the
  preview turns it off without one (`:871`), and a recording sends its frame rate after it (`:926`;
  `AllReflected`). `Reflected` says that nothing else does.
- `startPreview` (`SecCamera.cpp:783-852`) does not send quality, wide dynamic range, anti-shake
  (`:2264-2272`) and scene, so what was stored of them while no preview ran reaches no device until it
  is set again; a recording leaves the frame rate automatic (`:995`). `SettingsAgree` excepts both.
- The client's parameters part from the store behind its back: a start of the preview resets zoom
  (`:823`) and face detection, its end puts out the torch, a recording leaves the ISO automatic
  (`:1001`). `SettingsAgree` names these four, and holds for all others. A start or an end of a recording
  that fails leaves the movie's settings in place (`StillsAfterRecording`).

## 7. Not modelled, and why

- Audio HAL: the FM radio opens the playback device and the mixer (`AudioHardware.cpp:861`) in
  `AudioRouting` and not in `AudioHardware`, so the order of `OutputOpensFirst` is that of streams and
  calls. `getParameters`, resampling, effects on the data and the arithmetic of the echo delay are
  computations on data. The volume of the FM radio is one ioctl of a number. The destructor of the
  hardware object never runs, and with it `Disconnect_RILD` and `CloseClient_RILD`, which nothing else
  calls; `PcmIfCtrl`'s callers are commented out.
- GPS: the entries that return at once; the contents of messages.
- Sensors: `setDelay`, a number written to sysfs; closing the device, which the service does not do; the
  values and their conversion factors except the distance.
- Camera: the front camera, a table of other numbers for the same setters; touch focus, EXIF, GPS and
  JPEG data, scaling and conversion: computations on data; `initCamera`, which runs before any thread,
  and its failure, after which the constructor goes on; a second open of the open device, which gets
  the same pointer that the first close frees: the camera service opens once; the camera service's
  failure to give the memory of the preview heap; the preview thread's reset in the middle of a
  `setParameters`, for which the two modules would have to be one.
- Lights: two setters of one value each under one lock. `DeviceSettings`: one thread that writes
  preferences and sysfs files, read back by nobody but the next boot. Nothing is shared in either.
- The recovery screen, the boot helpers: input and output with no state that outlives a call. Audio
  policy: the platform's manager, configured. Build files, init scripts, policies, overlays:
  declarations. `PROJECT.json` lists each with its files.

## 8. What is left

What would add most to what is here:

1. `LockOrder` as a theorem with the echo canceller, without calls and with inputs that open: there
   the detour of `doStandby_l` starts with no lock but those it gives up.
2. `AwakeWhilePlaying` and `EchoGuarded` with outputs that are closed and one thread that makes the
   calls: TLC finds them to hold there, and theorems would need what that thread has still to do with
   a closed stream.
3. `SensorsPoll` with `InputEventReader` in place of its queue, which `ReaderIsQueue` makes sound and
   therefore of little use.
4. `CameraHal` and `CameraSettings` in one, for the reset in the middle of a `setParameters`.
