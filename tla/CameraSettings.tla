---------------------------- MODULE CameraSettings ----------------------------
(* The settings of the camera: what the client asks for (mParameters), what *)
(* SecCamera has stored (m_params and its other fields) and what the back   *)
(* camera, a CE147, was told.  A setting is sent when it changes and the    *)
(* preview runs; startPreview sends the stored ones again.  Each call is a  *)
(* step: the camera service makes one at a time.                            *)
EXTENDS Integers, Sequences, Functions

CONSTANTS Keys,         \* the parameters the client changes
          MaxFailures   \* bound: requests to the device that fail

AllKeys == {"preview_size", "jpeg_quality", "iso", "white_balance", "focus_mode",
            "flash_mode", "scene_mode", "zoom"}

ASSUME SettingsAssumption == Keys \subseteq AllKeys /\ MaxFailures \in Nat

(* Settings of one kind are taken once: white_balance stands for brightness *)
(* and the effect too, jpeg_quality for wide dynamic range and anti-shake.  *)
Settings == {"jpeg_quality", "iso", "metering", "white_balance", "focus_mode",
             "face_detect", "flash_mode", "scene_mode", "zoom", "frame_rate"}

(* What startPreview does not send: quality, wide dynamic range, anti-shake *)
(* and the scene, stored while no preview ran, reach no device.             *)
NeverResent == {"jpeg_quality", "scene_mode"}

(* What the client may ask for.                                             *)
Choices == [preview_size  |-> {"800x480", "640x480"},
            jpeg_quality  |-> {"100", "50"},
            iso           |-> {"auto", "ISO400"},
            white_balance |-> {"auto", "daylight"},
            focus_mode    |-> {"auto", "macro", "facedetect"},
            flash_mode    |-> {"off", "torch"},
            scene_mode    |-> {"auto", "night"},
            zoom          |-> {"0", "1"}]

VARIABLES
  mParameters,          \* what getParameters tells the client
  cached,               \* the settings stored in SecCamera
  m_preview_size,       \* m_preview_width and m_preview_height
  m_flag_camera_start,
  m_flag_record_start,
  device,               \* the settings the device was told last
  pending,              \* those it was told since the last batch reflection
  unsent,               \* history: those of NeverResent whose last value was
                        \* not sent when it was stored, nor since
  late,                 \* history: settings sent outside of a batch, when
                        \* the batch of the call was over or had none
  parted,               \* history: parameters whose settings were changed
                        \* since the client's last setParameters
  streamed,             \* the size of the frames of the running preview
  failed,               \* history: requests whose last attempt failed
  refused,              \* history: parameters whose last change failed
  failures              \* history: how many requests failed

storeVars == <<cached, device, pending, unsent, late, failed>>
vars == <<mParameters, m_preview_size, m_flag_camera_start, m_flag_record_start,
          streamed, refused, parted, failures, storeVars>>

Requests == Settings \cup {"face_focus", "batch", "streamon", "s_parm", "poll", "streamoff",
                           "caf", "macro", "record"}

(* At most one request of a call fails.                                     *)
Failures == {"none"} \cup (IF failures < MaxFailures THEN Requests ELSE {})

Counted(f) == failures' = IF f = "none" THEN failures ELSE failures + 1

(* What the functions of SecCamera work on.                                 *)
Store == [cached |-> cached, device |-> device, pending |-> pending, unsent |-> unsent,
          late |-> late, failed |-> failed]

StoreIs(st) ==
  /\ cached' = st.cached /\ device' = st.device /\ pending' = st.pending
  /\ unsent' = st.unsent /\ late' = st.late /\ failed' = st.failed
-----------------------------------------------------------------------------
(* initDefaultParameters: nothing is sent while the preview does not run.   *)
DefaultParameters ==
  [preview_size |-> "800x480", jpeg_quality |-> "100", iso |-> "auto",
   white_balance |-> "auto", focus_mode |-> "auto", flash_mode |-> "off",
   scene_mode |-> "auto", zoom |-> "0"]

DefaultSettings ==
  [jpeg_quality |-> "100", iso |-> "auto", metering |-> "center",
   white_balance |-> "auto", focus_mode |-> "auto", face_detect |-> "off",
   flash_mode |-> "off", scene_mode |-> "auto", zoom |-> "0", frame_rate |-> "30"]

Init ==
  /\ mParameters = DefaultParameters
  /\ cached = DefaultSettings
  /\ m_preview_size = DefaultParameters.preview_size
  /\ m_flag_camera_start = 0 /\ m_flag_record_start = 0
  /\ device = [s \in Settings |-> "unset"]
  /\ pending = {} /\ unsent = NeverResent /\ late = {}
  /\ failed = {} /\ refused = {} /\ parted = {} /\ failures = 0
  /\ streamed = "none"
-----------------------------------------------------------------------------
(* f where it says something, g elsewhere.                                  *)
Over(f, g) ==
  [x \in DOMAIN f \cup DOMAIN g |-> IF x \in DOMAIN f THEN f[x] ELSE g[x]]

(* The setters: a new value is stored first and sent if the preview runs; f *)
(* is the request that fails.                                               *)
Changed(st, wanted) == {s \in DOMAIN wanted : st.cached[s] # wanted[s]}

Sent(st, wanted, f) ==
  IF m_flag_camera_start = 1 THEN Changed(st, wanted) \ {f} ELSE {}

Set(st, wanted, f) ==
  LET sent == Sent(st, wanted, f) IN
  [cached  |-> Over(wanted, st.cached),
   device  |-> Over([s \in sent |-> wanted[s]], st.device),
   pending |-> st.pending \cup sent,
   unsent  |-> IF m_flag_camera_start = 1 THEN st.unsent \ sent
               ELSE st.unsent \cup (Changed(st, wanted) \cap NeverResent),
   late    |-> st.late \ sent,
   failed  |-> (st.failed \ sent)
                 \cup (IF m_flag_camera_start = 1 THEN Changed(st, wanted) \cap {f} ELSE {})]

setISO(st, v, f)       == Set(st, [iso |-> v], f)
setMetering(st, v, f)  == Set(st, [metering |-> v], f)
setFlashMode(st, v, f) == Set(st, [flash_mode |-> v], f)
setFocusMode(st, v, f) == Set(st, [focus_mode |-> v], f)

(* Face detection wants the automatic focus mode, which is sent and not     *)
(* stored.                                                                  *)
FocusForFaces(st) ==
  [st EXCEPT !.device.focus_mode = "auto", !.pending = @ \cup {"focus_mode"}]

setFaceDetect(st, v, f) ==
  LET new    == m_flag_camera_start = 1 /\ v = "on" /\ st.cached.face_detect # v
      wanted == [face_detect |-> v]
  IN IF ~new THEN Set(st, wanted, f)
     ELSE IF f = "face_focus"
     THEN [st EXCEPT !.cached.face_detect = v, !.failed = @ \cup {"face_detect"}]
     ELSE Set(FocusForFaces(st), wanted, f)

(* What is sent outside of a batch is noted.                                *)
Late(st, S) == [st EXCEPT !.late = @ \cup S]

(* Mutant: the batch is reflected only while nothing is recorded.           *)
setBatchReflection_NotRecording(st, f) ==
  IF m_flag_camera_start = 0 \/ m_flag_record_start = 1 THEN st
  ELSE IF f = "batch" THEN [st EXCEPT !.failed = @ \cup {"batch"}]
  ELSE [st EXCEPT !.pending = {}, !.late = {}, !.failed = @ \ {"batch"}]

setBatchReflection(st, f) ==
  IF m_flag_camera_start = 0 THEN st
  ELSE IF f = "batch" THEN [st EXCEPT !.failed = @ \cup {"batch"}]
  ELSE [st EXCEPT !.pending = {}, !.late = {}, !.failed = @ \ {"batch"}]
-----------------------------------------------------------------------------
(* setParameters of the hardware interface.  The modes of the scene go      *)
(* before those the client asks for.                                        *)
FocusMode(p) == IF p.scene_mode = "auto" THEN p.focus_mode ELSE "auto"
FlashMode(p) == IF p.scene_mode = "auto" THEN p.flash_mode ELSE "off"

(* The settings that are just passed on.                                    *)
Passed == {"jpeg_quality", "iso", "white_balance", "scene_mode", "zoom"}

(* Faces are a focus mode for the client and a setting of its own here.     *)
setFocus(st, p, f) ==
  IF FocusMode(p) = "facedetect"
  THEN setFaceDetect(st, "on", f)
  ELSE setFocusMode(setFaceDetect(st, "off", f), FocusMode(p), f)

AllSet(p, f) ==
  setBatchReflection(
    setFlashMode(setFocus(Set(Store, [s \in Passed |-> p[s]], f), p, f), FlashMode(p), f), f)

(* A setter that failed leaves its parameter as it was.                     *)
Refused(p, f) ==
  {k \in Passed \cup {"flash_mode", "focus_mode"} :
     f = k /\ (k = "focus_mode" => FocusMode(p) # "facedetect")
     /\ m_flag_camera_start = 1
     /\ cached[k] # (IF k = "focus_mode" THEN FocusMode(p)
                     ELSE IF k = "flash_mode" THEN FlashMode(p) ELSE p[k])}

(* A new size is stored before the interface looks whether the preview     *)
(* runs.                                                                    *)
setParameters(p, f) ==
  LET asked == [p EXCEPT !.focus_mode = FocusMode(p), !.flash_mode = FlashMode(p)] IN
  /\ m_preview_size' = p.preview_size
  /\ StoreIs(AllSet(p, f))
  /\ mParameters' = [k \in AllKeys |->
                       IF k \in Refused(p, f) THEN mParameters[k] ELSE asked[k]]
  /\ refused' = Refused(p, f) /\ parted' = {}
  /\ UNCHANGED <<m_flag_camera_start, m_flag_record_start, streamed>>

SetParameters ==
  \E k \in Keys : \E v \in Choices[k], f \in Failures :
    setParameters([mParameters EXCEPT ![k] = v], f) /\ Counted(f)
-----------------------------------------------------------------------------
(* Mutant: the focus mode is sent when it is changed only.                 *)
StartOrder_NoFocus ==
  <<"iso", "frame_rate", "metering", "white_balance", "streamon", "face_detect", "zoom",
    "batch", "s_parm", "flash_mode", "poll">>

(* startPreview tells the device the stored settings, in this order; what   *)
(* follows the batch happens with m_flag_camera_start set.                  *)
StartOrder == <<"iso", "frame_rate", "metering", "white_balance", "streamon", "focus_mode",
                "face_detect", "zoom", "batch", "s_parm", "flash_mode", "poll">>

(* The requests made up to the one that fails, without and with it.         *)
Done(f)  == {StartOrder[i] : i \in {j \in 1 .. Len(StartOrder) :
                                      \A k \in 1 .. j : StartOrder[k] # f}}
Tried(f) == Done(f) \cup ({f} \cap Range(StartOrder))

(* Face detection and zoom start anew.                                      *)
Restarted(f) ==
  Over([s \in Tried(f) \cap {"face_detect", "zoom"} |-> IF s = "zoom" THEN "0" ELSE "off"],
       cached)

(* What the client asked for by it.                                         *)
ResetBehind(f) ==
  {IF s = "face_detect" THEN "focus_mode" ELSE s :
     s \in {x \in Settings : Restarted(f)[x] # cached[x]}}

(* s_parm passes a copy of the parameters on, which counts as telling none  *)
(* of them.                                                                 *)
startPreview(f) ==
  LET told  == Done(f) \cap Settings
      after == Done(f) \cap {"flash_mode"}
      begun == "batch" \in Done(f)
  IN
  /\ m_flag_camera_start = 0
  /\ StoreIs([cached  |-> Restarted(f),
              device  |-> Over([s \in told |-> Restarted(f)[s]], device),
              pending |-> IF begun THEN after ELSE pending \cup told,
              unsent  |-> unsent,
              late    |-> IF begun THEN after ELSE late,
              failed  |-> (failed \ Done(f)) \cup ({f} \cap Settings)
                            \cup (IF f = "s_parm" THEN {"flash_mode"} ELSE {})])
  /\ parted' = parted \cup ResetBehind(f)
  /\ m_flag_camera_start' = IF begun THEN 1 ELSE 0
  /\ streamed' = m_preview_size
  /\ UNCHANGED <<mParameters, m_preview_size, m_flag_record_start, refused>>

StartPreview == \E f \in Failures \cap (Range(StartOrder) \cup {"none"}) :
  startPreview(f) /\ Counted(f)

(* Mutant: the torch is left to the next start.                             *)
stopPreview_KeepsTorch(f) ==
  /\ m_flag_camera_start = 1
  /\ UNCHANGED <<storeVars, parted>>
  /\ m_flag_camera_start' = IF f = "streamoff" THEN 1 ELSE 0
  /\ UNCHANGED <<mParameters, m_preview_size, m_flag_record_start, streamed, refused>>

(* stopPreview, also when a stalled device is reset: the torch goes out.    *)
stopPreview(f) ==
  /\ m_flag_camera_start = 1
  /\ IF cached.flash_mode = "torch"
     THEN /\ StoreIs(Late(setFlashMode(Store, "off", f), {"flash_mode"} \ {f}))
          /\ parted' = parted \cup {"flash_mode"}
     ELSE UNCHANGED <<storeVars, parted>>
  /\ m_flag_camera_start' = IF f = "streamoff" THEN 1 ELSE 0
  /\ UNCHANGED <<mParameters, m_preview_size, m_flag_record_start, streamed, refused>>

StopPreview == \E f \in Failures \cap {"none", "flash_mode", "streamoff"} :
  stopPreview(f) /\ Counted(f)
-----------------------------------------------------------------------------
(* Recording has an ISO and a metering of its own.                          *)
ForMovie(st, f) == setBatchReflection(setMetering(setISO(st, "movie", f), "matrix", f), f)
(* Mutant: the metering of the movie is left.                               *)
ForStills_KeepsMetering(st, f) == setBatchReflection(setISO(st, "auto", f), f)

ForStills(st, f) == setBatchReflection(setMetering(setISO(st, "auto", f), "center", f), f)

FrameRate(st, rate) ==
  [st EXCEPT !.device.frame_rate = rate, !.pending = @ \cup {"frame_rate"},
             !.failed = @ \ {"frame_rate"}]

(* startRecord, which the client calls while the preview runs; results of   *)
(* the setters are not looked at.  The frame rate goes after the batch.     *)
startRecord(f) ==
  /\ m_flag_record_start = 0 /\ m_flag_camera_start = 1
  /\ LET st == ForMovie(Store, f)
         rated == Late(FrameRate(st, cached.frame_rate), {"frame_rate"})
     IN
       CASE f = "frame_rate" -> StoreIs([st EXCEPT !.failed = @ \cup {f, "record"}])
         [] f = "record"     -> StoreIs([rated EXCEPT !.failed = @ \cup {f}])
         [] OTHER            -> StoreIs(rated)
  /\ parted' = parted \cup {"iso"}
  /\ m_flag_record_start' = IF f \in {"frame_rate", "record"} THEN 0 ELSE 1
  /\ UNCHANGED <<mParameters, m_preview_size, m_flag_camera_start, streamed, refused>>

StartRecord ==
  \E f \in Failures \cap {"none", "iso", "metering", "batch", "frame_rate", "record"} :
    startRecord(f) /\ Counted(f)

(* "Need to switch focus mode so that the camera can focus properly after  *)
(* using caf": to macro and back, which is no switch when it is macro.      *)
LeaveCaf(st, f) ==
  LET macro == setFocusMode(st, "macro", IF f = "macro" THEN "focus_mode" ELSE "none")
  IN  setFocusMode(macro, st.cached.focus_mode, f)

(* stopRecord: a request that fails ends it where it is.                    *)
stopRecord(f) ==
  /\ m_flag_record_start = 1
  /\ LET left == LeaveCaf(Store, f) IN
       CASE f = "caf"        -> UNCHANGED storeVars
         [] f = "streamoff"  -> StoreIs([left EXCEPT !.failed = @ \cup {"record", "batch"}])
         [] f = "frame_rate" -> StoreIs([left EXCEPT !.failed = @ \cup {"record", "batch", f}])
         [] OTHER            -> LET st == ForStills(FrameRate(left, "auto"), f)
                                IN  StoreIs([st EXCEPT !.failed = @ \ {"record"}])
  /\ parted' = IF f \in {"caf", "streamoff", "frame_rate"} THEN parted
               ELSE parted \cup {"iso"}
  /\ m_flag_record_start' = IF f = "caf" THEN 1 ELSE 0
  /\ UNCHANGED <<mParameters, m_preview_size, m_flag_camera_start, streamed, refused>>

StopRecord ==
  \E f \in Failures \cap {"none", "caf", "macro", "focus_mode", "streamoff", "frame_rate", "iso",
                          "metering", "batch"} :
    stopRecord(f) /\ Counted(f)
-----------------------------------------------------------------------------
Next == SetParameters \/ StartPreview \/ StopPreview \/ StartRecord \/ StopRecord

Spec == Init /\ [][Next]_vars
-----------------------------------------------------------------------------
(* What SecCamera may hold: faces are no focus mode of it.                  *)
Stored ==
  Over([iso |-> Choices.iso \cup {"movie"}, metering |-> {"center", "matrix"},
        focus_mode |-> {"auto", "macro"}, face_detect |-> {"off", "on"},
        frame_rate |-> {"30", "auto"}], Choices)

TypeOK ==
  /\ DOMAIN mParameters = AllKeys /\ \A k \in AllKeys : mParameters[k] \in Choices[k]
  /\ DOMAIN cached = Settings /\ \A s \in Settings : cached[s] \in Stored[s]
  /\ DOMAIN device = Settings /\ \A s \in Settings : device[s] \in Stored[s] \cup {"unset"}
  /\ m_preview_size \in Choices.preview_size
  /\ streamed \in Choices.preview_size \cup {"none"}
  /\ m_flag_camera_start \in 0 .. 1 /\ m_flag_record_start \in 0 .. 1
  /\ pending \subseteq Settings /\ unsent \subseteq NeverResent /\ late \subseteq Settings
  /\ failed \subseteq Settings \cup {"batch", "record"}
  /\ refused \subseteq AllKeys /\ parted \subseteq AllKeys /\ failures \in 0 .. MaxFailures

(* A running preview has the stored settings, whatever was set before it    *)
(* began and while it runs, after stops and recordings, but for those of    *)
(* which a request failed, for those startPreview never sends, for the      *)
(* focus that face detection set to auto and for the frame rate, auto after *)
(* a recording.                                                             *)
DeviceHasSettings ==
  m_flag_camera_start = 1 =>
    \A s \in Settings \ failed :
      \/ device[s] = cached[s]
      \/ s \in unsent
      \/ s = "focus_mode" /\ device[s] = "auto"
      \/ s = "frame_rate" /\ device[s] = "auto" /\ m_flag_record_start = 0

(* What getParameters tells is what SecCamera has stored, but for the       *)
(* parameters of which the last change failed and those whose settings were *)
(* changed since without the client: the zoom and face detection by a start *)
(* of the preview, the torch by its end, the ISO by a recording.            *)
ClientKnows ==
  \A k \in AllKeys \ (refused \cup parted) :
    CASE k = "preview_size" -> m_preview_size = mParameters[k]
      [] k = "focus_mode"   -> IF mParameters[k] = "facedetect" THEN cached.face_detect = "on"
                               ELSE cached.face_detect = "off" /\ cached[k] = mParameters[k]
      [] OTHER              -> cached[k] = mParameters[k]

(* Client, SecCamera and device agree.                                      *)
SettingsAgree == DeviceHasSettings /\ ClientKnows

(* "Must call after parameter update on CE147 (so the changes are reflected *)
(* in batch)": no call leaves an update that is not reflected, unless the   *)
(* reflection failed, but for the few that go out after the batch: the      *)
(* flash at the start and the end of the preview, the frame rate of a       *)
(* recording.                                                               *)
Reflected ==
  m_flag_camera_start = 1 /\ "batch" \notin failed => pending \subseteq late

(* The torch burns only while the preview runs, unless it could not be put  *)
(* out.                                                                     *)
TorchOff ==
  m_flag_camera_start = 0 /\ "flash_mode" \notin failed => device.flash_mode # "torch"

(* The ISO and the metering of a movie do not outlive the recording, unless *)
(* its start or its end failed.                                             *)
StillsAfterRecording ==
  m_flag_record_start = 0 /\ "record" \notin failed
    => cached.iso # "movie" /\ cached.metering # "matrix"

-----------------------------------------------------------------------------
(* What the comments and messages say and the code does not do.             *)

(* "preview is running, cannot change size and format!": a running preview  *)
(* has the size SecCamera holds, by which its frames are copied.            *)
PreviewSizeFixed == m_flag_camera_start = 1 => streamed = m_preview_size

(* "Must call after parameter update on CE147": every update is reflected.  *)
AllReflected == m_flag_camera_start = 1 /\ "batch" \notin failed => pending = {}

(* "Some properties for back camera video recording": the ISO and the       *)
(* metering of a movie last as long as the recording.                       *)
MovieSettings ==
  m_flag_record_start = 1 => cached.iso = "movie" /\ cached.metering = "matrix"

(* "Enable face detect here, SecCamera will take care of the rest": without *)
(* face detection the device is in the focus mode that is stored.           *)
FocusModeKept ==
  m_flag_camera_start = 1 /\ cached.face_detect = "off" /\ "focus_mode" \notin failed
    => device.focus_mode = cached.focus_mode
=============================================================================
