------------------------ MODULE CameraSettingsProofs ------------------------
(***************************************************************************)
(* Proofs about the settings of the camera, for every set of parameters    *)
(* the client changes and any number of failing requests.                  *)
(*                                                                         *)
(* A call is a row of setters, each a function from store to store, so the *)
(* proofs go setter by setter: StoreOK and Told hold between any two of    *)
(* them, and Kept says what a setter of the settings S leaves alone.       *)
(***************************************************************************)
EXTENDS CameraSettings, TLAPS

(* What holds of the store in the midst of a call, too.                    *)
StoreOK(st) ==
  /\ DOMAIN st = {"cached", "device", "pending", "unsent", "late", "failed"}
  /\ DOMAIN st.cached = Settings /\ \A s \in Settings : st.cached[s] \in Stored[s]
  /\ DOMAIN st.device = Settings /\ \A s \in Settings : st.device[s] \in Stored[s] \cup {"unset"}
  /\ st.pending \subseteq Settings
  /\ st.unsent \subseteq NeverResent /\ st.late \subseteq Settings
  /\ st.failed \subseteq Settings \cup {"batch", "record"}

(* The device has a setting, or there is a reason why not.                 *)
Has(st, s) ==
  st.device[s] = st.cached[s] \/ s \in st.unsent \/ (s = "focus_mode" /\ st.device[s] = "auto")

(* A running preview has the settings of the store, but those that failed; *)
(* those no start sends were sent when they were stored, or are known not  *)
(* to be, before it runs too.                                              *)
Told(st) ==
  \A s \in Settings \ {"frame_rate"} :
    s \notin st.failed /\ (m_flag_camera_start = 1 \/ s \in NeverResent) => Has(st, s)

(* A setter of SecCamera leaves the settings it is not about alone.        *)
Kept(st, r, S) ==
  /\ StoreOK(r)
  /\ Told(st) => Told(r)
  /\ r.pending \subseteq st.pending \cup S
  /\ \A s \in Settings \ S : r.cached[s] = st.cached[s] /\ r.device[s] = st.device[s]
  /\ \A x \in (Settings \cup {"record"}) \ S : x \in r.failed <=> x \in st.failed
  /\ m_flag_camera_start # 1 => (\A s \in Settings : r.device[s] = st.device[s]) /\ r.failed = st.failed

(* What may be stored of each setting.                                     *)
LEMMA StoredValues ==
  /\ DOMAIN Stored = AllKeys \cup Settings
  /\ \A s \in {"jpeg_quality", "white_balance", "flash_mode", "scene_mode", "zoom"} :
       Stored[s] = Choices[s]
  /\ Stored["iso"] = Choices.iso \cup {"movie"}
  /\ Stored["metering"] = {"center", "matrix"}
  /\ Stored["focus_mode"] = {"auto", "macro"}
  /\ Stored["face_detect"] = {"off", "on"}
  /\ Stored["frame_rate"] = {"30", "auto"}
BY DEF Stored, Over, Choices, AllKeys, Settings

(* A setter stores what it is given and leaves the other settings alone;   *)
(* while the preview runs the device has the new value afterwards, or had  *)
(* it before, or the request failed.                                       *)
LEMMA SetEffect ==
  ASSUME NEW st, StoreOK(st), NEW S \in SUBSET Settings, NEW wanted, DOMAIN wanted = S,
         \A s \in S : wanted[s] \in Stored[s], NEW f
  PROVE  LET r == Set(st, wanted, f) IN
         /\ Kept(st, r, S)
         /\ \A s \in S : r.cached[s] = wanted[s]
         /\ \A s \in S : m_flag_camera_start = 1 /\ s \notin r.failed =>
              r.device[s] = wanted[s] \/ (r.device[s] = st.device[s] /\ st.cached[s] = wanted[s])
         /\ "batch" \in r.failed <=> "batch" \in st.failed
<1> DEFINE sent == Sent(st, wanted, f)
           r == Set(st, wanted, f)
<1>1. sent \subseteq S \ {f}
  BY DEF Sent, Changed
<1>2. /\ r.cached = Over(wanted, st.cached)
      /\ r.device = Over([s \in sent |-> wanted[s]], st.device)
      /\ r.pending = st.pending \cup sent
      /\ r.unsent = IF m_flag_camera_start = 1 THEN st.unsent \ sent
                    ELSE st.unsent \cup (Changed(st, wanted) \cap NeverResent)
      /\ r.late = st.late \ sent
      /\ r.failed = (st.failed \ sent)
                      \cup (IF m_flag_camera_start = 1 THEN Changed(st, wanted) \cap {f} ELSE {})
      /\ DOMAIN r = {"cached", "device", "pending", "unsent", "late", "failed"}
  BY DEF Set
<1>3. /\ DOMAIN r.cached = Settings
      /\ \A s \in S : r.cached[s] = wanted[s]
      /\ \A s \in Settings \ S : r.cached[s] = st.cached[s]
  BY <1>2 DEF Over, StoreOK
<1>4. /\ DOMAIN r.device = Settings
      /\ \A s \in sent : r.device[s] = wanted[s]
      /\ \A s \in Settings \ sent : r.device[s] = st.device[s]
  BY <1>1, <1>2 DEF Over, StoreOK
<1>5. m_flag_camera_start # 1 => sent = {} /\ r.failed = st.failed
  BY <1>2 DEF Sent
<1>6. m_flag_camera_start # 1 => \A s \in Settings : r.device[s] = st.device[s]
  BY <1>4, <1>5
<1>7. m_flag_camera_start = 1 =>
        \A s \in S : s \in sent \/ s \in r.failed \/ st.cached[s] = wanted[s]
  BY <1>2 DEF Sent, Changed
<1>8. \A x : x \notin S => (x \in r.failed <=> x \in st.failed)
  BY <1>1, <1>2 DEF Changed
<1>9. /\ r.pending \subseteq st.pending \cup S
      /\ r.failed \subseteq st.failed \cup S
      /\ r.unsent \subseteq NeverResent /\ r.late \subseteq st.late
  BY <1>1, <1>2 DEF Changed, StoreOK
<1>15. m_flag_camera_start # 1 =>
         \A s \in S \cap NeverResent : s \in r.unsent \/ st.cached[s] = wanted[s]
  BY <1>2 DEF Changed
<1>16. \A s : s \notin sent /\ s \in st.unsent => s \in r.unsent
  BY <1>2
<1> HIDE DEF sent, r
<1>10. StoreOK(r)
  <2>1. \A s \in Settings : r.cached[s] \in Stored[s]
    BY <1>3 DEF StoreOK
  <2>2. \A s \in Settings : r.device[s] \in Stored[s] \cup {"unset"}
    BY <1>1, <1>4 DEF StoreOK
  <2>3. /\ r.pending \subseteq Settings /\ r.failed \subseteq Settings \cup {"batch", "record"}
        /\ r.unsent \subseteq NeverResent /\ r.late \subseteq Settings
    BY <1>9 DEF StoreOK
  <2> QED BY <1>2, <1>3, <1>4, <2>1, <2>2, <2>3 DEF StoreOK
<1>11. ASSUME Told(st) PROVE Told(r)
  <2> SUFFICES ASSUME NEW s \in Settings \ {"frame_rate"}, s \notin r.failed,
                      m_flag_camera_start = 1 \/ s \in NeverResent
               PROVE  Has(r, s)
    BY DEF Told
  <2>1. CASE s \in sent
    BY <1>1, <1>3, <1>4, <2>1 DEF Has
  <2>2. CASE s \notin sent
    <3>1. s \notin st.failed
      <4>1. CASE m_flag_camera_start = 1
        <5>1. r.failed = (st.failed \ sent) \cup (Changed(st, wanted) \cap {f})
          BY <1>2, <4>1
        <5> QED BY <2>2, <5>1
      <4>2. CASE m_flag_camera_start # 1
        BY <1>5, <4>2
      <4> QED BY <4>1, <4>2
    <3>2. Has(st, s) /\ r.device[s] = st.device[s]
      BY <1>4, <1>11, <2>2, <3>1 DEF Told
    <3>3. r.cached[s] = st.cached[s] \/ s \in r.unsent
      <4>1. CASE s \notin S
        BY <1>3, <4>1
      <4>2. CASE s \in S /\ m_flag_camera_start = 1
        BY <1>3, <1>7, <2>2, <4>2
      <4>3. CASE s \in S /\ m_flag_camera_start # 1
        BY <1>3, <1>15, <4>3
      <4> QED BY <4>1, <4>2, <4>3
    <3>4. s \in st.unsent => s \in r.unsent
      BY <1>16, <2>2
    <3> QED BY <3>2, <3>3, <3>4 DEF Has
  <2> QED BY <2>1, <2>2
<1>12. \A s \in S : m_flag_camera_start = 1 /\ s \notin r.failed =>
              r.device[s] = wanted[s] \/ (r.device[s] = st.device[s] /\ st.cached[s] = wanted[s])
  BY <1>1, <1>4, <1>7
<1>13. Kept(st, r, S)
  BY <1>1, <1>3, <1>4, <1>6, <1>5, <1>8, <1>9, <1>10, <1>11 DEF Kept
<1>14. "batch" \in r.failed <=> "batch" \in st.failed
  BY <1>8 DEF Settings
<1> QED BY <1>3, <1>12, <1>13, <1>14 DEF r

(* What a setter leaves to be reflected is what it sent, and what was left. *)
LEMMA SetPending ==
  ASSUME NEW st, NEW wanted, NEW f
  PROVE  LET r == Set(st, wanted, f) IN
         r.pending \ r.late \subseteq (st.pending \ st.late) \cup (DOMAIN wanted \ {f})
BY DEF Set, Sent, Changed

(* SetEffect of a setter of one setting.                                   *)
LEMMA SetOne ==
  ASSUME NEW st, StoreOK(st), NEW k \in Settings, NEW wanted, DOMAIN wanted = {k},
         wanted[k] \in Stored[k], NEW f
  PROVE  Kept(st, Set(st, wanted, f), {k}) /\ Set(st, wanted, f).cached[k] = wanted[k]
<1> DEFINE S == {k}
<1>1. S \in SUBSET Settings /\ DOMAIN wanted = S /\ \A s \in S : wanted[s] \in Stored[s]
  OBVIOUS
<1>2. k \in S
  OBVIOUS
<1> HIDE DEF S
<1>3. /\ Kept(st, Set(st, wanted, f), S)
      /\ \A s \in S : Set(st, wanted, f).cached[s] = wanted[s]
  BY <1>1, SetEffect
<1> QED BY <1>2, <1>3 DEF S

(* A setter of some settings is one of more.                               *)
LEMMA KeptMore ==
  ASSUME NEW st, NEW r, NEW S, NEW T, S \subseteq T, Kept(st, r, S)
  PROVE  Kept(st, r, T)
BY DEF Kept

(* One setter after another.                                               *)
LEMMA KeptKept ==
  ASSUME NEW st, NEW q, NEW r, NEW S, Kept(st, q, S), Kept(q, r, S)
  PROVE  Kept(st, r, S)
BY DEF Kept

(* setFaceDetect may send the focus mode too; if the device refuses that,  *)
(* face detection counts as failed.                                        *)
LEMMA FaceEffect ==
  ASSUME NEW st, StoreOK(st), NEW v \in {"off", "on"}, NEW f
  PROVE  /\ Kept(st, setFaceDetect(st, v, f), {"face_detect", "focus_mode"})
         /\ setFaceDetect(st, v, f).cached["face_detect"] = v
         /\ setFaceDetect(st, v, f).cached["focus_mode"] = st.cached["focus_mode"]
<1> DEFINE wanted == [face_detect |-> v]
           S == {"face_detect", "focus_mode"}
<1>1. /\ DOMAIN wanted = {"face_detect"} /\ wanted["face_detect"] = v
      /\ {"face_detect"} \in SUBSET Settings
      /\ \A s \in {"face_detect"} : wanted[s] \in Stored[s]
  BY StoredValues DEF Settings
<1>2. ASSUME NEW q, StoreOK(q)
      PROVE  /\ Kept(q, Set(q, wanted, f), S)
             /\ Set(q, wanted, f).cached["face_detect"] = v
             /\ Set(q, wanted, f).cached["focus_mode"] = q.cached["focus_mode"]
  <2> HIDE DEF wanted
  <2>1. /\ Kept(q, Set(q, wanted, f), {"face_detect"})
        /\ Set(q, wanted, f).cached["face_detect"] = wanted["face_detect"]
    BY <1>1, <1>2, SetOne DEF Settings
  <2> QED BY <1>1, <2>1, KeptMore DEF Kept, Settings
<1> DEFINE new == m_flag_camera_start = 1 /\ v = "on" /\ st.cached.face_detect # v
<1>3. setFaceDetect(st, v, f) =
        IF ~new THEN Set(st, wanted, f)
        ELSE IF f = "face_focus"
        THEN [st EXCEPT !.cached.face_detect = v, !.failed = @ \cup {"face_detect"}]
        ELSE Set(FocusForFaces(st), wanted, f)
  BY DEF setFaceDetect
<1>4. CASE ~new
  BY <1>2, <1>3, <1>4
<1>5. CASE new /\ f = "face_focus"
  <2> DEFINE r == [st EXCEPT !.cached.face_detect = v, !.failed = @ \cup {"face_detect"}]
  <2>1. /\ r.device = st.device /\ r.pending = st.pending
        /\ r.unsent = st.unsent /\ r.late = st.late
        /\ r.failed = st.failed \cup {"face_detect"}
        /\ DOMAIN r = {"cached", "device", "pending", "unsent", "late", "failed"}
        /\ r.cached = [st.cached EXCEPT !["face_detect"] = v]
    BY DEF StoreOK, FocusForFaces
  <2>a. /\ DOMAIN r.cached = Settings /\ r.cached["face_detect"] = v
        /\ \A s \in Settings \ {"face_detect"} : r.cached[s] = st.cached[s]
    BY <2>1 DEF StoreOK, Settings
  <2> HIDE DEF r
  <2>2. StoreOK(r)
    BY <2>1, <2>a, StoredValues DEF StoreOK, Settings
  <2>3. Told(st) => Told(r)
    BY <2>1, <2>a DEF Told, Has, Settings
  <2>4. Kept(st, r, S)
    BY <1>5, <2>1, <2>a, <2>2, <2>3 DEF Kept
  <2>5. r.cached["focus_mode"] = st.cached["focus_mode"]
    BY <2>a DEF Settings
  <2> QED BY <1>3, <1>5, <2>a, <2>4, <2>5 DEF r
<1>6. CASE new /\ f # "face_focus"
  <2> DEFINE r == FocusForFaces(st)
  <2>1. /\ r.cached = st.cached /\ r.failed = st.failed
        /\ r.unsent = st.unsent /\ r.late = st.late
        /\ r.pending = st.pending \cup {"focus_mode"}
        /\ DOMAIN r = {"cached", "device", "pending", "unsent", "late", "failed"}
        /\ r.device = [st.device EXCEPT !["focus_mode"] = "auto"]
    BY DEF StoreOK, FocusForFaces
  <2>a. /\ DOMAIN r.device = Settings /\ r.device["focus_mode"] = "auto"
        /\ \A s \in Settings \ {"focus_mode"} : r.device[s] = st.device[s]
    BY <2>1 DEF StoreOK, Settings
  <2> HIDE DEF r
  <2>2. StoreOK(r)
    BY <2>1, <2>a, StoredValues DEF StoreOK, Settings
  <2>3. Told(st) => Told(r)
    BY <2>1, <2>a DEF Told, Has, Settings
  <2>4. Kept(st, r, S)
    BY <1>6, <2>1, <2>a, <2>2, <2>3 DEF Kept
  <2> QED BY <1>2, <1>3, <1>6, <2>1, <2>2, <2>4, KeptKept DEF r
<1> QED BY <1>4, <1>5, <1>6

(* setBatchReflection changes no setting; while the preview runs it        *)
(* leaves nothing to reflect, or has failed.                               *)
LEMMA BatchEffect ==
  ASSUME NEW st, StoreOK(st), NEW f, m_flag_camera_start \in 0 .. 1
  PROVE  LET r == setBatchReflection(st, f) IN
         /\ Kept(st, r, {})
         /\ m_flag_camera_start = 0 => r = st
         /\ m_flag_camera_start # 0 => "batch" \in r.failed \/ r.pending = {}
<1> DEFINE r == setBatchReflection(st, f)
<1>1. CASE m_flag_camera_start = 0
  <2>1. r = st
    BY <1>1 DEF setBatchReflection
  <2> QED BY <1>1, <2>1 DEF Kept
<1>2. CASE m_flag_camera_start # 0
  <2>1. /\ r.cached = st.cached /\ r.device = st.device /\ r.pending \subseteq st.pending
        /\ r.unsent = st.unsent /\ r.late \subseteq st.late
        /\ DOMAIN r = {"cached", "device", "pending", "unsent", "late", "failed"}
        /\ r.failed = st.failed \cup {"batch"} \/ r.failed = st.failed \ {"batch"}
        /\ "batch" \in r.failed \/ r.pending = {}
    BY <1>2 DEF setBatchReflection, StoreOK
  <2> HIDE DEF r
  <2>2. StoreOK(r)
    BY <2>1 DEF StoreOK
  <2>3. Told(st) => Told(r)
    BY <2>1 DEF Told, Has, Settings
  <2>4. m_flag_camera_start # 1 => FALSE
    BY <1>2
  <2> QED BY <1>2, <2>1, <2>2, <2>3 DEF Kept, Settings, r
<1> QED BY <1>1, <1>2
(* Parameters of the client have values they may have.                     *)
ParametersOK(p) == DOMAIN p = AllKeys /\ \A k \in AllKeys : p[k] \in Choices[k]

(* The settings that setParameters may change.                             *)
Reached == Passed \cup {"focus_mode", "face_detect", "flash_mode"}

(* The modes that a scene puts in place of those asked for.                *)
LEMMA ModesOfScene ==
  ASSUME NEW p, ParametersOK(p)
  PROVE  /\ FocusMode(p) \in Choices.focus_mode /\ FlashMode(p) \in Choices.flash_mode
         /\ p.iso \in {"auto", "ISO400"} /\ p.preview_size \in Choices.preview_size
BY DEF ParametersOK, FocusMode, FlashMode, AllKeys, Choices

(* setParameters' focus mode reaches the focus mode and face detection of  *)
(* SecCamera, no other setting.                                            *)
LEMMA FocusEffect ==
  ASSUME NEW st, StoreOK(st), NEW p, ParametersOK(p), NEW f
  PROVE  LET r == setFocus(st, p, f) IN
         /\ Kept(st, r, {"face_detect", "focus_mode"})
         /\ r.cached["face_detect"] = IF FocusMode(p) = "facedetect" THEN "on" ELSE "off"
         /\ FocusMode(p) # "facedetect" => r.cached["focus_mode"] = FocusMode(p)
<1>1. CASE FocusMode(p) = "facedetect"
  BY <1>1, FaceEffect DEF setFocus
<1>2. CASE FocusMode(p) # "facedetect"
  <2> DEFINE q == setFaceDetect(st, "off", f)
             wanted == [focus_mode |-> FocusMode(p)]
  <2>1. Kept(st, q, {"face_detect", "focus_mode"}) /\ q.cached["face_detect"] = "off"
    BY FaceEffect
  <2>6. wanted["focus_mode"] = FocusMode(p)
    OBVIOUS
  <2>2. /\ DOMAIN wanted = {"focus_mode"} /\ {"focus_mode"} \in SUBSET Settings
        /\ \A s \in {"focus_mode"} : wanted[s] \in Stored[s]
    BY <1>2, ModesOfScene, StoredValues DEF Choices, Settings
  <2>3. setFocus(st, p, f) = Set(q, wanted, f)
    BY <1>2 DEF setFocus, setFocusMode
  <2> HIDE DEF q, wanted
  <2>4. /\ Kept(q, Set(q, wanted, f), {"focus_mode"})
        /\ Set(q, wanted, f).cached["focus_mode"] = FocusMode(p)
    <3>1. StoreOK(q)
      BY <2>1 DEF Kept
    <3> QED BY <2>2, <2>6, <3>1, SetOne DEF Settings
  <2>5. Kept(q, Set(q, wanted, f), {"face_detect", "focus_mode"})
    BY <2>4, KeptMore
  <2>7. Set(q, wanted, f).cached["face_detect"] = "off"
    BY <2>1, <2>4 DEF Kept, Settings
  <2> QED BY <1>2, <2>1, <2>3, <2>4, <2>5, <2>7, KeptKept
<1> QED BY <1>1, <1>2

(* setParameters as a whole: the settings it reaches are stored, and told  *)
(* while the preview runs, the ISO asked for among them, and the batch is  *)
(* reflected at the end.                                                   *)
LEMMA ParametersEffect ==
  ASSUME StoreOK(Store), NEW p, ParametersOK(p), NEW f, m_flag_camera_start \in 0 .. 1
  PROVE  LET r == AllSet(p, f) IN
         /\ Kept(Store, r, Reached)
         /\ \A s \in Passed : r.cached[s] = p[s]
         /\ r.cached["flash_mode"] = FlashMode(p)
         /\ r.cached["face_detect"] = IF FocusMode(p) = "facedetect" THEN "on" ELSE "off"
         /\ FocusMode(p) # "facedetect" => r.cached["focus_mode"] = FocusMode(p)
         /\ m_flag_camera_start # 0 => "batch" \in r.failed \/ r.pending = {}
<1> DEFINE passed == [s \in Passed |-> p[s]]
           a == Set(Store, passed, f)
           b == setFocus(a, p, f)
           flash == [flash_mode |-> FlashMode(p)]
           c == Set(b, flash, f)
           r == setBatchReflection(c, f)
<1>1. DOMAIN passed = Passed /\ Passed \in SUBSET Settings /\ \A s \in Passed : passed[s] \in Stored[s]
  BY StoredValues DEF Passed, Settings, ParametersOK, AllKeys
<1>2. /\ DOMAIN flash = {"flash_mode"} /\ {"flash_mode"} \in SUBSET Settings
      /\ \A s \in {"flash_mode"} : flash[s] \in Stored[s]
  BY ModesOfScene, StoredValues DEF Settings
<1>3. r = AllSet(p, f)
  BY DEF AllSet, setFlashMode
<1>4. flash["flash_mode"] = FlashMode(p) /\ \A s \in Passed : passed[s] = p[s]
  OBVIOUS
<1>5. /\ Passed \subseteq Reached /\ {"face_detect", "focus_mode"} \subseteq Reached
      /\ {"flash_mode"} \subseteq Reached /\ {} \subseteq Reached
  BY DEF Reached
<1> HIDE DEF passed, flash
<1>6. Kept(Store, a, Passed) /\ \A s \in Passed : a.cached[s] = p[s]
  BY <1>1, <1>4, SetEffect
<1> HIDE DEF a
<1>7. /\ Kept(a, b, {"face_detect", "focus_mode"})
      /\ b.cached["face_detect"] = IF FocusMode(p) = "facedetect" THEN "on" ELSE "off"
      /\ FocusMode(p) # "facedetect" => b.cached["focus_mode"] = FocusMode(p)
  BY <1>6, FocusEffect DEF Kept
<1> HIDE DEF b
<1>8. Kept(b, c, {"flash_mode"}) /\ c.cached["flash_mode"] = FlashMode(p)
  <2>1. StoreOK(b)
    BY <1>7 DEF Kept
  <2> QED BY <1>2, <1>4, <2>1, SetOne DEF Settings
<1> HIDE DEF c
<1>9. Kept(c, r, {}) /\ (m_flag_camera_start # 0 => "batch" \in r.failed \/ r.pending = {})
  BY <1>8, BatchEffect DEF Kept
<1> HIDE DEF r
<1>10. Kept(Store, r, Reached)
  <2>1. Kept(Store, a, Reached)
    BY <1>5, <1>6, KeptMore
  <2>2. Kept(a, b, Reached)
    BY <1>5, <1>7, KeptMore
  <2>3. Kept(b, c, Reached)
    BY <1>5, <1>8, KeptMore
  <2>4. Kept(c, r, Reached)
    BY <1>5, <1>9, KeptMore
  <2> QED BY <2>1, <2>2, <2>3, <2>4, KeptKept
<1>11. \A s \in Passed : r.cached[s] = p[s]
  BY <1>6, <1>7, <1>8, <1>9 DEF Kept, Settings, Passed
<1>12. /\ r.cached["flash_mode"] = c.cached["flash_mode"]
       /\ r.cached["face_detect"] = b.cached["face_detect"]
       /\ r.cached["focus_mode"] = b.cached["focus_mode"]
  BY <1>8, <1>9 DEF Kept, Settings
<1> QED BY <1>3, <1>7, <1>8, <1>9, <1>10, <1>11, <1>12

-----------------------------------------------------------------------------
(* The frame rate is told when the preview and a recording start; a        *)
(* recording leaves it to the device.                                      *)
FrameRateTold ==
  m_flag_camera_start = 1 /\ "frame_rate" \notin failed =>
    \/ device["frame_rate"] = cached["frame_rate"]
    \/ device["frame_rate"] = "auto" /\ m_flag_record_start = 0

(* The inductive invariant: TorchOff needs that the device has the stored  *)
(* flash mode, StillsAfterRecording and ClientKnows the ranges of values.  *)
SettingsInv ==
  /\ ParametersOK(mParameters)
  /\ StoreOK(Store)
  /\ m_preview_size \in Choices.preview_size
  /\ streamed \in Choices.preview_size \cup {"none"}
  /\ m_flag_camera_start \in 0 .. 1 /\ m_flag_record_start \in 0 .. 1
  /\ refused \subseteq AllKeys /\ parted \subseteq AllKeys
  /\ Told(Store) /\ FrameRateTold /\ ClientKnows
  /\ Reflected /\ TorchOff /\ StillsAfterRecording

(* The store is the variables of SecCamera.                                *)
LEMMA StoreFields ==
  /\ Store.cached = cached /\ Store.device = device
  /\ Store.pending = pending /\ Store.failed = failed
  /\ Store.unsent = unsent /\ Store.late = late
BY DEF Store

(* What the invariant says of the device.                                  *)
LEMMA ToldMeansHas ==
  ASSUME Told(Store), FrameRateTold
  PROVE  DeviceHasSettings
BY StoreFields DEF Told, Has, FrameRateTold, DeviceHasSettings

(* What is true of the store a call computes is true of the next state.    *)
LEMMA StoreNext ==
  ASSUME NEW st, StoreOK(st), StoreIs(st)
  PROVE  /\ StoreOK(Store)'
         /\ m_flag_camera_start' = m_flag_camera_start /\ Told(st) => Told(Store)'
BY DEF StoreOK, StoreIs, Store, Told, Has

(* The client knows the settings that do not change, and need not know     *)
(* those that are noted as changed behind it.                              *)
LEMMA KnowsKept ==
  ASSUME ClientKnows, UNCHANGED <<mParameters, m_preview_size, refused>>,
         parted \subseteq parted',
         \A s \in (Settings \cap AllKeys) \ parted' : cached'[s] = cached[s],
         "focus_mode" \notin parted' => cached'["face_detect"] = cached["face_detect"]
  PROVE  ClientKnows'
BY DEF ClientKnows, AllKeys, Settings

(* setParameters keeps the invariant, whatever it sets and whatever        *)
(* request fails.                                                          *)
LEMMA SetParametersKeeps ==
  ASSUME SettingsInv, NEW k \in Keys, NEW v \in Choices[k], NEW f,
         setParameters([mParameters EXCEPT ![k] = v], f)
  PROVE  SettingsInv'
<1> DEFINE p == [mParameters EXCEPT ![k] = v]
           r == AllSet(p, f)
<1>1. ParametersOK(p)
  BY SettingsAssumption DEF SettingsInv, ParametersOK
<1> HIDE DEF p
<1>2. /\ Kept(Store, r, Reached)
      /\ \A s \in Passed : r.cached[s] = p[s]
      /\ r.cached["flash_mode"] = FlashMode(p)
      /\ r.cached["face_detect"] = IF FocusMode(p) = "facedetect" THEN "on" ELSE "off"
      /\ FocusMode(p) # "facedetect" => r.cached["focus_mode"] = FocusMode(p)
      /\ m_flag_camera_start # 0 => "batch" \in r.failed \/ r.pending = {}
  BY <1>1, ParametersEffect DEF SettingsInv
<1>3. /\ StoreIs(r) /\ m_preview_size' = p.preview_size
      /\ UNCHANGED <<m_flag_camera_start, m_flag_record_start, streamed>>
      /\ refused' = Refused(p, f) /\ parted' = {}
  BY DEF setParameters, p
<1>4. ParametersOK(mParameters)'
  <2> DEFINE asked == [p EXCEPT !.focus_mode = FocusMode(p), !.flash_mode = FlashMode(p)]
  <2>1. ParametersOK(asked)
    BY <1>1, ModesOfScene DEF ParametersOK, AllKeys
  <2>2. mParameters' = [q \in AllKeys |-> IF q \in Refused(p, f) THEN mParameters[q] ELSE asked[q]]
    BY DEF setParameters, p
  <2> HIDE DEF asked
  <2> QED BY <2>1, <2>2 DEF ParametersOK, SettingsInv
<1> HIDE DEF r
<1>5. StoreOK(Store)' /\ Told(Store)'
  BY <1>2, <1>3, StoreNext, StoreFields DEF Kept, SettingsInv
<1>11. FrameRateTold'
  <2>1. /\ device'["frame_rate"] = device["frame_rate"]
        /\ cached'["frame_rate"] = cached["frame_rate"]
        /\ "frame_rate" \in failed' <=> "frame_rate" \in failed
    BY <1>2, <1>3, StoreFields DEF Kept, Reached, Passed, Settings, StoreIs
  <2> QED BY <1>3, <2>1 DEF SettingsInv, FrameRateTold
<1>12. ClientKnows'
  <2>1. /\ mParameters' = [q \in AllKeys |->
              IF q \in Refused(p, f) THEN mParameters[q]
              ELSE [p EXCEPT !.focus_mode = FocusMode(p), !.flash_mode = FlashMode(p)][q]]
    BY DEF setParameters, p
  <2>2. \A q \in AllKeys \ refused' :
          mParameters'[q] = IF q = "focus_mode" THEN FocusMode(p)
                            ELSE IF q = "flash_mode" THEN FlashMode(p) ELSE p[q]
    BY <1>1, <1>3, <2>1 DEF ParametersOK
  <2>3. cached' = r.cached
    BY <1>3 DEF StoreIs
  <2>4. SUFFICES ASSUME NEW q \in AllKeys, q \notin refused'
        PROVE  CASE q = "preview_size" -> m_preview_size' = mParameters'[q]
                 [] q = "focus_mode"   ->
                      IF mParameters'[q] = "facedetect" THEN cached'["face_detect"] = "on"
                      ELSE cached'["face_detect"] = "off" /\ cached'[q] = mParameters'[q]
                 [] OTHER              -> cached'[q] = mParameters'[q]
    BY DEF ClientKnows
  <2>5. CASE q = "preview_size"
    BY <1>3, <2>2, <2>4, <2>5
  <2>6. CASE q = "focus_mode"
    BY <1>2, <2>2, <2>4, <2>3, <2>6
  <2>7. CASE q = "flash_mode"
    BY <1>2, <2>2, <2>4, <2>3, <2>7
  <2>8. CASE q \in Passed
    <3>1. q \notin {"preview_size", "focus_mode", "flash_mode"}
      BY <2>8 DEF Passed
    <3> QED BY <1>2, <2>2, <2>4, <2>3, <2>8, <3>1
  <2> QED BY <2>5, <2>6, <2>7, <2>8 DEF AllKeys, Passed
<1>6. Reflected'
  BY <1>2, <1>3 DEF Reflected, StoreIs, SettingsInv
<1>7. TorchOff'
  <2> SUFFICES ASSUME m_flag_camera_start = 0, "flash_mode" \notin failed'
               PROVE  device'.flash_mode # "torch"
    BY <1>3 DEF TorchOff
  <2>1. r.failed = failed /\ r.device["flash_mode"] = device["flash_mode"]
    BY <1>2, StoreFields DEF Kept, Settings
  <2> QED BY <1>3, <2>1 DEF StoreIs, SettingsInv, TorchOff
<1>8. StillsAfterRecording'
  <2>1. "record" \in r.failed <=> "record" \in failed
    BY <1>2, StoreFields DEF Kept, Reached, Passed
  <2>2. r.cached["metering"] = cached["metering"] /\ r.cached["iso"] # "movie"
    BY <1>1, <1>2, ModesOfScene, StoreFields DEF Kept, Reached, Passed, Settings
  <2> QED BY <1>3, <2>1, <2>2 DEF StoreIs, SettingsInv, StillsAfterRecording
<1>9. refused' \subseteq AllKeys /\ parted' \subseteq AllKeys
  BY <1>3 DEF Refused, Passed, AllKeys
<1>10. m_preview_size' \in Choices.preview_size
  BY <1>1, <1>3, ModesOfScene
<1> QED BY <1>3, <1>4, <1>5, <1>6, <1>7, <1>8, <1>9, <1>10, <1>11, <1>12 DEF SettingsInv
(* What startPreview has done when a request fails: the settings before    *)
(* the batch are told if the batch is reflected, the flash mode if nothing *)
(* before it fails.                                                        *)
LEMMA OrderOfStart ==
  ASSUME NEW f
  PROVE  /\ Done(f) \subseteq Range(StartOrder) /\ f \notin Done(f)
         /\ Tried(f) \cap {"face_detect", "zoom"} \subseteq Settings
         /\ "batch" \in Done(f) =>
              {"iso", "frame_rate", "metering", "white_balance", "focus_mode", "face_detect",
               "zoom"} \subseteq Done(f)
         /\ "batch" \in Done(f) /\ f \notin {"s_parm", "flash_mode"} => "flash_mode" \in Done(f)
         /\ "flash_mode" \in Done(f) => "batch" \in Done(f)
         /\ NeverResent \cap Done(f) = {} /\ "record" \notin Done(f)
<1>1. Len(StartOrder) = 12 /\ DOMAIN StartOrder = 1 .. 12
  BY DEF StartOrder
<1>2. /\ StartOrder[1] = "iso" /\ StartOrder[2] = "frame_rate" /\ StartOrder[3] = "metering"
      /\ StartOrder[4] = "white_balance" /\ StartOrder[5] = "streamon"
      /\ StartOrder[6] = "focus_mode" /\ StartOrder[7] = "face_detect" /\ StartOrder[8] = "zoom"
      /\ StartOrder[9] = "batch" /\ StartOrder[10] = "s_parm" /\ StartOrder[11] = "flash_mode"
      /\ StartOrder[12] = "poll"
  BY DEF StartOrder
<1>3. ASSUME NEW i \in 1 .. 12
      PROVE  StartOrder[i] \in Done(f) <=> \A k \in 1 .. i : StartOrder[k] # f
  <2>1. ASSUME NEW j \in 1 .. 12, StartOrder[j] = StartOrder[i] PROVE j = i
    BY <1>2, <2>1
  <2> QED BY <1>1, <2>1 DEF Done
<1> QED BY <1>1, <1>2, <1>3 DEF Done, Tried, Settings, Range, NeverResent

(* startPreview keeps the invariant: a preview that runs after it has      *)
(* told the device every stored setting that did not fail, and one that    *)
(* failed before leaves the torch as it was.                               *)
LEMMA StartPreviewKeeps ==
  ASSUME SettingsInv, NEW f, startPreview(f)
  PROVE  SettingsInv'
<1> DEFINE told == Done(f) \cap Settings
           anew == [s \in Tried(f) \cap {"face_detect", "zoom"} |->
                      IF s = "zoom" THEN "0" ELSE "off"]
<1>1. /\ m_flag_camera_start = 0
      /\ cached' = Restarted(f)
      /\ device' = Over([s \in told |-> Restarted(f)[s]], device)
      /\ pending' = IF "batch" \in Done(f) THEN Done(f) \cap {"flash_mode"} ELSE pending \cup told
      /\ unsent' = unsent
      /\ late' = IF "batch" \in Done(f) THEN Done(f) \cap {"flash_mode"} ELSE late
      /\ failed' = (failed \ Done(f)) \cup ({f} \cap Settings)
                     \cup (IF f = "s_parm" THEN {"flash_mode"} ELSE {})
      /\ parted' = parted \cup ResetBehind(f)
      /\ m_flag_camera_start' = IF "batch" \in Done(f) THEN 1 ELSE 0
      /\ streamed' = m_preview_size
      /\ UNCHANGED <<mParameters, m_preview_size, m_flag_record_start, refused>>
  BY DEF startPreview, StoreIs
<1>2. told \subseteq Settings
  OBVIOUS
<1>3. /\ DOMAIN anew = Tried(f) \cap {"face_detect", "zoom"}
      /\ Restarted(f) = Over(anew, cached)
      /\ \A s \in DOMAIN anew : anew[s] \in Stored[s]
  BY StoredValues DEF Restarted, Choices
<1> HIDE DEF anew
<1>4. /\ DOMAIN cached' = Settings /\ \A s \in Settings : cached'[s] \in Stored[s]
      /\ \A s \in Settings \ {"face_detect", "zoom"} : cached'[s] = cached[s]
  BY <1>1, <1>3, OrderOfStart, StoreFields DEF Over, SettingsInv, StoreOK, Settings
<1>5. /\ DOMAIN device' = Settings
      /\ \A s \in told : device'[s] = cached'[s]
      /\ \A s \in Settings \ told : device'[s] = device[s]
  BY <1>1, <1>2, StoreFields DEF Over, SettingsInv, StoreOK
<1>6. \A s \in Settings : device'[s] \in Stored[s] \cup {"unset"}
  BY <1>2, <1>4, <1>5, StoreFields DEF SettingsInv, StoreOK
<1>7. /\ pending' \subseteq Settings /\ failed' \subseteq Settings \cup {"batch", "record"}
      /\ unsent' \subseteq NeverResent /\ late' \subseteq Settings
  BY <1>1, <1>2, StoreFields DEF SettingsInv, StoreOK, Settings
<1>8. StoreOK(Store)'
  BY <1>4, <1>5, <1>6, <1>7 DEF StoreOK, Store
<1>9. Told(Store)'
  <2> SUFFICES ASSUME NEW s \in Settings \ {"frame_rate"}, s \notin failed',
                      "batch" \in Done(f) \/ s \in NeverResent
               PROVE  \/ device'[s] = cached'[s] \/ s \in unsent'
                      \/ s = "focus_mode" /\ device'[s] = "auto"
    BY <1>1 DEF Told, Has, Store
  <2>1. CASE s \in Done(f)
    BY <1>5, <2>1
  <2>2. CASE s \in NeverResent
    <3>1. s \notin Done(f) /\ s \notin failed
      BY <1>1, <2>2, OrderOfStart
    <3>2. device[s] = cached[s] \/ s \in unsent
      BY <2>2, <3>1, StoreFields DEF SettingsInv, Told, Has, NeverResent
    <3> QED BY <1>1, <1>4, <1>5, <2>2, <3>1, <3>2 DEF NeverResent
  <2>3. CASE s \notin Done(f) /\ s \notin NeverResent
    <3>1. s = "flash_mode"
      BY <2>3, OrderOfStart DEF Settings, NeverResent
    <3> QED BY <1>1, <2>3, <3>1, OrderOfStart
  <2> QED BY <2>1, <2>2, <2>3
<1>10. Reflected'
  BY <1>1 DEF Reflected
<1>11. TorchOff'
  <2> SUFFICES ASSUME "batch" \notin Done(f), "flash_mode" \notin failed'
               PROVE  device'.flash_mode # "torch"
    BY <1>1 DEF TorchOff
  <2>1. "flash_mode" \notin told /\ "flash_mode" \notin Done(f)
    BY OrderOfStart
  <2>2. "flash_mode" \notin failed
    BY <1>1, <2>1
  <2> QED BY <1>1, <1>5, <2>1, <2>2 DEF SettingsInv, TorchOff, Settings
<1>12. StillsAfterRecording'
  <2>1. "record" \in failed => "record" \in failed'
    BY <1>1, OrderOfStart
  <2> QED BY <1>1, <1>4, <2>1 DEF SettingsInv, StillsAfterRecording, Settings
<1>13. m_flag_camera_start' \in 0 .. 1
  BY <1>1
<1>14. FrameRateTold'
  <2>1. "batch" \in Done(f) => "frame_rate" \in told
    BY OrderOfStart DEF Settings
  <2> QED BY <1>1, <1>5, <2>1 DEF FrameRateTold
<1>15. /\ parted' \subseteq AllKeys
       /\ \A s \in (Settings \cap AllKeys) \ parted' : cached'[s] = cached[s]
       /\ "focus_mode" \notin parted' => cached'["face_detect"] = cached["face_detect"]
  <2>1. \A s \in Settings : cached'[s] # cached[s] =>
          (IF s = "face_detect" THEN "focus_mode" ELSE s) \in parted'
    BY <1>1 DEF ResetBehind
  <2>2. ResetBehind(f) \subseteq {"focus_mode", "zoom"}
    BY <1>1, <1>4 DEF ResetBehind
  <2>3. "face_detect" \notin AllKeys /\ "face_detect" \in Settings
    BY DEF AllKeys, Settings
  <2> QED BY <1>1, <2>1, <2>2, <2>3 DEF SettingsInv, AllKeys
<1>16. ClientKnows'
  BY <1>1, <1>15, KnowsKept DEF SettingsInv
<1> QED BY <1>1, <1>8, <1>9, <1>10, <1>11, <1>12, <1>13, <1>14, <1>15, <1>16 DEF SettingsInv

(* stopPreview keeps the invariant: if the torch burns it is the stored    *)
(* flash mode, and is put out or has failed.                               *)
LEMMA StopPreviewKeeps ==
  ASSUME SettingsInv, NEW f, stopPreview(f)
  PROVE  SettingsInv'
<1> DEFINE off == [flash_mode |-> "off"]
           q == Set(Store, off, f)
           r == Late(q, {"flash_mode"} \ {f})
<1>1. /\ m_flag_camera_start = 1
      /\ cached["flash_mode"] = "torch" => StoreIs(r) /\ parted' = parted \cup {"flash_mode"}
      /\ cached["flash_mode"] # "torch" => UNCHANGED <<storeVars, parted>>
      /\ m_flag_camera_start' \in 0 .. 1
      /\ UNCHANGED <<mParameters, m_preview_size, m_flag_record_start, streamed, refused>>
  BY DEF stopPreview, setFlashMode
<1>2. DOMAIN off = {"flash_mode"} /\ off["flash_mode"] = "off" /\ {"flash_mode"} \in SUBSET Settings
      /\ \A s \in {"flash_mode"} : off[s] \in Stored[s]
  BY StoredValues DEF Settings, Choices
<1> HIDE DEF off
<1>3. /\ Kept(Store, q, {"flash_mode"}) /\ q.cached["flash_mode"] = "off"
      /\ "batch" \in q.failed <=> "batch" \in failed
      /\ q.pending \ q.late \subseteq (pending \ late) \cup ({"flash_mode"} \ {f})
  <2>1. StoreOK(Store)
    BY DEF SettingsInv
  <2>2. DEFINE S == {"flash_mode"}
  <2>3. S \in SUBSET Settings /\ DOMAIN off = S /\ \A s \in S : off[s] \in Stored[s]
    BY <1>2
  <2> HIDE DEF S
  <2>4. /\ Kept(Store, q, S) /\ \A s \in S : q.cached[s] = off[s]
        /\ "batch" \in q.failed <=> "batch" \in Store.failed
    BY <2>1, <2>3, SetEffect
  <2>5. q.pending \ q.late \subseteq (Store.pending \ Store.late) \cup (DOMAIN off \ {f})
    BY SetPending
  <2> QED BY <1>2, <2>4, <2>5, StoreFields DEF S
<1> HIDE DEF q
<1>4. /\ r.cached = q.cached /\ r.device = q.device /\ r.pending = q.pending
      /\ r.unsent = q.unsent /\ r.failed = q.failed
      /\ r.late = q.late \cup ({"flash_mode"} \ {f})
      /\ DOMAIN r = DOMAIN q
  BY <1>3 DEF Late, Kept, StoreOK
<1> HIDE DEF r
<1>5. CASE cached["flash_mode"] # "torch"
  <2>1. /\ UNCHANGED <<cached, device, pending, unsent, late, failed, parted>>
    BY <1>1, <1>5 DEF storeVars
  <2>2. StoreOK(Store)'
    BY <2>1 DEF SettingsInv, StoreOK, Store
  <2>3. Told(Store)'
    <3>1. \A s \in Settings \ {"frame_rate"} : s \notin failed => Has(Store, s)
      BY <1>1, StoreFields DEF SettingsInv, Told
    <3> QED BY <2>1, <3>1 DEF Told, Has, Store
  <2>4. "flash_mode" \notin failed => device["flash_mode"] = cached["flash_mode"]
    BY <1>1, StoreFields DEF SettingsInv, Told, Has, Settings, StoreOK, NeverResent
  <2>5. TorchOff'
    BY <1>5, <2>1, <2>4 DEF TorchOff
  <2>6. FrameRateTold' /\ Reflected' /\ StillsAfterRecording'
    BY <1>1, <2>1 DEF SettingsInv, FrameRateTold, Reflected, StillsAfterRecording
  <2>7. ClientKnows'
    BY <1>1, <2>1, KnowsKept DEF SettingsInv
  <2> QED BY <1>1, <2>1, <2>2, <2>3, <2>5, <2>6, <2>7 DEF SettingsInv
<1>6. CASE cached["flash_mode"] = "torch"
  <2>1. /\ cached' = q.cached /\ device' = q.device /\ pending' = q.pending
        /\ unsent' = q.unsent /\ failed' = q.failed
        /\ late' = q.late \cup ({"flash_mode"} \ {f})
    BY <1>1, <1>4, <1>6 DEF StoreIs
  <2>2. StoreOK(q) /\ Told(q)
    BY <1>3 DEF Kept, SettingsInv
  <2>3. StoreOK(Store)'
    BY <2>1, <2>2 DEF StoreOK, Store, Settings
  <2>4. Told(Store)'
    <3>1. \A s \in Settings \ {"frame_rate"} : s \notin q.failed => Has(q, s)
      BY <1>1, <2>2 DEF Told
    <3> QED BY <2>1, <3>1 DEF Told, Has, Store
  <2>5. TorchOff'
    <3>1. "flash_mode" \notin q.failed => q.device["flash_mode"] = "off"
      BY <1>1, <1>3, <2>2 DEF Told, Has, Settings, StoreOK, NeverResent
    <3> QED BY <2>1, <3>1 DEF TorchOff
  <2>6. FrameRateTold'
    <3>1. /\ q.device["frame_rate"] = device["frame_rate"]
          /\ q.cached["frame_rate"] = cached["frame_rate"]
          /\ "frame_rate" \in q.failed <=> "frame_rate" \in failed
      BY <1>3, StoreFields DEF Kept, Settings
    <3> QED BY <1>1, <2>1, <3>1 DEF SettingsInv, FrameRateTold
  <2>7. Reflected'
    BY <1>1, <1>3, <2>1 DEF SettingsInv, Reflected
  <2>8. StillsAfterRecording'
    <3>1. /\ q.cached["iso"] = cached["iso"] /\ q.cached["metering"] = cached["metering"]
          /\ "record" \in q.failed <=> "record" \in failed
      BY <1>3, StoreFields DEF Kept, Settings
    <3> QED BY <1>1, <2>1, <3>1 DEF SettingsInv, StillsAfterRecording
  <2>9. ClientKnows'
    <3>1. \A s \in Settings \ {"flash_mode"} : cached'[s] = cached[s]
      BY <1>3, <2>1, StoreFields DEF Kept
    <3> QED BY <1>1, <1>6, <3>1, KnowsKept DEF SettingsInv, Settings
  <2>10. parted' \subseteq AllKeys
    BY <1>1, <1>6 DEF SettingsInv, AllKeys
  <2> QED BY <1>1, <2>3, <2>4, <2>5, <2>6, <2>7, <2>8, <2>9, <2>10 DEF SettingsInv
<1> QED BY <1>5, <1>6
(* The ISO and the metering of a movie, or of stills, and the reflection.  *)
LEMMA MovieEffect ==
  ASSUME NEW st, StoreOK(st), NEW f, m_flag_camera_start \in 0 .. 1,
         NEW v \in {"movie", "auto"}, NEW w \in {"matrix", "center"}
  PROVE  LET r == setBatchReflection(setMetering(setISO(st, v, f), w, f), f) IN
         /\ Kept(st, r, {"iso", "metering"})
         /\ r.cached["iso"] = v /\ r.cached["metering"] = w
         /\ m_flag_camera_start # 0 => "batch" \in r.failed \/ r.pending = {}
<1> DEFINE iso == [iso |-> v]
           metering == [metering |-> w]
           a == Set(st, iso, f)
           b == Set(a, metering, f)
           r == setBatchReflection(b, f)
<1>1. /\ DOMAIN iso = {"iso"} /\ {"iso"} \in SUBSET Settings
      /\ iso["iso"] = v /\ \A s \in {"iso"} : iso[s] \in Stored[s]
  BY StoredValues DEF Settings, Choices
<1>2. /\ DOMAIN metering = {"metering"} /\ {"metering"} \in SUBSET Settings
      /\ metering["metering"] = w /\ \A s \in {"metering"} : metering[s] \in Stored[s]
  BY StoredValues DEF Settings
<1>3. r = setBatchReflection(setMetering(setISO(st, v, f), w, f), f)
  BY DEF setMetering, setISO
<1> HIDE DEF iso, metering
<1>4. Kept(st, a, {"iso"}) /\ a.cached["iso"] = v /\ StoreOK(a)
  <2>1. Kept(st, a, {"iso"}) /\ \A s \in {"iso"} : a.cached[s] = iso[s]
    BY <1>1, SetEffect
  <2> QED BY <1>1, <2>1 DEF Kept
<1> HIDE DEF a
<1>5. Kept(a, b, {"metering"}) /\ b.cached["metering"] = w /\ StoreOK(b)
  <2>1. Kept(a, b, {"metering"}) /\ b.cached["metering"] = metering["metering"]
    BY <1>2, <1>4, SetOne DEF Settings
  <2> QED BY <1>2, <2>1 DEF Kept
<1> HIDE DEF b
<1>6. Kept(b, r, {}) /\ (m_flag_camera_start # 0 => "batch" \in r.failed \/ r.pending = {})
  BY <1>5, BatchEffect
<1> HIDE DEF r
<1>7. Kept(st, r, {"iso", "metering"})
  <2>1. Kept(st, a, {"iso", "metering"})
    BY <1>4, KeptMore
  <2>2. Kept(a, b, {"iso", "metering"})
    BY <1>5, KeptMore
  <2>3. Kept(b, r, {"iso", "metering"})
    BY <1>6, KeptMore
  <2> QED BY <2>1, <2>2, <2>3, KeptKept
<1>8. r.cached["iso"] = v /\ r.cached["metering"] = w
  BY <1>4, <1>5, <1>6 DEF Kept, Settings
<1> QED BY <1>3, <1>6, <1>7, <1>8

(* The frame rate is sent and nothing else.                                *)
LEMMA FrameRateEffect ==
  ASSUME NEW st, StoreOK(st), NEW rate \in Stored["frame_rate"]
  PROVE  LET r == FrameRate(st, rate) IN
         /\ StoreOK(r) /\ (Told(st) => Told(r))
         /\ r.cached = st.cached /\ r.pending = st.pending \cup {"frame_rate"}
         /\ r.late = st.late
         /\ r.failed = st.failed \ {"frame_rate"}
         /\ r.device["flash_mode"] = st.device["flash_mode"]
         /\ r.device["frame_rate"] = rate
<1> DEFINE r == FrameRate(st, rate)
<1>1. /\ r.cached = st.cached /\ r.pending = st.pending \cup {"frame_rate"}
      /\ r.unsent = st.unsent /\ r.late = st.late
      /\ r.failed = st.failed \ {"frame_rate"}
      /\ DOMAIN r = {"cached", "device", "pending", "unsent", "late", "failed"}
      /\ r.device = [st.device EXCEPT !["frame_rate"] = rate]
  BY DEF StoreOK, FrameRate
<1>2. /\ DOMAIN r.device = Settings /\ r.device["frame_rate"] = rate
      /\ \A s \in Settings \ {"frame_rate"} : r.device[s] = st.device[s]
  BY <1>1 DEF StoreOK, Settings
<1> HIDE DEF r
<1>3. StoreOK(r)
  BY <1>1, <1>2 DEF StoreOK, Settings
<1>4. Told(st) => Told(r)
  BY <1>1, <1>2 DEF Told, Has, Settings
<1> QED BY <1>1, <1>2, <1>3, <1>4 DEF Settings, r

(* What goes out after the batch is noted, and nothing else.               *)
LEMMA LateEffect ==
  ASSUME NEW st, StoreOK(st), NEW S \in SUBSET Settings
  PROVE  LET r == Late(st, S) IN
         /\ StoreOK(r) /\ (Told(st) => Told(r))
         /\ r.cached = st.cached /\ r.pending = st.pending /\ r.device = st.device
         /\ r.late = st.late \cup S /\ r.failed = st.failed
<1> DEFINE r == Late(st, S)
<1>1. /\ r.cached = st.cached /\ r.pending = st.pending /\ r.device = st.device
      /\ r.unsent = st.unsent /\ r.late = st.late \cup S /\ r.failed = st.failed
      /\ DOMAIN r = {"cached", "device", "pending", "unsent", "late", "failed"}
  BY DEF StoreOK, Late
<1> HIDE DEF r
<1>2. StoreOK(r)
  BY <1>1 DEF StoreOK
<1>3. Told(st) => Told(r)
  BY <1>1 DEF Told, Has
<1> QED BY <1>1, <1>2, <1>3 DEF r

(* Failures noted of a recording change no setting.                        *)
LEMMA FailureEffect ==
  ASSUME NEW st, StoreOK(st), NEW S \in SUBSET {"record", "batch", "frame_rate"}
  PROVE  LET r == [st EXCEPT !.failed = @ \cup S] IN
         /\ StoreOK(r) /\ (Told(st) => Told(r))
         /\ r.cached = st.cached /\ r.pending = st.pending /\ r.device = st.device
         /\ r.late = st.late /\ r.failed = st.failed \cup S
<1> DEFINE r == [st EXCEPT !.failed = @ \cup S]
<1>1. /\ r.cached = st.cached /\ r.pending = st.pending /\ r.device = st.device
      /\ r.unsent = st.unsent /\ r.late = st.late
      /\ r.failed = st.failed \cup S
      /\ DOMAIN r = {"cached", "device", "pending", "unsent", "late", "failed"}
  BY DEF StoreOK
<1> HIDE DEF r
<1>2. StoreOK(r)
  BY <1>1 DEF StoreOK, Settings
<1>3. Told(st) => Told(r)
  BY <1>1 DEF Told, Has
<1> QED BY <1>1, <1>2, <1>3 DEF r

(* What a call that records leaves behind is enough.                       *)
LEMMA RecordKeeps ==
  ASSUME SettingsInv, NEW st, StoreIs(st), StoreOK(st), Told(st),
         m_flag_record_start' \in 0 .. 1,
         UNCHANGED <<mParameters, m_preview_size, m_flag_camera_start, streamed, refused>>,
         m_flag_camera_start # 0 => "batch" \in st.failed \/ st.pending \subseteq st.late,
         m_flag_camera_start # 0 /\ "frame_rate" \notin st.failed =>
           \/ st.device["frame_rate"] = st.cached["frame_rate"]
           \/ st.device["frame_rate"] = "auto" /\ m_flag_record_start' = 0,
         m_flag_camera_start = 0 =>
           /\ st.device["flash_mode"] = device["flash_mode"]
           /\ "flash_mode" \in st.failed <=> "flash_mode" \in failed,
         parted \subseteq parted', parted' \subseteq AllKeys,
         \A s \in Settings \ {"iso", "metering"} : st.cached[s] = cached[s],
         "iso" \notin parted' => st.cached["iso"] = cached["iso"],
         m_flag_record_start' = 0 /\ "record" \notin st.failed =>
           st.cached["iso"] # "movie" /\ st.cached["metering"] # "matrix"
  PROVE  SettingsInv'
<1>1. /\ cached' = st.cached /\ device' = st.device
      /\ pending' = st.pending /\ late' = st.late /\ failed' = st.failed
  BY DEF StoreIs
<1>2. StoreOK(Store)' /\ Told(Store)'
  BY StoreNext
<1>3. Reflected'
  BY <1>1 DEF Reflected
<1>4. TorchOff'
  BY <1>1 DEF TorchOff, SettingsInv
<1>5. StillsAfterRecording'
  BY <1>1 DEF StillsAfterRecording
<1>6. FrameRateTold'
  BY <1>1 DEF FrameRateTold
<1>7. ClientKnows'
  BY <1>1, KnowsKept DEF SettingsInv, Settings, AllKeys
<1> QED BY <1>2, <1>3, <1>4, <1>5, <1>6, <1>7 DEF SettingsInv
(* startRecord keeps the invariant: if it fails half way the movie's       *)
(* settings stay, and the recording is noted as failed.                    *)
LEMMA StartRecordKeeps ==
  ASSUME SettingsInv, NEW f, startRecord(f)
  PROVE  SettingsInv'
<1> DEFINE m == ForMovie(Store, f)
           n == FrameRate(m, cached.frame_rate)
           q == Late(n, {"frame_rate"})
<1>1. /\ m_flag_camera_start = 1 /\ m_flag_camera_start \in 0 .. 1
      /\ f = "frame_rate" => StoreIs([m EXCEPT !.failed = @ \cup {f, "record"}])
      /\ f = "record" => StoreIs([q EXCEPT !.failed = @ \cup {f}])
      /\ f \notin {"frame_rate", "record"} => StoreIs(q)
      /\ parted' = parted \cup {"iso"}
      /\ m_flag_record_start' = IF f \in {"frame_rate", "record"} THEN 0 ELSE 1
      /\ UNCHANGED <<mParameters, m_preview_size, m_flag_camera_start, streamed, refused>>
  BY DEF startRecord
<1>2. /\ StoreOK(m) /\ Told(m) /\ ("batch" \in m.failed \/ m.pending = {})
      /\ \A s \in Settings \ {"iso", "metering"} : m.cached[s] = cached[s]
  <2>1. StoreOK(Store) /\ Told(Store)
    BY DEF SettingsInv
  <2>2. Kept(Store, m, {"iso", "metering"}) /\ ("batch" \in m.failed \/ m.pending = {})
    BY <1>1, <2>1, MovieEffect DEF ForMovie
  <2> QED BY <2>1, <2>2, StoreFields DEF Kept
<1> HIDE DEF m
<1>3. /\ StoreOK(q) /\ Told(q) /\ q.cached = m.cached
      /\ "batch" \in q.failed \/ q.pending \subseteq q.late
      /\ q.device["frame_rate"] = q.cached["frame_rate"]
  <2>1. cached.frame_rate \in Stored["frame_rate"] /\ m.cached["frame_rate"] = cached.frame_rate
    BY <1>2, StoreFields DEF SettingsInv, StoreOK, Settings
  <2>2. /\ StoreOK(n) /\ Told(n) /\ n.cached = m.cached
        /\ n.pending = m.pending \cup {"frame_rate"} /\ n.failed = m.failed \ {"frame_rate"}
        /\ n.device["frame_rate"] = cached.frame_rate
    BY <1>2, <2>1, FrameRateEffect
  <2> HIDE DEF n
  <2>3. /\ StoreOK(q) /\ Told(q) /\ q.cached = n.cached /\ q.pending = n.pending
        /\ q.device = n.device /\ q.late = n.late \cup {"frame_rate"} /\ q.failed = n.failed
    BY <2>2, LateEffect DEF Settings
  <2> QED BY <1>2, <2>1, <2>2, <2>3
<1> HIDE DEF q
<1>4. PICK st : /\ StoreIs(st) /\ StoreOK(st) /\ Told(st) /\ st.cached = m.cached
                /\ "batch" \in st.failed \/ st.pending \subseteq st.late
                /\ \/ "frame_rate" \in st.failed
                   \/ st.device["frame_rate"] = st.cached["frame_rate"]
                /\ f \in {"frame_rate", "record"} => "record" \in st.failed
  <2>1. CASE f = "frame_rate"
    <3> DEFINE st == [m EXCEPT !.failed = @ \cup {f, "record"}]
    <3>1. /\ StoreOK(st) /\ Told(st) /\ st.pending = m.pending /\ st.cached = m.cached
          /\ st.failed = m.failed \cup {f, "record"}
      BY <1>2, <2>1, FailureEffect
    <3> QED BY <1>1, <1>2, <2>1, <3>1
  <2>2. CASE f = "record"
    <3> DEFINE st == [q EXCEPT !.failed = @ \cup {f}]
    <3>1. /\ StoreOK(st) /\ Told(st) /\ st.pending = q.pending /\ st.cached = q.cached
          /\ st.late = q.late /\ st.device = q.device /\ st.failed = q.failed \cup {f}
      BY <1>3, <2>2, FailureEffect
    <3> QED BY <1>1, <1>2, <1>3, <2>2, <3>1
  <2>3. CASE f \notin {"frame_rate", "record"}
    BY <1>1, <1>2, <1>3, <2>3
  <2> QED BY <2>1, <2>2, <2>3
<1>5. parted \subseteq parted' /\ parted' \subseteq AllKeys /\ "iso" \in parted'
  BY <1>1 DEF SettingsInv, AllKeys
<1> QED BY <1>1, <1>2, <1>4, <1>5, RecordKeeps

(* Leaving continuous focus sends the focus mode, back and forth.          *)
LEMMA CafEffect ==
  ASSUME NEW st, StoreOK(st), NEW f
  PROVE  /\ Kept(st, LeaveCaf(st, f), {"focus_mode"})
         /\ LeaveCaf(st, f).cached["focus_mode"] = st.cached["focus_mode"]
<1> DEFINE g == IF f = "macro" THEN "focus_mode" ELSE "none"
           one == [focus_mode |-> "macro"]
           two == [focus_mode |-> st.cached.focus_mode]
           a == Set(st, one, g)
           b == Set(a, two, f)
<1>1. /\ DOMAIN one = {"focus_mode"} /\ {"focus_mode"} \in SUBSET Settings
      /\ \A s \in {"focus_mode"} : one[s] \in Stored[s]
  BY StoredValues DEF Settings
<1>2. /\ DOMAIN two = {"focus_mode"}
      /\ \A s \in {"focus_mode"} : two[s] \in Stored[s]
  BY DEF Settings, StoreOK
<1>3. LeaveCaf(st, f) = b
  BY DEF LeaveCaf, setFocusMode
<1> HIDE DEF one, two, g
<1>4. Kept(st, a, {"focus_mode"})
  BY <1>1, SetEffect
<1> HIDE DEF a
<1>5. StoreOK(a)
  BY <1>4 DEF Kept
<1>7. two["focus_mode"] = st.cached["focus_mode"]
  BY DEF two
<1>6. Kept(a, b, {"focus_mode"}) /\ b.cached["focus_mode"] = two["focus_mode"]
  BY <1>2, <1>5, SetOne DEF Settings
<1> HIDE DEF b
<1> QED BY <1>3, <1>4, <1>6, <1>7, KeptKept

(* stopRecord keeps the invariant: it ends with the settings of stills,    *)
(* or has failed.                                                          *)
LEMMA StopRecordKeeps ==
  ASSUME SettingsInv, NEW f, stopRecord(f)
  PROVE  SettingsInv'
<1> DEFINE left == LeaveCaf(Store, f)
           q == FrameRate(left, "auto")
           s == ForStills(q, f)
           others == Settings \ {"iso", "metering"}
<1>1. /\ m_flag_camera_start \in 0 .. 1
      /\ f = "caf" => UNCHANGED storeVars
      /\ f = "streamoff" => StoreIs([left EXCEPT !.failed = @ \cup {"record", "batch"}])
      /\ f = "frame_rate" => StoreIs([left EXCEPT !.failed = @ \cup {"record", "batch", f}])
      /\ f \notin {"caf", "streamoff", "frame_rate"} => StoreIs([s EXCEPT !.failed = @ \ {"record"}])
      /\ parted' = IF f \in {"caf", "streamoff", "frame_rate"} THEN parted
                   ELSE parted \cup {"iso"}
      /\ m_flag_record_start' = IF f = "caf" THEN 1 ELSE 0
      /\ UNCHANGED <<mParameters, m_preview_size, m_flag_camera_start, streamed, refused>>
  BY DEF stopRecord, SettingsInv
<1>8. parted \subseteq parted' /\ parted' \subseteq AllKeys
  BY <1>1 DEF SettingsInv, AllKeys
<1>2. /\ StoreOK(left) /\ Told(left)
      /\ \A x \in Settings : left.cached[x] = cached[x]
      /\ left.device["frame_rate"] = device["frame_rate"]
      /\ "frame_rate" \in left.failed <=> "frame_rate" \in failed
      /\ m_flag_camera_start = 0 =>
           /\ left.device["flash_mode"] = device["flash_mode"]
           /\ "flash_mode" \in left.failed <=> "flash_mode" \in failed
  <2>1. StoreOK(Store) /\ Told(Store)
    BY DEF SettingsInv
  <2>2. Kept(Store, left, {"focus_mode"}) /\ left.cached["focus_mode"] = cached["focus_mode"]
    BY <2>1, CafEffect, StoreFields
  <2> QED BY <2>1, <2>2, StoreFields DEF Kept, Settings
<1> HIDE DEF left
<1>3. /\ StoreOK(q) /\ Told(q) /\ q.failed = left.failed \ {"frame_rate"}
      /\ q.cached = left.cached /\ q.device["frame_rate"] = "auto"
      /\ q.device["flash_mode"] = left.device["flash_mode"]
  BY <1>2, FrameRateEffect, StoredValues
<1> HIDE DEF q
<1>4. /\ StoreOK(s) /\ Told(s)
      /\ s.cached["iso"] = "auto" /\ s.cached["metering"] = "center"
      /\ \A x \in others : s.cached[x] = cached[x]
      /\ s.device["frame_rate"] = "auto"
      /\ m_flag_camera_start # 0 => "batch" \in s.failed \/ s.pending = {}
      /\ m_flag_camera_start = 0 =>
           /\ s.device["flash_mode"] = q.device["flash_mode"]
           /\ "flash_mode" \in s.failed <=> "flash_mode" \in q.failed
  <2>1. /\ Kept(q, s, {"iso", "metering"})
        /\ s.cached["iso"] = "auto" /\ s.cached["metering"] = "center"
        /\ m_flag_camera_start # 0 => "batch" \in s.failed \/ s.pending = {}
    BY <1>1, <1>3, MovieEffect DEF ForStills
  <2> QED BY <1>2, <1>3, <2>1 DEF Kept, Settings
<1> HIDE DEF s
<1>5. CASE f = "caf"
  <2>1. /\ UNCHANGED <<cached, device, pending, unsent, late, failed>> /\ m_flag_record_start' = 1
        /\ parted' = parted
    BY <1>1, <1>5 DEF storeVars
  <2>2. m_flag_record_start = 1
    BY DEF stopRecord
  <2>3. StoreOK(Store)' /\ Told(Store)'
    BY <1>1, <2>1 DEF SettingsInv, StoreOK, Store, Told, Has
  <2>4. ClientKnows'
    BY <1>1, <2>1, KnowsKept DEF SettingsInv
  <2> QED BY <1>1, <2>1, <2>2, <2>3, <2>4
          DEF SettingsInv, Reflected, TorchOff, StillsAfterRecording, FrameRateTold
<1>6. CASE f \in {"streamoff", "frame_rate"}
  <2>1. PICK S \in SUBSET {"record", "batch", "frame_rate"} :
          /\ {"record", "batch"} \subseteq S
          /\ StoreIs([left EXCEPT !.failed = @ \cup S])
    BY <1>1, <1>6
  <2> DEFINE st == [left EXCEPT !.failed = @ \cup S]
  <2>2. /\ StoreOK(st) /\ Told(st) /\ st.device = left.device /\ st.cached = left.cached
        /\ st.failed = left.failed \cup S
    BY <1>2, FailureEffect
  <2>3. StoreIs(st) /\ "batch" \in st.failed /\ "record" \in st.failed
    BY <2>1, <2>2
  <2> HIDE DEF st
  <2>4. m_flag_camera_start # 0 /\ "frame_rate" \notin st.failed =>
          \/ st.device["frame_rate"] = st.cached["frame_rate"]
          \/ st.device["frame_rate"] = "auto" /\ m_flag_record_start' = 0
    BY <1>1, <1>2, <1>6, <2>2 DEF SettingsInv, FrameRateTold, Settings
  <2>5. /\ m_flag_record_start' = 0 /\ st.cached["iso"] = cached["iso"]
        /\ \A x \in Settings : st.cached[x] = cached[x]
        /\ m_flag_camera_start = 0 =>
             /\ st.device["flash_mode"] = device["flash_mode"]
             /\ "flash_mode" \in st.failed <=> "flash_mode" \in failed
    BY <1>1, <1>2, <1>6, <2>2 DEF Settings
  <2> QED BY <1>1, <1>8, <2>2, <2>3, <2>4, <2>5, RecordKeeps
<1>7. CASE f \notin {"caf", "streamoff", "frame_rate"}
  <2> DEFINE st == [s EXCEPT !.failed = @ \ {"record"}]
  <2>1. /\ st.cached = s.cached /\ st.device = s.device /\ st.pending = s.pending
        /\ st.unsent = s.unsent /\ st.late = s.late
        /\ st.failed = s.failed \ {"record"}
        /\ DOMAIN st = {"cached", "device", "pending", "unsent", "late", "failed"}
    BY <1>4 DEF StoreOK
  <2>2. StoreIs(st)
    BY <1>1, <1>7
  <2> HIDE DEF st
  <2>3. StoreOK(st) /\ Told(st)
    BY <1>4, <2>1 DEF StoreOK, Told, Has, Settings
  <2>4. /\ m_flag_record_start' = 0 /\ "iso" \in parted'
        /\ st.device["frame_rate"] = "auto"
        /\ \A x \in Settings \ {"iso", "metering"} : st.cached[x] = cached[x]
        /\ m_flag_camera_start # 0 => "batch" \in st.failed \/ st.pending \subseteq st.late
        /\ m_flag_camera_start = 0 =>
             /\ st.device["flash_mode"] = device["flash_mode"]
             /\ "flash_mode" \in st.failed <=> "flash_mode" \in failed
        /\ st.cached["iso"] # "movie" /\ st.cached["metering"] # "matrix"
    BY <1>1, <1>2, <1>3, <1>4, <1>7, <2>1
  <2> QED BY <1>1, <1>8, <2>2, <2>3, <2>4, RecordKeeps
<1> QED BY <1>5, <1>6, <1>7

(* The invariant holds of the default settings.                            *)
LEMMA SettingsInit == Init => SettingsInv
<1> SUFFICES ASSUME Init PROVE SettingsInv
  OBVIOUS
<1>1. ParametersOK(mParameters)
  BY DEF Init, ParametersOK, DefaultParameters, AllKeys, Choices
<1>2. StoreOK(Store)
  <2>1. /\ DOMAIN cached = Settings /\ DOMAIN device = Settings
        /\ \A s \in Settings : cached[s] \in Stored[s] /\ device[s] = "unset"
    BY StoredValues DEF Init, DefaultSettings, Settings, Choices
  <2> QED BY <2>1, StoreFields DEF Init, Store, StoreOK, Settings
<1>3. Told(Store)
  BY StoreFields DEF Init, Told, Has
<1>4. ClientKnows
  BY DEF Init, ClientKnows, DefaultParameters, DefaultSettings, AllKeys
<1> QED BY <1>1, <1>2, <1>3, <1>4 DEF Init, SettingsInv, DefaultParameters, DefaultSettings, Choices,
       FrameRateTold, Reflected, TorchOff, StillsAfterRecording, Settings

(* In every behaviour, whatever parameters are changed and however many    *)
(* requests fail.                                                          *)
THEOREM SettingsKept == Spec => []SettingsInv
<1>1. SettingsInv /\ [Next]_vars => SettingsInv'
  <2> SUFFICES ASSUME SettingsInv, [Next]_vars PROVE SettingsInv'
    OBVIOUS
  <2>1. CASE UNCHANGED vars
    <3>1. UNCHANGED <<cached, device, pending, unsent, late, failed, mParameters, m_preview_size,
                      m_flag_camera_start, m_flag_record_start, streamed, refused, parted>>
      BY <2>1 DEF vars, storeVars
    <3>2. ClientKnows'
      BY <3>1, KnowsKept DEF SettingsInv
    <3>3. StoreOK(Store)' /\ Told(Store)'
      BY <3>1 DEF SettingsInv, StoreOK, Store, Told, Has
    <3> QED BY <3>1, <3>2, <3>3 DEF SettingsInv, ParametersOK,
       FrameRateTold, Reflected, TorchOff, StillsAfterRecording
  <2>2. CASE SetParameters
    BY <2>2, SetParametersKeeps DEF SetParameters
  <2>3. CASE StartPreview
    BY <2>3, StartPreviewKeeps DEF StartPreview
  <2>4. CASE StopPreview
    BY <2>4, StopPreviewKeeps DEF StopPreview
  <2>5. CASE StartRecord
    BY <2>5, StartRecordKeeps DEF StartRecord
  <2>6. CASE StopRecord
    BY <2>6, StopRecordKeeps DEF StopRecord
  <2> QED BY <2>1, <2>2, <2>3, <2>4, <2>5, <2>6 DEF Next
<1> QED BY <1>1, SettingsInit, PTL DEF Spec

(* A running preview has the stored settings and the client is told what   *)
(* is stored, but for what SettingsAgree excepts by name: what failed, what *)
(* no start sends, and what was changed behind the client or the store.    *)
THEOREM SettingsAlwaysAgree == Spec => []SettingsAgree
<1>1. SettingsInv => SettingsAgree
  BY ToldMeansHas DEF SettingsInv, SettingsAgree
<1> QED BY <1>1, SettingsKept, PTL

(* No call leaves an update of a running preview that is not reflected in  *)
(* the batch, unless the reflection failed, but for the flash and the      *)
(* frame rate that go out after it.                                        *)
THEOREM AlwaysReflected == Spec => []Reflected
BY SettingsKept, PTL DEF SettingsInv

(* The torch burns only while the preview runs, unless it could not be     *)
(* put out.                                                                *)
THEOREM TorchAlwaysOff == Spec => []TorchOff
BY SettingsKept, PTL DEF SettingsInv

(* The ISO and the metering of a movie do not outlive the recording,       *)
(* unless its start or its end failed.                                     *)
THEOREM StillsAlwaysAfterRecording == Spec => []StillsAfterRecording
BY SettingsKept, PTL DEF SettingsInv

Counting == failures \in 0 .. MaxFailures

(* The variables have their types; no more requests fail than the bound.   *)
THEOREM SettingsTyped == Spec => []TypeOK
<1>1. Init => Counting
  BY SettingsAssumption DEF Init, Counting
<1>2. Counting /\ [Next]_vars => Counting'
  <2> SUFFICES ASSUME failures \in 0 .. MaxFailures, [Next]_vars
               PROVE  failures' \in 0 .. MaxFailures
    BY DEF Counting
  <2>1. CASE UNCHANGED vars
    BY <2>1 DEF vars
  <2>2. CASE Next
    <3>1. PICK f \in Failures : Counted(f)
      BY <2>2 DEF Next, SetParameters, StartPreview, StopPreview, StartRecord, StopRecord
    <3> QED BY <3>1, SettingsAssumption DEF Failures, Counted
  <2> QED BY <2>1, <2>2
<1>3. SettingsInv /\ Counting => TypeOK
  BY StoreFields DEF Counting, SettingsInv, StoreOK, ParametersOK, TypeOK
<1> QED BY <1>1, <1>2, <1>3, SettingsKept, PTL DEF Spec
=============================================================================
