---------------------------- MODULE CameraHalProofs ----------------------------
(***************************************************************************)
(* The safety properties of CameraHal for every set of windows and of      *)
(* buffers, every set of calls, an orderly client or not, and over any     *)
(* number of sessions of the camera.                                       *)
(*                                                                         *)
(* Parts of an invariant, each proved from those before it: the focus      *)
(* thread, the way of release, the recorded frames; then the stop          *)
(* handshake, the heap and the window, if startPreview does not fail       *)
(* half-way; then the picture, if stops do not fail either.                *)
(***************************************************************************)
EXTENDS CameraHal, TLAPS

(* The groups of variables, which stand for nothing but their members.     *)
USE DEF clientVars, lockVars, previewVars, halVars, recordVars, sharedVars,
        streamVars, heldVars, threadVars, pictureVars, focusVars, workerVars, vars

(* The focus thread.  The device focuses only while the thread waits for a *)
(* result; a thread that is to exit does not sleep.                        *)
FocusInv ==
  /\ focusing \in BOOLEAN /\ mExitAutoFocusThread \in BOOLEAN
  /\ focusing => focus = "result"
  /\ mExitAutoFocusThread => focus # "asleep"
  /\ client = "joinFocus" => mExitAutoFocusThread

(* The way of release: from JoinPreview on the preview thread is gone.     *)
ReleasePlaces == {"signal", "joinPreview", "signalFocus", "joinFocus"}

LeavePlaces == {"signalFocus", "joinFocus", "deinit", "released", "closed"}

LeaveInv ==
  /\ client \in ReleasePlaces => call = "release"
  /\ client = "join" => call \in {"cancelPicture", "release"}
  /\ client \in LeavePlaces => preview = "gone"
  /\ client = "join" /\ call = "release" => preview = "gone"

(* Recorded frames.  The flag may be set while the file does not stream,   *)
(* but then there is no frame that could be queued.                        *)
RecordInv ==
  /\ recording \in BOOLEAN /\ m_flag_record_start \in {0, 1}
  /\ buffer \in [Buffers -> {"off", "queued", "taken", "client", "lost"}]
  /\ Recording => mRecordLock = "preview" /\ mRecordRunning
  /\ preview \in {"recorded", "send"} => frame \in Buffers /\ buffer[frame] = "taken"
  /\ \A b \in Buffers : buffer[b] = "queued" => recording
  /\ m_flag_record_start # 0 /\ ~recording =>
       \A b \in Buffers : buffer[b] \notin {"taken", "client"}

IInv == FocusInv /\ LeaveInv /\ RecordInv

(* The stop handshake, when startPreview does not fail half-way and the    *)
(* reset does not start the preview: a frame on its way, or a device that  *)
(* streams for a thread that is awake, has a preview that runs and has not *)
(* been put off or is being started, or a call that waits for the thread,  *)
(* or a thread that is to exit.                                            *)
PastFrame == {"skip", "window", "dequeue", "copy", "enqueue", "callback",
              "recordLock", "getRecordFrame", "recorded", "send"}

Streaming == device = "preview" /\ m_flag_camera_start > 0

(* startPreviewInternal, from the stream to the new heap.                  *)
Starting == {"streaming", "heap", "noHeap"}

Watched == \/ mPreviewRunning /\ (mPreviewStartDeferred => client \in Starting)
           \/ client \in {"stopWait", "dead"}
           \/ mExitPreviewThread

StopInv ==
  /\ m_flag_camera_start \in {0, 1}
  /\ preview # "restart"
  /\ client = "dead" <=> preview \in {"nullWindow", "nullHeap"}
  /\ mExitPreviewThread =>
       /\ mPreviewRunning
       /\ client \in ReleasePlaces \cup LeavePlaces \cup {"join", "dead"}
       /\ client = "join" => call = "release"
  /\ client \in ReleasePlaces => mExitPreviewThread
  /\ client \in {"deinit", "released", "closed"} => picture = "off"
  /\ client \in {"released", "closed"} => device = "idle"
  /\ client \in Starting => mPreviewRunning
  /\ preview \in PastFrame => Watched
  /\ Streaming => Watched \/ preview \in {"park", "asleep"}
  /\ client = "starting" =>
       /\ mPreviewRunning
       /\ preview \notin PastFrame
       /\ Streaming => preview \in {"park", "asleep"}

(* The heap.  A device that streams has one, but while it is replaced; a   *)
(* thread that is past its test then went past it while the preview was    *)
(* put off, for mPreviewLock is the client's.                              *)
PastTest == {"exit", "getPreview", "reset"} \cup PastFrame

HeapInv ==
  /\ client \in {"locked", "stopped", "starting"} \cup Starting => mPreviewLock = "client"
  /\ preview \in {"test", "park"} => mPreviewLock = "preview"
  /\ Streaming => mPreviewHeap = "mapped" \/ client \in Starting \cup {"dead"}
  /\ preview \in PastTest => Watched \/ early
  /\ client \in Starting \cup {"starting"} /\ preview \in PastTest => early
  /\ preview \in PastFrame => mPreviewHeap = "mapped" \/ early
  /\ preview = "nullHeap" => early

(* The window.  A buffer is held for as long as it is copied to, and       *)
(* setPreviewWindow has stopped the preview when it goes on.               *)
WindowInv ==
  /\ dequeued # None => preview \in {"copy", "enqueue", "nullHeap"}
  /\ preview = "copy" \/ preview = "enqueue" => dequeued # None
  /\ call = "setPreviewWindow" =>
       client \in {"lock", "locked", "stopWait", "stopWoken", "stopped", "starting", "dead"}
                  \cup Starting
  /\ client \in {"stopWait", "stopWoken", "stopped"} => ~mPreviewRunning
  /\ dequeued # None /\ (call # "setPreviewWindow" \/ client \in Starting)
       => mPreviewWindow = dequeued \/ mPreviewWindow = None

(* The picture, when the preview's stops do not fail either.  mPreviewLock *)
(* keeps a start of the preview away from the end of a stop.               *)
Capturing == picture \in {"born", "snapshot", "getJpeg"}

CaptureInv ==
  /\ device = "preview" => m_flag_camera_start = 1
  /\ Streaming => Watched /\ preview # "park"
  /\ call = "takePicture"
       /\ client \in {"stopWait", "stopWoken", "stopped", "waitCapture", "run"}
       => ~mPreviewRunning
  /\ call = "takePicture" /\ client \in {"stopWoken", "stopped", "waitCapture", "run"}
       => device # "preview"
  /\ client = "waitCapture" => call \in {"startPreview", "takePicture"}
  /\ client = "run" => call = "takePicture"
  /\ Capturing => /\ device # "preview"
                  /\ mPreviewRunning => mExitPreviewThread
                  /\ mCaptureInProgress \/ client \in {"started", "dead"}
  /\ call = "startPreview" /\ client \in {"lock", "locked"} => ~Capturing

-----------------------------------------------------------------------------
(* What a step leaves to each of the three parts when it is not about it.  *)

FocusStill ==
  /\ UNCHANGED <<focus, focusing, mExitAutoFocusThread>>
  /\ client' = client \/ client' # "joinFocus"

LeaveStill ==
  /\ preview = "gone" => preview' = "gone"
  /\ \/ UNCHANGED <<client, call>>
     \/ client' \notin ReleasePlaces \cup LeavePlaces \cup {"join"}

RecordStill ==
  /\ UNCHANGED <<mRecordRunning, m_flag_record_start, recording, buffer, mRecordLock,
                 frame>>
  /\ preview' = preview \/ preview' \notin {"getRecordFrame", "recorded", "send"}

(* FocusInv survives a step that leaves the focus thread alone.            *)
LEMMA FocusKept == ASSUME FocusInv, FocusStill PROVE FocusInv'
  BY DEF FocusInv, FocusStill

(* LeaveInv survives a step that is not on the way of release.             *)
LEMMA LeaveKept == ASSUME LeaveInv, LeaveStill PROVE LeaveInv'
  BY DEF LeaveInv, LeaveStill, ReleasePlaces, LeavePlaces

(* RecordInv survives a step that leaves the recording alone.              *)
LEMMA RecordKept == ASSUME RecordInv, RecordStill PROVE RecordInv'
  BY DEF RecordInv, RecordStill, Recording

(* The calls and steps of the client that are about none of focus, release *)
(* and recording.                                                          *)
LEMMA ClientKeeps ==
  ASSUME \/ \E w \in Windows \cup {None} : setPreviewWindow(w)
         \/ CallsPreview \/ enableMsgType \/ disableMsgType
         \/ CallsRecording \/ ClientLocks \/ stopPreviewInternal
         \/ Stopped \/ Configure \/ startPreview
         \/ startPreviewInternal \/ setSkipFrame \/ ReleaseHeap
         \/ RequestHeap \/ waitCaptureCompletion
         \/ RunPicture \/ takePicture
  PROVE  FocusStill /\ LeaveStill /\ RecordStill
<1> USE DEF ReleasePlaces, LeavePlaces, FocusStill, LeaveStill, RecordStill
<1>1. CASE \E w \in Windows \cup {None} : setPreviewWindow(w)
  BY <1>1 DEF setPreviewWindow, Calling
<1>2. CASE CallsPreview
  BY <1>2 DEF CallsPreview, Calling
<1>3. CASE enableMsgType
  BY <1>3 DEF enableMsgType
<1>4. CASE disableMsgType
  BY <1>4 DEF disableMsgType
<1>5. CASE CallsRecording
  BY <1>5 DEF CallsRecording, Calling
<1>6. CASE ClientLocks
  BY <1>6 DEF ClientLocks
<1>7. CASE stopPreviewInternal
  BY <1>7 DEF stopPreviewInternal, SignalPreview
<1>8. CASE Stopped
  BY <1>8 DEF Stopped, Return
<1>9. CASE Configure
  BY <1>9 DEF Configure, Return
<1>10. CASE startPreview
  BY <1>10 DEF startPreview, Return
<1>11. CASE startPreviewInternal
  BY <1>11 DEF startPreviewInternal, Return
<1>12. CASE setSkipFrame
  BY <1>12 DEF setSkipFrame
<1>13. CASE ReleaseHeap
  BY <1>13 DEF ReleaseHeap
<1>14. CASE RequestHeap
  BY <1>14 DEF RequestHeap, Return, SignalPreview
<1>15. CASE waitCaptureCompletion
  BY <1>15 DEF waitCaptureCompletion, Return
<1>16. CASE RunPicture
  BY <1>16 DEF RunPicture, Return
<1>17. CASE takePicture
  BY <1>17 DEF takePicture, Return
<1> QED
  BY <1>1, <1>2, <1>3, <1>4, <1>5, <1>6, <1>7, <1>8, <1>9, <1>10, <1>11,
     <1>12, <1>13, <1>14, <1>15, <1>16, <1>17

(* The preview thread outside the recorded frames is about none of them.   *)
LEMMA PreviewKeeps ==
  ASSUME \/ PreviewBegins \/ PreviewLocks \/ PreviewTests
         \/ PreviewWaits \/ PreviewExits \/ getPreview \/ Reset
         \/ Restart \/ SkipFrame \/ TestWindow \/ DequeueBuffer
         \/ CopyFrame \/ EnqueueBuffer
         \/ PreviewFrame
  PROVE  FocusStill /\ LeaveStill /\ RecordStill
<1> USE DEF ReleasePlaces, LeavePlaces, FocusStill, LeaveStill, RecordStill
<1>1. CASE PreviewBegins
  BY <1>1 DEF PreviewBegins, Goes
<1>2. CASE PreviewLocks
  BY <1>2 DEF PreviewLocks, Goes
<1>3. CASE PreviewTests
  BY <1>3 DEF PreviewTests, Goes
<1>4. CASE PreviewWaits
  BY <1>4 DEF PreviewWaits, Goes, SignalStopped
<1>5. CASE PreviewExits
  BY <1>5 DEF PreviewExits, Goes
<1>6. CASE getPreview
  BY <1>6 DEF getPreview, Goes
<1>7. CASE Reset
  BY <1>7 DEF Reset, Goes
<1>8. CASE Restart
  BY <1>8 DEF Restart
<1>9. CASE SkipFrame
  BY <1>9 DEF SkipFrame, Goes
<1>10. CASE DequeueBuffer
  BY <1>10 DEF DequeueBuffer, Dies, Goes
<1>11. CASE EnqueueBuffer
  BY <1>11 DEF EnqueueBuffer, Dies, Goes
<1>12. CASE PreviewFrame
  BY <1>12 DEF PreviewFrame, Dies, Goes
<1>13. CASE TestWindow
  BY <1>13 DEF TestWindow, Goes
<1>14. CASE CopyFrame
  BY <1>14 DEF CopyFrame, Dies, Goes
<1> QED
  BY <1>1, <1>2, <1>3, <1>4, <1>5, <1>6, <1>7, <1>8, <1>9, <1>10, <1>11,
     <1>12, <1>13, <1>14

(* Nor is the picture thread.                                              *)
LEMMA PictureKeeps ==
  ASSUME \/ PictureBegins \/ setSnapshotCmd \/ getJpeg
         \/ pictureThread \/ PictureEnds
  PROVE  FocusStill /\ LeaveStill /\ RecordStill
<1> USE DEF ReleasePlaces, LeavePlaces, FocusStill, LeaveStill, RecordStill
<1>1. CASE PictureBegins
  BY <1>1 DEF PictureBegins
<1>2. CASE setSnapshotCmd
  BY <1>2 DEF setSnapshotCmd
<1>3. CASE getJpeg
  BY <1>3 DEF getJpeg
<1>4. CASE pictureThread
  BY <1>4 DEF pictureThread
<1>5. CASE PictureEnds
  BY <1>5 DEF PictureEnds
<1> QED
  BY <1>1, <1>2, <1>3, <1>4, <1>5

(* The way of release does not touch the recording before DeinitCamera, nor*)
(* the focus thread but for SignalFocusExit.                               *)
LEMMA ReleaseKeeps ==
  ASSUME \/ cancelPicture \/ release \/ JoinPicture \/ SignalExit
         \/ JoinPreview \/ JoinFocus \/ Close
  PROVE  FocusStill /\ RecordStill
<1> USE DEF ReleasePlaces, LeavePlaces, FocusStill, LeaveStill, RecordStill
<1>1. CASE cancelPicture
  BY <1>1 DEF cancelPicture, Calling
<1>2. CASE release
  BY <1>2 DEF release, Calling
<1>3. CASE JoinPicture
  BY <1>3 DEF JoinPicture, Return
<1>4. CASE SignalExit
  BY <1>4 DEF SignalExit, SignalPreview
<1>5. CASE JoinPreview
  BY <1>5 DEF JoinPreview
<1>6. CASE JoinFocus
  BY <1>6 DEF JoinFocus
<1>7. CASE Close
  BY <1>7 DEF Close
<1> QED
  BY <1>1, <1>2, <1>3, <1>4, <1>5, <1>6, <1>7

(* The steps of the recording leave the focus thread and release alone.    *)
LEMMA RecordingKeeps ==
  ASSUME \/ \E b \in Buffers : releaseRecordingFrame(b)
         \/ startRecording \/ stopRecording \/ LockRecord
         \/ getRecordFrame \/ RecordFrame \/ SendFrame
  PROVE  FocusStill /\ LeaveStill
<1> USE DEF ReleasePlaces, LeavePlaces, FocusStill, LeaveStill, RecordStill
<1>1. CASE \E b \in Buffers : releaseRecordingFrame(b)
  BY <1>1 DEF releaseRecordingFrame
<1>2. CASE startRecording
  BY <1>2 DEF startRecording, Return
<1>3. CASE stopRecording
  BY <1>3 DEF stopRecording, Return
<1>4. CASE LockRecord
  BY <1>4 DEF LockRecord, Goes
<1>5. CASE getRecordFrame
  BY <1>5 DEF getRecordFrame, Goes
<1>6. CASE RecordFrame
  BY <1>6 DEF RecordFrame
<1>7. CASE SendFrame
  BY <1>7 DEF SendFrame, Goes
<1> QED
  BY <1>1, <1>2, <1>3, <1>4, <1>5, <1>6, <1>7

(* The focus thread, and the calls that tell it to focus, leave release and*)
(* the recording alone.                                                    *)
LEMMA FocusKeeps ==
  ASSUME \/ autoFocus \/ cancelAutoFocus \/ FocusWaits \/ setAutofocus
         \/ getAutoFocusResult
  PROVE  LeaveStill /\ RecordStill
<1> USE DEF ReleasePlaces, LeavePlaces, FocusStill, LeaveStill, RecordStill
<1>1. CASE autoFocus
  BY <1>1 DEF autoFocus, SignalFocus
<1>2. CASE cancelAutoFocus
  BY <1>2 DEF cancelAutoFocus
<1>3. CASE FocusWaits
  BY <1>3 DEF FocusWaits
<1>4. CASE setAutofocus
  BY <1>4 DEF setAutofocus
<1>5. CASE getAutoFocusResult
  BY <1>5 DEF getAutoFocusResult
<1> QED
  BY <1>1, <1>2, <1>3, <1>4, <1>5

-----------------------------------------------------------------------------
(* The focus thread ends what it began before it sleeps, and does not sleep*)
(* once it is told to exit.                                                *)
LEMMA FocusSteps ==
  ASSUME FocusInv,
         \/ autoFocus \/ cancelAutoFocus \/ FocusWaits \/ setAutofocus
         \/ getAutoFocusResult \/ SignalFocusExit
  PROVE  FocusInv'
<1> USE DEF FocusInv, Again, ToExit, Finished
<1>1. CASE autoFocus
  BY <1>1 DEF autoFocus, SignalFocus
<1>2. CASE cancelAutoFocus
  BY <1>2 DEF cancelAutoFocus
<1>3. CASE FocusWaits
  BY <1>3 DEF FocusWaits
<1>4. CASE setAutofocus
  <2>1. /\ ~focusing
        /\ UNCHANGED mExitAutoFocusThread /\ UNCHANGED client
    BY <1>4 DEF setAutofocus
  <2>2. CASE focus' = "result" /\ focusing' = TRUE
    BY <2>1, <2>2, Zenon
  <2>3. CASE focus' \in {"gone", "enter"} /\ UNCHANGED focusing
    BY <2>1, <2>3
  <2> QED
    BY <1>4, <2>2, <2>3 DEF setAutofocus
<1>5. CASE getAutoFocusResult
  BY <1>5 DEF getAutoFocusResult
<1>6. CASE SignalFocusExit
  BY <1>6 DEF SignalFocusExit, SignalFocus
<1> QED
  BY <1>1, <1>2, <1>3, <1>4, <1>5, <1>6

(* release goes on only when the preview thread is gone, and it stays so.  *)
LEMMA LeaveSteps ==
  ASSUME LeaveInv,
         \/ cancelPicture \/ release \/ JoinPicture \/ SignalExit
         \/ JoinPreview \/ SignalFocusExit \/ JoinFocus \/ DeinitCamera
         \/ Close
  PROVE  LeaveInv'
<1> USE DEF LeaveInv, ReleasePlaces, LeavePlaces
<1>1. CASE cancelPicture
  BY <1>1 DEF cancelPicture, Calling
<1>2. CASE release
  BY <1>2 DEF release, Calling
<1>3. CASE JoinPicture
  BY <1>3 DEF JoinPicture, Return
<1>4. CASE SignalExit
  BY <1>4 DEF SignalExit, SignalPreview
<1>5. CASE JoinPreview
  BY <1>5 DEF JoinPreview
<1>6. CASE SignalFocusExit
  BY <1>6 DEF SignalFocusExit, SignalFocus
<1>7. CASE JoinFocus
  BY <1>7 DEF JoinFocus
<1>8. CASE DeinitCamera
  BY <1>8 DEF DeinitCamera
<1>9. CASE Close
  BY <1>9 DEF Close
<1> QED
  BY <1>1, <1>2, <1>3, <1>4, <1>5, <1>6, <1>7, <1>8, <1>9

-----------------------------------------------------------------------------
(* Starting or stopping the stream of recorded frames leaves no buffer     *)
(* queued to a stream that has ended, and no frame that could be.          *)
LEMMA RecordsKeepsFrames ==
  ASSUME RecordInv, NEW r, Records(r), r.on \in BOOLEAN, r.flag \in {0, 1},
         r.flag # 0 => r.on \/ (~recording /\ m_flag_record_start # 0)
         PROVE /\ recording' \in BOOLEAN /\ m_flag_record_start' \in {0, 1}
               /\ buffer' \in [Buffers -> {"off", "queued", "taken", "client", "lost"}]
               /\ \A b \in Buffers : buffer'[b] = "queued" => recording'
               /\ m_flag_record_start' # 0 /\ ~recording' =>
                    \A b \in Buffers : buffer'[b] \notin {"taken", "client"}
  BY DEF Records, RecordInv

(* startRecord and stopRecord of SecCamera set the flag only with a stream *)
(* that runs, or leave both as they were, whatever ioctl fails.            *)
LEMMA RecordOutcomes ==
  ASSUME RecordInv
  PROVE  \A r \in StartsRecord \cup StopsRecord :
           /\ r.on \in BOOLEAN /\ r.flag \in {0, 1} /\ r.ok \in BOOLEAN
           /\ r.flag # 0 => r.on \/ (~recording /\ m_flag_record_start # 0)
<1> DEFINE Outcomes == [ok : BOOLEAN, flag : {0, 1}, on : BOOLEAN]
<1>1. StartsRecord \cup StopsRecord \subseteq Outcomes
  <2>1. \A a, c \in BOOLEAN, f \in {0, 1} : [ok |-> a, flag |-> f, on |-> c] \in Outcomes
    OBVIOUS
  <2>2. recording \in BOOLEAN /\ m_flag_record_start \in {0, 1}
    BY DEF RecordInv
  <2> HIDE DEF Outcomes
  <2>3. StartsRecord \subseteq Outcomes
    BY <2>1, <2>2, Zenon DEF StartsRecord
  <2>4. StopsRecord \subseteq Outcomes
    BY <2>1, <2>2, Zenon DEF StopsRecord
  <2> QED
    BY <2>3, <2>4
<1>2. ASSUME NEW r \in StartsRecord \cup StopsRecord, r.flag # 0, r.on = FALSE
      PROVE  recording = FALSE /\ m_flag_record_start # 0
  BY <1>2 DEF StartsRecord, StopsRecord, RecordInv
<1> QED
  BY <1>1, <1>2

(* startRecording and stopRecording wait for mRecordLock, which the        *)
(* preview thread holds from LockRecord to the end of the frame.           *)
LEMMA RecordingSteps ==
  ASSUME RecordInv, startRecording \/ stopRecording
  PROVE  RecordInv'
<1>1. ~Recording /\ ~Recording'
      /\ UNCHANGED <<preview, frame, mRecordLock>>
  BY DEF RecordInv, Recording, startRecording, stopRecording, RecordLockFree, NoOne
<1>2. CASE UNCHANGED recordVars
  BY <1>1, <1>2 DEF RecordInv, Recording, recordVars
<1>3. CASE \E r \in StartsRecord \cup StopsRecord : Records(r)
  BY <1>1, <1>3, RecordOutcomes, RecordsKeepsFrames DEF RecordInv, Recording
<1> QED
  BY <1>2, <1>3 DEF startRecording, stopRecording

(* A frame is in the hands of the preview thread from getRecordFrame to    *)
(* SendFrame, then in those of the client; only frames of a file that      *)
(* streams get there.                                                      *)
LEMMA FrameSteps ==
  ASSUME RecordInv,
         \/ \E b \in Buffers : releaseRecordingFrame(b)
         \/ LockRecord \/ getRecordFrame \/ RecordFrame \/ SendFrame
  PROVE  RecordInv'
<1> USE DEF RecordInv, Recording
<1>1. ASSUME NEW b \in Buffers, releaseRecordingFrame(b) PROVE RecordInv'
  BY <1>1 DEF releaseRecordingFrame, Requeued
<1>2. CASE LockRecord
  BY <1>2 DEF LockRecord, Goes
<1>3. CASE getRecordFrame
  BY <1>3 DEF getRecordFrame, Goes
<1>4. CASE RecordFrame
  BY <1>4 DEF RecordFrame, Requeued
<1>5. CASE SendFrame
  BY <1>5 DEF SendFrame, Goes
<1> QED
  BY <1>1, <1>2, <1>3, <1>4, <1>5

(* The files are closed when the preview thread is gone, and a new         *)
(* interface has a new one.                                                *)
LEMMA SessionSteps ==
  ASSUME IInv, DeinitCamera \/ Open
  PROVE  IInv'
<1> USE DEF IInv
<1>1. CASE DeinitCamera
  <2>1. RecordInv'
    <3>1. preview' = "gone"
      BY <1>1 DEF DeinitCamera, LeaveInv, LeavePlaces
    <3>2. m_flag_record_start' \in {0, 1}
      BY <1>1, RecordOutcomes DEF DeinitCamera
    <3> QED
      BY <1>1, <3>1, <3>2 DEF DeinitCamera, RecordInv, Recording
  <2>2. FocusInv'
    BY <1>1 DEF DeinitCamera, FocusInv
  <2>3. LeaveInv'
    BY <1>1, LeaveSteps
  <2> QED
    BY <2>1, <2>2, <2>3
<1>2. CASE Open
  BY <1>2 DEF Open, NewInterface, FocusInv, LeaveInv, RecordInv, Recording,
              ReleasePlaces, LeavePlaces
<1> QED
  BY <1>1, <1>2
-----------------------------------------------------------------------------
(* Init is that of a closed recording and a focus thread about to sleep.   *)
LEMMA Initially == Init => IInv
  BY DEF Init, IInv, FocusInv, LeaveInv, RecordInv, Recording, ReleasePlaces,
         LeavePlaces

(* Each action keeps IInv.                                                 *)
LEMMA Inductive == IInv /\ [Next]_vars => IInv'
<1> SUFFICES ASSUME IInv, [Next]_vars PROVE IInv'
  OBVIOUS
<1> USE DEF IInv
<1>1. CASE FocusStill /\ LeaveStill /\ RecordStill
  BY <1>1, FocusKept, LeaveKept, RecordKept
<1>2. CASE ClientCall
  <2>1. CASE cancelPicture \/ release
    BY <2>1, ReleaseKeeps, LeaveSteps, FocusKept, RecordKept
  <2>2. CASE autoFocus \/ cancelAutoFocus
    BY <2>2, FocusKeeps, FocusSteps, LeaveKept, RecordKept
  <2>3. CASE \E b \in Buffers : releaseRecordingFrame(b)
    BY <2>3, RecordingKeeps, FrameSteps, FocusKept, LeaveKept
  <2>4. CASE Open
    BY <2>4, SessionSteps
  <2> QED
    BY <1>1, <1>2, <2>1, <2>2, <2>3, <2>4, ClientKeeps DEF ClientCall
<1>3. CASE ClientStep
  <2>1. CASE JoinPicture \/ SignalExit \/ JoinPreview \/ JoinFocus \/ Close
    BY <2>1, ReleaseKeeps, LeaveSteps, FocusKept, RecordKept
  <2>2. CASE SignalFocusExit
    <3>1. RecordStill
      BY <2>2 DEF SignalFocusExit, RecordStill
    <3> QED
      BY <2>2, <3>1, FocusSteps, LeaveSteps, RecordKept
  <2>3. CASE startRecording \/ stopRecording
    BY <2>3, RecordingKeeps, RecordingSteps, FocusKept, LeaveKept
  <2>4. CASE DeinitCamera
    BY <2>4, SessionSteps
  <2> QED
    BY <1>1, <1>3, <2>1, <2>2, <2>3, <2>4, ClientKeeps DEF ClientStep
<1>4. CASE PreviewStep
  <2>1. CASE LockRecord \/ getRecordFrame \/ RecordFrame \/ SendFrame
    BY <2>1, RecordingKeeps, FrameSteps, FocusKept, LeaveKept
  <2> QED
    BY <1>1, <1>4, <2>1, PreviewKeeps DEF PreviewStep
<1>5. CASE PictureStep
  BY <1>1, <1>5, PictureKeeps DEF PictureStep
<1>6. CASE FocusStep
  BY <1>6, FocusKeeps, FocusSteps, LeaveKept, RecordKept DEF FocusStep
<1>7. CASE UNCHANGED vars
  BY <1>1, <1>7 DEF FocusStill, LeaveStill, RecordStill
<1> QED
  BY <1>2, <1>3, <1>4, <1>5, <1>6, <1>7 DEF Next

(* IInv always holds.                                                      *)
THEOREM Invariance == Spec => []IInv
  BY Initially, Inductive, PTL DEF Spec

(* Whatever fails and in whatever order the calls come, also over sessions *)
(* of the camera: the preview thread takes recorded frames only between    *)
(* startRecording and stopRecording, and no buffer is queued to a device   *)
(* that does not record.                                                   *)
THEOREM FramesOnlyRecorded == Spec => []RecordedFrames
<1>1. IInv => RecordedFrames
  BY DEF IInv, RecordInv, RecordedFrames
<1> QED
  BY <1>1, Invariance, PTL

(* The focus thread never sleeps through the end of the interface, nor     *)
(* with the device still told to focus.                                    *)
THEOREM FocusSleepsIdle == Spec => []FocusAsleep
<1>1. IInv => FocusAsleep
  BY DEF IInv, FocusInv, FocusAsleep
<1> QED
  BY <1>1, Invariance, PTL

-----------------------------------------------------------------------------
(* startPreview does everything or nothing, and the reset of a stalled     *)
(* device does not get to start it again.                                  *)
WholeStarts == "start" \notin Faults /\ "input" \notin Faults

(* The stop handshake survives every call of the client but release: who   *)
(* finds the preview running and not put off waits for the thread.         *)
LEMMA StopClient ==
  ASSUME WholeStarts, LeaveInv, StopInv,
         \/ \E w \in Windows \cup {None} : setPreviewWindow(w)
         \/ \E b \in Buffers : releaseRecordingFrame(b)
         \/ CallsPreview \/ enableMsgType \/ disableMsgType
         \/ CallsRecording \/ autoFocus \/ cancelAutoFocus
         \/ cancelPicture \/ ClientLocks \/ stopPreviewInternal
         \/ Stopped \/ Configure \/ startPreview
         \/ startPreviewInternal \/ setSkipFrame \/ ReleaseHeap
         \/ RequestHeap \/ waitCaptureCompletion
         \/ RunPicture \/ takePicture \/ startRecording
         \/ stopRecording
  PROVE  StopInv'
<1> USE DEF StopInv, PastFrame, Streaming, Starting, Watched, ReleasePlaces, LeavePlaces
<1>1. CASE \E w \in Windows \cup {None} : setPreviewWindow(w)
  BY <1>1 DEF setPreviewWindow, Calling
<1>2. CASE CallsPreview
  BY <1>2 DEF CallsPreview, Calling
<1>3. CASE enableMsgType
  BY <1>3 DEF enableMsgType
<1>4. CASE disableMsgType
  BY <1>4 DEF disableMsgType
<1>5. CASE CallsRecording
  BY <1>5 DEF CallsRecording, Calling
<1>6. CASE \E b \in Buffers : releaseRecordingFrame(b)
  BY <1>6 DEF releaseRecordingFrame
<1>7. CASE autoFocus
  BY <1>7 DEF autoFocus, SignalFocus
<1>8. CASE cancelAutoFocus
  BY <1>8 DEF cancelAutoFocus
<1>9. CASE cancelPicture
  BY <1>9 DEF cancelPicture, Calling
<1>10. CASE ClientLocks
  BY <1>10 DEF ClientLocks
<1>11. CASE stopPreviewInternal
  BY <1>11 DEF stopPreviewInternal, SignalPreview, ToStop, MustWait
<1>12. CASE Stopped
  BY <1>12 DEF Stopped, Return
<1>13. CASE Configure
  BY <1>13 DEF Configure, Return, ToStop
<1>14. CASE startPreview
  BY <1>14 DEF startPreview, Return
<1>15. CASE startPreviewInternal
  BY <1>15 DEF startPreviewInternal, Return, StartsPreview, Streams, WholeStarts
<1>16. CASE setSkipFrame
  BY <1>16 DEF setSkipFrame
<1>17. CASE ReleaseHeap
  BY <1>17 DEF ReleaseHeap
<1>18. CASE RequestHeap
  BY <1>18 DEF RequestHeap, Return, SignalPreview
<1>19. CASE waitCaptureCompletion
  BY <1>19 DEF waitCaptureCompletion, Return
<1>20. CASE RunPicture
  BY <1>20 DEF RunPicture, Return
<1>21. CASE takePicture
  BY <1>21 DEF takePicture, Return
<1>22. CASE startRecording
  BY <1>22 DEF startRecording, Return
<1>23. CASE stopRecording
  BY <1>23 DEF stopRecording, Return
<1> QED
  BY <1>1, <1>2, <1>3, <1>4, <1>5, <1>6, <1>7, <1>8, <1>9, <1>10, <1>11,
     <1>12, <1>13, <1>14, <1>15, <1>16, <1>17, <1>18, <1>19, <1>20, <1>21,
     <1>22, <1>23

(* It survives release, which makes the thread exit, and a new interface,  *)
(* which finds the files closed.                                           *)
LEMMA StopRelease ==
  ASSUME WholeStarts, LeaveInv, StopInv,
         \/ release \/ JoinPicture \/ SignalExit \/ JoinPreview
         \/ SignalFocusExit \/ JoinFocus \/ DeinitCamera \/ Close
         \/ Open
  PROVE  StopInv'
<1> USE DEF StopInv, PastFrame, Streaming, Starting, Watched, ReleasePlaces, LeavePlaces
<1>1. CASE release
  BY <1>1 DEF release, Calling
<1>2. CASE JoinPicture
  BY <1>2 DEF JoinPicture, Return, LeaveInv
<1>3. CASE SignalExit
  BY <1>3 DEF SignalExit, SignalPreview, LeaveInv
<1>4. CASE JoinPreview
  BY <1>4 DEF JoinPreview, LeaveInv
<1>5. CASE SignalFocusExit
  BY <1>5 DEF SignalFocusExit, SignalFocus, LeaveInv
<1>6. CASE JoinFocus
  BY <1>6 DEF JoinFocus, LeaveInv
<1>7. CASE DeinitCamera
  BY <1>7 DEF DeinitCamera, LeaveInv
<1>8. CASE Close
  BY <1>8 DEF Close, LeaveInv
<1>9. CASE Open
  BY <1>9 DEF Open, NewInterface
<1> QED
  BY <1>1, <1>2, <1>3, <1>4, <1>5, <1>6, <1>7, <1>8, <1>9

(* It survives the preview thread, which goes past a frame only when the   *)
(* device streams, and reports itself stopped when it has parked.          *)
LEMMA StopPreview ==
  ASSUME WholeStarts, LeaveInv, StopInv,
         \/ PreviewBegins \/ PreviewLocks \/ PreviewTests
         \/ PreviewWaits \/ PreviewExits \/ getPreview \/ Reset
         \/ Restart \/ SkipFrame \/ TestWindow \/ DequeueBuffer
         \/ CopyFrame \/ EnqueueBuffer
         \/ PreviewFrame \/ LockRecord \/ getRecordFrame
         \/ RecordFrame \/ SendFrame
  PROVE  StopInv'
<1> USE DEF StopInv, PastFrame, Streaming, Starting, Watched, ReleasePlaces, LeavePlaces
<1>1. CASE PreviewBegins
  BY <1>1 DEF PreviewBegins, Goes
<1>2. CASE PreviewLocks
  BY <1>2 DEF PreviewLocks, Goes
<1>3. CASE PreviewTests
  BY <1>3 DEF PreviewTests, Goes, StopsPreview, Streams
<1>4. CASE PreviewWaits
  BY <1>4 DEF PreviewWaits, Goes, SignalStopped
<1>5. CASE PreviewExits
  BY <1>5 DEF PreviewExits, Goes, StopsPreview, Streams
<1>6. CASE getPreview
  BY <1>6 DEF getPreview, Goes
<1>7. CASE Reset
  BY <1>7 DEF Reset, Goes, StopsPreview, Streams, WholeStarts
<1>8. CASE Restart
  BY <1>8 DEF Restart
<1>9. CASE SkipFrame
  BY <1>9 DEF SkipFrame, Goes
<1>10. CASE DequeueBuffer
  BY <1>10 DEF DequeueBuffer, Dies, Goes
<1>11. CASE EnqueueBuffer
  BY <1>11 DEF EnqueueBuffer, Dies, Goes
<1>12. CASE PreviewFrame
  BY <1>12 DEF PreviewFrame, Dies, Goes
<1>13. CASE TestWindow
  BY <1>13 DEF TestWindow, Goes
<1>14. CASE CopyFrame
  BY <1>14 DEF CopyFrame, Dies, Goes
<1>15. CASE LockRecord
  BY <1>15 DEF LockRecord, Goes
<1>16. CASE getRecordFrame
  BY <1>16 DEF getRecordFrame, Goes
<1>17. CASE RecordFrame
  BY <1>17 DEF RecordFrame
<1>18. CASE SendFrame
  BY <1>18 DEF SendFrame, Goes
<1> QED
  BY <1>1, <1>2, <1>3, <1>4, <1>5, <1>6, <1>7, <1>8, <1>9, <1>10, <1>11,
     <1>12, <1>13, <1>14, <1>15, <1>16, <1>17, <1>18

(* It survives the picture thread, which can only end the stream, and the  *)
(* focus thread, which has nothing to do with it.                          *)
LEMMA StopOthers ==
  ASSUME WholeStarts, LeaveInv, StopInv,
         \/ PictureBegins \/ setSnapshotCmd \/ getJpeg
         \/ pictureThread \/ PictureEnds \/ FocusWaits \/ setAutofocus
         \/ getAutoFocusResult
  PROVE  StopInv'
<1> USE DEF StopInv, PastFrame, Streaming, Starting, Watched, ReleasePlaces, LeavePlaces
<1>1. CASE PictureBegins
  BY <1>1 DEF PictureBegins
<1>2. CASE setSnapshotCmd
  BY <1>2 DEF setSnapshotCmd, StopsPreview
<1>3. CASE getJpeg
  BY <1>3 DEF getJpeg
<1>4. CASE pictureThread
  BY <1>4 DEF pictureThread
<1>5. CASE PictureEnds
  BY <1>5 DEF PictureEnds
<1>6. CASE FocusWaits
  BY <1>6 DEF FocusWaits
<1>7. CASE setAutofocus
  BY <1>7 DEF setAutofocus
<1>8. CASE getAutoFocusResult
  BY <1>8 DEF getAutoFocusResult
<1> QED
  BY <1>1, <1>2, <1>3, <1>4, <1>5, <1>6, <1>7, <1>8

(* StopInv holds at first and is kept.                                     *)
THEOREM StopInvariance == WholeStarts => (Spec => [](IInv /\ StopInv))
<1> SUFFICES ASSUME WholeStarts PROVE Spec => [](IInv /\ StopInv)
  OBVIOUS
<1>1. Init => StopInv
  BY DEF Init, StopInv, PastFrame, Streaming, Starting, Watched, ReleasePlaces, LeavePlaces
<1>2. IInv /\ StopInv /\ [Next]_vars => StopInv'
  <2> SUFFICES ASSUME LeaveInv, StopInv, [Next]_vars PROVE StopInv'
    BY DEF IInv
  <2>1. CASE ClientCall
    BY <2>1, StopClient, StopRelease DEF ClientCall
  <2>2. CASE ClientStep
    BY <2>2, StopClient, StopRelease DEF ClientStep
  <2>3. CASE PreviewStep
    BY <2>3, StopPreview DEF PreviewStep
  <2>4. CASE PictureStep \/ FocusStep
    BY <2>4, StopOthers DEF PictureStep, FocusStep
  <2>5. CASE UNCHANGED vars
    BY <2>5 DEF StopInv, PastFrame, Streaming, Starting, Watched
  <2> QED
    BY <2>1, <2>2, <2>3, <2>4, <2>5 DEF Next
<1> QED
  BY <1>1, <1>2, Initially, Inductive, PTL DEF Spec

(* When stopPreview has returned no frame is on its way to the window or   *)
(* to the client, whatever fails but the start of the preview itself.      *)
THEOREM StopStopsFrames == WholeStarts => (Spec => []NoFrameWhenStopped)
<1> SUFFICES ASSUME WholeStarts PROVE Spec => []NoFrameWhenStopped
  OBVIOUS
<1>1. StopInv => NoFrameWhenStopped
  BY DEF StopInv, PastFrame, Watched, NoFrameWhenStopped, Delivering, Recording
<1> QED
  BY <1>1, StopInvariance, PTL

(* The heap is replaced under mPreviewLock, for a preview that runs: who   *)
(* is past its test then went there while that preview was put off.        *)
LEMMA HeapClient ==
  ASSUME WholeStarts, LeaveInv, StopInv, HeapInv,
         \/ \E w \in Windows \cup {None} : setPreviewWindow(w)
         \/ \E b \in Buffers : releaseRecordingFrame(b)
         \/ CallsPreview \/ enableMsgType \/ disableMsgType
         \/ CallsRecording \/ autoFocus \/ cancelAutoFocus
         \/ cancelPicture \/ ClientLocks \/ stopPreviewInternal
         \/ Stopped \/ Configure \/ startPreview
         \/ startPreviewInternal \/ setSkipFrame \/ ReleaseHeap
         \/ RequestHeap \/ waitCaptureCompletion
         \/ RunPicture \/ takePicture \/ startRecording
         \/ stopRecording
  PROVE  HeapInv'
<1> USE DEF StopInv, HeapInv, PastFrame, PastTest, Streaming, Starting, Watched,
        ReleasePlaces, LeavePlaces, NoOne
<1>1. CASE \E w \in Windows \cup {None} : setPreviewWindow(w)
  BY <1>1 DEF setPreviewWindow, Calling
<1>2. CASE CallsPreview
  BY <1>2 DEF CallsPreview, Calling
<1>3. CASE enableMsgType
  BY <1>3 DEF enableMsgType
<1>4. CASE disableMsgType
  BY <1>4 DEF disableMsgType
<1>5. CASE CallsRecording
  BY <1>5 DEF CallsRecording, Calling
<1>6. CASE \E b \in Buffers : releaseRecordingFrame(b)
  BY <1>6 DEF releaseRecordingFrame
<1>7. CASE autoFocus
  BY <1>7 DEF autoFocus, SignalFocus
<1>8. CASE cancelAutoFocus
  BY <1>8 DEF cancelAutoFocus
<1>9. CASE cancelPicture
  BY <1>9 DEF cancelPicture, Calling
<1>10. CASE ClientLocks
  BY <1>10 DEF ClientLocks, TakePreviewLock
<1>11. CASE stopPreviewInternal
  BY <1>11 DEF stopPreviewInternal, SignalPreview, ToStop, MustWait, GivePreviewLock
<1>12. CASE Stopped
  BY <1>12 DEF Stopped, Return, GivePreviewLock
<1>13. CASE Configure
  BY <1>13 DEF Configure, Return, ToStop, GivePreviewLock
<1>14. CASE startPreview
  BY <1>14 DEF startPreview, Return, GivePreviewLock
<1>15. CASE startPreviewInternal
  <2>1. /\ mPreviewRunning /\ preview \notin {"test", "park"}
        /\ preview \in PastTest => early
        /\ UNCHANGED <<preview, early, mPreviewRunning, mPreviewStartDeferred,
                       mPreviewHeap, mExitPreviewThread>>
    BY <1>15 DEF startPreviewInternal
  <2>2. PICK r \in StartsPreview :
          /\ Streams(r)
          /\ IF r.ok THEN client' = "streaming" /\ UNCHANGED mPreviewLock
                     ELSE client' = "idle"
    BY <1>15 DEF startPreviewInternal, Return
  <2>3. ~r.ok => r.flag = 0
    BY DEF StartsPreview, WholeStarts
  <2>4. Streaming' => client' = "streaming"
    BY <2>2, <2>3 DEF Streams
  <2>5. mPreviewLock = "client" /\ client' \in {"streaming", "idle"}
    BY <1>15, <2>2 DEF startPreviewInternal
  <2> QED
    BY <2>1, <2>2, <2>4, <2>5
<1>16. CASE setSkipFrame
  BY <1>16 DEF setSkipFrame
<1>17. CASE ReleaseHeap
  BY <1>17 DEF ReleaseHeap
<1>18. CASE RequestHeap
  BY <1>18 DEF RequestHeap, Return, SignalPreview, GivePreviewLock
<1>19. CASE waitCaptureCompletion
  BY <1>19 DEF waitCaptureCompletion, Return
<1>20. CASE RunPicture
  BY <1>20 DEF RunPicture, Return
<1>21. CASE takePicture
  BY <1>21 DEF takePicture, Return
<1>22. CASE startRecording
  BY <1>22 DEF startRecording, Return
<1>23. CASE stopRecording
  BY <1>23 DEF stopRecording, Return
<1> QED
  BY <1>1, <1>2, <1>3, <1>4, <1>5, <1>6, <1>7, <1>8, <1>9, <1>10, <1>11, <1>12,
     <1>13, <1>14, <1>15, <1>16, <1>17, <1>18, <1>19, <1>20, <1>21, <1>22,
     <1>23

(* In release the heap goes when the preview thread has gone.              *)
LEMMA HeapRelease ==
  ASSUME WholeStarts, LeaveInv, StopInv, HeapInv,
         \/ release \/ JoinPicture \/ SignalExit \/ JoinPreview
         \/ SignalFocusExit \/ JoinFocus \/ DeinitCamera \/ Close
         \/ Open
  PROVE  HeapInv'
<1> USE DEF StopInv, HeapInv, PastFrame, PastTest, Streaming, Starting, Watched,
        ReleasePlaces, LeavePlaces, NoOne, LeaveInv
<1>1. CASE release
  BY <1>1 DEF release, Calling
<1>2. CASE JoinPicture
  BY <1>2 DEF JoinPicture, Return
<1>3. CASE SignalExit
  BY <1>3 DEF SignalExit, SignalPreview
<1>4. CASE JoinPreview
  BY <1>4 DEF JoinPreview
<1>5. CASE SignalFocusExit
  BY <1>5 DEF SignalFocusExit, SignalFocus
<1>6. CASE JoinFocus
  BY <1>6 DEF JoinFocus
<1>7. CASE DeinitCamera
  BY <1>7 DEF DeinitCamera
<1>8. CASE Close
  BY <1>8 DEF Close
<1>9. CASE Open
  BY <1>9 DEF Open, NewInterface
<1> QED
  BY <1>1, <1>2, <1>3, <1>4, <1>5, <1>6, <1>7, <1>8, <1>9

(* The preview thread goes past its test with a preview that runs and is   *)
(* not being started, and gets a frame only from a device that streams.    *)
LEMMA HeapPreview ==
  ASSUME WholeStarts, LeaveInv, StopInv, HeapInv,
         \/ PreviewBegins \/ PreviewLocks \/ PreviewTests
         \/ PreviewWaits \/ PreviewExits \/ getPreview \/ Reset
         \/ Restart \/ SkipFrame \/ TestWindow \/ DequeueBuffer
         \/ CopyFrame \/ EnqueueBuffer
         \/ PreviewFrame \/ LockRecord \/ getRecordFrame
         \/ RecordFrame \/ SendFrame
  PROVE  HeapInv'
<1> USE DEF StopInv, HeapInv, PastFrame, PastTest, Streaming, Starting, Watched,
        ReleasePlaces, LeavePlaces, NoOne
<1>1. CASE PreviewBegins
  BY <1>1 DEF PreviewBegins, Goes
<1>2. CASE PreviewLocks
  BY <1>2 DEF PreviewLocks, Goes, TakePreviewLock
<1>3. CASE PreviewTests
  <2>1. /\ preview = "test" /\ mPreviewLock = "preview"
        /\ client \notin {"locked", "stopped", "starting"} \cup Starting
        /\ UNCHANGED <<client, mPreviewRunning, mPreviewStartDeferred, mPreviewHeap,
                       mExitPreviewThread>>
    BY <1>3 DEF PreviewTests, Goes
  <2>2. CASE mPreviewRunning
    <3>1. /\ preview' = "exit" /\ UNCHANGED <<m_flag_camera_start, device>>
          /\ early' = mPreviewStartDeferred
      BY <1>3, <2>2 DEF PreviewTests, Goes
    <3>2. early' <=> mPreviewStartDeferred
      BY <3>1, Zenon
    <3> QED
      BY <2>1, <2>2, <3>1, <3>2
  <2>3. CASE ~mPreviewRunning
    <3>1. /\ preview' = "park" /\ UNCHANGED <<mPreviewLock, early>>
          /\ Streaming' => Streaming
      BY <1>3, <2>3 DEF PreviewTests, Goes, StopsPreview, Streams
    <3> QED
      BY <2>1, <3>1
  <2> QED
    BY <2>2, <2>3
<1>4. CASE PreviewWaits
  BY <1>4 DEF PreviewWaits, Goes, SignalStopped, GivePreviewLock
<1>5. CASE PreviewExits
  BY <1>5 DEF PreviewExits, Goes, StopsPreview, Streams
<1>6. CASE getPreview
  BY <1>6 DEF getPreview, Goes
<1>7. CASE Reset
  BY <1>7 DEF Reset, Goes, StopsPreview, Streams, WholeStarts
<1>8. CASE Restart
  BY <1>8 DEF Restart
<1>9. CASE SkipFrame
  BY <1>9 DEF SkipFrame, Goes
<1>10. CASE TestWindow
  BY <1>10 DEF TestWindow, Goes
<1>11. CASE DequeueBuffer
  BY <1>11 DEF DequeueBuffer, Dies, Goes
<1>12. CASE CopyFrame
  BY <1>12 DEF CopyFrame, Dies, Goes
<1>13. CASE EnqueueBuffer
  BY <1>13 DEF EnqueueBuffer, Dies, Goes
<1>14. CASE PreviewFrame
  BY <1>14 DEF PreviewFrame, Dies, Goes
<1>15. CASE LockRecord
  BY <1>15 DEF LockRecord, Goes
<1>16. CASE getRecordFrame
  BY <1>16 DEF getRecordFrame, Goes
<1>17. CASE RecordFrame
  BY <1>17 DEF RecordFrame
<1>18. CASE SendFrame
  BY <1>18 DEF SendFrame, Goes
<1> QED
  BY <1>1, <1>2, <1>3, <1>4, <1>5, <1>6, <1>7, <1>8, <1>9, <1>10, <1>11, <1>12,
     <1>13, <1>14, <1>15, <1>16, <1>17, <1>18

(* The picture and the focus thread do not look at the heap.               *)
LEMMA HeapOthers ==
  ASSUME WholeStarts, LeaveInv, StopInv, HeapInv,
         \/ PictureBegins \/ setSnapshotCmd \/ getJpeg
         \/ pictureThread \/ PictureEnds \/ FocusWaits \/ setAutofocus
         \/ getAutoFocusResult
  PROVE  HeapInv'
<1> USE DEF StopInv, HeapInv, PastFrame, PastTest, Streaming, Starting, Watched,
        ReleasePlaces, LeavePlaces, NoOne
<1>1. CASE PictureBegins
  BY <1>1 DEF PictureBegins
<1>2. CASE setSnapshotCmd
  BY <1>2 DEF setSnapshotCmd, StopsPreview
<1>3. CASE getJpeg
  BY <1>3 DEF getJpeg
<1>4. CASE pictureThread
  BY <1>4 DEF pictureThread
<1>5. CASE PictureEnds
  BY <1>5 DEF PictureEnds
<1>6. CASE FocusWaits
  BY <1>6 DEF FocusWaits
<1>7. CASE setAutofocus
  BY <1>7 DEF setAutofocus
<1>8. CASE getAutoFocusResult
  BY <1>8 DEF getAutoFocusResult
<1> QED
  BY <1>1, <1>2, <1>3, <1>4, <1>5, <1>6, <1>7, <1>8

(* HeapInv holds at first and is kept.                                     *)
THEOREM HeapInvariance == WholeStarts => (Spec => [](IInv /\ StopInv /\ HeapInv))
<1> SUFFICES ASSUME WholeStarts PROVE Spec => [](IInv /\ StopInv /\ HeapInv)
  OBVIOUS
<1>1. Init => HeapInv
  BY DEF Init, HeapInv, PastFrame, PastTest, Streaming, Starting
<1>2. IInv /\ StopInv /\ HeapInv /\ [Next]_vars => HeapInv'
  <2> SUFFICES ASSUME LeaveInv, StopInv, HeapInv, [Next]_vars PROVE HeapInv'
    BY DEF IInv
  <2>1. CASE ClientCall
    BY <2>1, HeapClient, HeapRelease DEF ClientCall
  <2>2. CASE ClientStep
    BY <2>2, HeapClient, HeapRelease DEF ClientStep
  <2>3. CASE PreviewStep
    BY <2>3, HeapPreview DEF PreviewStep
  <2>4. CASE PictureStep \/ FocusStep
    BY <2>4, HeapOthers DEF PictureStep, FocusStep
  <2>5. CASE UNCHANGED vars
    BY <2>5 DEF HeapInv, PastFrame, PastTest, Streaming, Starting, Watched
  <2> QED
    BY <2>1, <2>2, <2>3, <2>4, <2>5 DEF Next
<1> QED
  BY <1>1, <1>2, StopInvariance, PTL DEF Spec

(* There is a heap, and it is not about to go, while the preview thread    *)
(* copies from it or gives it to the client: the device streams before the *)
(* heap is replaced, but only a thread that passed its test while the      *)
(* preview was put off can be taking a frame then.                         *)
THEOREM HeapsNotInUse == WholeStarts => (Spec => []HeapNotInUse)
<1> SUFFICES ASSUME WholeStarts PROVE Spec => []HeapNotInUse
  OBVIOUS
<1>1. LeaveInv /\ HeapInv => HeapNotInUse
  BY DEF LeaveInv, LeavePlaces, HeapInv, PastFrame, PastTest, Starting, HeapNotInUse
<1>2. IInv => LeaveInv
  BY DEF IInv
<1> QED
  BY <1>1, <1>2, HeapInvariance, PTL

-----------------------------------------------------------------------------
(* The window and the picture.                                             *)

(* A change of the window stops the preview before it ends, so no buffer   *)
(* of the old window is held when the client goes on.                      *)
LEMMA WindowClient ==
  ASSUME StopInv, WindowInv,
         \/ \E w \in Windows \cup {None} : setPreviewWindow(w)
         \/ \E b \in Buffers : releaseRecordingFrame(b)
         \/ CallsPreview \/ enableMsgType \/ disableMsgType
         \/ CallsRecording \/ autoFocus \/ cancelAutoFocus
         \/ cancelPicture \/ ClientLocks \/ stopPreviewInternal
         \/ Stopped \/ Configure \/ startPreview
         \/ startPreviewInternal \/ setSkipFrame \/ ReleaseHeap
         \/ RequestHeap \/ waitCaptureCompletion
         \/ RunPicture \/ takePicture \/ startRecording
         \/ stopRecording
  PROVE  WindowInv'
<1> USE DEF StopInv, WindowInv, PastFrame, Starting, Watched, ReleasePlaces,
            LeavePlaces
<1>1. CASE \E w \in Windows \cup {None} : setPreviewWindow(w)
  BY <1>1 DEF setPreviewWindow, Calling
<1>2. CASE CallsPreview
  BY <1>2 DEF CallsPreview, Calling
<1>3. CASE enableMsgType
  BY <1>3 DEF enableMsgType
<1>4. CASE disableMsgType
  BY <1>4 DEF disableMsgType
<1>5. CASE CallsRecording
  BY <1>5 DEF CallsRecording, Calling
<1>6. CASE \E b \in Buffers : releaseRecordingFrame(b)
  BY <1>6 DEF releaseRecordingFrame
<1>7. CASE autoFocus
  BY <1>7 DEF autoFocus, SignalFocus
<1>8. CASE cancelAutoFocus
  BY <1>8 DEF cancelAutoFocus
<1>9. CASE cancelPicture
  BY <1>9 DEF cancelPicture, Calling
<1>10. CASE ClientLocks
  BY <1>10 DEF ClientLocks
<1>11. CASE stopPreviewInternal
  BY <1>11 DEF stopPreviewInternal, SignalPreview, ToStop, MustWait
<1>12. CASE Stopped
  BY <1>12 DEF Stopped, Return
<1>13. CASE Configure
  BY <1>13 DEF Configure, Return, ToStop
<1>14. CASE startPreview
  BY <1>14 DEF startPreview, Return
<1>15. CASE startPreviewInternal
  BY <1>15 DEF startPreviewInternal, Return, StartsPreview, Streams
<1>16. CASE setSkipFrame
  BY <1>16 DEF setSkipFrame
<1>17. CASE ReleaseHeap
  BY <1>17 DEF ReleaseHeap
<1>18. CASE RequestHeap
  BY <1>18 DEF RequestHeap, Return, SignalPreview
<1>19. CASE waitCaptureCompletion
  BY <1>19 DEF waitCaptureCompletion, Return, CaptureOver
<1>20. CASE RunPicture
  BY <1>20 DEF RunPicture, Return
<1>21. CASE takePicture
  BY <1>21 DEF takePicture, Return
<1>22. CASE startRecording
  BY <1>22 DEF startRecording, Return
<1>23. CASE stopRecording
  BY <1>23 DEF stopRecording, Return
<1> QED
  BY <1>1, <1>2, <1>3, <1>4, <1>5, <1>6, <1>7, <1>8, <1>9, <1>10, <1>11,
     <1>12, <1>13, <1>14, <1>15, <1>16, <1>17, <1>18, <1>19, <1>20, <1>21,
     <1>22, <1>23

(* Nothing in release or in a new interface changes the window under the   *)
(* preview thread.                                                         *)
LEMMA WindowRelease ==
  ASSUME LeaveInv, StopInv, WindowInv,
         \/ release \/ JoinPicture \/ SignalExit \/ JoinPreview
         \/ SignalFocusExit \/ JoinFocus \/ DeinitCamera \/ Close
         \/ Open
  PROVE  WindowInv'
<1> USE DEF StopInv, WindowInv, PastFrame, Starting, Watched, ReleasePlaces,
            LeavePlaces, LeaveInv
<1>1. CASE release
  BY <1>1 DEF release, Calling
<1>2. CASE JoinPicture
  BY <1>2 DEF JoinPicture, Return
<1>3. CASE SignalExit
  BY <1>3 DEF SignalExit, SignalPreview
<1>4. CASE JoinPreview
  BY <1>4 DEF JoinPreview
<1>5. CASE SignalFocusExit
  BY <1>5 DEF SignalFocusExit, SignalFocus
<1>6. CASE JoinFocus
  BY <1>6 DEF JoinFocus
<1>7. CASE DeinitCamera
  BY <1>7 DEF DeinitCamera
<1>8. CASE Close
  BY <1>8 DEF Close
<1>9. CASE Open
  BY <1>9 DEF Open, NewInterface
<1> QED
  BY <1>1, <1>2, <1>3, <1>4, <1>5, <1>6, <1>7, <1>8, <1>9

(* The preview thread dequeues from the window there is, and gives the     *)
(* buffer back before it does anything else.                               *)
LEMMA WindowPreview ==
  ASSUME StopInv, WindowInv,
         \/ PreviewBegins \/ PreviewLocks \/ PreviewTests
         \/ PreviewWaits \/ PreviewExits \/ getPreview \/ Reset
         \/ Restart \/ SkipFrame \/ TestWindow \/ DequeueBuffer
         \/ CopyFrame \/ EnqueueBuffer
         \/ PreviewFrame \/ LockRecord \/ getRecordFrame
         \/ RecordFrame \/ SendFrame
  PROVE  WindowInv'
<1> USE DEF StopInv, WindowInv, PastFrame, Starting, Watched, ReleasePlaces,
            LeavePlaces
<1>1. CASE PreviewBegins
  BY <1>1 DEF PreviewBegins, Goes
<1>2. CASE PreviewLocks
  BY <1>2 DEF PreviewLocks, Goes
<1>3. CASE PreviewTests
  BY <1>3 DEF PreviewTests, Goes, StopsPreview, Streams
<1>4. CASE PreviewWaits
  BY <1>4 DEF PreviewWaits, Goes, SignalStopped
<1>5. CASE PreviewExits
  BY <1>5 DEF PreviewExits, Goes, StopsPreview, Streams
<1>6. CASE getPreview
  BY <1>6 DEF getPreview, Goes
<1>7. CASE Reset
  BY <1>7 DEF Reset, Goes, StopsPreview, Streams
<1>8. CASE Restart
  BY <1>8 DEF Restart
<1>9. CASE SkipFrame
  BY <1>9 DEF SkipFrame, Goes
<1>10. CASE DequeueBuffer
  BY <1>10 DEF DequeueBuffer, Dies, Goes
<1>11. CASE EnqueueBuffer
  BY <1>11 DEF EnqueueBuffer, Dies, Goes
<1>12. CASE PreviewFrame
  BY <1>12 DEF PreviewFrame, Dies, Goes
<1>13. CASE TestWindow
  BY <1>13 DEF TestWindow, Goes
<1>14. CASE CopyFrame
  BY <1>14 DEF CopyFrame, Dies, Goes
<1>15. CASE LockRecord
  BY <1>15 DEF LockRecord, Goes
<1>16. CASE getRecordFrame
  BY <1>16 DEF getRecordFrame, Goes
<1>17. CASE RecordFrame
  BY <1>17 DEF RecordFrame
<1>18. CASE SendFrame
  BY <1>18 DEF SendFrame, Goes
<1> QED
  BY <1>1, <1>2, <1>3, <1>4, <1>5, <1>6, <1>7, <1>8, <1>9, <1>10, <1>11,
     <1>12, <1>13, <1>14, <1>15, <1>16, <1>17, <1>18

(* The picture and the focus thread do not look at the window.             *)
LEMMA WindowOthers ==
  ASSUME StopInv, WindowInv,
         \/ PictureBegins \/ setSnapshotCmd \/ getJpeg
         \/ pictureThread \/ PictureEnds \/ FocusWaits \/ setAutofocus
         \/ getAutoFocusResult
  PROVE  WindowInv'
<1> USE DEF StopInv, WindowInv, PastFrame, Starting, Watched, ReleasePlaces,
            LeavePlaces
<1>1. CASE PictureBegins
  BY <1>1 DEF PictureBegins
<1>2. CASE setSnapshotCmd
  BY <1>2 DEF setSnapshotCmd, StopsPreview
<1>3. CASE getJpeg
  BY <1>3 DEF getJpeg
<1>4. CASE pictureThread
  BY <1>4 DEF pictureThread
<1>5. CASE PictureEnds
  BY <1>5 DEF PictureEnds
<1>6. CASE FocusWaits
  BY <1>6 DEF FocusWaits
<1>7. CASE setAutofocus
  BY <1>7 DEF setAutofocus
<1>8. CASE getAutoFocusResult
  BY <1>8 DEF getAutoFocusResult
<1> QED
  BY <1>1, <1>2, <1>3, <1>4, <1>5, <1>6, <1>7, <1>8

(* takePicture stops the stream before it runs the picture thread, and     *)
(* nothing starts it before that thread has taken the picture.             *)
LEMMA CaptureClient ==
  ASSUME WholeStarts, "stop" \notin Faults, LeaveInv, StopInv, HeapInv, WindowInv,
         CaptureInv,
         \/ \E w \in Windows \cup {None} : setPreviewWindow(w)
         \/ \E b \in Buffers : releaseRecordingFrame(b)
         \/ CallsPreview \/ enableMsgType \/ disableMsgType
         \/ CallsRecording \/ autoFocus \/ cancelAutoFocus
         \/ cancelPicture \/ ClientLocks \/ stopPreviewInternal
         \/ Stopped \/ Configure \/ startPreview
         \/ startPreviewInternal \/ setSkipFrame \/ ReleaseHeap
         \/ RequestHeap \/ waitCaptureCompletion
         \/ RunPicture \/ takePicture \/ startRecording
         \/ stopRecording
  PROVE  CaptureInv'
<1> USE DEF StopInv, HeapInv, CaptureInv, Capturing, PastFrame, Streaming,
            Starting, Watched, ReleasePlaces, LeavePlaces, NoOne
<1>1. CASE \E w \in Windows \cup {None} : setPreviewWindow(w)
  BY <1>1 DEF setPreviewWindow, Calling
<1>2. CASE CallsPreview
  BY <1>2 DEF CallsPreview, Calling
<1>3. CASE enableMsgType
  BY <1>3 DEF enableMsgType
<1>4. CASE disableMsgType
  BY <1>4 DEF disableMsgType
<1>5. CASE CallsRecording
  BY <1>5 DEF CallsRecording, Calling
<1>6. CASE \E b \in Buffers : releaseRecordingFrame(b)
  BY <1>6 DEF releaseRecordingFrame
<1>7. CASE autoFocus
  BY <1>7 DEF autoFocus, SignalFocus
<1>8. CASE cancelAutoFocus
  BY <1>8 DEF cancelAutoFocus
<1>9. CASE cancelPicture
  BY <1>9 DEF cancelPicture, Calling
<1>10. CASE ClientLocks
  BY <1>10 DEF ClientLocks, TakePreviewLock
<1>11. CASE stopPreviewInternal
  <2>1. CASE MustWait
    BY <1>11, <2>1 DEF stopPreviewInternal, SignalPreview, MustWait, GivePreviewLock
  <2>2. CASE ~MustWait
    <3>1. ~Watched /\ device # "preview"
      BY <1>11, <2>2 DEF stopPreviewInternal, MustWait
    <3> QED
      BY <1>11, <2>2, <3>1 DEF stopPreviewInternal
  <2> QED
    BY <2>1, <2>2
<1>12. CASE Stopped
  BY <1>12 DEF Stopped, Return, GivePreviewLock
<1>13. CASE Configure
  BY <1>13 DEF Configure, Return, ToStop, GivePreviewLock
<1>14. CASE startPreview
  BY <1>14 DEF startPreview, Return, GivePreviewLock
<1>15. CASE startPreviewInternal
  <2>1. /\ ~Capturing /\ preview \notin {"test", "park"} /\ mPreviewRunning
        /\ \/ call' = call /\ client' = "streaming"
           \/ call' = "none" /\ client' = "idle"
        /\ UNCHANGED <<mPreviewRunning, mPreviewStartDeferred, picture, preview>>
    BY <1>15 DEF startPreviewInternal, Return
  <2>2. PICK r \in StartsPreview : Streams(r) /\ (r.ok => client' = "streaming")
    BY <1>15 DEF startPreviewInternal
  <2>3. /\ ~r.ok => r.flag = 0
        /\ r.device = "preview" => r.flag = 1
    <3>1. CASE m_flag_camera_start > 0
      BY <3>1 DEF StartsPreview
    <3>2. CASE m_flag_camera_start = 0
      BY <3>2 DEF StartsPreview, WholeStarts
    <3> QED
      BY <3>1, <3>2
  <2>4. device' = "preview" => m_flag_camera_start' = 1
    BY <2>2, <2>3 DEF Streams
  <2>5. Streaming' => Watched'
    BY <2>1, <2>2, <2>3 DEF Streams
  <2> QED
    BY <2>1, <2>4, <2>5
<1>16. CASE setSkipFrame
  BY <1>16 DEF setSkipFrame
<1>17. CASE ReleaseHeap
  BY <1>17 DEF ReleaseHeap
<1>18. CASE RequestHeap
  BY <1>18 DEF RequestHeap, Return, SignalPreview
<1>19. CASE waitCaptureCompletion
  BY <1>19 DEF waitCaptureCompletion, Return, CaptureOver
<1>20. CASE RunPicture
  BY <1>20 DEF RunPicture, Return
<1>21. CASE takePicture
  BY <1>21 DEF takePicture, Return
<1>22. CASE startRecording
  BY <1>22 DEF startRecording, Return
<1>23. CASE stopRecording
  BY <1>23 DEF stopRecording, Return
<1> QED
  BY <1>1, <1>2, <1>3, <1>4, <1>5, <1>6, <1>7, <1>8, <1>9, <1>10, <1>11,
     <1>12, <1>13, <1>14, <1>15, <1>16, <1>17, <1>18, <1>19, <1>20, <1>21,
     <1>22, <1>23

(* Nothing starts the stream in release, nor in a new interface.           *)
LEMMA CaptureRelease ==
  ASSUME WholeStarts, "stop" \notin Faults, LeaveInv, StopInv, HeapInv, WindowInv,
         CaptureInv,
         \/ release \/ JoinPicture \/ SignalExit \/ JoinPreview
         \/ SignalFocusExit \/ JoinFocus \/ DeinitCamera \/ Close
         \/ Open
  PROVE  CaptureInv'
<1> USE DEF StopInv, HeapInv, CaptureInv, Capturing, PastFrame, Streaming,
            Starting, Watched, ReleasePlaces, LeavePlaces, NoOne, LeaveInv
<1>1. CASE release
  BY <1>1 DEF release, Calling
<1>2. CASE JoinPicture
  BY <1>2 DEF JoinPicture, Return
<1>3. CASE SignalExit
  BY <1>3 DEF SignalExit, SignalPreview
<1>4. CASE JoinPreview
  BY <1>4 DEF JoinPreview
<1>5. CASE SignalFocusExit
  BY <1>5 DEF SignalFocusExit, SignalFocus
<1>6. CASE JoinFocus
  BY <1>6 DEF JoinFocus
<1>7. CASE DeinitCamera
  BY <1>7 DEF DeinitCamera
<1>8. CASE Close
  BY <1>8 DEF Close
<1>9. CASE Open
  BY <1>9 DEF Open, NewInterface
<1> QED
  BY <1>1, <1>2, <1>3, <1>4, <1>5, <1>6, <1>7, <1>8, <1>9

(* The preview thread ends the stream before it reports itself stopped.    *)
LEMMA CapturePreview ==
  ASSUME WholeStarts, "stop" \notin Faults, LeaveInv, StopInv, HeapInv, WindowInv,
         CaptureInv,
         \/ PreviewBegins \/ PreviewLocks \/ PreviewTests
         \/ PreviewWaits \/ PreviewExits \/ getPreview \/ Reset
         \/ Restart \/ SkipFrame \/ TestWindow \/ DequeueBuffer
         \/ CopyFrame \/ EnqueueBuffer
         \/ PreviewFrame \/ LockRecord \/ getRecordFrame
         \/ RecordFrame \/ SendFrame
  PROVE  CaptureInv'
<1> USE DEF StopInv, HeapInv, CaptureInv, Capturing, PastFrame, Streaming,
            Starting, Watched, ReleasePlaces, LeavePlaces, NoOne
<1>1. CASE PreviewBegins
  BY <1>1 DEF PreviewBegins, Goes
<1>2. CASE PreviewLocks
  BY <1>2 DEF PreviewLocks, Goes, TakePreviewLock
<1>3. CASE PreviewTests
  <2>1. preview = "test" /\ mPreviewLock = "preview"
        /\ UNCHANGED <<client, call, mPreviewRunning, mPreviewStartDeferred,
                       mExitPreviewThread, picture, mCaptureInProgress>>
    BY <1>3 DEF PreviewTests, Goes
  <2>2. CASE mPreviewRunning
    <3>1. preview' = "exit" /\ UNCHANGED <<m_flag_camera_start, device>>
      BY <1>3, <2>2 DEF PreviewTests, Goes
    <3> QED
      BY <2>1, <3>1
  <2>3. CASE ~mPreviewRunning
    <3>1. preview' = "park" /\ UNCHANGED mPreviewLock /\ device' # "preview"
      BY <1>3, <2>3 DEF PreviewTests, Goes, StopsPreview, Streams
    <3> QED
      BY <2>1, <3>1
  <2> QED
    BY <2>2, <2>3
<1>4. CASE PreviewWaits
  <2>1. preview = "park" /\ device # "preview" /\ device' # "preview"
    BY <1>4 DEF PreviewWaits, Goes
  <2>2. preview' = "asleep" /\ mPreviewLock = "preview"
    BY <1>4, <2>1 DEF PreviewWaits, Goes
  <2>3. /\ client' = IF client = "stopWait" THEN "stopWoken" ELSE client
        /\ UNCHANGED <<call, mPreviewRunning, picture, mCaptureInProgress,
                       mExitPreviewThread>>
    BY <1>4 DEF PreviewWaits, SignalStopped
  <2>4. Capturing' /\ mPreviewRunning' => mExitPreviewThread'
    BY <2>3
  <2>5. Capturing' => mCaptureInProgress' \/ client' \in {"started", "dead"}
    BY <2>3
  <2> QED
    BY <2>1, <2>2, <2>3, <2>4, <2>5
<1>5. CASE PreviewExits
  BY <1>5 DEF PreviewExits, Goes, StopsPreview, Streams
<1>6. CASE getPreview
  BY <1>6 DEF getPreview, Goes
<1>7. CASE Reset
  BY <1>7 DEF Reset, Goes, StopsPreview, Streams, WholeStarts
<1>8. CASE Restart
  BY <1>8 DEF Restart
<1>9. CASE SkipFrame
  BY <1>9 DEF SkipFrame, Goes
<1>10. CASE DequeueBuffer
  BY <1>10 DEF DequeueBuffer, Dies, Goes
<1>11. CASE EnqueueBuffer
  BY <1>11 DEF EnqueueBuffer, Dies, Goes
<1>12. CASE PreviewFrame
  BY <1>12 DEF PreviewFrame, Dies, Goes
<1>13. CASE TestWindow
  BY <1>13 DEF TestWindow, Goes
<1>14. CASE CopyFrame
  BY <1>14 DEF CopyFrame, Dies, Goes
<1>15. CASE LockRecord
  BY <1>15 DEF LockRecord, Goes
<1>16. CASE getRecordFrame
  BY <1>16 DEF getRecordFrame, Goes
<1>17. CASE RecordFrame
  BY <1>17 DEF RecordFrame
<1>18. CASE SendFrame
  BY <1>18 DEF SendFrame, Goes
<1> QED
  BY <1>1, <1>2, <1>3, <1>4, <1>5, <1>6, <1>7, <1>8, <1>9, <1>10, <1>11,
     <1>12, <1>13, <1>14, <1>15, <1>16, <1>17, <1>18

(* The picture thread resets mCaptureInProgress when it has the picture.   *)
LEMMA CaptureOthers ==
  ASSUME WholeStarts, "stop" \notin Faults, LeaveInv, StopInv, HeapInv, WindowInv,
         CaptureInv,
         \/ PictureBegins \/ setSnapshotCmd \/ getJpeg
         \/ pictureThread \/ PictureEnds \/ FocusWaits \/ setAutofocus
         \/ getAutoFocusResult
  PROVE  CaptureInv'
<1> USE DEF StopInv, HeapInv, CaptureInv, Capturing, PastFrame, Streaming,
            Starting, Watched, ReleasePlaces, LeavePlaces, NoOne
<1>1. CASE PictureBegins
  BY <1>1 DEF PictureBegins
<1>2. CASE setSnapshotCmd
  BY <1>2 DEF setSnapshotCmd, StopsPreview
<1>3. CASE getJpeg
  BY <1>3 DEF getJpeg
<1>4. CASE pictureThread
  BY <1>4 DEF pictureThread
<1>5. CASE PictureEnds
  BY <1>5 DEF PictureEnds
<1>6. CASE FocusWaits
  BY <1>6 DEF FocusWaits
<1>7. CASE setAutofocus
  BY <1>7 DEF setAutofocus
<1>8. CASE getAutoFocusResult
  BY <1>8 DEF getAutoFocusResult
<1> QED
  BY <1>1, <1>2, <1>3, <1>4, <1>5, <1>6, <1>7, <1>8

(* WindowInv holds at first and is kept.                                   *)
THEOREM WindowInvariance == WholeStarts => (Spec => [](IInv /\ StopInv /\ WindowInv))
<1> SUFFICES ASSUME WholeStarts PROVE Spec => [](IInv /\ StopInv /\ WindowInv)
  OBVIOUS
<1>1. Init => WindowInv
  BY DEF Init, WindowInv, Starting
<1>2. IInv /\ StopInv /\ WindowInv /\ [Next]_vars => WindowInv'
  <2> SUFFICES ASSUME LeaveInv, StopInv, WindowInv, [Next]_vars PROVE WindowInv'
    BY DEF IInv
  <2>1. CASE ClientCall
    BY <2>1, WindowClient, WindowRelease DEF ClientCall
  <2>2. CASE ClientStep
    BY <2>2, WindowClient, WindowRelease DEF ClientStep
  <2>3. CASE PreviewStep
    BY <2>3, WindowPreview DEF PreviewStep
  <2>4. CASE PictureStep \/ FocusStep
    BY <2>4, WindowOthers DEF PictureStep, FocusStep
  <2>5. CASE UNCHANGED vars
    BY <2>5 DEF WindowInv, Starting
  <2> QED
    BY <2>1, <2>2, <2>3, <2>4, <2>5 DEF Next
<1> QED
  BY <1>1, <1>2, StopInvariance, PTL DEF Spec

(* CaptureInv holds at first and is kept.                                  *)
THEOREM CaptureInvariance ==
  WholeStarts /\ "stop" \notin Faults
    => (Spec => [](IInv /\ StopInv /\ HeapInv /\ WindowInv /\ CaptureInv))
<1> SUFFICES ASSUME WholeStarts /\ "stop" \notin Faults
             PROVE  Spec => [](IInv /\ StopInv /\ HeapInv /\ WindowInv /\ CaptureInv)
  OBVIOUS
<1>1. Init => CaptureInv
  BY DEF Init, CaptureInv, Capturing, Streaming, Starting, Watched
<1>2. IInv /\ StopInv /\ HeapInv /\ WindowInv /\ CaptureInv /\ [Next]_vars => CaptureInv'
  <2> SUFFICES ASSUME LeaveInv, StopInv, HeapInv, WindowInv, CaptureInv, [Next]_vars
               PROVE  CaptureInv'
    BY DEF IInv
  <2>1. CASE ClientCall
    BY <2>1, CaptureClient, CaptureRelease DEF ClientCall
  <2>2. CASE ClientStep
    BY <2>2, CaptureClient, CaptureRelease DEF ClientStep
  <2>3. CASE PreviewStep
    BY <2>3, CapturePreview DEF PreviewStep
  <2>4. CASE PictureStep \/ FocusStep
    BY <2>4, CaptureOthers DEF PictureStep, FocusStep
  <2>5. CASE UNCHANGED vars
    BY <2>5 DEF CaptureInv, Capturing, Streaming, Starting, Watched
  <2> QED
    BY <2>1, <2>2, <2>3, <2>4, <2>5 DEF Next
<1> QED
  BY <1>1, <1>2, HeapInvariance, WindowInvariance, PTL DEF Spec

(* Nobody but the preview thread takes it from one place in a frame to     *)
(* another.                                                                *)
LEMMA MovesItself ==
  ASSUME ClientCall \/ ClientStep \/ PictureStep \/ FocusStep
  PROVE  preview' \in {preview, "woken", "born"}
<1>1. CASE ClientCall
  BY <1>1 DEF ClientCall, setPreviewWindow, CallsPreview, cancelPicture, enableMsgType,
     disableMsgType, CallsRecording, releaseRecordingFrame, autoFocus, cancelAutoFocus,
     release, Open, NewInterface
<1>2. CASE ClientStep
  <2>1. CASE stopPreviewInternal \/ RequestHeap \/ SignalExit
    BY <2>1 DEF stopPreviewInternal, RequestHeap, SignalExit, SignalPreview
  <2> QED
    BY <1>2, <2>1 DEF ClientStep, ClientLocks, Stopped, Configure, startPreview,
       startPreviewInternal, setSkipFrame, ReleaseHeap, waitCaptureCompletion,
       RunPicture, takePicture, JoinPicture, startRecording, stopRecording,
       JoinPreview, SignalFocusExit, JoinFocus, DeinitCamera, Close
<1>3. CASE PictureStep
  BY <1>3 DEF PictureStep, PictureBegins, setSnapshotCmd, getJpeg, pictureThread,
     PictureEnds
<1>4. CASE FocusStep
  BY <1>4 DEF FocusStep, FocusWaits, setAutofocus, getAutoFocusResult
<1> QED
  BY <1>1, <1>2, <1>3, <1>4

(* A buffer is given back by a call of the window there is, which is not   *)
(* NULL.                                                                   *)
LEMMA GivesBack ==
  ASSUME [Next]_vars, preview = "enqueue", preview' = "callback"
  PROVE  mPreviewWindow # None
<1>1. PreviewStep
  BY MovesItself DEF Next
<1>2. EnqueueBuffer
  BY <1>1 DEF PreviewStep, PreviewBegins, PreviewLocks, PreviewTests, PreviewWaits,
     PreviewExits, getPreview, Reset, Restart, SkipFrame, TestWindow, DequeueBuffer,
     CopyFrame, PreviewFrame, LockRecord, getRecordFrame, RecordFrame, SendFrame,
     Goes, Dies
<1> QED
  BY <1>2 DEF EnqueueBuffer, Goes, Dies

(* But for a change of the window that is under way, the preview thread    *)
(* gives a buffer back to the window it is from, for every number of       *)
(* windows and however often they are set and taken away.                  *)
THEOREM OwnWindow == WholeStarts => (Spec => FrameOfWindow)
<1> SUFFICES ASSUME WholeStarts PROVE Spec => FrameOfWindow
  OBVIOUS
<1>1. WindowInv /\ [Next]_vars
        => [preview = "enqueue" /\ preview' = "callback" /\ call # "setPreviewWindow"
              => mPreviewWindow = dequeued]_vars
  BY GivesBack DEF WindowInv
<1> QED
  BY <1>1, WindowInvariance, PTL DEF Spec, FrameOfWindow

(* The device does not stream a preview while a picture is taken, if stops *)
(* of the preview do not fail either.                                      *)
THEOREM PictureAlone ==
  WholeStarts /\ "stop" \notin Faults => (Spec => []CaptureAlone)
<1> SUFFICES ASSUME WholeStarts /\ "stop" \notin Faults PROVE Spec => []CaptureAlone
  OBVIOUS
<1>1. CaptureInv => CaptureAlone
  BY DEF CaptureInv, Capturing, CaptureAlone
<1> QED
  BY <1>1, CaptureInvariance, PTL
=============================================================================
