------------------------------- MODULE CameraHal -------------------------------
(***************************************************************************)
(* CameraHardwareSec (SecCameraHWInterface.cpp) and what it makes of the   *)
(* streams of SecCamera (SecCamera.cpp): preview, recording and taking of  *)
(* pictures.                                                               *)
(*                                                                         *)
(* Four threads.  The client is the camera service, which makes one call   *)
(* at a time.  The preview thread takes frame after frame from the device, *)
(* copies each into a buffer of the preview window, and hands a recorded   *)
(* frame to the client; it sleeps while there is no preview.  The picture  *)
(* thread is run once for each picture.  The focus thread sleeps until it  *)
(* is told to focus.                                                       *)
(*                                                                         *)
(* A thread that waits on a condition is at a place of its own ("asleep",  *)
(* "stopWait") and the signal of the other thread moves it on.             *)
(***************************************************************************)
EXTENDS Naturals

CONSTANTS Windows,   \* the preview windows there are
          Buffers,   \* the buffers of the recording stream
          None,      \* no window, no buffer
          Calls,     \* the calls the client makes
          Faults,    \* what may fail
          Orderly,   \* the client keeps to the order the interface asks for
          INITIAL_SKIP_FRAME

NoOne == "no one"

FaultKinds == {"window",   \* a call of the preview window
               "start",    \* an ioctl of SecCamera::startPreview
               "stop",     \* an ioctl of SecCamera::stopPreview
               "stall",    \* no frame within a second
               "frame",    \* an ioctl of a frame
               "input",    \* VIDIOC_ENUMINPUT in the reset of the device
               "record",   \* an ioctl of startRecord or stopRecord
               "address",  \* getRecPhyAddrY or getRecPhyAddrC
               "capture",  \* an ioctl of the picture
               "focus"}    \* an ioctl of the focus

ASSUME CameraAssumption ==
  /\ None \notin Windows \cup Buffers
  /\ Faults \subseteq FaultKinds
  /\ Orderly \in BOOLEAN
  /\ INITIAL_SKIP_FRAME \in Nat

VARIABLES
  \* the client
  client,               \* where it is
  call,                 \* the call it is in
  \* CameraHardwareSec
  mPreviewLock, mRecordLock,      \* who holds them
  mPreviewRunning, mPreviewStartDeferred, mExitPreviewThread,
  mPreviewWindow,
  mPreviewHeap,         \* whether there is one
  mSkipFrame,
  mRecordRunning,
  mCaptureInProgress,
  mMsgEnabled,          \* of the messages, CAMERA_MSG_VIDEO_FRAME
  \* SecCamera and the device
  m_flag_camera_start, m_flag_record_start,
  device,               \* what the first file streams
  recording,            \* whether the second file streams
  buffer,               \* where each buffer of the second file is
  \* the preview thread
  preview,              \* where it is
  dequeued,             \* the window it holds a buffer of
  frame,                \* the recorded frame it holds
  early,                \* whether it last found the preview put off, and went on
  \* the picture thread
  picture,              \* where it is
  exitPending,          \* whether it was asked to exit
  \* the focus thread
  focus,                \* where it is
  focusing,             \* whether the device was told to focus and not to end
  mExitAutoFocusThread  \* whether it was asked to exit, also its exitPending

clientVars == <<client, call>>
lockVars == <<mPreviewLock, mRecordLock>>
previewVars == <<mPreviewRunning, mPreviewStartDeferred, mExitPreviewThread>>
halVars == <<previewVars, mPreviewWindow, mPreviewHeap, mSkipFrame>>
recordVars == <<mRecordRunning, m_flag_record_start, recording, buffer>>
sharedVars == <<recordVars, mCaptureInProgress, mMsgEnabled>>
streamVars == <<m_flag_camera_start, device>>
heldVars == <<dequeued, frame, early>>
threadVars == <<preview, heldVars>>
pictureVars == <<picture, exitPending>>
focusVars == <<focus, focusing, mExitAutoFocusThread>>
workerVars == <<pictureVars, focusVars>>
vars == <<clientVars, lockVars, halVars, sharedVars, streamVars, threadVars, workerVars>>

(* What the constructor sets, and what a new interface has anew.  Two      *)
(* threads are created; nothing waits for them to get to their locks.      *)
Init ==
  /\ client = "idle" /\ call = "none"
  /\ mPreviewLock = NoOne /\ mRecordLock = NoOne
  /\ mPreviewRunning = FALSE /\ mPreviewStartDeferred = FALSE
  /\ mExitPreviewThread = FALSE
  /\ mPreviewWindow = None /\ mPreviewHeap = "none"
  /\ mSkipFrame = 0
  /\ mRecordRunning = FALSE
  /\ mCaptureInProgress = FALSE
  /\ mMsgEnabled = FALSE
  /\ m_flag_camera_start = 0 /\ m_flag_record_start = 0
  /\ device = "idle" /\ recording = FALSE
  /\ buffer = [b \in Buffers |-> "off"]
  /\ preview = "born" /\ dequeued = None /\ frame = None /\ early = FALSE
  /\ picture = "off" /\ exitPending = FALSE
  /\ focus = "enter" /\ focusing = FALSE
  /\ mExitAutoFocusThread = FALSE

NewInterface ==
  /\ mPreviewLock' = NoOne /\ mRecordLock' = NoOne
  /\ mPreviewRunning' = FALSE /\ mPreviewStartDeferred' = FALSE
  /\ mExitPreviewThread' = FALSE
  /\ mPreviewWindow' = None /\ mPreviewHeap' = "none"
  /\ mSkipFrame' = 0
  /\ mRecordRunning' = FALSE
  /\ mCaptureInProgress' = FALSE
  /\ mMsgEnabled' = FALSE
  /\ preview' = "born" /\ dequeued' = None /\ frame' = None /\ early' = FALSE
  /\ picture' = "off" /\ exitPending' = FALSE
  /\ focus' = "enter" /\ focusing' = FALSE
  /\ mExitAutoFocusThread' = FALSE
-----------------------------------------------------------------------------
(* SecCamera.  An operation is the set of what it can come to.             *)

(* startPreview: the ioctls before STREAMON, those between it and the      *)
(* flag, and those after the flag may fail; STREAMON fails when the file   *)
(* streams already.                                                        *)
StartsPreview ==
  IF m_flag_camera_start > 0
  THEN {[ok |-> TRUE, flag |-> m_flag_camera_start, device |-> device]}
  ELSE IF device # "idle"
  THEN {[ok |-> FALSE, flag |-> 0, device |-> device]}
  ELSE {[ok |-> TRUE, flag |-> 1, device |-> "preview"]}
       \cup (IF "start" \in Faults
             THEN {[ok |-> FALSE, flag |-> 0, device |-> "idle"],
                   [ok |-> FALSE, flag |-> 0, device |-> "preview"],
                   [ok |-> FALSE, flag |-> 1, device |-> "preview"]}
             ELSE {})

(* stopPreview: nothing without the flag, else STREAMOFF.                  *)
StopsPreview ==
  IF m_flag_camera_start = 0
  THEN {[flag |-> 0, device |-> device]}
  ELSE {[flag |-> 0, device |-> "idle"]}
       \cup (IF "stop" \in Faults
             THEN {[flag |-> m_flag_camera_start, device |-> device]}
             ELSE {})

Streams(r) == m_flag_camera_start' = r.flag /\ device' = r.device

(* startRecord: the flag is set after everything else.                     *)
StartsRecord ==
  IF m_flag_record_start > 0
  THEN {[ok |-> TRUE, flag |-> m_flag_record_start, on |-> recording]}
  ELSE IF recording
  THEN {[ok |-> FALSE, flag |-> 0, on |-> TRUE]}
  ELSE {[ok |-> TRUE, flag |-> 1, on |-> TRUE]}
       \cup (IF "record" \in Faults
             THEN {[ok |-> FALSE, flag |-> 0, on |-> FALSE],
                   [ok |-> FALSE, flag |-> 0, on |-> TRUE]}
             ELSE {})

(* stopRecord: the flag is reset after autofocus is stopped and before     *)
(* STREAMOFF and the frame rate.                                           *)
StopsRecord ==
  IF m_flag_record_start = 0
  THEN {[ok |-> TRUE, flag |-> 0, on |-> recording]}
  ELSE {[ok |-> TRUE, flag |-> 0, on |-> FALSE]}
       \cup (IF "record" \in Faults
             THEN {[ok |-> FALSE, flag |-> m_flag_record_start, on |-> recording],
                   [ok |-> FALSE, flag |-> 0, on |-> recording],
                   [ok |-> FALSE, flag |-> 0, on |-> FALSE]}
             ELSE {})

(* All buffers are queued before STREAMON, and leave the queue with        *)
(* STREAMOFF.                                                              *)
Records(r) ==
  /\ m_flag_record_start' = r.flag
  /\ recording' = r.on
  /\ buffer' = [b \in Buffers |->
                  CASE r.on /\ ~recording                        -> "queued"
                    [] recording /\ ~r.on /\ buffer[b] = "queued" -> "off"
                    [] OTHER                                     -> buffer[b]]

(* releaseRecordFrame: once the recording is stopped the device does not   *)
(* expect the buffer.                                                      *)
Requeued_Unchecked(b) == [buffer EXCEPT ![b] = "queued"]
Requeued_Dropped(b) == [buffer EXCEPT ![b] = "off"]
Requeued(b) == [buffer EXCEPT ![b] = IF m_flag_record_start = 0 THEN "off" ELSE "queued"]
-----------------------------------------------------------------------------
(* Locks and conditions.                                                   *)

TakePreviewLock(t) == mPreviewLock = NoOne /\ mPreviewLock' = t
GivePreviewLock == mPreviewLock' = NoOne
RecordLockFree_Ignored == TRUE
RecordLockFree == mRecordLock = NoOne

(* mPreviewCondition.signal()                                              *)
SignalPreview == preview' = IF preview = "asleep" THEN "woken" ELSE preview

(* mPreviewStoppedCondition.signal()                                       *)
SignalStopped_Lost == UNCHANGED client
SignalStopped == client' = IF client = "stopWait" THEN "stopWoken" ELSE client

(* mFocusCondition.signal()                                                *)
SignalFocus == focus' = IF focus = "asleep" THEN "woken" ELSE focus

Calling(c, at) ==
  /\ c \in Calls
  /\ client = "idle"
  /\ call' = c
  /\ client' = at

Return == client' = "idle" /\ call' = "none"
-----------------------------------------------------------------------------
(* The client: preview.                                                    *)

(* An orderly client does not stop the preview while it records: the       *)
(* preview thread may wait for a frame that only the client can give back. *)
MayStop == Orderly => ~mRecordRunning

(* The window is replaced before the lock is taken.                        *)
setPreviewWindow(w) ==
  /\ MayStop
  /\ IF w = None
     THEN "setPreviewWindow" \in Calls /\ client = "idle" /\ UNCHANGED clientVars
     ELSE Calling("setPreviewWindow", "lock")
  /\ mPreviewWindow' = w
  /\ UNCHANGED <<lockVars, previewVars, mPreviewHeap, mSkipFrame, sharedVars,
                 streamVars, threadVars, workerVars>>

(* startPreview first waits for the picture, stopPreview and takePicture   *)
(* first stop the preview.                                                 *)
CallsPreview ==
  /\ \/ Calling("startPreview", "waitCapture")
     \/ MayStop /\ Calling("stopPreview", "lock")
     \/ MayStop /\ Calling("takePicture", "lock")
  /\ UNCHANGED <<lockVars, halVars, sharedVars, streamVars, threadVars,
                 workerVars>>

ClientLocks ==
  /\ \/ client = "lock" /\ client' = "locked"
     \/ client = "stopWoken" /\ client' = "stopped"
  /\ TakePreviewLock("client")
  /\ UNCHANGED <<call, mRecordLock, halVars, sharedVars, streamVars, threadVars,
                 workerVars>>

(* Whether the call stops the preview: setPreviewWindow does not stop one  *)
(* that has been put off.                                                  *)
ToStop_NotWindow == call \in {"stopPreview", "takePicture"}
ToStop == \/ call \in {"stopPreview", "takePicture"}
          \/ call = "setPreviewWindow" /\ mPreviewRunning /\ ~mPreviewStartDeferred

(* It waits for the thread unless the preview has been put off.            *)
MustWait_Never == FALSE
MustWait == mPreviewRunning /\ ~mPreviewStartDeferred

(* stopPreviewInternal up to its wait.                                     *)
stopPreviewInternal ==
  /\ client = "locked" /\ ToStop
  /\ mPreviewRunning' = FALSE
  /\ IF MustWait
     THEN SignalPreview /\ GivePreviewLock /\ client' = "stopWait"
     ELSE client' = "stopped" /\ UNCHANGED <<preview, mPreviewLock>>
  /\ UNCHANGED <<call, mRecordLock, mPreviewStartDeferred, mExitPreviewThread,
                 mPreviewWindow, mPreviewHeap, mSkipFrame, sharedVars,
                 streamVars, heldVars, workerVars>>

Stopped ==
  /\ client = "stopped" /\ call \in {"stopPreview", "takePicture"}
  /\ GivePreviewLock
  /\ IF call = "stopPreview" THEN Return ELSE client' = "waitCapture" /\ UNCHANGED call
  /\ UNCHANGED <<mRecordLock, halVars, sharedVars, streamVars, threadVars,
                 workerVars>>

(* The rest of setPreviewWindow.  When a call of the window fails it       *)
(* returns without giving the lock back.                                   *)
Configure ==
  /\ call = "setPreviewWindow"
  /\ client \in (IF ToStop THEN {"stopped"} ELSE {"stopped", "locked"})
  /\ \/ /\ mPreviewRunning /\ mPreviewStartDeferred
        /\ client' = "starting"
        /\ UNCHANGED <<call, mPreviewLock>>
     \/ ~(mPreviewRunning /\ mPreviewStartDeferred) /\ Return /\ GivePreviewLock
     \/ "window" \in Faults /\ Return /\ UNCHANGED mPreviewLock
  /\ UNCHANGED <<mRecordLock, halVars, sharedVars, streamVars, threadVars,
                 workerVars>>

startPreview ==
  /\ client = "locked" /\ call = "startPreview"
  /\ IF mPreviewRunning
     THEN Return /\ GivePreviewLock /\ UNCHANGED <<mPreviewRunning, mPreviewStartDeferred>>
     ELSE /\ mPreviewRunning' = TRUE
          /\ mPreviewStartDeferred' = (mPreviewWindow = None)
          /\ IF mPreviewWindow = None
             THEN Return /\ GivePreviewLock
             ELSE client' = "starting" /\ UNCHANGED <<call, mPreviewLock>>
  /\ UNCHANGED <<mRecordLock, mExitPreviewThread, mPreviewWindow, mPreviewHeap,
                 mSkipFrame, sharedVars, streamVars, threadVars, workerVars>>

(* startPreviewInternal: the device streams before the heap is replaced.   *)
(* When SecCamera::startPreview fails mPreviewRunning and                  *)
(* mPreviewStartDeferred stay as they are.                                 *)
startPreviewInternal ==
  /\ client = "starting"
  /\ \E r \in StartsPreview :
       /\ Streams(r)
       /\ IF r.ok
          THEN client' = "streaming" /\ UNCHANGED <<call, mPreviewLock>>
          ELSE Return /\ GivePreviewLock
  /\ UNCHANGED <<mRecordLock, halVars, sharedVars, threadVars, workerVars>>

setSkipFrame ==
  /\ client = "streaming" /\ client' = "heap"
  /\ mSkipFrame' = IF INITIAL_SKIP_FRAME < mSkipFrame THEN mSkipFrame ELSE INITIAL_SKIP_FRAME
  /\ UNCHANGED <<call, lockVars, previewVars, mPreviewWindow, mPreviewHeap,
                 sharedVars, streamVars, threadVars, workerVars>>

ReleaseHeap ==
  /\ client = "heap" /\ client' = "noHeap"
  /\ mPreviewHeap' = "none"
  /\ UNCHANGED <<call, lockVars, previewVars, mPreviewWindow, mSkipFrame,
                 sharedVars, streamVars, threadVars, workerVars>>

(* The new heap, and the end of the two callers.                           *)
RequestHeap ==
  /\ client = "noHeap"
  /\ mPreviewHeap' = "mapped"
  /\ mPreviewStartDeferred' = FALSE
  /\ SignalPreview
  /\ Return /\ GivePreviewLock
  /\ UNCHANGED <<mRecordLock, mPreviewRunning, mExitPreviewThread, mPreviewWindow,
                 mSkipFrame, sharedVars, streamVars, heldVars, workerVars>>
-----------------------------------------------------------------------------
(* The client: pictures.                                                   *)

CaptureOver_Always == TRUE
CaptureOver == ~mCaptureInProgress

(* waitCaptureCompletion, which gives up after five seconds.               *)
waitCaptureCompletion ==
  /\ client = "waitCapture"
  /\ IF CaptureOver
     THEN /\ client' = IF call = "startPreview" THEN "lock" ELSE "run"
          /\ UNCHANGED call
     ELSE Return
  /\ UNCHANGED <<lockVars, halVars, sharedVars, streamVars, threadVars,
                 workerVars>>

(* mPictureThread->run(), which refuses to run a thread that has not       *)
(* ended.                                                                  *)
RunPicture ==
  /\ client = "run"
  /\ IF picture = "off"
     THEN /\ picture' = "born" /\ exitPending' = FALSE
          /\ client' = "started" /\ UNCHANGED call
     ELSE Return /\ UNCHANGED pictureVars
  /\ UNCHANGED <<lockVars, halVars, sharedVars, streamVars, threadVars,
                 focusVars>>

takePicture ==
  /\ client = "started"
  /\ mCaptureInProgress' = TRUE
  /\ Return
  /\ UNCHANGED <<lockVars, halVars, recordVars, mMsgEnabled, streamVars,
                 threadVars, workerVars>>

(* requestExitAndWait() of the picture thread.                             *)
cancelPicture ==
  /\ Calling("cancelPicture", "join")
  /\ exitPending' = TRUE
  /\ UNCHANGED <<lockVars, halVars, sharedVars, streamVars, threadVars,
                 picture, focusVars>>

JoinPicture ==
  /\ client = "join" /\ picture = "off"
  /\ exitPending' = FALSE
  /\ IF call = "cancelPicture" THEN Return ELSE client' = "deinit" /\ UNCHANGED call
  /\ UNCHANGED <<lockVars, halVars, sharedVars, streamVars, threadVars,
                 picture, focusVars>>
-----------------------------------------------------------------------------
(* The client: recording.                                                  *)

(* An orderly client enables the message before it records, gives all      *)
(* frames back before it disables it, disables it before it stops the      *)
(* recording, and does not start a recording twice.                        *)
enableMsgType ==
  /\ "startRecording" \in Calls /\ client = "idle"
  /\ ~mMsgEnabled /\ (Orderly => ~mRecordRunning)
  /\ mMsgEnabled' = TRUE
  /\ UNCHANGED <<clientVars, lockVars, halVars, recordVars, mCaptureInProgress,
                 streamVars, threadVars, workerVars>>

disableMsgType ==
  /\ client = "idle"
  /\ mMsgEnabled /\ (Orderly => \A b \in Buffers : buffer[b] # "client")
  /\ mMsgEnabled' = FALSE
  /\ UNCHANGED <<clientVars, lockVars, halVars, recordVars, mCaptureInProgress,
                 streamVars, threadVars, workerVars>>

CallsRecording ==
  /\ \/ Calling("startRecording", "record") /\ (Orderly => ~mRecordRunning)
     \/ Calling("stopRecording", "record") /\ (Orderly => ~mMsgEnabled)
  /\ UNCHANGED <<lockVars, halVars, sharedVars, streamVars, threadVars,
                 workerVars>>

(* Both hold mRecordLock from the first to the last line.  startRecording  *)
(* replaces mRecordHeap before it looks whether it records already; the    *)
(* preview thread uses that heap only under the same lock.                 *)
startRecording ==
  /\ client = "record" /\ call = "startRecording" /\ RecordLockFree
  /\ \/ mRecordRunning /\ UNCHANGED recordVars
     \/ /\ ~mRecordRunning
        /\ \E r \in StartsRecord : Records(r) /\ mRecordRunning' = r.ok
     \/ "record" \in Faults /\ UNCHANGED recordVars    \* no mRecordHeap
  /\ Return
  /\ UNCHANGED <<lockVars, halVars, mCaptureInProgress, mMsgEnabled, streamVars,
                 threadVars, workerVars>>

stopRecording ==
  /\ client = "record" /\ call = "stopRecording" /\ RecordLockFree
  /\ IF mRecordRunning
     THEN \E r \in StopsRecord : Records(r) /\ mRecordRunning' = ~r.ok
     ELSE UNCHANGED recordVars
  /\ Return
  /\ UNCHANGED <<lockVars, halVars, mCaptureInProgress, mMsgEnabled, streamVars,
                 threadVars, workerVars>>

(* An orderly client does not touch a frame when the message is disabled.  *)
releaseRecordingFrame(b) ==
  /\ client = "idle"
  /\ buffer[b] = "client" /\ (Orderly => mMsgEnabled)
  /\ buffer' = Requeued(b)
  /\ UNCHANGED <<clientVars, lockVars, halVars, mRecordRunning,
                 m_flag_record_start, recording, mCaptureInProgress,
                 mMsgEnabled, streamVars, threadVars, workerVars>>
-----------------------------------------------------------------------------
(* The client: autofocus.                                                  *)

(* A signal finds the thread asleep or is lost.                            *)
autoFocus ==
  /\ "autoFocus" \in Calls /\ client = "idle"
  /\ SignalFocus
  /\ UNCHANGED <<clientVars, lockVars, halVars, sharedVars, streamVars,
                 threadVars, pictureVars, focusing, mExitAutoFocusThread>>

(* It does nothing while the preview is put off.                           *)
cancelAutoFocus ==
  /\ "cancelAutoFocus" \in Calls /\ client = "idle"
  /\ ~(mPreviewRunning /\ mPreviewStartDeferred)
  /\ focusing' = FALSE
  /\ UNCHANGED <<clientVars, lockVars, halVars, sharedVars, streamVars,
                 threadVars, pictureVars, focus, mExitAutoFocusThread>>
-----------------------------------------------------------------------------
(* The client: release.                                                    *)

(* Nothing of this is done under mPreviewLock.                             *)
release ==
  /\ Calling("release", "signal")
  /\ mExitPreviewThread' = TRUE
  /\ mPreviewRunning' = TRUE
  /\ UNCHANGED <<lockVars, mPreviewStartDeferred, mPreviewWindow, mPreviewHeap,
                 mSkipFrame, sharedVars, streamVars, threadVars, workerVars>>

SignalExit ==
  /\ client = "signal"
  /\ SignalPreview
  /\ client' = "joinPreview"
  /\ UNCHANGED <<call, lockVars, halVars, sharedVars, streamVars, heldVars,
                 workerVars>>

JoinPreview ==
  /\ client = "joinPreview" /\ preview = "gone"
  /\ client' = "signalFocus"
  /\ UNCHANGED <<call, lockVars, halVars, sharedVars, streamVars, threadVars,
                 workerVars>>

(* Unlike that of the preview thread this is done under the lock, which    *)
(* the focus thread holds from its test to its wait.                       *)
SignalFocusExit ==
  /\ client = "signalFocus"
  /\ mExitAutoFocusThread' = TRUE
  /\ SignalFocus
  /\ client' = "joinFocus"
  /\ UNCHANGED <<call, lockVars, halVars, sharedVars, streamVars, threadVars,
                 pictureVars, focusing>>

JoinFocus ==
  /\ client = "joinFocus" /\ focus = "gone"
  /\ exitPending' = TRUE
  /\ client' = "join"
  /\ UNCHANGED <<call, lockVars, halVars, sharedVars, streamVars, threadVars,
                 picture, focusVars>>

(* The heaps go and DeinitCamera closes the files.                         *)
DeinitCamera ==
  /\ client = "deinit"
  /\ \E r \in StopsRecord : m_flag_record_start' = r.flag
  /\ recording' = FALSE
  /\ buffer' = [b \in Buffers |-> "off"]
  /\ device' = "idle"
  /\ mPreviewHeap' = "none"
  /\ client' = "released"
  /\ UNCHANGED <<call, lockVars, previewVars, mPreviewWindow, mSkipFrame,
                 mRecordRunning, mCaptureInProgress, mMsgEnabled,
                 m_flag_camera_start, threadVars, workerVars>>

(* HAL_camera_device_close deletes the interface; SecCamera is there once  *)
(* and stays, with its flags.                                              *)
Close ==
  /\ client = "released" /\ client' = "closed"
  /\ UNCHANGED <<call, lockVars, halVars, sharedVars, streamVars, threadVars,
                 workerVars>>

(* HAL_camera_device_open makes a new interface, with new threads; initCamera *)
(* opens the files.                                                        *)
Open ==
  /\ "open" \in Calls
  /\ client = "closed"
  /\ client' = "idle" /\ call' = "none"
  /\ NewInterface
  /\ UNCHANGED <<m_flag_camera_start, m_flag_record_start, device, recording, buffer>>
-----------------------------------------------------------------------------
(* The preview thread.                                                     *)

Goes(from, to) == preview = from /\ preview' = to

(* The thread starts; a thread asked to exit before that does not enter    *)
(* its loop.                                                               *)
PreviewBegins ==
  /\ \/ ~mExitPreviewThread /\ Goes("born", "loop")
     \/ mExitPreviewThread /\ Goes("born", "gone")
  /\ UNCHANGED <<clientVars, lockVars, halVars, sharedVars, streamVars,
                 heldVars, workerVars>>

PreviewLocks ==
  /\ \E from \in {"loop", "woken"} : Goes(from, "test")
  /\ TakePreviewLock("preview")
  /\ UNCHANGED <<clientVars, mRecordLock, halVars, sharedVars, streamVars,
                 heldVars, workerVars>>

(* while (!mPreviewRunning), with the stopPreview in it.  The test does not*)
(* ask whether the preview has been put off.                               *)
PreviewTests ==
  /\ \/ /\ mPreviewRunning /\ Goes("test", "exit") /\ GivePreviewLock
        /\ early' = mPreviewStartDeferred
        /\ UNCHANGED streamVars
     \/ /\ ~mPreviewRunning /\ Goes("test", "park")
        /\ \E r \in StopsPreview : Streams(r)
        /\ UNCHANGED <<mPreviewLock, early>>
  /\ UNCHANGED <<clientVars, mRecordLock, halVars, sharedVars, dequeued, frame,
                 workerVars>>

PreviewWaits ==
  /\ Goes("park", "asleep")
  /\ SignalStopped
  /\ GivePreviewLock
  /\ UNCHANGED <<call, mRecordLock, halVars, sharedVars, streamVars, heldVars,
                 workerVars>>

PreviewExits ==
  /\ \/ ~mExitPreviewThread /\ Goes("exit", "getPreview") /\ UNCHANGED streamVars
     \/ mExitPreviewThread /\ Goes("exit", "gone") /\ \E r \in StopsPreview : Streams(r)
  /\ UNCHANGED <<clientVars, lockVars, halVars, sharedVars, heldVars,
                 workerVars>>

(* SecCamera::getPreview: a frame, or the reset of the device when there   *)
(* is no preview or has been no frame for a second.                        *)
getPreview ==
  /\ \/ m_flag_camera_start = 0 /\ Goes("getPreview", "reset")
     \/ "stall" \in Faults /\ Goes("getPreview", "reset")
     \/ m_flag_camera_start > 0 /\ device = "preview" /\ Goes("getPreview", "skip")
     \/ /\ device # "preview" \/ "frame" \in Faults
        /\ m_flag_camera_start > 0 /\ Goes("getPreview", "loop")
  /\ UNCHANGED <<clientVars, lockVars, halVars, sharedVars, streamVars,
                 heldVars, workerVars>>

(* The reset: it goes on when fimc_v4l2_enuminput gives no name, and gives *)
(* up when it does.                                                        *)
Reset ==
  /\ \E r \in StopsPreview : Streams(r)
  /\ \/ Goes("reset", "loop")
     \/ "input" \in Faults /\ Goes("reset", "restart")
  /\ UNCHANGED <<clientVars, lockVars, halVars, sharedVars, heldVars,
                 workerVars>>

(* startPreview of the reset.  When it fails getPreview returns 0, which   *)
(* is the index of a frame.                                                *)
Restart ==
  /\ preview = "restart"
  /\ \E r \in StartsPreview :
       /\ Streams(r)
       /\ preview' \in IF r.ok THEN {"skip", "loop"} ELSE {"skip"}
  /\ UNCHANGED <<clientVars, lockVars, halVars, sharedVars, heldVars,
                 workerVars>>

SkipFrame ==
  /\ \/ mSkipFrame > 0 /\ mSkipFrame' = mSkipFrame - 1 /\ Goes("skip", "loop")
     \/ mSkipFrame = 0 /\ UNCHANGED mSkipFrame /\ Goes("skip", "window")
     \/ /\ "frame" \in Faults
        /\ mSkipFrame = 0 /\ UNCHANGED mSkipFrame /\ Goes("skip", "loop")
  /\ UNCHANGED <<clientVars, lockVars, previewVars, mPreviewWindow, mPreviewHeap,
                 sharedVars, streamVars, heldVars, workerVars>>

(* A NULL pointer is followed: the process ends.                           *)
Dies(from, how) == Goes(from, how) /\ client' = "dead"

(* mPreviewWindow is read for the test, for dequeue_buffer and for         *)
(* enqueue_buffer.                                                         *)
TestWindow ==
  /\ \/ mPreviewWindow # None /\ Goes("window", "dequeue")
     \/ mPreviewWindow = None /\ Goes("window", "callback")
  /\ UNCHANGED <<clientVars, lockVars, halVars, sharedVars, streamVars,
                 heldVars, workerVars>>

DequeueBuffer ==
  /\ \/ /\ mPreviewWindow # None /\ dequeued' = mPreviewWindow
        /\ Goes("dequeue", "copy") /\ UNCHANGED client
     \/ /\ mPreviewWindow # None /\ "window" \in Faults
        /\ Goes("dequeue", "callback") /\ UNCHANGED <<client, dequeued>>
     \/ mPreviewWindow = None /\ Dies("dequeue", "nullWindow") /\ UNCHANGED dequeued
  /\ UNCHANGED <<call, lockVars, halVars, sharedVars, streamVars, frame, early,
                 workerVars>>

(* The frame is copied from mPreviewHeap, unless the buffer of the window  *)
(* cannot be locked.                                                       *)
CopyFrame ==
  /\ \/ /\ mPreviewHeap = "mapped" \/ "window" \in Faults
        /\ Goes("copy", "enqueue") /\ UNCHANGED client
     \/ mPreviewHeap = "none" /\ Dies("copy", "nullHeap")
  /\ UNCHANGED <<call, lockVars, halVars, sharedVars, streamVars, heldVars,
                 workerVars>>

EnqueueBuffer ==
  /\ \/ mPreviewWindow # None /\ Goes("enqueue", "callback") /\ UNCHANGED client
     \/ mPreviewWindow = None /\ Dies("enqueue", "nullWindow")
  /\ dequeued' = None
  /\ UNCHANGED <<call, lockVars, halVars, sharedVars, streamVars, frame, early,
                 workerVars>>

(* The callback for the preview frame gives the client mPreviewHeap, when  *)
(* it has asked for frames.                                                *)
PreviewFrame ==
  /\ \/ Goes("callback", "recordLock") /\ UNCHANGED client
     \/ mPreviewHeap = "none" /\ Dies("callback", "nullHeap")
  /\ UNCHANGED <<call, lockVars, halVars, sharedVars, streamVars, heldVars,
                 workerVars>>

LockRecord ==
  /\ RecordLockFree
  /\ IF mRecordRunning /\ m_flag_record_start > 0
     THEN mRecordLock' = "preview" /\ Goes("recordLock", "getRecordFrame")
     ELSE Goes("recordLock", "loop") /\ UNCHANGED mRecordLock
  /\ UNCHANGED <<clientVars, mPreviewLock, halVars, sharedVars, streamVars,
                 heldVars, workerVars>>

(* getRecordFrame: DQBUF waits for a buffer, under mRecordLock,            *)
(* and fails when the file does not stream.                                *)
getRecordFrame ==
  /\ \/ /\ Goes("getRecordFrame", "recorded") /\ recording
        /\ \E b \in Buffers :
             /\ buffer[b] = "queued"
             /\ frame' = b
             /\ buffer' = [buffer EXCEPT ![b] = "taken"]
        /\ UNCHANGED mRecordLock
     \/ /\ Goes("getRecordFrame", "loop") /\ ~recording
        /\ mRecordLock' = NoOne
        /\ UNCHANGED <<frame, buffer>>
  /\ UNCHANGED <<clientVars, mPreviewLock, halVars, mRecordRunning,
                 m_flag_record_start, recording, mCaptureInProgress,
                 mMsgEnabled, streamVars, dequeued, early, workerVars>>

(* A frame without an address is dropped, and its buffer is not queued     *)
(* again.                                                                  *)
RecordFrame ==
  /\ preview = "recorded"
  /\ \/ mMsgEnabled /\ preview' = "send" /\ UNCHANGED <<buffer, frame, mRecordLock>>
     \/ /\ ~mMsgEnabled
        /\ buffer' = Requeued(frame)
        /\ preview' = "loop" /\ frame' = None /\ mRecordLock' = NoOne
     \/ /\ "address" \in Faults
        /\ buffer' = [buffer EXCEPT ![frame] = "lost"]
        /\ preview' = "loop" /\ frame' = None /\ mRecordLock' = NoOne
  /\ UNCHANGED <<clientVars, mPreviewLock, halVars, mRecordRunning,
                 m_flag_record_start, recording, mCaptureInProgress,
                 mMsgEnabled, streamVars, dequeued, early, workerVars>>

(* mDataCbTimestamp                                                        *)
SendFrame ==
  /\ Goes("send", "loop")
  /\ buffer' = [buffer EXCEPT ![frame] = "client"]
  /\ frame' = None /\ mRecordLock' = NoOne
  /\ UNCHANGED <<clientVars, mPreviewLock, halVars, mRecordRunning,
                 m_flag_record_start, recording, mCaptureInProgress,
                 mMsgEnabled, streamVars, dequeued, early, workerVars>>
-----------------------------------------------------------------------------
(* The picture thread.                                                     *)

(* A thread asked to exit before it runs does not run pictureThread.       *)
PictureBegins ==
  /\ picture = "born"
  /\ picture' = IF exitPending THEN "over" ELSE "snapshot"
  /\ UNCHANGED <<clientVars, lockVars, halVars, sharedVars, streamVars,
                 threadVars, exitPending, focusVars>>

(* setSnapshotCmd, or the first half of getSnapshotAndJpeg: a preview is   *)
(* stopped first.                                                          *)
setSnapshotCmd ==
  /\ picture = "snapshot"
  /\ \E r \in StopsPreview :
       /\ m_flag_camera_start' = r.flag
       /\ \/ r.device = "idle" /\ device' = "capture" /\ picture' = "getJpeg"
          \/ /\ r.device # "idle" \/ "capture" \in Faults
             /\ device' = r.device /\ picture' \in {"getJpeg", "done"}
  /\ UNCHANGED <<clientVars, lockVars, halVars, sharedVars, threadVars,
                 exitPending, focusVars>>

(* getJpeg, or the second half, and the callbacks.  When it fails nothing  *)
(* stops the stream.                                                       *)
getJpeg ==
  /\ picture = "getJpeg"
  /\ picture' = "done"
  /\ \/ device = "capture" /\ device' = "idle"
     \/ (device # "capture" \/ "capture" \in Faults) /\ UNCHANGED device
  /\ UNCHANGED <<clientVars, lockVars, halVars, sharedVars, m_flag_camera_start,
                 threadVars, exitPending, focusVars>>

pictureThread ==
  /\ picture = "done"
  /\ mCaptureInProgress' = FALSE
  /\ picture' = "over"
  /\ UNCHANGED <<clientVars, lockVars, halVars, recordVars, mMsgEnabled,
                 streamVars, threadVars, exitPending, focusVars>>

PictureEnds ==
  /\ picture = "over"
  /\ picture' = "off"
  /\ UNCHANGED <<clientVars, lockVars, halVars, sharedVars, streamVars,
                 threadVars, exitPending, focusVars>>
-----------------------------------------------------------------------------
(* The focus thread.  exitPending is looked at when a loop ends; it is set *)
(* with mExitAutoFocusThread.                                              *)

(* The loop is run again and again, unlike that of the picture thread.     *)
Again == IF mExitAutoFocusThread THEN "gone" ELSE "enter"

(* Before the wait and after it the thread looks whether it is to exit.    *)
ToExit_AfterWait == mExitAutoFocusThread /\ focus = "woken"
ToExit == mExitAutoFocusThread

FocusWaits ==
  /\ focus = "enter"
  /\ focus' = IF ToExit THEN "gone" ELSE "asleep"
  /\ UNCHANGED <<clientVars, lockVars, halVars, sharedVars, streamVars,
                 threadVars, pictureVars, focusing, mExitAutoFocusThread>>

(* When setAutofocus fails the client is told nothing.                     *)
setAutofocus ==
  /\ focus = "woken"
  /\ \/ ToExit /\ focus' = "gone" /\ UNCHANGED focusing
     \/ ~ToExit /\ focus' = "result" /\ focusing' = TRUE
     \/ "focus" \in Faults /\ focus' = Again /\ UNCHANGED focusing
  /\ UNCHANGED <<clientVars, lockVars, halVars, sharedVars, streamVars,
                 threadVars, pictureVars, mExitAutoFocusThread>>

(* The device is asked until it has a result, a number of times at most; a *)
(* timeout goes the way of a result: V4L2_CID_CAMERA_FINISH_AUTO_FOCUS and *)
(* the message to the client.                                              *)
Finished_NotAtTimeout == {FALSE, focusing}
Finished == {FALSE}

getAutoFocusResult ==
  /\ focus = "result"
  /\ focus' = Again
  /\ focusing' \in Finished
  /\ UNCHANGED <<clientVars, lockVars, halVars, sharedVars, streamVars,
                 threadVars, pictureVars, mExitAutoFocusThread>>
-----------------------------------------------------------------------------
ClientStep ==
  \/ ClientLocks \/ stopPreviewInternal \/ Stopped \/ Configure \/ startPreview
  \/ startPreviewInternal \/ setSkipFrame \/ ReleaseHeap \/ RequestHeap
  \/ waitCaptureCompletion \/ RunPicture \/ takePicture
  \/ JoinPicture \/ startRecording \/ stopRecording \/ SignalExit \/ JoinPreview
  \/ SignalFocusExit \/ JoinFocus \/ DeinitCamera \/ Close

ClientCall ==
  \/ \E w \in Windows \cup {None} : setPreviewWindow(w)
  \/ CallsPreview \/ cancelPicture \/ enableMsgType \/ disableMsgType \/ CallsRecording
  \/ \E b \in Buffers : releaseRecordingFrame(b)
  \/ autoFocus \/ cancelAutoFocus \/ release \/ Open

PreviewStep ==
  \/ PreviewBegins \/ PreviewLocks \/ PreviewTests \/ PreviewWaits \/ PreviewExits
  \/ getPreview \/ Reset \/ Restart \/ SkipFrame
  \/ TestWindow \/ DequeueBuffer \/ CopyFrame \/ EnqueueBuffer
  \/ PreviewFrame \/ LockRecord \/ getRecordFrame \/ RecordFrame \/ SendFrame

PictureStep ==
  /\ client # "dead"
  /\ PictureBegins \/ setSnapshotCmd \/ getJpeg \/ pictureThread \/ PictureEnds

FocusStep ==
  /\ client # "dead"
  /\ FocusWaits \/ setAutofocus \/ getAutoFocusResult

Next == ClientCall \/ ClientStep \/ PreviewStep \/ PictureStep \/ FocusStep

Spec == Init /\ [][Next]_vars

(* Every thread goes on.  A thread that waits for mPreviewLock gets it in  *)
(* time: the preview thread waits for each frame without it.  The client   *)
(* gives frames back, and disables the message some time.                  *)
FairSpec ==
  /\ Spec
  /\ SF_vars(ClientStep)
  /\ WF_vars(PreviewStep) /\ SF_vars(PreviewLocks)
  /\ WF_vars(PictureStep) /\ WF_vars(FocusStep)
  /\ WF_vars(disableMsgType)
  /\ \A b \in Buffers : SF_vars(releaseRecordingFrame(b))
-----------------------------------------------------------------------------
ClientPlaces == {"idle", "lock", "locked", "stopWait", "stopWoken", "stopped", "starting",
                 "streaming", "heap", "noHeap",
                 "waitCapture", "run", "started", "join", "record", "signal",
                 "joinPreview", "signalFocus", "joinFocus", "deinit", "released", "closed",
                 "dead"}
PreviewPlaces == {"born", "loop", "test", "park", "asleep", "woken", "exit", "getPreview",
                  "reset", "restart", "skip", "window", "dequeue", "copy", "enqueue",
                  "callback", "recordLock", "getRecordFrame", "recorded", "send", "gone",
                  "nullWindow", "nullHeap"}
FocusPlaces == {"enter", "asleep", "woken", "result", "gone"}
PicturePlaces == {"off", "born", "snapshot", "getJpeg", "done", "over"}

(* Each variable has its type, and a thread that is between lock and       *)
(* unlock is the holder of the lock.                                       *)
TypeOK ==
  /\ client \in ClientPlaces
  /\ preview \in PreviewPlaces
  /\ picture \in PicturePlaces /\ exitPending \in BOOLEAN
  /\ focus \in FocusPlaces
  /\ focusing \in BOOLEAN /\ mExitAutoFocusThread \in BOOLEAN
  /\ mPreviewLock \in {NoOne, "client", "preview"}
  /\ mRecordLock \in {NoOne, "preview"}
  /\ mPreviewRunning \in BOOLEAN /\ mPreviewStartDeferred \in BOOLEAN
  /\ mExitPreviewThread \in BOOLEAN /\ mCaptureInProgress \in BOOLEAN
  /\ mRecordRunning \in BOOLEAN /\ mMsgEnabled \in BOOLEAN /\ recording \in BOOLEAN
  /\ mPreviewWindow \in Windows \cup {None} /\ dequeued \in Windows \cup {None}
  /\ mPreviewHeap \in {"none", "mapped"} /\ early \in BOOLEAN
  /\ mSkipFrame \in 0 .. INITIAL_SKIP_FRAME
  /\ m_flag_camera_start \in 0 .. 1 /\ m_flag_record_start \in 0 .. 1
  /\ device \in {"idle", "preview", "capture"}
  /\ buffer \in [Buffers -> {"off", "queued", "taken", "client", "lost"}]
  /\ frame \in Buffers \cup {None}
  /\ client \in {"locked", "stopped", "starting", "streaming", "heap", "noHeap"}
       => mPreviewLock = "client"
  /\ preview \in {"test", "park"} <=> mPreviewLock = "preview"
  /\ preview \in {"getRecordFrame", "recorded", "send"} <=> mRecordLock = "preview"

Recording  == preview \in {"getRecordFrame", "recorded", "send"}
Delivering == Recording \/ preview \in {"window", "dequeue", "copy", "enqueue",
                                          "callback", "recordLock"}
Working    == Delivering \/ preview \in {"getPreview", "reset", "restart", "skip"}

(* stopPreview returns when the preview thread has stopped: a frame is on  *)
(* its way to the window or the client only while there is a preview, or   *)
(* while a call waits for the thread to stop.                              *)
NoFrameWhenStopped == Delivering => mPreviewRunning \/ client = "stopWait"

(* startPreview replaces mPreviewHeap while the device streams, and release*)
(* frees all heaps: there is a heap, and it is not about to go, while the  *)
(* preview thread copies from it or hands it to the client.  The stop      *)
(* handshake sees to that, but not for a thread that went past its test    *)
(* while the preview was put off: nobody waits for that one.               *)
HeapNotInUse ==
  /\ preview \in {"copy", "callback"} /\ ~early
       => mPreviewHeap = "mapped" /\ client \notin {"heap", "noHeap", "deinit"}
  /\ preview = "nullHeap" => early

(* A picture is taken while there is no preview: takePicture stops it and  *)
(* startPreview waits for the picture.                                     *)
CaptureAlone == picture \in {"snapshot", "getJpeg"} => device # "preview"

(* The preview thread takes and hands out recorded frames only between     *)
(* startRecording and stopRecording, and a buffer is queued only while the *)
(* device records: it "could crash" on one it does not expect (:1104).     *)
RecordedFrames ==
  /\ Recording => mRecordRunning
  /\ (\E b \in Buffers : buffer[b] = "queued") => recording

(* A buffer goes back to the window it came from, but for a window that is *)
(* being set: setPreviewWindow stops the preview before it returns, so that*)
(* the three reads of mPreviewWindow in a frame see one window or NULL.    *)
FrameOfWindow ==
  [][preview = "enqueue" /\ preview' = "callback" /\ call # "setPreviewWindow"
       => mPreviewWindow = dequeued]_vars

(* The focus thread does not sleep while release waits for it to exit: it  *)
(* is woken, or sees that it is to exit.  Nor does it sleep before it has  *)
(* told the device to end what setAutofocus began, at a timeout and after  *)
(* a cancel too.                                                           *)
FocusAsleep == focus = "asleep" => client # "joinFocus" /\ ~focusing

(* The stop handshake, the wait for the picture and mRecordLock: every     *)
(* call of the client comes to its end, as long as the process lives.      *)
CallsReturn == client # "idle" ~> client \in {"idle", "dead"}

(* The preview thread wakes for a preview that was started: frames reach   *)
(* the window, until the preview or the device stops.                      *)
PreviewServed ==
  mPreviewRunning /\ m_flag_camera_start = 1
    ~> Delivering \/ ~mPreviewRunning \/ m_flag_camera_start = 0 \/ client = "dead"

(* While the preview runs and the message is enabled, recorded frames go   *)
(* on to reach a client that gives them back.                              *)
RecordingFlows ==
  mRecordRunning /\ mMsgEnabled /\ Delivering
    ~> preview = "send" \/ ~mMsgEnabled \/ ~mRecordRunning \/ client = "dead"
-----------------------------------------------------------------------------
(* What the comments say and the code does not do.                         *)

(* recording_enabled returns true if recording is enabled: the device does *)
(* record, unless the start or the end of it failed in this session.       *)
RecordingHasStream == mRecordRunning /\ m_flag_record_start = 1 => recording

(* The buffer goes back to the window it came from: the preview is stopped *)
(* for a change of the window.                                             *)
SameWindow == preview = "enqueue" => mPreviewWindow \in {dequeued, None}

(* The window is tested before it is used: a window that is taken away is  *)
(* not.                                                                    *)
WindowNotNull == preview # "nullWindow"

(* mPreviewHeap is released before a new one is asked for, for a preview   *)
(* that has not begun: no frame is copied from it meanwhile.               *)
HeapAlwaysThere ==
  preview \in {"copy", "callback"} =>
    mPreviewHeap = "mapped" /\ client \notin {"heap", "noHeap", "deinit"}

(* mPreviewRunning says whether the preview thread is active or stopped:   *)
(* it works on frames only then, or until a call has waited for it.        *)
ActiveMeansRunning == Working => mPreviewRunning \/ client = "stopWait"

(* previewEnabled returns true if preview is enabled: it has been started, *)
(* unless it was put off for want of a window.                             *)
EnabledMeansStarted ==
  client = "idle" /\ mPreviewRunning /\ ~mPreviewStartDeferred => m_flag_camera_start = 1

(* When there is no data the driver is told so, and the preview is started *)
(* again.                                                                  *)
ResetRestarts == [][preview = "reset" => preview' \in {"reset", "restart"}]_vars

(* waitCaptureCompletion waits for the picture thread to complete.         *)
WaitsForPicture == client = "waitCapture" /\ mCaptureInProgress => picture # "off"

(* release wakes the preview thread so that it can exit.                   *)
ReleaseReturns == call = "release" ~> client = "released"

(* When CAMERA_MSG_VIDEO_FRAME is disabled the HAL takes care of the       *)
(* frames it has sent: the buffer of one serves again.                     *)
SentFramesManaged ==
  \A b \in Buffers :
    mRecordRunning /\ ~mMsgEnabled /\ buffer[b] = "client"
      ~> ~mRecordRunning \/ mMsgEnabled \/ buffer[b] # "client"
=============================================================================
