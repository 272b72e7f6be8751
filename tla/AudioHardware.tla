---------------------------- MODULE AudioHardware ----------------------------
(***************************************************************************)
(* The locking and the shared device of the audio HAL                      *)
(* (src/libaudio/AudioHardware.cpp): one AudioHardware object, the output  *)
(* and input streams it owns, and the threads of the audio server that     *)
(* call them.                                                              *)
(*                                                                         *)
(* There is one mutex per stream and one of the hardware object; the code  *)
(* keeps the order out -> in -> hw, so a thread that holds the hardware    *)
(* lock and finds it needs a stream drops the hardware lock, takes the     *)
(* stream's, takes the hardware lock again and checks that nothing moved   *)
(* meanwhile.  A step of the model is the code from one lock acquisition   *)
(* to the next; what is read and written in between is under the locks     *)
(* just taken.                                                             *)
(*                                                                         *)
(* Streams are held by reference-counting pointers: whoever drops the last *)
(* one runs the destructor, which puts the stream in standby and so takes  *)
(* the stream's lock and the hardware lock.                                *)
(*                                                                         *)
(* Not here: which route or input source the mixer is set to, the volume   *)
(* and the radio (they change no lock and no count), the FM radio, and the *)
(* 10 ms sleep that mSleepReq asks of write() and read().                  *)
(***************************************************************************)
EXTENDS Integers, FiniteSets

CONSTANTS Threads,   \* threads of the audio server
          Outs,      \* AudioStreamOutALSA objects that may exist at one time
          Ins,       \* AudioStreamInALSA objects that may exist at one time
          EchoRefs,  \* echo references the effects library may hand out
          None,      \* the null pointer; a free lock
          Player,    \* the thread that calls write() on the output
          Recorder,  \* the thread that calls read() on the input
          Ops,       \* the entry points the threads call in this instance
          Faults     \* the driver calls that may fail in this instance

Modes == {"NORMAL", "RINGTONE", "IN_CALL"}

AllOps == {"write", "outStandby", "outRouting", "read", "inStandby", "inRouting",
           "inSource", "addAec", "removeAec", "setMode", "setMicMute",
           "openOut", "closeOut", "openIn", "closeIn"}

AllFaults == {"pcmOut", "pcmIn", "mixer", "io", "echo"}

ASSUME ConstantsAssumption ==
  /\ None \notin Threads \cup Outs \cup Ins \cup EchoRefs
  /\ Outs \cap Ins = {}
  /\ IsFiniteSet(Outs) /\ IsFiniteSet(Ins)
  /\ Player \in Threads /\ Recorder \in Threads
  /\ Ops \subseteq AllOps
  /\ Faults \subseteq AllFaults

VARIABLES
  hwLock,    \* AudioHardware::mLock: the holder, or None
  outLock,   \* AudioStreamOutALSA::mLock of each output
  inLock,    \* AudioStreamInALSA::mLock of each input
  hw,        \* the fields of AudioHardware (and the wake lock of the process)
  mOutput,   \* AudioHardware::mOutput
  mInputs,   \* AudioHardware::mInputs
  out,       \* the fields of each output
  in,        \* the fields of each input
  outLive,   \* outputs allocated and not yet destroyed
  inLive,    \* inputs allocated and not yet destroyed
  handles,   \* streams the audio server still has open (it calls no other)
  pc,        \* where each thread is
  self,      \* the stream whose public method the thread is in
  spOut,     \* local strong pointer to an output
  spIn,      \* local strong pointer to an input
  dOut,      \* the local strong pointer of AudioStreamInALSA::doStandby_l
  fresh,     \* the thread has read its stream's standbyCnt, and it is still that
  arg,       \* the stream being put in standby by the thread
  ret,       \* where the thread goes after standby()
  dret       \* where the thread goes after AudioStreamInALSA::doStandby_l

locks   == <<hwLock, outLock, inLock>>
objects == <<mOutput, mInputs, outLive, inLive, handles>>
vars    == <<locks, objects, hw, out, in, pc, self, spOut, spIn, dOut, fresh,
             arg, ret, dret>>

OutFields == [standby : BOOLEAN, pcm : BOOLEAN, mixer : BOOLEAN,
              echo : EchoRefs \cup {None}]
InFields  == [standby : BOOLEAN, pcm : BOOLEAN, mixer : BOOLEAN,
              echo : EchoRefs \cup {None}, needEcho : BOOLEAN, fx : BOOLEAN]
HwFields  == [mode : Modes, inCall : BOOLEAN, pcmCnt : Nat, mixerCnt : Nat,
              micMute : BOOLEAN, micOff : BOOLEAN, wake : BOOLEAN,
              echo : EchoRefs \cup {None}]

Labels == {"idle",
  "w_out", "w_hw", "w_in", "w_hw2", "w_open", "w_fin", "w_io",
  "r_in", "r_hw", "r_out", "r_in2", "r_hw2", "r_open", "r_io",
  "so_out", "so_hw", "si_in", "si_hw", "si_end",
  "d_begin", "d_out", "d_in", "d_hw",
  "m_hw", "m_out", "m_hw2", "m_in", "m_hw3", "m_apply", "m_call", "m_uncall", "m_end",
  "op_out", "op_hw", "ip_in", "ip_hw", "is_in", "is_hw",
  "fx_add", "fx_remove", "fx_unset", "mm_hw", "co_hw", "co_clear", "ci_hw", "drop", "free"}

TypeOK ==
  /\ hwLock \in Threads \cup {None}
  /\ outLock \in [Outs -> Threads \cup {None}]
  /\ inLock \in [Ins -> Threads \cup {None}]
  /\ hw \in HwFields
  /\ mOutput \in Outs \cup {None}
  /\ mInputs \subseteq Ins
  /\ out \in [Outs -> OutFields]
  /\ in \in [Ins -> InFields]
  /\ outLive \subseteq Outs
  /\ inLive \subseteq Ins
  /\ handles \subseteq Outs \cup Ins
  /\ pc \in [Threads -> Labels]
  /\ self \in [Threads -> Outs \cup Ins \cup {None}]
  /\ spOut \in [Threads -> Outs \cup {None}]
  /\ spIn \in [Threads -> Ins \cup {None}]
  /\ dOut \in [Threads -> Outs \cup {None}]
  /\ fresh \in [Threads -> BOOLEAN]
  /\ arg \in [Threads -> Outs \cup Ins \cup {None}]
  /\ ret \in [Threads -> Labels]
  /\ dret \in [Threads -> Labels]

NewOut == [standby |-> TRUE, pcm |-> FALSE, mixer |-> FALSE, echo |-> None]
NewIn  == [standby |-> TRUE, pcm |-> FALSE, mixer |-> FALSE, echo |-> None,
           needEcho |-> FALSE, fx |-> FALSE]

Init ==
  /\ hwLock = None
  /\ outLock = [o \in Outs |-> None]
  /\ inLock = [i \in Ins |-> None]
  /\ hw = [mode |-> "NORMAL", inCall |-> FALSE, pcmCnt |-> 0, mixerCnt |-> 0,
           micMute |-> FALSE, micOff |-> FALSE, wake |-> FALSE, echo |-> None]
  /\ mOutput = None
  /\ mInputs = {}
  /\ out = [o \in Outs |-> NewOut]
  /\ in = [i \in Ins |-> NewIn]
  /\ outLive = {} /\ inLive = {} /\ handles = {}
  /\ pc = [t \in Threads |-> "idle"]
  /\ self = [t \in Threads |-> None]
  /\ spOut = [t \in Threads |-> None]
  /\ spIn = [t \in Threads |-> None]
  /\ dOut = [t \in Threads |-> None]
  /\ fresh = [t \in Threads |-> FALSE]
  /\ arg = [t \in Threads |-> None]
  /\ ret = [t \in Threads |-> "idle"]
  /\ dret = [t \in Threads |-> "idle"]

-----------------------------------------------------------------------------
(* The shared playback device and mixer are opened once and counted.       *)
(* Opening may fail only when it reaches the driver, that is from 0; the   *)
(* caller gets a null handle exactly when the count is still 0.            *)

openPcmOut_l(h) ==
  {[h EXCEPT !.pcmCnt = @ + 1]}
    \cup (IF h.pcmCnt = 0 /\ "pcmOut" \in Faults THEN {h} ELSE {})

closePcmOut_l(h) == [h EXCEPT !.pcmCnt = IF @ = 0 THEN 0 ELSE @ - 1]

openMixer_l(h) ==
  {[h EXCEPT !.mixerCnt = @ + 1]}
    \cup (IF h.mixerCnt = 0 /\ "mixer" \in Faults THEN {h} ELSE {})

closeMixer_l(h) == [h EXCEPT !.mixerCnt = IF @ = 0 THEN 0 ELSE @ - 1]

(* AudioStreamOutALSA::open_l: the outcomes, as the hardware fields and    *)
(* the handles the stream keeps.                                           *)
OutOpen(h) ==
  UNION {IF h1.pcmCnt = 0
         THEN {[hw |-> h1, pcm |-> FALSE, mixer |-> FALSE]}
         ELSE {[hw |-> h2, pcm |-> TRUE, mixer |-> h2.mixerCnt > 0] : h2 \in openMixer_l(h1)}
         : h1 \in openPcmOut_l(h)}

(* AudioStreamOutALSA::close_l and doStandby_l on stream fields s: what    *)
(* they make of the hardware fields h, and of s.                           *)
(* Mutants: the device is kept; close_l lets the phone sleep.              *)
OutCloseHw_MixerOnly(h, s) == IF s.mixer THEN closeMixer_l(h) ELSE h

OutCloseHw_Sleeps(h, s) ==
  [(IF s.pcm THEN closePcmOut_l(OutCloseHw_MixerOnly(h, s)) ELSE OutCloseHw_MixerOnly(h, s))
     EXCEPT !.wake = FALSE]

OutCloseHw(h, s) ==
  LET h1 == IF s.mixer THEN closeMixer_l(h) ELSE h
  IN  IF s.pcm THEN closePcmOut_l(h1) ELSE h1

OutStandbyHw(h, s) ==
  OutCloseHw(IF s.standby THEN h ELSE [h EXCEPT !.wake = FALSE], s)

(* Mutant: the handle is not cleared.                                      *)
OutStandby_KeepsPcm(s) == [s EXCEPT !.standby = TRUE, !.mixer = FALSE]

OutStandby(s) == [s EXCEPT !.standby = TRUE, !.pcm = FALSE, !.mixer = FALSE]

(* AudioStreamInALSA::open_l: the capture device is the stream's own, and  *)
(* outside a call the microphone path follows the mute setting.            *)
(* Mutant: the route is not set on the way out of standby.                 *)
InOpen_NoRoute(h) ==
  {[hw |-> h1, pcm |-> TRUE, mixer |-> h1.mixerCnt > 0] : h1 \in openMixer_l(h)}
    \cup (IF "pcmIn" \in Faults
          THEN {[hw |-> h, pcm |-> FALSE, mixer |-> FALSE]} ELSE {})

InOpen(h) ==
  {[hw |-> [h1 EXCEPT !.micOff = IF h1.mixerCnt > 0 /\ h1.mode # "IN_CALL"
                                 THEN h1.micMute ELSE @],
    pcm |-> TRUE, mixer |-> h1.mixerCnt > 0] : h1 \in openMixer_l(h)}
  \cup (IF "pcmIn" \in Faults
        THEN {[hw |-> h, pcm |-> FALSE, mixer |-> FALSE]} ELSE {})

(* Mutants: the mixer, or the capture device, stays open.                  *)
InCloseHw_KeepsMixer(h, s) == h

InClose_KeepsPcm(s) == [s EXCEPT !.mixer = FALSE]

InCloseHw(h, s) == IF s.mixer THEN closeMixer_l(h) ELSE h

InClose(s) == [s EXCEPT !.pcm = FALSE, !.mixer = FALSE]

(* releaseEchoReference(e): only the current reference is released, and    *)
(* the output that is open then forgets it.                                *)
ReleaseEchoHw(h, e) == IF e = h.echo THEN [h EXCEPT !.echo = None] ELSE h

(* Mutant: the output is not told.                                         *)
ReleaseEchoOut_KeepsOutput(f, h, e) == f

ReleaseEchoOut(f, h, e) ==
  IF e # None /\ e = h.echo /\ mOutput # None /\ f[mOutput].echo = e
  THEN [f EXCEPT ![mOutput].echo = None] ELSE f

UnusedEchoRefs == EchoRefs \ ({hw.echo} \cup {out[o].echo : o \in Outs}
                                       \cup {in[i].echo : i \in Ins})

(* getEchoReference: the old reference is released; if an output is open,  *)
(* a new one is created and given to it.                                   *)
getEchoReference(h, f) ==
  LET h1 == ReleaseEchoHw(h, h.echo)
      f1 == ReleaseEchoOut(f, h, h.echo)
  IN  {[hw |-> [h1 EXCEPT !.echo = e], ref |-> e,
        out |-> IF f1[mOutput].echo = None THEN [f1 EXCEPT ![mOutput].echo = e] ELSE f1]
       : e \in IF mOutput = None THEN {} ELSE UnusedEchoRefs}
      \cup (IF mOutput = None \/ "echo" \in Faults
            THEN {[hw |-> h1, ref |-> None, out |-> f1]} ELSE {})

(* getActiveInput_l: the first input of mInputs that is not in standby.    *)
ActiveInput ==
  LET active == {i \in mInputs : ~in[i].standby}
  IN  IF active = {} THEN None ELSE CHOOSE i \in active : TRUE

-----------------------------------------------------------------------------
(* Control flow, locks and strong pointers.                                *)

Goto(t, l) == pc' = [pc EXCEPT ![t] = l]

(* A doStandby_l of stream s changes the standbyCnt others compare.        *)
Invalidate(s) == [u \in Threads |-> fresh[u] /\ spOut[u] # s /\ spIn[u] # s]

(* Thread t's own pointer is the last one to the stream.                   *)
LastRefOut(t, o) ==
  o # mOutput /\ \A u \in Threads \ {t} : spOut[u] # o /\ dOut[u] # o

LastRefIn(t, i) ==
  i \notin mInputs /\ \A u \in Threads \ {t} : spIn[u] # i

Idle(t) == pc[t] = "idle"

(* A stream's method is called only while the server has it open.          *)
Call(t, op, s, l) ==
  /\ op \in Ops
  /\ Idle(t)
  /\ s \in handles
  /\ self' = [self EXCEPT ![t] = s]
  /\ Goto(t, l)

CallFrame == <<locks, objects, hw, out, in, spOut, spIn, dOut, fresh, dret>>

(* The call returns, its local variables gone.                             *)
Return(t) ==
  /\ Goto(t, "idle")
  /\ self' = [self EXCEPT ![t] = None]
  /\ arg' = [arg EXCEPT ![t] = None]
  /\ ret' = [ret EXCEPT ![t] = "idle"]
  /\ dret' = [dret EXCEPT ![t] = "idle"]

(* The destructor of s runs: standby(), then the object is gone.           *)
Destroy(t, s, l) ==
  /\ arg' = [arg EXCEPT ![t] = s]
  /\ ret' = [ret EXCEPT ![t] = "free"]
  /\ Goto(t, l)

(* spIn = getActiveInput_l() with the hardware lock held: with no active   *)
(* input the thread goes on and keeps the lock, otherwise it drops it to   *)
(* wait for the stream's.                                                  *)
SelectInput(t, wait, done) ==
  /\ spIn' = [spIn EXCEPT ![t] = ActiveInput]
  /\ IF ActiveInput = None
     THEN /\ hwLock' = t
          /\ Goto(t, done)
          /\ fresh' = [fresh EXCEPT ![t] = FALSE]
     ELSE /\ hwLock' = None
          /\ Goto(t, wait)
          /\ fresh' = [fresh EXCEPT ![t] = TRUE]

(* The same after the wait was in vain: the old pointer is overwritten,    *)
(* and if it was the last one the destructor runs under the hardware lock. *)
ReselectInput(t, wait, done) ==
  /\ inLock' = [inLock EXCEPT ![spIn[t]] = None]
  /\ IF LastRefIn(t, spIn[t])
     THEN /\ spIn' = [spIn EXCEPT ![t] = ActiveInput]
          /\ hwLock' = t
          /\ Destroy(t, spIn[t], "si_in")
          /\ UNCHANGED fresh
     ELSE SelectInput(t, wait, done) /\ UNCHANGED <<arg, ret>>

(* The stream t waited for is still the one to deal with.                  *)
(* Mutant: the comparison of the counts the wrong way round.               *)
InputUnmoved_Swapped(t) == spIn[t] = ActiveInput /\ ~fresh[t]

InputUnmoved(t) == spIn[t] = ActiveInput /\ fresh[t]
OutputUnmoved(t) == spOut[t] = mOutput /\ fresh[t]

-----------------------------------------------------------------------------
(* standby() of either stream, also called by write, read, setMicMute,     *)
(* closeOutputStream and the destructors: the stream is arg[t].            *)

OutStandbyLock(t) ==
  /\ pc[t] = "so_out"
  /\ outLock[arg[t]] = None
  /\ outLock' = [outLock EXCEPT ![arg[t]] = t]
  /\ Goto(t, "so_hw")
  /\ UNCHANGED <<hwLock, inLock, objects, hw, out, in, self, spOut, spIn, dOut,
                 fresh, arg, ret, dret>>

OutStandbyDo(t) ==
  LET o == arg[t] IN
  /\ pc[t] = "so_hw"
  /\ hwLock = None
  /\ hw' = OutStandbyHw(hw, out[o])
  /\ out' = [out EXCEPT ![o] = OutStandby(@)]
  /\ fresh' = Invalidate(o)
  /\ outLock' = [outLock EXCEPT ![o] = None]
  /\ IF ret[t] = "idle" THEN Return(t)
     ELSE Goto(t, ret[t]) /\ UNCHANGED <<self, arg, ret, dret>>
  /\ UNCHANGED <<hwLock, inLock, objects, in, spOut, spIn, dOut>>

InStandbyLock(t) ==
  /\ pc[t] = "si_in"
  /\ inLock[arg[t]] = None
  /\ inLock' = [inLock EXCEPT ![arg[t]] = t]
  /\ Goto(t, "si_hw")
  /\ UNCHANGED <<hwLock, outLock, objects, hw, out, in, self, spOut, spIn, dOut,
                 fresh, arg, ret, dret>>

InStandbyDo(t) ==
  /\ pc[t] = "si_hw"
  /\ hwLock = None
  /\ hwLock' = t
  /\ dret' = [dret EXCEPT ![t] = "si_end"]
  /\ Goto(t, "d_begin")
  /\ UNCHANGED <<outLock, inLock, objects, hw, out, in, self, spOut, spIn, dOut,
                 fresh, arg, ret>>

InStandbyEnd(t) ==
  /\ pc[t] = "si_end"
  /\ hwLock' = None
  /\ inLock' = [inLock EXCEPT ![arg[t]] = None]
  /\ IF ret[t] = "idle" THEN Return(t)
     ELSE Goto(t, ret[t]) /\ UNCHANGED <<self, arg, ret, dret>>
  /\ UNCHANGED <<outLock, objects, hw, out, in, spOut, spIn, dOut, fresh>>

(* AudioStreamInALSA::doStandby_l of arg[t], with its lock and the         *)
(* hardware lock held.  To give back an echo reference it needs the        *)
(* output's lock, and drops both to take all three in order.               *)
InDoStandbyBegin(t) ==
  LET i == arg[t] IN
  /\ pc[t] = "d_begin"
  /\ fresh' = Invalidate(i)
  /\ IF ~in[i].standby /\ in[i].echo # None /\ mOutput # None
     THEN /\ dOut' = [dOut EXCEPT ![t] = mOutput]
          /\ hwLock' = None
          /\ inLock' = [inLock EXCEPT ![i] = None]
          /\ Goto(t, "d_out")
          /\ UNCHANGED <<hw, in>>
     ELSE /\ hw' = InCloseHw(hw, in[i])
          /\ in' = [in EXCEPT ![i] = [InClose(@) EXCEPT
                      !.standby = TRUE,
                      !.echo = IF in[i].standby THEN in[i].echo ELSE None]]
          /\ Goto(t, dret[t])
          /\ UNCHANGED <<dOut, hwLock, inLock>>
  /\ UNCHANGED <<outLock, objects, out, self, spOut, spIn, arg, ret, dret>>

InDoStandbyOut(t) ==
  /\ pc[t] = "d_out"
  /\ outLock[dOut[t]] = None
  /\ outLock' = [outLock EXCEPT ![dOut[t]] = t]
  /\ Goto(t, "d_in")
  /\ UNCHANGED <<hwLock, inLock, objects, hw, out, in, self, spOut, spIn, dOut,
                 fresh, arg, ret, dret>>

InDoStandbyIn(t) ==
  /\ pc[t] = "d_in"
  /\ inLock[arg[t]] = None
  /\ inLock' = [inLock EXCEPT ![arg[t]] = t]
  /\ Goto(t, "d_hw")
  /\ UNCHANGED <<hwLock, outLock, objects, hw, out, in, self, spOut, spIn, dOut,
                 fresh, arg, ret, dret>>

(* The local pointer to the output goes out of scope before the rest.      *)
InDoStandbyEnd(t) ==
  LET i == arg[t]
      o == dOut[t]
      e == in[i].echo IN
  /\ pc[t] = "d_hw"
  /\ hwLock = None
  /\ hwLock' = t
  /\ outLock' = [outLock EXCEPT ![o] = None]
  /\ out' = ReleaseEchoOut(out, hw, e)
  /\ dOut' = [dOut EXCEPT ![t] = None]
  /\ IF LastRefOut(t, o) /\ spOut[t] # o
     THEN /\ hw' = ReleaseEchoHw(hw, e)
          /\ in' = [in EXCEPT ![i].echo = None]
          /\ Destroy(t, o, "so_out")
     ELSE /\ hw' = InCloseHw(ReleaseEchoHw(hw, e), in[i])
          /\ in' = [in EXCEPT ![i] = [InClose(@) EXCEPT !.standby = TRUE, !.echo = None]]
          /\ Goto(t, dret[t])
          /\ UNCHANGED <<arg, ret>>
  /\ UNCHANGED <<inLock, objects, self, spOut, spIn, fresh, dret>>

-----------------------------------------------------------------------------
(* AudioStreamOutALSA::write on stream self[t].                            *)

CallWrite(t) ==
  /\ t = Player
  /\ \E o \in Outs : Call(t, "write", o, "w_out")
  /\ UNCHANGED <<CallFrame, arg, ret>>

WriteLock(t) ==
  LET o == self[t] IN
  /\ pc[t] = "w_out"
  /\ outLock[o] = None
  /\ outLock' = [outLock EXCEPT ![o] = t]
  /\ Goto(t, IF out[o].standby THEN "w_hw" ELSE "w_io")
  /\ UNCHANGED <<hwLock, inLock, objects, hw, out, in, self, spOut, spIn, dOut,
                 fresh, arg, ret, dret>>

(* Leaving standby: take the wake lock, look for an active input.          *)
WriteExitStandby(t) ==
  /\ pc[t] = "w_hw"
  /\ hwLock = None
  /\ hw' = [hw EXCEPT !.wake = TRUE]
  /\ SelectInput(t, "w_in", "w_open")
  /\ UNCHANGED <<outLock, inLock, objects, out, in, self, spOut, dOut, arg, ret,
                 dret>>

WriteLockInput(t) ==
  /\ pc[t] = "w_in"
  /\ inLock[spIn[t]] = None
  /\ inLock' = [inLock EXCEPT ![spIn[t]] = t]
  /\ Goto(t, "w_hw2")
  /\ UNCHANGED <<hwLock, outLock, objects, hw, out, in, self, spOut, spIn, dOut,
                 fresh, arg, ret, dret>>

WriteCloseInput(t) ==
  LET i == spIn[t] IN
  /\ pc[t] = "w_hw2"
  /\ hwLock = None
  /\ InputUnmoved(t)
  /\ hwLock' = t
  /\ hw' = InCloseHw(hw, in[i])
  /\ in' = [in EXCEPT ![i] = InClose(@)]
  /\ fresh' = [fresh EXCEPT ![t] = FALSE]
  /\ Goto(t, "w_open")
  /\ UNCHANGED <<outLock, inLock, objects, out, self, spOut, spIn, dOut, arg, ret, dret>>

WriteRetryInput(t) ==
  /\ pc[t] = "w_hw2"
  /\ hwLock = None
  /\ ~InputUnmoved(t)
  /\ ReselectInput(t, "w_in", "w_open")
  /\ UNCHANGED <<outLock, objects, hw, out, in, self, spOut, dOut, dret>>

(* "open output before input": the output's devices, then the input's      *)
(* again; an input that cannot be reopened is put in standby.              *)
WriteOpen(t) ==
  LET o == self[t]
      i == spIn[t] IN
  /\ pc[t] = "w_open"
  /\ \E r \in OutOpen(hw) :
       /\ out' = [out EXCEPT ![o].pcm = r.pcm, ![o].mixer = r.mixer]
       /\ IF i = None
          THEN /\ hw' = r.hw
               /\ Goto(t, "w_fin")
               /\ UNCHANGED <<in, arg, dret>>
          ELSE \E q \in InOpen(r.hw) :
                 /\ hw' = q.hw
                 /\ in' = [in EXCEPT ![i].pcm = q.pcm, ![i].mixer = q.mixer]
                 /\ arg' = [arg EXCEPT ![t] = IF q.pcm THEN @ ELSE i]
                 /\ dret' = [dret EXCEPT ![t] = IF q.pcm THEN @ ELSE "w_fin"]
                 /\ Goto(t, IF q.pcm THEN "w_fin" ELSE "d_begin")
  /\ UNCHANGED <<locks, objects, self, spOut, spIn, dOut, fresh, ret>>

(* The pointer to the input goes out of scope before the hardware lock is  *)
(* released.                                                               *)
WriteOpened(t) ==
  LET o == self[t]
      i == spIn[t] IN
  /\ pc[t] = "w_fin"
  /\ inLock' = IF i = None THEN inLock ELSE [inLock EXCEPT ![i] = None]
  /\ spIn' = [spIn EXCEPT ![t] = None]
  /\ out' = [out EXCEPT ![o].standby = ~out[o].pcm]
  /\ hw' = IF out[o].pcm THEN hw ELSE [hw EXCEPT !.wake = FALSE]
  /\ IF i # None /\ LastRefIn(t, i)
     THEN Destroy(t, i, "si_in") /\ UNCHANGED <<hwLock, outLock>>
     ELSE /\ hwLock' = None
          /\ IF out[o].pcm
             THEN Goto(t, "w_io") /\ UNCHANGED <<outLock, arg, ret>>
             ELSE /\ outLock' = [outLock EXCEPT ![o] = None]
                  /\ arg' = [arg EXCEPT ![t] = o]
                  /\ ret' = [ret EXCEPT ![t] = "idle"]
                  /\ Goto(t, "so_out")
  /\ UNCHANGED <<objects, in, self, spOut, dOut, fresh, dret>>

(* pcm_write, without the hardware lock.                                   *)
WriteData(t) ==
  /\ pc[t] = "w_io"
  /\ outLock' = [outLock EXCEPT ![self[t]] = None]
  /\ \/ Return(t)
     \/ /\ "io" \in Faults
        /\ arg' = [arg EXCEPT ![t] = self[t]]
        /\ ret' = [ret EXCEPT ![t] = "idle"]
        /\ Goto(t, "so_out")
        /\ UNCHANGED <<self, dret>>
  /\ UNCHANGED <<hwLock, inLock, objects, hw, out, in, spOut, spIn, dOut, fresh>>

-----------------------------------------------------------------------------
(* AudioStreamInALSA::read on stream self[t].                              *)

CallRead(t) ==
  /\ t = Recorder
  /\ \E i \in Ins : Call(t, "read", i, "r_in")
  /\ UNCHANGED <<CallFrame, arg, ret>>

ReadLock(t) ==
  LET i == self[t] IN
  /\ pc[t] = "r_in"
  /\ inLock[i] = None
  /\ inLock' = [inLock EXCEPT ![i] = t]
  /\ Goto(t, IF in[i].standby THEN "r_hw" ELSE "r_io")
  /\ UNCHANGED <<hwLock, outLock, objects, hw, out, in, self, spOut, spIn, dOut,
                 fresh, arg, ret, dret>>

(* spOut = output() with both locks held: an output must be locked first,  *)
(* so both are dropped.                                                    *)
(* Mutant: the input's lock is kept while waiting for the output's.        *)
SelectOutput_KeepsInput(t) ==
  /\ spOut' = [spOut EXCEPT ![t] = mOutput]
  /\ hwLock' = IF mOutput = None THEN t ELSE None
  /\ Goto(t, IF mOutput = None THEN "r_open" ELSE "r_out")
  /\ UNCHANGED inLock

SelectOutput(t) ==
  /\ spOut' = [spOut EXCEPT ![t] = mOutput]
  /\ IF mOutput = None
     THEN hwLock' = t /\ Goto(t, "r_open") /\ UNCHANGED inLock
     ELSE /\ hwLock' = None
          /\ inLock' = [inLock EXCEPT ![self[t]] = None]
          /\ Goto(t, "r_out")

ReadExitStandby(t) ==
  /\ pc[t] = "r_hw"
  /\ hwLock = None
  /\ SelectOutput(t)
  /\ UNCHANGED <<outLock, objects, hw, out, in, self, spIn, dOut, fresh, arg, ret,
                 dret>>

(* Mutant: the output is not locked.                                       *)
ReadLockOutput_Unlocked(t) ==
  /\ pc[t] = "r_out"
  /\ Goto(t, "r_in2")
  /\ UNCHANGED <<locks, objects, hw, out, in, self, spOut, spIn, dOut, fresh, arg, ret, dret>>

ReadLockOutput(t) ==
  /\ pc[t] = "r_out"
  /\ outLock[spOut[t]] = None
  /\ outLock' = [outLock EXCEPT ![spOut[t]] = t]
  /\ Goto(t, "r_in2")
  /\ UNCHANGED <<hwLock, inLock, objects, hw, out, in, self, spOut, spIn, dOut,
                 fresh, arg, ret, dret>>

ReadRelock(t) ==
  /\ pc[t] = "r_in2"
  /\ inLock[self[t]] = None
  /\ inLock' = [inLock EXCEPT ![self[t]] = t]
  /\ Goto(t, "r_hw2")
  /\ UNCHANGED <<hwLock, outLock, objects, hw, out, in, self, spOut, spIn, dOut,
                 fresh, arg, ret, dret>>

ReadKeepOutput(t) ==
  /\ pc[t] = "r_hw2"
  /\ hwLock = None
  /\ spOut[t] = mOutput
  /\ hwLock' = t
  /\ Goto(t, "r_open")
  /\ UNCHANGED <<outLock, inLock, objects, hw, out, in, self, spOut, spIn, dOut,
                 fresh, arg, ret, dret>>

ReadRetryOutput(t) ==
  LET o == spOut[t] IN
  /\ pc[t] = "r_hw2"
  /\ hwLock = None
  /\ o # mOutput
  /\ outLock' = [outLock EXCEPT ![o] = None]
  /\ IF LastRefOut(t, o)
     THEN /\ spOut' = [spOut EXCEPT ![t] = mOutput]
          /\ hwLock' = t
          /\ Destroy(t, o, "so_out")
          /\ UNCHANGED inLock
     ELSE SelectOutput(t) /\ UNCHANGED <<arg, ret>>
  /\ UNCHANGED <<objects, hw, out, in, self, spIn, dOut, fresh, dret>>

(* "force output standby": an active output o is closed and opened again,  *)
(* and put in standby if that fails.                                       *)
OutputReopened(o) ==
  IF o = None \/ (o # None /\ out[o].standby)
  THEN {[hw |-> hw, out |-> out]}
  ELSE {[hw  |-> IF r.pcm THEN r.hw ELSE [r.hw EXCEPT !.wake = FALSE],
         out |-> [out EXCEPT ![o] = [@ EXCEPT !.pcm = r.pcm, !.mixer = r.mixer,
                                              !.standby = ~r.pcm]]]
        : r \in OutOpen(OutCloseHw(hw, out[o]))}

(* A capture stream with an echo canceller asks for an echo reference.     *)
EchoObtained(a, o, i) ==
  IF o # None /\ in[i].needEcho /\ in[i].echo = None
  THEN getEchoReference(a.hw, a.out)
  ELSE {[hw |-> a.hw, out |-> a.out, ref |-> in[i].echo]}

ReadOpen(t) ==
  LET i == self[t]
      o == spOut[t] IN
  /\ pc[t] = "r_open"
  /\ \E a \in OutputReopened(o) : \E b \in EchoObtained(a, o, i) : \E r \in InOpen(b.hw) :
       /\ hw' = r.hw
       /\ out' = b.out
       /\ in' = [in EXCEPT ![i] = [@ EXCEPT !.pcm = r.pcm, !.mixer = r.mixer,
                                            !.echo = b.ref, !.standby = ~r.pcm]]
       /\ fresh' = IF o # None /\ ~out[o].standby /\ b.out[o].standby
                   THEN Invalidate(o) ELSE fresh
       /\ hwLock' = None
       /\ outLock' = IF o = None THEN outLock ELSE [outLock EXCEPT ![o] = None]
       /\ IF r.pcm
          THEN Goto(t, "r_io") /\ UNCHANGED <<inLock, arg, ret>>
          ELSE /\ inLock' = [inLock EXCEPT ![i] = None]
               /\ arg' = [arg EXCEPT ![t] = i]
               /\ ret' = [ret EXCEPT ![t] = "idle"]
               /\ Goto(t, "si_in")
  /\ spOut' = [spOut EXCEPT ![t] = None]
  /\ UNCHANGED <<objects, self, spIn, dOut, dret>>

(* pcm_read and the effects, without the hardware lock.                    *)
ReadData(t) ==
  /\ pc[t] = "r_io"
  /\ inLock' = [inLock EXCEPT ![self[t]] = None]
  /\ \/ Return(t)
     \/ /\ "io" \in Faults
        /\ arg' = [arg EXCEPT ![t] = self[t]]
        /\ ret' = [ret EXCEPT ![t] = "idle"]
        /\ Goto(t, "si_in")
        /\ UNCHANGED <<self, dret>>
  /\ UNCHANGED <<hwLock, outLock, objects, hw, out, in, spOut, spIn, dOut, fresh>>

-----------------------------------------------------------------------------
(* standby() and setParameters() called by the server on a stream.  Outside *)
(* a call a new device puts the stream in standby; whether the device is    *)
(* new is left open.                                                        *)

CallStandby(t) ==
  /\ \/ t = Player /\ \E o \in Outs :
          Call(t, "outStandby", o, "so_out") /\ arg' = [arg EXCEPT ![t] = o]
     \/ t = Recorder /\ \E i \in Ins :
          Call(t, "inStandby", i, "si_in") /\ arg' = [arg EXCEPT ![t] = i]
  /\ ret' = [ret EXCEPT ![t] = "idle"]
  /\ UNCHANGED CallFrame

CallSetParameters(t) ==
  /\ \/ t = Player /\ \E o \in Outs : Call(t, "outRouting", o, "op_out")
     \/ t = Recorder /\ \E i \in Ins : Call(t, "inRouting", i, "ip_in")
     \/ t = Recorder /\ \E i \in Ins : Call(t, "inSource", i, "is_in")
  /\ UNCHANGED <<CallFrame, arg, ret>>

OutParametersLock(t) ==
  /\ pc[t] = "op_out"
  /\ outLock[self[t]] = None
  /\ outLock' = [outLock EXCEPT ![self[t]] = t]
  /\ Goto(t, "op_hw")
  /\ UNCHANGED <<hwLock, inLock, objects, hw, out, in, self, spOut, spIn, dOut,
                 fresh, arg, ret, dret>>

OutSetRouting(t) ==
  LET o == self[t] IN
  /\ pc[t] = "op_hw"
  /\ hwLock = None
  /\ \E changed \in BOOLEAN :
       IF changed /\ hw.mode # "IN_CALL"
       THEN /\ hw' = OutStandbyHw(hw, out[o])
            /\ out' = [out EXCEPT ![o] = OutStandby(@)]
            /\ fresh' = Invalidate(o)
       ELSE UNCHANGED <<hw, out, fresh>>
  /\ outLock' = [outLock EXCEPT ![o] = None]
  /\ Return(t)
  /\ UNCHANGED <<hwLock, inLock, objects, in, spOut, spIn, dOut>>

InParametersLock(t) ==
  /\ pc[t] \in {"ip_in", "is_in"}
  /\ inLock[self[t]] = None
  /\ inLock' = [inLock EXCEPT ![self[t]] = t]
  /\ Goto(t, IF pc[t] = "ip_in" THEN "ip_hw" ELSE "is_hw")
  /\ UNCHANGED <<hwLock, outLock, objects, hw, out, in, self, spOut, spIn, dOut,
                 fresh, arg, ret, dret>>

InSetRouting(t) ==
  /\ pc[t] = "ip_hw"
  /\ hwLock = None
  /\ \/ /\ hw.mode # "IN_CALL"
        /\ hwLock' = t
        /\ arg' = [arg EXCEPT ![t] = self[t]]
        /\ ret' = [ret EXCEPT ![t] = "idle"]
        /\ dret' = [dret EXCEPT ![t] = "si_end"]
        /\ Goto(t, "d_begin")
        /\ UNCHANGED <<inLock, self>>
     \/ /\ inLock' = [inLock EXCEPT ![self[t]] = None]
        /\ Return(t)
        /\ UNCHANGED hwLock
  /\ UNCHANGED <<outLock, objects, hw, out, in, spOut, spIn, dOut, fresh>>

(* The mixer is opened, the source set, the mixer closed; the same call    *)
(* may carry a new device too.                                             *)
InSetSource(t) ==
  /\ pc[t] = "is_hw"
  /\ hwLock = None
  /\ \E h \in openMixer_l(hw) : hw' = closeMixer_l(h)
  /\ \/ inLock' = [inLock EXCEPT ![self[t]] = None] /\ Return(t)
     \/ /\ "inRouting" \in Ops
        /\ Goto(t, "ip_hw")
        /\ UNCHANGED <<inLock, self, arg, ret, dret>>
  /\ UNCHANGED <<hwLock, outLock, objects, out, in, spOut, spIn, dOut, fresh>>

(* addAudioEffect of an echo canceller: the flag is set with no lock, the  *)
(* stream put in standby, then the effect added.                           *)
CallAddAudioEffect(t) ==
  /\ t # Player
  /\ \E i \in Ins :
       /\ Call(t, "addAec", i, "si_in")
       /\ in' = [in EXCEPT ![i].needEcho = TRUE]
       /\ arg' = [arg EXCEPT ![t] = i]
  /\ ret' = [ret EXCEPT ![t] = "fx_add"]
  /\ UNCHANGED <<locks, objects, hw, out, spOut, spIn, dOut, fresh, dret>>

AddEffect(t) ==
  /\ pc[t] = "fx_add"
  /\ inLock[self[t]] = None
  /\ in' = [in EXCEPT ![self[t]].fx = TRUE]
  /\ Return(t)
  /\ UNCHANGED <<locks, objects, hw, out, spOut, spIn, dOut, fresh>>

CallRemoveAudioEffect(t) ==
  /\ t # Player
  /\ \E i \in Ins : Call(t, "removeAec", i, "fx_remove")
  /\ UNCHANGED <<CallFrame, arg, ret>>

(* The effect goes first; an effect that was not there is an error.        *)
RemoveEffect(t) ==
  LET i == self[t] IN
  /\ pc[t] = "fx_remove"
  /\ inLock[i] = None
  /\ in' = [in EXCEPT ![i].fx = FALSE]
  /\ IF in[i].fx
     THEN Goto(t, "fx_unset") /\ UNCHANGED <<self, arg, ret, dret>>
     ELSE Return(t)
  /\ UNCHANGED <<locks, objects, hw, out, spOut, spIn, dOut, fresh>>

(* ... then, with no lock, the flag.                                       *)
UnsetEcho(t) ==
  LET i == self[t] IN
  /\ pc[t] = "fx_unset"
  /\ in' = [in EXCEPT ![i].needEcho = FALSE]
  /\ arg' = [arg EXCEPT ![t] = i]
  /\ ret' = [ret EXCEPT ![t] = "idle"]
  /\ Goto(t, "si_in")
  /\ UNCHANGED <<locks, objects, hw, out, self, spOut, spIn, dOut, fresh, dret>>

-----------------------------------------------------------------------------
(* AudioHardware::setMode.  Its argument is not looked at before both      *)
(* streams are locked, so it is chosen there.                              *)

CallSetMode(t) ==
  /\ "setMode" \in Ops
  /\ Idle(t) /\ t \notin {Player, Recorder}
  /\ Goto(t, "m_hw")
  /\ UNCHANGED <<CallFrame, self, arg, ret>>

(* An active output is locked first, then an active input.                 *)
SelectActive(t) ==
  IF mOutput # None /\ ~out[mOutput].standby
  THEN /\ spOut' = [spOut EXCEPT ![t] = mOutput]
       /\ fresh' = [fresh EXCEPT ![t] = TRUE]
       /\ hwLock' = None
       /\ Goto(t, "m_out")
       /\ UNCHANGED spIn
  ELSE /\ spOut' = [spOut EXCEPT ![t] = None]
       /\ SelectInput(t, "m_in", "m_apply")

ModeBegin(t) ==
  /\ pc[t] = "m_hw"
  /\ hwLock = None
  /\ SelectActive(t)
  /\ UNCHANGED <<outLock, inLock, objects, hw, out, in, self, dOut, arg, ret, dret>>

ModeLockOutput(t) ==
  /\ pc[t] = "m_out"
  /\ outLock[spOut[t]] = None
  /\ outLock' = [outLock EXCEPT ![spOut[t]] = t]
  /\ Goto(t, "m_hw2")
  /\ UNCHANGED <<hwLock, inLock, objects, hw, out, in, self, spOut, spIn, dOut,
                 fresh, arg, ret, dret>>

ModeKeepOutput(t) ==
  /\ pc[t] = "m_hw2"
  /\ hwLock = None
  /\ OutputUnmoved(t)
  /\ SelectInput(t, "m_in", "m_apply")
  /\ UNCHANGED <<outLock, inLock, objects, hw, out, in, self, spOut, dOut, arg, ret,
                 dret>>

ModeRetryOutput(t) ==
  LET o == spOut[t] IN
  /\ pc[t] = "m_hw2"
  /\ hwLock = None
  /\ ~OutputUnmoved(t)
  /\ outLock' = [outLock EXCEPT ![o] = None]
  /\ IF LastRefOut(t, o)
     THEN /\ spOut' = [spOut EXCEPT ![t] = mOutput]
          /\ hwLock' = t
          /\ Destroy(t, o, "so_out")
          /\ UNCHANGED <<spIn, fresh>>
     ELSE SelectActive(t) /\ UNCHANGED <<arg, ret>>
  /\ UNCHANGED <<inLock, objects, hw, out, in, self, dOut, dret>>

ModeLockInput(t) ==
  /\ pc[t] = "m_in"
  /\ inLock[spIn[t]] = None
  /\ inLock' = [inLock EXCEPT ![spIn[t]] = t]
  /\ Goto(t, "m_hw3")
  /\ UNCHANGED <<hwLock, outLock, objects, hw, out, in, self, spOut, spIn, dOut,
                 fresh, arg, ret, dret>>

ModeKeepInput(t) ==
  /\ pc[t] = "m_hw3"
  /\ hwLock = None
  /\ InputUnmoved(t)
  /\ hwLock' = t
  /\ fresh' = [fresh EXCEPT ![t] = FALSE]
  /\ Goto(t, "m_apply")
  /\ UNCHANGED <<outLock, inLock, objects, hw, out, in, self, spOut, spIn, dOut,
                 arg, ret, dret>>

ModeRetryInput(t) ==
  /\ pc[t] = "m_hw3"
  /\ hwLock = None
  /\ ~InputUnmoved(t)
  /\ ReselectInput(t, "m_in", "m_apply")
  /\ UNCHANGED <<outLock, objects, hw, out, in, self, spOut, dOut, dret>>

(* What setMode does to an output it holds.                                *)
(* Mutant: the output of the hardware object instead of the locked one.    *)
ForceOutputStandby_Current(t, h) ==
  IF mOutput = None
  THEN hw' = h /\ UNCHANGED <<out, fresh>>
  ELSE /\ hw' = OutStandbyHw(h, out[mOutput])
       /\ out' = [out EXCEPT ![mOutput] = OutStandby(@)]
       /\ fresh' = Invalidate(mOutput)

ForceOutputStandby(t, h) ==
  LET o == spOut[t] IN
  IF o = None
  THEN hw' = h /\ UNCHANGED <<out, fresh>>
  ELSE /\ hw' = OutStandbyHw(h, out[o])
       /\ out' = [out EXCEPT ![o] = OutStandby(@)]
       /\ fresh' = Invalidate(o)

(* ... and then to an input, going on at label l.                          *)
ForceInputStandby(t, l) ==
  IF spIn[t] = None
  THEN Goto(t, l) /\ UNCHANGED <<arg, dret>>
  ELSE /\ arg' = [arg EXCEPT ![t] = spIn[t]]
       /\ dret' = [dret EXCEPT ![t] = l]
       /\ Goto(t, "d_begin")

(* A call begins: both streams go to standby before the call's devices     *)
(* are opened.                                                             *)
ModeEnterCall(t) ==
  /\ pc[t] = "m_apply"
  /\ hw.mode # "IN_CALL" /\ ~hw.inCall
  /\ ForceOutputStandby(t, [hw EXCEPT !.mode = "IN_CALL"])
  /\ ForceInputStandby(t, "m_call")
  /\ UNCHANGED <<locks, objects, in, self, spOut, spIn, dOut, ret>>

(* The results of the two opens are not looked at.                         *)
ModeOpenCall(t) ==
  /\ pc[t] = "m_call"
  /\ \E h1 \in openPcmOut_l(hw) : \E h2 \in openMixer_l(h1) :
       hw' = [h2 EXCEPT !.inCall = TRUE]
  /\ Goto(t, "m_end")
  /\ UNCHANGED <<locks, objects, out, in, self, spOut, spIn, dOut, fresh, arg, ret,
                 dret>>

(* A call ends: the call's devices are closed, then both streams go to     *)
(* standby.                                                                *)
ModeLeaveCall(t) ==
  /\ pc[t] = "m_apply"
  /\ hw.mode # "NORMAL" /\ hw.inCall
  /\ ForceOutputStandby(t, closePcmOut_l(closeMixer_l([hw EXCEPT !.mode = "NORMAL"])))
  /\ ForceInputStandby(t, "m_uncall")
  /\ UNCHANGED <<locks, objects, in, self, spOut, spIn, dOut, ret>>

ModeCloseCall(t) ==
  /\ pc[t] = "m_uncall"
  /\ hw' = [hw EXCEPT !.inCall = FALSE]
  /\ Goto(t, "m_end")
  /\ UNCHANGED <<locks, objects, out, in, self, spOut, spIn, dOut, fresh, arg, ret,
                 dret>>

(* No call begins or ends; setting the current mode again changes nothing. *)
ModeOther(t) ==
  /\ pc[t] = "m_apply"
  /\ \E m \in Modes :
       /\ \/ m \in {hw.mode, "RINGTONE"}
          \/ m = "IN_CALL" /\ hw.inCall
          \/ m = "NORMAL" /\ ~hw.inCall
       /\ hw' = [hw EXCEPT !.mode = m]
  /\ Goto(t, "m_end")
  /\ UNCHANGED <<locks, objects, out, in, self, spOut, spIn, dOut, fresh, arg, ret,
                 dret>>

ModeEnd(t) ==
  /\ pc[t] = "m_end"
  /\ hwLock' = None
  /\ outLock' = IF spOut[t] = None THEN outLock ELSE [outLock EXCEPT ![spOut[t]] = None]
  /\ inLock' = IF spIn[t] = None THEN inLock ELSE [inLock EXCEPT ![spIn[t]] = None]
  /\ Goto(t, "drop")
  /\ UNCHANGED <<objects, hw, out, in, self, spOut, spIn, dOut, fresh, arg, ret,
                 dret>>

-----------------------------------------------------------------------------
(* The rest of AudioHardware: muting, opening and closing streams.         *)

CallSetMicMute(t) ==
  /\ "setMicMute" \in Ops
  /\ Idle(t) /\ t \notin {Player, Recorder}
  /\ Goto(t, "mm_hw")
  /\ UNCHANGED <<CallFrame, self, arg, ret>>

(* In a call the radio mutes; otherwise an active input goes to standby,   *)
(* after the hardware lock is released, to pick up the path on its return. *)
SetMicMute(t) ==
  /\ pc[t] = "mm_hw"
  /\ hwLock = None
  /\ \/ /\ UNCHANGED <<hw, spIn, arg, ret>>
        /\ Goto(t, "drop")
     \/ LET i == IF hw.mode = "IN_CALL" THEN None ELSE ActiveInput IN
        /\ hw' = [hw EXCEPT !.micMute = ~@]
        /\ spIn' = [spIn EXCEPT ![t] = i]
        /\ arg' = [arg EXCEPT ![t] = i]
        /\ ret' = [ret EXCEPT ![t] = "drop"]
        /\ Goto(t, IF i = None THEN "drop" ELSE "si_in")
  /\ UNCHANGED <<locks, objects, out, in, self, spOut, dOut, fresh, dret>>

(* Only one output at a time; an open request with bad parameters changes  *)
(* nothing and is left out.                                                *)
OpenOutputStream(t) ==
  /\ "openOut" \in Ops
  /\ Idle(t) /\ t \notin {Player, Recorder}
  /\ hwLock = None
  /\ mOutput = None
  /\ \E o \in Outs \ outLive :
       /\ out' = [out EXCEPT ![o] = NewOut]
       /\ mOutput' = o
       /\ outLive' = outLive \cup {o}
       /\ handles' = handles \cup {o}
  /\ UNCHANGED <<locks, mInputs, inLive, hw, in, pc, self, spOut, spIn, dOut, fresh,
                 arg, ret, dret>>

OpenInputStream(t) ==
  /\ "openIn" \in Ops
  /\ Idle(t) /\ t \notin {Player, Recorder}
  /\ hwLock = None
  /\ handles \cap Ins = {}
  /\ \E i \in Ins \ inLive :
       /\ in' = [in EXCEPT ![i] = NewIn]
       /\ mInputs' = mInputs \cup {i}
       /\ inLive' = inLive \cup {i}
       /\ handles' = handles \cup {i}
  /\ UNCHANGED <<locks, mOutput, outLive, hw, out, pc, self, spOut, spIn, dOut, fresh,
                 arg, ret, dret>>

(* The server closes a stream once its own thread has left it.             *)
CallClose(t, op, s, l) ==
  /\ op \in Ops
  /\ Idle(t) /\ t \notin {Player, Recorder}
  /\ s \in handles
  /\ \A u \in Threads : self[u] # s
  /\ handles' = handles \ {s}
  /\ arg' = [arg EXCEPT ![t] = s]
  /\ Goto(t, l)
  /\ UNCHANGED <<locks, mOutput, mInputs, outLive, inLive, hw, out, in, self, spOut,
                 spIn, dOut, fresh, ret, dret>>

CallCloseStream(t) ==
  \/ \E o \in Outs : CallClose(t, "closeOut", o, "co_hw")
  \/ \E i \in Ins : CallClose(t, "closeIn", i, "ci_hw")

CloseOutputStream(t) ==
  LET i == IF hw.echo # None THEN ActiveInput ELSE None IN
  /\ pc[t] = "co_hw"
  /\ hwLock = None
  /\ mOutput' = None
  /\ spOut' = [spOut EXCEPT ![t] = arg[t]]
  /\ spIn' = [spIn EXCEPT ![t] = i]
  /\ arg' = [arg EXCEPT ![t] = i]
  /\ ret' = [ret EXCEPT ![t] = "co_clear"]
  /\ Goto(t, IF i = None THEN "co_clear" ELSE "si_in")
  /\ UNCHANGED <<locks, mInputs, outLive, inLive, handles, hw, out, in, self, dOut,
                 fresh, dret>>

(* spOut.clear().                                                          *)
CloseOutputClear(t) ==
  /\ pc[t] = "co_clear"
  /\ spOut' = [spOut EXCEPT ![t] = None]
  /\ IF LastRefOut(t, spOut[t])
     THEN Destroy(t, spOut[t], "so_out")
     ELSE Goto(t, "drop") /\ UNCHANGED <<arg, ret>>
  /\ UNCHANGED <<locks, objects, hw, out, in, self, spIn, dOut, fresh, dret>>

CloseInputStream(t) ==
  /\ pc[t] = "ci_hw"
  /\ hwLock = None
  /\ mInputs' = mInputs \ {arg[t]}
  /\ spIn' = [spIn EXCEPT ![t] = arg[t]]
  /\ Goto(t, "drop")
  /\ UNCHANGED <<locks, mOutput, outLive, inLive, handles, hw, out, in, self, spOut,
                 dOut, fresh, arg, ret, dret>>

(* The local pointers go out of scope with no lock held, spIn first.       *)
DropPointers(t) ==
  /\ pc[t] = "drop"
  /\ IF spIn[t] # None
     THEN /\ spIn' = [spIn EXCEPT ![t] = None]
          /\ UNCHANGED <<spOut, self, dret>>
          /\ IF LastRefIn(t, spIn[t])
             THEN Destroy(t, spIn[t], "si_in")
             ELSE UNCHANGED <<pc, arg, ret>>
     ELSE IF spOut[t] # None
     THEN /\ spOut' = [spOut EXCEPT ![t] = None]
          /\ UNCHANGED <<spIn, self, dret>>
          /\ IF LastRefOut(t, spOut[t])
             THEN Destroy(t, spOut[t], "so_out")
             ELSE UNCHANGED <<pc, arg, ret>>
     ELSE Return(t) /\ UNCHANGED <<spOut, spIn>>
  /\ UNCHANGED <<locks, objects, hw, out, in, dOut, fresh>>

(* The end of a destructor.                                                *)
FreeStream(t) ==
  /\ pc[t] = "free"
  /\ outLive' = outLive \ {arg[t]}
  /\ inLive' = inLive \ {arg[t]}
  /\ Goto(t, "drop")
  /\ UNCHANGED <<locks, mOutput, mInputs, handles, hw, out, in, self, spOut, spIn, dOut,
                 fresh, arg, ret, dret>>

-----------------------------------------------------------------------------
(* The calls the server may make, and the code that runs them.             *)
Begin(t) ==
  \/ CallWrite(t) \/ CallRead(t) \/ CallStandby(t) \/ CallSetParameters(t)
  \/ CallAddAudioEffect(t) \/ CallRemoveAudioEffect(t)
  \/ CallSetMode(t) \/ CallSetMicMute(t) \/ CallCloseStream(t)
  \/ OpenOutputStream(t) \/ OpenInputStream(t)

Run(t) ==
  \/ OutStandbyLock(t) \/ OutStandbyDo(t)
  \/ InStandbyLock(t) \/ InStandbyDo(t) \/ InStandbyEnd(t)
  \/ InDoStandbyBegin(t) \/ InDoStandbyOut(t) \/ InDoStandbyIn(t) \/ InDoStandbyEnd(t)
  \/ WriteLock(t) \/ WriteExitStandby(t) \/ WriteLockInput(t) \/ WriteCloseInput(t)
  \/ WriteRetryInput(t) \/ WriteOpen(t) \/ WriteOpened(t) \/ WriteData(t)
  \/ ReadLock(t) \/ ReadExitStandby(t) \/ ReadLockOutput(t) \/ ReadRelock(t)
  \/ ReadKeepOutput(t) \/ ReadRetryOutput(t) \/ ReadOpen(t) \/ ReadData(t)
  \/ OutParametersLock(t) \/ OutSetRouting(t)
  \/ InParametersLock(t) \/ InSetRouting(t) \/ InSetSource(t)
  \/ AddEffect(t) \/ RemoveEffect(t) \/ UnsetEcho(t)
  \/ ModeBegin(t) \/ ModeLockOutput(t) \/ ModeKeepOutput(t) \/ ModeRetryOutput(t)
  \/ ModeLockInput(t) \/ ModeKeepInput(t) \/ ModeRetryInput(t)
  \/ ModeEnterCall(t) \/ ModeOpenCall(t) \/ ModeLeaveCall(t) \/ ModeCloseCall(t)
  \/ ModeOther(t) \/ ModeEnd(t)
  \/ SetMicMute(t) \/ CloseOutputStream(t) \/ CloseOutputClear(t)
  \/ CloseInputStream(t) \/ DropPointers(t) \/ FreeStream(t)

Next == \E t \in Threads : Begin(t) \/ Run(t)

Spec == Init /\ [][Next]_vars

(* A thread that waits for a lock asks for it again and again; mSleepReq   *)
(* makes the thread that has just released it stay away for 10 ms, so the  *)
(* waiting one gets it.                                                    *)
Fairness == \A t \in Threads : SF_vars(Run(t))

FairSpec == Spec /\ Fairness

-----------------------------------------------------------------------------
(* Properties.                                                             *)

OutWaits == {"w_out", "so_out", "d_out", "m_out", "r_out", "op_out"}
InWaits  == {"w_in", "r_in", "r_in2", "si_in", "d_in", "m_in", "ip_in", "is_in",
             "fx_add", "fx_remove"}
HwWaits  == {"w_hw", "w_hw2", "r_hw", "r_hw2", "so_hw", "si_hw", "d_hw", "m_hw",
             "m_hw2", "m_hw3", "op_hw", "ip_hw", "is_hw", "mm_hw", "co_hw", "ci_hw"}

(* "Mutex acquisition order is always out -> in -> hw": a thread waiting   *)
(* for a lock holds none of the same or of a later kind, so no circle of   *)
(* threads can wait for one another, nor a thread for itself.              *)
LockOrder ==
  \A t \in Threads :
    /\ pc[t] \in OutWaits \cup InWaits \cup HwWaits => hwLock # t
    /\ pc[t] \in OutWaits \cup InWaits => \A i \in Ins : inLock[i] # t
    /\ pc[t] \in OutWaits => \A o \in Outs : outLock[o] # t

(* The playback device is counted exactly: every output with a handle and  *)
(* a call in progress hold one each, so the device neither closes under a  *)
(* stream nor stays open when the last user has gone.                      *)
PcmCounted ==
  LET users == Cardinality({o \in Outs : out[o].pcm})
  IN  hw.pcmCnt \in users .. (users + IF hw.inCall THEN 1 ELSE 0)

(* The same of the mixer, which inputs hold too.                           *)
MixerCounted ==
  LET users == Cardinality({o \in Outs : out[o].mixer})
                 + Cardinality({i \in Ins : in[i].mixer})
  IN  hw.mixerCnt \in users .. (users + IF hw.inCall THEN 1 ELSE 0)

(* So it is through every failing open, reopening and destructor.          *)
SharedDevicesCounted == PcmCounted /\ MixerCounted

(* A stream in standby has closed its devices, whenever another thread can *)
(* look, that is when the hardware lock is free.                           *)
StandbyClosed ==
  hwLock = None =>
    /\ \A o \in Outs : out[o].standby => ~out[o].pcm /\ ~out[o].mixer
    /\ \A i \in Ins : in[i].standby => ~in[i].pcm /\ ~in[i].mixer

(* The thread that takes this step holds the lock of the stream.           *)
StepsUnder(lock) == \E t \in Threads : lock = t /\ pc'[t] # pc[t]

Devices(s) == <<s.standby, s.pcm, s.mixer>>

(* write() uses the handles of its output, and read() those of its input,  *)
(* with the stream's lock alone: so nobody without that lock opens or      *)
(* closes them, not even with the hardware lock.                           *)
DevicesStep ==
  /\ \A o \in outLive : Devices(out'[o]) # Devices(out[o]) => StepsUnder(outLock[o])
  /\ \A i \in inLive : Devices(in'[i]) # Devices(in[i]) => StepsUnder(inLock[i])

DevicesGuarded == [][DevicesStep]_vars

(* Nor does anybody without the lock give or take their echo reference.    *)
EchoGuarded ==
  [][/\ \A o \in outLive : out'[o].echo # out[o].echo => StepsUnder(outLock[o])
     /\ \A i \in inLive : in'[i].echo # in[i].echo => StepsUnder(inLock[i])]_vars

(* No stream uses an echo reference that has been released: what a stream  *)
(* keeps is the one reference the hardware object has.                     *)
EchoValid ==
  /\ \A o \in Outs : out[o].echo \in {None, hw.echo}
  /\ \A i \in Ins : in[i].echo \in {None, hw.echo}

(* "open output before input": the playback device never goes from closed  *)
(* to open while a capture device is open.                                 *)
OutputOpensFirst ==
  [][hw.pcmCnt = 0 /\ hw'.pcmCnt > 0 => \A i \in Ins : ~in[i].pcm]_vars

(* An active capture outside calls has the microphone path the mute        *)
(* setting asks for, or setMicMute is about to put it in standby.          *)
MicMuteRespected ==
  \A i \in mInputs :
    ~in[i].standby /\ in[i].mixer /\ ~hw.inCall /\ hw.micOff # hw.micMute
      => \E t \in Threads : arg[t] = i /\ ret[t] = "drop"
                            /\ pc[t] \in {"si_in", "si_hw", "d_begin"}

(* While the output plays the wake lock is held.                           *)
AwakeWhilePlaying ==
  mOutput # None /\ ~out[mOutput].standby => hw.wake

(* closeOutputStream, having put the active input in standby: "this will   *)
(* safely release the echo reference".                                     *)
EchoReleasedOnClose ==
  \A t \in Threads : pc[t] = "co_clear" /\ spIn[t] # None => hw.echo = None

(* "spOut is not 0 here only if the output is active", and an active       *)
(* output is put in standby before the call's devices are opened: so no    *)
(* output plays at that moment.                                            *)
OutputQuietAtCall ==
  \A t \in Threads : pc[t] = "m_call" => \A o \in Outs : out[o].standby

(* A stream method called by the thread of the stream returns, whatever    *)
(* other calls are made meanwhile (setMode itself may be held up by        *)
(* streams that keep changing, and is not claimed to return).              *)
StreamCallsReturn ==
  \A t \in {Player, Recorder} : ~Idle(t) ~> Idle(t)

=============================================================================
