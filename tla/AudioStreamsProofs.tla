------------------------- MODULE AudioStreamsProofs -------------------------
(***************************************************************************)
(* Proofs about the audio HAL, for every number of threads and streams,    *)
(* whatever is called and whatever device fails: in which order the locks  *)
(* are taken, which pointers reach which stream and who frees it, that the *)
(* devices follow the standby flags, that the shared devices are counted   *)
(* exactly, that the phone is awake while it plays, who may touch the echo *)
(* references and that they are valid, that the output is opened before    *)
(* the input, and that the microphone follows the mute setting.            *)
(*                                                                         *)
(* AudioHardwareProofs says which locks a thread holds at each place       *)
(* (LockInv) and which fields a step leaves alone (ControlUntouched,       *)
(* OnlyOwn).  Each part below adds an invariant to it: OrderInv the locks  *)
(* a thread does not hold; RefInv the references; DevInv the devices;      *)
(* CountInv the counts; AwakeInv the wake lock; EchoInv the echo           *)
(* references; FoundInv what a thread has found of the inputs; CallMode    *)
(* the mode of setMode.                                                    *)
(***************************************************************************)
EXTENDS AudioHardwareProofs, FiniteSetTheorems

-----------------------------------------------------------------------------
(* The lock order, as long as no echo canceller is added and no stream is  *)
(* closed: with either of them the code leaves the order. LockInv says     *)
(* which locks a thread holds at each place; the order needs the           *)
(* converse, that it holds no others.                                      *)

StreamsStay == Ops \cap {"addAec", "closeOut", "closeIn"} = {}

(* No input has an echo reference or asks for one, so doStandby_l needs no *)
(* lock of the output.                                                     *)
EchoOff == \A i \in Ins : in[i].echo = None /\ ~in[i].needEcho

(* A local pointer is never the last one to its stream.                    *)
Kept ==
  \A t \in Threads : spOut[t] \in {None, mOutput} /\ spIn[t] \in mInputs \cup {None}

HwHeldAt == {"si_end", "d_begin", "w_open", "w_fin", "r_open", "m_apply", "m_call",
             "m_uncall", "m_end"}

OutOfSelfAt == {"w_hw", "w_in", "w_hw2", "w_open", "w_fin", "w_io", "op_hw"}

OutOfPointerAt == {"r_in2", "r_hw2", "r_open", "m_hw2", "m_in", "m_hw3", "m_apply",
                   "m_call", "m_uncall", "m_end"}

InOfArgAt == {"si_hw", "si_end", "d_begin"}

InOfPointerAt == {"w_hw2", "w_open", "w_fin", "m_hw3", "m_apply", "m_call", "m_uncall",
                  "m_end"}

InOfSelfAt == {"r_hw", "r_hw2", "r_open", "r_io", "ip_hw", "is_hw"}

(* The output whose lock the thread holds, and the input.                  *)
HeldOut(t, o) ==
  \/ pc[t] = "so_hw" /\ o = arg[t]
  \/ pc[t] \in OutOfSelfAt /\ o = self[t]
  \/ pc[t] \in OutOfPointerAt /\ o = spOut[t]
  \/ pc[t] = "d_begin" /\ dret[t] = "w_fin" /\ o = self[t]
  \/ pc[t] = "d_begin" /\ dret[t] \in {"m_call", "m_uncall"} /\ o = spOut[t]

HeldIn(t, i) ==
  \/ pc[t] \in InOfArgAt /\ i = arg[t]
  \/ pc[t] \in InOfPointerAt /\ i = spIn[t]
  \/ pc[t] \in InOfSelfAt /\ i = self[t]

(* The thread holds no lock but these, and is nowhere that echo references *)
(* or closed streams alone would lead it.                                  *)
HoldsOnly(t) ==
  /\ pc[t] \notin {"d_out", "d_in", "d_hw", "co_hw", "ci_hw"}
  /\ hwLock = t => pc[t] \in HwHeldAt
  /\ \A o \in Outs : outLock[o] = t => HeldOut(t, o)
  /\ \A i \in Ins : inLock[i] = t => HeldIn(t, i)

OrderInv == EchoOff /\ Kept /\ \A t \in Threads : HoldsOnly(t)

-----------------------------------------------------------------------------
(* A step of thread t gives no lock to another thread.                     *)
TakesOwn(t) ==
  /\ hwLock' \in {hwLock, t, None}
  /\ \A o \in Outs : outLock'[o] \in {outLock[o], t, None}
  /\ \A i \in Ins : inLock'[i] \in {inLock[i], t, None}

(* So what was true of another thread stays true of it.                    *)
LEMMA OthersHoldOnly ==
  ASSUME LockInv, NEW t \in Threads, OnlyOwn(t), TakesOwn(t),
         NEW u \in Threads \ {t}, HoldsOnly(u)
  PROVE  HoldsOnly(u)'
<1>1. u # t /\ u # None
  BY ConstantsAssumption
<1> QED
  BY <1>1 DEF OnlyOwn, TakesOwn, HoldsOnly, HeldOut, HeldIn

HoldsStep(t) == TakesOwn(t) /\ HoldsOnly(t)'

(* A call begins with no lock held and takes none.                         *)
LEMMA BeginHolds ==
  ASSUME LockInv, OrderInv, StreamsStay, NEW t \in Threads, Begin(t)
  PROVE  HoldsStep(t)
<1> DEFINE Begins == /\ pc[t] = "idle"
                     /\ UNCHANGED locks
                     /\ pc'[t] \notin {"d_out", "d_in", "d_hw", "co_hw", "ci_hw"}
<1>1. pc \in [Threads -> Labels]
  BY DEF LockInv, TypeOK
<1>2. Begins
  <2> USE <1>1 DEF locks, Goto, Call, CallFrame, Idle
  <2>1. CASE CallWrite(t)
    BY <2>1 DEF CallWrite
  <2>2. CASE CallRead(t)
    BY <2>2 DEF CallRead
  <2>3. CASE CallStandby(t)
    BY <2>3 DEF CallStandby
  <2>4. CASE CallSetParameters(t)
    BY <2>4 DEF CallSetParameters
  <2>5. CASE CallRemoveAudioEffect(t)
    BY <2>5 DEF CallRemoveAudioEffect
  <2>6. CASE CallSetMode(t)
    BY <2>6 DEF CallSetMode
  <2>7. CASE CallSetMicMute(t)
    BY <2>7 DEF CallSetMicMute
  <2>8. CASE OpenOutputStream(t)
    BY <2>8 DEF OpenOutputStream
  <2>9. CASE OpenInputStream(t)
    BY <2>9 DEF OpenInputStream
  <2>10. ~CallAddAudioEffect(t) /\ ~CallCloseStream(t)
    BY DEF StreamsStay, CallAddAudioEffect, CallCloseStream, CallClose
  <2> QED
    BY <2>1, <2>2, <2>3, <2>4, <2>5, <2>6, <2>7, <2>8, <2>9, <2>10 DEF Begin
<1>3. HoldsOnly(t)
  BY DEF OrderInv
<1> QED
  BY <1>2, <1>3, ConstantsAssumption
     DEF locks, HoldsStep, TakesOwn, HoldsOnly, HeldOut, HeldIn, HwHeldAt, OutOfSelfAt,
         OutOfPointerAt, InOfArgAt, InOfPointerAt, InOfSelfAt

(* On the way through an entry point every lock that is not counted on any *)
(* longer has been given back.                                             *)
LEMMA RunHolds ==
  ASSUME LockInv, OrderInv, StreamsStay, NEW t \in Threads, Run(t)
  PROVE  HoldsStep(t)
<1>a. ActiveInput \in mInputs \cup {None}
  BY DEF ActiveInput
<1> USE ConstantsAssumption
    DEF LockInv, TypeOK, OrderInv, Kept, HoldsStep, TakesOwn, HoldsOnly, HeldOut, HeldIn, HwHeldAt,
        OutOfSelfAt, OutOfPointerAt, InOfArgAt, InOfPointerAt, InOfSelfAt, Goto, locks,
        objects, Return, Destroy, ThreadOK, Pointers, Returns, Holds, HoldsInDo, OutStandbyAt,
        InStandbyAt, InDoAt, WriteAt, ReadAt
<1>1. CASE OutStandbyLock(t)
  BY <1>1, SMTT(30) DEF OutStandbyLock
<1>2. CASE OutStandbyDo(t)
  BY <1>2, SMTT(30) DEF OutStandbyDo
<1>3. CASE InStandbyLock(t)
  BY <1>3, SMTT(30) DEF InStandbyLock
<1>4. CASE InStandbyDo(t)
  BY <1>4, SMTT(30) DEF InStandbyDo
<1>5. CASE InStandbyEnd(t)
  BY <1>5, SMTT(30) DEF InStandbyEnd
<1>6. CASE InDoStandbyBegin(t)
  BY <1>6, SMTT(30) DEF InDoStandbyBegin, EchoOff
<1>7. CASE WriteLock(t)
  BY <1>7, SMTT(30) DEF WriteLock
<1>8. CASE WriteExitStandby(t)
  BY <1>8, <1>a, SMTT(30) DEF WriteExitStandby, SelectInput
<1>9. CASE WriteLockInput(t)
  BY <1>9, SMTT(30) DEF WriteLockInput
<1>10. CASE WriteCloseInput(t)
  BY <1>10, SMTT(30) DEF WriteCloseInput
<1>11. CASE WriteRetryInput(t)
  BY <1>11, <1>a, SMTT(30) DEF WriteRetryInput, ReselectInput, SelectInput, LastRefIn
<1>12. CASE WriteOpen(t)
  BY <1>12, WriteOpenPlaces
<1>13. CASE WriteOpened(t)
  BY <1>13, SMTT(30) DEF WriteOpened, LastRefIn
<1>14. CASE WriteData(t)
  BY <1>14, SMTT(30) DEF WriteData
<1>15. CASE ReadLock(t)
  BY <1>15, SMTT(30) DEF ReadLock
<1>16. CASE ReadExitStandby(t)
  BY <1>16, SMTT(30) DEF ReadExitStandby, SelectOutput
<1>17. CASE ReadLockOutput(t)
  BY <1>17, SMTT(30) DEF ReadLockOutput
<1>18. CASE ReadRelock(t)
  BY <1>18, SMTT(30) DEF ReadRelock
<1>19. CASE ReadKeepOutput(t)
  BY <1>19, SMTT(30) DEF ReadKeepOutput
<1>20. CASE ReadRetryOutput(t)
  BY <1>20, SMTT(30) DEF ReadRetryOutput, SelectOutput, LastRefOut
<1>21. CASE ReadOpen(t)
  BY <1>21, SMTT(30) DEF ReadOpen
<1>22. CASE ReadData(t)
  BY <1>22, SMTT(30) DEF ReadData
<1>23. CASE OutParametersLock(t)
  BY <1>23, SMTT(30) DEF OutParametersLock
<1>24. CASE OutSetRouting(t)
  BY <1>24, SMTT(30) DEF OutSetRouting
<1>25. CASE InParametersLock(t)
  BY <1>25, SMTT(30) DEF InParametersLock
<1>26. CASE InSetRouting(t)
  BY <1>26, SMTT(30) DEF InSetRouting
<1>27. CASE InSetSource(t)
  BY <1>27, SMTT(30) DEF InSetSource
<1>28. CASE AddEffect(t)
  BY <1>28, SMTT(30) DEF AddEffect
<1>29. CASE RemoveEffect(t)
  BY <1>29, SMTT(30) DEF RemoveEffect
<1>30. CASE UnsetEcho(t)
  BY <1>30, SMTT(30) DEF UnsetEcho
<1>31. CASE ModeBegin(t)
  BY <1>31, <1>a, SMTT(30) DEF ModeBegin, SelectActive, SelectInput
<1>32. CASE ModeLockOutput(t)
  BY <1>32, SMTT(30) DEF ModeLockOutput
<1>33. CASE ModeKeepOutput(t)
  BY <1>33, <1>a, SMTT(30) DEF ModeKeepOutput, SelectInput
<1>34. CASE ModeRetryOutput(t)
  BY <1>34, <1>a, SMTT(30) DEF ModeRetryOutput, LastRefOut, SelectActive, SelectInput
<1>35. CASE ModeLockInput(t)
  BY <1>35, SMTT(30) DEF ModeLockInput
<1>36. CASE ModeKeepInput(t)
  BY <1>36, SMTT(30) DEF ModeKeepInput
<1>37. CASE ModeRetryInput(t)
  BY <1>37, <1>a, SMTT(30) DEF ModeRetryInput, ReselectInput, SelectInput, LastRefIn
<1>38. CASE ModeEnterCall(t)
  BY <1>38, SMTT(30) DEF ModeEnterCall, ForceInputStandby
<1>39. CASE ModeOpenCall(t)
  BY <1>39, SMTT(30) DEF ModeOpenCall
<1>40. CASE ModeLeaveCall(t)
  BY <1>40, SMTT(30) DEF ModeLeaveCall, ForceInputStandby
<1>41. CASE ModeCloseCall(t)
  BY <1>41, SMTT(30) DEF ModeCloseCall
<1>42. CASE ModeOther(t)
  BY <1>42, SMTT(30) DEF ModeOther
<1>43. CASE ModeEnd(t)
  BY <1>43, SMTT(30) DEF ModeEnd
<1>44. CASE SetMicMute(t)
  BY <1>44, SMTT(30) DEF SetMicMute
<1>45. CASE CloseOutputClear(t)
  BY <1>45, SMTT(30) DEF CloseOutputClear
<1>46. CASE DropPointers(t)
  BY <1>46, SMTT(30) DEF DropPointers
<1>47. CASE FreeStream(t)
  BY <1>47, SMTT(30) DEF FreeStream
<1>48. \/ InDoStandbyOut(t) \/ InDoStandbyIn(t) \/ InDoStandbyEnd(t)
       \/ CloseOutputStream(t) \/ CloseInputStream(t)
       => FALSE
  BY DEF InDoStandbyOut, InDoStandbyIn, InDoStandbyEnd, CloseOutputStream, CloseInputStream
<1> QED
  BY <1>1, <1>2, <1>3, <1>4, <1>5, <1>6, <1>7, <1>8, <1>9, <1>10, <1>11, <1>12, <1>13, <1>14,
      <1>15, <1>16, <1>17, <1>18, <1>19, <1>20, <1>21, <1>22, <1>23, <1>24, <1>25, <1>26,
      <1>27, <1>28, <1>29, <1>30, <1>31, <1>32, <1>33, <1>34, <1>35, <1>36, <1>37, <1>38,
      <1>39, <1>40, <1>41, <1>42, <1>43, <1>44, <1>45, <1>46, <1>47, <1>48 DEF Run
-----------------------------------------------------------------------------
(* The other parts of the invariant.                                       *)

(* Nothing but getEchoReference gives an input an echo reference, and      *)
(* read() asks for one only if an echo canceller was added.                *)
LEMMA EchoStaysOff ==
  ASSUME LockInv, EchoOff, "addAec" \notin Ops, NEW t \in Threads, Begin(t) \/ Run(t),
         ~InDoStandbyEnd(t)
  PROVE  EchoOff'
<1> USE DEF LockInv, TypeOK, EchoOff
<1>1. CASE UNCHANGED in
  BY <1>1
<1>2. CASE OpenInputStream(t)
  BY <1>2 DEF OpenInputStream, NewIn
<1>3. CASE AddEffect(t) \/ RemoveEffect(t) \/ UnsetEcho(t)
  BY <1>3 DEF AddEffect, RemoveEffect, UnsetEcho, InFields
<1>4. CASE InDoStandbyBegin(t)
  <2>1. arg[t] \in Ins
    BY <1>4 DEF InDoStandbyBegin, ThreadOK, Pointers, InStandbyAt, InDoAt
  <2>2. \/ in' = in
        \/ in' = [in EXCEPT ![arg[t]] = [InClose(@) EXCEPT
                   !.standby = TRUE, !.echo = IF in[arg[t]].standby THEN in[arg[t]].echo ELSE None]]
    BY <1>4 DEF InDoStandbyBegin
  <2>3. /\ \A i \in Ins : in'[i].echo \in {None, in[i].echo}
        /\ \A i \in Ins : in'[i].needEcho = in[i].needEcho
    <3>1. CASE in' = in
      BY <3>1
    <3>2. CASE in' = [in EXCEPT ![arg[t]] = [InClose(@) EXCEPT
                 !.standby = TRUE, !.echo = IF in[arg[t]].standby THEN in[arg[t]].echo ELSE None]]
      BY <2>1, <3>2 DEF InClose, InFields
    <3> QED BY <2>2, <3>1, <3>2
  <2> QED
    BY <2>3
<1>5. CASE WriteCloseInput(t)
  BY <1>5 DEF WriteCloseInput, InClose, InFields
<1>6. CASE WriteOpen(t)
  <2>1. PICK r \in OutOpen(hw) :
          \/ UNCHANGED in
          \/ \E q \in InOpen(r.hw) :
               in' = [in EXCEPT ![spIn[t]].pcm = q.pcm, ![spIn[t]].mixer = q.mixer]
    BY <1>6, Zenon DEF WriteOpen
  <2>2. CASE UNCHANGED in
    BY <1>1, <2>2
  <2>3. ASSUME NEW q \in InOpen(r.hw),
               in' = [in EXCEPT ![spIn[t]].pcm = q.pcm, ![spIn[t]].mixer = q.mixer]
        PROVE  EchoOff'
    <3>1. \A i \in Ins : in'[i].echo = in[i].echo /\ in'[i].needEcho = in[i].needEcho
      BY <2>3 DEF InFields
    <3> QED BY <3>1
  <2> QED
    BY <2>1, <2>2, <2>3
<1>7. CASE ReadOpen(t)
  <2>1. self[t] \in Ins
    BY <1>7 DEF ReadOpen, ThreadOK, Pointers, ReadAt
  <2>2. PICK a \in OutputReopened(spOut[t]) :
          \E b \in EchoObtained(a, spOut[t], self[t]) : \E r \in InOpen(b.hw) :
            in' = [in EXCEPT ![self[t]] = [@ EXCEPT !.pcm = r.pcm, !.mixer = r.mixer,
                                           !.echo = b.ref, !.standby = ~r.pcm]]
    BY <1>7, Zenon DEF ReadOpen
  <2>3. PICK b \in EchoObtained(a, spOut[t], self[t]) : \E r \in InOpen(b.hw) :
          in' = [in EXCEPT ![self[t]] = [@ EXCEPT !.pcm = r.pcm, !.mixer = r.mixer,
                                         !.echo = b.ref, !.standby = ~r.pcm]]
    BY <2>2
  <2>4. b.ref = None
    BY <2>1, <2>3 DEF EchoObtained
  <2> QED
    BY <2>1, <2>3, <2>4 DEF InFields
<1>8. ~CallAddAudioEffect(t)
  BY DEF CallAddAudioEffect, Call
<1>9. CASE ControlActions(t)
  BY <1>1, <1>9, ControlUntouched
<1>10. CASE \/ OutStandbyDo(t) \/ WriteExitStandby(t) \/ WriteOpened(t) \/ OutSetRouting(t)
            \/ InSetSource(t) \/ ModeEnterCall(t) \/ ModeOpenCall(t) \/ ModeLeaveCall(t)
            \/ ModeCloseCall(t) \/ ModeOther(t) \/ SetMicMute(t) \/ OpenOutputStream(t)
  BY <1>1, <1>10
     DEF OutStandbyDo, WriteExitStandby, WriteOpened, OutSetRouting, InSetSource,
         ModeEnterCall, ModeOpenCall, ModeLeaveCall, ModeCloseCall, ModeOther, SetMicMute,
         OpenOutputStream
<1> QED
  BY <1>2, <1>3, <1>4, <1>5, <1>6, <1>7, <1>8, <1>9, <1>10 DEF Begin, Run, ControlActions

(* A local pointer is set from mOutput or mInputs, and what is there stays *)
(* there.                                                                  *)
LEMMA KeptStep ==
  ASSUME LockInv, OrderInv, StreamsStay, NEW t \in Threads, Begin(t) \/ Run(t)
  PROVE  Kept'
<1>1. ActiveInput \in mInputs \cup {None}
  BY DEF ActiveInput
<1> USE ConstantsAssumption DEF LockInv, TypeOK, OrderInv, Kept, locks, objects
<1>2. CASE UNCHANGED <<mOutput, mInputs, spOut, spIn>>
  BY <1>2
<1>3. CASE OpenOutputStream(t) \/ OpenInputStream(t)
  BY <1>3 DEF OpenOutputStream, OpenInputStream
<1>4. CASE /\ UNCHANGED <<mOutput, mInputs>>
           /\ \E o \in {None, mOutput, spOut[t]} : spOut' = [spOut EXCEPT ![t] = o]
           /\ \E i \in {None, ActiveInput, spIn[t]} : spIn' = [spIn EXCEPT ![t] = i]
  BY <1>1, <1>4
<1>5. ASSUME Begin(t) PROVE Kept'
  <2>1. ~CallAddAudioEffect(t) /\ ~CallCloseStream(t)
    BY DEF StreamsStay, CallAddAudioEffect, CallCloseStream, CallClose, Call
  <2>2. CASE \/ CallWrite(t) \/ CallRead(t) \/ CallStandby(t) \/ CallSetParameters(t)
             \/ CallRemoveAudioEffect(t) \/ CallSetMode(t) \/ CallSetMicMute(t)
    BY <1>2, <2>2 DEF CallWrite, CallRead, CallStandby, CallSetParameters,
                      CallRemoveAudioEffect, CallSetMode, CallSetMicMute, CallFrame
  <2> QED
    BY <1>3, <1>5, <2>1, <2>2 DEF Begin
<1>6. ASSUME Run(t) PROVE Kept'
  <2>1. CASE \/ OutStandbyLock(t) \/ OutStandbyDo(t) \/ InStandbyLock(t)
             \/ InStandbyDo(t) \/ InStandbyEnd(t) \/ InDoStandbyBegin(t)
             \/ WriteLock(t) \/ WriteLockInput(t) \/ WriteCloseInput(t) \/ WriteOpen(t)
             \/ WriteData(t) \/ ReadLock(t) \/ ReadLockOutput(t) \/ ReadRelock(t)
             \/ ReadKeepOutput(t) \/ ReadData(t) \/ OutParametersLock(t)
             \/ OutSetRouting(t) \/ InParametersLock(t) \/ InSetRouting(t)
             \/ InSetSource(t) \/ AddEffect(t) \/ RemoveEffect(t) \/ UnsetEcho(t)
             \/ ModeLockOutput(t) \/ ModeLockInput(t) \/ ModeKeepInput(t)
             \/ ModeEnterCall(t) \/ ModeOpenCall(t) \/ ModeLeaveCall(t)
             \/ ModeCloseCall(t) \/ ModeOther(t) \/ ModeEnd(t) \/ FreeStream(t)
    BY <1>2, <2>1
       DEF OutStandbyLock, OutStandbyDo, InStandbyLock, InStandbyDo, InStandbyEnd,
           InDoStandbyBegin, WriteLock, WriteLockInput, WriteCloseInput, WriteOpen,
           WriteData, ReadLock, ReadLockOutput, ReadRelock, ReadKeepOutput, ReadData,
           OutParametersLock, OutSetRouting, InParametersLock, InSetRouting, InSetSource,
           AddEffect, RemoveEffect, UnsetEcho, ModeLockOutput, ModeLockInput,
           ModeKeepInput, ModeEnterCall, ModeOpenCall, ModeLeaveCall, ModeCloseCall,
           ModeOther, ModeEnd, FreeStream
  <2>2. CASE WriteExitStandby(t) \/ WriteRetryInput(t) \/ ModeKeepOutput(t) \/ ModeRetryInput(t)
    BY <1>4, <2>2 DEF WriteExitStandby, WriteRetryInput, ModeKeepOutput, ModeRetryInput,
                      SelectInput, ReselectInput
  <2>3. CASE ReadExitStandby(t) \/ ReadRetryOutput(t)
    BY <1>4, <2>3 DEF ReadExitStandby, ReadRetryOutput, SelectOutput
  <2>4. CASE ModeBegin(t) \/ ModeRetryOutput(t)
    BY <1>4, <2>4 DEF ModeBegin, ModeRetryOutput, SelectActive, SelectInput
  <2>5. CASE WriteOpened(t) \/ DropPointers(t)
    BY <2>5 DEF WriteOpened, DropPointers
  <2>6. CASE CloseOutputClear(t)
    BY <2>6 DEF CloseOutputClear
  <2>7. CASE ReadOpen(t)
    <3>1. spOut' = [spOut EXCEPT ![t] = None] /\ UNCHANGED <<mOutput, mInputs, spIn>>
      BY <2>7 DEF ReadOpen
    <3> QED BY <3>1
  <2>8. CASE SetMicMute(t)
    BY <1>1, <2>8 DEF SetMicMute
  <2>9. ~ \/ InDoStandbyOut(t) \/ InDoStandbyIn(t) \/ InDoStandbyEnd(t)
          \/ CloseOutputStream(t) \/ CloseInputStream(t)
    BY DEF HoldsOnly, InDoStandbyOut, InDoStandbyIn, InDoStandbyEnd, CloseOutputStream,
           CloseInputStream
  <2> QED
    BY <1>6, <2>1, <2>2, <2>3, <2>4, <2>5, <2>6, <2>7, <2>8, <2>9 DEF Run
<1> QED
  BY <1>5, <1>6

-----------------------------------------------------------------------------
(* Every step keeps the invariant.                                         *)
LEMMA OrderInvStep ==
  ASSUME LockInv, OrderInv, StreamsStay, [Next]_vars
  PROVE  OrderInv'
<1>1. CASE UNCHANGED vars
  BY <1>1 DEF vars, locks, objects, OrderInv, EchoOff, Kept, HoldsOnly, HeldOut, HeldIn
<1>2. CASE Next
  <2>1. PICK t \in Threads : Begin(t) \/ Run(t)
    BY <1>2 DEF Next
  <2>2. OnlyOwn(t)
    BY <2>1, BeginControl, RunControl DEF ControlStep
  <2>3. HoldsStep(t)
    BY <2>1, BeginHolds, RunHolds
  <2>4. ASSUME NEW u \in Threads PROVE HoldsOnly(u)'
    <3>1. CASE u = t
      BY <2>3, <3>1 DEF HoldsStep
    <3>2. CASE u # t
      BY <2>2, <2>3, <3>2, OthersHoldOnly DEF HoldsStep, OrderInv
    <3> QED BY <3>1, <3>2
  <2>5. ~InDoStandbyEnd(t) /\ "addAec" \notin Ops
    BY DEF OrderInv, HoldsOnly, InDoStandbyEnd, StreamsStay
  <2> QED
    BY <2>1, <2>4, <2>5, EchoStaysOff, KeptStep DEF OrderInv
<1> QED BY <1>1, <1>2

(* A thread that waits for a lock is at a place where it holds none of the *)
(* same or of a later kind.                                                *)
LEMMA OnlyThoseInOrder == OrderInv => LockOrder
<1> SUFFICES ASSUME OrderInv, NEW t \in Threads,
                    pc[t] \in OutWaits \cup InWaits \cup HwWaits
             PROVE  /\ hwLock # t
                    /\ pc[t] \in OutWaits \cup InWaits => \A i \in Ins : inLock[i] # t
                    /\ pc[t] \in OutWaits => \A o \in Outs : outLock[o] # t
  BY DEF LockOrder
<1>1. HoldsOnly(t)
  BY DEF OrderInv
<1> QED
  BY <1>1 DEF HoldsOnly, HeldOut, HeldIn, HwHeldAt, OutOfSelfAt, OutOfPointerAt, InOfArgAt,
              InOfPointerAt, InOfSelfAt, OutWaits, InWaits, HwWaits

(* "Mutex acquisition order is always out -> in -> hw": whatever calls the *)
(* threads make on streams that stay open, and whatever device fails, a    *)
(* thread that waits for a lock holds none of the same or of a later kind, *)
(* so that no threads ever wait for one another in a circle.               *)
THEOREM AlwaysInOrder == StreamsStay => (Spec => []LockOrder)
<1> SUFFICES ASSUME StreamsStay PROVE Spec => []LockOrder
  OBVIOUS
<1>1. Init => OrderInv
  BY ConstantsAssumption DEF Init, OrderInv, EchoOff, Kept, HoldsOnly, NewIn
<1>2. LockInv /\ OrderInv /\ [Next]_vars => OrderInv'
  BY OrderInvStep
<1> QED
  BY <1>1, <1>2, OnlyThoseInOrder, LocksHeld, PTL DEF Spec

-----------------------------------------------------------------------------
(* Whose pointers reach which stream, and who may free it.                 *)

(* Thread t runs a destructor, from standby() to the end of the object.    *)
Ending(t) ==
  /\ ret[t] = "free"
  /\ \/ pc[t] \in OutStandbyAt \cup {"si_in", "si_hw", "si_end", "free"}
     \/ pc[t] \in InDoAt /\ dret[t] = "si_end"

(* What a thread puts in standby is its own stream, one it points to, or   *)
(* the one it destroys.                                                    *)
Uses(t) ==
  /\ pc[t] = "free" => ret[t] = "free" /\ arg[t] \in Outs \cup Ins
  /\ pc[t] \in OutStandbyAt /\ ~Ending(t) => arg[t] = self[t]
  /\ pc[t] \in InStandbyAt /\ ~Ending(t) => arg[t] \in {self[t], spIn[t]}
  /\ dOut[t] # None => pc[t] \in {"d_out", "d_in", "d_hw"}
  /\ pc[t] \in {"d_out", "d_in", "d_hw"} /\ dret[t] = "w_fin" => dOut[t] = self[t]

ClosingAt == {"co_hw", "ci_hw"}

(* A thread that closes a stream is the only one.                          *)
ClosesAlone(t) ==
  pc[t] \in ClosingAt =>
    /\ arg[t] \in {mOutput} \cup mInputs
    /\ arg[t] \notin handles
    /\ \A u \in Threads \ {t} : pc[u] \in ClosingAt => arg[u] # arg[t]

(* Every stream somebody can reach has been allocated and not destroyed.   *)
PointsToLive(t) ==
  /\ self[t] \in handles \cup {None}
  /\ spOut[t] \in outLive \cup {None}
  /\ dOut[t] \in outLive \cup {None}
  /\ spIn[t] \in inLive \cup {None}

ObjectsLive ==
  /\ mOutput \in outLive \cup {None}
  /\ mInputs \subseteq inLive
  /\ handles \subseteq {mOutput} \cup mInputs

(* Nobody else can reach a stream that is being destroyed.                 *)
EndsAlone(t) ==
  Ending(t) =>
    /\ arg[t] \in outLive \cup inLive
    /\ arg[t] \notin {mOutput} \cup mInputs
    /\ \A u \in Threads : arg[t] \notin {spOut[u], spIn[u], dOut[u]}
    /\ \A u \in Threads \ {t} : Ending(u) => arg[u] # arg[t]

RefInv ==
  /\ ObjectsLive
  /\ \A t \in Threads : Uses(t) /\ ClosesAlone(t) /\ PointsToLive(t) /\ EndsAlone(t)

(* A step gives thread t a pointer to a stream only from where one was.    *)
Points(t) ==
  /\ self'[t] \in handles \cup {None}
  /\ spOut'[t] \in {spOut[t], mOutput, None}
  /\ spIn'[t] \in mInputs \cup {spIn[t], None}
  /\ dOut'[t] \in {dOut[t], mOutput, None}

Ends(t) ==
  Ending(t)' =>
    /\ arg'[t] # None
    /\ arg'[t] \notin {spOut'[t], spIn'[t], dOut'[t]}
    /\ \/ Ending(t) /\ arg'[t] = arg[t]
       \/ arg'[t] = spOut[t] /\ LastRefOut(t, spOut[t])
       \/ arg'[t] = dOut[t] /\ LastRefOut(t, dOut[t])
       \/ arg'[t] = spIn[t] /\ LastRefIn(t, spIn[t])

(* doStandby_l on behalf of write() comes back to write().                 *)
ComesBack(t) ==
  pc[t] \in InDoAt /\ dret[t] = "w_fin" =>
    /\ pc'[t] \in InDoAt \cup {"w_fin"}
    /\ dret'[t] = "w_fin" /\ self'[t] = self[t]

RunSteps(t) ==
  /\ Uses(t)' /\ Points(t) /\ Ends(t) /\ ComesBack(t) /\ pc'[t] \notin ClosingAt
  /\ UNCHANGED objects

(* Every action of a call in progress but the end of a close and the end   *)
(* of a destructor drops or copies pointers as RunSteps says.              *)
LEMMA RunRefs ==
  ASSUME LockInv, RefInv, NEW t \in Threads, Run(t),
         ~CloseOutputStream(t), ~CloseInputStream(t), ~FreeStream(t)
  PROVE  RunSteps(t)
<1>a. ActiveInput \in mInputs \cup {None}
  BY DEF ActiveInput
<1> USE ConstantsAssumption
    DEF LockInv, TypeOK, RefInv, ObjectsLive, RunSteps, Uses, ComesBack, PointsToLive,
        EndsAlone, Points, Ends, ClosingAt,
    Ending, Goto, locks,
        objects, Return, Destroy, ThreadOK, Pointers, Returns, OutStandbyAt,
        InStandbyAt, InDoAt, WriteAt, ReadAt
<1>1. CASE OutStandbyLock(t)
  BY <1>1, SMTT(30) DEF OutStandbyLock
<1>2. CASE OutStandbyDo(t)
  BY <1>2, SMTT(30) DEF OutStandbyDo
<1>3. CASE InStandbyLock(t)
  BY <1>3, SMTT(30) DEF InStandbyLock
<1>4. CASE InStandbyDo(t)
  BY <1>4, SMTT(30) DEF InStandbyDo
<1>5. CASE InStandbyEnd(t)
  BY <1>5, SMTT(30) DEF InStandbyEnd
<1>6. CASE InDoStandbyBegin(t)
  BY <1>6, SMTT(30) DEF InDoStandbyBegin
<1>61. CASE InDoStandbyOut(t)
  BY <1>61, SMTT(30) DEF InDoStandbyOut
<1>62. CASE InDoStandbyIn(t)
  BY <1>62, SMTT(30) DEF InDoStandbyIn
<1>63. CASE InDoStandbyEnd(t)
  BY <1>63, SMTT(30) DEF InDoStandbyEnd, HoldsInDo
<1>7. CASE WriteLock(t)
  BY <1>7, SMTT(30) DEF WriteLock
<1>8. CASE WriteExitStandby(t)
  BY <1>8, <1>a, SMTT(30) DEF WriteExitStandby, SelectInput
<1>9. CASE WriteLockInput(t)
  BY <1>9, SMTT(30) DEF WriteLockInput
<1>10. CASE WriteCloseInput(t)
  BY <1>10, SMTT(30) DEF WriteCloseInput
<1>11. CASE WriteRetryInput(t)
  BY <1>11, <1>a, SMTT(30) DEF WriteRetryInput, ReselectInput, SelectInput, LastRefIn
<1>12. CASE WriteOpen(t)
  BY <1>12, WriteOpenPlaces
<1>13. CASE WriteOpened(t)
  BY <1>13, SMTT(30) DEF WriteOpened, LastRefIn
<1>14. CASE WriteData(t)
  BY <1>14, SMTT(30) DEF WriteData
<1>15. CASE ReadLock(t)
  BY <1>15, SMTT(30) DEF ReadLock
<1>16. CASE ReadExitStandby(t)
  BY <1>16, SMTT(30) DEF ReadExitStandby, SelectOutput
<1>17. CASE ReadLockOutput(t)
  BY <1>17, SMTT(30) DEF ReadLockOutput
<1>18. CASE ReadRelock(t)
  BY <1>18, SMTT(30) DEF ReadRelock
<1>19. CASE ReadKeepOutput(t)
  BY <1>19, SMTT(30) DEF ReadKeepOutput
<1>20. CASE ReadRetryOutput(t)
  BY <1>20, SMTT(30) DEF ReadRetryOutput, SelectOutput, LastRefOut
<1>21. CASE ReadOpen(t)
  BY <1>21, SMTT(30) DEF ReadOpen
<1>22. CASE ReadData(t)
  BY <1>22, SMTT(30) DEF ReadData
<1>23. CASE OutParametersLock(t)
  BY <1>23, SMTT(30) DEF OutParametersLock
<1>24. CASE OutSetRouting(t)
  BY <1>24, SMTT(30) DEF OutSetRouting
<1>25. CASE InParametersLock(t)
  BY <1>25, SMTT(30) DEF InParametersLock
<1>26. CASE InSetRouting(t)
  BY <1>26, SMTT(30) DEF InSetRouting
<1>27. CASE InSetSource(t)
  BY <1>27, SMTT(30) DEF InSetSource
<1>28. CASE AddEffect(t)
  BY <1>28, SMTT(30) DEF AddEffect
<1>29. CASE RemoveEffect(t)
  BY <1>29, SMTT(30) DEF RemoveEffect
<1>30. CASE UnsetEcho(t)
  BY <1>30, SMTT(30) DEF UnsetEcho
<1>31. CASE ModeBegin(t)
  BY <1>31, <1>a, SMTT(30) DEF ModeBegin, SelectActive, SelectInput
<1>32. CASE ModeLockOutput(t)
  BY <1>32, SMTT(30) DEF ModeLockOutput
<1>33. CASE ModeKeepOutput(t)
  BY <1>33, <1>a, SMTT(30) DEF ModeKeepOutput, SelectInput
<1>34. CASE ModeRetryOutput(t)
  BY <1>34, <1>a, SMTT(30) DEF ModeRetryOutput, LastRefOut, SelectActive, SelectInput
<1>35. CASE ModeLockInput(t)
  BY <1>35, SMTT(30) DEF ModeLockInput
<1>36. CASE ModeKeepInput(t)
  BY <1>36, SMTT(30) DEF ModeKeepInput
<1>37. CASE ModeRetryInput(t)
  BY <1>37, <1>a, SMTT(30) DEF ModeRetryInput, ReselectInput, SelectInput, LastRefIn
<1>38. CASE ModeEnterCall(t)
  BY <1>38, SMTT(30) DEF ModeEnterCall, ForceInputStandby
<1>39. CASE ModeOpenCall(t)
  BY <1>39, SMTT(30) DEF ModeOpenCall
<1>40. CASE ModeLeaveCall(t)
  BY <1>40, SMTT(30) DEF ModeLeaveCall, ForceInputStandby
<1>41. CASE ModeCloseCall(t)
  BY <1>41, SMTT(30) DEF ModeCloseCall
<1>42. CASE ModeOther(t)
  BY <1>42, SMTT(30) DEF ModeOther
<1>43. CASE ModeEnd(t)
  BY <1>43, SMTT(30) DEF ModeEnd
<1>44. CASE SetMicMute(t)
  BY <1>44, <1>a, SMTT(30) DEF SetMicMute
<1>45. CASE CloseOutputClear(t)
  BY <1>45, SMTT(30) DEF CloseOutputClear
<1>46. CASE DropPointers(t)
  BY <1>46, SMTT(30) DEF DropPointers
<1> QED
  BY <1>1, <1>2, <1>3, <1>4, <1>5, <1>6, <1>61, <1>62, <1>63, <1>7, <1>8, <1>9, <1>10, <1>11,
      <1>12, <1>13, <1>14, <1>15, <1>16, <1>17, <1>18, <1>19, <1>20, <1>21, <1>22, <1>23,
      <1>24, <1>25, <1>26, <1>27, <1>28, <1>29, <1>30, <1>31, <1>32, <1>33, <1>34, <1>35,
      <1>36, <1>37, <1>38, <1>39, <1>40, <1>41, <1>42, <1>43, <1>44, <1>45, <1>46 DEF Run

(* A step that moves pointers as RunSteps says keeps the references        *)
(* right.                                                                  *)
LEMMA RefInvKept ==
  ASSUME LockInv, TypeOK', RefInv, NEW t \in Threads, OnlyOwn(t), RunSteps(t)
  PROVE  RefInv'
<1> USE ConstantsAssumption DEF LockInv, TypeOK, RefInv, RunSteps, OnlyOwn, objects
<1>1. ObjectsLive'
  BY DEF ObjectsLive
<1>2. ASSUME NEW u \in Threads PROVE Uses(u)'
  BY <1>2 DEF Uses, Ending
<1>3. ASSUME NEW u \in Threads PROVE ClosesAlone(u)'
  BY <1>3 DEF ClosesAlone
<1>4. ASSUME NEW u \in Threads PROVE PointsToLive(u)'
  BY <1>4 DEF PointsToLive, Points, ObjectsLive
<1>5. ASSUME NEW u \in Threads PROVE EndsAlone(u)'
  <2>1. CASE u = t
    BY <2>1 DEF EndsAlone, Ends, Ending, PointsToLive, LastRefOut, LastRefIn
  <2>2. CASE u # t
    <3>1. Ending(u)' = Ending(u) /\ arg'[u] = arg[u]
      BY <2>2 DEF Ending
    <3> SUFFICES ASSUME Ending(u) PROVE EndsAlone(u)'
      BY <3>1 DEF EndsAlone
    <3>2. EndsAlone(u)
      OBVIOUS
    <3>3. /\ arg[u] \in outLive \cup inLive
          /\ arg[u] \notin {mOutput} \cup mInputs
          /\ \A v \in Threads : arg[u] \notin {spOut[v], spIn[v], dOut[v]}
          /\ \A v \in Threads \ {u} : Ending(v) => arg[v] # arg[u]
      BY <3>2 DEF EndsAlone
    <3>4. \A v \in Threads : arg[u] \notin {spOut'[v], spIn'[v], dOut'[v]}
      BY <3>3 DEF Points
    <3>5. \A v \in Threads \ {u} : Ending(v)' => arg'[v] # arg[u]
      BY <3>3 DEF Ends, Ending
    <3> QED BY <3>1, <3>3, <3>4, <3>5 DEF EndsAlone
  <2> QED BY <2>1, <2>2
<1> QED BY <1>1, <1>2, <1>3, <1>4, <1>5

(* So do closeOutputStream and closeInputStream, which take the stream     *)
(* from the hardware object into a local pointer, and the end of a         *)
(* destructor.                                                             *)
LEMMA CloseRefs ==
  ASSUME LockInv, TypeOK', RefInv, NEW t \in Threads, OnlyOwn(t),
         CloseOutputStream(t) \/ CloseInputStream(t) \/ FreeStream(t)
  PROVE  RefInv'
<1>a. ActiveInput \in mInputs \cup {None}
  BY DEF ActiveInput
<1> USE ConstantsAssumption DEF LockInv, TypeOK, RefInv, OnlyOwn
<1>0. ThreadOK(t) /\ Uses(t) /\ ClosesAlone(t) /\ PointsToLive(t) /\ EndsAlone(t)
  OBVIOUS
<1>1. CASE CloseOutputStream(t)
  <2> USE <1>0, <1>1, <1>a DEF CloseOutputStream, Goto, locks
  <2>0. arg[t] \in Outs /\ arg[t] = mOutput
    BY DEF ThreadOK, Pointers, ClosesAlone, ClosingAt
  <2>1. ObjectsLive'
    BY <2>0 DEF ObjectsLive, ClosesAlone, ClosingAt
  <2>2. ASSUME NEW u \in Threads PROVE Uses(u)' /\ PointsToLive(u)'
    BY <2>0, <2>2 DEF Uses, Ending, PointsToLive, ObjectsLive, ClosesAlone, ClosingAt,
        OutStandbyAt, InStandbyAt, InDoAt
  <2>3. ASSUME NEW u \in Threads PROVE ClosesAlone(u)'
    BY <2>0, <2>3 DEF ClosesAlone, ClosingAt
  <2>4. ASSUME NEW u \in Threads PROVE EndsAlone(u)'
    BY <2>0, <2>4 DEF EndsAlone, Ending, OutStandbyAt, InDoAt
  <2> QED BY <2>1, <2>2, <2>3, <2>4
<1>2. CASE CloseInputStream(t)
  <2> USE <1>0, <1>2 DEF CloseInputStream, Goto, locks
  <2>0. arg[t] \in Ins /\ arg[t] \in mInputs
    BY DEF ThreadOK, Pointers, ClosesAlone, ClosingAt
  <2>1. ObjectsLive'
    BY <2>0 DEF ObjectsLive, ClosesAlone, ClosingAt
  <2>2. ASSUME NEW u \in Threads PROVE Uses(u)' /\ PointsToLive(u)'
    BY <2>0, <2>2 DEF Uses, Ending, PointsToLive, ObjectsLive, ClosesAlone, ClosingAt,
        OutStandbyAt, InStandbyAt, InDoAt
  <2>3. ASSUME NEW u \in Threads PROVE ClosesAlone(u)'
    BY <2>0, <2>3 DEF ClosesAlone, ClosingAt
  <2>4. ASSUME NEW u \in Threads PROVE EndsAlone(u)'
    BY <2>0, <2>4 DEF EndsAlone, Ending, OutStandbyAt, InDoAt
  <2> QED BY <2>1, <2>2, <2>3, <2>4
<1>3. CASE FreeStream(t)
  <2> USE <1>0, <1>3 DEF FreeStream, Goto, locks
  <2>0. Ending(t) /\ arg[t] \in Outs \cup Ins
    BY DEF Uses, Ending
  <2>1. ObjectsLive'
    BY <2>0 DEF ObjectsLive, EndsAlone
  <2>2. ASSUME NEW u \in Threads PROVE Uses(u)'
    BY <2>2 DEF Uses, Ending, OutStandbyAt, InStandbyAt, InDoAt
  <2>3. ASSUME NEW u \in Threads PROVE PointsToLive(u)'
    BY <2>0, <2>3 DEF PointsToLive, EndsAlone
  <2>4. ASSUME NEW u \in Threads PROVE ClosesAlone(u)'
    BY <2>0, <2>4 DEF ClosesAlone, ClosingAt
  <2>5. ASSUME NEW u \in Threads PROVE EndsAlone(u)'
    BY <2>0, <2>5 DEF EndsAlone, Ending, OutStandbyAt, InDoAt
  <2> QED BY <2>1, <2>2, <2>3, <2>4, <2>5
<1> QED BY <1>1, <1>2, <1>3

Calls(t) ==
  \/ CallWrite(t) \/ CallRead(t) \/ CallStandby(t) \/ CallSetParameters(t)
  \/ CallAddAudioEffect(t) \/ CallRemoveAudioEffect(t) \/ CallSetMode(t) \/ CallSetMicMute(t)

(* A call that begins takes no reference.                                  *)
LEMMA CallRefs ==
  ASSUME LockInv, RefInv, NEW t \in Threads, Calls(t)
  PROVE  RunSteps(t)
<1> USE ConstantsAssumption
    DEF LockInv, TypeOK, RefInv, ObjectsLive, RunSteps, Uses, ComesBack, PointsToLive,
        EndsAlone, Points, Ends, ClosingAt,
    Ending, Goto, locks, Idle, Call, CallFrame,
        objects, ThreadOK, Pointers, Returns, OutStandbyAt,
        InStandbyAt, InDoAt, WriteAt, ReadAt
<1>1. CASE CallWrite(t) \/ CallRead(t) \/ CallRemoveAudioEffect(t)
  BY <1>1, SMTT(30) DEF CallWrite, CallRead, CallRemoveAudioEffect
<1>2. CASE CallSetParameters(t)
  BY <1>2, SMTT(30) DEF CallSetParameters
<1>3. CASE CallStandby(t)
  BY <1>3, SMTT(30) DEF CallStandby
<1>4. CASE CallAddAudioEffect(t)
  BY <1>4, SMTT(30) DEF CallAddAudioEffect
<1>5. CASE CallSetMode(t) \/ CallSetMicMute(t)
  BY <1>5, SMTT(30) DEF CallSetMode, CallSetMicMute
<1> QED BY <1>1, <1>2, <1>3, <1>4, <1>5 DEF Calls

(* The beginning of a call keeps the references right, also where it       *)
(* closes a stream or makes a new one.                                     *)
LEMMA BeginRefs ==
  ASSUME LockInv, TypeOK', RefInv, NEW t \in Threads, OnlyOwn(t), Begin(t)
  PROVE  RefInv'
<1> USE ConstantsAssumption DEF LockInv, TypeOK, RefInv, OnlyOwn
<1>0. ThreadOK(t) /\ Uses(t) /\ ClosesAlone(t) /\ PointsToLive(t) /\ EndsAlone(t)
  OBVIOUS
<1>1. CASE Calls(t)
  BY <1>1, CallRefs, RefInvKept
<1>2. CASE CallCloseStream(t)
  <2>1. PICK s \in Outs \cup Ins : CallClose(t, IF s \in Outs THEN "closeOut" ELSE "closeIn", s, IF s \in Outs THEN "co_hw" ELSE "ci_hw")
    BY <1>2 DEF CallCloseStream
  <2> USE <1>0, <2>1 DEF CallClose, Idle, Goto, locks
  <2>2. ObjectsLive'
    BY DEF ObjectsLive
  <2>3. ASSUME NEW u \in Threads PROVE Uses(u)'
    BY <2>3 DEF Uses, Ending, OutStandbyAt, InStandbyAt, InDoAt
  <2>4. ASSUME NEW u \in Threads PROVE PointsToLive(u)'
    BY <2>4 DEF PointsToLive
  <2>5. ASSUME NEW u \in Threads PROVE ClosesAlone(u)'
    BY <2>5 DEF ClosesAlone, ClosingAt, ObjectsLive
  <2>6. ASSUME NEW u \in Threads PROVE EndsAlone(u)'
    BY <2>6 DEF EndsAlone, Ending, OutStandbyAt, InDoAt
  <2> QED BY <2>2, <2>3, <2>4, <2>5, <2>6
<1>3. CASE OpenOutputStream(t)
  <2>1. PICK o \in Outs \ outLive :
          mOutput' = o /\ outLive' = outLive \cup {o} /\ handles' = handles \cup {o}
    BY <1>3 DEF OpenOutputStream
  <2>2. /\ mOutput = None
        /\ UNCHANGED <<mInputs, inLive, pc, self, spOut, spIn, dOut, arg, ret, dret>>
    BY <1>3 DEF OpenOutputStream
  <2> USE <1>0, <2>1, <2>2
  <2>3. ObjectsLive'
    BY DEF ObjectsLive
  <2>4. ASSUME NEW u \in Threads PROVE Uses(u)' /\ PointsToLive(u)'
    BY <2>4 DEF Uses, Ending, PointsToLive
  <2>5. ASSUME NEW u \in Threads PROVE ClosesAlone(u)'
    BY <2>5 DEF ClosesAlone, ClosingAt, ObjectsLive, ThreadOK, Pointers
  <2>6. ASSUME NEW u \in Threads PROVE EndsAlone(u)'
    BY <2>6 DEF EndsAlone, Ending
  <2> QED BY <2>3, <2>4, <2>5, <2>6
<1>4. CASE OpenInputStream(t)
  <2>1. PICK i \in Ins \ inLive :
          mInputs' = mInputs \cup {i} /\ inLive' = inLive \cup {i} /\ handles' = handles \cup {i}
    BY <1>4 DEF OpenInputStream
  <2>2. UNCHANGED <<mOutput, outLive, pc, self, spOut, spIn, dOut, arg, ret, dret>>
    BY <1>4 DEF OpenInputStream
  <2> USE <1>0, <2>1, <2>2
  <2>3. ObjectsLive'
    BY DEF ObjectsLive
  <2>4. ASSUME NEW u \in Threads PROVE Uses(u)' /\ PointsToLive(u)'
    BY <2>4 DEF Uses, Ending, PointsToLive
  <2>5. ASSUME NEW u \in Threads PROVE ClosesAlone(u)'
    BY <2>5 DEF ClosesAlone, ClosingAt, ObjectsLive, ThreadOK, Pointers
  <2>6. ASSUME NEW u \in Threads PROVE EndsAlone(u)'
    BY <2>6 DEF EndsAlone, Ending
  <2> QED BY <2>3, <2>4, <2>5, <2>6
<1> QED BY <1>1, <1>2, <1>3, <1>4 DEF Begin, Calls

(* RefInv is inductive together with the invariant of the locks.           *)
LEMMA RefInvStep ==
  ASSUME LockInv, TypeOK', RefInv, [Next]_vars
  PROVE  RefInv'
<1>1. CASE UNCHANGED vars
  BY <1>1 DEF vars, locks, objects, RefInv, ObjectsLive, Uses, Ending, ClosesAlone,
      PointsToLive, EndsAlone
<1>2. CASE Next
  <2>1. PICK t \in Threads : Begin(t) \/ Run(t)
    BY <1>2 DEF Next
  <2>2. OnlyOwn(t)
    BY <2>1, BeginControl, RunControl DEF ControlStep
  <2>3. CASE Run(t) /\ ~(CloseOutputStream(t) \/ CloseInputStream(t) \/ FreeStream(t))
    BY <2>2, <2>3, RunRefs, RefInvKept
  <2> QED
    BY <2>1, <2>2, <2>3, BeginRefs, CloseRefs
<1> QED BY <1>1, <1>2

-----------------------------------------------------------------------------
(* What opening and closing does to the two counts of the hardware         *)
(* object.                                                                 *)

(* One, if the condition holds.                                            *)
Bit(x) == IF x THEN 1 ELSE 0

(* What opening and closing devices leaves alone.                          *)
CallFields(h) == <<h.mode, h.inCall, h.micMute, h.echo>>

Covers(h, s) == (s.pcm => h.pcmCnt > 0) /\ (s.mixer => h.mixerCnt > 0)

(* OpenPcmOut_l and closePcmOut_l change the count of the playback         *)
(* device, by one or not at all, and nothing else.                         *)
LEMMA PcmCounts ==
  ASSUME NEW h \in HwFields
  PROVE  /\ \A g \in openPcmOut_l(h) :
              /\ g \in HwFields
              /\ CallFields(g) = CallFields(h) /\ g.wake = h.wake /\ g.micOff = h.micOff
              /\ g.mixerCnt = h.mixerCnt
              /\ g.pcmCnt = h.pcmCnt + Bit(g.pcmCnt > 0)
              /\ h.pcmCnt > 0 => g.pcmCnt > 0
              /\ "pcmOut" \notin Faults => g.pcmCnt > 0
         /\ LET g == closePcmOut_l(h) IN
              /\ g \in HwFields
              /\ CallFields(g) = CallFields(h) /\ g.wake = h.wake /\ g.micOff = h.micOff
              /\ g.mixerCnt = h.mixerCnt
              /\ h.pcmCnt > 0 => g.pcmCnt = h.pcmCnt - 1
BY DEF HwFields, openPcmOut_l, closePcmOut_l, CallFields, Bit

(* OpenMixer_l and closeMixer_l do the same to the count of the mixer.     *)
LEMMA MixerCounts ==
  ASSUME NEW h \in HwFields
  PROVE  /\ \A g \in openMixer_l(h) :
              /\ g \in HwFields
              /\ CallFields(g) = CallFields(h) /\ g.wake = h.wake /\ g.micOff = h.micOff
              /\ g.pcmCnt = h.pcmCnt
              /\ g.mixerCnt = h.mixerCnt + Bit(g.mixerCnt > 0)
              /\ "mixer" \notin Faults => g.mixerCnt > 0
         /\ LET g == closeMixer_l(h) IN
              /\ g \in HwFields
              /\ CallFields(g) = CallFields(h) /\ g.wake = h.wake /\ g.micOff = h.micOff
              /\ g.pcmCnt = h.pcmCnt
              /\ g.mixerCnt = IF h.mixerCnt > 0 THEN h.mixerCnt - 1 ELSE 0
BY DEF HwFields, openMixer_l, closeMixer_l, CallFields, Bit

(* AudioStreamOutALSA::close_l gives back exactly what the stream holds.   *)
LEMMA OutCloseCounts ==
  ASSUME NEW h \in HwFields, NEW s \in OutFields
  PROVE  LET g == OutCloseHw(h, s) IN
         /\ g \in HwFields
         /\ CallFields(g) = CallFields(h) /\ g.wake = h.wake /\ g.micOff = h.micOff
         /\ Covers(h, s) => /\ g.pcmCnt = h.pcmCnt - Bit(s.pcm)
                            /\ g.mixerCnt = h.mixerCnt - Bit(s.mixer)
<1> DEFINE h1 == IF s.mixer THEN closeMixer_l(h) ELSE h
           g == IF s.pcm THEN closePcmOut_l(h1) ELSE h1
<1>1. /\ h1 \in HwFields
      /\ CallFields(h1) = CallFields(h) /\ h1.wake = h.wake /\ h1.micOff = h.micOff
      /\ h1.pcmCnt = h.pcmCnt
      /\ Covers(h, s) => h1.mixerCnt = h.mixerCnt - Bit(s.mixer)
  BY MixerCounts DEF Covers, Bit, HwFields
<1>2. g = OutCloseHw(h, s)
  BY DEF OutCloseHw
<1> HIDE DEF h1
<1>3. /\ g \in HwFields
      /\ CallFields(g) = CallFields(h1) /\ g.wake = h1.wake /\ g.micOff = h1.micOff
      /\ g.mixerCnt = h1.mixerCnt
      /\ Covers(h, s) => g.pcmCnt = h1.pcmCnt - Bit(s.pcm)
  BY <1>1, PcmCounts DEF Covers, Bit, HwFields
<1> HIDE DEF g
<1> QED BY <1>1, <1>2, <1>3

(* So does its doStandby_l, which also lets the phone sleep if the stream  *)
(* was not in standby.                                                     *)
LEMMA OutStandbyCounts ==
  ASSUME NEW h \in HwFields, NEW s \in OutFields
  PROVE  LET g == OutStandbyHw(h, s) IN
         /\ g \in HwFields
         /\ CallFields(g) = CallFields(h) /\ g.micOff = h.micOff
         /\ g.wake = (s.standby /\ h.wake)
         /\ Covers(h, s) => /\ g.pcmCnt = h.pcmCnt - Bit(s.pcm)
                            /\ g.mixerCnt = h.mixerCnt - Bit(s.mixer)
<1> DEFINE h1 == IF s.standby THEN h ELSE [h EXCEPT !.wake = FALSE]
<1>1. /\ h1 \in HwFields
      /\ CallFields(h1) = CallFields(h) /\ h1.micOff = h.micOff
      /\ h1.wake = (s.standby /\ h.wake)
      /\ h1.pcmCnt = h.pcmCnt /\ h1.mixerCnt = h.mixerCnt
  BY DEF HwFields, OutFields, CallFields
<1>2. Covers(h1, s) <=> Covers(h, s)
  BY <1>1 DEF Covers
<1>3. OutStandbyHw(h, s) = OutCloseHw(h1, s)
  BY DEF OutStandbyHw
<1> HIDE DEF h1
<1> QED BY <1>1, <1>2, <1>3, OutCloseCounts

(* AudioStreamOutALSA::open_l takes one of the playback device for a       *)
(* stream that then has its handle, and one of the mixer likewise; no      *)
(* mixer is held without the device.                                       *)
LEMMA OutOpenCounts ==
  ASSUME NEW h \in HwFields, NEW r \in OutOpen(h)
  PROVE  /\ r.hw \in HwFields /\ r.pcm \in BOOLEAN /\ r.mixer \in BOOLEAN
         /\ CallFields(r.hw) = CallFields(h) /\ r.hw.wake = h.wake /\ r.hw.micOff = h.micOff
         /\ r.hw.pcmCnt = h.pcmCnt + Bit(r.pcm)
         /\ r.hw.mixerCnt = h.mixerCnt + Bit(r.mixer)
         /\ r.mixer => r.pcm
<1>1. PICK h1 \in openPcmOut_l(h) :
        r \in IF h1.pcmCnt = 0 THEN {[hw |-> h1, pcm |-> FALSE, mixer |-> FALSE]}
              ELSE {[hw |-> h2, pcm |-> TRUE, mixer |-> h2.mixerCnt > 0] : h2 \in openMixer_l(h1)}
  BY DEF OutOpen
<1>2. /\ h1 \in HwFields
      /\ CallFields(h1) = CallFields(h) /\ h1.wake = h.wake /\ h1.micOff = h.micOff
      /\ h1.mixerCnt = h.mixerCnt
      /\ h1.pcmCnt = h.pcmCnt + Bit(h1.pcmCnt > 0)
      /\ h.pcmCnt > 0 => h1.pcmCnt > 0
  BY PcmCounts
<1>3. CASE h1.pcmCnt = 0
  <2>1. r.hw = h1 /\ r.pcm = FALSE /\ r.mixer = FALSE
    BY <1>1, <1>3
  <2>2. h1.pcmCnt = h.pcmCnt /\ h1.mixerCnt \in Nat
    BY <1>2, <1>3 DEF Bit, HwFields
  <2>3. ~r.pcm /\ ~r.mixer /\ r.pcm \in BOOLEAN /\ r.mixer \in BOOLEAN
    BY <2>1
  <2>4. Bit(r.pcm) = 0 /\ Bit(r.mixer) = 0
    BY <2>3 DEF Bit
  <2>5. h.pcmCnt + 0 = h.pcmCnt /\ h.mixerCnt + 0 = h.mixerCnt
    BY DEF HwFields
  <2> QED BY <1>2, <2>1, <2>2, <2>3, <2>4, <2>5
<1>4. CASE h1.pcmCnt # 0
  <2>1. PICK h2 \in openMixer_l(h1) : r = [hw |-> h2, pcm |-> TRUE, mixer |-> h2.mixerCnt > 0]
    BY <1>1, <1>4
  <2>2. /\ h2 \in HwFields
        /\ CallFields(h2) = CallFields(h1) /\ h2.wake = h1.wake /\ h2.micOff = h1.micOff
        /\ h2.pcmCnt = h1.pcmCnt
        /\ h2.mixerCnt = h1.mixerCnt + Bit(h2.mixerCnt > 0)
    BY <1>2, MixerCounts
  <2>3. r.hw = h2 /\ r.pcm = TRUE /\ r.mixer = (h2.mixerCnt > 0)
    BY <2>1
  <2>4. h1.pcmCnt \in Nat /\ h2.mixerCnt \in Nat /\ h1.pcmCnt > 0
    BY <1>2, <1>4, <2>2 DEF HwFields
  <2> HIDE DEF Bit
  <2>5. h1.pcmCnt = h.pcmCnt + Bit(TRUE)
    BY <1>2, <2>4 DEF Bit
  <2>6. r.hw.mixerCnt = h.mixerCnt + Bit(r.mixer)
    BY <1>2, <2>2, <2>3
  <2>7. r.pcm /\ r.pcm \in BOOLEAN /\ r.mixer \in BOOLEAN
    <3>1. r.pcm /\ r.pcm \in BOOLEAN
      BY <2>3, Zenon
    <3>2. r.mixer \in BOOLEAN
      BY <1>1, OutOpenType
    <3> QED BY <3>1, <3>2
  <2>8. r.hw.pcmCnt = h.pcmCnt + Bit(r.pcm)
    BY <2>2, <2>3, <2>5
  <2> QED BY <1>2, <2>2, <2>3, <2>6, <2>7, <2>8
<1> QED BY <1>3, <1>4

(* AudioStreamInALSA::open_l takes one of the mixer, and sets the          *)
(* microphone path outside calls.                                          *)
LEMMA InOpenCounts ==
  ASSUME NEW h \in HwFields, NEW r \in InOpen(h)
  PROVE  /\ r.hw \in HwFields /\ r.pcm \in BOOLEAN /\ r.mixer \in BOOLEAN
         /\ CallFields(r.hw) = CallFields(h) /\ r.hw.wake = h.wake
         /\ r.hw.pcmCnt = h.pcmCnt
         /\ r.hw.mixerCnt = h.mixerCnt + Bit(r.mixer)
         /\ r.mixer => r.pcm
         /\ r.hw.micOff = IF r.mixer /\ h.mode # "IN_CALL" THEN h.micMute ELSE h.micOff
         /\ "pcmIn" \notin Faults => r.pcm
<1>1. CASE "pcmIn" \in Faults /\ r = [hw |-> h, pcm |-> FALSE, mixer |-> FALSE]
  BY <1>1 DEF Bit, HwFields
<1>2. CASE \E h1 \in openMixer_l(h) :
             r = [hw |-> [h1 EXCEPT !.micOff = IF h1.mixerCnt > 0 /\ h1.mode # "IN_CALL"
                                               THEN h1.micMute ELSE @],
                  pcm |-> TRUE, mixer |-> h1.mixerCnt > 0]
  <2>1. PICK h1 \in openMixer_l(h) :
             r = [hw |-> [h1 EXCEPT !.micOff = IF h1.mixerCnt > 0 /\ h1.mode # "IN_CALL"
                                               THEN h1.micMute ELSE @],
                  pcm |-> TRUE, mixer |-> h1.mixerCnt > 0]
    BY <1>2
  <2>2. /\ h1 \in HwFields
        /\ CallFields(h1) = CallFields(h) /\ h1.wake = h.wake /\ h1.micOff = h.micOff
        /\ h1.pcmCnt = h.pcmCnt
        /\ h1.mixerCnt = h.mixerCnt + Bit(h1.mixerCnt > 0)
    BY MixerCounts
  <2>3. h1.mode = h.mode /\ h1.micMute = h.micMute
    BY <2>2 DEF CallFields
  <2>4. /\ r.hw \in HwFields /\ r.pcm = TRUE /\ r.mixer = (h1.mixerCnt > 0)
        /\ r.hw.pcmCnt = h1.pcmCnt /\ r.hw.mixerCnt = h1.mixerCnt /\ r.hw.wake = h1.wake
        /\ CallFields(r.hw) = CallFields(h1)
        /\ r.hw.micOff = IF h1.mixerCnt > 0 /\ h1.mode # "IN_CALL" THEN h1.micMute ELSE h1.micOff
    BY <2>1, <2>2 DEF HwFields, CallFields
  <2>5. r.mixer \in BOOLEAN /\ r.hw.mixerCnt = h.mixerCnt + Bit(r.mixer)
    BY <2>2, <2>4
  <2>6. r.hw.micOff = IF r.mixer /\ h.mode # "IN_CALL" THEN h.micMute ELSE h.micOff
    BY <2>2, <2>3, <2>4
  <2> QED BY <2>2, <2>4, <2>5, <2>6
<1> QED BY <1>1, <1>2 DEF InOpen

-----------------------------------------------------------------------------
(* What the steps of write() and read() that open devices do to the        *)
(* streams.                                                                *)

Closed(s) == ~s.pcm /\ ~s.mixer

(* Whether stream s of f has the device, or the mixer: one or none.         *)
Pcm(f, s) == Bit(s # None /\ f[s].pcm)
Mix(f, s) == Bit(s # None /\ f[s].mixer)

(* Nothing happens to the devices of any other output, or of any other     *)
(* input.                                                                  *)
OnlyOut(o) == \A x \in Outs \ {o} : Devices(out'[x]) = Devices(out[x])
OnlyIn(i)  == \A x \in Ins \ {i} : Devices(in'[x]) = Devices(in[x])

(* An output put in standby has its devices closed; its echo reference     *)
(* and the other outputs stay as they are.                                 *)
LEMMA OutPutInStandby ==
  ASSUME out \in [Outs -> OutFields], NEW o \in Outs, out' = [out EXCEPT ![o] = OutStandby(@)]
  PROVE  /\ out'[o].standby /\ Closed(out'[o]) /\ out'[o].echo = out[o].echo
         /\ OnlyOut(o) /\ \A x \in Outs \ {o} : out'[x] = out[x]
<1>1. out[o] \in OutFields
  OBVIOUS
<1>2. OutStandby(out[o]) \in OutFields
  BY <1>1 DEF OutStandby, OutFields
<1>3. /\ OutStandby(out[o]).standby /\ Closed(OutStandby(out[o])) 
      /\ OutStandby(out[o]).echo = out[o].echo
  BY <1>1 DEF OutStandby, OutFields, Closed
<1>4. out'[o] = OutStandby(out[o]) /\ \A x \in Outs \ {o} : out'[x] = out[x]
  OBVIOUS
<1> QED BY <1>3, <1>4 DEF OnlyOut

(* The devices write() opens on its way out of standby: those of its       *)
(* output and, if it had closed it, of the active input.                   *)
LEMMA WriteOpenEffect ==
  ASSUME LockInv, NEW t \in Threads, WriteOpen(t)
  PROVE  LET o == self[t]
             i == spIn[t] IN
         /\ o \in Outs
         /\ out'[o].standby = out[o].standby
         /\ \A x \in Outs : out'[x].echo = out[x].echo
         /\ \A x \in Outs \ {o} : out'[x] = out[x]
         /\ out'[o].mixer => out'[o].pcm
         /\ i = None => in' = in /\ hw'.micOff = hw.micOff
         /\ i # None =>
              /\ i \in Ins
              /\ \A x \in Ins \ {i} : in'[x] = in[x]
              /\ in'[i].standby = in[i].standby
              /\ in'[i].mixer => in'[i].pcm
              /\ hw'.micOff = IF in'[i].mixer /\ hw.mode # "IN_CALL" THEN hw.micMute ELSE hw.micOff
              /\ pc'[t] = IF in'[i].pcm THEN "w_fin" ELSE "d_begin"
              /\ "pcmIn" \notin Faults => in'[i].pcm
         /\ \A x \in Ins : in'[x].echo = in[x].echo /\ in'[x].needEcho = in[x].needEcho
         /\ CallFields(hw') = CallFields(hw) /\ hw'.wake = hw.wake
         /\ hw'.pcmCnt = hw.pcmCnt + Pcm(out', o)
         /\ hw'.mixerCnt = hw.mixerCnt + Mix(out', o) + Mix(in', i)
<1> DEFINE o == self[t]
           i == spIn[t]
<1>1. /\ FieldsOK /\ ThreadOK(t) /\ pc \in [Threads -> Labels] /\ spIn[t] \in Ins \cup {None}
      /\ pc[t] = "w_open"
  BY TypeParts DEF LockInv, TypeOK, WriteOpen
<1>2. o \in Outs
  BY <1>1 DEF ThreadOK, Pointers, WriteAt
<1>3. PICK r \in OutOpen(hw) :
        /\ out' = [out EXCEPT ![self[t]].pcm = r.pcm, ![self[t]].mixer = r.mixer]
        /\ IF spIn[t] = None
           THEN hw' = r.hw /\ in' = in
           ELSE \E q \in InOpen(r.hw) :
                  /\ hw' = q.hw
                  /\ in' = [in EXCEPT ![spIn[t]].pcm = q.pcm, ![spIn[t]].mixer = q.mixer]
                  /\ Goto(t, IF q.pcm THEN "w_fin" ELSE "d_begin")
  BY Zenon DEF WriteOpen
<1>4. /\ r.hw \in HwFields /\ r.pcm \in BOOLEAN /\ r.mixer \in BOOLEAN
      /\ CallFields(r.hw) = CallFields(hw) /\ r.hw.wake = hw.wake /\ r.hw.micOff = hw.micOff
      /\ r.hw.pcmCnt = hw.pcmCnt + Bit(r.pcm)
      /\ r.hw.mixerCnt = hw.mixerCnt + Bit(r.mixer)
      /\ r.mixer => r.pcm
  BY <1>1, OutOpenCounts DEF FieldsOK
<1>5. /\ out'[o].standby = out[o].standby
      /\ \A x \in Outs : out'[x].echo = out[x].echo
      /\ \A x \in Outs \ {o} : out'[x] = out[x]
      /\ out'[o].pcm = r.pcm /\ out'[o].mixer = r.mixer
  <2>1. out[o] \in OutFields /\ out \in [Outs -> OutFields]
    BY <1>1, <1>2 DEF FieldsOK
  <2> QED BY <1>2, <1>3, <2>1 DEF OutFields
<1>6. o # None /\ Pcm(out', o) = Bit(r.pcm) /\ Mix(out', o) = Bit(r.mixer)
  BY <1>2, <1>5, ConstantsAssumption DEF Pcm, Mix, Bit
<1>7. CASE i = None
  <2>1. Mix(in', i) = 0 /\ in' = in /\ hw' = r.hw
    BY <1>3, <1>7 DEF Mix, Bit
  <2>2. hw'.mixerCnt = hw.mixerCnt + Mix(out', o) + Mix(in', i)
    BY <1>4, <1>6, <2>1 DEF HwFields
  <2> QED BY <1>2, <1>4, <1>5, <1>6, <1>7, <2>1, <2>2
<1>8. CASE i # None
  <2>1. PICK q \in InOpen(r.hw) :
          /\ hw' = q.hw
          /\ in' = [in EXCEPT ![spIn[t]].pcm = q.pcm, ![spIn[t]].mixer = q.mixer]
          /\ Goto(t, IF q.pcm THEN "w_fin" ELSE "d_begin")
    BY <1>3, <1>8
  <2>2. /\ q.hw \in HwFields /\ q.pcm \in BOOLEAN /\ q.mixer \in BOOLEAN
        /\ CallFields(q.hw) = CallFields(r.hw) /\ q.hw.wake = r.hw.wake
        /\ q.hw.pcmCnt = r.hw.pcmCnt
        /\ q.hw.mixerCnt = r.hw.mixerCnt + Bit(q.mixer)
        /\ q.mixer => q.pcm
        /\ q.hw.micOff = IF q.mixer /\ r.hw.mode # "IN_CALL" THEN r.hw.micMute ELSE r.hw.micOff
        /\ "pcmIn" \notin Faults => q.pcm
    BY <1>4, InOpenCounts
  <2>3. i \in Ins
    BY <1>1, <1>8
  <2>4. /\ \A x \in Ins \ {i} : in'[x] = in[x]
        /\ in'[i].standby = in[i].standby
        /\ in'[i].pcm = q.pcm /\ in'[i].mixer = q.mixer
        /\ \A x \in Ins : in'[x].echo = in[x].echo /\ in'[x].needEcho = in[x].needEcho
    <3>1. in[i] \in InFields /\ in \in [Ins -> InFields]
      BY <1>1, <2>3 DEF FieldsOK
    <3> QED BY <2>1, <2>3, <3>1 DEF InFields
  <2>5. Mix(in', i) = Bit(q.mixer)
    BY <1>8, <2>4 DEF Mix, Bit
  <2>6. hw'.mixerCnt = hw.mixerCnt + Mix(out', o) + Mix(in', i)
    BY <1>4, <1>6, <2>1, <2>2, <2>5
  <2>7. pc'[t] = IF in'[i].pcm THEN "w_fin" ELSE "d_begin"
    BY <1>1, <2>1, <2>4 DEF Goto
  <2>8. r.hw.mode = hw.mode /\ r.hw.micMute = hw.micMute
    BY <1>4 DEF CallFields
  <2>9. hw'.micOff = IF in'[i].mixer /\ hw.mode # "IN_CALL" THEN hw.micMute ELSE hw.micOff
    BY <1>4, <2>1, <2>2, <2>4, <2>8
  <2> QED BY <1>2, <1>4, <1>5, <1>6, <1>8, <2>1, <2>2, <2>3, <2>4, <2>6, <2>7, <2>9
<1> QED BY <1>7, <1>8

(* What read() makes of an active output that must be opened again for a   *)
(* new rate: it plays on with the device, or it is in standby without.     *)
LEMMA OutputReopenedEffect ==
  ASSUME LockInv, NEW o \in Outs \cup {None}, NEW a \in OutputReopened(o)
  PROVE  /\ a.hw \in HwFields /\ a.out \in [Outs -> OutFields]
         /\ \A x \in Outs \ {o} : a.out[x] = out[x]
         /\ \A x \in Outs : a.out[x].echo = out[x].echo
         /\ CallFields(a.hw) = CallFields(hw) /\ a.hw.micOff = hw.micOff
         /\ o = None \/ (o # None /\ out[o].standby) => a.hw = hw /\ a.out = out
         /\ o # None /\ ~out[o].standby =>
              /\ a.out[o].standby <=> ~a.out[o].pcm
              /\ a.out[o].mixer => a.out[o].pcm
              /\ a.hw.wake = (a.out[o].pcm /\ hw.wake)
         /\ (o # None => Covers(hw, out[o])) =>
              /\ a.hw.pcmCnt + Pcm(out, o) = hw.pcmCnt + Pcm(a.out, o)
              /\ a.hw.mixerCnt + Mix(out, o) = hw.mixerCnt + Mix(a.out, o)
<1>1. hw \in HwFields /\ out \in [Outs -> OutFields]
  BY DEF LockInv, TypeOK
<1>0. /\ a.hw \in HwFields /\ a.out \in [Outs -> OutFields]
  BY OutputReopenedType
<1>2. CASE o = None \/ (o # None /\ out[o].standby)
  <2>1. a = [hw |-> hw, out |-> out]
    BY <1>2 DEF OutputReopened
  <2>2. a.hw = hw /\ a.out = out
    BY <2>1
  <2> QED BY <1>0, <1>2, <2>2
<1>3. CASE o # None /\ ~out[o].standby
  <2>0. o \in Outs
    BY <1>3
  <2>1. out[o] \in OutFields
    BY <1>1, <2>0
  <2> DEFINE g == OutCloseHw(hw, out[o])
  <2>2. PICK r \in OutOpen(g) :
          a = [hw  |-> IF r.pcm THEN r.hw ELSE [r.hw EXCEPT !.wake = FALSE],
               out |-> [out EXCEPT ![o] = [@ EXCEPT !.pcm = r.pcm, !.mixer = r.mixer,
                                                    !.standby = ~r.pcm]]]
    BY <1>3 DEF OutputReopened
  <2>3. /\ g \in HwFields
        /\ CallFields(g) = CallFields(hw) /\ g.wake = hw.wake /\ g.micOff = hw.micOff
        /\ Covers(hw, out[o]) => /\ g.pcmCnt = hw.pcmCnt - Bit(out[o].pcm)
                                 /\ g.mixerCnt = hw.mixerCnt - Bit(out[o].mixer)
    BY <1>1, <2>1, OutCloseCounts
  <2> HIDE DEF g
  <2>4. /\ r.hw \in HwFields /\ r.pcm \in BOOLEAN /\ r.mixer \in BOOLEAN
        /\ CallFields(r.hw) = CallFields(g) /\ r.hw.wake = g.wake /\ r.hw.micOff = g.micOff
        /\ r.hw.pcmCnt = g.pcmCnt + Bit(r.pcm)
        /\ r.hw.mixerCnt = g.mixerCnt + Bit(r.mixer)
        /\ r.mixer => r.pcm
    BY <2>3, OutOpenCounts
  <2>5. /\ CallFields(a.hw) = CallFields(r.hw) /\ a.hw.micOff = r.hw.micOff
        /\ a.hw.wake = (r.pcm /\ r.hw.wake)
        /\ a.hw.pcmCnt = r.hw.pcmCnt /\ a.hw.mixerCnt = r.hw.mixerCnt
    BY <2>2, <2>4 DEF HwFields, CallFields
  <2>6. /\ \A x \in Outs \ {o} : a.out[x] = out[x]
        /\ \A x \in Outs : a.out[x].echo = out[x].echo
        /\ a.out[o].pcm = r.pcm /\ a.out[o].mixer = r.mixer
        /\ a.out[o].standby <=> ~r.pcm
    BY <1>1, <2>0, <2>1, <2>2 DEF OutFields
  <2>7. /\ Pcm(a.out, o) = Bit(r.pcm) /\ Mix(a.out, o) = Bit(r.mixer)
        /\ Pcm(out, o) = Bit(out[o].pcm) /\ Mix(out, o) = Bit(out[o].mixer)
    BY <1>3, <2>6 DEF Pcm, Mix, Bit
  <2>8. Covers(hw, out[o]) =>
          /\ a.hw.pcmCnt + Pcm(out, o) = hw.pcmCnt + Pcm(a.out, o)
          /\ a.hw.mixerCnt + Mix(out, o) = hw.mixerCnt + Mix(a.out, o)
    BY <1>1, <2>3, <2>4, <2>5, <2>7 DEF Bit, HwFields
  <2>9. a.hw.wake = (a.out[o].pcm /\ hw.wake)
    BY <2>3, <2>4, <2>5, <2>6
  <2> QED BY <1>0, <1>3, <2>3, <2>4, <2>5, <2>6, <2>8, <2>9
<1> QED BY <1>2, <1>3

(* What an echo reference has to do with in the hardware object.           *)
Others(h) == <<h.mode, h.inCall, h.micMute, h.micOff, h.wake, h.pcmCnt, h.mixerCnt>>

(* To obtain an echo reference changes no device.                          *)
LEMMA EchoObtainedEffect ==
  ASSUME LockInv, NEW o \in Outs \cup {None}, NEW i \in Ins, NEW a,
         a.hw \in HwFields, a.out \in [Outs -> OutFields], NEW b \in EchoObtained(a, o, i)
  PROVE  Others(b.hw) = Others(a.hw)
<1>1. CASE b = [hw |-> a.hw, out |-> a.out, ref |-> in[i].echo]
  BY <1>1
<1>2. CASE b \in getEchoReference(a.hw, a.out)
  <2> DEFINE h1 == ReleaseEchoHw(a.hw, a.hw.echo)
  <2>1. h1 \in HwFields /\ Others(h1) = Others(a.hw)
    BY DEF ReleaseEchoHw, Others, HwFields
  <2>2. b.hw = h1 \/ \E e \in EchoRefs : b.hw = [h1 EXCEPT !.echo = e]
    BY <1>2 DEF getEchoReference, UnusedEchoRefs
  <2> HIDE DEF h1
  <2>3. CASE b.hw = h1
    BY <2>1, <2>3
  <2>4. ASSUME NEW e \in EchoRefs, b.hw = [h1 EXCEPT !.echo = e] PROVE Others(b.hw) = Others(h1)
    BY <2>1, <2>4 DEF Others, HwFields
  <2> QED BY <2>1, <2>2, <2>3, <2>4
<1> QED BY <1>1, <1>2 DEF EchoObtained

(* What the step of read() that opens the input does, whether or not the   *)
(* output is opened again and an echo reference obtained.                  *)
LEMMA ReadOpenEffect ==
  ASSUME LockInv, NEW t \in Threads, ReadOpen(t)
  PROVE  LET o == spOut[t]
             i == self[t] IN
         /\ i \in Ins
         /\ OnlyOut(o)
         /\ o = None \/ (o # None /\ out[o].standby) =>
              (\A x \in Outs : Devices(out'[x]) = Devices(out[x])) /\ hw'.wake = hw.wake
         /\ o # None /\ ~out[o].standby =>
              /\ out'[o].standby <=> ~out'[o].pcm
              /\ out'[o].mixer => out'[o].pcm
              /\ hw'.wake = (out'[o].pcm /\ hw.wake)
         /\ \A x \in Ins \ {i} : in'[x] = in[x]
         /\ in'[i].needEcho = in[i].needEcho
         /\ in'[i].standby <=> ~in'[i].pcm
         /\ in'[i].mixer => in'[i].pcm
         /\ hw'.mode = hw.mode /\ hw'.inCall = hw.inCall /\ hw'.micMute = hw.micMute
         /\ hw'.micOff = IF in'[i].mixer /\ hw.mode # "IN_CALL" THEN hw.micMute ELSE hw.micOff
         /\ (o # None => Covers(hw, out[o])) =>
              /\ hw'.pcmCnt + Pcm(out, o) = hw.pcmCnt + Pcm(out', o)
              /\ hw'.mixerCnt + Mix(out, o) = hw.mixerCnt + Mix(out', o) + Mix(in', i)
<1> DEFINE o == spOut[t]
           i == self[t]
<1>1. FieldsOK /\ ThreadOK(t) /\ pc \in [Threads -> Labels] /\ spOut[t] \in Outs \cup {None}
      /\ pc[t] = "r_open"
  BY TypeParts DEF LockInv, TypeOK, ReadOpen
<1>2. i \in Ins
  BY <1>1 DEF ThreadOK, Pointers, ReadAt
<1>3. PICK a \in OutputReopened(spOut[t]) :
        \E b \in EchoObtained(a, spOut[t], self[t]) : \E r \in InOpen(b.hw) :
          /\ hw' = r.hw
          /\ out' = b.out
          /\ in' = [in EXCEPT ![self[t]] = [@ EXCEPT !.pcm = r.pcm, !.mixer = r.mixer,
                                               !.echo = b.ref, !.standby = ~r.pcm]]
  BY Zenon DEF ReadOpen
<1>4. PICK b \in EchoObtained(a, spOut[t], self[t]) : \E r \in InOpen(b.hw) :
          /\ hw' = r.hw
          /\ out' = b.out
          /\ in' = [in EXCEPT ![self[t]] = [@ EXCEPT !.pcm = r.pcm, !.mixer = r.mixer,
                                               !.echo = b.ref, !.standby = ~r.pcm]]
  BY <1>3, Zenon
<1>5. PICK r \in InOpen(b.hw) :
          /\ hw' = r.hw
          /\ out' = b.out
          /\ in' = [in EXCEPT ![self[t]] = [@ EXCEPT !.pcm = r.pcm, !.mixer = r.mixer,
                                               !.echo = b.ref, !.standby = ~r.pcm]]
  BY <1>4, Zenon
<1>6. /\ a.hw \in HwFields /\ a.out \in [Outs -> OutFields]
      /\ \A x \in Outs \ {o} : a.out[x] = out[x]
      /\ \A x \in Outs : a.out[x].echo = out[x].echo
      /\ CallFields(a.hw) = CallFields(hw) /\ a.hw.micOff = hw.micOff
      /\ o = None \/ (o # None /\ out[o].standby) => a.hw = hw /\ a.out = out
      /\ o # None /\ ~out[o].standby =>
           /\ a.out[o].standby <=> ~a.out[o].pcm
           /\ a.out[o].mixer => a.out[o].pcm
           /\ a.hw.wake = (a.out[o].pcm /\ hw.wake)
      /\ (o # None => Covers(hw, out[o])) =>
           /\ a.hw.pcmCnt + Pcm(out, o) = hw.pcmCnt + Pcm(a.out, o)
           /\ a.hw.mixerCnt + Mix(out, o) = hw.mixerCnt + Mix(a.out, o)
  BY <1>1, OutputReopenedEffect
<1>7. /\ b.hw \in HwFields
      /\ b.out \in [Outs -> OutFields]
      /\ \A x \in Outs : Devices(b.out[x]) = Devices(a.out[x])
      /\ Others(b.hw) = Others(a.hw)
  BY <1>1, <1>2, <1>6, EchoObtainedType, EchoObtainedEffect
<1>8. /\ r.hw \in HwFields /\ r.pcm \in BOOLEAN /\ r.mixer \in BOOLEAN
      /\ CallFields(r.hw) = CallFields(b.hw) /\ r.hw.wake = b.hw.wake
      /\ r.hw.pcmCnt = b.hw.pcmCnt
      /\ r.hw.mixerCnt = b.hw.mixerCnt + Bit(r.mixer)
      /\ r.mixer => r.pcm
      /\ r.hw.micOff = IF r.mixer /\ b.hw.mode # "IN_CALL" THEN b.hw.micMute ELSE b.hw.micOff
  BY <1>7, InOpenCounts
<1>9. /\ \A x \in Ins \ {i} : in'[x] = in[x]
      /\ in'[i].needEcho = in[i].needEcho
      /\ in'[i].standby <=> ~r.pcm
      /\ in'[i].pcm = r.pcm /\ in'[i].mixer = r.mixer
  BY <1>1, <1>2, <1>5 DEF FieldsOK, InFields
<1>10. OnlyOut(o) /\ \A x \in Outs : Devices(out'[x]) = Devices(a.out[x])
  BY <1>5, <1>6, <1>7 DEF OnlyOut
<1>11. /\ o # None => /\ out'[o].standby = a.out[o].standby
                      /\ out'[o].pcm = a.out[o].pcm
                      /\ out'[o].mixer = a.out[o].mixer
       /\ Pcm(out', o) = Pcm(a.out, o) /\ Mix(out', o) = Mix(a.out, o)
  BY <1>1, <1>10 DEF Devices, Pcm, Mix
<1>12. Mix(in', i) = Bit(r.mixer)
  BY <1>2, <1>9, ConstantsAssumption DEF Mix, Bit
<1>13. /\ hw'.mode = hw.mode /\ hw'.inCall = hw.inCall /\ hw'.micMute = hw.micMute
       /\ b.hw.mode = hw.mode /\ b.hw.micMute = hw.micMute /\ b.hw.micOff = hw.micOff
       /\ hw'.wake = a.hw.wake
       /\ hw'.pcmCnt = a.hw.pcmCnt /\ hw'.mixerCnt = a.hw.mixerCnt + Bit(r.mixer)
  BY <1>5, <1>6, <1>7, <1>8 DEF CallFields, Others
<1>14. hw'.micOff = IF in'[i].mixer /\ hw.mode # "IN_CALL" THEN hw.micMute ELSE hw.micOff
  BY <1>5, <1>8, <1>9, <1>13
<1>15. (o # None => Covers(hw, out[o])) =>
         /\ hw'.pcmCnt + Pcm(out, o) = hw.pcmCnt + Pcm(out', o)
         /\ hw'.mixerCnt + Mix(out, o) = hw.mixerCnt + Mix(out', o) + Mix(in', i)
  <2>1. /\ hw.mixerCnt \in Nat /\ a.hw.mixerCnt \in Nat /\ Bit(r.mixer) \in Nat
        /\ Mix(out, o) \in Nat /\ Mix(a.out, o) \in Nat
    BY <1>1, <1>6 DEF FieldsOK, HwFields, Bit, Mix
  <2> QED BY <1>6, <1>11, <1>12, <1>13, <2>1
<1>16. o # None /\ ~out[o].standby =>
         /\ out'[o].standby <=> ~out'[o].pcm
         /\ out'[o].mixer => out'[o].pcm
         /\ hw'.wake = (out'[o].pcm /\ hw.wake)
  BY <1>6, <1>11, <1>13
<1>17. o = None \/ (o # None /\ out[o].standby) =>
         (\A x \in Outs : Devices(out'[x]) = Devices(out[x])) /\ hw'.wake = hw.wake
  BY <1>6, <1>10, <1>13
<1> QED BY <1>2, <1>8, <1>9, <1>10, <1>13, <1>14, <1>15, <1>16, <1>17

-----------------------------------------------------------------------------
(* How a step may move the devices of the streams.                         *)

(* write() on output o has opened the devices and not yet left standby.    *)
Opens(t, o) ==
  /\ self[t] = o
  /\ \/ pc[t] = "w_fin"
     \/ pc[t] \in InDoAt /\ dret[t] = "w_fin"

OutputsClosed ==
  \A o \in Outs : out[o].standby /\ ~Closed(out[o]) => \E t \in Threads : Opens(t, o)

InputsClosed == \A i \in Ins : in[i].standby => Closed(in[i])

MixerWithPcm ==
  /\ \A o \in Outs : out[o].mixer => out[o].pcm
  /\ \A i \in Ins : in[i].mixer => in[i].pcm

LeavingStandbyAt == {"w_hw", "w_in", "w_hw2", "w_open"}
ReadStandbyAt    == {"r_hw", "r_out", "r_in2", "r_hw2", "r_open"}

(* What write() and read() find when they open their devices.              *)
BeforeOpen(t) ==
  /\ pc[t] \in LeavingStandbyAt => out[self[t]].standby
  /\ pc[t] = "w_open" /\ spIn[t] # None => ~in[spIn[t]].standby /\ Closed(in[spIn[t]])
  /\ pc[t] \in ReadAt => t = Recorder
  /\ pc[t] \in ReadStandbyAt => in[self[t]].standby

DevInv ==
  OutputsClosed /\ InputsClosed /\ MixerWithPcm /\ \A t \in Threads : BeforeOpen(t)

OutMove(t) ==
  \/ \A x \in Outs : Devices(out'[x]) = Devices(out[x])
  \/ \E o \in Outs : OnlyOut(o) /\ out'[o].standby /\ Closed(out'[o])
  \/ /\ pc[t] = "w_open" /\ self[t] \in Outs /\ OnlyOut(self[t])
     /\ out'[self[t]].standby = out[self[t]].standby
     /\ out'[self[t]].mixer => out'[self[t]].pcm
     /\ \/ pc'[t] = "w_fin"
        \/ pc'[t] = "d_begin" /\ dret'[t] = "w_fin"
     /\ self'[t] = self[t]
  \/ /\ pc[t] = "w_fin" /\ self[t] \in Outs /\ OnlyOut(self[t])
     /\ out'[self[t]].standby <=> ~out'[self[t]].pcm
     /\ out'[self[t]].pcm = out[self[t]].pcm
     /\ out'[self[t]].mixer = out[self[t]].mixer
  \/ /\ pc[t] = "r_open" /\ spOut[t] \in Outs /\ OnlyOut(spOut[t])
     /\ ~out[spOut[t]].standby
     /\ out'[spOut[t]].standby <=> ~out'[spOut[t]].pcm
     /\ out'[spOut[t]].mixer => out'[spOut[t]].pcm

InMove(t) ==
  \/ \A x \in Ins : Devices(in'[x]) = Devices(in[x])
  \/ \E i \in Ins : OnlyIn(i) /\ in'[i].standby /\ Closed(in'[i])
  \/ \E i \in Ins : OnlyIn(i) /\ in'[i].standby = in[i].standby /\ Closed(in'[i])
  \/ /\ pc[t] = "w_open" /\ spIn[t] \in Ins /\ OnlyIn(spIn[t])
     /\ in'[spIn[t]].standby = in[spIn[t]].standby
     /\ in'[spIn[t]].mixer => in'[spIn[t]].pcm
  \/ /\ pc[t] = "r_open" /\ self[t] \in Ins /\ OnlyIn(self[t])
     /\ in'[self[t]].standby <=> ~in'[self[t]].pcm
     /\ in'[self[t]].mixer => in'[self[t]].pcm

(* In leaving the devices of all outputs alone an action is like any other *)
(* that does.                                                              *)
LEMMA SameMoves ==
  ASSUME NEW t
  PROVE  (out' = out => OutMove(t)) /\ (in' = in => InMove(t))
BY DEF OutMove, InMove

(* DoStandby_l of an input leaves the devices of all inputs alone or puts  *)
(* the one input in standby.                                               *)
LEMMA InputStandbyMove ==
  ASSUME LockInv, NEW t \in Threads, InDoStandbyBegin(t) \/ InDoStandbyEnd(t)
  PROVE  \/ \A x \in Ins : Devices(in'[x]) = Devices(in[x])
         \/ arg[t] \in Ins /\ OnlyIn(arg[t]) /\ in'[arg[t]].standby /\ Closed(in'[arg[t]])
<1>1. arg[t] \in Ins
  BY DEF LockInv, ThreadOK, Pointers, InDoStandbyBegin, InDoStandbyEnd, InStandbyAt, InDoAt
<1>2. in[arg[t]] \in InFields /\ in \in [Ins -> InFields]
  BY <1>1 DEF LockInv, TypeOK
<1>3. PICK e : \/ in' = in
               \/ in' = [in EXCEPT ![arg[t]].echo = None]
               \/ in' = [in EXCEPT ![arg[t]] = [InClose(@) EXCEPT !.standby = TRUE, !.echo = e]]
  BY DEF InDoStandbyBegin, InDoStandbyEnd
<1>4. CASE in' = in
  BY <1>4
<1>5. CASE in' = [in EXCEPT ![arg[t]].echo = None]
  BY <1>1, <1>2, <1>5 DEF Devices, InFields
<1>6. CASE in' = [in EXCEPT ![arg[t]] = [InClose(@) EXCEPT !.standby = TRUE, !.echo = e]]
  BY <1>1, <1>2, <1>6 DEF OnlyIn, Closed, InClose, InFields
<1> QED BY <1>3, <1>4, <1>5, <1>6

(* Every action that touches the records of the streams is one of these.   *)
LEMMA Moves ==
  ASSUME LockInv, NEW t \in Threads, Begin(t) \/ Run(t)
  PROVE  OutMove(t) /\ InMove(t)
<1>0. /\ out \in [Outs -> OutFields] /\ in \in [Ins -> InFields]
      /\ ThreadOK(t) /\ pc \in [Threads -> Labels] /\ dret \in [Threads -> Labels]
      /\ spOut[t] \in Outs \cup {None}
  BY DEF LockInv, TypeOK
<1>1. CASE ControlActions(t)
  BY <1>1, ControlUntouched, SameMoves
<1>2. CASE \/ WriteExitStandby(t) \/ InSetSource(t) \/ ModeOpenCall(t) \/ ModeCloseCall(t)
           \/ ModeOther(t) \/ SetMicMute(t)
  <2>1. UNCHANGED <<out, in>>
    BY <1>2 DEF WriteExitStandby, InSetSource, ModeOpenCall, ModeCloseCall, ModeOther, SetMicMute
  <2> QED BY <2>1, SameMoves
<1>3. CASE \/ OutStandbyDo(t) \/ OutSetRouting(t) \/ ModeEnterCall(t) \/ ModeLeaveCall(t)
  <2>1. in' = in /\ (out' = out \/ \E o \in Outs : out' = [out EXCEPT ![o] = OutStandby(@)])
    BY <1>0, <1>3 DEF OutStandbyDo, OutSetRouting, ModeEnterCall, ModeLeaveCall,
         ForceOutputStandby, ThreadOK, Pointers, OutStandbyAt
  <2>2. CASE out' = out
    BY <2>1, <2>2, SameMoves
  <2>3. ASSUME NEW o \in Outs, out' = [out EXCEPT ![o] = OutStandby(@)]
        PROVE  OutMove(t)
    BY <1>0, <2>3, OutPutInStandby DEF OutMove
  <2> QED BY <2>1, <2>2, <2>3, SameMoves
<1>4. CASE OpenOutputStream(t)
  <2>1. in' = in /\ \E o \in Outs : out' = [out EXCEPT ![o] = NewOut]
    BY <1>4 DEF OpenOutputStream
  <2>2. \E o \in Outs : OnlyOut(o) /\ out'[o].standby /\ Closed(out'[o])
    BY <1>0, <2>1 DEF OnlyOut, Closed, NewOut
  <2> QED BY <2>1, <2>2, SameMoves DEF OutMove
<1>5. CASE OpenInputStream(t)
  <2>1. out' = out /\ \E i \in Ins : in' = [in EXCEPT ![i] = NewIn]
    BY <1>5 DEF OpenInputStream
  <2>2. \E i \in Ins : OnlyIn(i) /\ in'[i].standby /\ Closed(in'[i])
    BY <1>0, <2>1 DEF OnlyIn, Closed, NewIn
  <2> QED BY <2>1, <2>2, SameMoves DEF InMove
<1>6. CASE CallAddAudioEffect(t) \/ AddEffect(t) \/ RemoveEffect(t) \/ UnsetEcho(t)
  <2>1. out' = out
    BY <1>6 DEF CallAddAudioEffect, AddEffect, RemoveEffect, UnsetEcho
  <2>2. PICK i \in Ins : \/ in' = [in EXCEPT ![i].needEcho = TRUE]
                         \/ in' = [in EXCEPT ![i].fx = TRUE]
                         \/ in' = [in EXCEPT ![i].fx = FALSE]
                         \/ in' = [in EXCEPT ![i].needEcho = FALSE]
    BY <1>0, <1>6 DEF ThreadOK, Pointers, CallAddAudioEffect, AddEffect, RemoveEffect, UnsetEcho
  <2>3. \A x \in Ins : Devices(in'[x]) = Devices(in[x])
    BY <1>0, <2>2, SMTT(30) DEF InFields, Devices
  <2> QED BY <2>1, <2>3, SameMoves DEF InMove
<1>7. CASE InDoStandbyBegin(t) \/ InDoStandbyEnd(t)
  <2>1. \A x \in Outs : Devices(out'[x]) = Devices(out[x])
    <3>1. CASE out' = out
      BY <3>1
    <3>2. CASE InDoStandbyEnd(t)
      BY <3>2, EchoOperations DEF InDoStandbyEnd, LockInv, TypeOK
    <3> QED BY <1>7, <3>1, <3>2 DEF InDoStandbyBegin
  <2> QED BY <1>7, <2>1, InputStandbyMove DEF OutMove, InMove
<1>8. CASE WriteCloseInput(t)
  <2>1. out' = out /\ spIn[t] \in Ins /\ in' = [in EXCEPT ![spIn[t]] = InClose(@)]
    BY <1>0, <1>8 DEF WriteCloseInput, ThreadOK, Pointers
  <2>2. in[spIn[t]] \in InFields
    BY <1>0, <2>1
  <2>3. OnlyIn(spIn[t]) /\ in'[spIn[t]].standby = in[spIn[t]].standby /\ Closed(in'[spIn[t]])
    BY <1>0, <2>1, <2>2 DEF OnlyIn, Closed, InClose, InFields
  <2> QED BY <2>1, <2>3, SameMoves DEF InMove
<1>9. CASE WriteOpen(t)
  <2>1. /\ pc[t] = "w_open" /\ self'[t] = self[t]
        /\ pc'[t] = "w_fin" \/ (pc'[t] = "d_begin" /\ dret'[t] = "w_fin")
        /\ spIn[t] \in Ins \cup {None}
    BY <1>0, <1>9, WriteOpenPlaces DEF LockInv, TypeOK
  <2>2. OutMove(t)
    BY <1>9, <2>1, WriteOpenEffect DEF OutMove, OnlyOut
  <2>3. InMove(t)
    BY <1>9, <2>1, WriteOpenEffect DEF InMove, OnlyIn
  <2> QED BY <2>2, <2>3
<1>10. CASE WriteOpened(t)
  <2>1. /\ pc[t] = "w_fin" /\ self[t] \in Outs /\ in' = in
        /\ out' = [out EXCEPT ![self[t]].standby = ~out[self[t]].pcm]
    BY <1>0, <1>10 DEF WriteOpened, ThreadOK, Pointers, WriteAt
  <2>2. out[self[t]] \in OutFields
    BY <1>0, <2>1
  <2>3. /\ OnlyOut(self[t])
        /\ out'[self[t]].standby <=> ~out'[self[t]].pcm
        /\ out'[self[t]].pcm = out[self[t]].pcm
        /\ out'[self[t]].mixer = out[self[t]].mixer
    BY <1>0, <2>1, <2>2 DEF OnlyOut, OutFields
  <2> QED BY <2>1, <2>3, SameMoves DEF OutMove
<1>11. CASE ReadOpen(t)
  <2>1. pc[t] = "r_open"
    BY <1>11 DEF ReadOpen
  <2>2. OutMove(t)
    <3>1. CASE spOut[t] = None \/ (spOut[t] # None /\ out[spOut[t]].standby)
      BY <1>11, <3>1, ReadOpenEffect DEF OutMove
    <3>2. CASE spOut[t] # None /\ ~out[spOut[t]].standby
      BY <1>0, <1>11, <2>1, <3>2, ReadOpenEffect DEF OutMove
    <3> QED BY <3>1, <3>2
  <2>3. InMove(t)
    BY <1>11, <2>1, ReadOpenEffect DEF InMove, OnlyIn
  <2> QED BY <2>2, <2>3
<1> QED BY <1>1, <1>2, <1>3, <1>4, <1>5, <1>6, <1>7, <1>8, <1>9, <1>10, <1>11
        DEF Begin, Run, ControlActions

-----------------------------------------------------------------------------
(* Where a thread has come from, with what it found out there.             *)

Enters(t) ==
  /\ pc'[t] \in LeavingStandbyAt =>
       /\ self'[t] = self[t] /\ out' = out
       /\ pc[t] \in LeavingStandbyAt \/ (pc[t] = "w_out" /\ out[self[t]].standby)
  /\ pc'[t] = "w_open" => spIn'[t] = None \/ (~in'[spIn'[t]].standby /\ Closed(in'[spIn'[t]]))
  /\ pc'[t] \in ReadAt => t = Recorder \/ pc[t] \in ReadAt
  /\ pc'[t] \in ReadStandbyAt =>
       /\ self'[t] = self[t] /\ in' = in
       /\ pc[t] \in ReadStandbyAt \/ (pc[t] = "r_in" /\ in[self[t]].standby)

(* The actions of a call in progress reach the places of Enters only from  *)
(* where Enters says.                                                      *)
LEMMA RunEnters ==
  ASSUME LockInv, RefInv, NEW t \in Threads, Run(t)
  PROVE  Enters(t)
<1>a. ActiveInput \in mInputs \cup {None} /\ (ActiveInput # None => ~in[ActiveInput].standby)
  BY DEF ActiveInput
<1> USE ConstantsAssumption
    DEF LockInv, TypeOK, RefInv, Uses, Enters, LeavingStandbyAt, ReadStandbyAt,
        Ending, Goto, locks, objects, Return, Destroy, ThreadOK, Pointers, Returns,
        OutStandbyAt, InStandbyAt, InDoAt, WriteAt, ReadAt
<1>1. CASE OutStandbyLock(t)
  BY <1>1, SMTT(30) DEF OutStandbyLock
<1>2. CASE OutStandbyDo(t)
  BY <1>2, SMTT(30) DEF OutStandbyDo
<1>3. CASE InStandbyLock(t)
  BY <1>3, SMTT(30) DEF InStandbyLock
<1>4. CASE InStandbyDo(t)
  BY <1>4, SMTT(30) DEF InStandbyDo
<1>5. CASE InStandbyEnd(t)
  BY <1>5, SMTT(30) DEF InStandbyEnd
<1>6. CASE InDoStandbyBegin(t)
  BY <1>6, SMTT(30) DEF InDoStandbyBegin
<1>7. CASE InDoStandbyOut(t)
  BY <1>7, SMTT(30) DEF InDoStandbyOut
<1>8. CASE InDoStandbyIn(t)
  BY <1>8, SMTT(30) DEF InDoStandbyIn
<1>9. CASE InDoStandbyEnd(t)
  BY <1>9, SMTT(30) DEF InDoStandbyEnd, HoldsInDo
<1>10. CASE WriteLock(t)
  BY <1>10, SMTT(30) DEF WriteLock
<1>11. CASE WriteExitStandby(t)
  BY <1>11, <1>a, SMTT(30) DEF WriteExitStandby, SelectInput
<1>12. CASE WriteLockInput(t)
  BY <1>12, SMTT(30) DEF WriteLockInput
<1>13. CASE WriteCloseInput(t)
  <2>1. /\ spIn[t] \in Ins /\ spIn[t] # None /\ spIn[t] = ActiveInput
        /\ in' = [in EXCEPT ![spIn[t]] = InClose(@)] /\ spIn' = spIn /\ self' = self
        /\ pc[t] = "w_hw2" /\ pc' = [pc EXCEPT ![t] = "w_open"] /\ out' = out
    BY <1>13 DEF WriteCloseInput, InputUnmoved
  <2>2. in[spIn[t]] \in InFields /\ ~in[spIn[t]].standby
    BY <2>1, <1>a
  <2>3. ~in'[spIn[t]].standby /\ Closed(in'[spIn[t]])
    BY <2>1, <2>2 DEF InClose, Closed, InFields
  <2> QED BY <2>1, <2>3
<1>14. CASE WriteRetryInput(t)
  BY <1>14, <1>a, SMTT(30) DEF WriteRetryInput, ReselectInput, SelectInput
<1>15. CASE WriteOpen(t)
  BY <1>15, WriteOpenPlaces, SMTT(30)
<1>16. CASE WriteOpened(t)
  BY <1>16, SMTT(30) DEF WriteOpened
<1>17. CASE WriteData(t)
  BY <1>17, SMTT(30) DEF WriteData
<1>18. CASE ReadLock(t)
  BY <1>18, SMTT(30) DEF ReadLock
<1>19. CASE ReadExitStandby(t)
  BY <1>19, SMTT(30) DEF ReadExitStandby, SelectOutput
<1>20. CASE ReadLockOutput(t)
  BY <1>20, SMTT(30) DEF ReadLockOutput
<1>21. CASE ReadRelock(t)
  BY <1>21, SMTT(30) DEF ReadRelock
<1>22. CASE ReadKeepOutput(t)
  BY <1>22, SMTT(30) DEF ReadKeepOutput
<1>23. CASE ReadRetryOutput(t)
  BY <1>23, SMTT(30) DEF ReadRetryOutput, SelectOutput
<1>24. CASE ReadOpen(t)
  BY <1>24, SMTT(30) DEF ReadOpen
<1>25. CASE ReadData(t)
  BY <1>25, SMTT(30) DEF ReadData
<1>26. CASE OutParametersLock(t)
  BY <1>26, SMTT(30) DEF OutParametersLock
<1>27. CASE OutSetRouting(t)
  BY <1>27, SMTT(30) DEF OutSetRouting
<1>28. CASE InParametersLock(t)
  BY <1>28, SMTT(30) DEF InParametersLock
<1>29. CASE InSetRouting(t)
  BY <1>29, SMTT(30) DEF InSetRouting
<1>30. CASE InSetSource(t)
  BY <1>30, SMTT(30) DEF InSetSource
<1>31. CASE AddEffect(t)
  BY <1>31, SMTT(30) DEF AddEffect
<1>32. CASE RemoveEffect(t)
  BY <1>32, SMTT(30) DEF RemoveEffect
<1>33. CASE UnsetEcho(t)
  BY <1>33, SMTT(30) DEF UnsetEcho
<1>34. CASE ModeBegin(t)
  BY <1>34, <1>a, SMTT(30) DEF ModeBegin, SelectActive, SelectInput
<1>35. CASE ModeLockOutput(t)
  BY <1>35, SMTT(30) DEF ModeLockOutput
<1>36. CASE ModeKeepOutput(t)
  BY <1>36, <1>a, SMTT(30) DEF ModeKeepOutput, SelectInput
<1>37. CASE ModeRetryOutput(t)
  BY <1>37, <1>a, SMTT(30) DEF ModeRetryOutput, SelectActive, SelectInput
<1>38. CASE ModeLockInput(t)
  BY <1>38, SMTT(30) DEF ModeLockInput
<1>39. CASE ModeKeepInput(t)
  BY <1>39, SMTT(30) DEF ModeKeepInput
<1>40. CASE ModeRetryInput(t)
  BY <1>40, <1>a, SMTT(30) DEF ModeRetryInput, ReselectInput, SelectInput
<1>41. CASE ModeEnterCall(t)
  BY <1>41, SMTT(30) DEF ModeEnterCall, ForceInputStandby
<1>42. CASE ModeOpenCall(t)
  BY <1>42, SMTT(30) DEF ModeOpenCall
<1>43. CASE ModeLeaveCall(t)
  BY <1>43, SMTT(30) DEF ModeLeaveCall, ForceInputStandby
<1>44. CASE ModeCloseCall(t)
  BY <1>44, SMTT(30) DEF ModeCloseCall
<1>45. CASE ModeOther(t)
  BY <1>45, SMTT(30) DEF ModeOther
<1>46. CASE ModeEnd(t)
  BY <1>46, SMTT(30) DEF ModeEnd
<1>47. CASE SetMicMute(t)
  BY <1>47, <1>a, SMTT(30) DEF SetMicMute
<1>48. CASE CloseOutputClear(t)
  BY <1>48, SMTT(30) DEF CloseOutputClear
<1>49. CASE DropPointers(t)
  BY <1>49, SMTT(30) DEF DropPointers
<1>50. CASE CloseOutputStream(t)
  BY <1>50, <1>a, SMTT(30) DEF CloseOutputStream
<1>51. CASE CloseInputStream(t)
  BY <1>51, SMTT(30) DEF CloseInputStream
<1>52. CASE FreeStream(t)
  BY <1>52, SMTT(30) DEF FreeStream
<1> QED
  BY <1>1, <1>2, <1>3, <1>4, <1>5, <1>6, <1>7, <1>8, <1>9, <1>10, <1>11, <1>12, <1>13, <1>14,
      <1>15, <1>16, <1>17, <1>18, <1>19, <1>20, <1>21, <1>22, <1>23, <1>24, <1>25, <1>26,
      <1>27, <1>28, <1>29, <1>30, <1>31, <1>32, <1>33, <1>34, <1>35, <1>36, <1>37, <1>38,
      <1>39, <1>40, <1>41, <1>42, <1>43, <1>44, <1>45, <1>46, <1>47, <1>48, <1>49, <1>50,
      <1>51, <1>52 DEF Run

(* A call that begins reaches none of the places of Enters but the first   *)
(* of its own.                                                             *)
LEMMA BeginEnters ==
  ASSUME LockInv, RefInv, NEW t \in Threads, Begin(t)
  PROVE  Enters(t)
<1> USE ConstantsAssumption
    DEF LockInv, TypeOK, Enters, LeavingStandbyAt, ReadStandbyAt, Goto, Idle, Call, CallClose,
        WriteAt, ReadAt
<1>1. CASE Calls(t)
  BY <1>1 DEF Calls, CallWrite, CallRead, CallStandby, CallSetParameters,
     CallAddAudioEffect, CallRemoveAudioEffect, CallSetMode, CallSetMicMute
<1>2. CASE CallCloseStream(t)
  BY <1>2 DEF CallCloseStream
<1>3. CASE OpenOutputStream(t) \/ OpenInputStream(t)
  BY <1>3 DEF OpenOutputStream, OpenInputStream
<1> QED BY <1>1, <1>2, <1>3 DEF Begin, Calls

(* The action of a thread follows from where it is.                        *)
LEMMA AtAction ==
  ASSUME NEW t \in Threads, Begin(t) \/ Run(t)
  PROVE  /\ pc[t] = "si_in" => InStandbyLock(t)
         /\ pc[t] = "si_hw" => InStandbyDo(t)
         /\ pc[t] = "d_begin" => InDoStandbyBegin(t)
         /\ pc[t] = "m_call" => ModeOpenCall(t)
         /\ pc[t] = "w_open" => WriteOpen(t)
         /\ pc[t] = "r_open" => ReadOpen(t)
         /\ pc[t] = "mm_hw" => SetMicMute(t)
         /\ pc[t] = "w_fin" => WriteOpened(t)
<1>1. /\ InStandbyLock(t) => pc[t] = "si_in"
      /\ InStandbyDo(t) => pc[t] = "si_hw"
      /\ InDoStandbyBegin(t) => pc[t] = "d_begin"
      /\ ModeOpenCall(t) => pc[t] = "m_call"
      /\ WriteOpen(t) => pc[t] = "w_open"
      /\ ReadOpen(t) => pc[t] = "r_open"
      /\ SetMicMute(t) => pc[t] = "mm_hw"
      /\ WriteOpened(t) => pc[t] = "w_fin"
  BY DEF InStandbyLock, InStandbyDo, InDoStandbyBegin, ModeOpenCall, WriteOpen, ReadOpen,
      SetMicMute,
         WriteOpened
<1> QED
  BY <1>1 DEF Begin, Run, OutStandbyLock, OutStandbyDo, InStandbyEnd, InDoStandbyOut,
      InDoStandbyIn, InDoStandbyEnd, WriteLock, WriteExitStandby, WriteLockInput,
      WriteCloseInput, WriteRetryInput, WriteData, ReadLock, ReadExitStandby, ReadLockOutput,
      ReadRelock, ReadKeepOutput, ReadRetryOutput, ReadData, OutParametersLock, OutSetRouting,
      InParametersLock, InSetRouting, InSetSource, AddEffect, RemoveEffect, UnsetEcho,
      ModeBegin, ModeLockOutput, ModeKeepOutput, ModeRetryOutput, ModeLockInput,
      ModeKeepInput, ModeRetryInput, ModeEnterCall, ModeLeaveCall, ModeCloseCall, ModeOther,
      ModeEnd, CloseOutputClear, DropPointers, CloseOutputStream, CloseInputStream,
      FreeStream,
  CallWrite, CallRead, CallStandby, CallSetParameters, CallCloseStream, CallClose,
  CallAddAudioEffect, CallRemoveAudioEffect, CallSetMode, CallSetMicMute, OpenOutputStream,
  OpenInputStream, Idle, Call

(* Whoever is in doStandby_l on behalf of write() comes back there.        *)
LEMMA InDoComesBack ==
  ASSUME LockInv, RefInv, NEW t \in Threads, Begin(t) \/ Run(t)
  PROVE  ComesBack(t)
<1>1. CASE Run(t) /\ ~(CloseOutputStream(t) \/ CloseInputStream(t) \/ FreeStream(t))
  BY <1>1, RunRefs DEF RunSteps
<1>2. CASE CloseOutputStream(t) \/ CloseInputStream(t) \/ FreeStream(t)
  BY <1>2 DEF CloseOutputStream, CloseInputStream, FreeStream, ComesBack, InDoAt
<1>3. CASE Begin(t)
  BY <1>3 DEF Begin, CallWrite, CallRead, CallStandby, CallSetParameters, CallCloseStream,
      CallClose,
  CallAddAudioEffect, CallRemoveAudioEffect, CallSetMode, CallSetMicMute, OpenOutputStream,
  OpenInputStream, Idle, Call, ComesBack, InDoAt
<1> QED BY <1>1, <1>2, <1>3

(* The devices of a stream that exists change in steps of the thread that  *)
(* has its lock.                                                           *)
LEMMA DevicesOwn ==
  ASSUME LockInv, NEW t \in Threads, Begin(t) \/ Run(t)
  PROVE  /\ \A o \in outLive : Devices(out'[o]) = Devices(out[o]) \/ outLock[o] = t
         /\ \A i \in inLive : Devices(in'[i]) = Devices(in[i]) \/ inLock[i] = t
<1>1. DevicesStep /\ OnlyOwn(t)
  BY RunFields, BeginControl, RunControl DEF FieldsStep, ControlStep
<1>2. \A u \in Threads : pc'[u] # pc[u] => u = t
  BY <1>1 DEF OnlyOwn
<1> QED BY <1>1, <1>2 DEF DevicesStep, StepsUnder

-----------------------------------------------------------------------------
(* The devices follow the standby flags.                                   *)

(* An output in standby stays closed, but under the write() that is        *)
(* opening it.                                                             *)
LEMMA OutputsClosedStep ==
  ASSUME LockInv, TypeOK', RefInv, DevInv, NEW t \in Threads, Begin(t) \/ Run(t)
  PROVE  OutputsClosed'
<1>1. OnlyOwn(t) /\ ComesBack(t) /\ OutMove(t)
  BY BeginControl, RunControl, InDoComesBack, Moves DEF ControlStep
<1>2. OutputsClosed /\ \A x \in Outs : out[x].mixer => out[x].pcm
  BY DEF DevInv, MixerWithPcm
<1>3. CASE pc[t] = "w_fin"
  <2>1. WriteOpened(t)
    BY <1>3, AtAction
  <2>2. /\ self[t] \in Outs
        /\ out' = [out EXCEPT ![self[t]].standby = ~out[self[t]].pcm]
    BY <1>3, <2>1 DEF WriteOpened, LockInv, ThreadOK, Pointers, WriteAt
  <2>3. out \in [Outs -> OutFields] /\ out[self[t]] \in OutFields
    BY <2>2 DEF LockInv, TypeOK
  <2>4. out'[self[t]].standby => Closed(out'[self[t]])
    BY <1>2, <2>2, <2>3 DEF Closed, OutFields
  <2>5. \A x \in Outs \ {self[t]} : out'[x] = out[x]
    BY <2>2, <2>3
  <2>6. ASSUME NEW o \in Outs, out'[o].standby, ~Closed(out'[o])
        PROVE  \E u \in Threads : Opens(u, o)'
    <3>1. o # self[t] /\ out'[o] = out[o]
      BY <2>4, <2>5, <2>6
    <3>2. PICK u \in Threads : Opens(u, o)
      BY <1>2, <2>6, <3>1 DEF OutputsClosed
    <3>3. u # t
      BY <3>1, <3>2 DEF Opens
    <3> QED BY <1>1, <3>2, <3>3 DEF OnlyOwn, Opens
  <2> QED BY <2>6 DEF OutputsClosed
<1>4. CASE pc[t] # "w_fin"
  <2>1. ASSUME NEW o \in Outs, Devices(out'[o]) = Devices(out[o]), out'[o].standby, ~Closed(out'[o])
        PROVE  \E u \in Threads : Opens(u, o)'
    <3>1. out[o].standby /\ ~Closed(out[o])
      BY <2>1 DEF Devices, Closed
    <3>2. PICK u \in Threads : Opens(u, o)
      BY <1>2, <3>1 DEF OutputsClosed
    <3>3. CASE u = t
      BY <1>1, <1>4, <3>2, <3>3 DEF ComesBack, Opens
    <3>4. CASE u # t
      BY <1>1, <3>2, <3>4 DEF OnlyOwn, Opens
    <3> QED BY <3>3, <3>4
  <2>2. ASSUME NEW o \in Outs, out'[o].standby, ~Closed(out'[o]), Devices(out'[o]) # Devices(out[o])
        PROVE  \E u \in Threads : Opens(u, o)'
    <3>1. \/ pc[t] = "w_open" /\ o = self[t]
             /\ (pc'[t] = "w_fin" \/ (pc'[t] = "d_begin" /\ dret'[t] = "w_fin"))
             /\ self'[t] = self[t]
          \/ (out'[o].standby <=> ~out'[o].pcm) /\ (out'[o].mixer => out'[o].pcm)
      BY <1>1, <1>4, <2>2 DEF OutMove, OnlyOut
    <3>2. Opens(t, o)'
      BY <2>2, <3>1 DEF Opens, Closed, InDoAt
    <3> QED BY <3>2
  <2> QED BY <2>1, <2>2 DEF OutputsClosed
<1> QED BY <1>3, <1>4

(* An input in standby stays closed.                                       *)
LEMMA InputsClosedStep ==
  ASSUME LockInv, DevInv, NEW t \in Threads, Begin(t) \/ Run(t)
  PROVE  InputsClosed'
<1>1. InMove(t) /\ InputsClosed
  BY Moves DEF DevInv
<1>2. pc[t] = "w_open" /\ spIn[t] \in Ins => ~in[spIn[t]].standby
  BY ConstantsAssumption DEF DevInv, BeforeOpen
<1>3. ASSUME NEW i \in Ins, in'[i].standby PROVE Closed(in'[i])
  <2>1. CASE Devices(in'[i]) = Devices(in[i])
    BY <1>1, <1>3, <2>1 DEF Devices, Closed, InputsClosed
  <2>2. CASE Devices(in'[i]) # Devices(in[i])
    <3>1. \/ Closed(in'[i])
          \/ pc[t] = "w_open" /\ i = spIn[t] /\ in'[i].standby = in[i].standby
          \/ (in'[i].standby <=> ~in'[i].pcm) /\ (in'[i].mixer => in'[i].pcm)
      BY <1>1, <2>2 DEF InMove, OnlyIn
    <3> QED BY <1>2, <1>3, <3>1 DEF Closed
  <2> QED BY <2>1, <2>2
<1> QED BY <1>3 DEF InputsClosed

(* No stream gets to hold the mixer without its device.                    *)
LEMMA MixerWithPcmStep ==
  ASSUME LockInv, DevInv, NEW t \in Threads, Begin(t) \/ Run(t)
  PROVE  MixerWithPcm'
<1>1. InMove(t) /\ OutMove(t) /\ MixerWithPcm
  BY Moves DEF DevInv
<1>2. ASSUME NEW o \in Outs, out'[o].mixer PROVE out'[o].pcm
  <2>1. CASE Devices(out'[o]) = Devices(out[o])
    BY <1>1, <1>2, <2>1 DEF Devices, MixerWithPcm
  <2>2. CASE Devices(out'[o]) # Devices(out[o])
    BY <1>1, <1>2, <2>2 DEF OutMove, OnlyOut, Closed, MixerWithPcm
  <2> QED BY <2>1, <2>2
<1>3. ASSUME NEW i \in Ins, in'[i].mixer PROVE in'[i].pcm
  <2>1. CASE Devices(in'[i]) = Devices(in[i])
    BY <1>1, <1>3, <2>1 DEF Devices, MixerWithPcm
  <2>2. CASE Devices(in'[i]) # Devices(in[i])
    BY <1>1, <1>3, <2>2 DEF InMove, OnlyIn, Closed
  <2> QED BY <2>1, <2>2
<1> QED BY <1>2, <1>3 DEF MixerWithPcm

(* What write() and read() have found out before they open their devices   *)
(* stays true until they do, as they hold the locks of the streams.        *)
LEMMA BeforeOpenStep ==
  ASSUME LockInv, TypeOK', RefInv, DevInv, NEW t \in Threads, Begin(t) \/ Run(t), NEW u \in Threads
  PROVE  BeforeOpen(u)'
<1>1. OnlyOwn(t) /\ BeforeOpen(t) /\ BeforeOpen(u) /\ ThreadOK(u) /\ PointsToLive(u) /\ ObjectsLive
  BY BeginControl, RunControl DEF ControlStep, DevInv, LockInv, RefInv
<1>2. CASE u = t
  <2>1. Enters(t)
    BY RunEnters, BeginEnters
  <2> QED BY <1>1, <1>2, <2>1 DEF Enters, BeforeOpen
<1>3. CASE u # t
  <2>0. pc'[u] = pc[u] /\ self'[u] = self[u] /\ spIn'[u] = spIn[u]
    BY <1>1, <1>3 DEF OnlyOwn
  <2>1. /\ \A o \in outLive : Devices(out'[o]) = Devices(out[o]) \/ outLock[o] = t
        /\ \A i \in inLive : Devices(in'[i]) = Devices(in[i]) \/ inLock[i] = t
        /\ InMove(t)
    BY DevicesOwn, Moves
  <2>2. /\ outLive \subseteq Outs /\ inLive \subseteq Ins /\ mInputs \subseteq Ins
    BY DEF LockInv, TypeOK
  <2>3. pc[u] \in LeavingStandbyAt => out'[self[u]].standby
    <3> SUFFICES ASSUME pc[u] \in LeavingStandbyAt PROVE out'[self[u]].standby
      OBVIOUS
    <3>1. self[u] \in Outs /\ outLock[self[u]] = u /\ out[self[u]].standby
      BY <1>1 DEF ThreadOK, Pointers, Holds, LeavingStandbyAt, WriteAt, BeforeOpen
    <3>2. self[u] \in outLive
      BY <1>1, <2>2, <3>1, ConstantsAssumption DEF PointsToLive, ObjectsLive
    <3> QED BY <1>3, <2>1, <3>1, <3>2 DEF Devices
  <2>4. pc[u] = "w_open" /\ spIn[u] # None => ~in'[spIn[u]].standby /\ Closed(in'[spIn[u]])
    <3> SUFFICES ASSUME pc[u] = "w_open", spIn[u] # None
                 PROVE  ~in'[spIn[u]].standby /\ Closed(in'[spIn[u]])
      OBVIOUS
    <3>1. inLock[spIn[u]] = u /\ ~in[spIn[u]].standby /\ Closed(in[spIn[u]])
      BY <1>1 DEF ThreadOK, Holds, BeforeOpen
    <3>2. spIn[u] \in inLive
      BY <1>1 DEF PointsToLive
    <3> QED BY <1>3, <2>1, <3>1, <3>2 DEF Devices, Closed
  <2>5. pc[u] \in ReadStandbyAt => in'[self[u]].standby
    <3> SUFFICES ASSUME pc[u] \in ReadStandbyAt PROVE in'[self[u]].standby
      OBVIOUS
    <3>1. self[u] \in Ins /\ in[self[u]].standby /\ u = Recorder
      BY <1>1 DEF ThreadOK, Pointers, BeforeOpen, ReadStandbyAt, ReadAt
    <3>2. pc[t] # "r_open"
      BY <1>1, <1>3, <3>1 DEF BeforeOpen, ReadAt
    <3> QED BY <2>1, <3>1, <3>2 DEF InMove, OnlyIn, Devices
  <2> QED BY <1>1, <2>0, <2>3, <2>4, <2>5 DEF BeforeOpen
<1> QED BY <1>2, <1>3

(* DevInv is inductive together with the invariants of the locks and of    *)
(* the references.                                                         *)
LEMMA DevInvStep ==
  ASSUME LockInv, TypeOK', RefInv, DevInv, [Next]_vars
  PROVE  DevInv'
<1>1. CASE UNCHANGED vars
  BY <1>1 DEF vars, locks, objects, DevInv, OutputsClosed, InputsClosed, MixerWithPcm,
      BeforeOpen, Opens
<1>2. CASE Next
  <2>1. PICK t \in Threads : Begin(t) \/ Run(t)
    BY <1>2 DEF Next
  <2> QED BY <2>1, OutputsClosedStep, InputsClosedStep, MixerWithPcmStep, BeforeOpenStep DEF DevInv
<1> QED BY <1>1, <1>2

(* At the start there are no streams, so no reference and no device.       *)
LEMMA StreamsInit == Init => RefInv /\ DevInv
<1> SUFFICES ASSUME Init PROVE RefInv /\ DevInv
  OBVIOUS
<1>1. RefInv
  BY DEF Init, RefInv, ObjectsLive, Uses, ClosesAlone, PointsToLive, EndsAlone, Ending, ClosingAt,
         OutStandbyAt, InStandbyAt, InDoAt
<1>2. DevInv
  BY DEF Init, DevInv, OutputsClosed, InputsClosed, MixerWithPcm, BeforeOpen, Closed, NewOut, NewIn,
         LeavingStandbyAt, ReadStandbyAt, ReadAt
<1> QED BY <1>1, <1>2

StreamsInv == LockInv /\ RefInv /\ DevInv

(* In every behaviour the references and the devices are right: no thread  *)
(* keeps or uses a pointer to a stream that is freed, nobody but the       *)
(* destructor's own thread touches a stream that is being destroyed        *)
(* (RefInv), an input in standby has no devices, an output in standby      *)
(* none but under the write() that is just opening them, and no stream     *)
(* holds the mixer without its device (DevInv).                            *)
THEOREM StreamsKept == Spec => []StreamsInv
<1>1. Init => StreamsInv
  BY LockInvInit, StreamsInit DEF StreamsInv
<1>2. StreamsInv /\ [Next]_vars => StreamsInv'
  <2> SUFFICES ASSUME LockInv, RefInv, DevInv, [Next]_vars PROVE StreamsInv'
    BY DEF StreamsInv
  <2>1. LockInv' /\ TypeOK'
    BY LockInvStep DEF LockInv
  <2> QED BY <2>1, RefInvStep, DevInvStep DEF StreamsInv
<1> QED BY <1>1, <1>2, PTL DEF Spec

-----------------------------------------------------------------------------
(* Where setMode, write() and the destructors wait for others.             *)

DetourAt == {"d_out", "d_in", "d_hw"}

(* setMode is on its way to label l, perhaps in doStandby_l.               *)
HeadsFor(t, l) == pc[t] = l \/ (pc[t] \in InDoAt /\ dret[t] = l)

ModeAt == {"m_hw", "m_out", "m_hw2", "m_in", "m_hw3", "m_apply", "m_call", "m_uncall", "m_end"}

InMode(t) == pc[t] \in ModeAt \/ HeadsFor(t, "m_call") \/ HeadsFor(t, "m_uncall")

Places(t) ==
  /\ pc'[t] \in DetourAt => pc[t] \in DetourAt \/ (pc[t] = "d_begin" /\ in[arg[t]].echo # None)
  /\ pc'[t] \in InDoAt /\ dret'[t] = "w_fin" =>
       \/ pc[t] \in InDoAt /\ dret[t] = "w_fin"
       \/ pc[t] = "w_open" /\ "pcmIn" \in Faults
  /\ pc'[t] = "si_end" => arg'[t] \in Ins /\ Closed(in'[arg'[t]])
  /\ pc'[t] = "free" =>
       /\ arg'[t] = arg[t] /\ Ending(t)
       /\ \/ arg[t] \in Outs /\ Closed(out'[arg[t]])
          \/ pc[t] = "si_end" /\ in' = in /\ arg[t] \in Ins
  /\ InMode(t)' => InMode(t) \/ "setMode" \in Ops
  /\ HeadsFor(t, "m_call")' => HeadsFor(t, "m_call") \/ ModeEnterCall(t)
  /\ HeadsFor(t, "m_uncall")' =>  HeadsFor(t, "m_uncall") \/ ModeLeaveCall(t)
  /\ HeadsFor(t, "m_uncall") => HeadsFor(t, "m_uncall")' \/ ModeCloseCall(t) \/ InDoStandbyEnd(t)

(* Where doStandby_l goes back to its caller the input is in standby.      *)
LEMMA InputStandbyDone ==
  ASSUME LockInv, NEW t \in Threads, InDoStandbyBegin(t) \/ InDoStandbyEnd(t), pc'[t] = dret[t]
  PROVE  /\ arg[t] \in Ins /\ in'[arg[t]].standby /\ Closed(in'[arg[t]])
         /\ arg' = arg /\ dret' = dret
<1>1. /\ arg[t] \in Ins /\ in \in [Ins -> InFields] /\ in[arg[t]] \in InFields
      /\ dret[t] \in {"si_end", "w_fin", "m_call", "m_uncall"}
      /\ pc \in [Threads -> Labels]
  BY DEF LockInv, TypeOK, ThreadOK, Pointers, Returns, InDoStandbyBegin, InDoStandbyEnd,
      InStandbyAt, InDoAt
<1>2. CASE InDoStandbyBegin(t)
  <2>1. in' = [in EXCEPT ![arg[t]] = [InClose(@) EXCEPT
                 !.standby = TRUE, !.echo = IF in[arg[t]].standby THEN in[arg[t]].echo ELSE None]]
    BY <1>1, <1>2 DEF InDoStandbyBegin, Goto
  <2>2. in'[arg[t]] = [InClose(in[arg[t]]) EXCEPT
                 !.standby = TRUE, !.echo = IF in[arg[t]].standby THEN in[arg[t]].echo ELSE None]
    BY <1>1, <2>1
  <2>3. in'[arg[t]].standby /\ Closed(in'[arg[t]])
    BY <1>1, <2>2 DEF Closed, InClose, InFields
  <2> QED BY <1>1, <1>2, <2>3 DEF InDoStandbyBegin
<1>3. CASE InDoStandbyEnd(t)
  <2>1. ~(LastRefOut(t, dOut[t]) /\ spOut[t] # dOut[t])
    BY <1>1, <1>3 DEF InDoStandbyEnd, Destroy, Goto
  <2>2. in' = [in EXCEPT ![arg[t]] = [InClose(@) EXCEPT !.standby = TRUE, !.echo = None]]
    BY <1>3, <2>1 DEF InDoStandbyEnd
  <2>3. in'[arg[t]].standby /\ Closed(in'[arg[t]])
    BY <1>1, <2>2 DEF Closed, InClose, InFields
  <2> QED BY <1>1, <1>3, <2>1, <2>3 DEF InDoStandbyEnd
<1> QED BY <1>2, <1>3

(* The actions of a call in progress enter the places of Places only from  *)
(* where Places says.                                                      *)
LEMMA RunPlaces ==
  ASSUME LockInv, RefInv, NEW t \in Threads, Run(t)
  PROVE  Places(t)
<1>a. ActiveInput \in mInputs \cup {None}
  BY DEF ActiveInput
<1> USE ConstantsAssumption
    DEF LockInv, TypeOK, RefInv, Uses, Places, DetourAt, InMode, HeadsFor, ModeAt,
        Ending, Goto, locks, objects, Return, Destroy, ThreadOK, Pointers, Returns,
        OutStandbyAt, InStandbyAt, InDoAt, WriteAt, ReadAt
<1>1. CASE OutStandbyLock(t)
  BY <1>1, SMTT(30) DEF OutStandbyLock
<1>2. CASE OutStandbyDo(t)
  <2>1. /\ arg[t] \in Outs /\ out' = [out EXCEPT ![arg[t]] = OutStandby(@)]
        /\ arg'[t] = arg[t] \/ pc'[t] # "free"
    BY <1>2 DEF OutStandbyDo
  <2>2. arg[t] \in Outs /\ Closed(out'[arg[t]])
    BY <2>1, OutPutInStandby DEF LockInv, TypeOK
  <2> QED BY <1>2, <2>1, <2>2 DEF OutStandbyDo
<1>3. CASE InStandbyLock(t)
  BY <1>3, SMTT(30) DEF InStandbyLock
<1>4. CASE InStandbyDo(t)
  BY <1>4, SMTT(30) DEF InStandbyDo
<1>5. CASE InStandbyEnd(t)
  BY <1>5, SMTT(30) DEF InStandbyEnd
<1>6. CASE InDoStandbyBegin(t)
  <2>1. pc'[t] \in DetourAt \cup {"d_begin", "so_out"} \/ (pc'[t] = dret[t] /\ dret[t] \in {"si_end", "w_fin", "m_call", "m_uncall"})
    BY <1>6 DEF InDoStandbyBegin
  <2>2. pc'[t] = "si_end" => arg'[t] \in Ins /\ Closed(in'[arg'[t]])
    BY <1>6, <2>1, InputStandbyDone
  <2> QED BY <1>6, <2>1, <2>2, SMTT(30) DEF InDoStandbyBegin
<1>7. CASE InDoStandbyOut(t)
  BY <1>7, SMTT(30) DEF InDoStandbyOut
<1>8. CASE InDoStandbyIn(t)
  BY <1>8, SMTT(30) DEF InDoStandbyIn
<1>9. CASE InDoStandbyEnd(t)
  <2>1. pc'[t] \in DetourAt \cup {"d_begin", "so_out"} \/ (pc'[t] = dret[t] /\ dret[t] \in {"si_end", "w_fin", "m_call", "m_uncall"})
    BY <1>9 DEF InDoStandbyEnd
  <2>2. pc'[t] = "si_end" => arg'[t] \in Ins /\ Closed(in'[arg'[t]])
    BY <1>9, <2>1, InputStandbyDone
  <2> QED BY <1>9, <2>1, <2>2, SMTT(30) DEF InDoStandbyEnd
<1>10. CASE WriteLock(t)
  BY <1>10, SMTT(30) DEF WriteLock
<1>11. CASE WriteExitStandby(t)
  BY <1>11, <1>a, SMTT(30) DEF WriteExitStandby, SelectInput
<1>12. CASE WriteLockInput(t)
  BY <1>12, SMTT(30) DEF WriteLockInput
<1>13. CASE WriteCloseInput(t)
  BY <1>13, SMTT(30) DEF WriteCloseInput
<1>14. CASE WriteRetryInput(t)
  BY <1>14, <1>a, SMTT(30) DEF WriteRetryInput, ReselectInput, SelectInput
<1>15. CASE WriteOpen(t)
  BY <1>15, WriteOpenPlaces, WriteOpenEffect
<1>16. CASE WriteOpened(t)
  BY <1>16, SMTT(30) DEF WriteOpened
<1>17. CASE WriteData(t)
  BY <1>17, SMTT(30) DEF WriteData
<1>18. CASE ReadLock(t)
  BY <1>18, SMTT(30) DEF ReadLock
<1>19. CASE ReadExitStandby(t)
  BY <1>19, SMTT(30) DEF ReadExitStandby, SelectOutput
<1>20. CASE ReadLockOutput(t)
  BY <1>20, SMTT(30) DEF ReadLockOutput
<1>21. CASE ReadRelock(t)
  BY <1>21, SMTT(30) DEF ReadRelock
<1>22. CASE ReadKeepOutput(t)
  BY <1>22, SMTT(30) DEF ReadKeepOutput
<1>23. CASE ReadRetryOutput(t)
  BY <1>23, SMTT(30) DEF ReadRetryOutput, SelectOutput
<1>24. CASE ReadOpen(t)
  BY <1>24, SMTT(30) DEF ReadOpen
<1>25. CASE ReadData(t)
  BY <1>25, SMTT(30) DEF ReadData
<1>26. CASE OutParametersLock(t)
  BY <1>26, SMTT(30) DEF OutParametersLock
<1>27. CASE OutSetRouting(t)
  BY <1>27, SMTT(30) DEF OutSetRouting
<1>28. CASE InParametersLock(t)
  BY <1>28, SMTT(30) DEF InParametersLock
<1>29. CASE InSetRouting(t)
  BY <1>29, SMTT(30) DEF InSetRouting
<1>30. CASE InSetSource(t)
  BY <1>30, SMTT(30) DEF InSetSource
<1>31. CASE AddEffect(t)
  BY <1>31, SMTT(30) DEF AddEffect
<1>32. CASE RemoveEffect(t)
  BY <1>32, SMTT(30) DEF RemoveEffect
<1>33. CASE UnsetEcho(t)
  BY <1>33, SMTT(30) DEF UnsetEcho
<1>34. CASE ModeBegin(t)
  BY <1>34, <1>a, SMTT(30) DEF ModeBegin, SelectActive, SelectInput
<1>35. CASE ModeLockOutput(t)
  BY <1>35, SMTT(30) DEF ModeLockOutput
<1>36. CASE ModeKeepOutput(t)
  BY <1>36, <1>a, SMTT(30) DEF ModeKeepOutput, SelectInput
<1>37. CASE ModeRetryOutput(t)
  BY <1>37, <1>a, SMTT(30) DEF ModeRetryOutput, SelectActive, SelectInput
<1>38. CASE ModeLockInput(t)
  BY <1>38, SMTT(30) DEF ModeLockInput
<1>39. CASE ModeKeepInput(t)
  BY <1>39, SMTT(30) DEF ModeKeepInput
<1>40. CASE ModeRetryInput(t)
  BY <1>40, <1>a, SMTT(30) DEF ModeRetryInput, ReselectInput, SelectInput
<1>41. CASE ModeEnterCall(t)
  BY <1>41, SMTT(30) DEF ModeEnterCall, ForceInputStandby
<1>42. CASE ModeOpenCall(t)
  BY <1>42, SMTT(30) DEF ModeOpenCall
<1>43. CASE ModeLeaveCall(t)
  BY <1>43, SMTT(30) DEF ModeLeaveCall, ForceInputStandby
<1>44. CASE ModeCloseCall(t)
  BY <1>44, SMTT(30) DEF ModeCloseCall
<1>45. CASE ModeOther(t)
  BY <1>45, SMTT(30) DEF ModeOther
<1>46. CASE ModeEnd(t)
  BY <1>46, SMTT(30) DEF ModeEnd
<1>47. CASE SetMicMute(t)
  BY <1>47, <1>a, SMTT(30) DEF SetMicMute
<1>48. CASE CloseOutputClear(t)
  BY <1>48, SMTT(30) DEF CloseOutputClear
<1>49. CASE DropPointers(t)
  BY <1>49, SMTT(30) DEF DropPointers
<1>50. CASE CloseOutputStream(t)
  BY <1>50, <1>a, SMTT(30) DEF CloseOutputStream
<1>51. CASE CloseInputStream(t)
  BY <1>51, SMTT(30) DEF CloseInputStream
<1>52. CASE FreeStream(t)
  BY <1>52, SMTT(30) DEF FreeStream
<1> QED
  BY <1>1, <1>2, <1>3, <1>4, <1>5, <1>6, <1>7, <1>8, <1>9, <1>10, <1>11, <1>12, <1>13, <1>14,
      <1>15, <1>16, <1>17, <1>18, <1>19, <1>20, <1>21, <1>22, <1>23, <1>24, <1>25, <1>26,
      <1>27, <1>28, <1>29, <1>30, <1>31, <1>32, <1>33, <1>34, <1>35, <1>36, <1>37, <1>38,
      <1>39, <1>40, <1>41, <1>42, <1>43, <1>44, <1>45, <1>46, <1>47, <1>48, <1>49, <1>50,
      <1>51, <1>52 DEF Run

(* So do the calls that begin.                                             *)
LEMMA BeginPlaces ==
  ASSUME LockInv, RefInv, NEW t \in Threads, Begin(t)
  PROVE  Places(t)
<1> USE ConstantsAssumption
    DEF LockInv, TypeOK, Places, Goto, Idle, Call, CallClose, DetourAt, InMode, HeadsFor,
        ModeAt, InDoAt
<1>1. CASE Calls(t)
  BY <1>1 DEF Calls, CallWrite, CallRead, CallStandby, CallSetParameters,
     CallAddAudioEffect, CallRemoveAudioEffect, CallSetMode, CallSetMicMute
<1>2. CASE CallCloseStream(t)
  BY <1>2 DEF CallCloseStream
<1>3. CASE OpenOutputStream(t) \/ OpenInputStream(t)
  BY <1>3 DEF OpenOutputStream, OpenInputStream
<1> QED BY <1>1, <1>2, <1>3 DEF Begin, Calls

-----------------------------------------------------------------------------
(* A stream in standby is closed, whenever another thread can look.        *)

(* No input has an echo reference or asks for one, and nobody waits for    *)
(* the output in doStandby_l.                                              *)
NoEcho == "addAec" \notin Ops /\ EchoOff /\ \A t \in Threads : pc[t] \notin DetourAt

(* NoEcho is inductive: only add_audio_effect asks for a reference.        *)
LEMMA NoEchoStep ==
  ASSUME LockInv, RefInv, NoEcho, [Next]_vars
  PROVE  NoEcho'
<1>1. CASE UNCHANGED vars
  BY <1>1 DEF vars, locks, objects, NoEcho, EchoOff
<1>2. ASSUME NEW t \in Threads, Begin(t) \/ Run(t) PROVE NoEcho'
  <2>1. Places(t) /\ OnlyOwn(t) /\ ThreadOK(t)
    BY <1>2, RunPlaces, BeginPlaces, BeginControl, RunControl DEF ControlStep, LockInv
  <2>2. ~InDoStandbyEnd(t)
    BY DEF InDoStandbyEnd, DetourAt, NoEcho
  <2>3. EchoOff'
    BY <1>2, <2>2, EchoStaysOff DEF NoEcho
  <2>4. pc[t] = "d_begin" => in[arg[t]].echo = None
    BY <2>1 DEF ThreadOK, Pointers, InStandbyAt, InDoAt, EchoOff, NoEcho
  <2>5. \A u \in Threads : pc'[u] \notin DetourAt
    BY <2>1, <2>4 DEF Places, OnlyOwn, NoEcho
  <2> QED BY <2>3, <2>5 DEF NoEcho
<1> QED BY <1>1, <1>2 DEF Next

(* doStandby_l on behalf of write() needs no output's lock if there are no *)
(* echo references, and does not run if no input fails to open.            *)
WriteKeepsLock ==
  \/ NoEcho
  \/ /\ "pcmIn" \notin Faults
     /\ \A t \in Threads : ~(pc[t] \in InDoAt /\ dret[t] = "w_fin")

(* WriteKeepsLock is inductive: without add_audio_effect no input has an   *)
(* echo reference, and without a failing open of the input write() does    *)
(* not put it in standby.                                                  *)
LEMMA WriteKeepsLockStep ==
  ASSUME LockInv, RefInv, WriteKeepsLock, [Next]_vars
  PROVE  WriteKeepsLock'
<1>1. CASE NoEcho
  BY <1>1, NoEchoStep DEF WriteKeepsLock
<1>2. CASE "pcmIn" \notin Faults /\ \A u \in Threads : ~(pc[u] \in InDoAt /\ dret[u] = "w_fin")
  <2>1. CASE UNCHANGED vars
    BY <1>2, <2>1 DEF vars, WriteKeepsLock
  <2>2. ASSUME NEW t \in Threads, Begin(t) \/ Run(t) PROVE WriteKeepsLock'
    <3>1. Places(t) /\ OnlyOwn(t)
      BY <2>2, RunPlaces, BeginPlaces, BeginControl, RunControl DEF ControlStep
    <3>2. \A u \in Threads : ~(pc'[u] \in InDoAt /\ dret'[u] = "w_fin")
      BY <1>2, <3>1 DEF Places, OnlyOwn
    <3> QED BY <1>2, <3>2 DEF WriteKeepsLock
  <2> QED BY <2>1, <2>2 DEF Next
<1> QED BY <1>1, <1>2 DEF WriteKeepsLock

(* While the hardware lock is free nobody is in write()'s last step, so    *)
(* no output in standby has devices.                                       *)
LEMMA ClosedWhenFree ==
  ASSUME StreamsInv, WriteKeepsLock
  PROVE  StandbyClosed
<1> SUFFICES ASSUME hwLock = None
             PROVE  /\ \A o \in Outs : out[o].standby => ~out[o].pcm /\ ~out[o].mixer
                    /\ \A i \in Ins : in[i].standby => ~in[i].pcm /\ ~in[i].mixer
  BY DEF StandbyClosed
<1>1. ASSUME NEW t \in Threads, NEW o \in Outs PROVE ~Opens(t, o)
  <2>1. hwLock # t
    BY ConstantsAssumption
  <2>2. pc[t] \notin {"w_fin", "d_begin"}
    BY <2>1 DEF StreamsInv, LockInv, ThreadOK, Holds
  <2> QED BY <2>2 DEF Opens, WriteKeepsLock, NoEcho, DetourAt, InDoAt
<1> QED BY <1>1 DEF StreamsInv, DevInv, OutputsClosed, InputsClosed, Closed

(* A stream in standby has its devices closed whenever the hardware lock   *)
(* is free. The hypothesis is what the code needs: an input with an echo   *)
(* reference (add_audio_effect) whose open fails inside write() is put in  *)
(* standby by doStandby_l, which drops the hardware lock to reach the      *)
(* output while write() has opened that output and not yet taken it out    *)
(* of standby.                                                             *)
THEOREM StandbyAlwaysClosed ==
  "addAec" \notin Ops \/ "pcmIn" \notin Faults => (Spec => []StandbyClosed)
<1> SUFFICES ASSUME "addAec" \notin Ops \/ "pcmIn" \notin Faults PROVE Spec => []StandbyClosed
  OBVIOUS
<1>1. Init => WriteKeepsLock
  BY DEF Init, WriteKeepsLock, NoEcho, EchoOff, DetourAt, InDoAt, NewIn
<1>2. StreamsInv /\ WriteKeepsLock /\ [Next]_vars => WriteKeepsLock'
  BY WriteKeepsLockStep DEF StreamsInv
<1> QED BY <1>1, <1>2, ClosedWhenFree, StreamsKept, PTL DEF Spec

-----------------------------------------------------------------------------
(* The counts of the shared devices: what a step may change.               *)

(* A stream nobody uses any more has closed its devices.                   *)
GoneClosed ==
  /\ \A o \in Outs \ outLive : Closed(out[o])
  /\ \A i \in Ins \ inLive : Closed(in[i])
  /\ \A t \in Threads :
       /\ pc[t] = "free" /\ arg[t] \in Outs => Closed(out[arg[t]])
       /\ pc[t] = "free" /\ arg[t] \in Ins => Closed(in[arg[t]])
       /\ pc[t] = "si_end" => Closed(in[arg[t]])

(* Only write() and read() open devices, those of their own stream and of  *)
(* the one they point to.                                                  *)
LEMMA OpensOnly ==
  ASSUME LockInv, NEW t \in Threads, Begin(t) \/ Run(t)
  PROVE  /\ \A o \in Outs : Closed(out[o]) /\ ~Closed(out'[o]) =>
              pc[t] \in {"w_open", "r_open"} /\ o \in {self[t], spOut[t]}
         /\ \A i \in Ins : Closed(in[i]) /\ ~Closed(in'[i]) =>
              pc[t] \in {"w_open", "r_open"} /\ i \in {self[t], spIn[t]}
<1>1. OutMove(t) /\ InMove(t)
  BY Moves
<1>2. ASSUME NEW o \in Outs, Closed(out[o]), ~Closed(out'[o])
      PROVE  pc[t] \in {"w_open", "r_open"} /\ o \in {self[t], spOut[t]}
  BY <1>1, <1>2 DEF OutMove, OnlyOut, Devices, Closed
<1>3. ASSUME NEW i \in Ins, Closed(in[i]), ~Closed(in'[i])
      PROVE  pc[t] \in {"w_open", "r_open"} /\ i \in {self[t], spIn[t]}
  BY <1>1, <1>3 DEF InMove, OnlyIn, Devices, Closed
<1> QED BY <1>2, <1>3

(* A stream is allocated only by opening it and gone only when freed.       *)
Allocated(t) ==
  \/ UNCHANGED <<outLive, inLive>>
  \/ inLive' = inLive /\ \E o \in Outs : outLive' = outLive \cup {o}
  \/ outLive' = outLive /\ \E i \in Ins : inLive' = inLive \cup {i}
  \/ pc[t] = "free" /\ outLive' = outLive \ {arg[t]} /\ inLive' = inLive \ {arg[t]}

(* A stream that is made or freed is one of the two actions that make and  *)
(* free them.                                                              *)
LEMMA Allocation ==
  ASSUME LockInv, RefInv, NEW t \in Threads, Begin(t) \/ Run(t)
  PROVE  Allocated(t)
<1>1. CASE Run(t) /\ ~CloseOutputStream(t) /\ ~CloseInputStream(t) /\ ~FreeStream(t)
  BY <1>1, RunRefs DEF RunSteps, objects, Allocated
<1>2. CASE CloseOutputStream(t) \/ CloseInputStream(t) \/ FreeStream(t)
  BY <1>2 DEF CloseOutputStream, CloseInputStream, FreeStream, Allocated
<1>3. CASE Calls(t)
  BY <1>3, CallRefs DEF RunSteps, objects, Allocated
<1>4. CASE CallCloseStream(t)
  BY <1>4 DEF CallCloseStream, CallClose, Allocated
<1>5. CASE OpenOutputStream(t) \/ OpenInputStream(t)
  BY <1>5 DEF OpenOutputStream, OpenInputStream, Allocated
<1> QED BY <1>1, <1>2, <1>3, <1>4, <1>5 DEF Begin, Calls

(* GoneClosed is inductive: the destructor's standby() closes the devices  *)
(* before the object goes.                                                 *)
LEMMA GoneClosedStep ==
  ASSUME StreamsInv, GoneClosed, [Next]_vars
  PROVE  GoneClosed'
<1>1. CASE UNCHANGED vars
  BY <1>1 DEF vars, locks, objects, GoneClosed
<1>2. CASE Next
  <2>1. PICK t \in Threads : Begin(t) \/ Run(t)
    BY <1>2 DEF Next
  <2>2. /\ LockInv /\ RefInv /\ ObjectsLive /\ ThreadOK(t) /\ PointsToLive(t)
        /\ Places(t) /\ OnlyOwn(t) /\ Allocated(t)
        /\ outLive \subseteq Outs /\ inLive \subseteq Ins /\ mInputs \subseteq Ins
    BY <2>1, RunPlaces, BeginPlaces, BeginControl, RunControl, Allocation
       DEF ControlStep, LockInv, TypeOK, StreamsInv, RefInv
  <2>3. /\ \A o \in Outs : Closed(out[o]) /\ ~Closed(out'[o]) =>
             pc[t] \in {"w_open", "r_open"} /\ o \in {self[t], spOut[t]}
        /\ \A i \in Ins : Closed(in[i]) /\ ~Closed(in'[i]) =>
             pc[t] \in {"w_open", "r_open"} /\ i \in {self[t], spIn[t]}
    BY <2>1, <2>2, OpensOnly
  <2>4. /\ self[t] \in Outs => self[t] = mOutput /\ self[t] \in outLive
        /\ self[t] \in Ins => self[t] \in mInputs /\ self[t] \in inLive
    BY <2>2, ConstantsAssumption DEF PointsToLive, ObjectsLive
  <2>5. ASSUME NEW o \in Outs \ outLive' PROVE Closed(out'[o])
    <3>1. CASE o \in outLive
      <4>1. pc[t] = "free" /\ o = arg[t]
        BY <2>2, <2>5, <3>1 DEF Allocated
      <4>2. Closed(out[o])
        BY <2>5, <4>1 DEF GoneClosed
      <4> QED BY <2>3, <2>5, <4>1, <4>2
    <3>2. CASE o \notin outLive
      <4>1. Closed(out[o])
        BY <2>5, <3>2 DEF GoneClosed
      <4>2. o \notin {self[t], spOut[t]}
        BY <2>2, <2>4, <2>5, <3>2, ConstantsAssumption DEF PointsToLive
      <4> QED BY <2>3, <2>5, <4>1, <4>2
    <3> QED BY <3>1, <3>2
  <2>6. ASSUME NEW i \in Ins \ inLive' PROVE Closed(in'[i])
    <3>1. CASE i \in inLive
      <4>1. pc[t] = "free" /\ i = arg[t]
        BY <2>2, <2>6, <3>1 DEF Allocated
      <4>2. Closed(in[i])
        BY <2>6, <4>1 DEF GoneClosed
      <4> QED BY <2>3, <2>6, <4>1, <4>2
    <3>2. CASE i \notin inLive
      <4>1. Closed(in[i])
        BY <2>6, <3>2 DEF GoneClosed
      <4>2. i \notin {self[t], spIn[t]}
        BY <2>2, <2>4, <2>6, <3>2, ConstantsAssumption DEF PointsToLive
      <4> QED BY <2>3, <2>6, <4>1, <4>2
    <3> QED BY <3>1, <3>2
  <2>7. ASSUME NEW u \in Threads
        PROVE  /\ pc'[u] = "free" /\ arg'[u] \in Outs => Closed(out'[arg'[u]])
               /\ pc'[u] = "free" /\ arg'[u] \in Ins => Closed(in'[arg'[u]])
               /\ pc'[u] = "si_end" => Closed(in'[arg'[u]])
    <3>1. CASE u = t
      <4>1. pc'[t] = "si_end" => Closed(in'[arg'[t]])
        BY <2>2 DEF Places
      <4>2. ASSUME pc'[t] = "free"
            PROVE  (arg'[t] \in Outs => Closed(out'[arg'[t]])) /\ (arg'[t] \in Ins => Closed(in'[arg'[t]]))
        <5>1. /\ arg'[t] = arg[t]
              /\ \/ arg[t] \in Outs /\ Closed(out'[arg[t]])
                 \/ pc[t] = "si_end" /\ in' = in /\ arg[t] \in Ins
          BY <2>2, <4>2 DEF Places
        <5> QED BY <5>1, ConstantsAssumption DEF GoneClosed
      <4> QED BY <3>1, <4>1, <4>2
    <3>2. CASE u # t
      <4>1. pc'[u] = pc[u] /\ arg'[u] = arg[u]
        BY <2>2, <3>2 DEF OnlyOwn
      <4>2. CASE pc[u] = "free"
        <5>1. /\ arg[u] \notin {mOutput} \cup mInputs
              /\ arg[u] \notin {spOut[t], spIn[t]}
          BY <2>2, <4>2 DEF RefInv, Uses, EndsAlone, Ending
        <5>2. /\ arg[u] \in Outs => Closed(out[arg[u]])
              /\ arg[u] \in Ins => Closed(in[arg[u]])
          BY <4>2 DEF GoneClosed
        <5> QED BY <2>3, <2>4, <4>1, <4>2, <5>1, <5>2
      <4>3. CASE pc[u] = "si_end"
        <5>1. hwLock = u /\ arg[u] \in Ins /\ Closed(in[arg[u]])
          BY <2>2, <4>3 DEF LockInv, ThreadOK, Holds, Pointers, InStandbyAt, GoneClosed
        <5>2. pc[t] \notin {"w_open", "r_open"}
          BY <2>2, <3>2, <5>1 DEF ThreadOK, Holds
        <5> QED BY <2>3, <4>1, <4>3, <5>1, <5>2
      <4> QED BY <4>1, <4>2, <4>3
    <3> QED BY <3>1, <3>2
  <2> QED BY <2>5, <2>6, <2>7 DEF GoneClosed
<1> QED BY <1>1, <1>2

-----------------------------------------------------------------------------
(* setMode has opened the devices of a call and not yet closed them.       *)
CallOpen == Bit(hw.inCall /\ \A t \in Threads : ~HeadsFor(t, "m_uncall"))

(* Either no call is ever made, or its two opens succeed and setMode keeps *)
(* the hardware lock through doStandby_l.                                  *)
CallsExact ==
  \/ "setMode" \notin Ops /\ ~hw.inCall /\ \A t \in Threads : ~InMode(t)
  \/ /\ Faults \cap {"pcmOut", "mixer"} = {}
     /\ "addAec" \notin Ops /\ EchoOff
     /\ \A t \in Threads : /\ pc[t] \notin DetourAt
                           /\ HeadsFor(t, "m_call") => ~hw.inCall
                           /\ HeadsFor(t, "m_uncall") => hw.inCall

(* Every handle is covered by the counts, those of a call too.             *)
Covered ==
  /\ \A o \in Outs \cup {None} : hw.pcmCnt >= Pcm(out, o) + CallOpen
  /\ \A o \in Outs \cup {None} : hw.mixerCnt >= Mix(out, o) + CallOpen
  /\ \A i \in Ins : hw.mixerCnt >= Mix(in, i)

CountsMove(o, i) ==
  /\ \A x \in Outs \ {o} : Devices(out'[x]) = Devices(out[x])
  /\ \A x \in Ins \ {i} : Devices(in'[x]) = Devices(in[x])
  /\ hw'.pcmCnt + Pcm(out, o) + CallOpen = hw.pcmCnt + Pcm(out', o) + CallOpen'
  /\ hw'.mixerCnt + Mix(out, o) + Mix(in, i) + CallOpen
       = hw.mixerCnt + Mix(out', o) + Mix(in', i) + CallOpen'

CountsStep == \E o \in Outs \cup {None}, i \in Ins \cup {None} : CountsMove(o, i)

(* The numbers that the steps below add and subtract.                      *)
LEMMA Naturals ==
  ASSUME LockInv
  PROVE  /\ hw.pcmCnt \in Nat /\ hw.mixerCnt \in Nat /\ CallOpen \in {0, 1}
         /\ \A f, s : Pcm(f, s) \in {0, 1} /\ Mix(f, s) \in {0, 1}
         /\ \A f : Pcm(f, None) = 0 /\ Mix(f, None) = 0
BY DEF LockInv, TypeOK, HwFields, CallOpen, Bit, Pcm, Mix

(* Whether a call's devices are open changes in setMode alone.             *)
LEMMA CallOpenKept ==
  ASSUME StreamsInv, CallsExact, NEW t \in Threads, Begin(t) \/ Run(t),
         hw'.inCall = hw.inCall, ~ModeLeaveCall(t), ~ModeCloseCall(t)
  PROVE  CallOpen' = CallOpen
<1>1. Places(t) /\ OnlyOwn(t)
  BY RunPlaces, BeginPlaces, BeginControl, RunControl DEF ControlStep, StreamsInv
<1>2. CASE ~hw.inCall
  BY <1>2 DEF CallOpen, Bit
<1>3. CASE hw.inCall
  <2>1. ~InDoStandbyEnd(t)
    BY <1>3 DEF CallsExact, DetourAt, InDoStandbyEnd
  <2>2. HeadsFor(t, "m_uncall")' <=> HeadsFor(t, "m_uncall")
    BY <1>1, <2>1 DEF Places
  <2>3. \A u \in Threads \ {t} : HeadsFor(u, "m_uncall")' <=> HeadsFor(u, "m_uncall")
    BY <1>1 DEF OnlyOwn, HeadsFor
  <2>4. (\A u \in Threads : ~HeadsFor(u, "m_uncall")') <=> (\A u \in Threads : ~HeadsFor(u, "m_uncall"))
    BY <2>2, <2>3
  <2>5. hw'.inCall
    BY <1>3
  <2> QED BY <1>3, <2>4, <2>5 DEF CallOpen, Bit
<1> QED BY <1>2, <1>3

(* An action that leaves the devices of all streams and the counts alone.  *)
LEMMA SameCounts ==
  ASSUME LockInv, CallOpen' = CallOpen,
         \A x \in Outs : Devices(out'[x]) = Devices(out[x]),
         \A x \in Ins : Devices(in'[x]) = Devices(in[x]),
         hw'.pcmCnt = hw.pcmCnt, hw'.mixerCnt = hw.mixerCnt
  PROVE  CountsStep
<1>1. CountsMove(None, None)
  BY Naturals DEF CountsMove, Pcm, Mix
<1> QED BY <1>1 DEF CountsStep

(* doStandby_l of output o, after setMode has perhaps closed a call.       *)
LEMMA OutStandbyMove ==
  ASSUME LockInv, NEW o \in Outs, NEW h \in HwFields, NEW d \in {0, 1},
         h.pcmCnt = hw.pcmCnt - d, h.mixerCnt = hw.mixerCnt - d, CallOpen' = CallOpen - d,
         hw.pcmCnt >= Pcm(out, o) + d, hw.mixerCnt >= Mix(out, o) + d,
         hw' = OutStandbyHw(h, out[o]), out' = [out EXCEPT ![o] = OutStandby(@)], in' = in
  PROVE  CountsStep
<1>1. out[o] \in OutFields /\ o # None
  BY ConstantsAssumption DEF LockInv, TypeOK
<1>2. /\ out'[o].standby /\ Closed(out'[o])
      /\ \A x \in Outs \ {o} : Devices(out'[x]) = Devices(out[x])
  BY OutPutInStandby DEF LockInv, TypeOK, OnlyOut
<1>3. /\ Pcm(out, o) = Bit(out[o].pcm) /\ Mix(out, o) = Bit(out[o].mixer)
      /\ Pcm(out', o) = 0 /\ Mix(out', o) = 0
  BY <1>1, <1>2 DEF Pcm, Mix, Bit, Closed
<1>4. h.pcmCnt \in Nat /\ h.mixerCnt \in Nat
  BY DEF HwFields
<1>5. Covers(h, out[o])
  BY <1>3, <1>4, Naturals DEF Covers, Bit
<1>6. hw'.pcmCnt = h.pcmCnt - Bit(out[o].pcm) /\ hw'.mixerCnt = h.mixerCnt - Bit(out[o].mixer)
  BY <1>1, <1>5, OutStandbyCounts
<1>7. CountsMove(o, None)
  BY <1>2, <1>3, <1>4, <1>6, Naturals DEF CountsMove
<1> QED BY <1>7 DEF CountsStep

(* The same for the close of an input.                                     *)
LEMMA InCloseMove ==
  ASSUME LockInv, NEW i \in Ins, NEW h \in HwFields,
         h.pcmCnt = hw.pcmCnt, h.mixerCnt = hw.mixerCnt, CallOpen' = CallOpen,
         hw.mixerCnt >= Mix(in, i), hw' = InCloseHw(h, in[i]),
         \A x \in Outs : Devices(out'[x]) = Devices(out[x]),
         \A x \in Ins \ {i} : Devices(in'[x]) = Devices(in[x]),
         Closed(in'[i])
  PROVE  CountsStep
<1>1. in[i] \in InFields /\ i # None
  BY ConstantsAssumption DEF LockInv, TypeOK
<1>2. /\ Mix(in, i) = Bit(in[i].mixer) /\ Mix(in', i) = 0
  BY <1>1 DEF Mix, Bit, Closed
<1>3. hw'.pcmCnt = h.pcmCnt /\ hw'.mixerCnt = h.mixerCnt - Bit(in[i].mixer)
  <2>1. CASE in[i].mixer
    <3>1. h.mixerCnt > 0
      BY <1>2, <2>1, Naturals DEF Bit
    <3> QED BY <2>1, <3>1, MixerCounts DEF InCloseHw, Bit
  <2>2. CASE ~in[i].mixer
    BY <2>2 DEF InCloseHw, Bit, HwFields
  <2> QED BY <2>1, <2>2
<1>4. CountsMove(None, i)
  BY <1>2, <1>3, Naturals DEF CountsMove, Pcm, Mix
<1> QED BY <1>4 DEF CountsStep

(* Both streams are closed when write() opens its output.                  *)
LEMMA ClosedBeforeWrite ==
  ASSUME StreamsInv, NEW t \in Threads, pc[t] = "w_open"
  PROVE  /\ self[t] \in Outs /\ Closed(out[self[t]])
         /\ spIn[t] # None => Closed(in[spIn[t]])
<1>1. /\ self[t] \in Outs /\ outLock[self[t]] = t
      /\ out[self[t]].standby
      /\ spIn[t] # None => Closed(in[spIn[t]])
  BY DEF StreamsInv, LockInv, ThreadOK, Pointers, Holds, DevInv, BeforeOpen, WriteAt,
      LeavingStandbyAt
<1>2. ASSUME NEW u \in Threads, Opens(u, self[t]) PROVE FALSE
  <2>1. outLock[self[u]] = u /\ self[u] = self[t]
    BY <1>2 DEF Opens, StreamsInv, LockInv, ThreadOK, Holds, HoldsInDo, WriteAt
  <2>2. u = t
    BY <1>1, <2>1
  <2> QED BY <1>2, <2>2 DEF Opens, InDoAt
<1> QED BY <1>1, <1>2 DEF StreamsInv, DevInv, OutputsClosed

(* What an action that opens no device leaves of the hardware object.      *)
Keeps(h, g) ==
  /\ g.mode = h.mode /\ g.inCall = h.inCall /\ g.micMute = h.micMute /\ g.micOff = h.micOff
  /\ g.pcmCnt <= h.pcmCnt

(* AudioStreamOutALSA::doStandby_l changes neither the mode nor the        *)
(* microphone.                                                             *)
LEMMA OutStandbyKeeps ==
  ASSUME NEW h \in HwFields, NEW s \in OutFields
  PROVE  Keeps(h, OutStandbyHw(h, s))
<1>1. \A g \in HwFields : /\ closeMixer_l(g) \in HwFields /\ closeMixer_l(g).pcmCnt = g.pcmCnt
                          /\ closePcmOut_l(g).pcmCnt <= g.pcmCnt
  BY MixerCounts DEF closePcmOut_l, HwFields
<1> DEFINE h1 == IF s.standby THEN h ELSE [h EXCEPT !.wake = FALSE]
<1>2. h1 \in HwFields /\ h1.pcmCnt = h.pcmCnt
  BY DEF HwFields
<1>3. OutStandbyHw(h, s) = OutCloseHw(h1, s)
  BY DEF OutStandbyHw
<1> HIDE DEF h1
<1>4. OutCloseHw(h1, s).pcmCnt <= h1.pcmCnt
  <2> DEFINE h2 == IF s.mixer THEN closeMixer_l(h1) ELSE h1
  <2>1. h2 \in HwFields /\ h2.pcmCnt = h1.pcmCnt
    BY <1>1, <1>2
  <2>2. OutCloseHw(h1, s) = IF s.pcm THEN closePcmOut_l(h2) ELSE h2
    BY DEF OutCloseHw
  <2> HIDE DEF h2
  <2> QED BY <1>1, <2>1, <2>2 DEF HwFields
<1>5. OutStandbyHw(h, s).pcmCnt <= h.pcmCnt
  BY <1>2, <1>3, <1>4
<1> QED BY <1>5, OutStandbyCounts DEF Keeps, CallFields

(* Where setMode begins or ends a call it changes the mode and puts the    *)
(* output in standby.                                                      *)
LEMMA CallStepKeeps ==
  ASSUME LockInv, NEW t \in Threads, ModeEnterCall(t) \/ ModeLeaveCall(t)
  PROVE  /\ hw'.inCall = hw.inCall /\ hw'.micMute = hw.micMute /\ hw'.micOff = hw.micOff
         /\ hw'.pcmCnt <= hw.pcmCnt
         /\ ModeLeaveCall(t) => hw'.mode = "NORMAL"
<1>0. /\ hw \in HwFields /\ out \in [Outs -> OutFields] /\ spOut[t] \in Outs \cup {None}
  BY DEF LockInv, TypeOK
<1>1. \E h \in HwFields :
        /\ h.inCall = hw.inCall /\ h.micMute = hw.micMute /\ h.micOff = hw.micOff
        /\ h.pcmCnt <= hw.pcmCnt
        /\ ModeLeaveCall(t) => h.mode = "NORMAL"
        /\ ForceOutputStandby(t, h)
  <2>1. CASE ModeEnterCall(t)
    <3> DEFINE h == [hw EXCEPT !.mode = "IN_CALL"]
    <3>1. h \in HwFields /\ h.inCall = hw.inCall /\ h.micMute = hw.micMute /\ h.micOff = hw.micOff
          /\ h.pcmCnt <= hw.pcmCnt
      BY <1>0 DEF HwFields, Modes
    <3>2. ForceOutputStandby(t, h)
      BY <2>1 DEF ModeEnterCall
    <3>3. ~ModeLeaveCall(t)
      BY <2>1 DEF ModeEnterCall, ModeLeaveCall
    <3> HIDE DEF h
    <3> QED BY <3>1, <3>2, <3>3
  <2>2. CASE ModeLeaveCall(t)
    <3> DEFINE h0 == [hw EXCEPT !.mode = "NORMAL"]
               h1 == closeMixer_l(h0)
               h2 == closePcmOut_l(h1)
    <3>1. h0 \in HwFields /\ h0.inCall = hw.inCall /\ h0.micMute = hw.micMute /\ h0.micOff = hw.micOff
          /\ h0.pcmCnt = hw.pcmCnt /\ h0.mode = "NORMAL"
      BY <1>0 DEF HwFields, Modes
    <3>2. ForceOutputStandby(t, h2)
      BY <2>2 DEF ModeLeaveCall
    <3> HIDE DEF h0
    <3>3. h1 \in HwFields /\ h1.inCall = h0.inCall /\ h1.micMute = h0.micMute /\ h1.micOff = h0.micOff
          /\ h1.pcmCnt = h0.pcmCnt /\ h1.mode = h0.mode
      BY <3>1, MixerCounts DEF CallFields
    <3> HIDE DEF h1
    <3>4. h2 \in HwFields /\ h2.inCall = h1.inCall /\ h2.micMute = h1.micMute /\ h2.micOff = h1.micOff
          /\ h2.mode = h1.mode
      BY <3>3, PcmCounts DEF CallFields
    <3>5. h2.pcmCnt <= h1.pcmCnt
      BY <3>3 DEF closePcmOut_l, HwFields
    <3> HIDE DEF h2
    <3> QED BY <3>1, <3>2, <3>3, <3>4, <3>5
  <2> QED BY <2>1, <2>2
<1>2. PICK h \in HwFields :
        /\ h.inCall = hw.inCall /\ h.micMute = hw.micMute /\ h.micOff = hw.micOff
        /\ h.pcmCnt <= hw.pcmCnt
        /\ ModeLeaveCall(t) => h.mode = "NORMAL"
        /\ ForceOutputStandby(t, h)
  BY <1>1
<1>3. hw' = h \/ \E o \in Outs : hw' = OutStandbyHw(h, out[o])
  BY <1>0, <1>2 DEF ForceOutputStandby
<1>4. Keeps(h, h)
  BY DEF Keeps, HwFields
<1>5. Keeps(h, hw')
  BY <1>0, <1>3, <1>4, OutStandbyKeeps
<1>6. hw' \in HwFields
  BY <1>0, <1>3, OutStandbyCounts
<1>7. hw'.pcmCnt <= hw.pcmCnt
  BY <1>0, <1>2, <1>5, <1>6 DEF Keeps, HwFields
<1> QED BY <1>2, <1>5, <1>7 DEF Keeps

(* Which actions change the mode, the call, the mute setting, the          *)
(* microphone path, and which may open the playback device.                *)
LEMMA HwKept ==
  ASSUME LockInv, NEW t \in Threads, Begin(t) \/ Run(t), ~WriteOpen(t), ~ReadOpen(t)
  PROVE  /\ ~ModeOpenCall(t) /\ ~ModeCloseCall(t) => hw'.inCall = hw.inCall
         /\ ~ModeEnterCall(t) /\ ~ModeLeaveCall(t) /\ ~ModeOther(t) => hw'.mode = hw.mode
         /\ ~SetMicMute(t) => hw'.micMute = hw.micMute
         /\ hw'.micOff = hw.micOff
         /\ ~ModeOpenCall(t) => hw'.pcmCnt <= hw.pcmCnt
<1>0. /\ hw \in HwFields /\ out \in [Outs -> OutFields] /\ in \in [Ins -> InFields]
      /\ ThreadOK(t) /\ spOut[t] \in Outs \cup {None}
  BY DEF LockInv, TypeOK
<1>a. Keeps(hw, hw)
  BY <1>0 DEF Keeps, HwFields
<1>1. CASE ControlActions(t)
  BY <1>a, <1>1, ControlUntouched DEF Keeps
<1>2. CASE WriteExitStandby(t) \/ WriteOpened(t)
  BY <1>0, <1>2, SMTT(30) DEF WriteExitStandby, WriteOpened, HwFields
<1>3. CASE ModeOther(t) \/ SetMicMute(t) \/ ModeCloseCall(t)
  BY <1>0, <1>3, SMTT(30) DEF ModeOther, SetMicMute, ModeCloseCall, HwFields
<1>4. CASE InSetSource(t)
  <2>1. PICK h \in openMixer_l(hw) : hw' = closeMixer_l(h)
    BY <1>4 DEF InSetSource
  <2>2. h \in HwFields /\ CallFields(h) = CallFields(hw) /\ h.micOff = hw.micOff /\ h.pcmCnt = hw.pcmCnt
    BY <1>0, MixerCounts
  <2>3. CallFields(hw') = CallFields(h) /\ hw'.micOff = h.micOff /\ hw'.pcmCnt = h.pcmCnt
    BY <2>1, <2>2, MixerCounts
  <2> QED BY <1>a, <2>2, <2>3 DEF CallFields, Keeps
<1>5. CASE OutStandbyDo(t) \/ OutSetRouting(t)
  <2>1. hw' = hw \/ \E o \in Outs : hw' = OutStandbyHw(hw, out[o])
    BY <1>0, <1>5 DEF OutStandbyDo, OutSetRouting, ThreadOK, Pointers, OutStandbyAt
  <2>2. Keeps(hw, hw')
    BY <1>0, <1>a, <2>1, OutStandbyKeeps
  <2> QED BY <2>2 DEF Keeps
<1>6. CASE ModeEnterCall(t) \/ ModeLeaveCall(t)
  BY <1>6, CallStepKeeps
<1>7. CASE \/ OpenOutputStream(t) \/ OpenInputStream(t)
           \/ CallAddAudioEffect(t) \/ AddEffect(t) \/ RemoveEffect(t) \/ UnsetEcho(t)
  BY <1>a, <1>7 DEF Keeps, OpenOutputStream, OpenInputStream, CallAddAudioEffect, AddEffect,
      RemoveEffect, UnsetEcho
<1>8. CASE InDoStandbyBegin(t) \/ InDoStandbyEnd(t) \/ WriteCloseInput(t)
  <2>1. ASSUME NEW h \in HwFields, NEW s \in InFields
        PROVE  Keeps(h, InCloseHw(h, s))
    <3>1. Keeps(h, h)
      BY DEF Keeps, HwFields
    <3>2. Keeps(h, closeMixer_l(h))
      BY <3>1, MixerCounts DEF CallFields, Keeps
    <3> QED BY <3>1, <3>2 DEF InCloseHw
  <2>2. \A e : ReleaseEchoHw(hw, e) \in HwFields /\ Keeps(hw, ReleaseEchoHw(hw, e))
               /\ ReleaseEchoHw(hw, e).pcmCnt = hw.pcmCnt
    BY <1>0 DEF ReleaseEchoHw, Keeps, HwFields
  <2>3. \E h \in HwFields : Keeps(hw, h) /\ h.pcmCnt = hw.pcmCnt /\
          (hw' = h \/ \E i \in Ins : hw' = InCloseHw(h, in[i]))
    <3>1. CASE InDoStandbyBegin(t)
      BY <1>0, <1>a, <3>1 DEF InDoStandbyBegin, ThreadOK, Pointers, InStandbyAt, InDoAt
    <3>2. CASE WriteCloseInput(t)
      BY <1>0, <1>a, <3>2 DEF WriteCloseInput, ThreadOK, Pointers
    <3>3. CASE InDoStandbyEnd(t)
      <4>1. arg[t] \in Ins
        BY <1>0, <3>3 DEF InDoStandbyEnd, ThreadOK, Pointers, InStandbyAt, InDoAt
      <4>2. \E e : hw' = ReleaseEchoHw(hw, e) \/ hw' = InCloseHw(ReleaseEchoHw(hw, e), in[arg[t]])
        BY <3>3 DEF InDoStandbyEnd
      <4> QED BY <2>2, <4>1, <4>2
    <3> QED BY <1>8, <3>1, <3>2, <3>3
  <2> QED BY <1>0, <2>1, <2>3 DEF Keeps
<1>9. CASE ModeOpenCall(t)
  <2>1. PICK h1 \in openPcmOut_l(hw) : \E h2 \in openMixer_l(h1) : hw' = [h2 EXCEPT !.inCall = TRUE]
    BY <1>9 DEF ModeOpenCall
  <2>2. h1 \in HwFields /\ CallFields(h1) = CallFields(hw) /\ h1.micOff = hw.micOff
    BY <1>0, <2>1, PcmCounts
  <2>3. PICK h2 \in openMixer_l(h1) : hw' = [h2 EXCEPT !.inCall = TRUE]
    BY <2>1
  <2>4. h2 \in HwFields /\ CallFields(h2) = CallFields(h1) /\ h2.micOff = h1.micOff
    BY <2>2, MixerCounts
  <2>5. hw'.mode = h2.mode /\ hw'.micMute = h2.micMute /\ hw'.micOff = h2.micOff
    BY <2>3, <2>4 DEF HwFields
  <2> QED BY <1>9, <2>2, <2>4, <2>5 DEF CallFields
<1> QED BY <1>1, <1>2, <1>3, <1>4, <1>5, <1>6, <1>7, <1>8, <1>9
        DEF Begin, Run, ControlActions

(* The actions that neither begin nor end a call leave the flag alone.     *)
LEMMA InCallKept ==
  ASSUME LockInv, NEW t \in Threads, Begin(t) \/ Run(t), ~ModeOpenCall(t), ~ModeCloseCall(t)
  PROVE  hw'.inCall = hw.inCall
BY HwKept, WriteOpenEffect, ReadOpenEffect DEF CallFields

-----------------------------------------------------------------------------
(* The counts of the shared devices: what each step does change.           *)

(* A newly allocated stream has no device, and had none before.            *)
LEMMA OpenCounts ==
  ASSUME StreamsInv, GoneClosed, CallOpen' = CallOpen, NEW t \in Threads,
         OpenOutputStream(t) \/ OpenInputStream(t)
  PROVE  CountsStep
<1>0. LockInv /\ out \in [Outs -> OutFields] /\ in \in [Ins -> InFields]
  BY DEF StreamsInv, LockInv, TypeOK
<1>1. CASE OpenOutputStream(t)
  <2>1. hw' = hw /\ in' = in /\ \E o \in Outs \ outLive : out' = [out EXCEPT ![o] = NewOut]
    BY <1>1 DEF OpenOutputStream
  <2>2. PICK o \in Outs \ outLive : out' = [out EXCEPT ![o] = NewOut]
    BY <2>1
  <2>3. Closed(out[o]) /\ Closed(out'[o]) /\ \A x \in Outs \ {o} : Devices(out'[x]) = Devices(out[x])
    BY <1>0, <2>2 DEF GoneClosed, NewOut, Closed
  <2>4. Pcm(out, o) = 0 /\ Pcm(out', o) = 0 /\ Mix(out, o) = 0 /\ Mix(out', o) = 0
    BY <2>3 DEF Pcm, Mix, Closed, Bit
  <2>5. CountsMove(o, None)
    BY <1>0, <2>1, <2>3, <2>4, Naturals DEF CountsMove
  <2> QED BY <2>5 DEF CountsStep
<1>2. CASE OpenInputStream(t)
  <2>1. hw' = hw /\ out' = out /\ \E i \in Ins \ inLive : in' = [in EXCEPT ![i] = NewIn]
    BY <1>2 DEF OpenInputStream
  <2>2. PICK i \in Ins \ inLive : in' = [in EXCEPT ![i] = NewIn]
    BY <2>1
  <2>3. Closed(in[i]) /\ Closed(in'[i]) /\ \A x \in Ins \ {i} : Devices(in'[x]) = Devices(in[x])
    BY <1>0, <2>2 DEF GoneClosed, NewIn, Closed
  <2>4. Mix(in, i) = 0 /\ Mix(in', i) = 0
    BY <2>3 DEF Mix, Closed, Bit
  <2>5. CountsMove(None, i)
    BY <1>0, <2>1, <2>3, <2>4, Naturals DEF CountsMove
  <2> QED BY <2>5 DEF CountsStep
<1> QED BY <1>1, <1>2

(* The call's devices are counted when they are opened, and no longer when *)
(* they are closed.                                                        *)
LEMMA ModeCounts ==
  ASSUME StreamsInv, CallsExact, Covered, NEW t \in Threads,
         ModeOpenCall(t) \/ ModeCloseCall(t) \/ ModeLeaveCall(t)
  PROVE  CountsStep
<1>0. /\ LockInv /\ ThreadOK(t) /\ hw \in HwFields /\ spOut[t] \in Outs \cup {None}
      /\ pc \in [Threads -> Labels] /\ dret \in [Threads -> Labels]
      /\ Places(t) /\ OnlyOwn(t)
  BY RunPlaces, RunControl DEF ControlStep, StreamsInv, LockInv, TypeOK, Run
<1>1. /\ Faults \cap {"pcmOut", "mixer"} = {}
      /\ \A u \in Threads : /\ pc[u] \notin DetourAt
                            /\ HeadsFor(u, "m_call") => ~hw.inCall
                            /\ HeadsFor(u, "m_uncall") => hw.inCall
  BY DEF CallsExact, InMode, ModeAt, ModeOpenCall, ModeCloseCall, ModeLeaveCall
<1>2. /\ hwLock = t
      /\ \A u \in Threads \ {t} : ~HeadsFor(u, "m_uncall") /\ ~HeadsFor(u, "m_uncall")'
  <2>1. hwLock = t
    BY <1>0 DEF ThreadOK, Holds, ModeOpenCall, ModeCloseCall, ModeLeaveCall
  <2>2. ASSUME NEW u \in Threads \ {t}, HeadsFor(u, "m_uncall") PROVE FALSE
    <3>1. hwLock = u
      BY <1>1, <2>2 DEF HeadsFor, DetourAt, InDoAt, StreamsInv, LockInv, ThreadOK, Holds
    <3> QED BY <2>1, <3>1
  <2>3. \A u \in Threads \ {t} : HeadsFor(u, "m_uncall")' => HeadsFor(u, "m_uncall")
    BY <1>0 DEF OnlyOwn, HeadsFor
  <2> QED BY <2>1, <2>2, <2>3
<1>3. CASE ModeOpenCall(t)
  <2>1. PICK h1 \in openPcmOut_l(hw) : \E h2 \in openMixer_l(h1) : hw' = [h2 EXCEPT !.inCall = TRUE]
    BY <1>3 DEF ModeOpenCall
  <2>2. PICK h2 \in openMixer_l(h1) : hw' = [h2 EXCEPT !.inCall = TRUE]
    BY <2>1
  <2>3. h1 \in HwFields /\ h1.pcmCnt = hw.pcmCnt + 1 /\ h1.mixerCnt = hw.mixerCnt
    BY <1>0, <1>1, PcmCounts DEF Bit, HwFields
  <2>4. h2 \in HwFields /\ h2.pcmCnt = hw.pcmCnt + 1 /\ h2.mixerCnt = hw.mixerCnt + 1
    BY <1>1, <2>3, MixerCounts DEF Bit
  <2>5. hw'.inCall /\ hw'.pcmCnt = hw.pcmCnt + 1 /\ hw'.mixerCnt = hw.mixerCnt + 1
    BY <2>2, <2>4 DEF HwFields
  <2>6. ~HeadsFor(t, "m_uncall")' /\ ~hw.inCall /\ out' = out /\ in' = in
    BY <1>0, <1>1, <1>3 DEF ModeOpenCall, HeadsFor, Goto, InDoAt
  <2>7. CallOpen = 0 /\ CallOpen' = 1
    BY <1>2, <2>5, <2>6 DEF CallOpen, Bit
  <2>8. CountsMove(None, None)
    BY <1>0, <2>5, <2>6, <2>7, Naturals DEF CountsMove
  <2> QED BY <2>8 DEF CountsStep
<1>4. CASE ModeCloseCall(t)
  <2>1. hw'.inCall = FALSE /\ hw'.pcmCnt = hw.pcmCnt /\ hw'.mixerCnt = hw.mixerCnt
        /\ out' = out /\ in' = in
    BY <1>0, <1>4 DEF ModeCloseCall, HwFields
  <2>2. HeadsFor(t, "m_uncall")
    BY <1>4 DEF ModeCloseCall, HeadsFor
  <2>3. CallOpen = 0 /\ CallOpen' = 0
    BY <2>1, <2>2 DEF CallOpen, Bit
  <2> QED BY <1>0, <2>1, <2>3, SameCounts
<1>5. CASE ModeLeaveCall(t)
  <2> DEFINE h0 == [hw EXCEPT !.mode = "NORMAL"]
             h1 == closeMixer_l(h0)
             h  == closePcmOut_l(h1)
  <2>1. hw.inCall /\ pc[t] = "m_apply" /\ ~HeadsFor(t, "m_uncall") /\ HeadsFor(t, "m_uncall")'
    BY <1>0, <1>5 DEF ModeLeaveCall, HeadsFor, InDoAt, ForceInputStandby, Goto
  <2>2. CallOpen = 1 /\ CallOpen' = 0
    BY <1>2, <2>1 DEF CallOpen, Bit
  <2>3. /\ hw.pcmCnt >= Pcm(out, spOut[t]) + 1 /\ hw.mixerCnt >= Mix(out, spOut[t]) + 1
    BY <1>0, <2>2 DEF Covered
  <2>4. hw.pcmCnt > 0 /\ hw.mixerCnt > 0 /\ hw.pcmCnt \in Nat /\ hw.mixerCnt \in Nat
    BY <1>0, <2>3, Naturals
  <2>5. IF spOut[t] = None THEN hw' = h /\ out' = out
        ELSE hw' = OutStandbyHw(h, out[spOut[t]]) /\ out' = [out EXCEPT ![spOut[t]] = OutStandby(@)]
    BY <1>5 DEF ModeLeaveCall, ForceOutputStandby
  <2>6. in' = in
    BY <1>5 DEF ModeLeaveCall
  <2>7. h0 \in HwFields /\ h0.pcmCnt = hw.pcmCnt /\ h0.mixerCnt = hw.mixerCnt
    BY <1>0 DEF HwFields, Modes
  <2> HIDE DEF h0
  <2>8. h1 \in HwFields /\ h1.pcmCnt = hw.pcmCnt /\ h1.mixerCnt = hw.mixerCnt - 1
    BY <2>4, <2>7, MixerCounts
  <2> HIDE DEF h1
  <2>9. h \in HwFields /\ h.pcmCnt = hw.pcmCnt - 1 /\ h.mixerCnt = hw.mixerCnt - 1
    BY <2>4, <2>8, PcmCounts
  <2> HIDE DEF h
  <2>10. CASE spOut[t] = None
    <3>1. CountsMove(None, None)
      BY <1>0, <2>2, <2>4, <2>5, <2>6, <2>9, <2>10, Naturals DEF CountsMove
    <3> QED BY <3>1 DEF CountsStep
  <2>11. CASE spOut[t] # None
    <3>1. spOut[t] \in Outs /\ CallOpen' = CallOpen - 1
      BY <1>0, <2>2, <2>11
    <3> QED BY <1>0, <2>3, <2>5, <2>6, <2>9, <2>11, <3>1, OutStandbyMove
  <2> QED BY <2>10, <2>11
<1> QED BY <1>3, <1>4, <1>5

(* Every step changes the two counts by exactly as much as it opens and    *)
(* closes.                                                                 *)
LEMMA CountsKept ==
  ASSUME StreamsInv, GoneClosed, CallsExact, Covered, NEW t \in Threads, Begin(t) \/ Run(t)
  PROVE  CountsStep
<1>0. /\ LockInv /\ hw \in HwFields /\ out \in [Outs -> OutFields] /\ in \in [Ins -> InFields]
      /\ ThreadOK(t) /\ BeforeOpen(t) /\ InputsClosed
      /\ spOut[t] \in Outs \cup {None} /\ spIn[t] \in Ins \cup {None}
  BY DEF StreamsInv, LockInv, TypeOK, DevInv
<1>1. CASE ModeOpenCall(t) \/ ModeCloseCall(t) \/ ModeLeaveCall(t)
  BY <1>1, ModeCounts
<1>2. CASE ~ModeOpenCall(t) /\ ~ModeCloseCall(t) /\ ~ModeLeaveCall(t)
  <2>0. CallOpen' = CallOpen
    BY <1>0, <1>2, InCallKept, CallOpenKept
  <2>1. CASE ControlActions(t)
    BY <1>0, <2>0, <2>1, ControlUntouched, SameCounts
  <2>2. CASE WriteExitStandby(t) \/ ModeOther(t) \/ SetMicMute(t)
    <3>1. hw'.pcmCnt = hw.pcmCnt /\ hw'.mixerCnt = hw.mixerCnt /\ out' = out /\ in' = in
      BY <1>0, <2>2 DEF WriteExitStandby, ModeOther, SetMicMute, HwFields
    <3> QED BY <1>0, <2>0, <3>1, SameCounts
  <2>3. CASE InSetSource(t)
    <3>1. PICK h \in openMixer_l(hw) : hw' = closeMixer_l(h)
      BY <2>3 DEF InSetSource
    <3>2. h \in HwFields /\ h.pcmCnt = hw.pcmCnt /\ h.mixerCnt = hw.mixerCnt + Bit(h.mixerCnt > 0)
      BY <1>0, MixerCounts
    <3>3. hw'.pcmCnt = h.pcmCnt /\ hw'.mixerCnt = IF h.mixerCnt > 0 THEN h.mixerCnt - 1 ELSE 0
      BY <3>1, <3>2, MixerCounts
    <3>4. hw'.pcmCnt = hw.pcmCnt /\ hw'.mixerCnt = hw.mixerCnt
      BY <1>0, <3>2, <3>3 DEF Bit, HwFields
    <3>5. out' = out /\ in' = in
      BY <2>3 DEF InSetSource
    <3> QED BY <1>0, <2>0, <3>4, <3>5, SameCounts
  <2>4. CASE OutStandbyDo(t) \/ OutSetRouting(t)
    <3>1. /\ in' = in
          /\ \/ hw' = hw /\ out' = out
             \/ \E o \in Outs : /\ hw' = OutStandbyHw(hw, out[o])
                               /\ out' = [out EXCEPT ![o] = OutStandby(@)]
      BY <1>0, <2>4 DEF OutStandbyDo, OutSetRouting, ThreadOK, Pointers, OutStandbyAt
    <3>2. CASE hw' = hw /\ out' = out
      BY <1>0, <2>0, <3>1, <3>2, SameCounts
    <3>3. ASSUME NEW o \in Outs, hw' = OutStandbyHw(hw, out[o]), out' = [out EXCEPT ![o] = OutStandby(@)]
          PROVE  CountsStep
      <4>1. hw.pcmCnt >= Pcm(out, o) + 0 /\ hw.mixerCnt >= Mix(out, o) + 0
        BY <1>0, Naturals DEF Covered
      <4>2. hw.pcmCnt = hw.pcmCnt - 0 /\ hw.mixerCnt = hw.mixerCnt - 0 /\ CallOpen' = CallOpen - 0
        BY <1>0, <2>0, Naturals
      <4> QED BY <1>0, <3>1, <3>3, <4>1, <4>2, OutStandbyMove
    <3> QED BY <3>1, <3>2, <3>3
  <2>5. CASE ModeEnterCall(t)
    <3> DEFINE h == [hw EXCEPT !.mode = "IN_CALL"]
    <3>1. h \in HwFields /\ h.pcmCnt = hw.pcmCnt - 0 /\ h.mixerCnt = hw.mixerCnt - 0
      BY <1>0 DEF HwFields, Modes
    <3>2. /\ in' = in
          /\ \/ hw' = h /\ out' = out
             \/ \E o \in Outs : /\ hw' = OutStandbyHw(h, out[o])
                               /\ out' = [out EXCEPT ![o] = OutStandby(@)]
      BY <1>0, <2>5 DEF ModeEnterCall, ForceOutputStandby
    <3> HIDE DEF h
    <3>3. CASE hw' = h /\ out' = out
      <4>1. hw'.pcmCnt = hw.pcmCnt /\ hw'.mixerCnt = hw.mixerCnt
        BY <1>0, <3>1, <3>3, Naturals
      <4> QED BY <1>0, <2>0, <3>2, <3>3, <4>1, SameCounts
    <3>4. ASSUME NEW o \in Outs, hw' = OutStandbyHw(h, out[o]), out' = [out EXCEPT ![o] = OutStandby(@)]
          PROVE  CountsStep
      <4>1. hw.pcmCnt >= Pcm(out, o) + 0 /\ hw.mixerCnt >= Mix(out, o) + 0
        BY <1>0, Naturals DEF Covered
      <4>2. CallOpen' = CallOpen - 0
        BY <1>0, <2>0, Naturals
      <4> QED BY <1>0, <3>1, <3>2, <3>4, <4>1, <4>2, OutStandbyMove
    <3> QED BY <3>2, <3>3, <3>4
  <2>6. CASE OpenOutputStream(t) \/ OpenInputStream(t)
    BY <2>0, <2>6, OpenCounts
  <2>7. CASE CallAddAudioEffect(t) \/ AddEffect(t) \/ RemoveEffect(t) \/ UnsetEcho(t)
    <3>1. out' = out /\ hw' = hw
      BY <2>7 DEF CallAddAudioEffect, AddEffect, RemoveEffect, UnsetEcho
    <3>2. \A x \in Ins : Devices(in'[x]) = Devices(in[x])
      <4>1. PICK i \in Ins : \/ in' = [in EXCEPT ![i].needEcho = TRUE]
                             \/ in' = [in EXCEPT ![i].fx = TRUE]
                             \/ in' = [in EXCEPT ![i].fx = FALSE]
                             \/ in' = [in EXCEPT ![i].needEcho = FALSE]
        BY <1>0, <2>7 DEF ThreadOK, Pointers, CallAddAudioEffect, AddEffect, RemoveEffect, UnsetEcho
      <4> QED BY <1>0, <4>1, SMTT(30) DEF InFields, Devices
    <3> QED BY <1>0, <2>0, <3>1, <3>2, SameCounts
  <2>8. CASE InDoStandbyBegin(t) \/ InDoStandbyEnd(t)
    <3>1. arg[t] \in Ins /\ in[arg[t]] \in InFields
      BY <1>0, <2>8 DEF InDoStandbyBegin, InDoStandbyEnd, ThreadOK, Pointers, InStandbyAt, InDoAt
    <3>2. \A x \in Outs : Devices(out'[x]) = Devices(out[x])
      <4>1. CASE InDoStandbyBegin(t)
        BY <4>1 DEF InDoStandbyBegin
      <4>2. CASE InDoStandbyEnd(t)
        BY <1>0, <4>2, EchoOperations DEF InDoStandbyEnd, LockInv, TypeOK
      <4> QED BY <2>8, <4>1, <4>2
    <3>3. PICK h \in HwFields : /\ h.pcmCnt = hw.pcmCnt /\ h.mixerCnt = hw.mixerCnt
                                /\ \/ hw' = h /\ (in' = in \/ in' = [in EXCEPT ![arg[t]].echo = None])
                                   \/ /\ hw' = InCloseHw(h, in[arg[t]])
                                      /\ \E e : in' = [in EXCEPT ![arg[t]] = [InClose(@) EXCEPT !.standby = TRUE, !.echo = e]]
      <4>1. CASE InDoStandbyBegin(t)
        BY <1>0, <4>1 DEF InDoStandbyBegin
      <4>2. CASE InDoStandbyEnd(t)
        <5> DEFINE h == ReleaseEchoHw(hw, in[arg[t]].echo)
        <5>1. h \in HwFields /\ h.pcmCnt = hw.pcmCnt /\ h.mixerCnt = hw.mixerCnt
          BY <1>0 DEF ReleaseEchoHw, HwFields
        <5>2. \/ hw' = h /\ in' = [in EXCEPT ![arg[t]].echo = None]
              \/ /\ hw' = InCloseHw(h, in[arg[t]])
                 /\ in' = [in EXCEPT ![arg[t]] = [InClose(@) EXCEPT !.standby = TRUE, !.echo = None]]
          BY <4>2 DEF InDoStandbyEnd
        <5> HIDE DEF h
        <5> QED BY <5>1, <5>2
      <4> QED BY <2>8, <4>1, <4>2
    <3>4. CASE hw' = h /\ (in' = in \/ in' = [in EXCEPT ![arg[t]].echo = None])
      <4>1. \A x \in Ins : Devices(in'[x]) = Devices(in[x])
        BY <1>0, <3>1, <3>4 DEF Devices, InFields
      <4> QED BY <1>0, <2>0, <3>2, <3>3, <3>4, <4>1, SameCounts
    <3>5. ASSUME hw' = InCloseHw(h, in[arg[t]]), NEW e,
                 in' = [in EXCEPT ![arg[t]] = [InClose(@) EXCEPT !.standby = TRUE, !.echo = e]]
          PROVE  CountsStep
      <4>1. (\A x \in Ins \ {arg[t]} : Devices(in'[x]) = Devices(in[x])) /\ Closed(in'[arg[t]])
        BY <1>0, <3>1, <3>5 DEF Closed, InClose, InFields
      <4>2. hw.mixerCnt >= Mix(in, arg[t])
        BY <3>1 DEF Covered
      <4> QED BY <1>0, <2>0, <3>1, <3>2, <3>3, <3>5, <4>1, <4>2, InCloseMove
    <3> QED BY <3>3, <3>4, <3>5
  <2>9. CASE WriteCloseInput(t)
    <3>1. /\ spIn[t] \in Ins /\ hw' = InCloseHw(hw, in[spIn[t]]) /\ out' = out
          /\ in' = [in EXCEPT ![spIn[t]] = InClose(@)]
      BY <1>0, <2>9 DEF WriteCloseInput, ThreadOK, Pointers
    <3>2. (\A x \in Ins \ {spIn[t]} : Devices(in'[x]) = Devices(in[x])) /\ Closed(in'[spIn[t]])
      <4>1. in[spIn[t]] \in InFields
        BY <1>0, <3>1
      <4> QED BY <1>0, <3>1, <4>1 DEF Closed, InClose, InFields
    <3>3. hw.mixerCnt >= Mix(in, spIn[t])
      BY <3>1 DEF Covered
    <3> QED BY <1>0, <2>0, <3>1, <3>2, <3>3, InCloseMove
  <2>10. CASE WriteOpen(t)
    <3>1. pc[t] = "w_open"
      BY <2>10 DEF WriteOpen
    <3>2. Pcm(out, self[t]) = 0 /\ Mix(out, self[t]) = 0 /\ Mix(in, spIn[t]) = 0
      BY <3>1, ClosedBeforeWrite DEF Pcm, Mix, Bit, Closed
    <3>3. /\ \A x \in Outs \ {self[t]} : out'[x] = out[x]
          /\ \A x \in Ins \ {spIn[t]} : in'[x] = in[x]
          /\ hw'.pcmCnt = hw.pcmCnt + Pcm(out', self[t])
          /\ hw'.mixerCnt = hw.mixerCnt + Mix(out', self[t]) + Mix(in', spIn[t])
          /\ self[t] \in Outs
      BY <1>0, <2>10, WriteOpenEffect
    <3>4. CountsMove(self[t], spIn[t])
      BY <1>0, <2>0, <3>2, <3>3, Naturals DEF CountsMove
    <3> QED BY <1>0, <3>3, <3>4 DEF CountsStep
  <2>11. CASE WriteOpened(t)
    <3>1. /\ self[t] \in Outs /\ in' = in
          /\ out' = [out EXCEPT ![self[t]].standby = ~out[self[t]].pcm]
          /\ hw' = hw \/ hw' = [hw EXCEPT !.wake = FALSE]
      BY <1>0, <2>11 DEF WriteOpened, ThreadOK, Pointers, WriteAt
    <3>2. out[self[t]] \in OutFields
      BY <1>0, <3>1
    <3>3. /\ \A x \in Outs \ {self[t]} : out'[x] = out[x]
          /\ out'[self[t]].pcm = out[self[t]].pcm
          /\ out'[self[t]].mixer = out[self[t]].mixer
      BY <1>0, <3>1, <3>2 DEF OutFields
    <3>4. Pcm(out', self[t]) = Pcm(out, self[t]) /\ Mix(out', self[t]) = Mix(out, self[t])
      BY <3>3 DEF Pcm, Mix
    <3>5. hw'.pcmCnt = hw.pcmCnt /\ hw'.mixerCnt = hw.mixerCnt
      BY <1>0, <3>1 DEF HwFields
    <3>6. CountsMove(self[t], None)
      BY <1>0, <2>0, <3>1, <3>3, <3>4, <3>5, Naturals DEF CountsMove
    <3> QED BY <3>1, <3>6 DEF CountsStep
  <2>12. CASE ReadOpen(t)
    <3>1. pc[t] = "r_open" /\ self[t] \in Ins /\ Closed(in[self[t]])
      BY <1>0, <2>12 DEF ReadOpen, BeforeOpen, ReadStandbyAt, InputsClosed, ThreadOK,
          Pointers, ReadAt
    <3>2. spOut[t] # None => Covers(hw, out[spOut[t]])
      BY <1>0, Naturals DEF Covered, Covers, Pcm, Mix, Bit
    <3>3. Mix(in, self[t]) = 0
      BY <3>1 DEF Mix, Bit, Closed
    <3>4. /\ OnlyOut(spOut[t])
          /\ \A x \in Ins \ {self[t]} : in'[x] = in[x]
          /\ hw'.pcmCnt + Pcm(out, spOut[t]) = hw.pcmCnt + Pcm(out', spOut[t])
          /\ hw'.mixerCnt + Mix(out, spOut[t])
               = hw.mixerCnt + Mix(out', spOut[t]) + Mix(in', self[t])
      BY <1>0, <2>12, <3>2, ReadOpenEffect
    <3>5. hw'.mixerCnt \in Nat /\ hw'.pcmCnt \in Nat
      BY <1>0, RunFields DEF FieldsStep, FieldsOK, HwFields
    <3>6. CountsMove(spOut[t], self[t])
      BY <1>0, <2>0, <3>3, <3>4, <3>5, Naturals DEF CountsMove, OnlyOut
    <3> QED BY <1>0, <3>1, <3>6 DEF CountsStep
  <2> QED BY <1>2, <2>1, <2>2, <2>3, <2>4, <2>5, <2>6, <2>7, <2>8, <2>9, <2>10, <2>11, <2>12
          DEF Begin, Run, ControlActions
<1> QED BY <1>1, <1>2

-----------------------------------------------------------------------------
(* The counts of the shared devices are those of the handles.              *)

(* Calls stay as exact as they were.                                       *)
LEMMA CallsExactStep ==
  ASSUME StreamsInv, CallsExact, [Next]_vars
  PROVE  CallsExact'
<1>1. CASE UNCHANGED vars
  BY <1>1 DEF vars, locks, objects, CallsExact, EchoOff, InMode, HeadsFor
<1>2. CASE Next
  <2>1. PICK t \in Threads : Begin(t) \/ Run(t)
    BY <1>2 DEF Next
  <2>2. Places(t) /\ OnlyOwn(t) /\ ThreadOK(t) /\ LockInv
    BY <2>1, RunPlaces, BeginPlaces, BeginControl, RunControl DEF ControlStep, LockInv, StreamsInv
  <2>3. \/ hw'.inCall = hw.inCall
        \/ pc[t] = "m_call" /\ ModeOpenCall(t)
        \/ pc[t] = "m_uncall" /\ ModeCloseCall(t)
    BY <2>1, <2>2, InCallKept DEF ModeOpenCall, ModeCloseCall
  <2>4. CASE "setMode" \notin Ops /\ ~hw.inCall /\ \A u \in Threads : ~InMode(u)
    <3>1. \A u \in Threads : ~InMode(u)'
      BY <2>2, <2>4 DEF Places, OnlyOwn, InMode, HeadsFor
    <3>2. ~hw'.inCall
      BY <2>3, <2>4 DEF InMode, ModeAt
    <3> QED BY <2>4, <3>1, <3>2 DEF CallsExact
  <2>5. CASE /\ Faults \cap {"pcmOut", "mixer"} = {}
             /\ "addAec" \notin Ops /\ EchoOff
             /\ \A u \in Threads : /\ pc[u] \notin DetourAt
                                   /\ HeadsFor(u, "m_call") => ~hw.inCall
                                   /\ HeadsFor(u, "m_uncall") => hw.inCall
    <3>1. ~InDoStandbyEnd(t)
      BY <2>5 DEF InDoStandbyEnd, DetourAt
    <3>2. EchoOff'
      BY <2>1, <2>2, <2>5, <3>1, EchoStaysOff
    <3>3. pc[t] = "d_begin" => in[arg[t]].echo = None
      BY <2>2, <2>5 DEF ThreadOK, Pointers, InStandbyAt, InDoAt, EchoOff
    <3>4. \A u \in Threads : pc'[u] \notin DetourAt
      BY <2>2, <2>5, <3>3 DEF Places, OnlyOwn
    <3>5. ASSUME NEW u \in Threads, HeadsFor(u, "m_call") \/ HeadsFor(u, "m_uncall")
          PROVE  hwLock = u
      BY <2>2, <2>5, <3>5 DEF HeadsFor, InDoAt, DetourAt, LockInv, ThreadOK, Holds
    <3>6. CASE hw'.inCall = hw.inCall
      <4>1. ASSUME NEW u \in Threads
            PROVE  (HeadsFor(u, "m_call")' => ~hw'.inCall) /\ (HeadsFor(u, "m_uncall")' => hw'.inCall)
        <5>1. CASE u = t
          <6>1. /\ HeadsFor(t, "m_call")' => HeadsFor(t, "m_call") \/ ~hw.inCall
                /\ HeadsFor(t, "m_uncall")' => HeadsFor(t, "m_uncall") \/ hw.inCall
            BY <2>2 DEF Places, ModeEnterCall, ModeLeaveCall
          <6> QED BY <2>5, <3>6, <5>1, <6>1
        <5>2. CASE u # t
          <6>1. /\ HeadsFor(u, "m_call")' => HeadsFor(u, "m_call")
                /\ HeadsFor(u, "m_uncall")' => HeadsFor(u, "m_uncall")
            BY <2>2, <5>2 DEF OnlyOwn, HeadsFor
          <6> QED BY <2>5, <3>6, <6>1
        <5> QED BY <5>1, <5>2
      <4> QED BY <2>5, <3>2, <3>4, <4>1 DEF CallsExact
    <3>7. CASE \/ pc[t] = "m_call" /\ ModeOpenCall(t)
               \/ pc[t] = "m_uncall" /\ ModeCloseCall(t)
      <4>1. hwLock = t /\ pc'[t] = "m_end"
        BY <2>2, <3>7 DEF ThreadOK, Holds, ModeOpenCall, ModeCloseCall, Goto, LockInv, TypeOK
      <4>2. ASSUME NEW u \in Threads, HeadsFor(u, "m_call")' \/ HeadsFor(u, "m_uncall")'
            PROVE  FALSE
        <5>1. u # t
          BY <4>1, <4>2 DEF HeadsFor, InDoAt
        <5>2. HeadsFor(u, "m_call") \/ HeadsFor(u, "m_uncall")
          BY <2>2, <4>2, <5>1 DEF OnlyOwn, HeadsFor
        <5> QED BY <3>5, <4>1, <5>1, <5>2
      <4> QED BY <2>5, <3>2, <3>4, <4>2 DEF CallsExact
    <3> QED BY <2>3, <3>6, <3>7
  <2> QED BY <2>4, <2>5 DEF CallsExact
<1> QED BY <1>1, <1>2

-----------------------------------------------------------------------------
(* Two sets that differ in one element at most.                            *)
LEMMA CountOne ==
  ASSUME NEW S, NEW T, IsFiniteSet(S), IsFiniteSet(T), NEW x, S \ {x} = T \ {x}
  PROVE  Cardinality(T) + Bit(x \in S) = Cardinality(S) + Bit(x \in T)
<1>1. Cardinality(S) \in Nat /\ Cardinality(T) \in Nat
  BY FS_CardinalityType
<1>2. Cardinality(S \ {x}) = Cardinality(S) - Bit(x \in S)
  BY <1>1, FS_RemoveElement DEF Bit
<1>3. Cardinality(T \ {x}) = Cardinality(T) - Bit(x \in T)
  BY <1>1, FS_RemoveElement DEF Bit
<1> QED BY <1>1, <1>2, <1>3 DEF Bit

PcmOuts   == {o \in Outs : out[o].pcm}
MixerOuts == {o \in Outs : out[o].mixer}
MixerIns  == {i \in Ins : in[i].mixer}

(* The counts are the number of handles, and one for a call.               *)
Exact ==
  /\ hw.pcmCnt = Cardinality(PcmOuts) + CallOpen
  /\ hw.mixerCnt = Cardinality(MixerOuts) + Cardinality(MixerIns) + CallOpen

(* There are finitely many streams, so the handles can be counted.         *)
LEMMA HandlesFinite ==
  /\ IsFiniteSet(PcmOuts) /\ IsFiniteSet(MixerOuts) /\ IsFiniteSet(MixerIns)
  /\ Cardinality(PcmOuts) \in Nat /\ Cardinality(MixerOuts) \in Nat /\ Cardinality(MixerIns) \in Nat
<1>1. PcmOuts \subseteq Outs /\ MixerOuts \subseteq Outs /\ MixerIns \subseteq Ins
  BY DEF PcmOuts, MixerOuts, MixerIns
<1>2. IsFiniteSet(PcmOuts) /\ IsFiniteSet(MixerOuts) /\ IsFiniteSet(MixerIns)
  BY <1>1, FS_Subset, ConstantsAssumption
<1> QED BY <1>2, FS_CardinalityType

(* So the count is at least the handle of any one stream.                  *)
LEMMA ExactCovers ==
  ASSUME LockInv, Exact
  PROVE  Covered
<1>1. ASSUME NEW S, IsFiniteSet(S), NEW x \in S PROVE Cardinality(S) >= 1
  <2>1. Cardinality(S) \in Nat /\ Cardinality(S) # 0
    BY <1>1, FS_EmptySet, FS_CardinalityType
  <2> QED BY <2>1
<1>2. ASSUME NEW o \in Outs \cup {None}
      PROVE  hw.pcmCnt >= Pcm(out, o) + CallOpen /\ hw.mixerCnt >= Mix(out, o) + CallOpen
  <2>1. Pcm(out, o) = 1 => o \in PcmOuts
    BY <1>2 DEF Pcm, Bit, PcmOuts
  <2>2. Mix(out, o) = 1 => o \in MixerOuts
    BY <1>2 DEF Mix, Bit, MixerOuts
  <2>3. Cardinality(PcmOuts) >= Pcm(out, o) /\ Cardinality(MixerOuts) >= Mix(out, o)
    BY <1>1, <2>1, <2>2, HandlesFinite, Naturals
  <2> QED BY <2>3, HandlesFinite, Naturals DEF Exact
<1>3. ASSUME NEW i \in Ins PROVE hw.mixerCnt >= Mix(in, i)
  <2>1. Mix(in, i) = 1 => i \in MixerIns
    BY <1>3 DEF Mix, Bit, MixerIns
  <2>2. Cardinality(MixerIns) >= Mix(in, i)
    BY <1>1, <2>1, HandlesFinite, Naturals
  <2> QED BY <2>2, HandlesFinite, Naturals DEF Exact
<1> QED BY <1>2, <1>3 DEF Covered

(* Exact is inductive: a step that changes a count changes the handles,    *)
(* or the call, by as much.                                                *)
LEMMA ExactStep ==
  ASSUME StreamsInv, LockInv', GoneClosed, CallsExact, Exact, [Next]_vars
  PROVE  Exact'
<1>1. CASE UNCHANGED vars
  BY <1>1 DEF vars, locks, objects, Exact, PcmOuts, MixerOuts, MixerIns, CallOpen, HeadsFor
<1>2. CASE Next
  <2>1. PICK t \in Threads : Begin(t) \/ Run(t)
    BY <1>2 DEF Next
  <2>2. LockInv /\ Covered
    BY ExactCovers DEF StreamsInv
  <2>3. PICK o \in Outs \cup {None}, i \in Ins \cup {None} : CountsMove(o, i)
    BY <2>1, <2>2, CountsKept DEF CountsStep
  <2>4. /\ hw'.pcmCnt \in Nat /\ hw'.mixerCnt \in Nat /\ hw.pcmCnt \in Nat /\ hw.mixerCnt \in Nat
        /\ CallOpen \in {0, 1} /\ CallOpen' \in {0, 1}
        /\ \A f, s : Pcm(f, s) \in {0, 1} /\ Mix(f, s) \in {0, 1}
    BY <2>2, Naturals DEF LockInv, TypeOK, HwFields, CallOpen, Bit
  <2>5. /\ IsFiniteSet(PcmOuts') /\ IsFiniteSet(MixerOuts') /\ IsFiniteSet(MixerIns')
        /\ Cardinality(PcmOuts') \in Nat /\ Cardinality(MixerOuts') \in Nat
        /\ Cardinality(MixerIns') \in Nat
    <3>1. PcmOuts' \subseteq Outs /\ MixerOuts' \subseteq Outs /\ MixerIns' \subseteq Ins
      BY DEF PcmOuts, MixerOuts, MixerIns
    <3>2. IsFiniteSet(PcmOuts') /\ IsFiniteSet(MixerOuts') /\ IsFiniteSet(MixerIns')
      BY <3>1, FS_Subset, ConstantsAssumption
    <3> QED BY <3>2, FS_CardinalityType
  <2>6. /\ PcmOuts' \ {o} = PcmOuts \ {o}
        /\ MixerOuts' \ {o} = MixerOuts \ {o}
        /\ MixerIns' \ {i} = MixerIns \ {i}
    BY <2>3 DEF CountsMove, Devices, PcmOuts, MixerOuts, MixerIns
  <2>7. /\ Bit(o \in PcmOuts) = Pcm(out, o) /\ Bit(o \in PcmOuts') = Pcm(out', o)
        /\ Bit(o \in MixerOuts) = Mix(out, o) /\ Bit(o \in MixerOuts') = Mix(out', o)
        /\ Bit(i \in MixerIns) = Mix(in, i) /\ Bit(i \in MixerIns') = Mix(in', i)
    BY <2>3, ConstantsAssumption DEF PcmOuts, MixerOuts, MixerIns, Pcm, Mix, Bit
  <2>8. Cardinality(PcmOuts') + Pcm(out, o) = Cardinality(PcmOuts) + Pcm(out', o)
    BY <2>5, <2>6, <2>7, HandlesFinite, CountOne
  <2>9. Cardinality(MixerOuts') + Mix(out, o) = Cardinality(MixerOuts) + Mix(out', o)
    BY <2>5, <2>6, <2>7, HandlesFinite, CountOne
  <2>10. Cardinality(MixerIns') + Mix(in, i) = Cardinality(MixerIns) + Mix(in', i)
    BY <2>5, <2>6, <2>7, HandlesFinite, CountOne
  <2>11. hw'.pcmCnt = Cardinality(PcmOuts') + CallOpen'
    BY <2>3, <2>4, <2>5, <2>8, HandlesFinite DEF CountsMove, Exact
  <2>12. hw'.mixerCnt = Cardinality(MixerOuts') + Cardinality(MixerIns') + CallOpen'
    BY <2>3, <2>4, <2>5, <2>9, <2>10, HandlesFinite DEF CountsMove, Exact
  <2> QED BY <2>11, <2>12 DEF Exact
<1> QED BY <1>1, <1>2

CountInv == GoneClosed /\ CallsExact /\ Exact

(* The property is that, with no more said of a call than that it has the  *)
(* devices or has not.                                                     *)
LEMMA ExactCounts ==
  ASSUME StreamsInv, CountInv
  PROVE  SharedDevicesCounted
<1>1. CallOpen = 0 \/ (CallOpen = 1 /\ hw.inCall)
  BY DEF CallOpen, Bit
<1>2. hw.pcmCnt \in Nat /\ hw.mixerCnt \in Nat
  BY Naturals DEF StreamsInv
<1>3. PcmCounted
  BY <1>1, <1>2, HandlesFinite DEF PcmCounted, CountInv, Exact, PcmOuts
<1>4. MixerCounted
  BY <1>1, <1>2, HandlesFinite DEF MixerCounted, CountInv, Exact, MixerOuts, MixerIns
<1> QED BY <1>3, <1>4 DEF SharedDevicesCounted

CallsReliable ==
  \/ "setMode" \notin Ops
  \/ Faults \cap {"pcmOut", "mixer"} = {} /\ "addAec" \notin Ops

(* At the start nothing is open and nothing is counted.                    *)
LEMMA CountInit ==
  ASSUME CallsReliable, Init
  PROVE  CountInv
<1>1. GoneClosed
  BY DEF Init, GoneClosed, Closed, NewOut, NewIn
<1>2. CallsExact
  BY DEF Init, CallsReliable, CallsExact, EchoOff, NewIn, InMode, HeadsFor, ModeAt, DetourAt, InDoAt
<1>3. PcmOuts = {} /\ MixerOuts = {} /\ MixerIns = {}
  BY DEF Init, PcmOuts, MixerOuts, MixerIns, NewOut, NewIn
<1>4. CallOpen = 0 /\ hw.pcmCnt = 0 /\ hw.mixerCnt = 0
  BY DEF Init, CallOpen, Bit
<1>5. Exact
  BY <1>3, <1>4, FS_EmptySet DEF Exact
<1> QED BY <1>1, <1>2, <1>5 DEF CountInv

(* The playback device and the mixer are counted exactly, through every    *)
(* failing open, reopening, destructor and call, whatever the number of    *)
(* streams and threads. The hypothesis says where the code can miscount:   *)
(* setMode does not look at the results of its two opens, and with an      *)
(* echo reference its doStandby_l drops the hardware lock in the middle    *)
(* of setMode.                                                             *)
THEOREM DevicesAlwaysCounted == CallsReliable => (Spec => []SharedDevicesCounted)
<1> SUFFICES ASSUME CallsReliable PROVE Spec => []SharedDevicesCounted
  OBVIOUS
<1>1. Init => CountInv
  BY CountInit
<1>2. StreamsInv /\ StreamsInv' /\ CountInv /\ [Next]_vars => CountInv'
  <2> SUFFICES ASSUME StreamsInv, StreamsInv', CountInv, [Next]_vars PROVE CountInv'
    OBVIOUS
  <2>1. LockInv' /\ GoneClosed /\ CallsExact /\ Exact
    BY DEF StreamsInv, CountInv
  <2> QED BY <2>1, GoneClosedStep, CallsExactStep, ExactStep DEF CountInv
<1> QED BY <1>1, <1>2, ExactCounts, StreamsKept, PTL DEF Spec

-----------------------------------------------------------------------------
(* While the output plays the phone stays awake.                           *)

(* The outputs that exist: at most the one of the hardware object.         *)
OneOutput == outLive \subseteq {mOutput} /\ \A t \in Threads : pc[t] # "co_hw"

(* Only four actions change which streams the hardware object has.        *)
LEMMA ObjectsMove ==
  ASSUME LockInv, RefInv, NEW t \in Threads, Begin(t) \/ Run(t)
  PROVE  /\ ~OpenOutputStream(t) => mOutput' \in {mOutput, None}
         /\ ~OpenOutputStream(t) /\ ~CloseOutputStream(t) => mOutput' = mOutput
         /\ ~OpenInputStream(t) => mInputs' \subseteq mInputs
         /\ ~CloseInputStream(t) => mInputs \subseteq mInputs'
<1>1. CASE RunSteps(t)
  BY <1>1 DEF RunSteps, objects
<1>2. CASE Calls(t)
  BY <1>1, <1>2, CallRefs
<1>3. CASE \/ CloseInputStream(t) \/ CloseOutputStream(t) \/ FreeStream(t)
           \/ CallCloseStream(t) \/ OpenInputStream(t) \/ OpenOutputStream(t)
  BY <1>3 DEF CloseInputStream, FreeStream, CallCloseStream, CallClose, OpenInputStream,
              CloseOutputStream, OpenOutputStream
<1>4. CASE Run(t) /\ ~CloseInputStream(t) /\ ~FreeStream(t) /\ ~CloseOutputStream(t)
  BY <1>1, <1>4, RunRefs
<1> QED BY <1>2, <1>3, <1>4 DEF Begin, Calls

(* OneOutput is inductive: a second output can be made only after the      *)
(* first is closed.                                                        *)
LEMMA OneOutputStep ==
  ASSUME "closeOut" \notin Ops, StreamsInv, OneOutput, [Next]_vars
  PROVE  OneOutput'
<1>1. CASE UNCHANGED vars
  BY <1>1 DEF vars, objects, OneOutput
<1>2. ASSUME NEW t \in Threads, Begin(t) \/ Run(t) PROVE OneOutput'
  <2>1. LockInv /\ RefInv /\ OnlyOwn(t) /\ pc \in [Threads -> Labels] /\ outLive \subseteq Outs
    BY <1>2, BeginControl, RunControl DEF StreamsInv, ControlStep, LockInv, TypeOK
  <2>2. CASE RunSteps(t)
    BY <2>1, <2>2 DEF RunSteps, objects, ClosingAt, OnlyOwn, OneOutput
  <2>3. CASE OpenOutputStream(t)
    BY <2>1, <2>3, ConstantsAssumption DEF OpenOutputStream, OneOutput
  <2>4. CASE OpenInputStream(t)
    BY <2>1, <2>4 DEF OpenInputStream, OneOutput
  <2>5. CASE CallCloseStream(t)
    BY <2>1, <2>5 DEF CallCloseStream, CallClose, Goto, OneOutput
  <2>6. ~CloseOutputStream(t)
    BY DEF CloseOutputStream, OneOutput
  <2>7. CASE CloseInputStream(t)
    BY <2>1, <2>7 DEF CloseInputStream, Goto, OneOutput
  <2>8. CASE FreeStream(t)
    BY <2>1, <2>8 DEF FreeStream, Goto, OneOutput
  <2>9. CASE Calls(t)
    BY <2>1, <2>2, <2>9, CallRefs
  <2>10. CASE Run(t) /\ ~CloseInputStream(t) /\ ~FreeStream(t)
    BY <2>1, <2>2, <2>6, <2>10, RunRefs
  <2> QED BY <1>2, <2>3, <2>4, <2>5, <2>7, <2>8, <2>9, <2>10 DEF Begin, Calls
<1> QED BY <1>1, <1>2 DEF Next

(* So every pointer of every thread to an output is one to that output.    *)
LEMMA ReachedOutput ==
  ASSUME StreamsInv, OneOutput, NEW t \in Threads
  PROVE  /\ spOut[t] \in {None, mOutput} /\ dOut[t] \in {None, mOutput}
         /\ self[t] \in Outs => self[t] = mOutput
         /\ pc[t] \in OutStandbyAt => arg[t] = mOutput
<1>1. /\ Uses(t) /\ PointsToLive(t) /\ EndsAlone(t) /\ ObjectsLive /\ Pointers(t)
      /\ mInputs \subseteq Ins /\ Outs \cap Ins = {} /\ inLive \subseteq Ins /\ None \notin Outs
  BY ConstantsAssumption DEF StreamsInv, RefInv, LockInv, TypeOK, ThreadOK
<1>2. spOut[t] \in {None, mOutput} /\ dOut[t] \in {None, mOutput}
  BY <1>1 DEF PointsToLive, OneOutput
<1>3. self[t] \in Outs => self[t] = mOutput
  BY <1>1 DEF PointsToLive, ObjectsLive
<1>4. ASSUME pc[t] \in OutStandbyAt PROVE arg[t] = mOutput
  <2>1. arg[t] \in Outs
    BY <1>1, <1>4 DEF Pointers
  <2>2. CASE Ending(t)
    BY <1>1, <2>1, <2>2 DEF EndsAlone, OneOutput
  <2>3. CASE ~Ending(t)
    BY <1>1, <1>3, <1>4, <2>1, <2>3 DEF Uses
  <2> QED BY <2>2, <2>3
<1> QED BY <1>2, <1>3, <1>4

(* write() has taken the wake lock and not yet taken its output out of     *)
(* standby.                                                                *)
WakingAt == {"w_in", "w_hw2", "w_open", "w_fin"}

(* write() has taken the wake lock and not yet taken its output out of     *)
(* standby, also while it puts an input in standby.                        *)
Wakes(t) == pc[t] \in WakingAt \/ (pc[t] \in InDoAt /\ dret[t] = "w_fin")

(* It comes there from where it takes the wake lock.                       *)
WakesFrom(t) ==
  Wakes(t)' => /\ self'[t] = self[t]
               /\ Wakes(t) \/ WriteExitStandby(t)

(* Write() is on its way out of standby only after it has taken the wake   *)
(* lock, on the output it is called for.                                   *)
LEMMA RunWakes ==
  ASSUME LockInv, NEW t \in Threads, Run(t)
  PROVE  WakesFrom(t)
<1> USE DEF LockInv, TypeOK, WakesFrom, Wakes, WakingAt, Goto, Return, Destroy, ThreadOK, Returns,
        OutStandbyAt, InDoAt, locks, objects
<1>1. CASE OutStandbyLock(t)
  BY <1>1, SMTT(30) DEF OutStandbyLock
<1>2. CASE OutStandbyDo(t)
  BY <1>2, SMTT(30) DEF OutStandbyDo
<1>3. CASE InStandbyLock(t)
  BY <1>3, SMTT(30) DEF InStandbyLock
<1>4. CASE InStandbyDo(t)
  BY <1>4, SMTT(30) DEF InStandbyDo
<1>5. CASE InStandbyEnd(t)
  BY <1>5, SMTT(30) DEF InStandbyEnd
<1>6. CASE InDoStandbyBegin(t)
  BY <1>6, SMTT(30) DEF InDoStandbyBegin
<1>7. CASE InDoStandbyOut(t)
  BY <1>7, SMTT(30) DEF InDoStandbyOut
<1>8. CASE InDoStandbyIn(t)
  BY <1>8, SMTT(30) DEF InDoStandbyIn
<1>9. CASE InDoStandbyEnd(t)
  BY <1>9, SMTT(30) DEF InDoStandbyEnd, HoldsInDo
<1>10. CASE WriteLock(t)
  BY <1>10, SMTT(30) DEF WriteLock
<1>11. CASE WriteExitStandby(t)
  BY <1>11, SMTT(30) DEF WriteExitStandby, SelectInput
<1>12. CASE WriteLockInput(t)
  BY <1>12, SMTT(30) DEF WriteLockInput
<1>13. CASE WriteCloseInput(t)
  BY <1>13, SMTT(30) DEF WriteCloseInput
<1>14. CASE WriteRetryInput(t)
  BY <1>14, SMTT(30) DEF WriteRetryInput, ReselectInput, SelectInput
<1>15. CASE WriteOpen(t)
  BY <1>15, WriteOpenPlaces, SMTT(30)
<1>16. CASE WriteOpened(t)
  BY <1>16, SMTT(30) DEF WriteOpened
<1>17. CASE WriteData(t)
  BY <1>17, SMTT(30) DEF WriteData
<1>18. CASE ReadLock(t)
  BY <1>18, SMTT(30) DEF ReadLock
<1>19. CASE ReadExitStandby(t)
  BY <1>19, SMTT(30) DEF ReadExitStandby, SelectOutput
<1>20. CASE ReadLockOutput(t)
  BY <1>20, SMTT(30) DEF ReadLockOutput
<1>21. CASE ReadRelock(t)
  BY <1>21, SMTT(30) DEF ReadRelock
<1>22. CASE ReadKeepOutput(t)
  BY <1>22, SMTT(30) DEF ReadKeepOutput
<1>23. CASE ReadRetryOutput(t)
  BY <1>23, SMTT(30) DEF ReadRetryOutput, SelectOutput
<1>24. CASE ReadOpen(t)
  BY <1>24, SMTT(30) DEF ReadOpen
<1>25. CASE ReadData(t)
  BY <1>25, SMTT(30) DEF ReadData
<1>26. CASE OutParametersLock(t)
  BY <1>26, SMTT(30) DEF OutParametersLock
<1>27. CASE OutSetRouting(t)
  BY <1>27, SMTT(30) DEF OutSetRouting
<1>28. CASE InParametersLock(t)
  BY <1>28, SMTT(30) DEF InParametersLock
<1>29. CASE InSetRouting(t)
  BY <1>29, SMTT(30) DEF InSetRouting
<1>30. CASE InSetSource(t)
  BY <1>30, SMTT(30) DEF InSetSource
<1>31. CASE AddEffect(t)
  BY <1>31, SMTT(30) DEF AddEffect
<1>32. CASE RemoveEffect(t)
  BY <1>32, SMTT(30) DEF RemoveEffect
<1>33. CASE UnsetEcho(t)
  BY <1>33, SMTT(30) DEF UnsetEcho
<1>34. CASE ModeBegin(t)
  BY <1>34, SMTT(30) DEF ModeBegin, SelectActive, SelectInput
<1>35. CASE ModeLockOutput(t)
  BY <1>35, SMTT(30) DEF ModeLockOutput
<1>36. CASE ModeKeepOutput(t)
  BY <1>36, SMTT(30) DEF ModeKeepOutput, SelectInput
<1>37. CASE ModeRetryOutput(t)
  BY <1>37, SMTT(30) DEF ModeRetryOutput, SelectActive, SelectInput
<1>38. CASE ModeLockInput(t)
  BY <1>38, SMTT(30) DEF ModeLockInput
<1>39. CASE ModeKeepInput(t)
  BY <1>39, SMTT(30) DEF ModeKeepInput
<1>40. CASE ModeRetryInput(t)
  BY <1>40, SMTT(30) DEF ModeRetryInput, ReselectInput, SelectInput
<1>41. CASE ModeEnterCall(t)
  BY <1>41, SMTT(30) DEF ModeEnterCall, ForceInputStandby
<1>42. CASE ModeOpenCall(t)
  BY <1>42, SMTT(30) DEF ModeOpenCall
<1>43. CASE ModeLeaveCall(t)
  BY <1>43, SMTT(30) DEF ModeLeaveCall, ForceInputStandby
<1>44. CASE ModeCloseCall(t)
  BY <1>44, SMTT(30) DEF ModeCloseCall
<1>45. CASE ModeOther(t)
  BY <1>45, SMTT(30) DEF ModeOther
<1>46. CASE ModeEnd(t)
  BY <1>46, SMTT(30) DEF ModeEnd
<1>47. CASE SetMicMute(t)
  BY <1>47, SMTT(30) DEF SetMicMute
<1>48. CASE CloseOutputClear(t)
  BY <1>48, SMTT(30) DEF CloseOutputClear
<1>49. CASE DropPointers(t)
  BY <1>49, SMTT(30) DEF DropPointers
<1>50. CASE CloseOutputStream(t)
  BY <1>50, SMTT(30) DEF CloseOutputStream
<1>51. CASE CloseInputStream(t)
  BY <1>51, SMTT(30) DEF CloseInputStream
<1>52. CASE FreeStream(t)
  BY <1>52, SMTT(30) DEF FreeStream
<1> QED
  BY <1>1, <1>2, <1>3, <1>4, <1>5, <1>6, <1>7, <1>8, <1>9, <1>10, <1>11, <1>12, <1>13, <1>14,
      <1>15, <1>16, <1>17, <1>18, <1>19, <1>20, <1>21, <1>22, <1>23, <1>24, <1>25, <1>26,
      <1>27, <1>28, <1>29, <1>30, <1>31, <1>32, <1>33, <1>34, <1>35, <1>36, <1>37, <1>38,
      <1>39, <1>40, <1>41, <1>42, <1>43, <1>44, <1>45, <1>46, <1>47, <1>48, <1>49, <1>50,
      <1>51, <1>52 DEF Run

(* No call begins there.                                                   *)
LEMMA BeginWakes ==
  ASSUME LockInv, NEW t \in Threads, Begin(t)
  PROVE  WakesFrom(t)
<1> USE DEF LockInv, TypeOK, WakesFrom, Wakes, WakingAt, Goto, Idle, Call, CallFrame,
    CallClose, InDoAt
<1>1. CASE Calls(t)
  BY <1>1 DEF Calls, CallWrite, CallRead, CallStandby, CallSetParameters,
     CallAddAudioEffect, CallRemoveAudioEffect, CallSetMode, CallSetMicMute
<1>2. CASE CallCloseStream(t)
  BY <1>2 DEF CallCloseStream
<1>3. CASE OpenOutputStream(t) \/ OpenInputStream(t)
  BY <1>3 DEF OpenOutputStream, OpenInputStream
<1> QED BY <1>1, <1>2, <1>3 DEF Begin, Calls

(* A step that neither releases the wake lock nor takes an output out of   *)
(* standby, but for the end of write().                                    *)
StaysAwake(t) ==
  /\ hw.wake => hw'.wake
  /\ \A o \in Outs : out'[o].standby \/ ~out[o].standby \/ (self[t] = o /\ pc[t] = "w_fin")

(* A step that puts the one output in standby, with its lock.              *)
FallsAsleep(t) ==
  /\ mOutput \in Outs /\ outLock[mOutput] = t /\ out'[mOutput].standby /\ mOutput' = mOutput
  /\ ~Wakes(t)'

(* An action that leaves the outputs alone and does not release the wake   *)
(* lock.                                                                   *)
LEMMA QuietMove ==
  ASSUME LockInv, NEW t, out' = out, hw.wake => hw'.wake
  PROVE  StaysAwake(t)
BY DEF StaysAwake

(* DoStandby_l of the output, which releases the wake lock, is such a      *)
(* step.                                                                   *)
LEMMA OutStandbyWake ==
  ASSUME LockInv, NEW t \in Threads, NEW o \in Outs, NEW h \in HwFields,
         hw' = OutStandbyHw(h, out[o]), out' = [out EXCEPT ![o] = OutStandby(@)],
         o = mOutput, outLock[o] = t, mOutput' = mOutput, ~Wakes(t)'
  PROVE  FallsAsleep(t)
<1>1. out'[o].standby
  BY OutPutInStandby DEF LockInv, TypeOK
<1> QED BY <1>1 DEF FallsAsleep

(* Every step keeps the wake lock and takes no output out of standby, but  *)
(* at the end of write(), or else puts the one output in standby.          *)
LEMMA WakeChanges ==
  ASSUME StreamsInv, OneOutput, NEW t \in Threads, Begin(t) \/ Run(t), ~OpenOutputStream(t)
  PROVE  StaysAwake(t) \/ FallsAsleep(t)
<1>a. /\ LockInv /\ ThreadOK(t) /\ pc \in [Threads -> Labels] /\ dret \in [Threads -> Labels]
      /\ hw \in HwFields /\ out \in [Outs -> OutFields] /\ in \in [Ins -> InFields]
      /\ mOutput \in Outs \cup {None} /\ None \notin Outs \cup Ins /\ Outs \cap Ins = {}
  BY ConstantsAssumption DEF StreamsInv, LockInv, TypeOK
<1>b. /\ spOut[t] \in {None, mOutput} /\ dOut[t] \in {None, mOutput}
      /\ self[t] \in Outs => self[t] = mOutput
      /\ pc[t] \in OutStandbyAt => arg[t] = mOutput
  BY ReachedOutput
<1>1. CASE ControlActions(t)
  BY <1>a, <1>1, ControlUntouched, QuietMove
<1>2. CASE \/ InDoStandbyBegin(t) \/ WriteCloseInput(t)
  <2>1. in[arg[t]] \in InFields \/ ~InDoStandbyBegin(t)
    BY <1>a DEF InDoStandbyBegin, ThreadOK, Pointers, InStandbyAt, InDoAt
  <2>2. in[spIn[t]] \in InFields \/ ~WriteCloseInput(t)
    BY <1>a DEF WriteCloseInput, ThreadOK, Pointers
  <2>3. \A s \in InFields : InCloseHw(hw, s).wake = hw.wake
    BY <1>a DEF InCloseHw, closeMixer_l, HwFields
  <2> QED BY <1>a, <1>2, <2>1, <2>2, <2>3, QuietMove DEF InDoStandbyBegin, WriteCloseInput
<1>3. CASE InDoStandbyEnd(t)
  <2>1. ReleaseEchoHw(hw, in[arg[t]].echo).wake = hw.wake /\ ReleaseEchoHw(hw, in[arg[t]].echo) \in HwFields
    BY <1>a DEF ReleaseEchoHw, HwFields
  <2>2. \A h \in HwFields : InCloseHw(h, in[arg[t]]).wake = h.wake
    BY <1>a DEF InCloseHw, closeMixer_l, HwFields
  <2>3. \A o \in Outs : Devices(out'[o]) = Devices(out[o])
    BY <1>a, <1>3, EchoOperations DEF InDoStandbyEnd
  <2>4. hw'.wake = hw.wake
    BY <1>3, <2>1, <2>2 DEF InDoStandbyEnd
  <2> QED BY <2>3, <2>4 DEF StaysAwake, Devices
<1>4. CASE \/ WriteExitStandby(t) \/ InSetSource(t) \/ ModeOpenCall(t) \/ ModeCloseCall(t)
           \/ ModeOther(t) \/ SetMicMute(t)
  <2>1. \A h \in HwFields : /\ \A g \in openMixer_l(h) : g \in HwFields /\ g.wake = h.wake
                            /\ \A g \in openPcmOut_l(h) : g \in HwFields /\ g.wake = h.wake
                            /\ closeMixer_l(h).wake = h.wake
    BY PcmCounts, MixerCounts
  <2> QED BY <1>a, <1>4, <2>1, QuietMove, SMTT(30)
        DEF WriteExitStandby, InSetSource, ModeOpenCall, ModeCloseCall, ModeOther, SetMicMute,
            HwFields
<1>5. CASE \/ CallAddAudioEffect(t) \/ AddEffect(t) \/ RemoveEffect(t) \/ UnsetEcho(t)
           \/ OpenInputStream(t)
  BY <1>a, <1>5, QuietMove
     DEF CallAddAudioEffect, AddEffect, RemoveEffect, UnsetEcho, OpenInputStream
<1>6. CASE WriteOpen(t)
  <2>1. hw'.wake = hw.wake /\ \A x \in Outs : out'[x].standby = out[x].standby
    BY <1>a, <1>6, WriteOpenEffect
  <2> QED BY <2>1 DEF StaysAwake
<1>7. CASE OutStandbyDo(t)
  <2>1. /\ arg[t] \in Outs /\ outLock[arg[t]] = t /\ arg[t] = mOutput
        /\ ret[t] \in {"idle", "free", "fx_add", "drop", "co_clear"}
    BY <1>a, <1>b, <1>7 DEF OutStandbyDo, ThreadOK, Pointers, Holds, Returns, OutStandbyAt
  <2>2. ~Wakes(t)' /\ mOutput' = mOutput
    BY <1>a, <1>7, <2>1 DEF OutStandbyDo, Return, Goto, Wakes, WakingAt, InDoAt, objects
  <2>3. hw' = OutStandbyHw(hw, out[arg[t]]) /\ out' = [out EXCEPT ![arg[t]] = OutStandby(@)]
    BY <1>7 DEF OutStandbyDo
  <2> QED BY <1>a, <2>1, <2>2, <2>3, OutStandbyWake
<1>8. CASE OutSetRouting(t)
  <2>1. self[t] \in Outs /\ outLock[self[t]] = t /\ self[t] = mOutput
    BY <1>a, <1>b, <1>8 DEF OutSetRouting, ThreadOK, Pointers, Holds
  <2>2. ~Wakes(t)' /\ mOutput' = mOutput
    BY <1>a, <1>8 DEF OutSetRouting, Return, Goto, Wakes, WakingAt, InDoAt, objects
  <2>3. \/ hw' = hw /\ out' = out
        \/ hw' = OutStandbyHw(hw, out[self[t]]) /\ out' = [out EXCEPT ![self[t]] = OutStandby(@)]
    BY <1>8 DEF OutSetRouting
  <2>4. CASE hw' = hw /\ out' = out
    BY <1>a, <2>4, QuietMove
  <2>5. CASE hw' = OutStandbyHw(hw, out[self[t]]) /\ out' = [out EXCEPT ![self[t]] = OutStandby(@)]
    BY <1>a, <2>1, <2>2, <2>5, OutStandbyWake
  <2> QED BY <2>3, <2>4, <2>5
<1>9. CASE ModeEnterCall(t) \/ ModeLeaveCall(t)
  <2>1. pc[t] = "m_apply" /\ (spOut[t] # None => outLock[spOut[t]] = t /\ spOut[t] = mOutput /\ spOut[t] \in Outs)
    BY <1>a, <1>b, <1>9 DEF ModeEnterCall, ModeLeaveCall, ThreadOK, Holds
  <2>2. ~Wakes(t)' /\ mOutput' = mOutput
    BY <1>a, <1>9 DEF ModeEnterCall, ModeLeaveCall, ForceInputStandby, Goto, Wakes, WakingAt,
        InDoAt, objects
  <2>3. \E h \in HwFields : h.wake = hw.wake /\ ForceOutputStandby(t, h)
    <3>1. [hw EXCEPT !.mode = "IN_CALL"] \in HwFields /\ [hw EXCEPT !.mode = "IN_CALL"].wake = hw.wake
      BY <1>a DEF HwFields, Modes
    <3>2. [hw EXCEPT !.mode = "NORMAL"] \in HwFields /\ [hw EXCEPT !.mode = "NORMAL"].wake = hw.wake
      BY <1>a DEF HwFields, Modes
    <3>3. LET g == closePcmOut_l(closeMixer_l([hw EXCEPT !.mode = "NORMAL"]))
          IN  g \in HwFields /\ g.wake = hw.wake
      <4> DEFINE h0 == [hw EXCEPT !.mode = "NORMAL"]
                 h1 == closeMixer_l(h0)
      <4> HIDE DEF h0, h1
      <4>1. h0 \in HwFields /\ h0.wake = hw.wake
        BY <3>2 DEF h0
      <4>2. h1 \in HwFields /\ h1.wake = h0.wake
        BY <4>1, MixerCounts DEF h1
      <4>3. closePcmOut_l(h1) \in HwFields /\ closePcmOut_l(h1).wake = h1.wake
        BY <4>2, PcmCounts
      <4> QED BY <4>1, <4>2, <4>3 DEF h0, h1
    <3> QED BY <1>9, <3>1, <3>3 DEF ModeEnterCall, ModeLeaveCall
  <2>4. PICK h \in HwFields : h.wake = hw.wake /\ ForceOutputStandby(t, h)
    BY <2>3
  <2>5. CASE spOut[t] = None
    BY <1>a, <2>4, <2>5, QuietMove DEF ForceOutputStandby
  <2>6. CASE spOut[t] # None
    <3>1. hw' = OutStandbyHw(h, out[spOut[t]]) /\ out' = [out EXCEPT ![spOut[t]] = OutStandby(@)]
      BY <2>4, <2>6 DEF ForceOutputStandby
    <3> QED BY <1>a, <2>1, <2>2, <2>6, <3>1, OutStandbyWake
  <2> QED BY <2>5, <2>6
<1>10. CASE ReadOpen(t)
  <2>1. /\ pc[t] = "r_open" /\ spOut[t] \in Outs \cup {None}
        /\ (spOut[t] # None => outLock[spOut[t]] = t /\ spOut[t] = mOutput /\ spOut[t] \in Outs)
    BY <1>a, <1>b, <1>10 DEF ReadOpen, ThreadOK, Holds
  <2>2. ~Wakes(t)' /\ mOutput' = mOutput
    BY <1>a, <1>10 DEF ReadOpen, Goto, Wakes, WakingAt, InDoAt, objects
  <2>3. CASE spOut[t] = None \/ (spOut[t] # None /\ out[spOut[t]].standby)
    <3>1. (\A x \in Outs : Devices(out'[x]) = Devices(out[x])) /\ hw'.wake = hw.wake
      BY <1>a, <1>10, <2>3, ReadOpenEffect
    <3> QED BY <3>1 DEF StaysAwake, Devices
  <2>4. CASE spOut[t] # None /\ ~out[spOut[t]].standby
    <3>1. /\ out'[spOut[t]].standby <=> ~out'[spOut[t]].pcm
          /\ hw'.wake = (out'[spOut[t]].pcm /\ hw.wake)
          /\ OnlyOut(spOut[t])
      BY <1>a, <1>10, <2>4, ReadOpenEffect
    <3>2. CASE out'[spOut[t]].standby
      BY <2>1, <2>2, <2>4, <3>2 DEF FallsAsleep
    <3>3. CASE ~out'[spOut[t]].standby
      <4>1. hw.wake => hw'.wake
        BY <3>1, <3>3, Zenon
      <4>2. \A x \in Outs : out'[x].standby \/ ~out[x].standby
        BY <2>4, <3>1 DEF OnlyOut, Devices
      <4> QED BY <4>1, <4>2 DEF StaysAwake
    <3> QED BY <3>2, <3>3
  <2> QED BY <2>3, <2>4
<1>11. CASE WriteOpened(t)
  <2>1. self[t] \in Outs /\ outLock[self[t]] = t /\ self[t] = mOutput /\ pc[t] = "w_fin"
    BY <1>a, <1>b, <1>11 DEF WriteOpened, ThreadOK, Pointers, Holds, WriteAt
  <2>2. ~Wakes(t)' /\ mOutput' = mOutput
    BY <1>a, <1>11 DEF WriteOpened, Destroy, Goto, Wakes, WakingAt, InDoAt, objects
  <2>3. out' = [out EXCEPT ![self[t]].standby = ~out[self[t]].pcm] /\ out[self[t]] \in OutFields
    BY <1>a, <1>11, <2>1 DEF WriteOpened
  <2>4. /\ out'[self[t]].standby = ~out[self[t]].pcm
        /\ \A x \in Outs \ {self[t]} : out'[x] = out[x]
    BY <1>a, <2>1, <2>3 DEF OutFields
  <2>5. CASE out[self[t]].pcm
    BY <1>11, <2>1, <2>4, <2>5 DEF WriteOpened, StaysAwake
  <2>6. CASE ~out[self[t]].pcm
    BY <2>1, <2>2, <2>4, <2>6 DEF FallsAsleep
  <2> QED BY <2>5, <2>6
<1> QED
  BY <1>1, <1>2, <1>3, <1>4, <1>5, <1>6, <1>7, <1>8, <1>9, <1>10, <1>11 DEF Begin, Run,
      ControlActions

(* The wake lock is held while the output plays and while write() is       *)
(* about to take it out of standby.                                        *)
AwakeInv ==
  \A o \in Outs :
    mOutput = o /\ (~out[o].standby \/ \E t \in Threads : self[t] = o /\ Wakes(t)) => hw.wake

(* AwakeInv is inductive: doStandby_l runs under the output's lock, which  *)
(* write() keeps from before it takes the wake lock.                       *)
LEMMA AwakeStep ==
  ASSUME StreamsInv, OneOutput, AwakeInv, LockInv', [Next]_vars, "closeOut" \notin Ops
  PROVE  AwakeInv'
<1>1. CASE UNCHANGED vars
  BY <1>1 DEF vars, objects, AwakeInv, Wakes
<1>2. ASSUME NEW t \in Threads, Begin(t) \/ Run(t) PROVE AwakeInv'
  <2>1. LockInv /\ RefInv /\ OnlyOwn(t) /\ WakesFrom(t)
    BY <1>2, BeginControl, RunControl, BeginWakes, RunWakes DEF StreamsInv, ControlStep
  <2>2. ASSUME NEW u \in Threads, Wakes(u) PROVE outLock[self[u]] = u
    BY <2>1, <2>2 DEF LockInv, ThreadOK, Holds, HoldsInDo, Wakes, WakingAt, WriteAt
  <2>3. CASE OpenOutputStream(t)
    <3>1. PICK o \in Outs \ outLive : mOutput' = o /\ out' = [out EXCEPT ![o] = NewOut]
      BY <2>3 DEF OpenOutputStream
    <3>2. out'[o].standby
      BY <2>1, <3>1 DEF LockInv, TypeOK, NewOut
    <3>3. \A u \in Threads : self'[u] # o
      BY <2>1, <2>3, <3>1, ConstantsAssumption
         DEF OpenOutputStream, RefInv, PointsToLive, ObjectsLive, LockInv, TypeOK
    <3> QED BY <3>1, <3>2, <3>3 DEF AwakeInv
  <2>4. CASE ~OpenOutputStream(t)
    <3> SUFFICES ASSUME NEW o \in Outs, mOutput' = o,
                        ~out'[o].standby \/ \E u \in Threads : self'[u] = o /\ Wakes(u)'
                 PROVE  hw'.wake
      BY DEF AwakeInv
    <3>1. mOutput' \in {mOutput, None}
      BY <1>2, <2>1, <2>4, ObjectsMove
    <3>2. mOutput = o
      BY <3>1, ConstantsAssumption
    <3>3. CASE WriteExitStandby(t)
      BY <2>1, <3>3 DEF WriteExitStandby, LockInv, TypeOK, HwFields
    <3>4. CASE ~WriteExitStandby(t) /\ StaysAwake(t)
      <4>1. \A u \in Threads : self'[u] = o /\ Wakes(u)' => self[u] = o /\ Wakes(u)
        BY <2>1, <3>4 DEF OnlyOwn, WakesFrom, Wakes
      <4>2. CASE \E u \in Threads : self'[u] = o /\ Wakes(u)'
        BY <3>2, <3>4, <4>1, <4>2 DEF AwakeInv, StaysAwake
      <4>3. CASE ~out'[o].standby
        BY <3>2, <3>4, <4>3 DEF AwakeInv, StaysAwake, Wakes, WakingAt
      <4> QED BY <4>2, <4>3
    <3>5. CASE ~WriteExitStandby(t) /\ FallsAsleep(t)
      <4>1. out'[o].standby /\ outLock[o] = t /\ ~Wakes(t)'
        BY <3>2, <3>5 DEF FallsAsleep
      <4>2. PICK u \in Threads : self'[u] = o /\ Wakes(u)'
        BY <4>1
      <4>3. u # t
        BY <4>1, <4>2
      <4>4. self[u] = o /\ Wakes(u)
        BY <2>1, <4>2, <4>3 DEF OnlyOwn, Wakes
      <4> QED BY <2>2, <4>1, <4>3, <4>4
    <3> QED BY <1>2, <2>4, <3>3, <3>4, <3>5, WakeChanges
  <2> QED BY <2>3, <2>4
<1> QED BY <1>1, <1>2 DEF Next

(* While the output plays the wake lock is held, as long as no output is   *)
(* closed. With closeOutputStream the old output's destructor may release  *)
(* the wake lock after a new output has begun to play.                     *)
THEOREM AlwaysAwake ==
  "closeOut" \notin Ops => (Spec => []AwakeWhilePlaying)
<1> SUFFICES ASSUME "closeOut" \notin Ops PROVE Spec => []AwakeWhilePlaying
  OBVIOUS
<1>1. Init => OneOutput /\ AwakeInv
  BY ConstantsAssumption DEF Init, OneOutput, AwakeInv
<1>2. StreamsInv /\ StreamsInv' /\ OneOutput /\ AwakeInv /\ [Next]_vars => OneOutput' /\ AwakeInv'
  BY OneOutputStep, AwakeStep DEF StreamsInv
<1>3. StreamsInv /\ AwakeInv => AwakeWhilePlaying
  BY DEF StreamsInv, LockInv, TypeOK, AwakeInv, AwakeWhilePlaying
<1> QED BY <1>1, <1>2, <1>3, StreamsKept, PTL DEF Spec

-----------------------------------------------------------------------------
(* The echo references change under the locks of the streams.              *)

(* ReleaseEchoReference takes the reference from the hardware object and   *)
(* from the open output that has it.                                       *)
LEMMA EchoReleased ==
  ASSUME NEW h \in HwFields, NEW f \in [Outs -> OutFields], NEW e, mOutput \in Outs \cup {None}
  PROVE  /\ ReleaseEchoHw(h, e).echo = IF e = h.echo THEN None ELSE h.echo
         /\ \A o \in Outs : ReleaseEchoOut(f, h, e)[o].echo =
                 IF e # None /\ e = h.echo /\ o = mOutput /\ f[o].echo = e THEN None ELSE f[o].echo
<1>1. ReleaseEchoHw(h, e).echo = IF e = h.echo THEN None ELSE h.echo
  BY DEF ReleaseEchoHw, HwFields
<1>2. CASE e # None /\ e = h.echo /\ mOutput # None /\ f[mOutput].echo = e
  <2>1. ReleaseEchoOut(f, h, e) = [f EXCEPT ![mOutput].echo = None] /\ mOutput \in Outs
        /\ f[mOutput] \in OutFields
    BY <1>2 DEF ReleaseEchoOut
  <2> QED BY <1>1, <1>2, <2>1 DEF OutFields
<1>3. CASE ~(e # None /\ e = h.echo /\ mOutput # None /\ f[mOutput].echo = e)
  <2>1. ReleaseEchoOut(f, h, e) = f
    BY <1>3 DEF ReleaseEchoOut
  <2> QED BY <1>1, <1>3, <2>1, ConstantsAssumption
<1> QED BY <1>2, <1>3

(* GetEchoReference gives the output that is open the reference it         *)
(* returns, provided what the output had was the old one.                  *)
LEMMA EchoGot ==
  ASSUME NEW h \in HwFields, NEW f \in [Outs -> OutFields], mOutput \in Outs \cup {None},
         NEW r \in getEchoReference(h, f)
  PROVE  /\ r.hw.echo = r.ref
         /\ \A o \in Outs \ {mOutput} : r.out[o].echo = f[o].echo
         /\ mOutput # None /\ f[mOutput].echo \in {None, h.echo} => r.out[mOutput].echo = r.ref
<1> DEFINE h1 == ReleaseEchoHw(h, h.echo)
           f1 == ReleaseEchoOut(f, h, h.echo)
<1>1. /\ h1 \in HwFields /\ h1.echo = None /\ f1 \in [Outs -> OutFields]
      /\ \A o \in Outs \ {mOutput} : f1[o].echo = f[o].echo
      /\ mOutput # None /\ f[mOutput].echo \in {None, h.echo} => f1[mOutput].echo = None
  BY EchoReleased, EchoOperations
<1>2. \/ r = [hw |-> h1, ref |-> None, out |-> f1]
      \/ mOutput # None /\ \E e \in UnusedEchoRefs :
           r = [hw |-> [h1 EXCEPT !.echo = e], ref |-> e,
                out |-> IF f1[mOutput].echo = None THEN [f1 EXCEPT ![mOutput].echo = e] ELSE f1]
  BY DEF getEchoReference
<1> HIDE DEF h1, f1
<1>3. CASE r = [hw |-> h1, ref |-> None, out |-> f1]
  BY <1>1, <1>3
<1>4. ASSUME mOutput # None, NEW e \in UnusedEchoRefs,
             r = [hw |-> [h1 EXCEPT !.echo = e], ref |-> e,
                  out |-> IF f1[mOutput].echo = None THEN [f1 EXCEPT ![mOutput].echo = e] ELSE f1]
      PROVE  /\ r.hw.echo = r.ref
             /\ \A o \in Outs \ {mOutput} : r.out[o].echo = f[o].echo
             /\ mOutput # None /\ f[mOutput].echo \in {None, h.echo} => r.out[mOutput].echo = r.ref
  <2>1. r.hw.echo = e /\ r.ref = e
    BY <1>1, <1>4 DEF HwFields
  <2>2. CASE f1[mOutput].echo = None
    <3>1. r.out = [f1 EXCEPT ![mOutput].echo = e] /\ mOutput \in Outs /\ f1[mOutput] \in OutFields
      BY <1>1, <1>4, <2>2
    <3>2. r.out[mOutput].echo = e /\ \A o \in Outs \ {mOutput} : r.out[o] = f1[o]
      BY <1>1, <3>1 DEF OutFields
    <3> QED BY <1>1, <2>1, <3>2
  <2>3. CASE f1[mOutput].echo # None
    <3>1. r.out = f1
      BY <1>4, <2>3
    <3> QED BY <1>1, <2>1, <2>3, <3>1
  <2> QED BY <2>2, <2>3
<1> QED BY <1>2, <1>3, <1>4

(* The step of read() that opens the input leaves all references alone or  *)
(* obtains one for the input and the output.                               *)
LEMMA ReadOpenEchoes ==
  ASSUME LockInv, NEW t \in Threads, ReadOpen(t)
  PROVE  LET i == self[t] IN
         /\ i \in Ins
         /\ \A x \in Ins \ {i} : in'[x] = in[x]
         /\ \/ /\ hw'.echo = hw.echo /\ in'[i].echo = in[i].echo
               /\ \A x \in Outs : out'[x].echo = out[x].echo
            \/ /\ spOut[t] # None /\ in[i].echo = None
               /\ in'[i].echo = hw'.echo
               /\ \A x \in Outs \ {mOutput} : out'[x].echo = out[x].echo
               /\ mOutput # None /\ out[mOutput].echo \in {None, hw.echo} =>
                    out'[mOutput].echo = hw'.echo
<1>1. /\ self[t] \in Ins /\ spOut[t] \in Outs \cup {None} /\ mOutput \in Outs \cup {None}
      /\ in \in [Ins -> InFields] /\ in[self[t]] \in InFields
  BY DEF LockInv, TypeOK, ThreadOK, Pointers, ReadOpen, ReadAt
<1>2. PICK a \in OutputReopened(spOut[t]) :
        \E b \in EchoObtained(a, spOut[t], self[t]) : \E r \in InOpen(b.hw) :
          /\ hw' = r.hw
          /\ out' = b.out
          /\ in' = [in EXCEPT ![self[t]] = [@ EXCEPT !.pcm = r.pcm, !.mixer = r.mixer,
                                               !.echo = b.ref, !.standby = ~r.pcm]]
  BY Zenon DEF ReadOpen
<1>3. PICK b \in EchoObtained(a, spOut[t], self[t]) : \E r \in InOpen(b.hw) :
          /\ hw' = r.hw
          /\ out' = b.out
          /\ in' = [in EXCEPT ![self[t]] = [@ EXCEPT !.pcm = r.pcm, !.mixer = r.mixer,
                                               !.echo = b.ref, !.standby = ~r.pcm]]
  BY <1>2, Zenon
<1>4. PICK r \in InOpen(b.hw) :
          /\ hw' = r.hw
          /\ out' = b.out
          /\ in' = [in EXCEPT ![self[t]] = [@ EXCEPT !.pcm = r.pcm, !.mixer = r.mixer,
                                               !.echo = b.ref, !.standby = ~r.pcm]]
  BY <1>3, Zenon
<1>5. /\ a.hw \in HwFields /\ a.out \in [Outs -> OutFields]
      /\ \A x \in Outs : a.out[x].echo = out[x].echo
      /\ CallFields(a.hw) = CallFields(hw)
  BY <1>1, OutputReopenedEffect
<1>6. a.hw.echo = hw.echo
  BY <1>5 DEF CallFields
<1>7. b.hw \in HwFields
  BY <1>1, <1>5, EchoObtainedType
<1>8. hw'.echo = b.hw.echo
  <2>1. CallFields(r.hw) = CallFields(b.hw)
    BY <1>7, InOpenCounts
  <2> QED BY <1>4, <2>1 DEF CallFields
<1>9. /\ in'[self[t]].echo = b.ref
      /\ \A x \in Ins \ {self[t]} : in'[x] = in[x]
  BY <1>1, <1>4 DEF InFields
<1>10. CASE b = [hw |-> a.hw, out |-> a.out, ref |-> in[self[t]].echo]
  BY <1>1, <1>4, <1>5, <1>6, <1>8, <1>9, <1>10
<1>11. CASE spOut[t] # None /\ in[self[t]].echo = None /\ b \in getEchoReference(a.hw, a.out)
  <2>1. /\ b.hw.echo = b.ref
        /\ \A o \in Outs \ {mOutput} : b.out[o].echo = a.out[o].echo
        /\ mOutput # None /\ a.out[mOutput].echo \in {None, a.hw.echo} => b.out[mOutput].echo = b.ref
    BY <1>1, <1>5, <1>11, EchoGot
  <2> QED BY <1>1, <1>4, <1>5, <1>6, <1>8, <1>9, <1>11, <2>1
<1> QED BY <1>10, <1>11 DEF EchoObtained

(* doStandby_l's release.                                                  *)
LEMMA StandbyEndEchoes ==
  ASSUME LockInv, NEW t \in Threads, InDoStandbyEnd(t)
  PROVE  LET i == arg[t]
             e == in[i].echo IN
         /\ i \in Ins
         /\ \A x \in Ins \ {i} : in'[x] = in[x]
         /\ in'[i].echo = None
         /\ hw'.echo = IF e = hw.echo THEN None ELSE hw.echo
         /\ \A o \in Outs : out'[o].echo =
              IF e # None /\ e = hw.echo /\ o = mOutput /\ out[o].echo = e THEN None ELSE out[o].echo
<1>1. /\ arg[t] \in Ins /\ mOutput \in Outs \cup {None} /\ hw \in HwFields
      /\ in \in [Ins -> InFields] /\ in[arg[t]] \in InFields /\ out \in [Outs -> OutFields]
  BY DEF LockInv, TypeOK, ThreadOK, Pointers, InDoStandbyEnd, InStandbyAt, InDoAt
<1> DEFINE e == in[arg[t]].echo
<1>2. /\ ReleaseEchoHw(hw, e) \in HwFields
      /\ ReleaseEchoHw(hw, e).echo = IF e = hw.echo THEN None ELSE hw.echo
      /\ \A o \in Outs : ReleaseEchoOut(out, hw, e)[o].echo =
              IF e # None /\ e = hw.echo /\ o = mOutput /\ out[o].echo = e THEN None ELSE out[o].echo
  BY <1>1, EchoReleased, EchoOperations
<1>3. \A h \in HwFields : InCloseHw(h, in[arg[t]]).echo = h.echo
  BY <1>1 DEF InCloseHw, closeMixer_l, HwFields
<1>4. hw'.echo = ReleaseEchoHw(hw, e).echo
  BY <1>2, <1>3 DEF InDoStandbyEnd
<1>5. \/ in' = [in EXCEPT ![arg[t]].echo = None]
      \/ in' = [in EXCEPT ![arg[t]] = [InClose(@) EXCEPT !.standby = TRUE, !.echo = None]]
  BY DEF InDoStandbyEnd
<1>6. in'[arg[t]].echo = None /\ \A x \in Ins \ {arg[t]} : in'[x] = in[x]
  <2>1. CASE in' = [in EXCEPT ![arg[t]].echo = None]
    BY <1>1, <2>1 DEF InFields
  <2>2. CASE in' = [in EXCEPT ![arg[t]] = [InClose(@) EXCEPT !.standby = TRUE, !.echo = None]]
    BY <1>1, <2>2 DEF InClose, InFields
  <2> QED BY <1>5, <2>1, <2>2
<1>7. out' = ReleaseEchoOut(out, hw, e)
  BY DEF InDoStandbyEnd
<1> QED BY <1>1, <1>2, <1>4, <1>6, <1>7

(* A step that obtains no reference and releases none. A stream just made  *)
(* has none; doStandby_l takes the input's own if no output is open.       *)
EchoesStay(t) ==
  /\ hw'.echo = hw.echo
  /\ \A x \in Outs : \/ out'[x].echo = out[x].echo
                     \/ x \notin outLive /\ out'[x].echo = None
  /\ \A x \in Ins : \/ in'[x].echo = in[x].echo
                    \/ x \notin inLive /\ in'[x].echo = None
                    \/ in'[x].echo = None /\ inLock[x] = t /\ pc'[t] # pc[t]

(* No other action gives a stream a reference; doStandby_l takes the       *)
(* input's own.                                                            *)
LEMMA OthersEchoes ==
  ASSUME LockInv, NEW t \in Threads, Begin(t) \/ Run(t), ~InDoStandbyEnd(t), ~ReadOpen(t)
  PROVE  EchoesStay(t)
<1>a. /\ ThreadOK(t) /\ pc \in [Threads -> Labels] /\ dret \in [Threads -> Labels]
      /\ hw \in HwFields /\ out \in [Outs -> OutFields] /\ in \in [Ins -> InFields]
      /\ mOutput \in Outs \cup {None} /\ None \notin Outs \cup Ins /\ Outs \cap Ins = {}
  BY ConstantsAssumption DEF LockInv, TypeOK
<1>b. \A h \in HwFields : /\ \A g \in openMixer_l(h) : g \in HwFields /\ g.echo = h.echo
                          /\ \A g \in openPcmOut_l(h) : g \in HwFields /\ g.echo = h.echo
                          /\ closeMixer_l(h) \in HwFields /\ closeMixer_l(h).echo = h.echo
                          /\ closePcmOut_l(h) \in HwFields /\ closePcmOut_l(h).echo = h.echo
  BY PcmCounts, MixerCounts DEF CallFields
<1>1. CASE ControlActions(t)
  BY <1>a, <1>1, ControlUntouched DEF EchoesStay
<1>2. CASE InDoStandbyBegin(t)
  <2>1. arg[t] \in Ins /\ inLock[arg[t]] = t
    BY <1>a, <1>2 DEF InDoStandbyBegin, ThreadOK, Pointers, Holds, InStandbyAt, InDoAt
  <2>2. pc'[t] # pc[t]
    BY <1>a, <1>2 DEF InDoStandbyBegin, ThreadOK, Returns, InDoAt, Goto
  <2>3. hw'.echo = hw.echo
    <3>1. InCloseHw(hw, in[arg[t]]).echo = hw.echo
      BY <1>a, <1>b DEF InCloseHw
    <3> QED BY <1>2, <3>1 DEF InDoStandbyBegin
  <2>4. /\ \A x \in Ins \ {arg[t]} : in'[x] = in[x]
        /\ in'[arg[t]].echo \in {in[arg[t]].echo, None}
    <3>1. CASE in' = in
      BY <3>1
    <3>2. CASE in' = [in EXCEPT ![arg[t]] = [InClose(@) EXCEPT
                 !.standby = TRUE, !.echo = IF in[arg[t]].standby THEN in[arg[t]].echo ELSE None]]
      BY <1>a, <2>1, <3>2 DEF InClose, InFields
    <3> QED BY <1>2, <3>1, <3>2 DEF InDoStandbyBegin
  <2>5. out' = out
    BY <1>2 DEF InDoStandbyBegin
  <2> QED BY <2>1, <2>2, <2>3, <2>4, <2>5 DEF EchoesStay
<1>3. CASE WriteCloseInput(t)
  <2>1. InCloseHw(hw, in[spIn[t]]).echo = hw.echo
    BY <1>a, <1>b DEF InCloseHw
  <2>2. \A x \in Ins : in'[x].echo = in[x].echo
    BY <1>a, <1>3 DEF WriteCloseInput, InClose, InFields
  <2> QED BY <1>3, <2>1, <2>2 DEF WriteCloseInput, EchoesStay
<1>4. CASE \/ WriteExitStandby(t) \/ InSetSource(t) \/ ModeOpenCall(t) \/ ModeCloseCall(t)
           \/ ModeOther(t) \/ SetMicMute(t)
  <2>1. hw'.echo = hw.echo
    BY <1>a, <1>b, <1>4, SMTT(30)
       DEF WriteExitStandby, InSetSource, ModeOpenCall, ModeCloseCall, ModeOther, SetMicMute,
           HwFields
  <2> QED BY <1>4, <2>1
       DEF WriteExitStandby, InSetSource, ModeOpenCall, ModeCloseCall, ModeOther, SetMicMute,
           EchoesStay
<1>5. CASE CallAddAudioEffect(t) \/ AddEffect(t) \/ RemoveEffect(t) \/ UnsetEcho(t)
  <2>1. hw' = hw /\ out' = out
    BY <1>5 DEF CallAddAudioEffect, AddEffect, RemoveEffect, UnsetEcho
  <2>2. \A x \in Ins : in'[x].echo = in[x].echo
    BY <1>a, <1>5 DEF CallAddAudioEffect, AddEffect, RemoveEffect, UnsetEcho, InFields
  <2> QED BY <2>1, <2>2 DEF EchoesStay
<1>6. CASE OpenInputStream(t)
  <2>1. PICK i \in Ins \ inLive : in' = [in EXCEPT ![i] = NewIn]
    BY <1>6 DEF OpenInputStream
  <2> QED BY <1>a, <1>6, <2>1 DEF OpenInputStream, NewIn, EchoesStay
<1>7. CASE OpenOutputStream(t)
  <2>1. PICK o \in Outs \ outLive : out' = [out EXCEPT ![o] = NewOut]
    BY <1>7 DEF OpenOutputStream
  <2> QED BY <1>a, <1>7, <2>1 DEF OpenOutputStream, NewOut, EchoesStay
<1>8. CASE WriteOpen(t)
  <2>1. /\ \A x \in Outs : out'[x].echo = out[x].echo
        /\ \A x \in Ins : in'[x].echo = in[x].echo
        /\ CallFields(hw') = CallFields(hw)
    BY <1>8, WriteOpenEffect
  <2> QED BY <2>1 DEF CallFields, EchoesStay
<1>9. ASSUME NEW o \in Outs, NEW h \in HwFields, h.echo = hw.echo, in' = in,
             hw' = OutStandbyHw(h, out[o]), out' = [out EXCEPT ![o] = OutStandby(@)]
      PROVE  EchoesStay(t)
  <2>1. out'[o].echo = out[o].echo /\ \A x \in Outs \ {o} : out'[x] = out[x]
    BY <1>a, <1>9, OutPutInStandby
  <2>2. hw'.echo = h.echo
    BY <1>a, <1>9, OutStandbyCounts DEF CallFields
  <2> QED BY <1>9, <2>1, <2>2 DEF EchoesStay
<1>10. CASE OutStandbyDo(t)
  <2>1. arg[t] \in Outs
    BY <1>a, <1>10 DEF OutStandbyDo, ThreadOK, Pointers, OutStandbyAt
  <2>2. hw' = OutStandbyHw(hw, out[arg[t]]) /\ out' = [out EXCEPT ![arg[t]] = OutStandby(@)] /\ in' = in
    BY <1>10 DEF OutStandbyDo
  <2> QED BY <1>a, <1>9, <2>1, <2>2
<1>11. CASE OutSetRouting(t)
  <2>1. self[t] \in Outs
    BY <1>a, <1>11 DEF OutSetRouting, ThreadOK, Pointers
  <2>2. in' = in
    BY <1>11 DEF OutSetRouting
  <2>3. CASE hw' = hw /\ out' = out
    BY <2>2, <2>3 DEF EchoesStay
  <2>4. CASE hw' = OutStandbyHw(hw, out[self[t]]) /\ out' = [out EXCEPT ![self[t]] = OutStandby(@)]
    BY <1>a, <1>9, <2>1, <2>2, <2>4
  <2> QED BY <1>11, <2>3, <2>4 DEF OutSetRouting
<1>12. CASE ModeEnterCall(t) \/ ModeLeaveCall(t)
  <2>1. \E h \in HwFields : h.echo = hw.echo /\ ForceOutputStandby(t, h)
    <3>1. \A m \in Modes : [hw EXCEPT !.mode = m] \in HwFields /\ [hw EXCEPT !.mode = m].echo = hw.echo
      BY <1>a DEF HwFields
    <3>2. LET g == closePcmOut_l(closeMixer_l([hw EXCEPT !.mode = "NORMAL"]))
          IN  g \in HwFields /\ g.echo = hw.echo
      <4> DEFINE h0 == [hw EXCEPT !.mode = "NORMAL"]
      <4>1. h0 \in HwFields /\ h0.echo = hw.echo
        BY <3>1 DEF Modes
      <4> HIDE DEF h0
      <4> QED BY <1>b, <4>1 DEF h0
    <3> QED BY <1>12, <3>1, <3>2 DEF ModeEnterCall, ModeLeaveCall, Modes
  <2>2. PICK h \in HwFields : h.echo = hw.echo /\ ForceOutputStandby(t, h)
    BY <2>1
  <2>3. in' = in /\ (spOut[t] # None => spOut[t] \in Outs)
    BY <1>12 DEF ModeEnterCall, ModeLeaveCall, LockInv, TypeOK
  <2>4. CASE spOut[t] = None
    BY <2>2, <2>3, <2>4 DEF ForceOutputStandby, EchoesStay
  <2>5. CASE spOut[t] # None
    <3>1. hw' = OutStandbyHw(h, out[spOut[t]]) /\ out' = [out EXCEPT ![spOut[t]] = OutStandby(@)]
      BY <2>2, <2>5 DEF ForceOutputStandby
    <3> QED BY <1>9, <2>2, <2>3, <2>5, <3>1
  <2> QED BY <2>4, <2>5
<1>13. CASE WriteOpened(t)
  <2>1. hw'.echo = hw.echo /\ in' = in
    BY <1>a, <1>13 DEF WriteOpened, HwFields
  <2>2. \A x \in Outs : out'[x].echo = out[x].echo
    BY <1>a, <1>13 DEF WriteOpened, OutFields
  <2> QED BY <2>1, <2>2 DEF EchoesStay
<1> QED
  BY <1>1, <1>2, <1>3, <1>4, <1>5, <1>6, <1>7, <1>8, <1>10, <1>11, <1>12, <1>13
     DEF Begin, Run, ControlActions

(* A step that gives or takes a reference has the lock of the stream: of   *)
(* the output too, as the output a thread has locked is the only one.      *)
LEMMA EchoOutputsGuarded ==
  ASSUME StreamsInv, OneOutput, NEW t \in Threads, Begin(t) \/ Run(t)
  PROVE  /\ \A o \in outLive : out'[o].echo # out[o].echo => StepsUnder(outLock[o])
         /\ \A i \in inLive : in'[i].echo # in[i].echo => StepsUnder(inLock[i])
<1>a. /\ LockInv /\ ThreadOK(t) /\ pc \in [Threads -> Labels]
      /\ outLive \subseteq Outs /\ inLive \subseteq Ins
      /\ spOut[t] \in {None, mOutput} /\ dOut[t] \in {None, mOutput}
  BY ReachedOutput DEF StreamsInv, LockInv, TypeOK
<1>1. CASE InDoStandbyEnd(t)
  <2>1. inLock[arg[t]] = t /\ outLock[mOutput] = t /\ pc[t] = "d_hw"
    BY <1>a, <1>1, ConstantsAssumption DEF InDoStandbyEnd, ThreadOK, Holds, Pointers
  <2>2. pc'[t] # pc[t]
    BY <1>a, <1>1, <2>1 DEF InDoStandbyEnd, ThreadOK, Returns, InDoAt, Goto, Destroy
  <2>3. /\ \A x \in Ins \ {arg[t]} : in'[x] = in[x]
        /\ \A x \in Outs \ {mOutput} : out'[x].echo = out[x].echo
    BY <1>a, <1>1, StandbyEndEchoes
  <2> QED BY <1>a, <2>1, <2>2, <2>3 DEF StepsUnder
<1>2. CASE ReadOpen(t)
  <2>1. /\ inLock[self[t]] = t /\ pc[t] = "r_open"
        /\ spOut[t] # None => outLock[mOutput] = t
    BY <1>a, <1>2 DEF ReadOpen, ThreadOK, Holds
  <2>2. pc'[t] # pc[t]
    BY <1>a, <1>2, <2>1 DEF ReadOpen, Goto
  <2>3. /\ \A x \in Ins \ {self[t]} : in'[x] = in[x]
        /\ \/ \A x \in Outs : out'[x].echo = out[x].echo
           \/ spOut[t] # None /\ \A x \in Outs \ {mOutput} : out'[x].echo = out[x].echo
    BY <1>a, <1>2, ReadOpenEchoes
  <2> QED BY <1>a, <2>1, <2>2, <2>3 DEF StepsUnder
<1>3. CASE ~InDoStandbyEnd(t) /\ ~ReadOpen(t)
  BY <1>a, <1>3, OthersEchoes DEF EchoesStay, StepsUnder
<1> QED BY <1>1, <1>2, <1>3

(* Nobody without the lock of the stream gives or takes its echo           *)
(* reference, as long as no output is closed: doStandby_l takes the        *)
(* reference from the output that is open, which need not be the one it    *)
(* has locked if a new one was opened meanwhile.                           *)
THEOREM EchoAlwaysGuarded ==
  "closeOut" \notin Ops => (Spec => EchoGuarded)
<1> SUFFICES ASSUME "closeOut" \notin Ops PROVE Spec => EchoGuarded
  OBVIOUS
<1> DEFINE EchoStep ==
      /\ \A o \in outLive : out'[o].echo # out[o].echo => StepsUnder(outLock[o])
      /\ \A i \in inLive : in'[i].echo # in[i].echo => StepsUnder(inLock[i])
<1>1. Init => OneOutput
  BY ConstantsAssumption DEF Init, OneOutput
<1>2. StreamsInv /\ OneOutput /\ [Next]_vars => OneOutput'
  BY OneOutputStep
<1>3. StreamsInv /\ OneOutput /\ [Next]_vars => [EchoStep]_vars
  BY EchoOutputsGuarded DEF Next
<1> QED BY <1>1, <1>2, <1>3, StreamsKept, PTL DEF Spec, EchoGuarded

-----------------------------------------------------------------------------
(* No stream keeps an echo reference that was released.                    *)

(* The inputs that exist: at most the one of the hardware object, which    *)
(* the server has open.                                                    *)
OneInput ==
  /\ mInputs \subseteq handles /\ inLive \subseteq mInputs
  /\ \A i, j \in mInputs : i = j
  /\ \A t \in Threads : pc[t] # "ci_hw"

(* OneInput is inductive.                                                  *)
LEMMA OneInputStep ==
  ASSUME "closeIn" \notin Ops, StreamsInv, OneInput, [Next]_vars
  PROVE  OneInput'
<1>1. CASE UNCHANGED vars
  BY <1>1 DEF vars, objects, OneInput
<1>2. ASSUME NEW t \in Threads, Begin(t) \/ Run(t) PROVE OneInput'
  <2>1. /\ LockInv /\ RefInv /\ OnlyOwn(t) /\ pc \in [Threads -> Labels]
        /\ inLive \subseteq Ins /\ mInputs \subseteq Ins /\ Outs \cap Ins = {}
    BY <1>2, BeginControl, RunControl, ConstantsAssumption DEF StreamsInv, ControlStep,
        LockInv, TypeOK
  <2>2. CASE RunSteps(t)
    BY <2>1, <2>2 DEF RunSteps, objects, ClosingAt, OnlyOwn, OneInput
  <2>3. CASE OpenOutputStream(t)
    BY <2>1, <2>3 DEF OpenOutputStream, OneInput
  <2>4. CASE OpenInputStream(t)
    <3>1. mInputs = {} /\ inLive = {}
      BY <2>1, <2>4 DEF OpenInputStream, OneInput
    <3> QED BY <2>1, <2>4, <3>1 DEF OpenInputStream, OneInput
  <2>5. CASE CallCloseStream(t)
    BY <2>1, <2>5 DEF CallCloseStream, CallClose, Goto, OneInput
  <2>6. ~CloseInputStream(t)
    BY DEF CloseInputStream, OneInput
  <2>7. CASE CloseOutputStream(t)
    BY <2>1, <2>7 DEF CloseOutputStream, Goto, OneInput
  <2>8. CASE FreeStream(t)
    BY <2>1, <2>8 DEF FreeStream, Goto, OneInput
  <2>9. CASE Calls(t)
    BY <2>1, <2>2, <2>9, CallRefs
  <2>10. CASE Run(t) /\ ~CloseOutputStream(t) /\ ~FreeStream(t)
    BY <2>1, <2>2, <2>6, <2>10, RunRefs
  <2> QED BY <1>2, <2>3, <2>4, <2>5, <2>7, <2>8, <2>9, <2>10 DEF Begin, Calls
<1> QED BY <1>1, <1>2 DEF Next

(* So every pointer of every thread to an input is one to that input.      *)
LEMMA ReachedInput ==
  ASSUME StreamsInv, OneInput, NEW t \in Threads
  PROVE  /\ self[t] \in Ins => self[t] \in mInputs
         /\ spIn[t] # None => spIn[t] \in mInputs
         /\ pc[t] \in InStandbyAt => arg[t] \in mInputs
<1>1. /\ Uses(t) /\ PointsToLive(t) /\ EndsAlone(t) /\ ObjectsLive /\ Pointers(t)
      /\ mInputs \subseteq Ins /\ Outs \cap Ins = {} /\ inLive \subseteq Ins /\ None \notin Ins
      /\ mOutput \in Outs \cup {None}  /\ outLive \subseteq Outs
  BY ConstantsAssumption DEF StreamsInv, RefInv, LockInv, TypeOK, ThreadOK
<1>2. spIn[t] # None => spIn[t] \in mInputs
  BY <1>1 DEF PointsToLive, OneInput
<1>3. self[t] \in Ins => self[t] \in mInputs
  BY <1>1 DEF PointsToLive, ObjectsLive
<1>4. ASSUME pc[t] \in InStandbyAt PROVE arg[t] \in mInputs
  <2>1. arg[t] \in Ins
    BY <1>1, <1>4 DEF Pointers
  <2>2. CASE Ending(t)
    BY <1>1, <2>1, <2>2 DEF EndsAlone, OneInput
  <2>3. CASE ~Ending(t)
    BY <1>1, <1>2, <1>3, <1>4, <2>1, <2>3 DEF Uses
  <2> QED BY <2>2, <2>3
<1> QED BY <1>2, <1>3, <1>4

(* Only the streams of the hardware object have a reference, and it is     *)
(* the one the hardware object has.                                        *)
EchoInv ==
  /\ \A o \in Outs : out[o].echo # None => o = mOutput /\ out[o].echo = hw.echo
  /\ \A i \in Ins : in[i].echo # None => i \in mInputs /\ in[i].echo = hw.echo

(* EchoInv is inductive: who releases or replaces the reference of the     *)
(* hardware object takes it from both streams.                             *)
LEMMA EchoInvStep ==
  ASSUME StreamsInv, OneOutput, OneInput, OneOutput', OneInput', EchoInv, [Next]_vars
  PROVE  EchoInv'
<1>1. CASE UNCHANGED vars
  BY <1>1 DEF vars, objects, EchoInv
<1>2. ASSUME NEW t \in Threads, Begin(t) \/ Run(t) PROVE EchoInv'
  <2>1. /\ LockInv /\ RefInv /\ ThreadOK(t) /\ ObjectsLive /\ PointsToLive(t)
        /\ mOutput \in Outs \cup {None} /\ mInputs \subseteq Ins /\ None \notin Outs \cup Ins
        /\ spOut[t] \in {None, mOutput} /\ dOut[t] \in {None, mOutput}
        /\ self[t] \in Ins => self[t] \in mInputs
    BY ReachedOutput, ReachedInput, ConstantsAssumption DEF StreamsInv, RefInv, LockInv, TypeOK
  <2>2. CASE InDoStandbyEnd(t)
    <3>1. mOutput' = mOutput /\ mInputs' = mInputs /\ mOutput # None /\ arg[t] \in Ins
      <4>1. mOutput' = mOutput /\ mInputs' = mInputs /\ pc[t] = "d_hw"
        BY <2>2 DEF InDoStandbyEnd, objects
      <4>2. dOut[t] \in Outs /\ arg[t] \in Ins
        BY <2>1, <4>1 DEF ThreadOK, Pointers, InStandbyAt, InDoAt
      <4> QED BY <2>1, <4>1, <4>2
    <3> DEFINE e == in[arg[t]].echo
    <3>2. /\ \A x \in Ins \ {arg[t]} : in'[x] = in[x]
          /\ in'[arg[t]].echo = None
          /\ hw'.echo = IF e = hw.echo THEN None ELSE hw.echo
          /\ \A o \in Outs : out'[o].echo =
              IF e # None /\ e = hw.echo /\ o = mOutput /\ out[o].echo = e THEN None ELSE out[o].echo
      BY <2>1, <2>2, StandbyEndEchoes
    <3>3. CASE e = None
      BY <3>1, <3>2, <3>3 DEF EchoInv
    <3>4. CASE e # None
      <4>1. arg[t] \in mInputs /\ e = hw.echo
        BY <3>1, <3>4 DEF EchoInv
      <4>2. \A x \in Ins : in'[x].echo = None
        BY <3>2, <4>1 DEF EchoInv, OneInput
      <4>3. \A o \in Outs : out'[o].echo = None
        BY <3>2, <3>4, <4>1 DEF EchoInv
      <4> QED BY <4>2, <4>3 DEF EchoInv
    <3> QED BY <3>3, <3>4
  <2>3. CASE ReadOpen(t)
    <3>1. mOutput' = mOutput /\ mInputs' = mInputs /\ self[t] \in mInputs
      BY <2>1, <2>3, ReadOpenEchoes DEF ReadOpen, objects
    <3>2. \A x \in Ins \ {self[t]} : in'[x] = in[x]
      BY <2>1, <2>3, ReadOpenEchoes
    <3>3. CASE /\ hw'.echo = hw.echo /\ in'[self[t]].echo = in[self[t]].echo
               /\ \A x \in Outs : out'[x].echo = out[x].echo
      BY <3>1, <3>2, <3>3 DEF EchoInv
    <3>4. CASE /\ spOut[t] # None
               /\ in'[self[t]].echo = hw'.echo
               /\ \A x \in Outs \ {mOutput} : out'[x].echo = out[x].echo
               /\ mOutput # None /\ out[mOutput].echo \in {None, hw.echo} =>
                    out'[mOutput].echo = hw'.echo
      <4>1. mOutput \in Outs /\ out[mOutput].echo \in {None, hw.echo}
        BY <2>1, <3>4 DEF EchoInv
      <4>2. \A x \in Ins \ {self[t]} : in'[x].echo = None
        BY <3>1, <3>2 DEF EchoInv, OneInput
      <4>3. \A x \in Outs \ {mOutput} : out'[x].echo = None
        BY <3>4 DEF EchoInv
      <4> QED BY <2>1, <3>1, <3>4, <4>1, <4>2, <4>3 DEF EchoInv
    <3> QED BY <2>1, <2>3, <3>3, <3>4, ReadOpenEchoes
  <2>4. CASE ~InDoStandbyEnd(t) /\ ~ReadOpen(t)
    <3>1. EchoesStay(t)
      BY <1>2, <2>1, <2>4, OthersEchoes
    <3>2. /\ mOutput # None => mOutput' = mOutput
          /\ mInputs \subseteq mInputs'
      <4>1. ~CloseInputStream(t) /\ ~CloseOutputStream(t)
        BY DEF CloseInputStream, CloseOutputStream, OneInput, OneOutput
      <4>2. OpenOutputStream(t) => mOutput = None
        BY DEF OpenOutputStream
      <4> QED BY <1>2, <2>1, <4>1, <4>2, ObjectsMove
    <3>3. ASSUME NEW o \in Outs, out'[o].echo # None PROVE o = mOutput' /\ out'[o].echo = hw'.echo
      BY <2>1, <3>1, <3>2, <3>3 DEF EchoesStay, EchoInv
    <3>4. ASSUME NEW i \in Ins, in'[i].echo # None PROVE i \in mInputs' /\ in'[i].echo = hw'.echo
      BY <2>1, <3>1, <3>2, <3>4 DEF EchoesStay, EchoInv
    <3> QED BY <3>3, <3>4 DEF EchoInv
  <2> QED BY <2>2, <2>3, <2>4
<1> QED BY <1>1, <1>2 DEF Next

(* No stream keeps an echo reference that was released, as long as no      *)
(* stream is closed: a closed stream may still have one when a new stream  *)
(* obtains the next.                                                       *)
THEOREM EchoAlwaysValid ==
  Ops \cap {"closeOut", "closeIn"} = {} => (Spec => []EchoValid)
<1> SUFFICES ASSUME Ops \cap {"closeOut", "closeIn"} = {} PROVE Spec => []EchoValid
  OBVIOUS
<1>1. Init => OneOutput /\ OneInput /\ EchoInv
  BY ConstantsAssumption DEF Init, OneOutput, OneInput, EchoInv, NewOut, NewIn
<1>2. StreamsInv /\ OneOutput /\ [Next]_vars => OneOutput'
  BY OneOutputStep
<1>3. StreamsInv /\ OneInput /\ [Next]_vars => OneInput'
  BY OneInputStep
<1>4. StreamsInv /\ OneOutput /\ OneInput /\ EchoInv /\ [Next]_vars => EchoInv'
  BY <1>2, <1>3, EchoInvStep
<1>5. EchoInv => EchoValid
  BY DEF EchoInv, EchoValid
<1> QED BY <1>1, <1>2, <1>3, <1>4, <1>5, StreamsKept, PTL DEF Spec

-----------------------------------------------------------------------------
(* The output is opened before the input.                                  *)

(* No input is active.                                                     *)
AllInStandby == \A i \in mInputs : in[i].standby

(* What a thread has found of the inputs at the places where it goes on    *)
(* without one.                                                            *)
FindsFrom(t) ==
  /\ pc'[t] \in {"w_open", "m_apply"} /\ spIn'[t] = None =>
       in' = in /\ mInputs' = mInputs /\ AllInStandby
  /\ pc'[t] \in {"m_call", "m_uncall"} =>
       /\ UNCHANGED <<mInputs, spIn>>
       /\ \/ pc[t] = "m_apply" /\ spIn[t] = None /\ in' = in
          \/ (InDoStandbyBegin(t) \/ InDoStandbyEnd(t)) /\ pc'[t] = dret[t]

(* The actions of a call in progress go on without an input only where     *)
(* FindsFrom says.                                                         *)
LEMMA RunFinds ==
  ASSUME LockInv, NEW t \in Threads, Run(t)
  PROVE  FindsFrom(t)
<1>a. ActiveInput = None => AllInStandby
  BY ConstantsAssumption DEF ActiveInput, AllInStandby, LockInv, TypeOK
<1> USE ConstantsAssumption
    DEF LockInv, TypeOK, FindsFrom, Goto, Return, Destroy, ThreadOK, Pointers, Returns,
        OutStandbyAt, InStandbyAt, InDoAt, locks, objects
<1>1. CASE OutStandbyLock(t)
  BY <1>1, SMTT(30) DEF OutStandbyLock
<1>2. CASE OutStandbyDo(t)
  BY <1>2, SMTT(30) DEF OutStandbyDo
<1>3. CASE InStandbyLock(t)
  BY <1>3, SMTT(30) DEF InStandbyLock
<1>4. CASE InStandbyDo(t)
  BY <1>4, SMTT(30) DEF InStandbyDo
<1>5. CASE InStandbyEnd(t)
  BY <1>5, SMTT(30) DEF InStandbyEnd
<1>6. CASE InDoStandbyBegin(t)
  <2>1. pc'[t] \in {"d_out"} \/ pc'[t] = dret[t]
    BY <1>6 DEF InDoStandbyBegin
  <2>2. UNCHANGED <<mInputs, spIn>> /\ dret[t] \in {"si_end", "w_fin", "m_call", "m_uncall"}
    BY <1>6 DEF InDoStandbyBegin
  <2> QED BY <1>6, <2>1, <2>2
<1>7. CASE InDoStandbyOut(t)
  BY <1>7, SMTT(30) DEF InDoStandbyOut
<1>8. CASE InDoStandbyIn(t)
  BY <1>8, SMTT(30) DEF InDoStandbyIn
<1>9. CASE InDoStandbyEnd(t)
  <2>1. pc'[t] = "so_out" \/ pc'[t] = dret[t]
    BY <1>9 DEF InDoStandbyEnd
  <2>2. UNCHANGED <<mInputs, spIn>> /\ dret[t] \in {"si_end", "w_fin", "m_call", "m_uncall"}
    BY <1>9 DEF InDoStandbyEnd
  <2> QED BY <1>9, <2>1, <2>2
<1>10. CASE WriteLock(t)
  BY <1>10, SMTT(30) DEF WriteLock
<1>11. CASE WriteExitStandby(t)
  BY <1>11, <1>a, SMTT(30) DEF WriteExitStandby, SelectInput
<1>12. CASE WriteLockInput(t)
  BY <1>12, SMTT(30) DEF WriteLockInput
<1>13. CASE WriteCloseInput(t)
  BY <1>13, SMTT(30) DEF WriteCloseInput
<1>14. CASE WriteRetryInput(t)
  BY <1>14, <1>a, SMTT(30) DEF WriteRetryInput, ReselectInput, SelectInput
<1>15. CASE WriteOpen(t)
  BY <1>15, WriteOpenPlaces, SMTT(30)
<1>16. CASE WriteOpened(t)
  BY <1>16, SMTT(30) DEF WriteOpened
<1>17. CASE WriteData(t)
  BY <1>17, SMTT(30) DEF WriteData
<1>18. CASE ReadLock(t)
  BY <1>18, SMTT(30) DEF ReadLock
<1>19. CASE ReadExitStandby(t)
  BY <1>19, SMTT(30) DEF ReadExitStandby, SelectOutput
<1>20. CASE ReadLockOutput(t)
  BY <1>20, SMTT(30) DEF ReadLockOutput
<1>21. CASE ReadRelock(t)
  BY <1>21, SMTT(30) DEF ReadRelock
<1>22. CASE ReadKeepOutput(t)
  BY <1>22, SMTT(30) DEF ReadKeepOutput
<1>23. CASE ReadRetryOutput(t)
  BY <1>23, SMTT(30) DEF ReadRetryOutput, SelectOutput
<1>24. CASE ReadOpen(t)
  BY <1>24, SMTT(30) DEF ReadOpen
<1>25. CASE ReadData(t)
  BY <1>25, SMTT(30) DEF ReadData
<1>26. CASE OutParametersLock(t)
  BY <1>26, SMTT(30) DEF OutParametersLock
<1>27. CASE OutSetRouting(t)
  BY <1>27, SMTT(30) DEF OutSetRouting
<1>28. CASE InParametersLock(t)
  BY <1>28, SMTT(30) DEF InParametersLock
<1>29. CASE InSetRouting(t)
  BY <1>29, SMTT(30) DEF InSetRouting
<1>30. CASE InSetSource(t)
  BY <1>30, SMTT(30) DEF InSetSource
<1>31. CASE AddEffect(t)
  BY <1>31, SMTT(30) DEF AddEffect
<1>32. CASE RemoveEffect(t)
  BY <1>32, SMTT(30) DEF RemoveEffect
<1>33. CASE UnsetEcho(t)
  BY <1>33, SMTT(30) DEF UnsetEcho
<1>34. CASE ModeBegin(t)
  BY <1>34, <1>a, SMTT(30) DEF ModeBegin, SelectActive, SelectInput
<1>35. CASE ModeLockOutput(t)
  BY <1>35, SMTT(30) DEF ModeLockOutput
<1>36. CASE ModeKeepOutput(t)
  BY <1>36, <1>a, SMTT(30) DEF ModeKeepOutput, SelectInput
<1>37. CASE ModeRetryOutput(t)
  BY <1>37, <1>a, SMTT(30) DEF ModeRetryOutput, SelectActive, SelectInput
<1>38. CASE ModeLockInput(t)
  BY <1>38, SMTT(30) DEF ModeLockInput
<1>39. CASE ModeKeepInput(t)
  BY <1>39, SMTT(30) DEF ModeKeepInput
<1>40. CASE ModeRetryInput(t)
  BY <1>40, <1>a, SMTT(30) DEF ModeRetryInput, ReselectInput, SelectInput
<1>41. CASE ModeEnterCall(t)
  BY <1>41, SMTT(30) DEF ModeEnterCall, ForceInputStandby
<1>42. CASE ModeOpenCall(t)
  BY <1>42, SMTT(30) DEF ModeOpenCall
<1>43. CASE ModeLeaveCall(t)
  BY <1>43, SMTT(30) DEF ModeLeaveCall, ForceInputStandby
<1>44. CASE ModeCloseCall(t)
  BY <1>44, SMTT(30) DEF ModeCloseCall
<1>45. CASE ModeOther(t)
  BY <1>45, SMTT(30) DEF ModeOther
<1>46. CASE ModeEnd(t)
  BY <1>46, SMTT(30) DEF ModeEnd
<1>47. CASE SetMicMute(t)
  BY <1>47, <1>a, SMTT(30) DEF SetMicMute
<1>48. CASE CloseOutputClear(t)
  BY <1>48, SMTT(30) DEF CloseOutputClear
<1>49. CASE DropPointers(t)
  BY <1>49, SMTT(30) DEF DropPointers
<1>50. CASE CloseOutputStream(t)
  BY <1>50, <1>a, SMTT(30) DEF CloseOutputStream
<1>51. CASE CloseInputStream(t)
  BY <1>51, SMTT(30) DEF CloseInputStream
<1>52. CASE FreeStream(t)
  BY <1>52, SMTT(30) DEF FreeStream
<1> QED
  BY <1>1, <1>2, <1>3, <1>4, <1>5, <1>6, <1>7, <1>8, <1>9, <1>10, <1>11, <1>12, <1>13, <1>14,
      <1>15, <1>16, <1>17, <1>18, <1>19, <1>20, <1>21, <1>22, <1>23, <1>24, <1>25, <1>26,
      <1>27, <1>28, <1>29, <1>30, <1>31, <1>32, <1>33, <1>34, <1>35, <1>36, <1>37, <1>38,
      <1>39, <1>40, <1>41, <1>42, <1>43, <1>44, <1>45, <1>46, <1>47, <1>48, <1>49, <1>50,
      <1>51, <1>52 DEF Run

(* No call begins there.                                                   *)
LEMMA BeginFinds ==
  ASSUME LockInv, NEW t \in Threads, Begin(t)
  PROVE  FindsFrom(t)
<1> USE DEF LockInv, TypeOK, FindsFrom, Goto, Idle, Call, CallFrame, CallClose
<1>1. CASE Calls(t)
  BY <1>1 DEF Calls, CallWrite, CallRead, CallStandby, CallSetParameters,
     CallAddAudioEffect, CallRemoveAudioEffect, CallSetMode, CallSetMicMute
<1>2. CASE CallCloseStream(t)
  BY <1>2 DEF CallCloseStream
<1>3. CASE OpenOutputStream(t) \/ OpenInputStream(t)
  BY <1>3 DEF OpenOutputStream, OpenInputStream
<1> QED BY <1>1, <1>2, <1>3 DEF Begin, Calls

(* What a thread goes on with.                                             *)
Found(t) ==
  /\ pc[t] = "w_open" => \A i \in mInputs : Closed(in[i])
  /\ pc[t] = "m_apply" /\ spIn[t] = None => AllInStandby
  /\ pc[t] \in {"m_call", "m_uncall"} => AllInStandby

FoundInv == \A t \in Threads : Found(t)

(* FoundInv is inductive: who goes on has the hardware lock from the       *)
(* moment it looked, and no input leaves standby without it.               *)
LEMMA FoundStep ==
  ASSUME StreamsInv, StreamsInv', OneInput, OneInput', FoundInv, [Next]_vars
  PROVE  FoundInv'
<1>1. CASE UNCHANGED vars
  BY <1>1 DEF vars, objects, FoundInv, Found, AllInStandby
<1>2. ASSUME NEW t \in Threads, Begin(t) \/ Run(t), NEW u \in Threads PROVE Found(u)'
  <2>1. /\ LockInv /\ RefInv /\ OnlyOwn(t) /\ Enters(t) /\ FindsFrom(t) /\ InMove(t)
        /\ InputsClosed /\ mInputs \subseteq Ins /\ mInputs' \subseteq Ins
    BY <1>2, BeginControl, RunControl, BeginEnters, RunEnters, BeginFinds, RunFinds, Moves
       DEF StreamsInv, ControlStep, DevInv, LockInv, TypeOK
  <2>2. CASE u = t
    <3>1. ASSUME pc'[t] = "w_open" PROVE \A i \in mInputs' : Closed(in'[i])
      <4>1. CASE spIn'[t] = None
        BY <2>1, <3>1, <4>1 DEF FindsFrom, AllInStandby, InputsClosed
      <4>2. CASE spIn'[t] # None
        <5>1. spIn'[t] \in mInputs' /\ \A i \in mInputs' : i = spIn'[t]
          BY <4>2 DEF StreamsInv, RefInv, PointsToLive, OneInput
        <5> QED BY <2>1, <3>1, <4>2, <5>1 DEF Enters
      <4> QED BY <4>1, <4>2
    <3>2. ASSUME pc'[t] = "m_apply", spIn'[t] = None PROVE AllInStandby'
      BY <2>1, <3>2 DEF FindsFrom, AllInStandby
    <3>3. ASSUME pc'[t] \in {"m_call", "m_uncall"} PROVE AllInStandby'
      <4>1. mInputs' = mInputs
        BY <2>1, <3>3 DEF FindsFrom
      <4>2. CASE pc[t] = "m_apply" /\ spIn[t] = None /\ in' = in
        BY <4>1, <4>2 DEF FoundInv, Found, AllInStandby
      <4>3. CASE (InDoStandbyBegin(t) \/ InDoStandbyEnd(t)) /\ pc'[t] = dret[t]
        <5>1. in'[arg[t]].standby
          BY <2>1, <4>3, InputStandbyDone
        <5>2. arg[t] \in mInputs
          BY <4>3, ReachedInput DEF InDoStandbyBegin, InDoStandbyEnd, InStandbyAt, InDoAt
        <5> QED BY <4>1, <5>1, <5>2 DEF OneInput, AllInStandby
      <4> QED BY <2>1, <3>3, <4>2, <4>3 DEF FindsFrom
    <3> QED BY <2>2, <3>1, <3>2, <3>3 DEF Found
  <2>3. CASE u # t /\ pc[u] \in {"w_open", "m_apply", "m_call", "m_uncall"}
    <3>1. hwLock = u /\ u # None
      BY <2>1, <2>3, ConstantsAssumption DEF LockInv, ThreadOK, Holds
    <3>2. pc[t] \notin {"w_open", "r_open"} /\ ~OpenInputStream(t)
      BY <2>1, <2>3, <3>1 DEF LockInv, ThreadOK, Holds, OpenInputStream
    <3>3. mInputs' \subseteq mInputs
      BY <1>2, <2>1, <3>2, ObjectsMove
    <3>4. \A x \in Ins : (in[x].standby => in'[x].standby) /\ (Closed(in[x]) => Closed(in'[x]))
      BY <2>1, <3>2 DEF InMove, OnlyIn, Devices, Closed
    <3>5. pc'[u] = pc[u] /\ spIn'[u] = spIn[u] /\ Found(u)
      BY <2>1, <2>3 DEF OnlyOwn, FoundInv
    <3> QED BY <2>1, <3>3, <3>4, <3>5 DEF Found, AllInStandby
  <2>4. CASE u # t /\ pc[u] \notin {"w_open", "m_apply", "m_call", "m_uncall"}
    BY <2>1, <2>4 DEF OnlyOwn, Found
  <2> QED BY <2>2, <2>3, <2>4
<1> QED BY <1>1, <1>2 DEF Next, FoundInv

(* A step that opens the playback device finds all capture devices         *)
(* closed: write() has closed the active input, setMode has put it in      *)
(* standby, and read() opens the output again before its own input.        *)
LEMMA OpensAfterOutput ==
  ASSUME StreamsInv, StreamsInv', GoneClosed, OneInput, FoundInv,
         NEW t \in Threads, Begin(t) \/ Run(t), hw.pcmCnt = 0, hw'.pcmCnt > 0
  PROVE  \A i \in Ins : ~in[i].pcm
<1>1. LockInv /\ InputsClosed /\ ThreadOK(t) /\ BeforeOpen(t)
  BY DEF StreamsInv, LockInv, DevInv
<1>2. \A i \in Ins \ mInputs : Closed(in[i])
  BY DEF GoneClosed, OneInput
<1>3. CASE WriteOpen(t)
  BY <1>2, <1>3 DEF WriteOpen, FoundInv, Found, Closed, StreamsInv
<1>4. CASE ReadOpen(t)
  <2>1. in[self[t]].standby /\ self[t] \in Ins
    BY <1>1, <1>4 DEF ReadOpen, BeforeOpen, ReadStandbyAt, ThreadOK, Pointers, ReadAt
  <2>2. self[t] \in mInputs
    BY <2>1, ReachedInput
  <2> QED BY <1>1, <1>2, <2>1, <2>2 DEF InputsClosed, OneInput, Closed
<1>5. CASE ModeOpenCall(t)
  BY <1>1, <1>2, <1>5 DEF ModeOpenCall, FoundInv, Found, AllInStandby, InputsClosed, Closed
<1>6. CASE ~WriteOpen(t) /\ ~ReadOpen(t) /\ ~ModeOpenCall(t)
  <2>1. hw'.pcmCnt <= hw.pcmCnt
    BY <1>1, <1>6, HwKept
  <2>2. hw'.pcmCnt \in Nat
    <3>1. hw' \in HwFields
      BY DEF StreamsInv, LockInv, TypeOK
    <3> QED BY <3>1 DEF HwFields
  <2> QED BY <2>1, <2>2
<1> QED BY <1>3, <1>4, <1>5, <1>6

(* The playback device is never opened while a capture device is, as long  *)
(* as no input is closed: an input that is being closed may still have     *)
(* its device when the next one exists, and nobody looks for it any more.  *)
THEOREM OutputAlwaysFirst ==
  "closeIn" \notin Ops => (Spec => OutputOpensFirst)
<1> SUFFICES ASSUME "closeIn" \notin Ops PROVE Spec => OutputOpensFirst
  OBVIOUS
<1> DEFINE OpenStep == hw.pcmCnt = 0 /\ hw'.pcmCnt > 0 => \A i \in Ins : ~in[i].pcm
<1>1. Init => OneInput /\ FoundInv /\ GoneClosed
  BY DEF Init, OneInput, FoundInv, Found, GoneClosed, NewOut, NewIn, Closed
<1>2. StreamsInv /\ OneInput /\ [Next]_vars => OneInput'
  BY OneInputStep
<1>3. StreamsInv /\ StreamsInv' /\ OneInput /\ FoundInv /\ [Next]_vars => FoundInv'
  BY <1>2, FoundStep
<1>4. StreamsInv /\ GoneClosed /\ [Next]_vars => GoneClosed'
  BY GoneClosedStep
<1>5. StreamsInv /\ StreamsInv' /\ GoneClosed /\ OneInput /\ FoundInv /\ [Next]_vars => [OpenStep]_vars
  BY OpensAfterOutput DEF Next
<1> QED BY <1>1, <1>2, <1>3, <1>4, <1>5, StreamsKept, PTL DEF Spec, OutputOpensFirst

-----------------------------------------------------------------------------
(* The microphone follows the mute setting.                                *)

(* ModeOpenCall says that a call's devices are open.                       *)
LEMMA CallOpened ==
  ASSUME LockInv, NEW t \in Threads, ModeOpenCall(t)
  PROVE  hw'.inCall
<1>1. PICK h1 \in openPcmOut_l(hw) : \E h2 \in openMixer_l(h1) : hw' = [h2 EXCEPT !.inCall = TRUE]
  BY DEF ModeOpenCall
<1>2. h1 \in HwFields
  BY <1>1, PcmCounts DEF LockInv, TypeOK
<1>3. PICK h2 \in openMixer_l(h1) : hw' = [h2 EXCEPT !.inCall = TRUE]
  BY <1>1
<1>4. h2 \in HwFields
  BY <1>2, <1>3, MixerCounts
<1> QED BY <1>3, <1>4 DEF HwFields

(* Without an echo reference doStandby_l has done its work in one step.    *)
LEMMA StandbyAtOnce ==
  ASSUME LockInv, NoEcho, NEW t \in Threads, InDoStandbyBegin(t)
  PROVE  pc'[t] = dret[t] /\ dret'[t] = dret[t] /\ in'[arg[t]].standby
<1>1. arg[t] \in Ins /\ dret[t] \in Labels /\ pc \in [Threads -> Labels]
  BY DEF LockInv, TypeOK, ThreadOK, Pointers, InDoStandbyBegin, InStandbyAt, InDoAt
<1>2. pc'[t] = dret[t]
  BY <1>1 DEF NoEcho, EchoOff, InDoStandbyBegin, Goto
<1> QED BY <1>2, InputStandbyDone

(* Whoever begins or ends a call has the hardware lock until that is done. *)
LEMMA HeadsHold ==
  ASSUME LockInv, NoEcho, NEW t \in Threads, HeadsFor(t, "m_call") \/ HeadsFor(t, "m_uncall")
  PROVE  hwLock = t
BY DEF HeadsFor, InDoAt, DetourAt, NoEcho, LockInv, ThreadOK, Holds

(* The mode says that there is a call before its devices are open, and no  *)
(* more when they are to be closed, but only inside setMode.               *)
CallMode ==
  /\ hw.mode = "IN_CALL" /\ ~hw.inCall => \E t \in Threads : HeadsFor(t, "m_call")
  /\ \A t \in Threads : HeadsFor(t, "m_uncall") => hw.mode # "IN_CALL"

(* CallMode is inductive: setMode has the hardware lock between the two    *)
(* fields.                                                                 *)
LEMMA CallModeStep ==
  ASSUME StreamsInv, NoEcho, CallMode, [Next]_vars
  PROVE  CallMode'
<1>1. CASE UNCHANGED vars
  BY <1>1 DEF vars, CallMode, HeadsFor
<1>2. ASSUME NEW t \in Threads, Begin(t) \/ Run(t) PROVE CallMode'
  <2>1. /\ LockInv /\ Places(t) /\ OnlyOwn(t) /\ ThreadOK(t)
        /\ pc \in [Threads -> Labels] /\ hw \in HwFields
    BY <1>2, RunPlaces, BeginPlaces, BeginControl, RunControl
       DEF ControlStep, StreamsInv, LockInv, TypeOK
  <2>2. ASSUME NEW u \in Threads \ {t}, NEW l
        PROVE  HeadsFor(u, l)' <=> HeadsFor(u, l)
    BY <2>1 DEF OnlyOwn, HeadsFor
  <2>3. ASSUME pc[t] \in {"w_open", "r_open", "m_apply", "m_call", "m_uncall"}
        PROVE  \A u \in Threads \ {t} : ~HeadsFor(u, "m_call") /\ ~HeadsFor(u, "m_uncall")
    BY <2>1, <2>3, HeadsHold DEF ThreadOK, Holds
  <2>4. \/ ModeEnterCall(t) \/ ModeLeaveCall(t) \/ ModeOther(t)
        \/ hw'.mode = hw.mode
    BY <1>2, <2>1, HwKept, WriteOpenEffect, ReadOpenEffect DEF CallFields
  <2>5. \/ ModeOpenCall(t) \/ ModeCloseCall(t)
        \/ hw'.inCall = hw.inCall
    BY <1>2, <2>1, HwKept, WriteOpenEffect, ReadOpenEffect DEF CallFields
  <2>6. pc[t] = "m_apply" => ~HeadsFor(t, "m_call") /\ ~HeadsFor(t, "m_uncall")
    BY DEF HeadsFor, InDoAt
  <2>7. ASSUME NEW u \in Threads, HeadsFor(u, "m_uncall")' PROVE hw'.mode # "IN_CALL"
    <3>1. CASE ModeLeaveCall(t)
      BY <1>2, <2>1, <3>1, CallStepKeeps
    <3>2. CASE ~ModeLeaveCall(t)
      <4>1. HeadsFor(u, "m_uncall")
        BY <2>1, <2>2, <2>7, <3>2 DEF Places
      <4>2. pc[t] # "m_apply"
        BY <2>3, <2>6, <4>1
      <4>3. hw'.mode = hw.mode
        BY <2>4, <4>2 DEF ModeEnterCall, ModeLeaveCall, ModeOther
      <4> QED BY <4>1, <4>3 DEF CallMode
    <3> QED BY <3>1, <3>2
  <2>8. ASSUME hw'.mode = "IN_CALL", ~hw'.inCall
        PROVE  \E u \in Threads : HeadsFor(u, "m_call")'
    <3>1. CASE ModeEnterCall(t)
      <4>1. HeadsFor(t, "m_call")'
        BY <2>1, <3>1 DEF ModeEnterCall, ForceInputStandby, Goto, HeadsFor, InDoAt,
                          LockInv, TypeOK
      <4> QED BY <4>1
    <3>2. ~ModeLeaveCall(t)
      BY <2>1, <2>8, CallStepKeeps
    <3>3. ~ModeOpenCall(t)
      BY <2>1, <2>8, CallOpened
    <3>4. ~ModeCloseCall(t)
      <4>1. ASSUME ModeCloseCall(t) PROVE FALSE
        <5>1. HeadsFor(t, "m_uncall") /\ hw'.mode = hw.mode
          BY <2>1, <4>1 DEF ModeCloseCall, HeadsFor, HwFields
        <5> QED BY <2>8, <5>1 DEF CallMode
      <4> QED BY <4>1
    <3>5. ASSUME ~ModeEnterCall(t) PROVE \E u \in Threads : HeadsFor(u, "m_call")'
      <4>1. hw.mode = "IN_CALL" /\ ~hw.inCall
        <5>1. ~hw.inCall
          BY <2>5, <2>8, <3>3, <3>4
        <5>2. ModeOther(t) => hw.mode = "IN_CALL"
          BY <2>1, <2>8, <5>1, SMTT(30) DEF ModeOther, HwFields
        <5> QED BY <2>4, <2>8, <3>2, <3>5, <5>1, <5>2
      <4>2. PICK u \in Threads : HeadsFor(u, "m_call")
        BY <4>1 DEF CallMode
      <4>3. CASE u # t
        BY <2>2, <4>2, <4>3
      <4>4. CASE u = t
        <5>1. pc[t] = "d_begin" /\ dret[t] = "m_call"
          BY <1>2, <3>3, <4>2, <4>4, AtAction DEF HeadsFor, InDoAt, DetourAt, NoEcho
        <5>2. pc'[t] = "m_call"
          BY <1>2, <2>1, <5>1, AtAction, StandbyAtOnce
        <5> QED BY <5>2 DEF HeadsFor
      <4> QED BY <4>3, <4>4
    <3> QED BY <3>1, <3>5
  <2> QED BY <2>7, <2>8 DEF CallMode
<1> QED BY <1>1, <1>2 DEF Next

(* What the microphone path depends on.                                    *)
MicInv == FoundInv /\ NoEcho /\ CallMode

(* MicMuteRespected is inductive together with them. A changed setting     *)
(* concerns the one active input, which setMicMute puts in standby; the    *)
(* end of a call finds all inputs in standby; every open sets the path.    *)
LEMMA MicMuteStep ==
  ASSUME StreamsInv, OneInput, OneInput', MicInv, MicMuteRespected, [Next]_vars
  PROVE  MicMuteRespected'
<1> DEFINE ToStandby(t, i) == arg[t] = i /\ ret[t] = "drop" /\ pc[t] \in {"si_in", "si_hw", "d_begin"}
<1>1. CASE UNCHANGED vars
  BY <1>1 DEF vars, objects, MicMuteRespected
<1>2. ASSUME NEW t \in Threads, Begin(t) \/ Run(t), NEW i \in mInputs',
             ~in'[i].standby, in'[i].mixer, ~hw'.inCall, hw'.micOff # hw'.micMute
      PROVE  \E u \in Threads : ToStandby(u, i)'
  <2>1. /\ LockInv /\ RefInv /\ OnlyOwn(t) /\ ThreadOK(t) /\ InMove(t)
        /\ pc \in [Threads -> Labels] /\ arg \in [Threads -> Outs \cup Ins \cup {None}]
        /\ ret \in [Threads -> Labels] /\ hw \in HwFields /\ in \in [Ins -> InFields]
        /\ mInputs \subseteq Ins
    BY <1>2, BeginControl, RunControl, Moves DEF ControlStep, StreamsInv, LockInv, TypeOK
  <2>2. ~OpenInputStream(t)
    <3>1. ASSUME OpenInputStream(t) PROVE in'[i] = NewIn
      <4>1. mInputs = {}
        BY <2>1, <3>1 DEF OpenInputStream, OneInput
      <4> QED BY <2>1, <3>1, <4>1 DEF OpenInputStream
    <3> QED BY <1>2, <3>1 DEF NewIn
  <2>3. i \in mInputs /\ i \in Ins
    BY <1>2, <2>1, <2>2, ObjectsMove
  <2>4. ~ModeOpenCall(t)
    BY <1>2, <2>1, CallOpened
  <2>5. ~ModeCloseCall(t)
    BY <1>2, <2>3 DEF ModeCloseCall, MicInv, FoundInv, Found, AllInStandby
  <2>6. ~hw.inCall
    BY <1>2, <2>1, <2>4, <2>5, HwKept, WriteOpenEffect, ReadOpenEffect DEF CallFields
  <2>7. ASSUME hw.mode = "IN_CALL"
        PROVE  /\ hwLock # None
               /\ pc[t] \notin {"w_open", "r_open"}
    <3>1. PICK u \in Threads : HeadsFor(u, "m_call")
      BY <2>6, <2>7 DEF MicInv, CallMode
    <3>2. hwLock = u
      BY <2>1, <3>1, HeadsHold DEF MicInv
    <3>3. pc[u] \notin {"w_open", "r_open"}
      BY <3>1 DEF HeadsFor, InDoAt
    <3> QED BY <2>1, <3>2, <3>3, ConstantsAssumption DEF ThreadOK, Holds
  <2>8. ASSUME ~in[i].standby, in[i].mixer, hw.micOff # hw.micMute,
               ~(pc[t] = "mm_hw" /\ arg'[t] # arg[t]) 
        PROVE  \E u \in Threads : ToStandby(u, i)'
    <3>1. PICK u \in Threads : ToStandby(u, i)
      BY <2>3, <2>6, <2>8 DEF MicMuteRespected
    <3>2. CASE u # t
      BY <2>1, <3>1, <3>2 DEF OnlyOwn
    <3>3. CASE u = t
      <4>1. CASE pc[t] \in {"si_in", "si_hw"}
        <5>1. InStandbyLock(t) \/ InStandbyDo(t)
          BY <1>2, <4>1, AtAction
        <5> QED BY <2>1, <3>1, <3>3, <5>1 DEF InStandbyLock, InStandbyDo, Goto
      <4>2. CASE pc[t] = "d_begin"
        BY <1>2, <2>1, <3>1, <3>3, <4>2, AtAction, StandbyAtOnce DEF MicInv
      <4> QED BY <3>1, <3>3, <4>1, <4>2
    <3> QED BY <3>2, <3>3
  <2>9. CASE SetMicMute(t)
    <3>1. in' = in /\ mInputs' = mInputs /\ hwLock = None /\ hw'.micOff = hw.micOff
      BY <2>1, <2>9, SMTT(30) DEF SetMicMute, objects, HwFields
    <3>2. CASE hw' = hw /\ arg' = arg
      BY <1>2, <2>8, <3>1, <3>2
    <3>3. CASE \E j \in {ActiveInput} : arg' = [arg EXCEPT ![t] = j] /\ ret' = [ret EXCEPT ![t] = "drop"]
                 /\ Goto(t, IF j = None THEN "drop" ELSE "si_in")
      <4>1. ActiveInput = i
        BY <1>2, <2>1, <2>3, <3>1, ConstantsAssumption DEF ActiveInput, OneInput
      <4>2. i # None
        BY <2>3, ConstantsAssumption
      <4>3. ToStandby(t, i)'
        BY <2>1, <3>3, <4>1, <4>2 DEF Goto
      <4> QED BY <4>3
    <3>4. hw.mode # "IN_CALL"
      BY <2>7, <3>1
    <3> QED BY <2>9, <3>2, <3>3, <3>4 DEF SetMicMute
  <2>10. CASE WriteOpen(t)
    <3>1. pc[t] = "w_open" /\ hw.mode # "IN_CALL"
      BY <2>7, <2>10 DEF WriteOpen
    <3>2. CASE spIn[t] = None
      <4>1. in' = in /\ hw'.micOff = hw.micOff /\ hw'.micMute = hw.micMute
        BY <2>1, <2>10, <3>2, WriteOpenEffect DEF CallFields
      <4> QED BY <1>2, <2>8, <3>1, <4>1
    <3>3. CASE spIn[t] # None
      <4>1. spIn[t] = i
        BY <2>3, <3>3, ReachedInput DEF OneInput
      <4>2. hw'.micOff = IF in'[i].mixer /\ hw.mode # "IN_CALL" THEN hw.micMute ELSE hw.micOff
        BY <2>1, <2>10, <3>3, <4>1, WriteOpenEffect
      <4>3. hw'.micMute = hw.micMute
        BY <2>1, <2>10, WriteOpenEffect DEF CallFields
      <4> QED BY <1>2, <3>1, <4>2, <4>3
    <3> QED BY <3>2, <3>3
  <2>11. CASE ReadOpen(t)
    <3>1. pc[t] = "r_open" /\ hw.mode # "IN_CALL"
      BY <2>7, <2>11 DEF ReadOpen
    <3>2. self[t] = i
      BY <2>1, <2>3, <3>1, ReachedInput DEF OneInput, ThreadOK, Pointers, ReadAt
    <3>3. /\ hw'.micMute = hw.micMute
          /\ hw'.micOff = IF in'[i].mixer /\ hw.mode # "IN_CALL" THEN hw.micMute ELSE hw.micOff
      BY <2>1, <2>11, <3>2, ReadOpenEffect
    <3> QED BY <1>2, <3>1, <3>3
  <2>12. ASSUME ~SetMicMute(t), ~WriteOpen(t), ~ReadOpen(t) PROVE \E u \in Threads : ToStandby(u, i)'
    <3>1. hw'.micMute = hw.micMute /\ hw'.micOff = hw.micOff
      BY <1>2, <2>1, <2>12, HwKept
    <3>2. pc[t] \notin {"w_open", "r_open", "mm_hw"}
      BY <1>2, <2>12, AtAction
    <3>3. ~in[i].standby /\ in[i].mixer
      BY <1>2, <2>1, <2>3, <3>2 DEF InMove, OnlyIn, Devices, Closed
    <3> QED BY <1>2, <2>8, <3>1, <3>2, <3>3
  <2> QED BY <2>9, <2>10, <2>11, <2>12
<1> QED BY <1>1, <1>2 DEF Next, MicMuteRespected

(* Outside calls an active input has the microphone path of the mute       *)
(* setting, or setMicMute is about to put it in standby. The hypothesis    *)
(* is what the code needs: setMode and setMicMute put one active input in  *)
(* standby, and with an echo reference doStandby_l drops the hardware      *)
(* lock before the input is in standby.                                    *)
THEOREM MicMuteAlwaysRespected ==
  Ops \cap {"closeIn", "addAec"} = {} => (Spec => []MicMuteRespected)
<1> SUFFICES ASSUME Ops \cap {"closeIn", "addAec"} = {} PROVE Spec => []MicMuteRespected
  OBVIOUS
<1>1. Init => OneInput /\ FoundInv /\ NoEcho /\ CallMode /\ MicMuteRespected
  BY DEF Init, OneInput, FoundInv, Found, NoEcho, EchoOff, DetourAt, NewIn, CallMode, HeadsFor,
         InDoAt, MicMuteRespected
<1>2. StreamsInv /\ OneInput /\ [Next]_vars => OneInput'
  BY OneInputStep
<1>3. StreamsInv /\ StreamsInv' /\ OneInput /\ FoundInv /\ [Next]_vars => FoundInv'
  BY <1>2, FoundStep
<1>4. StreamsInv /\ NoEcho /\ [Next]_vars => NoEcho'
  BY NoEchoStep DEF StreamsInv
<1>5. StreamsInv /\ NoEcho /\ CallMode /\ [Next]_vars => CallMode'
  BY CallModeStep
<1>6. /\ StreamsInv /\ OneInput /\ FoundInv /\ NoEcho /\ CallMode /\ MicMuteRespected
      /\ [Next]_vars
      => MicMuteRespected'
  BY <1>2, MicMuteStep DEF MicInv
<1> QED BY <1>1, <1>2, <1>3, <1>4, <1>5, <1>6, StreamsKept, PTL DEF Spec
=============================================================================
