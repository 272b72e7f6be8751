------------------------- MODULE AudioHardwareProofs -------------------------
(* What is proved of AudioHardware, for every set of threads, streams,       *)
(* entry points and faults: the types, which locks a thread holds where,     *)
(* and that a stream's devices are opened and closed only under its lock.    *)
EXTENDS AudioHardware, TLAPS

OutStandbyAt == {"so_out", "so_hw"}
InDoAt       == {"d_begin", "d_out", "d_in", "d_hw"}
InStandbyAt  == {"si_in", "si_hw", "si_end"} \cup InDoAt
WriteAt      == {"w_out", "w_hw", "w_in", "w_hw2", "w_open", "w_fin", "w_io"}
ReadAt       == {"r_in", "r_hw", "r_out", "r_in2", "r_hw2", "r_open", "r_io"}

(* The local pointers of a thread, by where it is.                           *)
Pointers(t) ==
  /\ pc[t] \in OutStandbyAt \cup {"co_hw"} => arg[t] \in Outs
  /\ pc[t] \in InStandbyAt \cup {"ci_hw"} => arg[t] \in Ins
  /\ pc[t] \in {"d_out", "d_in", "d_hw"} => dOut[t] \in Outs
  /\ pc[t] \in WriteAt \cup {"op_out", "op_hw"} => self[t] \in Outs
  /\ pc[t] \in ReadAt \cup {"ip_in", "ip_hw", "is_in", "is_hw", "fx_add", "fx_remove",
                      "fx_unset"}
       => self[t] \in Ins
  /\ pc[t] \in {"w_in", "w_hw2", "m_in", "m_hw3"} => spIn[t] \in Ins
  /\ pc[t] \in {"r_out", "r_in2", "r_hw2", "m_out", "m_hw2", "co_clear"}
       => spOut[t] \in Outs

(* Where standby() and doStandby_l go back to, and what they find there.     *)
Returns(t) ==
  /\ ret[t] \in {"idle", "free", "fx_add", "drop", "co_clear"}
  /\ \/ pc[t] \in OutStandbyAt \cup {"si_in", "si_hw", "si_end"}
     \/ pc[t] \in InDoAt /\ dret[t] = "si_end"
     => /\ ret[t] = "fx_add" => self[t] \in Ins
        /\ ret[t] = "co_clear" => spOut[t] \in Outs
  /\ pc[t] \in InDoAt =>
       /\ dret[t] \in {"si_end", "w_fin", "m_call", "m_uncall"}
       /\ dret[t] = "w_fin" => self[t] \in Outs

(* The locks a thread holds, by where it is.                                 *)
Holds(t) ==
  /\ pc[t] \in {"si_end", "d_begin", "w_open", "w_fin", "r_open", "m_apply",
                "m_call", "m_uncall", "m_end"} => hwLock = t
  /\ pc[t] = "so_hw" => outLock[arg[t]] = t
  /\ pc[t] \in {"si_hw", "si_end", "d_begin", "d_hw"} => inLock[arg[t]] = t
  /\ pc[t] \in {"d_in", "d_hw"} => outLock[dOut[t]] = t
  /\ pc[t] \in (WriteAt \ {"w_out"}) \cup {"op_hw"} => outLock[self[t]] = t
  /\ pc[t] \in {"r_hw", "r_hw2", "r_open", "r_io", "ip_hw", "is_hw"} => inLock[self[t]] = t
  /\ pc[t] \in {"w_hw2", "w_open", "w_fin", "m_hw3", "m_apply", "m_call", "m_uncall", "m_end"}
       => spIn[t] = None \/ inLock[spIn[t]] = t
  /\ pc[t] \in {"r_in2", "r_hw2", "r_open", "m_hw2", "m_in", "m_hw3", "m_apply",
                "m_call", "m_uncall", "m_end"}
       => spOut[t] = None \/ outLock[spOut[t]] = t

(* The same while doStandby_l runs on behalf of write() or setMode: the      *)
(* output it waits for is not the one already locked.                        *)
HoldsInDo(t) ==
  pc[t] \in InDoAt =>
    /\ dret[t] = "w_fin" =>
         /\ arg[t] = spIn[t]
         /\ outLock[self[t]] = t
         /\ pc[t] \in {"d_in", "d_hw"} => dOut[t] # self[t]
    /\ dret[t] \in {"m_call", "m_uncall"} =>
         /\ arg[t] = spIn[t]
         /\ spOut[t] # None =>
              /\ outLock[spOut[t]] = t
              /\ pc[t] \in {"d_in", "d_hw"} => dOut[t] # spOut[t]

ThreadOK(t) == Pointers(t) /\ Returns(t) /\ Holds(t) /\ HoldsInDo(t)

(* The inductive invariant.                                                  *)
LockInv == TypeOK /\ \A t \in Threads : ThreadOK(t)

-----------------------------------------------------------------------------
(* The type invariant in two parts: who has what and is where, and what is   *)
(* in the objects.                                                           *)
ControlOK ==
  /\ hwLock \in Threads \cup {None}
  /\ outLock \in [Outs -> Threads \cup {None}]
  /\ inLock \in [Ins -> Threads \cup {None}]
  /\ mOutput \in Outs \cup {None}
  /\ mInputs \subseteq Ins
  /\ outLive \subseteq Outs
  /\ inLive \subseteq Ins
  /\ handles \subseteq Outs \cup Ins
  /\ pc \in [Threads -> Labels]
  /\ self \in [Threads -> Outs \cup Ins \cup {None}]
  /\ spOut \in [Threads -> Outs \cup {None}]
  /\ spIn \in [Threads -> Ins \cup {None}]
  /\ dOut \in [Threads -> Outs \cup {None}]
  /\ arg \in [Threads -> Outs \cup Ins \cup {None}]
  /\ ret \in [Threads -> Labels]
  /\ dret \in [Threads -> Labels]

FieldsOK ==
  /\ hw \in HwFields
  /\ out \in [Outs -> OutFields]
  /\ in \in [Ins -> InFields]
  /\ fresh \in [Threads -> BOOLEAN]

(* The two parts together are the type invariant.                            *)
LEMMA TypeParts == TypeOK <=> ControlOK /\ FieldsOK
BY DEF TypeOK, ControlOK, FieldsOK

(* A step of thread t leaves alone the local variables of the other threads  *)
(* and the locks that they hold.                                             *)
OnlyOwn(t) ==
  /\ hwLock \in {t, None} \/ hwLock' = hwLock
  /\ \A o \in Outs : outLock[o] \in {t, None} \/ outLock'[o] = outLock[o]
  /\ \A i \in Ins : inLock[i] \in {t, None} \/ inLock'[i] = inLock[i]
  /\ \A u \in Threads \ {t} :
       /\ pc'[u] = pc[u] /\ self'[u] = self[u] /\ arg'[u] = arg[u]
       /\ ret'[u] = ret[u] /\ dret'[u] = dret[u]
       /\ spOut'[u] = spOut[u] /\ spIn'[u] = spIn[u] /\ dOut'[u] = dOut[u]

(* So what was true of another thread stays true of it.                      *)
LEMMA OthersKeep ==
  ASSUME LockInv, TypeOK', NEW t \in Threads, OnlyOwn(t), NEW u \in Threads \ {t}
  PROVE  ThreadOK(u)'
<1>1. u \in Threads /\ u # t /\ u # None
  BY ConstantsAssumption
<1>2. ThreadOK(u)
  BY DEF LockInv
<1>3. Pointers(u)'
  BY <1>1, <1>2 DEF OnlyOwn, ThreadOK, Pointers
<1>4. Returns(u)'
  BY <1>1, <1>2 DEF OnlyOwn, ThreadOK, Returns
<1>5. Holds(u)'
  BY <1>1, <1>2, ConstantsAssumption
     DEF OnlyOwn, ThreadOK, Holds, Pointers, LockInv, TypeOK, OutStandbyAt, InStandbyAt,
         InDoAt, WriteAt, ReadAt
<1>6. HoldsInDo(u)'
  BY <1>1, <1>2, ConstantsAssumption
     DEF OnlyOwn, ThreadOK, HoldsInDo, Pointers, Returns, LockInv, TypeOK, InDoAt, InStandbyAt
<1> QED BY <1>3, <1>4, <1>5, <1>6 DEF ThreadOK

(* getActiveInput_l returns one of the inputs, or null.                      *)
LEMMA ActiveInputType ==
  ASSUME ControlOK
  PROVE  ActiveInput \in Ins \cup {None}
BY DEF ControlOK, ActiveInput

-----------------------------------------------------------------------------
(* Control: every action keeps the types, the other threads' locks and       *)
(* variables, and what is to be true of its own thread.                      *)
ControlStep(t) == ControlOK' /\ OnlyOwn(t) /\ ThreadOK(t)'

(* Starting a call on a stream or on the hardware object takes no lock and   *)
(* leaves every thread where the invariant says.                             *)
LEMMA BeginControl ==
  ASSUME LockInv, NEW t \in Threads, Begin(t)
  PROVE  ControlStep(t)
<1>a. ControlOK
  BY TypeParts DEF LockInv
<1>b. ActiveInput \in Ins \cup {None}
  BY <1>a, ActiveInputType
<1> USE <1>a, ConstantsAssumption
    DEF LockInv, ControlStep, ControlOK, Labels, OnlyOwn, ThreadOK, Pointers, Returns, Holds,
        HoldsInDo, OutStandbyAt, InStandbyAt, InDoAt, WriteAt, ReadAt, Goto, locks, objects,
        CallFrame, Call, Idle, Return, Destroy, Invalidate
<1>1. CASE CallWrite(t)
  BY <1>1 DEF CallWrite
<1>2. CASE CallRead(t)
  BY <1>2 DEF CallRead
<1>3. CASE CallStandby(t)
  BY <1>3 DEF CallStandby
<1>4. CASE CallSetParameters(t)
  BY <1>4 DEF CallSetParameters
<1>5. CASE CallAddAudioEffect(t)
  BY <1>5 DEF CallAddAudioEffect
<1>6. CASE CallRemoveAudioEffect(t)
  BY <1>6 DEF CallRemoveAudioEffect
<1>7. CASE CallSetMode(t)
  BY <1>7 DEF CallSetMode
<1>8. CASE CallSetMicMute(t)
  BY <1>8 DEF CallSetMicMute
<1>9. CASE CallCloseStream(t)
  BY <1>9 DEF CallCloseStream, CallClose
<1>10. CASE OpenOutputStream(t)
  BY <1>10 DEF OpenOutputStream
<1>11. CASE OpenInputStream(t)
  BY <1>11 DEF OpenInputStream
<1> QED BY <1>1, <1>2, <1>3, <1>4, <1>5, <1>6, <1>7, <1>8, <1>9, <1>10, <1>11 DEF Begin

(* write() opening the devices goes on to its end, or to doStandby_l of an   *)
(* input that could not be opened again.                                     *)
LEMMA WriteOpenPlaces ==
  ASSUME NEW t \in Threads, WriteOpen(t)
  PROVE  /\ pc[t] = "w_open"
         /\ UNCHANGED <<locks, objects, self, spOut, spIn, dOut, fresh, ret>>
         /\ \/ /\ pc' = [pc EXCEPT ![t] = "w_fin"]
               /\ \/ UNCHANGED <<arg, dret>>
                  \/ arg' = [arg EXCEPT ![t] = @] /\ dret' = [dret EXCEPT ![t] = @]
            \/ /\ spIn[t] # None
               /\ arg' = [arg EXCEPT ![t] = spIn[t]]
               /\ dret' = [dret EXCEPT ![t] = "w_fin"]
               /\ pc' = [pc EXCEPT ![t] = "d_begin"]
<1>1. PICK r \in OutOpen(hw) :
        IF spIn[t] = None
        THEN Goto(t, "w_fin") /\ UNCHANGED <<arg, dret>>
        ELSE \E q \in InOpen(r.hw) :
               /\ arg' = [arg EXCEPT ![t] = IF q.pcm THEN @ ELSE spIn[t]]
               /\ dret' = [dret EXCEPT ![t] = IF q.pcm THEN @ ELSE "w_fin"]
               /\ Goto(t, IF q.pcm THEN "w_fin" ELSE "d_begin")
  BY Zenon DEF WriteOpen
<1>2. pc[t] = "w_open" /\ UNCHANGED <<locks, objects, self, spOut, spIn, dOut, fresh, ret>>
  BY DEF WriteOpen
<1>3. CASE spIn[t] = None
  BY <1>1, <1>2, <1>3 DEF Goto
<1>4. CASE spIn[t] # None
  <2>1. PICK q \in InOpen(r.hw) :
          /\ arg' = [arg EXCEPT ![t] = IF q.pcm THEN @ ELSE spIn[t]]
          /\ dret' = [dret EXCEPT ![t] = IF q.pcm THEN @ ELSE "w_fin"]
          /\ Goto(t, IF q.pcm THEN "w_fin" ELSE "d_begin")
    BY <1>1, <1>4
  <2>2. CASE q.pcm
    BY <1>2, <2>1, <2>2 DEF Goto
  <2>3. CASE ~q.pcm
    BY <1>2, <1>4, <2>1, <2>3 DEF Goto
  <2> QED BY <2>2, <2>3
<1> QED BY <1>3, <1>4

(* write() opening the devices on its way out of standby: it stays under the *)
(* three locks, or goes on into doStandby_l of the input.                    *)
LEMMA WriteOpenControl ==
  ASSUME LockInv, NEW t \in Threads, WriteOpen(t)
  PROVE  ControlStep(t)
<1>1. ControlOK /\ ThreadOK(t)
  BY TypeParts DEF LockInv
<1>2. /\ pc[t] = "w_open"
      /\ UNCHANGED <<locks, objects, self, spOut, spIn, dOut, fresh, ret>>
      /\ \/ /\ pc' = [pc EXCEPT ![t] = "w_fin"]
            /\ \/ UNCHANGED <<arg, dret>>
               \/ arg' = [arg EXCEPT ![t] = @] /\ dret' = [dret EXCEPT ![t] = @]
         \/ /\ spIn[t] # None
            /\ arg' = [arg EXCEPT ![t] = spIn[t]]
            /\ dret' = [dret EXCEPT ![t] = "w_fin"]
            /\ pc' = [pc EXCEPT ![t] = "d_begin"]
  BY WriteOpenPlaces
<1> USE <1>1, <1>2, ConstantsAssumption DEF locks, objects, ControlOK
<1>3. ControlOK'
  BY DEF Labels
<1>4. OnlyOwn(t)
  BY DEF OnlyOwn
<1>5. ThreadOK(t)'
  <2> USE DEF ThreadOK, Pointers, Returns, Holds, HoldsInDo, OutStandbyAt, InStandbyAt,
              InDoAt, WriteAt, ReadAt
  <2>1. CASE pc' = [pc EXCEPT ![t] = "w_fin"]
    BY <2>1
  <2>2. CASE pc' = [pc EXCEPT ![t] = "d_begin"] /\ spIn[t] # None
             /\ arg' = [arg EXCEPT ![t] = spIn[t]] /\ dret' = [dret EXCEPT ![t] = "w_fin"]
    BY <2>2
  <2> QED BY <2>1, <2>2
<1> QED BY <1>3, <1>4, <1>5 DEF ControlStep

(* setMode at the start of a call, under its locks, goes on to doStandby_l   *)
(* of the input or to opening the devices of the call.                       *)
LEMMA ModeEnterCallControl ==
  ASSUME LockInv, NEW t \in Threads, ModeEnterCall(t)
  PROVE  ControlStep(t)
<1>1. ControlOK /\ ThreadOK(t)
  BY TypeParts DEF LockInv
<1> USE <1>1, ConstantsAssumption
    DEF ModeEnterCall, ForceOutputStandby, ForceInputStandby, Goto, locks, objects, ControlOK, Holds
<1>2. ControlOK'
  BY DEF Labels
<1>3. OnlyOwn(t)
  BY DEF OnlyOwn
<1>4. Pointers(t)'
  BY DEF ThreadOK, Pointers, OutStandbyAt, InStandbyAt, InDoAt, WriteAt, ReadAt
<1>5. Returns(t)'
  <2> USE DEF ThreadOK, Returns, OutStandbyAt, InStandbyAt, InDoAt
  <2>1. CASE spIn[t] = None
    BY <2>1
  <2>2. CASE spIn[t] # None
    BY <2>2
  <2> QED BY <2>1, <2>2
<1>6. Holds(t)'
  <2>1. /\ hwLock = t
        /\ spIn[t] = None \/ inLock[spIn[t]] = t
        /\ spOut[t] = None \/ outLock[spOut[t]] = t
    BY DEF ThreadOK
  <2>2. CASE spIn[t] = None
    BY <2>1, <2>2 DEF WriteAt
  <2>3. CASE spIn[t] # None
    BY <2>1, <2>3 DEF WriteAt
  <2> QED BY <2>2, <2>3
<1>7. HoldsInDo(t)'
  BY DEF ThreadOK, HoldsInDo, InDoAt
<1> QED BY <1>2, <1>3, <1>4, <1>5, <1>6, <1>7 DEF ControlStep, ThreadOK

(* The same at the end of a call.                                            *)
LEMMA ModeLeaveCallControl ==
  ASSUME LockInv, NEW t \in Threads, ModeLeaveCall(t)
  PROVE  ControlStep(t)
<1>1. ControlOK /\ ThreadOK(t)
  BY TypeParts DEF LockInv
<1> USE <1>1, ConstantsAssumption
    DEF ModeLeaveCall, ForceOutputStandby, ForceInputStandby, Goto, locks, objects, ControlOK, Holds
<1>2. ControlOK'
  BY DEF Labels
<1>3. OnlyOwn(t)
  BY DEF OnlyOwn
<1>4. Pointers(t)'
  BY DEF ThreadOK, Pointers, OutStandbyAt, InStandbyAt, InDoAt, WriteAt, ReadAt
<1>5. Returns(t)'
  <2> USE DEF ThreadOK, Returns, OutStandbyAt, InStandbyAt, InDoAt
  <2>1. CASE spIn[t] = None
    BY <2>1
  <2>2. CASE spIn[t] # None
    BY <2>2
  <2> QED BY <2>1, <2>2
<1>6. Holds(t)'
  <2>1. /\ hwLock = t
        /\ spIn[t] = None \/ inLock[spIn[t]] = t
        /\ spOut[t] = None \/ outLock[spOut[t]] = t
    BY DEF ThreadOK
  <2>2. CASE spIn[t] = None
    BY <2>1, <2>2 DEF WriteAt
  <2>3. CASE spIn[t] # None
    BY <2>1, <2>3 DEF WriteAt
  <2> QED BY <2>2, <2>3
<1>7. HoldsInDo(t)'
  BY DEF ThreadOK, HoldsInDo, InDoAt
<1> QED BY <1>2, <1>3, <1>4, <1>5, <1>6, <1>7 DEF ControlStep, ThreadOK

(* Every step of the code from one lock acquisition to the next keeps the    *)
(* locks and pointers of its thread as the invariant says.                   *)
LEMMA RunControl ==
  ASSUME LockInv, NEW t \in Threads, Run(t)
  PROVE  ControlStep(t)
<1>a. ControlOK
  BY TypeParts DEF LockInv
<1>b. ActiveInput \in Ins \cup {None}
  BY <1>a, ActiveInputType
<1> USE <1>a, ConstantsAssumption
    DEF LockInv, ControlStep, ControlOK, Labels, OnlyOwn, ThreadOK, Pointers, Returns, Holds,
        HoldsInDo, OutStandbyAt, InStandbyAt, InDoAt, WriteAt, ReadAt, Goto, locks, objects,
        CallFrame, Call, Idle, Return, Destroy, Invalidate
<1>1. CASE OutStandbyLock(t)
  BY <1>1 DEF OutStandbyLock
<1>2. CASE OutStandbyDo(t)
  BY <1>2, SMTT(30) DEF OutStandbyDo
<1>3. CASE InStandbyLock(t)
  BY <1>3 DEF InStandbyLock
<1>4. CASE InStandbyDo(t)
  BY <1>4 DEF InStandbyDo
<1>5. CASE InStandbyEnd(t)
  BY <1>5, SMTT(30) DEF InStandbyEnd
<1>6. CASE InDoStandbyBegin(t)
  BY <1>6, SMTT(30) DEF InDoStandbyBegin
<1>7. CASE InDoStandbyOut(t)
  BY <1>7 DEF InDoStandbyOut
<1>8. CASE InDoStandbyIn(t)
  BY <1>8 DEF InDoStandbyIn
<1>9. CASE InDoStandbyEnd(t)
  BY <1>9, SMTT(30) DEF InDoStandbyEnd, LastRefOut
<1>10. CASE WriteLock(t)
  BY <1>10 DEF WriteLock
<1>11. CASE WriteExitStandby(t)
  BY <1>11, <1>b DEF WriteExitStandby, SelectInput
<1>12. CASE WriteLockInput(t)
  BY <1>12 DEF WriteLockInput
<1>13. CASE WriteCloseInput(t)
  BY <1>13 DEF WriteCloseInput
<1>14. CASE WriteRetryInput(t)
  BY <1>14, <1>b, SMTT(30) DEF WriteRetryInput, ReselectInput, LastRefIn, SelectInput
<1>15. CASE WriteOpen(t)
  BY <1>15, WriteOpenControl
<1>16. CASE WriteOpened(t)
  BY <1>16, SMTT(30) DEF WriteOpened, LastRefIn
<1>17. CASE WriteData(t)
  BY <1>17, SMTT(30) DEF WriteData
<1>18. CASE ReadLock(t)
  BY <1>18 DEF ReadLock
<1>19. CASE ReadExitStandby(t)
  BY <1>19 DEF ReadExitStandby, SelectOutput
<1>20. CASE ReadLockOutput(t)
  BY <1>20 DEF ReadLockOutput
<1>21. CASE ReadRelock(t)
  BY <1>21 DEF ReadRelock
<1>22. CASE ReadKeepOutput(t)
  BY <1>22 DEF ReadKeepOutput
<1>23. CASE ReadRetryOutput(t)
  BY <1>23, SMTT(30) DEF ReadRetryOutput, LastRefOut, SelectOutput
<1>24. CASE ReadOpen(t)
  BY <1>24, SMTT(30) DEF ReadOpen
<1>25. CASE ReadData(t)
  BY <1>25, SMTT(30) DEF ReadData
<1>26. CASE OutParametersLock(t)
  BY <1>26 DEF OutParametersLock
<1>27. CASE OutSetRouting(t)
  BY <1>27, SMTT(30) DEF OutSetRouting
<1>28. CASE InParametersLock(t)
  BY <1>28 DEF InParametersLock
<1>29. CASE InSetRouting(t)
  BY <1>29, SMTT(30) DEF InSetRouting
<1>30. CASE InSetSource(t)
  BY <1>30, SMTT(30) DEF InSetSource
<1>31. CASE AddEffect(t)
  BY <1>31 DEF AddEffect
<1>32. CASE RemoveEffect(t)
  BY <1>32 DEF RemoveEffect
<1>32a. CASE UnsetEcho(t)
  BY <1>32a DEF UnsetEcho
<1>33. CASE ModeBegin(t)
  BY <1>33, <1>b DEF ModeBegin, SelectActive, SelectInput
<1>34. CASE ModeLockOutput(t)
  BY <1>34 DEF ModeLockOutput
<1>35. CASE ModeKeepOutput(t)
  BY <1>35, <1>b DEF ModeKeepOutput, SelectInput, OutputUnmoved
<1>36. CASE ModeRetryOutput(t)
  BY <1>36, <1>b, SMTT(30) DEF ModeRetryOutput, LastRefOut, SelectActive, SelectInput, OutputUnmoved
<1>37. CASE ModeLockInput(t)
  BY <1>37 DEF ModeLockInput
<1>38. CASE ModeKeepInput(t)
  BY <1>38 DEF ModeKeepInput
<1>39. CASE ModeRetryInput(t)
  BY <1>39, <1>b, SMTT(30) DEF ModeRetryInput, ReselectInput, LastRefIn, SelectInput
<1>40. CASE ModeEnterCall(t)
  BY <1>40, ModeEnterCallControl
<1>41. CASE ModeOpenCall(t)
  BY <1>41 DEF ModeOpenCall
<1>42. CASE ModeLeaveCall(t)
  BY <1>42, ModeLeaveCallControl
<1>43. CASE ModeCloseCall(t)
  BY <1>43 DEF ModeCloseCall
<1>44. CASE ModeOther(t)
  BY <1>44 DEF ModeOther
<1>45. CASE ModeEnd(t)
  BY <1>45 DEF ModeEnd
<1>46. CASE SetMicMute(t)
  BY <1>46, <1>b, SMTT(30) DEF SetMicMute
<1>47. CASE CloseOutputStream(t)
  BY <1>47, <1>b, SMTT(30) DEF CloseOutputStream
<1>48. CASE CloseOutputClear(t)
  BY <1>48 DEF CloseOutputClear, LastRefOut
<1>49. CASE CloseInputStream(t)
  BY <1>49 DEF CloseInputStream
<1>50. CASE DropPointers(t)
  BY <1>50, SMTT(30) DEF DropPointers, LastRefIn, LastRefOut
<1>51. CASE FreeStream(t)
  BY <1>51 DEF FreeStream
<1> QED BY <1>1, <1>2, <1>3, <1>4, <1>5, <1>6, <1>7, <1>8, <1>9, <1>10, <1>11, <1>12,
           <1>13, <1>14, <1>15, <1>16, <1>17, <1>18, <1>19, <1>20, <1>21, <1>22, <1>23,
           <1>24, <1>25, <1>26, <1>27, <1>28, <1>29, <1>30, <1>31, <1>32, <1>32a, <1>33,
           <1>34, <1>35, <1>36, <1>37, <1>38, <1>39, <1>40, <1>41, <1>42, <1>43, <1>44,
           <1>45, <1>46, <1>47, <1>48, <1>49, <1>50, <1>51 DEF Run

-----------------------------------------------------------------------------
(* Fields: the helpers keep the types of the records.                        *)

(* Opening and closing the counted playback device and mixer keeps the types *)
(* of the fields of AudioHardware.                                           *)
LEMMA HwOperations ==
  ASSUME NEW h \in HwFields
  PROVE  /\ openPcmOut_l(h) \subseteq HwFields
         /\ openMixer_l(h) \subseteq HwFields
         /\ closePcmOut_l(h) \in HwFields
         /\ closeMixer_l(h) \in HwFields
BY DEF HwFields, openPcmOut_l, openMixer_l, closePcmOut_l, closeMixer_l

(* So do close_l and doStandby_l of an output, and the fields of the output  *)
(* keep theirs.                                                              *)
LEMMA OutOperations ==
  ASSUME NEW h \in HwFields, NEW s \in OutFields
  PROVE  /\ OutCloseHw(h, s) \in HwFields
         /\ OutStandbyHw(h, s) \in HwFields
         /\ OutStandby(s) \in OutFields
<1>1. ASSUME NEW g \in HwFields PROVE OutCloseHw(g, s) \in HwFields
  BY HwOperations DEF OutCloseHw
<1>2. (IF s.standby THEN h ELSE [h EXCEPT !.wake = FALSE]) \in HwFields
  BY DEF HwFields
<1>3. OutStandby(s) \in OutFields
  BY DEF OutFields, OutStandby
<1> QED BY <1>1, <1>2, <1>3 DEF OutStandbyHw

(* The outcomes of open_l of an output have the types of the fields they are *)
(* stored in.                                                                *)
LEMMA OutOpenType ==
  ASSUME NEW h \in HwFields, NEW r \in OutOpen(h)
  PROVE  r.hw \in HwFields /\ r.pcm \in BOOLEAN /\ r.mixer \in BOOLEAN
<1>1. PICK h1 \in openPcmOut_l(h) :
        \/ r = [hw |-> h1, pcm |-> FALSE, mixer |-> FALSE]
        \/ \E h2 \in openMixer_l(h1) : r = [hw |-> h2, pcm |-> TRUE, mixer |-> h2.mixerCnt > 0]
  BY DEF OutOpen
<1>2. h1 \in HwFields
  BY HwOperations
<1>3. openMixer_l(h1) \subseteq HwFields
  BY <1>2, HwOperations
<1>4. CASE r = [hw |-> h1, pcm |-> FALSE, mixer |-> FALSE]
  BY <1>2, <1>4
<1>5. CASE \E h2 \in openMixer_l(h1) : r = [hw |-> h2, pcm |-> TRUE, mixer |-> h2.mixerCnt > 0]
  BY <1>3, <1>5
<1> QED BY <1>1, <1>4, <1>5

(* close_l of an input keeps the types of the fields it touches.             *)
LEMMA InOperations ==
  ASSUME NEW h \in HwFields, NEW s \in InFields
  PROVE  InCloseHw(h, s) \in HwFields /\ InClose(s) \in InFields
BY HwOperations DEF InCloseHw, InClose, InFields

(* The outcomes of open_l of an input have the types of the fields they are  *)
(* stored in.                                                                *)
LEMMA InOpenType ==
  ASSUME NEW h \in HwFields, NEW r \in InOpen(h)
  PROVE  r.hw \in HwFields /\ r.pcm \in BOOLEAN /\ r.mixer \in BOOLEAN
<1>1. CASE r = [hw |-> h, pcm |-> FALSE, mixer |-> FALSE]
  BY <1>1
<1>2. CASE \E h1 \in openMixer_l(h) :
             r = [hw |-> [h1 EXCEPT !.micOff = IF h1.mixerCnt > 0 /\ h1.mode # "IN_CALL"
                                               THEN h1.micMute ELSE @],
                  pcm |-> TRUE, mixer |-> h1.mixerCnt > 0]
  <2>1. PICK h1 \in openMixer_l(h) :
             r = [hw |-> [h1 EXCEPT !.micOff = IF h1.mixerCnt > 0 /\ h1.mode # "IN_CALL"
                                               THEN h1.micMute ELSE @],
                  pcm |-> TRUE, mixer |-> h1.mixerCnt > 0]
    BY <1>2
  <2>2. h1 \in HwFields
    BY HwOperations
  <2> QED BY <2>1, <2>2 DEF HwFields
<1> QED BY <1>1, <1>2 DEF InOpen

(* releaseEchoReference keeps the types and touches the devices of no        *)
(* stream.                                                                   *)
LEMMA EchoOperations ==
  ASSUME NEW h \in HwFields, NEW f \in [Outs -> OutFields], NEW e,
         mOutput \in Outs \cup {None}
  PROVE  /\ ReleaseEchoHw(h, e) \in HwFields
         /\ ReleaseEchoOut(f, h, e) \in [Outs -> OutFields]
         /\ \A o \in Outs : Devices(ReleaseEchoOut(f, h, e)[o]) = Devices(f[o])
<1>1. ReleaseEchoHw(h, e) \in HwFields
  BY DEF ReleaseEchoHw, HwFields
<1>2. CASE e # None /\ e = h.echo /\ mOutput # None /\ f[mOutput].echo = e
  BY <1>1, <1>2 DEF ReleaseEchoOut, OutFields, Devices
<1>3. CASE ~(e # None /\ e = h.echo /\ mOutput # None /\ f[mOutput].echo = e)
  BY <1>1, <1>3 DEF ReleaseEchoOut
<1> QED BY <1>2, <1>3

(* Neither does getEchoReference, whether or not it gets a new reference.    *)
LEMMA GetEchoType ==
  ASSUME NEW h \in HwFields, NEW f \in [Outs -> OutFields], mOutput \in Outs \cup {None},
         NEW r \in getEchoReference(h, f)
  PROVE  /\ r.hw \in HwFields
         /\ r.ref \in EchoRefs \cup {None}
         /\ r.out \in [Outs -> OutFields]
         /\ \A o \in Outs : Devices(r.out[o]) = Devices(f[o])
<1> DEFINE h1 == ReleaseEchoHw(h, h.echo)
           f1 == ReleaseEchoOut(f, h, h.echo)
<1>1. /\ h1 \in HwFields
      /\ f1 \in [Outs -> OutFields]
      /\ \A o \in Outs : Devices(f1[o]) = Devices(f[o])
  BY EchoOperations
<1>2. \/ r = [hw |-> h1, ref |-> None, out |-> f1]
      \/ mOutput # None /\ \E e \in UnusedEchoRefs :
           r = [hw |-> [h1 EXCEPT !.echo = e], ref |-> e,
                out |-> IF f1[mOutput].echo = None THEN [f1 EXCEPT ![mOutput].echo = e] ELSE f1]
  BY DEF getEchoReference
<1> HIDE DEF h1, f1
<1>3. CASE r = [hw |-> h1, ref |-> None, out |-> f1]
  BY <1>1, <1>3
<1>4. CASE mOutput # None /\ \E e \in UnusedEchoRefs :
           r = [hw |-> [h1 EXCEPT !.echo = e], ref |-> e,
                out |-> IF f1[mOutput].echo = None THEN [f1 EXCEPT ![mOutput].echo = e] ELSE f1]
  <2>1. PICK e \in UnusedEchoRefs :
           r = [hw |-> [h1 EXCEPT !.echo = e], ref |-> e,
                out |-> IF f1[mOutput].echo = None THEN [f1 EXCEPT ![mOutput].echo = e] ELSE f1]
    BY <1>4
  <2>0. mOutput \in Outs
    BY <1>4
  <2>2. e \in EchoRefs
    BY DEF UnusedEchoRefs
  <2>3. [h1 EXCEPT !.echo = e] \in HwFields
    BY <1>1, <2>2 DEF HwFields
  <2>4. /\ [f1 EXCEPT ![mOutput].echo = e] \in [Outs -> OutFields]
        /\ \A o \in Outs : Devices([f1 EXCEPT ![mOutput].echo = e][o]) = Devices(f1[o])
    BY <1>1, <2>0, <2>2 DEF OutFields, Devices
  <2> QED BY <1>1, <2>1, <2>2, <2>3, <2>4
<1> QED BY <1>2, <1>3, <1>4

-----------------------------------------------------------------------------
(* Fields: what each action does to them.                                    *)
FieldsStep == FieldsOK' /\ DevicesStep

(* The ways standbyCnt comparisons are recorded keep the type of that        *)
(* record.                                                                   *)
LEMMA FreshType ==
  ASSUME fresh \in [Threads -> BOOLEAN], NEW t \in Threads,
         \/ fresh' = fresh
         \/ fresh' = [fresh EXCEPT ![t] = TRUE]
         \/ fresh' = [fresh EXCEPT ![t] = FALSE]
         \/ \E s : fresh' = Invalidate(s)
  PROVE  fresh' \in [Threads -> BOOLEAN]
<1>1. CASE fresh' = fresh
  BY <1>1
<1>2. CASE fresh' = [fresh EXCEPT ![t] = TRUE]
  BY <1>2, Zenon
<1>3. CASE fresh' = [fresh EXCEPT ![t] = FALSE]
  BY <1>3, Zenon
<1>4. CASE \E s : fresh' = Invalidate(s)
  BY <1>4, Zenon DEF Invalidate
<1> QED BY <1>1, <1>2, <1>3, <1>4

(* A thread that looks for the active input records that it has read the     *)
(* count, or forgets it.                                                     *)
LEMMA SelectFresh ==
  ASSUME NEW t, NEW wait, NEW done, SelectInput(t, wait, done)
  PROVE  fresh' = [fresh EXCEPT ![t] = TRUE] \/ fresh' = [fresh EXCEPT ![t] = FALSE]
BY DEF SelectInput

(* So does one whose wait was in vain, unless it runs into a destructor.     *)
LEMMA ReselectFresh ==
  ASSUME NEW t, NEW wait, NEW done, ReselectInput(t, wait, done)
  PROVE  \/ fresh' = [fresh EXCEPT ![t] = TRUE] \/ fresh' = [fresh EXCEPT ![t] = FALSE]
         \/ fresh' = fresh
BY SelectFresh DEF ReselectInput

(* The actions that touch no record.                                         *)
ControlActions(t) ==
  \/ CallWrite(t) \/ CallRead(t) \/ CallStandby(t) \/ CallSetParameters(t)
  \/ CallRemoveAudioEffect(t) \/ CallSetMode(t) \/ CallSetMicMute(t) \/ CallCloseStream(t)
  \/ OutStandbyLock(t) \/ InStandbyLock(t) \/ InStandbyDo(t) \/ InStandbyEnd(t)
  \/ InDoStandbyOut(t) \/ InDoStandbyIn(t)
  \/ WriteLock(t) \/ WriteLockInput(t) \/ WriteRetryInput(t) \/ WriteData(t)
  \/ ReadLock(t) \/ ReadExitStandby(t) \/ ReadLockOutput(t) \/ ReadRelock(t)
  \/ ReadKeepOutput(t) \/ ReadRetryOutput(t) \/ ReadData(t)
  \/ OutParametersLock(t) \/ InParametersLock(t) \/ InSetRouting(t)
  \/ ModeBegin(t) \/ ModeLockOutput(t) \/ ModeKeepOutput(t) \/ ModeRetryOutput(t)
  \/ ModeLockInput(t) \/ ModeKeepInput(t) \/ ModeRetryInput(t) \/ ModeEnd(t)
  \/ CloseOutputStream(t) \/ CloseOutputClear(t) \/ CloseInputStream(t)
  \/ DropPointers(t) \/ FreeStream(t)

(* They leave the fields of every object as they are.                        *)
LEMMA ControlUntouched ==
  ASSUME NEW t \in Threads, ControlActions(t)
  PROVE  UNCHANGED <<hw, out, in>>
BY DEF ControlActions, CallWrite, CallRead, CallStandby, CallSetParameters,
       CallRemoveAudioEffect, CallSetMode, CallSetMicMute, CallCloseStream, CallClose, CallFrame,
       OutStandbyLock, InStandbyLock, InStandbyDo, InStandbyEnd, InDoStandbyOut, InDoStandbyIn,
       WriteLock, WriteLockInput, WriteRetryInput, WriteData, ReadLock, ReadExitStandby,
       ReadLockOutput, ReadRelock, ReadKeepOutput, ReadRetryOutput, ReadData,
       OutParametersLock, InParametersLock, InSetRouting, ModeBegin, ModeLockOutput,
       ModeKeepOutput, ModeRetryOutput, ModeLockInput, ModeKeepInput, ModeRetryInput, ModeEnd,
       CloseOutputStream, CloseOutputClear, CloseInputStream, DropPointers, FreeStream

(* So they keep the types, and the devices of every stream.                  *)
LEMMA ControlFields ==
  ASSUME LockInv, NEW t \in Threads, ControlActions(t)
  PROVE  FieldsStep
<1>1. UNCHANGED <<hw, out, in>>
  BY ControlUntouched
<1>2. \/ fresh' = fresh
      \/ fresh' = [fresh EXCEPT ![t] = TRUE]
      \/ fresh' = [fresh EXCEPT ![t] = FALSE]
  BY SelectFresh, ReselectFresh
     DEF ControlActions, CallWrite, CallRead, CallStandby, CallSetParameters,
         CallRemoveAudioEffect, CallSetMode, CallSetMicMute, CallCloseStream, CallClose, CallFrame,
         OutStandbyLock, InStandbyLock, InStandbyDo, InStandbyEnd, InDoStandbyOut, InDoStandbyIn,
         WriteLock, WriteLockInput, WriteRetryInput, WriteData, ReadLock, ReadExitStandby,
         ReadLockOutput, ReadRelock, ReadKeepOutput, ReadRetryOutput, ReadData,
         OutParametersLock, InParametersLock, InSetRouting, ModeBegin, ModeLockOutput,
         ModeKeepOutput, ModeRetryOutput, ModeLockInput, ModeKeepInput, ModeRetryInput, ModeEnd,
         CloseOutputStream, CloseOutputClear, CloseInputStream, DropPointers, FreeStream,
         SelectActive
<1>3. fresh' \in [Threads -> BOOLEAN]
  BY <1>2, FreshType DEF LockInv, TypeOK
<1> QED BY <1>1, <1>3 DEF FieldsStep, FieldsOK, DevicesStep, LockInv, TypeOK

(* The actions that touch the hardware object only.                          *)
LEMMA HardwareFields ==
  ASSUME LockInv, NEW t \in Threads,
         \/ WriteExitStandby(t) \/ InSetSource(t) \/ ModeOpenCall(t) \/ ModeCloseCall(t)
         \/ ModeOther(t) \/ SetMicMute(t)
  PROVE  FieldsStep
<1>1. UNCHANGED <<out, in>>
  BY DEF WriteExitStandby, InSetSource, ModeOpenCall, ModeCloseCall, ModeOther, SetMicMute
<1>2. hw' \in HwFields
  <2>1. hw \in HwFields
    BY DEF LockInv, TypeOK
  <2>2. CASE WriteExitStandby(t) \/ ModeCloseCall(t) \/ ModeOther(t) \/ SetMicMute(t)
    BY <2>1, <2>2 DEF WriteExitStandby, ModeCloseCall, ModeOther, SetMicMute, HwFields
  <2>3. CASE InSetSource(t)
    BY <2>1, <2>3, HwOperations DEF InSetSource
  <2>4. CASE ModeOpenCall(t)
    <3>1. PICK h1 \in openPcmOut_l(hw) : \E h2 \in openMixer_l(h1) : hw' = [h2 EXCEPT !.inCall = TRUE]
      BY <2>4 DEF ModeOpenCall
    <3>2. h1 \in HwFields
      BY <2>1, HwOperations
    <3>3. PICK h2 \in openMixer_l(h1) : hw' = [h2 EXCEPT !.inCall = TRUE]
      BY <3>1
    <3>4. h2 \in HwFields
      BY <3>2, HwOperations
    <3> QED BY <3>3, <3>4 DEF HwFields
  <2> QED BY <2>2, <2>3, <2>4
<1>3. fresh' \in [Threads -> BOOLEAN]
  <2>1. \/ fresh' = fresh
        \/ fresh' = [fresh EXCEPT ![t] = TRUE]
        \/ fresh' = [fresh EXCEPT ![t] = FALSE]
    BY SelectFresh DEF WriteExitStandby, InSetSource, ModeOpenCall, ModeCloseCall, ModeOther,
                       SetMicMute
  <2> QED BY <2>1, FreshType DEF LockInv, TypeOK
<1> QED BY <1>1, <1>2, <1>3 DEF FieldsStep, FieldsOK, DevicesStep, LockInv, TypeOK

(* A step of t that changes the devices only of streams t has locked.        *)
LEMMA Guards ==
  ASSUME LockInv, NEW t \in Threads, pc'[t] # pc[t],
         \A o \in Outs : Devices(out'[o]) = Devices(out[o]) \/ outLock[o] = t,
         \A i \in Ins : Devices(in'[i]) = Devices(in[i]) \/ inLock[i] = t
  PROVE  DevicesStep
BY DEF DevicesStep, StepsUnder, LockInv, TypeOK

(* doStandby_l of a locked output, from write, standby, setParameters or     *)
(* setMode alike, closes the devices of that output only.                    *)
LEMMA OutputStandbyFields ==
  ASSUME LockInv, NEW t \in Threads, NEW o \in Outs, NEW h \in HwFields, outLock[o] = t,
         hw' = OutStandbyHw(h, out[o]), out' = [out EXCEPT ![o] = OutStandby(@)],
         fresh' = Invalidate(o), in' = in, pc'[t] # pc[t]
  PROVE  FieldsStep
<1>1. out[o] \in OutFields /\ fresh \in [Threads -> BOOLEAN] /\ out \in [Outs -> OutFields]
      /\ in \in [Ins -> InFields]
  BY DEF LockInv, TypeOK
<1>2. hw' \in HwFields /\ out' \in [Outs -> OutFields]
  BY <1>1, OutOperations
<1>3. fresh' \in [Threads -> BOOLEAN]
  BY <1>1, FreshType
<1>4. \A x \in Outs : Devices(out'[x]) = Devices(out[x]) \/ outLock[x] = t
  BY <1>1
<1>5. DevicesStep
  BY <1>4, Guards
<1> QED BY <1>1, <1>2, <1>3, <1>5 DEF FieldsStep, FieldsOK

(* standby() has the lock of the output it closes.                           *)
LEMMA OutStandbyDoFields ==
  ASSUME LockInv, NEW t \in Threads, OutStandbyDo(t)
  PROVE  FieldsStep
<1>1. hw \in HwFields /\ pc \in [Threads -> Labels] /\ ThreadOK(t)
  BY DEF LockInv, TypeOK
<1>2. arg[t] \in Outs /\ outLock[arg[t]] = t
  BY <1>1 DEF ThreadOK, Pointers, Holds, OutStandbyDo, OutStandbyAt
<1>3. pc'[t] # pc[t]
  BY <1>1 DEF OutStandbyDo, Return, Goto, ThreadOK, Returns
<1> QED BY <1>1, <1>2, <1>3, OutputStandbyFields DEF OutStandbyDo

(* setParameters has the lock of the output it puts in standby.              *)
LEMMA OutSetRoutingFields ==
  ASSUME LockInv, NEW t \in Threads, OutSetRouting(t)
  PROVE  FieldsStep
<1>1. hw \in HwFields /\ pc \in [Threads -> Labels] /\ ThreadOK(t)
  BY DEF LockInv, TypeOK
<1>2. self[t] \in Outs /\ outLock[self[t]] = t /\ pc'[t] # pc[t] /\ in' = in
  BY <1>1 DEF ThreadOK, Pointers, Holds, OutSetRouting, Return, Goto
<1>3. CASE UNCHANGED <<hw, out, fresh>>
  BY <1>2, <1>3 DEF FieldsStep, FieldsOK, DevicesStep, LockInv, TypeOK
<1>4. CASE hw' = OutStandbyHw(hw, out[self[t]]) /\ fresh' = Invalidate(self[t])
             /\ out' = [out EXCEPT ![self[t]] = OutStandby(@)]
  BY <1>1, <1>2, <1>4, OutputStandbyFields
<1> QED BY <1>3, <1>4 DEF OutSetRouting

(* setMode has the lock of the output it puts in standby for a call.         *)
LEMMA ModeFields ==
  ASSUME LockInv, NEW t \in Threads, ModeEnterCall(t) \/ ModeLeaveCall(t)
  PROVE  FieldsStep
<1>1. hw \in HwFields /\ pc \in [Threads -> Labels] /\ ThreadOK(t)
      /\ spOut[t] \in Outs \cup {None}
  BY DEF LockInv, TypeOK
<1>2. PICK h \in HwFields : ForceOutputStandby(t, h)
  <2>1. [hw EXCEPT !.mode = "IN_CALL"] \in HwFields
    BY <1>1 DEF HwFields, Modes
  <2>2. [hw EXCEPT !.mode = "NORMAL"] \in HwFields
    BY <1>1 DEF HwFields, Modes
  <2>3. closePcmOut_l(closeMixer_l([hw EXCEPT !.mode = "NORMAL"])) \in HwFields
    BY <2>2, HwOperations
  <2> QED BY <2>1, <2>3 DEF ModeEnterCall, ModeLeaveCall
<1>3. pc'[t] # pc[t] /\ in' = in
  BY <1>1 DEF ModeEnterCall, ModeLeaveCall, ForceInputStandby, Goto
<1>4. CASE spOut[t] = None
  <2>1. hw' = h /\ UNCHANGED <<out, fresh, in>>
    BY <1>2, <1>3, <1>4 DEF ForceOutputStandby
  <2> QED BY <2>1 DEF FieldsStep, FieldsOK, DevicesStep, LockInv, TypeOK
<1>5. CASE spOut[t] # None
  <2>1. spOut[t] \in Outs /\ outLock[spOut[t]] = t
    BY <1>1, <1>5 DEF ThreadOK, Holds, ModeEnterCall, ModeLeaveCall
  <2> QED BY <1>2, <1>3, <1>5, <2>1, OutputStandbyFields DEF ForceOutputStandby
<1> QED BY <1>4, <1>5

(* A stream being opened is one that nobody could lock before.               *)
LEMMA OpenFields ==
  ASSUME LockInv, NEW t \in Threads, OpenOutputStream(t) \/ OpenInputStream(t)
  PROVE  FieldsStep
<1>1. FieldsOK
  BY TypeParts DEF LockInv
<1>2. CASE OpenOutputStream(t)
  BY <1>1, <1>2 DEF OpenOutputStream, FieldsStep, FieldsOK, DevicesStep, NewOut, OutFields
<1>3. CASE OpenInputStream(t)
  BY <1>1, <1>3 DEF OpenInputStream, FieldsStep, FieldsOK, DevicesStep, NewIn, InFields
<1> QED BY <1>2, <1>3

(* Adding and removing an effect opens and closes no device.                 *)
LEMMA EffectFields ==
  ASSUME LockInv, NEW t \in Threads,
         CallAddAudioEffect(t) \/ AddEffect(t) \/ RemoveEffect(t) \/ UnsetEcho(t)
  PROVE  FieldsStep
<1>1. FieldsOK /\ outLive \subseteq Outs /\ inLive \subseteq Ins
  BY TypeParts DEF LockInv, TypeOK
<1>2. UNCHANGED <<hw, out, fresh>>
  BY DEF CallAddAudioEffect, AddEffect, RemoveEffect, UnsetEcho, CallFrame
<1>3. PICK i \in Ins : \/ in' = [in EXCEPT ![i].needEcho = TRUE]
                       \/ in' = [in EXCEPT ![i].fx = TRUE]
                       \/ in' = [in EXCEPT ![i].fx = FALSE]
                       \/ in' = [in EXCEPT ![i].needEcho = FALSE]
  <2>1. AddEffect(t) \/ RemoveEffect(t) \/ UnsetEcho(t) => self[t] \in Ins
    BY DEF LockInv, ThreadOK, Pointers, AddEffect, RemoveEffect, UnsetEcho
  <2> QED BY <2>1 DEF CallAddAudioEffect, AddEffect, RemoveEffect, UnsetEcho
<1>4. in' \in [Ins -> InFields]
  <2>1. in \in [Ins -> InFields] /\ in[i] \in InFields
    BY <1>1 DEF FieldsOK
  <2>2. CASE in' = [in EXCEPT ![i].needEcho = TRUE]
    <3>1. [in[i] EXCEPT !.needEcho = TRUE] \in InFields
      BY <2>1 DEF InFields
    <3>2. in' = [in EXCEPT ![i] = [in[i] EXCEPT !.needEcho = TRUE]]
      BY <2>1, <2>2
    <3> QED BY <2>1, <3>1, <3>2
  <2>3. CASE in' = [in EXCEPT ![i].fx = TRUE]
    <3>1. [in[i] EXCEPT !.fx = TRUE] \in InFields
      BY <2>1 DEF InFields
    <3>2. in' = [in EXCEPT ![i] = [in[i] EXCEPT !.fx = TRUE]]
      BY <2>1, <2>3
    <3> QED BY <2>1, <3>1, <3>2
  <2>4. CASE in' = [in EXCEPT ![i].fx = FALSE]
    <3>1. [in[i] EXCEPT !.fx = FALSE] \in InFields
      BY <2>1 DEF InFields
    <3>2. in' = [in EXCEPT ![i] = [in[i] EXCEPT !.fx = FALSE]]
      BY <2>1, <2>4
    <3> QED BY <2>1, <3>1, <3>2
  <2>5. CASE in' = [in EXCEPT ![i].needEcho = FALSE]
    <3>1. [in[i] EXCEPT !.needEcho = FALSE] \in InFields
      BY <2>1 DEF InFields
    <3>2. in' = [in EXCEPT ![i] = [in[i] EXCEPT !.needEcho = FALSE]]
      BY <2>1, <2>5
    <3> QED BY <2>1, <3>1, <3>2
  <2> QED BY <1>3, <2>2, <2>3, <2>4, <2>5
<1>5. \A j \in Ins : Devices(in'[j]) = Devices(in[j])
  BY <1>1, <1>3, SMTT(30) DEF FieldsOK, InFields, Devices
<1> QED BY <1>1, <1>2, <1>4, <1>5 DEF FieldsStep, FieldsOK, DevicesStep

(* The devices of the streams a step of t changes, one at most.              *)
LEMMA StreamsStep ==
  ASSUME LockInv, NEW t \in Threads, pc'[t] # pc[t],
         NEW o \in Outs \cup {None}, NEW i \in Ins \cup {None},
         hw' \in HwFields, out' \in [Outs -> OutFields], in' \in [Ins -> InFields],
         fresh' \in [Threads -> BOOLEAN],
         \A x \in Outs \ {o} : Devices(out'[x]) = Devices(out[x]),
         \A x \in Ins \ {i} : Devices(in'[x]) = Devices(in[x]),
         o = None \/ outLock[o] = t, i = None \/ inLock[i] = t
  PROVE  FieldsStep
<1>1. \A x \in Outs : Devices(out'[x]) = Devices(out[x]) \/ outLock[x] = t
  BY ConstantsAssumption
<1>2. \A x \in Ins : Devices(in'[x]) = Devices(in[x]) \/ inLock[x] = t
  BY ConstantsAssumption
<1>3. DevicesStep
  BY <1>1, <1>2, Guards
<1> QED BY <1>3 DEF FieldsStep, FieldsOK

(* write() has the lock of the input it closes before it opens its own       *)
(* devices.                                                                  *)
LEMMA WriteCloseInputFields ==
  ASSUME LockInv, NEW t \in Threads, WriteCloseInput(t)
  PROVE  FieldsStep
<1>1. FieldsOK /\ ThreadOK(t) /\ pc \in [Threads -> Labels]
  BY TypeParts DEF LockInv, TypeOK
<1>2. spIn[t] \in Ins /\ inLock[spIn[t]] = t /\ pc'[t] # pc[t]
  BY <1>1, ConstantsAssumption DEF ThreadOK, Pointers, Holds, WriteCloseInput, Goto
<1>3. in[spIn[t]] \in InFields /\ out' = out /\ in' = [in EXCEPT ![spIn[t]] = InClose(@)]
      /\ hw' = InCloseHw(hw, in[spIn[t]])
  BY <1>1, <1>2 DEF FieldsOK, WriteCloseInput
<1>4. hw' \in HwFields /\ in' \in [Ins -> InFields]
  BY <1>1, <1>2, <1>3, InOperations DEF FieldsOK
<1>5. fresh' \in [Threads -> BOOLEAN]
  BY <1>1, FreshType DEF FieldsOK, WriteCloseInput
<1> QED BY <1>1, <1>2, <1>3, <1>4, <1>5, StreamsStep DEF FieldsOK

(* write() leaves standby, or falls back into it, under the lock of its      *)
(* output.                                                                   *)
LEMMA WriteOpenedFields ==
  ASSUME LockInv, NEW t \in Threads, WriteOpened(t)
  PROVE  FieldsStep
<1>1. FieldsOK /\ ThreadOK(t) /\ pc \in [Threads -> Labels]
  BY TypeParts DEF LockInv, TypeOK
<1>2. self[t] \in Outs /\ outLock[self[t]] = t
  BY <1>1 DEF ThreadOK, Pointers, Holds, WriteOpened, WriteAt
<1>3. pc'[t] # pc[t]
  BY <1>1 DEF WriteOpened, Destroy, Goto
<1>4. UNCHANGED <<in, fresh>> /\ out' = [out EXCEPT ![self[t]].standby = ~out[self[t]].pcm]
      /\ hw' \in {hw, [hw EXCEPT !.wake = FALSE]}
  BY DEF WriteOpened
<1>5. hw' \in HwFields
  BY <1>1, <1>4 DEF FieldsOK, HwFields
<1>6. out' \in [Outs -> OutFields]
  <2>1. out \in [Outs -> OutFields] /\ out[self[t]] \in OutFields
    BY <1>1, <1>2 DEF FieldsOK
  <2>2. PICK b \in BOOLEAN : out' = [out EXCEPT ![self[t]] = [out[self[t]] EXCEPT !.standby = b]]
    BY <1>4, <2>1
  <2>3. [out[self[t]] EXCEPT !.standby = b] \in OutFields
    BY <2>1 DEF OutFields
  <2> QED BY <2>1, <2>2, <2>3
<1>7. \A x \in Outs \ {self[t]} : Devices(out'[x]) = Devices(out[x])
  BY <1>1, <1>2, <1>4 DEF FieldsOK
<1> QED BY <1>1, <1>2, <1>3, <1>4, <1>5, <1>6, <1>7, StreamsStep DEF FieldsOK

(* write() has both locks when it opens the output and then the input again. *)
LEMMA WriteOpenFields ==
  ASSUME LockInv, NEW t \in Threads, WriteOpen(t)
  PROVE  FieldsStep
<1>1. FieldsOK /\ ThreadOK(t) /\ pc \in [Threads -> Labels] /\ spIn[t] \in Ins \cup {None}
  BY TypeParts DEF LockInv, TypeOK
<1>2. /\ self[t] \in Outs /\ outLock[self[t]] = t
      /\ spIn[t] = None \/ inLock[spIn[t]] = t
      /\ fresh' = fresh
  BY <1>1 DEF ThreadOK, Pointers, Holds, WriteOpen, WriteAt
<1>3. PICK r \in OutOpen(hw) :
        /\ out' = [out EXCEPT ![self[t]].pcm = r.pcm, ![self[t]].mixer = r.mixer]
        /\ IF spIn[t] = None
           THEN hw' = r.hw /\ Goto(t, "w_fin") /\ in' = in
           ELSE \E q \in InOpen(r.hw) :
                  /\ hw' = q.hw
                  /\ in' = [in EXCEPT ![spIn[t]].pcm = q.pcm, ![spIn[t]].mixer = q.mixer]
                  /\ Goto(t, IF q.pcm THEN "w_fin" ELSE "d_begin")
  BY Zenon DEF WriteOpen
<1>4. r.hw \in HwFields /\ r.pcm \in BOOLEAN /\ r.mixer \in BOOLEAN
  BY <1>1, OutOpenType DEF FieldsOK
<1>5. out' \in [Outs -> OutFields]
  BY <1>1, <1>2, <1>3, <1>4, SMTT(30) DEF FieldsOK, OutFields
<1>6. \A x \in Outs \ {self[t]} : Devices(out'[x]) = Devices(out[x])
  BY <1>1, <1>2, <1>3 DEF FieldsOK
<1>7. pc[t] = "w_open"
  BY DEF WriteOpen
<1>8. CASE spIn[t] = None
  <2>1. hw' = r.hw /\ in' = in /\ pc'[t] # pc[t]
    BY <1>1, <1>3, <1>7, <1>8 DEF Goto
  <2> QED BY <1>1, <1>2, <1>4, <1>5, <1>6, <2>1, StreamsStep DEF FieldsOK
<1>9. CASE spIn[t] # None
  <2>1. PICK q \in InOpen(r.hw) :
          /\ hw' = q.hw
          /\ in' = [in EXCEPT ![spIn[t]].pcm = q.pcm, ![spIn[t]].mixer = q.mixer]
          /\ Goto(t, IF q.pcm THEN "w_fin" ELSE "d_begin")
    BY <1>3, <1>9
  <2>2. q.hw \in HwFields /\ q.pcm \in BOOLEAN /\ q.mixer \in BOOLEAN
    BY <1>4, InOpenType
  <2>3. in' \in [Ins -> InFields]
    BY <1>1, <1>9, <2>1, <2>2, SMTT(30) DEF FieldsOK, InFields
  <2>4. \A x \in Ins \ {spIn[t]} : Devices(in'[x]) = Devices(in[x])
    BY <1>1, <1>9, <2>1 DEF FieldsOK
  <2>5. pc'[t] # pc[t]
    BY <1>1, <1>7, <2>1 DEF Goto
  <2> QED BY <1>1, <1>2, <1>5, <1>6, <2>1, <2>2, <2>3, <2>4, <2>5, StreamsStep DEF FieldsOK
<1> QED BY <1>8, <1>9

(* doStandby_l of an input starts with the lock of that input.               *)
LEMMA InDoStandbyBeginFields ==
  ASSUME LockInv, NEW t \in Threads, InDoStandbyBegin(t)
  PROVE  FieldsStep
<1>1. FieldsOK /\ ThreadOK(t) /\ pc \in [Threads -> Labels]
  BY TypeParts DEF LockInv, TypeOK
<1>2. arg[t] \in Ins /\ inLock[arg[t]] = t /\ dret[t] # "d_begin"
  BY <1>1 DEF ThreadOK, Pointers, Holds, Returns, InDoStandbyBegin, InStandbyAt, InDoAt
<1>3. out' = out /\ fresh' \in [Threads -> BOOLEAN] /\ pc'[t] # pc[t]
  <2>1. fresh' = Invalidate(arg[t])
    BY DEF InDoStandbyBegin
  <2>2. fresh' \in [Threads -> BOOLEAN]
    BY <1>1, <2>1, FreshType DEF FieldsOK
  <2> QED BY <1>1, <1>2, <2>2 DEF InDoStandbyBegin, Goto
<1>4. CASE UNCHANGED <<hw, in>>
  BY <1>1, <1>2, <1>3, <1>4, StreamsStep DEF FieldsOK
<1>5. CASE /\ hw' = InCloseHw(hw, in[arg[t]])
           /\ in' = [in EXCEPT ![arg[t]] = [InClose(@) EXCEPT
                       !.standby = TRUE,
                       !.echo = IF in[arg[t]].standby THEN in[arg[t]].echo ELSE None]]
  <2>1. in[arg[t]] \in InFields /\ in \in [Ins -> InFields] /\ out \in [Outs -> OutFields]
        /\ hw \in HwFields
    BY <1>1, <1>2 DEF FieldsOK
  <2>2. hw' \in HwFields /\ InClose(in[arg[t]]) \in InFields
    BY <1>5, <2>1, InOperations
  <2>3. (IF in[arg[t]].standby THEN in[arg[t]].echo ELSE None) \in EchoRefs \cup {None}
    BY <2>1 DEF InFields
  <2>4. [InClose(in[arg[t]]) EXCEPT !.standby = TRUE,
           !.echo = IF in[arg[t]].standby THEN in[arg[t]].echo ELSE None] \in InFields
    BY <2>2, <2>3 DEF InFields
  <2>6. in' \in [Ins -> InFields] /\ \A x \in Ins \ {arg[t]} : Devices(in'[x]) = Devices(in[x])
    BY <1>2, <1>5, <2>1, <2>4
  <2> QED BY <1>2, <1>3, <2>1, <2>2, <2>6, StreamsStep
<1> QED BY <1>4, <1>5 DEF InDoStandbyBegin

(* doStandby_l has taken it again when it closes the devices after giving    *)
(* back the echo reference.                                                  *)
LEMMA InDoStandbyEndFields ==
  ASSUME LockInv, NEW t \in Threads, InDoStandbyEnd(t)
  PROVE  FieldsStep
<1>1. FieldsOK /\ ThreadOK(t) /\ pc \in [Threads -> Labels] /\ mOutput \in Outs \cup {None}
  BY TypeParts DEF LockInv, TypeOK
<1>2. arg[t] \in Ins /\ inLock[arg[t]] = t /\ dret[t] # "d_hw" /\ pc[t] = "d_hw"
  BY <1>1 DEF ThreadOK, Pointers, Holds, Returns, InDoStandbyEnd, InStandbyAt, InDoAt
<1>3. fresh' = fresh /\ pc'[t] # pc[t]
  BY <1>1, <1>2 DEF InDoStandbyEnd, Goto, Destroy
<1>4. in[arg[t]] \in InFields /\ in \in [Ins -> InFields] /\ out \in [Outs -> OutFields]
      /\ hw \in HwFields
  BY <1>1, <1>2 DEF FieldsOK
<1> DEFINE e == in[arg[t]].echo
<1>5. out' = ReleaseEchoOut(out, hw, e)
  BY DEF InDoStandbyEnd
<1>6. /\ ReleaseEchoHw(hw, e) \in HwFields
      /\ out' \in [Outs -> OutFields]
      /\ \A o \in Outs : Devices(out'[o]) = Devices(out[o])
  BY <1>1, <1>4, <1>5, EchoOperations
<1>7. CASE hw' = ReleaseEchoHw(hw, e) /\ in' = [in EXCEPT ![arg[t]].echo = None]
  <2>1. [in[arg[t]] EXCEPT !.echo = None] \in InFields
    BY <1>4 DEF InFields
  <2>2. in' \in [Ins -> InFields] /\ \A x \in Ins \ {arg[t]} : Devices(in'[x]) = Devices(in[x])
    BY <1>2, <1>4, <1>7, <2>1
  <2> HIDE DEF e
  <2> QED BY <1>1, <1>2, <1>3, <1>6, <1>7, <2>2, StreamsStep DEF FieldsOK
<1>8. CASE /\ hw' = InCloseHw(ReleaseEchoHw(hw, e), in[arg[t]])
           /\ in' = [in EXCEPT ![arg[t]] = [InClose(@) EXCEPT !.standby = TRUE, !.echo = None]]
  <2>1. hw' \in HwFields /\ InClose(in[arg[t]]) \in InFields
    BY <1>4, <1>6, <1>8, InOperations
  <2>2. [InClose(in[arg[t]]) EXCEPT !.standby = TRUE, !.echo = None] \in InFields
    BY <2>1 DEF InFields
  <2>3. in' \in [Ins -> InFields] /\ \A x \in Ins \ {arg[t]} : Devices(in'[x]) = Devices(in[x])
    BY <1>2, <1>4, <1>8, <2>2
  <2> HIDE DEF e
  <2> QED BY <1>1, <1>2, <1>3, <1>6, <2>1, <2>3, StreamsStep DEF FieldsOK
<1> QED BY <1>7, <1>8 DEF InDoStandbyEnd

(* read() closing and opening an active output again changes that output     *)
(* only.                                                                     *)
LEMMA OutputReopenedType ==
  ASSUME LockInv, NEW o \in Outs \cup {None}, NEW a \in OutputReopened(o)
  PROVE  /\ a.hw \in HwFields
         /\ a.out \in [Outs -> OutFields]
         /\ \A x \in Outs \ {o} : Devices(a.out[x]) = Devices(out[x])
<1>1. hw \in HwFields /\ out \in [Outs -> OutFields]
  BY DEF LockInv, TypeOK
<1>2. CASE a = [hw |-> hw, out |-> out]
  BY <1>1, <1>2
<1>3. CASE o \in Outs /\ a # [hw |-> hw, out |-> out]
  <2>1. out[o] \in OutFields /\ OutCloseHw(hw, out[o]) \in HwFields
    BY <1>1, <1>3, OutOperations
  <2>2. PICK r \in OutOpen(OutCloseHw(hw, out[o])) :
          a = [hw  |-> IF r.pcm THEN r.hw ELSE [r.hw EXCEPT !.wake = FALSE],
               out |-> [out EXCEPT ![o] = [@ EXCEPT !.pcm = r.pcm, !.mixer = r.mixer,
                                                    !.standby = ~r.pcm]]]
    BY <1>3 DEF OutputReopened
  <2>3. r.hw \in HwFields /\ r.pcm \in BOOLEAN /\ r.mixer \in BOOLEAN
    BY <2>1, OutOpenType
  <2>4. a.hw \in HwFields
    BY <2>2, <2>3 DEF HwFields
  <2>5. PICK b \in BOOLEAN : b = ~r.pcm
    OBVIOUS
  <2>6. [out[o] EXCEPT !.pcm = r.pcm, !.mixer = r.mixer, !.standby = b] \in OutFields
    BY <2>1, <2>3 DEF OutFields
  <2>7. a.out = [out EXCEPT ![o] =
                   [out[o] EXCEPT !.pcm = r.pcm, !.mixer = r.mixer, !.standby = b]]
    BY <1>1, <1>3, <2>2, <2>5
  <2> QED BY <1>1, <1>3, <2>4, <2>6, <2>7
<1> QED BY <1>2, <1>3 DEF OutputReopened

(* read() asking for an echo reference opens and closes no device.           *)
LEMMA EchoObtainedType ==
  ASSUME LockInv, NEW o \in Outs \cup {None}, NEW i \in Ins, NEW a,
         a.hw \in HwFields, a.out \in [Outs -> OutFields], NEW b \in EchoObtained(a, o, i)
  PROVE  /\ b.hw \in HwFields
         /\ b.ref \in EchoRefs \cup {None}
         /\ b.out \in [Outs -> OutFields]
         /\ \A x \in Outs : Devices(b.out[x]) = Devices(a.out[x])
<1>1. mOutput \in Outs \cup {None} /\ in[i] \in InFields
  BY DEF LockInv, TypeOK
<1>2. CASE b \in getEchoReference(a.hw, a.out)
  BY <1>1, <1>2, GetEchoType
<1>3. CASE b = [hw |-> a.hw, out |-> a.out, ref |-> in[i].echo]
  BY <1>1, <1>3 DEF InFields
<1> QED BY <1>2, <1>3 DEF EchoObtained

(* read() has both locks when it opens the output again and then its input.  *)
LEMMA ReadOpenFields ==
  ASSUME LockInv, NEW t \in Threads, ReadOpen(t)
  PROVE  FieldsStep
<1>1. FieldsOK /\ ThreadOK(t) /\ pc \in [Threads -> Labels] /\ spOut[t] \in Outs \cup {None}
  BY TypeParts DEF LockInv, TypeOK
<1>2. /\ self[t] \in Ins /\ inLock[self[t]] = t
      /\ spOut[t] = None \/ outLock[spOut[t]] = t
      /\ pc[t] = "r_open"
  BY <1>1 DEF ThreadOK, Pointers, Holds, ReadOpen, ReadAt
<1>3. PICK a \in OutputReopened(spOut[t]) :
        \E b \in EchoObtained(a, spOut[t], self[t]) : \E r \in InOpen(b.hw) :
          /\ hw' = r.hw
          /\ out' = b.out
          /\ in' = [in EXCEPT ![self[t]] = [@ EXCEPT !.pcm = r.pcm, !.mixer = r.mixer,
                                               !.echo = b.ref, !.standby = ~r.pcm]]
          /\ fresh' = IF spOut[t] # None /\ ~out[spOut[t]].standby /\ b.out[spOut[t]].standby
                      THEN Invalidate(spOut[t]) ELSE fresh
          /\ pc'[t] \in {"r_io", "si_in"}
  <2>1. \E a \in OutputReopened(spOut[t]) :
        \E b \in EchoObtained(a, spOut[t], self[t]) : \E r \in InOpen(b.hw) :
          /\ hw' = r.hw
          /\ out' = b.out
          /\ in' = [in EXCEPT ![self[t]] = [@ EXCEPT !.pcm = r.pcm, !.mixer = r.mixer,
                                               !.echo = b.ref, !.standby = ~r.pcm]]
          /\ fresh' = IF spOut[t] # None /\ ~out[spOut[t]].standby /\ b.out[spOut[t]].standby
                      THEN Invalidate(spOut[t]) ELSE fresh
          /\ Goto(t, "r_io") \/ Goto(t, "si_in")
    BY Zenon DEF ReadOpen
  <2>2. Goto(t, "r_io") \/ Goto(t, "si_in") => pc'[t] \in {"r_io", "si_in"}
    BY <1>1 DEF Goto
  <2> QED BY <2>1, <2>2, Zenon
<1>4. PICK b \in EchoObtained(a, spOut[t], self[t]) : \E r \in InOpen(b.hw) :
          /\ hw' = r.hw
          /\ out' = b.out
          /\ in' = [in EXCEPT ![self[t]] = [@ EXCEPT !.pcm = r.pcm, !.mixer = r.mixer,
                                               !.echo = b.ref, !.standby = ~r.pcm]]
          /\ fresh' = IF spOut[t] # None /\ ~out[spOut[t]].standby /\ b.out[spOut[t]].standby
                      THEN Invalidate(spOut[t]) ELSE fresh
          /\ pc'[t] \in {"r_io", "si_in"}
  BY <1>3, Zenon
<1>5. PICK r \in InOpen(b.hw) :
          /\ hw' = r.hw
          /\ out' = b.out
          /\ in' = [in EXCEPT ![self[t]] = [@ EXCEPT !.pcm = r.pcm, !.mixer = r.mixer,
                                               !.echo = b.ref, !.standby = ~r.pcm]]
          /\ fresh' = IF spOut[t] # None /\ ~out[spOut[t]].standby /\ b.out[spOut[t]].standby
                      THEN Invalidate(spOut[t]) ELSE fresh
          /\ pc'[t] \in {"r_io", "si_in"}
  BY <1>4, Zenon
<1>6. /\ a.hw \in HwFields
      /\ a.out \in [Outs -> OutFields]
      /\ \A x \in Outs \ {spOut[t]} : Devices(a.out[x]) = Devices(out[x])
  BY <1>1, OutputReopenedType
<1>7. /\ b.hw \in HwFields
      /\ b.ref \in EchoRefs \cup {None}
      /\ b.out \in [Outs -> OutFields]
      /\ \A x \in Outs : Devices(b.out[x]) = Devices(a.out[x])
  BY <1>1, <1>2, <1>6, EchoObtainedType
<1>8. r.hw \in HwFields /\ r.pcm \in BOOLEAN /\ r.mixer \in BOOLEAN
  BY <1>7, InOpenType
<1>9. hw' \in HwFields /\ out' \in [Outs -> OutFields]
      /\ \A x \in Outs \ {spOut[t]} : Devices(out'[x]) = Devices(out[x])
  BY <1>5, <1>6, <1>7, <1>8
<1>10. fresh' \in [Threads -> BOOLEAN]
  <2>1. fresh' = fresh \/ fresh' = Invalidate(spOut[t])
    BY <1>5
  <2> QED BY <1>1, <2>1, FreshType DEF FieldsOK
<1>11. in' \in [Ins -> InFields] /\ \A x \in Ins \ {self[t]} : Devices(in'[x]) = Devices(in[x])
  <2>1. PICK s \in BOOLEAN : s = ~r.pcm
    OBVIOUS
  <2>2. in[self[t]] \in InFields /\ in \in [Ins -> InFields]
    BY <1>1, <1>2 DEF FieldsOK
  <2>3. [in[self[t]] EXCEPT !.pcm = r.pcm, !.mixer = r.mixer, !.echo = b.ref, !.standby = s]
          \in InFields
    BY <1>7, <1>8, <2>2 DEF InFields
  <2>4. in' = [in EXCEPT ![self[t]] =
                 [in[self[t]] EXCEPT !.pcm = r.pcm, !.mixer = r.mixer, !.echo = b.ref,
                                     !.standby = s]]
    BY <1>2, <1>5, <2>1, <2>2
  <2> QED BY <1>2, <2>2, <2>3, <2>4
<1>12. pc'[t] # pc[t]
  BY <1>2, <1>5
<1> QED BY <1>1, <1>2, <1>9, <1>10, <1>11, <1>12, StreamsStep

-----------------------------------------------------------------------------
(* The theorems.                                                             *)

(* Every step keeps the types of the fields, and changes the devices of a    *)
(* stream only under the lock of that stream.                                *)
LEMMA RunFields ==
  ASSUME LockInv, NEW t \in Threads, Begin(t) \/ Run(t)
  PROVE  FieldsStep
<1>1. \/ ControlActions(t)
      \/ \/ WriteExitStandby(t) \/ InSetSource(t) \/ ModeOpenCall(t) \/ ModeCloseCall(t)
         \/ ModeOther(t) \/ SetMicMute(t)
      \/ OutStandbyDo(t) \/ OutSetRouting(t)
      \/ ModeEnterCall(t) \/ ModeLeaveCall(t)
      \/ OpenOutputStream(t) \/ OpenInputStream(t)
      \/ CallAddAudioEffect(t) \/ AddEffect(t) \/ RemoveEffect(t) \/ UnsetEcho(t)
      \/ InDoStandbyBegin(t) \/ InDoStandbyEnd(t)
      \/ WriteCloseInput(t) \/ WriteOpen(t) \/ WriteOpened(t) \/ ReadOpen(t)
  BY DEF Begin, Run, ControlActions
<1> QED BY <1>1, ControlFields, HardwareFields, OutStandbyDoFields, OutSetRoutingFields,
           ModeFields, OpenFields, EffectFields, InDoStandbyBeginFields, InDoStandbyEndFields,
           WriteCloseInputFields, WriteOpenFields, WriteOpenedFields, ReadOpenFields

(* Nobody has a lock at the start.                                           *)
LEMMA LockInvInit == Init => LockInv
<1> SUFFICES ASSUME Init PROVE LockInv
  OBVIOUS
<1>1. TypeOK
  BY DEF Init, TypeOK, OutFields, InFields, HwFields, NewOut, NewIn, Modes, Labels
<1>2. ASSUME NEW t \in Threads PROVE ThreadOK(t)
  BY DEF Init, ThreadOK, Pointers, Returns, Holds, HoldsInDo, OutStandbyAt, InDoAt, InStandbyAt,
         WriteAt, ReadAt
<1> QED BY <1>1, <1>2 DEF LockInv

(* The invariant is inductive.                                               *)
LEMMA LockInvStep ==
  ASSUME LockInv, [Next]_vars
  PROVE  LockInv'
<1>1. CASE UNCHANGED vars
  BY <1>1 DEF vars, locks, objects, LockInv, TypeOK, ThreadOK, Pointers, Returns, Holds, HoldsInDo
<1>2. CASE Next
  <2>1. PICK t \in Threads : Begin(t) \/ Run(t)
    BY <1>2 DEF Next
  <2>2. ControlStep(t)
    BY <2>1, BeginControl, RunControl
  <2>3. TypeOK'
    BY <2>1, <2>2, RunFields, TypeParts DEF ControlStep, FieldsStep, TypeOK, ControlOK, FieldsOK
  <2>4. ASSUME NEW u \in Threads PROVE ThreadOK(u)'
    BY <2>2, <2>3, OthersKeep DEF ControlStep
  <2> QED BY <2>3, <2>4 DEF LockInv
<1> QED BY <1>1, <1>2

(* At every point of every entry point of the audio HAL the thread holds     *)
(* exactly what the code there counts on: the lock of the stream whose       *)
(* fields it is about to read or write, the hardware lock, and valid         *)
(* pointers to the streams, also when doStandby_l has dropped the locks and  *)
(* taken them again.                                                         *)
THEOREM LocksHeld == Spec => []LockInv
BY LockInvInit, LockInvStep, PTL DEF Spec

(* The type invariant of the audio HAL, for every number of threads and      *)
(* streams.                                                                  *)
THEOREM TypeCorrect == Spec => []TypeOK
<1>1. LockInv => TypeOK
  BY DEF LockInv
<1> QED BY <1>1, LocksHeld, PTL

(* No thread ever opens, closes or marks as standby a stream without the     *)
(* mutex of that stream: so write() and read(), which use the PCM handle     *)
(* under that mutex alone, never have it closed under them.                  *)
THEOREM StreamDevicesGuarded == Spec => DevicesGuarded
<1>1. LockInv /\ [Next]_vars => [DevicesStep]_vars
  BY RunFields DEF Next, FieldsStep
<1> QED BY <1>1, LocksHeld, PTL DEF Spec, DevicesGuarded

=============================================================================
