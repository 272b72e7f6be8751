--------------------------- MODULE SensorsPollProofs ---------------------------
(* Proofs about pollEvents, for every size of the readers and every room   *)
(* the calls have: nothing is held back in the readers of bosch and akm    *)
(* while the thread waits, as long as no read of a device has failed;      *)
(* each packet is dealt with exactly once for each of its sensors; and the *)
(* read of a device blocks only if its driver had used up a call's room.   *)
EXTENDS SensorsPoll, SequenceTheorems, FunctionTheorems, FiniteSetTheorems, TLAPS

InReadEvents == {"read", "copy", "pending", "fill", "drain", "took"}

(* What a driver holds is announced by its POLLIN.                          *)
Announced == \A d \in {"bosch", "akm"} : reader[d] # << >> => d \in revents

(* The thread reads bosch and akm only when their POLLIN is set, and there  *)
(* is room when it reads.                                                   *)
Entered ==
  pc \in InReadEvents => /\ at \in 1 .. 3
                         /\ count # 0
                         /\ at = 1 \/ Driver \in revents

(* The room that a driver uses up.                                          *)
RoomKept ==
  /\ pc \notin {"drain", "took"} => nb = 0
  /\ pc \in {"read", "copy", "pending", "fill"} => room = count
  /\ pc \in {"copy", "pending"} => at = 1
  /\ pc = "drain" => nb + room = count
  /\ pc = "took" => nb <= count
  /\ pc = "took" /\ at # 1 => nb + room = count /\ (room = 0 \/ reader[Driver] = << >>)

(* With room left, the drivers already visited hold nothing.                *)
Visited ==
  /\ pc \in InReadEvents \cup {"scan"} /\ count # 0 =>
       /\ at > 2 => reader["bosch"] = << >>
       /\ at > 3 => reader["akm"] = << >>
  /\ pc = "poll" => reader["bosch"] = << >> /\ reader["akm"] = << >>

HeldInv ==
  /\ DOMAIN reader = Drivers
  /\ at \in 1 .. 4 /\ count \in Nat /\ room \in Nat /\ nb \in Nat
  /\ Announced /\ Entered /\ RoomKept /\ Visited

heldVars == <<reader, revents, pc, at, count, room, nb>>

(* The order of the drivers.                                                *)
LEMMA Order ==
  /\ Len(mSensors) = 3
  /\ at = 1 => Driver = "proximity"
  /\ at = 2 => Driver = "bosch"
  /\ at = 3 => Driver = "akm"
BY DEF mSensors, Driver

(* At the start nothing has been read.                                      *)
LEMMA HeldInit == Init => HeldInv
BY DEF Init, HeldInv, Drivers, Announced, Entered, RoomKept, Visited, InReadEvents

(* Steps that touch nothing of this keep it.                                *)
LEMMA HeldFrame == ASSUME HeldInv, UNCHANGED heldVars PROVE HeldInv'
BY DEF HeldInv, heldVars, Announced, Entered, RoomKept, Visited, Driver

(* The other actors are among those steps.                                  *)
LEMMA OthersFrame == Sending \/ Activate => UNCHANGED heldVars
BY DEF Sending, Device, Activate, heldVars, drvVars, callVars

(* A call begins with room.                                                 *)
LEMMA HeldPollEvents ==
  ASSUME HeldInv, NEW c \in Counts, PollEvents(c)
  PROVE  HeldInv'
BY PollAssumption DEF HeldInv, PollEvents, Goes, drvVars, Announced, Entered, RoomKept, Visited,
                      InReadEvents

(* The scan passes a driver that has nothing to read.                       *)
LEMMA HeldScan == ASSUME HeldInv, Scan PROVE HeldInv'
<1> USE DEF HeldInv, drvVars, callVars, InReadEvents
<1>1. CASE count = 0 /\ Return
  BY <1>1 DEF Scan, Return, Announced, Entered, RoomKept, Visited
<1>2. CASE count # 0 /\ at > Len(mSensors) /\ pc' = "poll" /\ at' = 1 /\ UNCHANGED <<callVars, room>>
  BY <1>2, Order DEF Scan, Announced, Entered, RoomKept, Visited
<1>3. CASE count # 0 /\ at <= Len(mSensors) /\ HasWork(Driver) /\ pc' = "read" /\ room' = count
           /\ UNCHANGED <<callVars, at>>
  <2>1. at = 1 \/ Driver \in revents
    BY <1>3, Order DEF HasWork, hasPendingEvents
  <2>2. Driver' = Driver
    BY <1>3 DEF Driver
  <2> QED BY <1>3, <2>1, <2>2, Order DEF Scan, Announced, Entered, RoomKept, Visited
<1>4. CASE count # 0 /\ at <= Len(mSensors) /\ ~HasWork(Driver) /\ at' = at + 1
           /\ UNCHANGED <<callVars, pc, room>>
  BY <1>4, Order DEF Scan, HasWork, Announced, Entered, RoomKept, Visited
<1> QED BY <1>1, <1>2, <1>3, <1>4 DEF Scan

(* A pending event is one of proximity.                                     *)
LEMMA HeldReadEvents == ASSUME HeldInv, ReadEvents PROVE HeldInv'
<1>1. hasPendingEvents(Driver) => at = 1
  BY Order DEF hasPendingEvents, HeldInv, Entered, ReadEvents, InReadEvents
<1> QED
  BY <1>1 DEF HeldInv, ReadEvents, drvVars, callVars, Driver, Announced, Entered, RoomKept,
              Visited, InReadEvents

(* Handing it out touches no reader, and there is room for it.             *)
LEMMA HeldPending == ASSUME HeldInv, CopyPending \/ ReturnPending PROVE HeldInv'
BY DEF HeldInv, CopyPending, ReturnPending, Goes, drvVars, callVars, Driver, Announced, Entered,
       RoomKept, Visited, InReadEvents

(* A fill changes the reader of the driver the thread is in, whose POLLIN   *)
(* is set.                                                                  *)
LEMMA HeldFill == ASSUME HeldInv, FillReader PROVE HeldInv'
<1>1. /\ DOMAIN reader' = Drivers
      /\ \A d \in Drivers : d # Driver => reader'[d] = reader[d]
  BY DEF HeldInv, FillReader
<1>2. Driver' = Driver /\ at \in 1 .. 3 /\ (at = 1 \/ Driver \in revents)
  BY DEF FillReader, Goes, Driver, HeldInv, Entered, InReadEvents
<1>3. Announced'
  BY <1>1, <1>2, Order DEF HeldInv, Announced, FillReader, Drivers
<1>4. Visited'
  BY <1>1, <1>2, Order DEF HeldInv, Visited, FillReader, Goes, callVars, Drivers, InReadEvents
<1> QED
  BY <1>1, <1>2, <1>3, <1>4 DEF HeldInv, FillReader, Goes, callVars, Entered, RoomKept,
                                InReadEvents

(* Taking an event out of that reader, and perhaps handing one out.         *)
LEMMA HeldTake ==
  ASSUME HeldInv, Draining, UNCHANGED <<callVars, pc, at, revents>>,
         TakeNext \/ UNCHANGED reader,
         (room' = room - 1 /\ nb' = nb + 1) \/ UNCHANGED <<room, nb>>
  PROVE  HeldInv'
<1>1. /\ DOMAIN reader' = Drivers
      /\ \A d \in Drivers : d # Driver => reader'[d] = reader[d]
  BY DEF HeldInv, TakeNext
<1>2. Driver' = Driver /\ at \in 1 .. 3 /\ (at = 1 \/ Driver \in revents) /\ pc = "drain"
  BY DEF Draining, Driver, HeldInv, Entered, InReadEvents
<1>3. Announced'
  BY <1>1, <1>2, Order DEF HeldInv, Announced, Drivers
<1>4. Visited'
  BY <1>1, <1>2, Order DEF HeldInv, Visited, callVars, Drivers, InReadEvents
<1>5. room' \in Nat /\ nb' \in Nat /\ nb' + room' = count
  BY <1>2 DEF HeldInv, RoomKept, Draining
<1> QED
  BY <1>1, <1>2, <1>3, <1>4, <1>5 DEF HeldInv, callVars, Entered, RoomKept, InReadEvents

(* The four kinds of events are such steps.                                 *)
LEMMA HeldEvents ==
  ASSUME HeldInv, TakeValue \/ TakeNoise \/ TakeSyn \/ AkmSyn
  PROVE  HeldInv'
<1>1. CASE TakeValue
  BY <1>1, HeldTake DEF TakeValue
<1>2. CASE TakeNoise
  BY <1>2, HeldTake DEF TakeNoise
<1>3. CASE TakeSyn
  BY <1>3, HeldTake DEF TakeSyn, Put
<1>4. CASE AkmSyn
  BY <1>4, HeldTake DEF AkmSyn, Put
<1> QED BY <1>1, <1>2, <1>3, <1>4

(* The driver stops when there is no more room or no more event.            *)
LEMMA HeldDrainOver == ASSUME HeldInv, DrainOver PROVE HeldInv'
<1>1. pc = "drain" /\ (room = 0 \/ reader[Driver] = << >>) /\ nb + room = count
  BY DEF HeldInv, DrainOver, Goes, Draining, RoomKept
<1> QED
  BY <1>1 DEF HeldInv, DrainOver, Goes, drvVars, callVars, Driver, Announced, Entered, RoomKept,
              Visited, InReadEvents

(* POLLIN is cleared only for a driver that did not use up the room, whose  *)
(* reader is empty then.                                                    *)
LEMMA HeldTook == ASSUME HeldInv, Took PROVE HeldInv'
<1>1. pc = "took" /\ at \in 1 .. 3 /\ nb <= count /\ count' = count - nb /\ count' \in Nat
  BY DEF HeldInv, Took, Goes, RoomKept, Entered, InReadEvents
<1>2. at # 1 /\ (count' # 0 \/ ~MoreToCome) => reader[Driver] = << >>
  BY <1>1 DEF HeldInv, RoomKept, MoreToCome
<1>3. Announced'
  BY <1>1, <1>2, Order DEF HeldInv, Announced, Took, drvVars
<1>4. Visited'
  BY <1>1, <1>2, Order DEF HeldInv, Visited, Took, Goes, drvVars, InReadEvents
<1> QED
  BY <1>1, <1>3, <1>4 DEF HeldInv, Took, Goes, drvVars, Entered, RoomKept, InReadEvents

(* poll() sets POLLIN anew, when the readers are empty.                     *)
LEMMA HeldPoll == ASSUME HeldInv, Poll \/ PollFails PROVE HeldInv'
BY DEF HeldInv, Poll, PollFails, Return, drvVars, callVars, Announced, Entered, RoomKept, Visited,
       InReadEvents

(* Only a failed read changes the count of failed reads.                    *)
LEMMA ErrorsKept ==
  ASSUME Sending \/ Activate \/ Reading \/ PollFails \/ Calling
  PROVE  errors' = errors
<1>1. CASE Sending \/ Activate
  BY <1>1 DEF Sending, Device, Activate, drvVars, callVars
<1>2. CASE PollFails \/ Calling
  BY <1>2 DEF PollFails, Calling, PollEvents
<1>3. CASE Reading
  BY <1>3 DEF Reading, Scan, Return, ReadEvents, CopyPending, ReturnPending, FillReader, TakeValue,
              TakeNoise, TakeSyn, AkmSyn, DrainOver, Took, Poll
<1> QED BY <1>1, <1>2, <1>3

(* The invariant holds until a read fails.                                  *)
HeldUntilError ==
  /\ errors \in Nat
  /\ errors = 0 => HeldInv

(* Every step keeps it.                                                     *)
LEMMA HeldNext == ASSUME HeldUntilError, [Next]_vars PROVE HeldUntilError'
<1> USE DEF HeldUntilError
<1>1. CASE UNCHANGED vars
  BY <1>1, HeldFrame DEF vars, heldVars, drvVars, callVars
<1>2. CASE Sending \/ Activate
  BY <1>2, HeldFrame, OthersFrame, ErrorsKept
<1>3. CASE Reading
  BY <1>3, HeldScan, HeldReadEvents, HeldPending, HeldFill, HeldEvents, HeldDrainOver, HeldTook,
     HeldPoll, ErrorsKept DEF Reading
<1>4. CASE PollFails
  BY <1>4, HeldPoll, ErrorsKept
<1>5. ASSUME NEW e \in ReadErrors, FillFails(e) PROVE HeldUntilError'
  BY <1>5 DEF FillFails
<1>6. CASE Calling
  BY <1>6, HeldPollEvents, ErrorsKept DEF Calling
<1> QED BY <1>1, <1>2, <1>3, <1>4, <1>5, <1>6 DEF Next, Failing

(* When the thread waits in poll() with nothing to return and no read has   *)
(* failed, the readers of bosch and akm are empty: no event already read is *)
(* held back until the device sends another one.                            *)
THEOREM NeverHeldBack == Spec => []NothingHeldBack
<1>1. Init => HeldUntilError
  BY HeldInit DEF HeldUntilError, Init
<1>2. HeldUntilError /\ [Next]_vars => HeldUntilError'
  BY HeldNext
<1>3. HeldUntilError => NothingHeldBack
  BY DEF HeldUntilError, HeldInv, Visited, NothingHeldBack, AtRest
<1> QED BY <1>1, <1>2, <1>3, PTL DEF Spec

-----------------------------------------------------------------------------
(* Each packet is dealt with once for each of its sensors. The packets     *)
(* due are counted in the events on their way, so the proof follows the    *)
(* oldest event as it is taken and the newest as it is sent.               *)

(* HasValue and the packets due, of any mask and any queue.                *)
Carries(s, mask, q, i) ==
  \/ s \notin SensorsOf("akm")
  \/ \E j \in 0 .. i - 1 :
       /\ IF j = 0 THEN s \in mask ELSE q[j].code = s
       /\ \A k \in j + 1 .. i - 1 : q[k] # Syn

DueIn(s, mask, q) == {i \in DOMAIN q : q[i] = Syn /\ Carries(s, mask, q, i)}

(* The packets due are finitely many.                                      *)
LEMMA DueFinite ==
  ASSUME NEW q \in Seq(InputEvents), NEW s, NEW mask
  PROVE  /\ IsFiniteSet(DueIn(s, mask, q)) /\ Cardinality(DueIn(s, mask, q)) \in Nat
         /\ DOMAIN q = 1 .. Len(q) /\ Len(q) \in Nat
<1>1. DOMAIN q = 1 .. Len(q) /\ Len(q) \in Nat
  BY LenProperties
<1>2. IsFiniteSet(1 .. Len(q))
  BY <1>1, FS_Interval
<1>3. DueIn(s, mask, q) \subseteq 1 .. Len(q)
  BY <1>1 DEF DueIn
<1>4. IsFiniteSet(DueIn(s, mask, q))
  BY <1>2, <1>3, FS_Subset
<1> QED BY <1>1, <1>4, FS_CardinalityType

(* A SYN and an event without meaning carry no sensor.                     *)
LEMMA CodeOfSyn ==
  /\ \A s \in Sensors : Syn.code # s /\ Noise.code # s /\ Noise # Syn
  /\ \A s \in Sensors : \A v : Value(s, v).code = s /\ Value(s, v) # Syn
BY DEF Syn, Noise, Sensors, Value

(* Whether a packet has a value depends on the queue before it only.       *)
LEMMA CarriesPrefix ==
  ASSUME NEW p, NEW q, NEW s, NEW mask, NEW i \in Nat, \A j \in 1 .. i - 1 : p[j] = q[j]
  PROVE  Carries(s, mask, p, i) <=> Carries(s, mask, q, i)
<1> DEFINE C(r, j) == (IF j = 0 THEN s \in mask ELSE r[j].code = s)
                      /\ \A k \in j + 1 .. i - 1 : r[k] # Syn
<1>1. ASSUME NEW j \in 0 .. i - 1 PROVE C(p, j) <=> C(q, j)
  <2>1. \A k \in j + 1 .. i - 1 : p[k] = q[k]
    OBVIOUS
  <2>2. j # 0 => p[j] = q[j]
    OBVIOUS
  <2> QED BY <2>1, <2>2
<1> QED BY <1>1 DEF Carries

(* An event is sent: a SYN makes one more packet due for the sensors       *)
(* whose value came after the last one; a value is of the packet now       *)
(* begun.                                                                  *)
LEMMA DueAppend ==
  ASSUME NEW q \in Seq(InputEvents), NEW e \in InputEvents, NEW s \in Sensors, NEW mask
  PROVE  LET p == Append(q, e) IN
         /\ e = Syn /\ Carries(s, mask, q, Len(q) + 1) =>
              Cardinality(DueIn(s, mask, p)) = Cardinality(DueIn(s, mask, q)) + 1
         /\ ~(e = Syn /\ Carries(s, mask, q, Len(q) + 1)) =>
              Cardinality(DueIn(s, mask, p)) = Cardinality(DueIn(s, mask, q))
         /\ Carries(s, mask, p, Len(p) + 1) <=>
              \/ s \notin SensorsOf("akm")
              \/ e.code = s
              \/ e # Syn /\ Carries(s, mask, q, Len(q) + 1)
<1> DEFINE p == Append(q, e)
           n == Len(q) + 1
<1>1. /\ Len(q) \in Nat /\ DOMAIN q = 1 .. Len(q) /\ Len(p) = n /\ DOMAIN p = 1 .. n
      /\ \A i \in 1 .. Len(q) : p[i] = q[i]
      /\ p[n] = e
  BY LenProperties
<1> HIDE DEF p
<1>2. ASSUME NEW i \in 1 .. n
      PROVE  Carries(s, mask, p, i) <=> Carries(s, mask, q, i)
  <2>1. \A j \in 1 .. i - 1 : p[j] = q[j]
    BY <1>1
  <2> QED BY <2>1, CarriesPrefix
<1>3. \A i \in 1 .. Len(q) : i \in DueIn(s, mask, p) <=> i \in DueIn(s, mask, q)
  BY <1>1, <1>2 DEF DueIn
<1>4. n \in DueIn(s, mask, p) <=> e = Syn /\ Carries(s, mask, q, n)
  BY <1>1, <1>2 DEF DueIn
<1>5. DueIn(s, mask, p) \subseteq 1 .. n /\ DueIn(s, mask, q) \subseteq 1 .. Len(q)
  BY <1>1 DEF DueIn
<1>6. IsFiniteSet(DueIn(s, mask, q)) /\ Cardinality(DueIn(s, mask, q)) \in Nat
  BY DueFinite
<1>7. e = Syn /\ Carries(s, mask, q, n) =>
        Cardinality(DueIn(s, mask, p)) = Cardinality(DueIn(s, mask, q)) + 1
  <2> SUFFICES ASSUME e = Syn, Carries(s, mask, q, n)
               PROVE  Cardinality(DueIn(s, mask, p)) = Cardinality(DueIn(s, mask, q)) + 1
    OBVIOUS
  <2>1. DueIn(s, mask, p) = DueIn(s, mask, q) \cup {n} /\ n \notin DueIn(s, mask, q)
    BY <1>1, <1>3, <1>4, <1>5
  <2> QED BY <1>6, <2>1, FS_AddElement
<1>8. ~(e = Syn /\ Carries(s, mask, q, n)) =>
        Cardinality(DueIn(s, mask, p)) = Cardinality(DueIn(s, mask, q))
  <2> SUFFICES ASSUME ~(e = Syn /\ Carries(s, mask, q, n))
               PROVE  DueIn(s, mask, p) = DueIn(s, mask, q)
    OBVIOUS
  <2>1. DueIn(s, mask, p) = DueIn(s, mask, q)
    <3>1. n \notin DueIn(s, mask, p)
      BY <1>4
    <3>2. DueIn(s, mask, p) \subseteq 1 .. Len(q)
      BY <1>1, <1>5, <3>1
    <3> QED BY <1>3, <1>5, <3>2
  <2> QED BY <2>1
<1>9. Carries(s, mask, p, n + 1) <=>
              \/ s \notin SensorsOf("akm")
              \/ e.code = s
              \/ e # Syn /\ Carries(s, mask, q, n)
  <2> SUFFICES ASSUME s \in SensorsOf("akm")
               PROVE  Carries(s, mask, p, n + 1)
                        <=> e.code = s \/ (e # Syn /\ Carries(s, mask, q, n))
    BY DEF Carries
  <2>1. ASSUME Carries(s, mask, p, n + 1), e.code # s
        PROVE  e # Syn /\ Carries(s, mask, p, n)
    <3>1. PICK j \in 0 .. n : /\ IF j = 0 THEN s \in mask ELSE p[j].code = s
                              /\ \A k \in j + 1 .. n : p[k] # Syn
      BY <2>1, <1>1 DEF Carries
    <3>2. j \in 0 .. n - 1
      BY <1>1, <2>1, <3>1
    <3>3. e # Syn
      BY <1>1, <3>1, <3>2
    <3> QED BY <1>1, <3>1, <3>2, <3>3 DEF Carries
  <2>2. ASSUME e.code = s PROVE Carries(s, mask, p, n + 1)
    <3>1. n \in 0 .. n /\ n # 0 /\ p[n].code = s /\ \A k \in n + 1 .. n : FALSE
      BY <1>1, <2>2
    <3> QED BY <1>1, <3>1 DEF Carries
  <2>3. ASSUME e # Syn, Carries(s, mask, p, n) PROVE Carries(s, mask, p, n + 1)
    <3>1. PICK j \in 0 .. n - 1 : /\ IF j = 0 THEN s \in mask ELSE p[j].code = s
                                  /\ \A k \in j + 1 .. n - 1 : p[k] # Syn
      BY <2>3 DEF Carries
    <3>2. \A k \in j + 1 .. n : p[k] # Syn
      BY <1>1, <2>3, <3>1
    <3> QED BY <1>1, <3>1, <3>2 DEF Carries
  <2>4. n \in 1 .. n
    BY <1>1
  <2> QED BY <1>2, <2>1, <2>2, <2>3, <2>4
<1> QED BY <1>1, <1>7, <1>8, <1>9 DEF p

(* The head and the tail of a queue.                                       *)
LEMMA TailOf ==
  ASSUME NEW q \in Seq(InputEvents), q # << >>
  PROVE  LET t == Tail(q) IN
         /\ Len(q) \in Nat /\ Len(q) >= 1 /\ DOMAIN q = 1 .. Len(q)
         /\ t \in Seq(InputEvents) /\ Len(t) = Len(q) - 1 /\ DOMAIN t = 1 .. Len(q) - 1
         /\ \A i \in 1 .. Len(q) - 1 : t[i] = q[i + 1]
         /\ Head(q) = q[1] /\ Head(q) \in InputEvents
<1>1. Len(q) \in Nat /\ DOMAIN q = 1 .. Len(q) /\ Len(q) # 0
  BY LenProperties, EmptySeq
<1>2. Tail(q) \in Seq(InputEvents) /\ Len(Tail(q)) = Len(q) - 1 /\ Head(q) \in InputEvents
      /\ \A i \in 1 .. Len(Tail(q)) : Tail(q)[i] = q[i + 1]
  BY HeadTailProperties
<1>3. DOMAIN Tail(q) = 1 .. Len(q) - 1
  BY <1>2, LenProperties
<1> QED BY <1>1, <1>2, <1>3

(* The oldest event is taken: what it says of the packet it belongs to     *)
(* moves into the mask.                                                    *)
LEMMA CarriesTail ==
  ASSUME NEW q \in Seq(InputEvents), q # << >>, NEW s \in Sensors, NEW m1, NEW m2,
         s \in SensorsOf("akm") =>
            (s \in m2 <=> Head(q).code = s \/ (Head(q) # Syn /\ s \in m1)),
         NEW i \in 2 .. Len(q) + 1
  PROVE  Carries(s, m2, Tail(q), i - 1) <=> Carries(s, m1, q, i)
<1> DEFINE t == Tail(q)
<1>1. /\ Len(q) \in Nat /\ Len(q) >= 1
      /\ \A k \in 1 .. Len(q) - 1 : t[k] = q[k + 1]
      /\ Head(q) = q[1]
  BY TailOf
<1> HIDE DEF t
<1> SUFFICES ASSUME s \in SensorsOf("akm")
             PROVE  Carries(s, m2, t, i - 1) <=> Carries(s, m1, q, i)
  BY DEF Carries, t
<1>2. i \in Nat /\ i >= 2 /\ i <= Len(q) + 1
  BY <1>1
<1>3. ASSUME Carries(s, m1, q, i) PROVE Carries(s, m2, t, i - 1)
  <2>1. PICK j \in 0 .. i - 1 : /\ IF j = 0 THEN s \in m1 ELSE q[j].code = s
                                /\ \A k \in j + 1 .. i - 1 : q[k] # Syn
    BY <1>3 DEF Carries
  <2>2. CASE j = 0
    <3>1. 1 \in j + 1 .. i - 1
      BY <1>2, <2>2
    <3>2. s \in m2
      BY <1>1, <2>1, <2>2, <3>1
    <3>3. \A k \in 1 .. i - 2 : t[k] # Syn
      <4> TAKE k \in 1 .. i - 2
      <4>1. k + 1 \in j + 1 .. i - 1 /\ k \in 1 .. Len(q) - 1
        BY <1>1, <1>2, <2>2
      <4> QED BY <1>1, <2>1, <4>1
    <3>4. 0 \in 0 .. (i - 1) - 1 /\ 0 + 1 .. (i - 1) - 1 = 1 .. i - 2
      BY <1>2
    <3> QED BY <3>2, <3>3, <3>4 DEF Carries
  <2>3. CASE j = 1
    <3>1. s \in m2
      BY <1>1, <2>1, <2>3
    <3>2. \A k \in 1 .. i - 2 : t[k] # Syn
      <4> TAKE k \in 1 .. i - 2
      <4>1. k + 1 \in j + 1 .. i - 1 /\ k \in 1 .. Len(q) - 1
        BY <1>1, <1>2, <2>3
      <4> QED BY <1>1, <2>1, <4>1
    <3>3. 0 \in 0 .. (i - 1) - 1 /\ 0 + 1 .. (i - 1) - 1 = 1 .. i - 2
      BY <1>2
    <3> QED BY <3>1, <3>2, <3>3 DEF Carries
  <2>4. CASE j >= 2
    <3>1. j - 1 \in 0 .. (i - 1) - 1 /\ j - 1 # 0 /\ j - 1 \in 1 .. Len(q) - 1
      BY <1>1, <1>2, <2>1, <2>4
    <3>2. t[j - 1].code = s
      BY <1>1, <2>1, <2>4, <3>1
    <3>3. \A k \in (j - 1) + 1 .. (i - 1) - 1 : t[k] # Syn
      <4> TAKE k \in (j - 1) + 1 .. (i - 1) - 1
      <4>1. k + 1 \in j + 1 .. i - 1 /\ k \in 1 .. Len(q) - 1
        BY <1>1, <1>2, <2>1, <2>4
      <4> QED BY <1>1, <2>1, <4>1
    <3> QED BY <3>1, <3>2, <3>3 DEF Carries
  <2> QED BY <2>1, <2>2, <2>3, <2>4, <1>2
<1>4. ASSUME Carries(s, m2, t, i - 1) PROVE Carries(s, m1, q, i)
  <2>1. PICK j \in 0 .. (i - 1) - 1 : /\ IF j = 0 THEN s \in m2 ELSE t[j].code = s
                                      /\ \A k \in j + 1 .. (i - 1) - 1 : t[k] # Syn
    BY <1>4 DEF Carries
  <2>2. \A k \in j + 2 .. i - 1 : q[k] # Syn
    <3> TAKE k \in j + 2 .. i - 1
    <3>1. k - 1 \in j + 1 .. (i - 1) - 1 /\ k - 1 \in 1 .. Len(q) - 1 /\ (k - 1) + 1 = k
      BY <1>1, <1>2, <2>1
    <3>2. t[k - 1] = q[k]
      BY <1>1, <3>1
    <3> QED BY <2>1, <3>1, <3>2
  <2>3. CASE j # 0 \/ Head(q).code = s
    <3>1. j + 1 \in 0 .. i - 1 /\ j + 1 # 0
      BY <1>2, <2>1
    <3>2. q[j + 1].code = s
      <4>1. CASE j = 0
        BY <1>1, <2>3, <4>1
      <4>2. CASE j # 0
        <5>1. j \in 1 .. Len(q) - 1
          BY <1>1, <1>2, <2>1, <4>2
        <5> QED BY <1>1, <2>1, <4>2, <5>1
      <4> QED BY <4>1, <4>2
    <3>3. \A k \in (j + 1) + 1 .. i - 1 : q[k] # Syn
      BY <2>1, <2>2
    <3> QED BY <3>1, <3>2, <3>3 DEF Carries
  <2>4. CASE j = 0 /\ Head(q).code # s
    <3>1. Head(q) # Syn /\ s \in m1
      BY <2>1, <2>4
    <3>2. \A k \in 0 + 1 .. i - 1 : q[k] # Syn
      BY <1>1, <1>2, <2>2, <2>4, <3>1
    <3>3. 0 \in 0 .. i - 1
      BY <1>2
    <3> QED BY <3>1, <3>2, <3>3 DEF Carries
  <2> QED BY <2>3, <2>4
<1> QED BY <1>3, <1>4

(* So nothing that is due is lost, but the packet that a SYN ends.         *)
LEMMA DueTail ==
  ASSUME NEW q \in Seq(InputEvents), q # << >>, NEW s \in Sensors, NEW m1, NEW m2,
         s \in SensorsOf("akm") =>
            (s \in m2 <=> Head(q).code = s \/ (Head(q) # Syn /\ s \in m1))
  PROVE  /\ Head(q) = Syn /\ (s \notin SensorsOf("akm") \/ s \in m1) =>
              Cardinality(DueIn(s, m1, q)) = Cardinality(DueIn(s, m2, Tail(q))) + 1
         /\ ~(Head(q) = Syn /\ (s \notin SensorsOf("akm") \/ s \in m1)) =>
              Cardinality(DueIn(s, m1, q)) = Cardinality(DueIn(s, m2, Tail(q)))
         /\ Carries(s, m2, Tail(q), Len(Tail(q)) + 1) <=> Carries(s, m1, q, Len(q) + 1)
<1> DEFINE t == Tail(q)
           A == DueIn(s, m1, q)
           B == DueIn(s, m2, t)
           R == A \ {1}
<1>1. /\ Len(q) \in Nat /\ Len(q) >= 1 /\ DOMAIN q = 1 .. Len(q)
      /\ t \in Seq(InputEvents) /\ Len(t) = Len(q) - 1 /\ DOMAIN t = 1 .. Len(q) - 1
      /\ \A k \in 1 .. Len(q) - 1 : t[k] = q[k + 1]
      /\ Head(q) = q[1]
  BY TailOf
<1>2. \A i \in 2 .. Len(q) + 1 : Carries(s, m2, t, i - 1) <=> Carries(s, m1, q, i)
  BY CarriesTail
<1> HIDE DEF t
<1>3. /\ IsFiniteSet(A) /\ Cardinality(A) \in Nat
      /\ IsFiniteSet(B) /\ Cardinality(B) \in Nat
  BY <1>1, DueFinite
<1>4. 1 \in A <=> Head(q) = Syn /\ (s \notin SensorsOf("akm") \/ s \in m1)
  <2>1. Carries(s, m1, q, 1) <=> s \notin SensorsOf("akm") \/ s \in m1
    <3>1. 0 .. 1 - 1 = {0} /\ 0 + 1 .. 1 - 1 = {}
      OBVIOUS
    <3> QED BY <3>1 DEF Carries
  <2> QED BY <1>1, <2>1 DEF DueIn
<1>5. \A k \in 1 .. Len(q) - 1 : k \in B <=> k + 1 \in A
  <2> TAKE k \in 1 .. Len(q) - 1
  <2>1. k + 1 \in 2 .. Len(q) + 1 /\ (k + 1) - 1 = k /\ k + 1 \in 1 .. Len(q)
    BY <1>1
  <2>2. Carries(s, m2, t, k) <=> Carries(s, m1, q, k + 1)
    BY <1>2, <2>1
  <2> QED BY <1>1, <2>1, <2>2 DEF DueIn
<1>6. A \subseteq 1 .. Len(q) /\ B \subseteq 1 .. Len(q) - 1
  BY <1>1 DEF DueIn
<1>7. Cardinality(R) = Cardinality(B)
  <2> HIDE DEF A, B
  <2> DEFINE f == [k \in B |-> k + 1]
  <2>1. f \in [B -> R]
    BY <1>1, <1>5, <1>6
  <2>2. \A a, b \in B : f[a] = f[b] => a = b
    BY <1>1, <1>6
  <2>3. \A r \in R : \E k \in B : f[k] = r
    <3> TAKE r \in R
    <3>1. r - 1 \in 1 .. Len(q) - 1 /\ (r - 1) + 1 = r
      BY <1>1, <1>6
    <3>2. r - 1 \in B
      BY <1>5, <3>1
    <3> QED BY <3>1, <3>2
  <2>4. f \in Bijection(B, R)
    BY <2>1, <2>2, <2>3, Fun_IsBij
  <2> QED BY <1>3, <2>4, FS_Bijection DEF ExistsBijection
<1>8. Cardinality(R) = IF 1 \in A THEN Cardinality(A) - 1 ELSE Cardinality(A)
  BY <1>3, FS_RemoveElement
<1>9. Carries(s, m2, t, Len(t) + 1) <=> Carries(s, m1, q, Len(q) + 1)
  <2>1. Len(q) + 1 \in 2 .. Len(q) + 1 /\ (Len(q) + 1) - 1 = Len(t) + 1
    BY <1>1
  <2> QED BY <1>2, <2>1
<1> HIDE DEF A, B, R
<1>10. 1 \in A => Cardinality(A) = Cardinality(B) + 1
  BY <1>3, <1>7, <1>8
<1>11. 1 \notin A => Cardinality(A) = Cardinality(B)
  BY <1>3, <1>7, <1>8
<1> QED BY <1>4, <1>9, <1>10, <1>11 DEF A, B, t

(* While the SYN stays in the reader, taking a sensor out of the mask      *)
(* settles that sensor's part of the packet and no other's.                *)
LEMMA DueMask ==
  ASSUME NEW q \in Seq(InputEvents), q # << >>, Head(q) = Syn,
         NEW s \in Sensors, NEW m1, NEW m2
  PROVE  /\ s \in SensorsOf("akm") /\ s \in m1 /\ s \notin m2 =>
              Cardinality(DueIn(s, m1, q)) = Cardinality(DueIn(s, m2, q)) + 1
         /\ s \notin SensorsOf("akm") \/ (s \in m1 <=> s \in m2) =>
              DueIn(s, m1, q) = DueIn(s, m2, q)
         /\ Carries(s, m1, q, Len(q) + 1) <=> Carries(s, m2, q, Len(q) + 1)
<1>1. /\ Len(q) \in Nat /\ Len(q) >= 1 /\ DOMAIN q = 1 .. Len(q)
      /\ q[1] = Syn
  BY TailOf
<1>2. ASSUME NEW i \in 2 .. Len(q) + 1
      PROVE  Carries(s, m1, q, i) <=> Carries(s, m2, q, i)
  <2>1. 1 \in 0 + 1 .. i - 1
    BY <1>1
  <2> QED BY <1>1, <2>1 DEF Carries
<1>3. \A m : Carries(s, m, q, 1) <=> s \notin SensorsOf("akm") \/ s \in m
  <2>1. 0 .. 1 - 1 = {0} /\ 0 + 1 .. 1 - 1 = {}
    OBVIOUS
  <2> QED BY <2>1 DEF Carries
<1>4. \A m : DueIn(s, m, q) \subseteq 1 .. Len(q)
  BY <1>1 DEF DueIn
<1>5. \A i \in 2 .. Len(q) : i \in DueIn(s, m1, q) <=> i \in DueIn(s, m2, q)
  BY <1>1, <1>2 DEF DueIn
<1>6. \A m : 1 \in DueIn(s, m, q) <=> s \notin SensorsOf("akm") \/ s \in m
  BY <1>1, <1>3 DEF DueIn
<1>7. s \notin SensorsOf("akm") \/ (s \in m1 <=> s \in m2) =>
              DueIn(s, m1, q) = DueIn(s, m2, q)
  <2> SUFFICES ASSUME s \notin SensorsOf("akm") \/ (s \in m1 <=> s \in m2)
               PROVE  DueIn(s, m1, q) = DueIn(s, m2, q)
    OBVIOUS
  <2>1. 1 \in DueIn(s, m1, q) <=> 1 \in DueIn(s, m2, q)
    BY <1>6
  <2>2. \A i \in 1 .. Len(q) : i \in DueIn(s, m1, q) <=> i \in DueIn(s, m2, q)
    BY <1>1, <1>5, <2>1
  <2>3. DueIn(s, m1, q) \subseteq 1 .. Len(q) /\ DueIn(s, m2, q) \subseteq 1 .. Len(q)
    BY <1>4
  <2>4. ASSUME NEW i PROVE i \in DueIn(s, m1, q) <=> i \in DueIn(s, m2, q)
    BY <2>2, <2>3
  <2> QED BY <2>4
<1>8. ASSUME s \in SensorsOf("akm"), s \in m1, s \notin m2
      PROVE  Cardinality(DueIn(s, m1, q)) = Cardinality(DueIn(s, m2, q)) + 1
  <2>1. DueIn(s, m1, q) = DueIn(s, m2, q) \cup {1} /\ 1 \notin DueIn(s, m2, q)
    BY <1>1, <1>4, <1>5, <1>6, <1>8
  <2>2. IsFiniteSet(DueIn(s, m2, q)) /\ Cardinality(DueIn(s, m2, q)) \in Nat
    BY DueFinite
  <2> QED BY <2>1, <2>2, FS_AddElement
<1>9. Len(q) + 1 \in 2 .. Len(q) + 1
  BY <1>1
<1> QED BY <1>2, <1>7, <1>8, <1>9

(* The events that a driver's device sends.                                *)
EventsOf(d) == {Value(s, v) : s \in SensorsOf(d), v \in 0 .. 1} \cup {Syn, Noise}

(* The index into mSensors.                                                *)
AtInv == at \in 1 .. 4 /\ (pc \in InReadEvents => at \in 1 .. 3)

(* The readers hold what they have room for, of events of their own        *)
(* device.                                                                 *)
QueuesOK ==
  /\ kernel \in [Drivers -> Seq(InputEvents)] /\ reader \in [Drivers -> Seq(InputEvents)]
  /\ \A d \in Drivers : /\ kernel[d] \in Seq(EventsOf(d)) /\ reader[d] \in Seq(EventsOf(d))
                       /\ Len(reader[d]) <= ReaderSize[d]
  /\ mPendingMask \subseteq SensorsOf("akm")
  /\ near \in 0 .. 1

(* A packet has values of its own device's sensors.                        *)
PacketOK ==
  /\ packet \in [Drivers -> SUBSET Sensors]
  /\ \A d \in Drivers : packet[d] \subseteq SensorsOf(d)

(* The packet of akm that has not ended: its values are those since the    *)
(* last SYN, or in the mask if no event is before them.                    *)
Begun ==
  \A s \in SensorsOf("akm") :
    s \in packet["akm"]
      <=> Carries(s, mPendingMask, OnTheWay("akm"), Len(OnTheWay("akm")) + 1)

(* Packets are counted.                                                    *)
CountsOK == owed \in [Sensors -> Int]

(* The inductive invariant of OnePerPacket.                                *)
PacketInv == AtInv /\ QueuesOK /\ PacketOK /\ Begun /\ CountsOK /\ OnePerPacket

packetVars == <<near, kernel, reader, packet, mPendingMask, owed>>

(* The drivers of the sensors.                                             *)
LEMMA Sides ==
  /\ SensorsOf("akm") = {"M", "O"} /\ SensorsOf("bosch") = {"A"} /\ SensorsOf("proximity") = {"P"}
  /\ \A s \in Sensors : handleToDriver[s] \in Drivers
  /\ \A s \in Sensors, d \in Drivers : s \in SensorsOf(d) <=> handleToDriver[s] = d
BY DEF SensorsOf, Sensors, handleToDriver, Drivers

(* The events of a driver.                                                 *)
LEMMA EventsFacts ==
  ASSUME NEW d \in Drivers
  PROVE  /\ EventsOf(d) \subseteq InputEvents
         /\ Syn \in EventsOf(d) /\ Noise \in EventsOf(d)
         /\ \A s \in SensorsOf(d), v \in 0 .. 1 : Value(s, v) \in EventsOf(d)
         /\ \A e \in EventsOf(d) : /\ e.type = "value" => e.code \in SensorsOf(d) /\ e # Syn
                                   /\ e.type = "syn" => e = Syn
                                   /\ e.type = "noise" => e # Syn /\ e.code = ""
<1>1. EventsOf(d) \subseteq InputEvents
  BY DEF EventsOf, InputEvents, SensorsOf
<1>2. \A s \in SensorsOf(d), v \in 0 .. 1 : Value(s, v) \in EventsOf(d)
  BY DEF EventsOf
<1>3. Syn \in EventsOf(d) /\ Noise \in EventsOf(d)
  BY DEF EventsOf
<1>4. ASSUME NEW e \in EventsOf(d)
      PROVE  /\ e.type = "value" => e.code \in SensorsOf(d) /\ e # Syn
             /\ e.type = "syn" => e = Syn
             /\ e.type = "noise" => e # Syn /\ e.code = ""
  <2>0. \/ \E s \in SensorsOf(d), v \in 0 .. 1 : e = Value(s, v)
        \/ e = Syn \/ e = Noise
    BY DEF EventsOf
  <2>1. ASSUME NEW s \in SensorsOf(d), NEW v \in 0 .. 1, e = Value(s, v)
        PROVE  e.type = "value" /\ e.code \in SensorsOf(d) /\ e # Syn
    BY <2>1 DEF Value, Syn
  <2>2. CASE e = Syn
    BY <2>2 DEF Syn
  <2>3. CASE e = Noise
    BY <2>3 DEF Noise, Syn
  <2> QED BY <2>0, <2>1, <2>2, <2>3
<1> QED BY <1>1, <1>2, <1>3, <1>4

(* Due, by the definitions above.                                          *)
LEMMA DueIs ==
  /\ \A s \in Sensors :
       Due(s) = Cardinality(DueIn(s, mPendingMask, OnTheWay(handleToDriver[s])))
  /\ \A s \in Sensors :
       Due(s)' = Cardinality(DueIn(s, mPendingMask', OnTheWay(handleToDriver[s])'))
<1>1. ASSUME NEW s \in Sensors
      PROVE Due(s) = Cardinality(DueIn(s, mPendingMask, OnTheWay(handleToDriver[s])))
  BY DEF Due, DueIn, HasValue, Carries
<1>2. ASSUME NEW s \in Sensors
      PROVE Due(s)' = Cardinality(DueIn(s, mPendingMask', OnTheWay(handleToDriver[s])'))
  BY DEF Due, DueIn, HasValue, Carries
<1> QED BY <1>1, <1>2

(* The queues are sequences of events.                                     *)
LEMMA OnTheWayOK ==
  ASSUME QueuesOK, NEW d \in Drivers
  PROVE  /\ OnTheWay(d) \in Seq(InputEvents)
         /\ kernel[d] \in Seq(InputEvents) /\ reader[d] \in Seq(InputEvents)
BY ConcatProperties DEF QueuesOK, OnTheWay

(* Steps that touch nothing of this keep it.                               *)
LEMMA PacketFrame ==
  ASSUME PacketInv, UNCHANGED packetVars, AtInv'
  PROVE  PacketInv'
<1>1. \A d \in Drivers : OnTheWay(d)' = OnTheWay(d)
  BY DEF packetVars, OnTheWay
<1>2. \A s \in Sensors : Due(s)' = Due(s)
  BY <1>1, DueIs, Sides DEF packetVars
<1>3. QueuesOK' /\ PacketOK' /\ CountsOK'
  BY DEF PacketInv, packetVars, QueuesOK, PacketOK, CountsOK
<1>4. Begun'
  BY <1>1 DEF PacketInv, packetVars, Begun, Drivers
<1>5. OnePerPacket'
  BY <1>2 DEF PacketInv, packetVars, OnePerPacket
<1> QED BY <1>3, <1>4, <1>5 DEF PacketInv

(* What is appended to the later half is appended to the whole.            *)
LEMMA AppendLast ==
  ASSUME NEW S, NEW a \in Seq(S), NEW b \in Seq(S), NEW e \in S
  PROVE  a \o Append(b, e) = Append(a \o b, e)
<1>1. /\ Append(b, e) \in Seq(S) /\ a \o b \in Seq(S)
      /\ Len(a) \in Nat /\ Len(b) \in Nat /\ Len(a \o b) = Len(a) + Len(b)
  BY AppendProperties, ConcatProperties, LenProperties
<1>2. a \o Append(b, e) \in Seq(S) /\ Len(a \o Append(b, e)) = Len(a) + Len(b) + 1
  BY <1>1, AppendProperties, ConcatProperties
<1>3. Append(a \o b, e) \in Seq(S) /\ Len(Append(a \o b, e)) = Len(a) + Len(b) + 1
  BY <1>1, AppendProperties
<1>4. ASSUME NEW i \in 1 .. Len(a) + Len(b) + 1
      PROVE  (a \o Append(b, e))[i] = Append(a \o b, e)[i]
  BY <1>1
<1> QED BY <1>2, <1>3, <1>4, SeqEqual

(* A device sends an event.                                                *)
LEMMA Sent ==
  ASSUME QueuesOK, NEW d \in Drivers, NEW e \in EventsOf(d),
         kernel' = [kernel EXCEPT ![d] = Append(@, e)],
         UNCHANGED <<reader, mPendingMask>>, near' \in 0 .. 1
  PROVE  /\ QueuesOK'
         /\ OnTheWay(d)' = Append(OnTheWay(d), e)
         /\ \A c \in Drivers : c # d => OnTheWay(c)' = OnTheWay(c)
         /\ e \in InputEvents
<1>1. e \in InputEvents
  BY EventsFacts
<1>2. kernel[d] \in Seq(InputEvents) /\ reader[d] \in Seq(InputEvents)
  BY OnTheWayOK
<1>3. Append(kernel[d], e) \in Seq(EventsOf(d)) /\ Append(kernel[d], e) \in Seq(InputEvents)
  BY <1>1, <1>2, AppendProperties DEF QueuesOK
<1>4. /\ kernel' \in [Drivers -> Seq(InputEvents)]
      /\ kernel'[d] = Append(kernel[d], e)
      /\ \A c \in Drivers : c # d => kernel'[c] = kernel[c]
  BY <1>3 DEF QueuesOK
<1>5. reader[d] \o Append(kernel[d], e) = Append(reader[d] \o kernel[d], e)
  <2> DEFINE a == reader[d]
             b == kernel[d]
  <2>1. a \in Seq(InputEvents) /\ b \in Seq(InputEvents)
    BY <1>2
  <2> HIDE DEF a, b
  <2>2. a \o Append(b, e) = Append(a \o b, e)
    BY <1>1, <2>1, AppendLast
  <2> QED BY <2>2 DEF a, b
<1>6. QueuesOK'
  BY <1>3, <1>4 DEF QueuesOK
<1> QED BY <1>1, <1>4, <1>5, <1>6 DEF OnTheWay

(* Whether the packet now begun has a value.                               *)
LEMMA CarriesAppend ==
  ASSUME NEW q \in Seq(InputEvents), NEW e \in InputEvents, NEW s \in SensorsOf("akm"), NEW mask,
         NEW p, p = Append(q, e)
  PROVE  Carries(s, mask, p, Len(p) + 1)
           <=> e.code = s \/ (e # Syn /\ Carries(s, mask, q, Len(q) + 1))
BY DueAppend DEF SensorsOf

(* Sending a value, or an event without meaning, makes nothing due.        *)
LEMMA PacketNotSyn ==
  ASSUME PacketInv, NEW d \in Drivers, NEW e \in EventsOf(d), e # Syn,
         kernel' = [kernel EXCEPT ![d] = Append(@, e)],
         UNCHANGED <<reader, mPendingMask, owed, pc, at>>,
         PacketOK', near' \in 0 .. 1,
         \A s \in SensorsOf("akm") :
            s \in packet'["akm"] <=> s \in packet["akm"] \/ (d = "akm" /\ e.code = s)
  PROVE  PacketInv'
<1>1. /\ QueuesOK'
      /\ OnTheWay(d)' = Append(OnTheWay(d), e)
      /\ \A c \in Drivers : c # d => OnTheWay(c)' = OnTheWay(c)
      /\ e \in InputEvents
  BY Sent DEF PacketInv
<1>2. \A c \in Drivers : OnTheWay(c) \in Seq(InputEvents)
  BY OnTheWayOK DEF PacketInv
<1>3. ASSUME NEW s \in Sensors PROVE Due(s)' = Due(s)
  <2>1. CASE handleToDriver[s] = d
    <3>1. Cardinality(DueIn(s, mPendingMask, Append(OnTheWay(d), e)))
            = Cardinality(DueIn(s, mPendingMask, OnTheWay(d)))
      BY <1>1, <1>2, DueAppend
    <3> QED BY <1>1, <2>1, <3>1, DueIs
  <2>2. CASE handleToDriver[s] # d
    BY <1>1, <2>2, DueIs, Sides
  <2> QED BY <2>1, <2>2
<1>4. Begun'
  <2>1. CASE d = "akm"
    <3> SUFFICES ASSUME NEW s \in SensorsOf("akm")
                 PROVE  s \in packet'["akm"]
                   <=> Carries(s, mPendingMask', OnTheWay("akm")', Len(OnTheWay("akm")') + 1)
      BY DEF Begun
    <3>1. s \in Sensors
      BY DEF SensorsOf
    <3>2. Carries(s, mPendingMask, OnTheWay("akm")', Len(OnTheWay("akm")') + 1)
            <=> e.code = s \/ Carries(s, mPendingMask, OnTheWay("akm"), Len(OnTheWay("akm")) + 1)
      BY <1>1, <1>2, <2>1, <3>1, CarriesAppend
    <3> QED BY <2>1, <3>2 DEF PacketInv, Begun
  <2>2. CASE d # "akm"
    BY <1>1, <2>2 DEF PacketInv, Begun, Drivers
  <2> QED BY <2>1, <2>2
<1>5. OnePerPacket' /\ CountsOK' /\ AtInv'
  BY <1>3 DEF PacketInv, OnePerPacket, CountsOK, AtInv
<1> QED BY <1>1, <1>4, <1>5 DEF PacketInv

(* The end of a packet makes it due for each of its sensors.               *)
LEMMA PacketEnd ==
  ASSUME PacketInv, NEW d \in Drivers, EndPacket(d),
         UNCHANGED <<reader, mPendingMask, pc, at>>
  PROVE  PacketInv'
<1> DEFINE e == Syn
<1>0. kernel' = [kernel EXCEPT ![d] = Append(@, e)] /\ e \in EventsOf(d)
  BY EventsFacts DEF EndPacket
<1>1. /\ QueuesOK'
      /\ OnTheWay(d)' = Append(OnTheWay(d), e)
      /\ \A c \in Drivers : c # d => OnTheWay(c)' = OnTheWay(c)
      /\ e \in InputEvents
  BY <1>0, Sent DEF PacketInv, QueuesOK, EndPacket
<1>2. \A c \in Drivers : OnTheWay(c) \in Seq(InputEvents)
  BY OnTheWayOK DEF PacketInv
<1>3. packet \in [Drivers -> SUBSET Sensors] /\ packet[d] \subseteq SensorsOf(d) /\ packet[d] # {}
      /\ packet' = [packet EXCEPT ![d] = {}]
  BY DEF PacketInv, PacketOK, EndPacket
<1>4. PacketOK'
  BY <1>3 DEF PacketInv, PacketOK
<1>5. ASSUME NEW s \in Sensors, handleToDriver[s] = d
      PROVE  s \in packet[d] <=> Carries(s, mPendingMask, OnTheWay(d), Len(OnTheWay(d)) + 1)
  <2>1. CASE d = "akm"
    BY <1>5, <2>1, Sides DEF PacketInv, Begun
  <2>2. CASE d # "akm"
    <3>1. Carries(s, mPendingMask, OnTheWay(d), Len(OnTheWay(d)) + 1)
      BY <1>5, <2>2, Sides DEF Carries, Drivers
    <3>2. packet[d] = {s}
      BY <1>3, <1>5, <2>2, Sides DEF Drivers, Sensors, handleToDriver
    <3> QED BY <3>1, <3>2
  <2> QED BY <2>1, <2>2
<1>6. ASSUME NEW s \in Sensors
      PROVE  Due(s)' = IF s \in packet[d] THEN Due(s) + 1 ELSE Due(s)
  <2>1. CASE handleToDriver[s] = d
    <3>1. Cardinality(DueIn(s, mPendingMask, Append(OnTheWay(d), e)))
            = IF s \in packet[d] THEN Cardinality(DueIn(s, mPendingMask, OnTheWay(d))) + 1
              ELSE Cardinality(DueIn(s, mPendingMask, OnTheWay(d)))
      BY <1>1, <1>2, <1>5, <2>1, DueAppend
    <3> QED BY <1>1, <2>1, <3>1, DueIs
  <2>2. CASE handleToDriver[s] # d
    <3>1. s \notin packet[d]
      BY <1>3, <2>2, Sides
    <3> QED BY <1>1, <2>2, <3>1, DueIs, Sides
  <2> QED BY <2>1, <2>2
<1>7. CountsOK'
  BY DEF PacketInv, CountsOK, EndPacket
<1>8. ASSUME NEW s \in Sensors PROVE owed'[s] = Due(s)'
  <2>1. owed'[s] = IF s \in packet[d] THEN owed[s] + 1 ELSE owed[s]
    BY DEF EndPacket
  <2>2. Due(s) \in Nat
    BY <1>2, DueFinite, DueIs, Sides
  <2>3. owed[s] = Due(s)
    BY DEF PacketInv, OnePerPacket
  <2> QED BY <1>6, <2>1, <2>2, <2>3
<1>9. Begun'
  <2>1. CASE d = "akm"
    <3> SUFFICES ASSUME NEW s \in SensorsOf("akm")
                 PROVE  s \in packet'["akm"]
                   <=> Carries(s, mPendingMask', OnTheWay("akm")', Len(OnTheWay("akm")') + 1)
      BY DEF Begun
    <3>1. s \in Sensors
      BY DEF SensorsOf
    <3>2. Carries(s, mPendingMask, OnTheWay("akm")', Len(OnTheWay("akm")') + 1) <=> e.code = s
      BY <1>1, <1>2, <2>1, <3>1, CarriesAppend
    <3>3. s \notin packet'["akm"]
      BY <1>3, <2>1
    <3> QED BY <3>1, <3>2, <3>3, CodeOfSyn
  <2>2. CASE d # "akm"
    BY <1>1, <1>3, <2>2 DEF PacketInv, Begun, Drivers
  <2> QED BY <2>1, <2>2
<1> QED BY <1>1, <1>4, <1>7, <1>8, <1>9 DEF PacketInv, OnePerPacket, AtInv

(* So a device keeps the invariant.                                        *)
LEMMA PacketDevice ==
  ASSUME PacketInv, NEW d \in Drivers, Device(d)
  PROVE  PacketInv'
<1>1. UNCHANGED <<reader, mPendingMask, pc, at>>
  BY DEF Device, drvVars
<1>2. ASSUME NEW s \in Sensors, Change(d, s) PROVE PacketInv'
  <2> DEFINE v == IF s = "P" THEN near' ELSE 0
             e == Value(s, v)
  <2>1. near' \in 0 .. 1 /\ v \in 0 .. 1
    BY <1>2 DEF Change, PacketInv, QueuesOK
  <2>2. s \in SensorsOf(d) /\ UNCHANGED owed
    BY <1>2 DEF Change, SensorsOf
  <2>3. e \in EventsOf(d) /\ e # Syn /\ e.code = s
    BY <1>2, <2>1, <2>2, EventsFacts, CodeOfSyn
  <2>4. packet' = [packet EXCEPT ![d] = @ \cup {s}] /\ kernel' = [kernel EXCEPT ![d] = Append(@, e)]
    BY <1>2 DEF Change
  <2>5. /\ packet' \in [Drivers -> SUBSET Sensors]
        /\ packet'[d] = packet[d] \cup {s}
        /\ \A c \in Drivers : c # d => packet'[c] = packet[c]
    BY <2>4 DEF PacketInv, PacketOK
  <2>6. PacketOK'
    BY <2>2, <2>5 DEF PacketInv, PacketOK
  <2>7. ASSUME NEW x \in SensorsOf("akm")
        PROVE  x \in packet'["akm"] <=> x \in packet["akm"] \/ (d = "akm" /\ e.code = x)
    BY <2>3, <2>5 DEF Drivers
  <2> HIDE DEF e, v
  <2> QED BY <1>1, <2>1, <2>2, <2>3, <2>4, <2>6, <2>7, PacketNotSyn
<1>3. ASSUME SendNoise(d) PROVE PacketInv'
  <2>1. /\ Noise \in EventsOf(d) /\ Noise # Syn /\ \A x \in SensorsOf("akm") : Noise.code # x
    BY EventsFacts, CodeOfSyn, Sides DEF Sensors
  <2>2. /\ kernel' = [kernel EXCEPT ![d] = Append(@, Noise)]
        /\ UNCHANGED <<packet, near, owed>>
    BY <1>3 DEF SendNoise
  <2>3. PacketOK' /\ near' \in 0 .. 1
    BY <2>2 DEF PacketInv, PacketOK, QueuesOK
  <2> QED BY <1>1, <2>1, <2>2, <2>3, PacketNotSyn
<1> QED BY <1>1, <1>2, <1>3, PacketEnd DEF Device

(* A sequence cut in two.                                                  *)
LEMMA SplitAt ==
  ASSUME NEW S, NEW b \in Seq(S), NEW k \in 0 .. Len(b)
  PROVE  /\ SubSeq(b, 1, k) \in Seq(S) /\ Len(SubSeq(b, 1, k)) = k
         /\ SubSeq(b, k + 1, Len(b)) \in Seq(S)
         /\ SubSeq(b, 1, k) \o SubSeq(b, k + 1, Len(b)) = b
<1>1. Len(b) \in Nat /\ \A i \in 1 .. Len(b) : b[i] \in S
  BY LenProperties, ElementOfSeq
<1>2. SubSeq(b, 1, k) \in Seq(S) /\ Len(SubSeq(b, 1, k)) = k
  BY <1>1, SubSeqProperties
<1>3. SubSeq(b, k + 1, Len(b)) \in Seq(S)
  BY <1>1, SubSeqProperties
<1>4. SubSeq(b, 1, k) \o SubSeq(b, k + 1, Len(b)) = SubSeq(b, 1, Len(b))
  <2>1. 1 \in 1 .. Len(b) + 1 /\ k \in 1 - 1 .. Len(b) /\ Len(b) \in k .. Len(b)
    BY <1>1
  <2> QED BY <2>1, ConcatAdjacentSubSeq
<1> QED BY <1>2, <1>3, <1>4, SubSeqFull

(* The first part of a sequence moved to the end of another.               *)
LEMMA Shift ==
  ASSUME NEW S, NEW a \in Seq(S), NEW b \in Seq(S), NEW k \in 0 .. Len(b),
         NEW c, c = SubSeq(b, 1, k), NEW d, d = SubSeq(b, k + 1, Len(b))
  PROVE  /\ d \in Seq(S) /\ a \o c \in Seq(S) /\ Len(a \o c) = Len(a) + k
         /\ (a \o c) \o d = a \o b
<1>1. c \in Seq(S) /\ d \in Seq(S) /\ Len(c) = k /\ c \o d = b
  BY SplitAt
<1>2. (a \o c) \o d = a \o (c \o d)
  <2>1. c \in Seq(S) /\ d \in Seq(S)
    BY <1>1
  <2>2. a \in Seq(S)
    OBVIOUS
  <2> QED BY ONLY <2>1, <2>2
<1>3. a \o c \in Seq(S) /\ Len(a \o c) = Len(a) + k
  BY <1>1, ConcatProperties
<1> QED BY <1>1, <1>2, <1>3

(* fill moves events from the device to the reader: those on their way     *)
(* stay the same, in the same order.                                       *)
LEMMA PacketFill ==
  ASSUME PacketInv, FillReader, UNCHANGED <<near, packet>>
  PROVE  PacketInv'
<1>1. PICK d \in Drivers : d = Driver
  BY Order DEF PacketInv, AtInv, FillReader, Goes, InReadEvents, Drivers
<1> DEFINE a == reader[d]
           b == kernel[d]
           k == Lowest(Free(d), Len(b))
<1>2. /\ reader' = [reader EXCEPT ![d] = a \o SubSeq(b, 1, k)]
      /\ kernel' = [kernel EXCEPT ![d] = SubSeq(b, k + 1, Len(b))]
      /\ UNCHANGED <<mPendingMask, owed, at>> /\ pc' = "drain" /\ pc = "fill"
  BY <1>1 DEF FillReader, Goes
<1>3. /\ a \in Seq(InputEvents) /\ b \in Seq(InputEvents)
      /\ a \in Seq(EventsOf(d)) /\ b \in Seq(EventsOf(d))
      /\ Len(a) <= ReaderSize[d] /\ ReaderSize[d] \in Nat /\ Len(a) \in Nat /\ Len(b) \in Nat
  BY OnTheWayOK, LenProperties, PollAssumption DEF PacketInv, QueuesOK
<1>4. k \in 0 .. Len(b) /\ Len(a) + k <= ReaderSize[d]
  BY <1>3 DEF Free, Lowest
<1> HIDE DEF a, b, k
<1> DEFINE c == SubSeq(b, 1, k)
           e == SubSeq(b, k + 1, Len(b))
<1>a. c = SubSeq(b, 1, k) /\ e = SubSeq(b, k + 1, Len(b))
  OBVIOUS
<1> HIDE DEF c, e
<1>5. /\ e \in Seq(InputEvents)
      /\ a \o c \in Seq(InputEvents) /\ Len(a \o c) = Len(a) + k
  <2>1. a \in Seq(InputEvents) /\ b \in Seq(InputEvents)
    BY <1>3
  <2>2. e \in Seq(InputEvents)
    BY <1>4, <1>a, <2>1, Shift
  <2>3. a \o c \in Seq(InputEvents) /\ Len(a \o c) = Len(a) + k
    BY <1>4, <1>a, <2>1, Shift
  <2> QED BY <2>2, <2>3
<1>b. (a \o c) \o e = a \o b
  <2>1. /\ a \in Seq(InputEvents) /\ b \in Seq(InputEvents)
        /\ c \in Seq(InputEvents) /\ e \in Seq(InputEvents)
    BY <1>3, <1>4, <1>a, SplitAt
  <2>2. c \o e = b
    BY <1>4, <1>a, <2>1, SplitAt
  <2>3. (a \o c) \o e = a \o (c \o e)
    BY ONLY <2>1
  <2> QED BY <2>2, <2>3
<1>6. e \in Seq(EventsOf(d)) /\ a \o c \in Seq(EventsOf(d))
  BY <1>3, <1>4, <1>a, Shift
<1>7. /\ reader' \in [Drivers -> Seq(InputEvents)] /\ kernel' \in [Drivers -> Seq(InputEvents)]
      /\ reader'[d] = a \o c /\ kernel'[d] = e
      /\ \A x \in Drivers : x # d => reader'[x] = reader[x] /\ kernel'[x] = kernel[x]
  BY <1>2, <1>5, <1>6, <1>a DEF PacketInv, QueuesOK
<1>8. \A x \in Drivers : OnTheWay(x)' = OnTheWay(x)
  BY <1>b, <1>7 DEF OnTheWay, a, b
<1>9. QueuesOK'
  BY <1>2, <1>4, <1>5, <1>6, <1>7 DEF PacketInv, QueuesOK
<1>10. \A s \in Sensors : Due(s)' = Due(s)
  BY <1>2, <1>8, DueIs, Sides
<1>11. Begun'
  BY <1>2, <1>8 DEF PacketInv, Begun, Drivers
<1>12. PacketOK' /\ CountsOK' /\ OnePerPacket'
  BY <1>2, <1>10 DEF PacketInv, PacketOK, CountsOK, OnePerPacket
<1>13. AtInv'
  BY <1>2 DEF PacketInv, AtInv, InReadEvents
<1> QED BY <1>9, <1>11, <1>12, <1>13 DEF PacketInv

(* The oldest event on its way is the first in the reader.                 *)
LEMMA HeadOfConcat ==
  ASSUME NEW a \in Seq(InputEvents), a # << >>, NEW b \in Seq(InputEvents)
  PROVE  a \o b # << >> /\ Head(a \o b) = Head(a)
<1>1. Len(a) \in Nat /\ Len(a) >= 1 /\ Len(b) \in Nat /\ Head(a) = a[1]
  BY TailOf, LenProperties
<1>2. a \o b \in Seq(InputEvents) /\ Len(a \o b) = Len(a) + Len(b) /\ (a \o b)[1] = a[1]
  BY <1>1, ConcatProperties
<1>3. a \o b # << >>
  BY <1>1, <1>2, EmptySeq
<1> QED BY <1>1, <1>2, <1>3, TailOf

(* An event taken out of the reader is the oldest on its way.              *)
LEMMA Taken ==
  ASSUME QueuesOK, NEW d \in Drivers, reader[d] # << >>,
         reader' = [reader EXCEPT ![d] = Tail(@)], UNCHANGED <<near, kernel>>,
         mPendingMask' \subseteq SensorsOf("akm")
  PROVE  /\ QueuesOK'
         /\ OnTheWay(d) # << >>
         /\ Head(OnTheWay(d)) = Head(reader[d])
         /\ OnTheWay(d)' = Tail(OnTheWay(d))
         /\ Head(reader[d]) \in EventsOf(d)
         /\ \A c \in Drivers : c # d => OnTheWay(c)' = OnTheWay(c)
<1> DEFINE a == reader[d]
           b == kernel[d]
<1>1. /\ a \in Seq(InputEvents) /\ b \in Seq(InputEvents)
      /\ a \in Seq(EventsOf(d)) /\ a # << >>
  BY OnTheWayOK DEF QueuesOK
<1>2. /\ Len(a) \in Nat /\ Len(b) \in Nat /\ Len(a) >= 1
      /\ Tail(a) \in Seq(InputEvents) /\ Len(Tail(a)) = Len(a) - 1
      /\ \A i \in 1 .. Len(a) - 1 : Tail(a)[i] = a[i + 1]
      /\ Head(a) = a[1]
  BY <1>1, TailOf, LenProperties
<1>3. Head(a) \in EventsOf(d) /\ Tail(a) \in Seq(EventsOf(d))
  BY <1>1, HeadTailProperties
<1> HIDE DEF a, b
<1>4. /\ a \o b \in Seq(InputEvents) /\ Len(a \o b) = Len(a) + Len(b)
      /\ \A i \in 1 .. Len(a) + Len(b) : (a \o b)[i] = IF i <= Len(a) THEN a[i] ELSE b[i - Len(a)]
      /\ Tail(a) \o b \in Seq(InputEvents) /\ Len(Tail(a) \o b) = Len(a) - 1 + Len(b)
      /\ \A i \in 1 .. Len(a) - 1 + Len(b) :
           (Tail(a) \o b)[i] = IF i <= Len(a) - 1 THEN Tail(a)[i] ELSE b[i - (Len(a) - 1)]
  BY <1>1, <1>2, ConcatProperties
<1>5. a \o b # << >>
  BY <1>2, <1>4, EmptySeq
<1>6. /\ Tail(a \o b) \in Seq(InputEvents) /\ Len(Tail(a \o b)) = Len(a) + Len(b) - 1
      /\ \A i \in 1 .. Len(a) + Len(b) - 1 : Tail(a \o b)[i] = (a \o b)[i + 1]
      /\ Head(a \o b) = (a \o b)[1]
  BY <1>4, <1>5, TailOf
<1>7. Head(a \o b) = Head(a)
  BY <1>2, <1>4, <1>6
<1>8. Tail(a) \o b = Tail(a \o b)
  <2>1. ASSUME NEW i \in 1 .. Len(a) - 1 + Len(b)
        PROVE  (Tail(a) \o b)[i] = Tail(a \o b)[i]
    <3>1. Tail(a \o b)[i] = IF i + 1 <= Len(a) THEN a[i + 1] ELSE b[i + 1 - Len(a)]
      BY <1>2, <1>4, <1>6
    <3> QED BY <1>2, <1>4, <3>1
  <2> QED BY <1>2, <1>4, <1>6, <2>1, SeqEqual
<1>9. /\ reader' \in [Drivers -> Seq(InputEvents)]
      /\ reader'[d] = Tail(a)
      /\ \A c \in Drivers : c # d => reader'[c] = reader[c]
  BY <1>2 DEF QueuesOK, a
<1>10. QueuesOK'
  <2>1. Len(Tail(a)) <= ReaderSize[d]
    <3>1. Len(a) <= ReaderSize[d] /\ ReaderSize[d] \in Nat
      BY PollAssumption DEF QueuesOK, a
    <3> QED BY <1>2, <3>1
  <2> QED BY <1>3, <1>9, <2>1 DEF QueuesOK
<1> QED BY <1>3, <1>5, <1>7, <1>8, <1>9, <1>10 DEF OnTheWay, a, b

(* The sensors that a SYN of d, taken now, deals with.                     *)
DealtAt(d, s) == handleToDriver[s] = d /\ (s \notin SensorsOf("akm") \/ s \in mPendingMask)

(* Taking an event keeps the invariant if the mask follows it and a SYN    *)
(* settles what is owed to the sensors of its packet.                      *)
LEMMA PacketTaken ==
  ASSUME PacketInv, NEW d \in Drivers, d = Driver, Draining, TakeNext,
         UNCHANGED <<near, kernel, packet, pc, at>>,
         mPendingMask' \subseteq SensorsOf("akm"),
         IF d = "akm"
         THEN \A s \in SensorsOf("akm") :
                s \in mPendingMask' <=> Event.code = s \/ (Event # Syn /\ s \in mPendingMask)
         ELSE mPendingMask' = mPendingMask,
         owed' \in [Sensors -> Int],
         \A s \in Sensors :
            owed'[s] = IF Event = Syn /\ DealtAt(d, s) THEN owed[s] - 1 ELSE owed[s]
  PROVE  PacketInv'
<1> DEFINE q == OnTheWay(d)
<1>1. reader[d] # << >> /\ Event = Head(reader[d]) /\ reader' = [reader EXCEPT ![d] = Tail(@)]
  BY DEF Draining, Event, TakeNext
<1>2. /\ QueuesOK'
      /\ q # << >> /\ Head(q) = Event /\ OnTheWay(d)' = Tail(q)
      /\ \A c \in Drivers : c # d => OnTheWay(c)' = OnTheWay(c)
  BY <1>1, Taken DEF PacketInv
<1>3. \A c \in Drivers : OnTheWay(c) \in Seq(InputEvents)
  BY OnTheWayOK DEF PacketInv
<1>4. q \in Seq(InputEvents)
  BY <1>3
<1> HIDE DEF q
<1>5. ASSUME NEW s \in Sensors, handleToDriver[s] = d
      PROVE  /\ Due(s) = Cardinality(DueIn(s, mPendingMask, q))
             /\ Due(s)' = Cardinality(DueIn(s, mPendingMask', Tail(q)))
             /\ s \in SensorsOf("akm") =>
                  (s \in mPendingMask'
                     <=> Head(q).code = s \/ (Head(q) # Syn /\ s \in mPendingMask))
  <2>1. s \in SensorsOf("akm") => d = "akm"
    BY <1>5, Sides DEF Drivers
  <2> QED BY <1>2, <1>5, <2>1, DueIs DEF q
<1>6. ASSUME NEW s \in Sensors PROVE Due(s) \in Nat
  BY <1>3, DueFinite, DueIs, Sides
<1>7. ASSUME NEW s \in Sensors
      PROVE  Due(s) = IF Event = Syn /\ DealtAt(d, s) THEN Due(s)' + 1 ELSE Due(s)'
  <2>1. CASE handleToDriver[s] = d
    <3>1. CASE Event = Syn /\ DealtAt(d, s)
      <4>1. Head(q) = Syn /\ (s \notin SensorsOf("akm") \/ s \in mPendingMask)
        BY <1>2, <3>1 DEF DealtAt
      <4>2. Cardinality(DueIn(s, mPendingMask, q))
              = Cardinality(DueIn(s, mPendingMask', Tail(q))) + 1
        BY <1>2, <1>4, <1>5, <2>1, <4>1, DueTail
      <4> QED BY <1>5, <2>1, <3>1, <4>2
    <3>2. CASE ~(Event = Syn /\ DealtAt(d, s))
      <4>1. ~(Head(q) = Syn /\ (s \notin SensorsOf("akm") \/ s \in mPendingMask))
        BY <1>2, <2>1, <3>2 DEF DealtAt
      <4>2. Cardinality(DueIn(s, mPendingMask, q)) = Cardinality(DueIn(s, mPendingMask', Tail(q)))
        BY <1>2, <1>4, <1>5, <2>1, <4>1, DueTail
      <4> QED BY <1>5, <2>1, <3>2, <4>2
    <3> QED BY <3>1, <3>2
  <2>2. CASE handleToDriver[s] # d
    <3>1. OnTheWay(handleToDriver[s])' = OnTheWay(handleToDriver[s]) /\ ~DealtAt(d, s)
      BY <1>2, <2>2, Sides DEF DealtAt
    <3>2. OnTheWay(handleToDriver[s]) \in Seq(InputEvents)
      BY <1>3, Sides
    <3>3. s \notin SensorsOf("akm") \/ mPendingMask' = mPendingMask
      BY <2>2, Sides DEF Drivers
    <3>4. s \notin SensorsOf("akm")
            => DueIn(s, mPendingMask, OnTheWay(handleToDriver[s]))
                 = DueIn(s, mPendingMask', OnTheWay(handleToDriver[s]))
      BY DEF DueIn, Carries
    <3> QED BY <3>1, <3>3, <3>4, DueIs
  <2> QED BY <2>1, <2>2
<1>8. ASSUME NEW s \in Sensors PROVE owed'[s] = Due(s)'
  <2>1. owed[s] = Due(s)
    BY DEF PacketInv, OnePerPacket
  <2>2. Due(s)' \in Nat
    <3>1. Tail(q) \in Seq(InputEvents)
      BY <1>2, <1>4, HeadTailProperties
    <3>2. handleToDriver[s] \in Drivers
      BY Sides
    <3>3. OnTheWay(handleToDriver[s])' \in Seq(InputEvents)
      <4>1. CASE handleToDriver[s] = d
        BY <1>2, <3>1, <4>1
      <4>2. CASE handleToDriver[s] # d
        BY <1>2, <1>3, <3>2, <4>2
      <4> QED BY <4>1, <4>2
    <3> QED BY <3>3, DueFinite, DueIs
  <2> QED BY <1>7, <2>1, <2>2
<1>9. Begun'
  <2> SUFFICES ASSUME NEW s \in SensorsOf("akm")
               PROVE  s \in packet'["akm"]
                   <=> Carries(s, mPendingMask', OnTheWay("akm")', Len(OnTheWay("akm")') + 1)
    BY DEF Begun
  <2>1. s \in Sensors /\ "akm" \in Drivers /\ handleToDriver[s] = "akm"
    BY DEF SensorsOf, Drivers
  <2>2. s \in packet["akm"] <=> Carries(s, mPendingMask, OnTheWay("akm"), Len(OnTheWay("akm")) + 1)
    BY DEF PacketInv, Begun
  <2>3. CASE d = "akm"
    <3>1. Carries(s, mPendingMask', Tail(q), Len(Tail(q)) + 1)
            <=> Carries(s, mPendingMask, q, Len(q) + 1)
      BY <1>2, <1>4, <1>5, <2>1, <2>3, DueTail
    <3> QED BY <1>2, <2>2, <2>3, <3>1 DEF q
  <2>4. CASE d # "akm"
    <3>1. OnTheWay("akm")' = OnTheWay("akm") /\ mPendingMask' = mPendingMask
      BY <1>2, <2>1, <2>4
    <3> QED BY <2>2, <3>1
  <2> QED BY <2>3, <2>4
<1>10. PacketOK' /\ CountsOK' /\ AtInv'
  BY DEF PacketInv, PacketOK, CountsOK, AtInv
<1> QED BY <1>2, <1>8, <1>9, <1>10 DEF PacketInv, OnePerPacket

(* The driver that is read.                                                *)
LEMMA DrainingAt ==
  ASSUME PacketInv, Draining
  PROVE  /\ Driver \in Drivers /\ Event \in EventsOf(Driver)
         /\ Driver = "proximity" \/ Driver = "bosch" \/ Driver = "akm"
<1>1. Driver = "proximity" \/ Driver = "bosch" \/ Driver = "akm"
  BY Order DEF PacketInv, AtInv, Draining, InReadEvents
<1>2. Driver \in Drivers
  BY <1>1 DEF Drivers
<1>3. reader[Driver] \in Seq(EventsOf(Driver)) /\ reader[Driver] # << >>
  BY <1>2 DEF PacketInv, QueuesOK, Draining
<1> QED BY <1>1, <1>2, <1>3, HeadTailProperties DEF Event

(* A value is taken.                                                       *)
LEMMA PacketTakeValue ==
  ASSUME PacketInv, TakeValue, UNCHANGED <<near, packet>>
  PROVE  PacketInv'
<1>1. PICK d \in Drivers : d = Driver
  BY DrainingAt DEF TakeValue
<1>2. Event \in EventsOf(d) /\ Event.type = "value"
  BY <1>1, DrainingAt DEF TakeValue
<1>3. Event # Syn /\ Event.code \in SensorsOf(d)
  BY <1>2, EventsFacts
<1>4. mPendingMask' = IF d = "akm" THEN mPendingMask \cup {Event.code} ELSE mPendingMask
  BY <1>1 DEF TakeValue, processEvent
<1>5. mPendingMask' \subseteq SensorsOf("akm")
  BY <1>3, <1>4 DEF PacketInv, QueuesOK
<1>6. Draining /\ TakeNext /\ UNCHANGED <<kernel, pc, at, owed>>
  BY DEF TakeValue
<1>7. d = "akm" => \A s \in SensorsOf("akm") :
                s \in mPendingMask' <=> Event.code = s \/ (Event # Syn /\ s \in mPendingMask)
  BY <1>3, <1>4
<1>8. d # "akm" => mPendingMask' = mPendingMask
  BY <1>4
<1>9. owed' \in [Sensors -> Int]
      /\ \A s \in Sensors :
            owed'[s] = IF Event = Syn /\ DealtAt(d, s) THEN owed[s] - 1 ELSE owed[s]
  BY <1>3, <1>6 DEF PacketInv, CountsOK
<1> QED BY <1>1, <1>5, <1>6, <1>7, <1>8, <1>9, PacketTaken

(* An event without meaning is taken.                                      *)
LEMMA PacketTakeNoise ==
  ASSUME PacketInv, TakeNoise, UNCHANGED <<near, packet>>
  PROVE  PacketInv'
<1>1. PICK d \in Drivers : d = Driver
  BY DrainingAt DEF TakeNoise
<1>2. Event \in EventsOf(d) /\ Event.type = "noise"
  BY <1>1, DrainingAt DEF TakeNoise
<1>3. Event # Syn /\ Event.code = ""
  BY <1>2, EventsFacts
<1>4. Draining /\ TakeNext /\ UNCHANGED <<kernel, pc, at, owed, mPendingMask>>
  BY DEF TakeNoise
<1>5. mPendingMask' \subseteq SensorsOf("akm")
  BY <1>4 DEF PacketInv, QueuesOK
<1>6. d = "akm" => \A s \in SensorsOf("akm") :
                s \in mPendingMask' <=> Event.code = s \/ (Event # Syn /\ s \in mPendingMask)
  BY <1>3, <1>4, Sides
<1>7. owed' \in [Sensors -> Int]
      /\ \A s \in Sensors :
            owed'[s] = IF Event = Syn /\ DealtAt(d, s) THEN owed[s] - 1 ELSE owed[s]
  BY <1>3, <1>4 DEF PacketInv, CountsOK
<1> QED BY <1>1, <1>4, <1>5, <1>6, <1>7, PacketTaken

(* A SYN of proximity or bosch is taken, for their only sensor.            *)
LEMMA PacketTakeSyn ==
  ASSUME PacketInv, TakeSyn, UNCHANGED <<near, packet>>
  PROVE  PacketInv'
<1>1. PICK d \in Drivers : d = Driver
  BY DrainingAt DEF TakeSyn
<1>2. Event = Syn /\ d # "akm"
  BY <1>1, DrainingAt, EventsFacts DEF TakeSyn
<1>3. PICK s \in Sensors : /\ s = CHOOSE x \in Sensors : handleToDriver[x] = d
                           /\ handleToDriver[s] = d
                           /\ \A x \in Sensors : handleToDriver[x] = d <=> x = s
  <2>1. \E x \in Sensors : handleToDriver[x] = d
    BY <1>2 DEF Drivers, Sensors, handleToDriver
  <2>2. \A x, y \in Sensors : handleToDriver[x] = d /\ handleToDriver[y] = d => x = y
    BY <1>2 DEF Drivers, Sensors, handleToDriver
  <2> QED BY <2>1, <2>2
<1>4. /\ Draining /\ TakeNext /\ UNCHANGED <<kernel, pc, at, mPendingMask>>
      /\ owed' = [owed EXCEPT ![s] = @ - 1]
  BY <1>1, <1>3 DEF TakeSyn
<1>5. mPendingMask' \subseteq SensorsOf("akm")
  BY <1>4 DEF PacketInv, QueuesOK
<1>6. \A x \in Sensors : DealtAt(d, x) <=> x = s
  <2>1. \A x \in Sensors : handleToDriver[x] = d => x \notin SensorsOf("akm")
    BY <1>2, Sides DEF Drivers
  <2> QED BY <1>3, <2>1 DEF DealtAt
<1>7. owed' \in [Sensors -> Int]
      /\ \A x \in Sensors :
            owed'[x] = IF Event = Syn /\ DealtAt(d, x) THEN owed[x] - 1 ELSE owed[x]
  BY <1>2, <1>4, <1>6 DEF PacketInv, CountsOK
<1> QED BY <1>1, <1>2, <1>4, <1>5, <1>7, PacketTaken

(* A SYN of akm is taken with the last sensor of its packet, and stays     *)
(* until then, however often the call runs out of room in between.         *)
LEMMA PacketAkmSyn ==
  ASSUME PacketInv, AkmSyn, UNCHANGED <<near, packet>>
  PROVE  PacketInv'
<1>1. Driver = "akm" /\ "akm" \in Drivers /\ Event = Syn /\ Draining
  BY DrainingAt, EventsFacts DEF AkmSyn, Drivers
<1>2. /\ UNCHANGED <<kernel, pc, at>>
      /\ IF mPendingMask' = {} THEN TakeNext ELSE UNCHANGED reader
  BY DEF AkmSyn, SynDone
<1>3. mPendingMask \subseteq {"M", "O"} /\ owed \in [Sensors -> Int]
  BY Sides DEF PacketInv, QueuesOK, CountsOK
<1>4. CASE mPendingMask = {}
  <2>1. UNCHANGED <<mPendingMask, owed>> /\ TakeNext
    BY <1>2, <1>4 DEF AkmSyn
  <2>2. \A s \in SensorsOf("akm") :
                s \in mPendingMask' <=> Event.code = s \/ (Event # Syn /\ s \in mPendingMask)
    BY <1>1, <1>4, <2>1, CodeOfSyn, Sides DEF Sensors
  <2>3. \A s \in Sensors :
            owed'[s] = IF Event = Syn /\ DealtAt("akm", s) THEN owed[s] - 1 ELSE owed[s]
    BY <1>4, <2>1, Sides DEF DealtAt, Drivers
  <2>4. mPendingMask' \subseteq SensorsOf("akm")
    BY <1>4, <2>1
  <2> QED BY <1>1, <1>2, <1>3, <2>1, <2>2, <2>3, <2>4, PacketTaken
<1>5. CASE mPendingMask # {}
  <2>1. PICK s \in mPendingMask : /\ mPendingMask' = mPendingMask \ {s}
                                  /\ owed' = [owed EXCEPT ![s] = @ - 1]
    BY <1>3, <1>5 DEF AkmSyn
  <2>2. s \in Sensors /\ s \in SensorsOf("akm") /\ handleToDriver[s] = "akm"
    BY <1>3, <2>1, Sides DEF Sensors, handleToDriver
  <2>3. /\ owed' \in [Sensors -> Int] /\ owed'[s] = owed[s] - 1
        /\ \A x \in Sensors : x # s => owed'[x] = owed[x]
    BY <1>3, <2>1, <2>2
  <2>4. mPendingMask' \subseteq SensorsOf("akm")
    BY <1>3, <2>1, Sides
  <2>5. CASE mPendingMask' = {}
    <3>1. mPendingMask = {s}
      BY <2>1, <2>5
    <3>2. \A x \in SensorsOf("akm") :
                x \in mPendingMask' <=> Event.code = x \/ (Event # Syn /\ x \in mPendingMask)
      BY <1>1, <2>5, CodeOfSyn, Sides DEF Sensors
    <3>3. \A x \in Sensors : DealtAt("akm", x) <=> x = s
      BY <2>2, <3>1, Sides DEF DealtAt, Drivers
    <3>4. \A x \in Sensors :
            owed'[x] = IF Event = Syn /\ DealtAt("akm", x) THEN owed[x] - 1 ELSE owed[x]
      BY <1>1, <2>3, <3>3
    <3> QED BY <1>1, <1>2, <2>3, <2>4, <2>5, <3>2, <3>4, PacketTaken
  <2>6. CASE mPendingMask' # {}
    <3>1. UNCHANGED <<reader, kernel>>
      BY <1>2, <2>6
    <3>2. \A c \in Drivers : OnTheWay(c)' = OnTheWay(c) /\ OnTheWay(c) \in Seq(InputEvents)
      BY <3>1, OnTheWayOK DEF OnTheWay, PacketInv
    <3> DEFINE q == OnTheWay("akm")
    <3>3. q \in Seq(InputEvents) /\ q # << >> /\ Head(q) = Syn /\ OnTheWay("akm")' = q
      <4>1. reader["akm"] # << >> /\ Head(reader["akm"]) = Syn
        BY <1>1 DEF Draining, Event
      <4>2. reader["akm"] \in Seq(InputEvents) /\ kernel["akm"] \in Seq(InputEvents)
        BY <1>1, OnTheWayOK DEF PacketInv
      <4>3. OnTheWay("akm") # << >> /\ Head(OnTheWay("akm")) = Head(reader["akm"])
        BY <4>1, <4>2, HeadOfConcat DEF OnTheWay
      <4> QED BY <1>1, <3>2, <4>1, <4>3
    <3> HIDE DEF q
    <3>4. ASSUME NEW x \in Sensors
          PROVE  Due(x) = IF x = s THEN Due(x)' + 1 ELSE Due(x)'
      <4>1. CASE x = s
        <5>1. /\ Due(s) = Cardinality(DueIn(s, mPendingMask, q))
              /\ Due(s)' = Cardinality(DueIn(s, mPendingMask', q))
          BY <2>2, <3>3, DueIs DEF q
        <5>2. s \in mPendingMask /\ s \notin mPendingMask'
          BY <2>1
        <5> QED BY <2>2, <3>3, <4>1, <5>1, <5>2, DueMask
      <4>2. CASE x # s /\ x \in SensorsOf("akm")
        <5>1. /\ Due(x) = Cardinality(DueIn(x, mPendingMask, q))
              /\ Due(x)' = Cardinality(DueIn(x, mPendingMask', q))
          BY <1>1, <3>3, <4>2, DueIs, Sides DEF q
        <5>2. x \in mPendingMask <=> x \in mPendingMask'
          BY <2>1, <4>2
        <5>3. DueIn(x, mPendingMask, q) = DueIn(x, mPendingMask', q)
          BY <3>3, <5>2, DueMask
        <5> QED BY <4>2, <5>1, <5>3
      <4>3. CASE x # s /\ x \notin SensorsOf("akm")
        <5>1. DueIn(x, mPendingMask, OnTheWay(handleToDriver[x]))
                 = DueIn(x, mPendingMask', OnTheWay(handleToDriver[x]))
          BY <4>3 DEF DueIn, Carries
        <5> QED BY <3>2, <4>3, <5>1, DueIs, Sides
      <4> QED BY <4>1, <4>2, <4>3
    <3>5. ASSUME NEW x \in Sensors PROVE owed'[x] = Due(x)'
      <4>1. owed[x] = Due(x)
        BY DEF PacketInv, OnePerPacket, CountsOK
      <4>2. Due(x)' \in Nat
        BY <3>2, DueFinite, DueIs, Sides
      <4> QED BY <2>3, <3>4, <4>1, <4>2
    <3>6. Begun'
      <4> SUFFICES ASSUME NEW x \in SensorsOf("akm")
                   PROVE  x \in packet'["akm"]
                       <=> Carries(x, mPendingMask', OnTheWay("akm")', Len(OnTheWay("akm")') + 1)
        BY DEF Begun
      <4>1. x \in Sensors
        BY DEF SensorsOf
      <4>2. Carries(x, mPendingMask, q, Len(q) + 1) <=> Carries(x, mPendingMask', q, Len(q) + 1)
        BY <3>3, <4>1, DueMask
      <4> QED BY <3>3, <4>2 DEF PacketInv, Begun, q
    <3>7. PacketOK' /\ CountsOK' /\ AtInv' /\ QueuesOK'
      BY <1>2, <2>3, <2>4, <3>1 DEF PacketInv, PacketOK, CountsOK, AtInv, QueuesOK
    <3> QED BY <3>5, <3>6, <3>7 DEF PacketInv, OnePerPacket
  <2> QED BY <2>5, <2>6
<1> QED BY <1>4, <1>5

(* The other steps touch no queue.                                         *)
LEMMA PacketOthers ==
  ASSUME PacketInv,
         \/ Activate \/ Calling \/ Failing
         \/ /\ Scan \/ ReadEvents \/ CopyPending \/ ReturnPending \/ DrainOver \/ Took \/ Poll
            /\ UNCHANGED <<packet, near>>
  PROVE  PacketInv'
<1>1. AtInv
  BY DEF PacketInv
<1>2. CASE Activate
  BY <1>1, <1>2, PacketFrame DEF Activate, packetVars, devVars, drvVars, AtInv
<1>3. CASE Calling
  <2>1. UNCHANGED packetVars /\ AtInv'
    BY <1>3 DEF Calling, PollEvents, Goes, packetVars, drvVars, AtInv, InReadEvents
  <2> QED BY <2>1, PacketFrame
<1>4. CASE Failing
  <2>1. UNCHANGED packetVars /\ AtInv'
    BY <1>1, <1>4 DEF Failing, PollFails, FillFails, Return, Goes, packetVars, drvVars, AtInv,
                      InReadEvents
  <2> QED BY <2>1, PacketFrame
<1>5. ASSUME UNCHANGED <<packet, near>>,
             Scan \/ ReadEvents \/ CopyPending \/ ReturnPending \/ DrainOver \/ Took \/ Poll
      PROVE  PacketInv'
  <2>1. UNCHANGED packetVars
    BY <1>5 DEF Scan, ReadEvents, CopyPending, ReturnPending, DrainOver, Took, Poll,
                packetVars, drvVars
  <2>2. Scan => AtInv'
    BY <1>1, Order DEF Scan, Return, callVars, AtInv, InReadEvents
  <2>3. ReadEvents \/ CopyPending \/ ReturnPending \/ DrainOver => AtInv'
    BY <1>1 DEF ReadEvents, CopyPending, ReturnPending, DrainOver, Goes, AtInv, InReadEvents
  <2>5. Took => AtInv'
    BY <1>1 DEF Took, Goes, AtInv, InReadEvents
  <2>6. Poll => AtInv'
    BY <1>1 DEF Poll, Return, AtInv, InReadEvents
  <2> QED BY <1>5, <2>1, <2>2, <2>3, <2>5, <2>6, PacketFrame
<1> QED BY <1>2, <1>3, <1>4, <1>5

(* At the start nothing is on its way.                                     *)
LEMMA PacketInit == Init => PacketInv
<1> SUFFICES ASSUME Init PROVE PacketInv
  OBVIOUS
<1>1. QueuesOK
  <2>1. \A d \in Drivers : kernel[d] = << >> /\ reader[d] = << >>
    BY DEF Init
  <2>2. Len(<< >>) = 0
    BY EmptySeq
  <2>3. \A d \in Drivers : << >> \in Seq(EventsOf(d)) /\ << >> \in Seq(InputEvents)
    BY EmptySeq
  <2>4. mPendingMask = {} /\ near \in 0 .. 1
    BY DEF Init
  <2>5. \A d \in Drivers : Len(reader[d]) <= ReaderSize[d]
    BY <2>1, <2>2, PollAssumption
  <2>6. /\ kernel \in [Drivers -> Seq(InputEvents)] /\ reader \in [Drivers -> Seq(InputEvents)]
    BY <2>3 DEF Init
  <2> QED BY <2>1, <2>3, <2>4, <2>5, <2>6 DEF QueuesOK
<1>2. \A d \in Drivers : OnTheWay(d) = << >>
  <2>1. << >> \o << >> = << >>
    BY ConcatEmptySeq, EmptySeq
  <2> QED BY <2>1 DEF Init, OnTheWay
<1>3. \A s \in Sensors : DueIn(s, {}, << >>) = {}
  BY DEF DueIn
<1>4. \A s \in Sensors : Due(s) = 0
  <2>1. mPendingMask = {}
    BY DEF Init
  <2> QED BY <1>2, <1>3, <2>1, DueIs, Sides, FS_EmptySet
<1>5. PacketOK /\ CountsOK /\ AtInv
  BY DEF Init, PacketOK, CountsOK, AtInv, InReadEvents
<1>6. OnePerPacket
  BY <1>4 DEF Init, OnePerPacket
<1>7. Begun
  <2> SUFFICES ASSUME NEW s \in SensorsOf("akm")
               PROVE  s \in packet["akm"]
                   <=> Carries(s, mPendingMask, OnTheWay("akm"), Len(OnTheWay("akm")) + 1)
    BY DEF Begun
  <2>1. packet["akm"] = {} /\ OnTheWay("akm") = << >> /\ mPendingMask = {}
    BY <1>2 DEF Init, Drivers
  <2>2. ~Carries(s, {}, << >>, Len(<< >>) + 1)
    <3>1. Len(<< >>) = 0 /\ 0 .. (0 + 1) - 1 = {0}
      BY EmptySeq
    <3> QED BY <3>1 DEF Carries
  <2> QED BY <2>1, <2>2
<1> QED BY <1>1, <1>5, <1>6, <1>7 DEF PacketInv

(* Every step keeps it.                                                    *)
LEMMA PacketNext == ASSUME PacketInv, [Next]_vars PROVE PacketInv'
<1>1. CASE UNCHANGED vars
  BY <1>1, PacketFrame DEF vars, packetVars, devVars, drvVars, PacketInv, AtInv
<1>2. CASE Sending
  BY <1>2, PacketDevice, PollAssumption DEF Sending
<1>3. CASE Activate \/ Failing \/ Calling
  BY <1>3, PacketOthers
<1>4. CASE Reading
  BY <1>4, PacketOthers, PacketFill, PacketTakeValue, PacketTakeNoise, PacketTakeSyn, PacketAkmSyn
     DEF Reading
<1> QED BY <1>1, <1>2, <1>3, <1>4 DEF Next

(* Whatever the rooms of the calls, the sizes of the readers and the       *)
(* reads that fail, each packet is dealt with exactly once for each of     *)
(* its sensors.                                                            *)
THEOREM AlwaysOnePerPacket == Spec => []OnePerPacket
<1>1. Init => PacketInv
  BY PacketInit
<1>2. PacketInv /\ [Next]_vars => PacketInv'
  BY PacketNext
<1>3. PacketInv => OnePerPacket
  BY DEF PacketInv
<1> QED BY <1>1, <1>2, <1>3, PTL DEF Spec

-----------------------------------------------------------------------------
(* A read blocks only if its driver used up the room of an earlier call.   *)

(* POLLIN is set for devices that have events, but for the one just read   *)
(* and those left over; the thread enters a device because of its POLLIN.  *)
Promised ==
  /\ \A d \in revents : \/ kernel[d] # << >>
                        \/ d \in leftover
                        \/ pc \in {"drain", "took"} /\ d = Driver
  /\ pc = "read" => Driver \in revents \/ hasPendingEvents(Driver)
  /\ pc = "fill" => Driver \in revents

(* The inductive invariant of BlocksOnlyOnLeftover.                        *)
RestInv == PacketInv /\ revents \subseteq Drivers /\ Promised

restVars == <<pc, at, kernel, revents, leftover>>

(* Steps that touch nothing of this keep it; an event may become pending.  *)
LEMMA RestFrame ==
  ASSUME RestInv, PacketInv', UNCHANGED restVars, mHasPendingEvent => mHasPendingEvent'
  PROVE  RestInv'
BY DEF RestInv, restVars, Promised, Driver, hasPendingEvents

(* A device only adds events.                                              *)
LEMMA RestSending ==
  ASSUME RestInv, PacketInv', Sending
  PROVE  RestInv'
<1>1. UNCHANGED <<pc, at, revents, leftover, mHasPendingEvent>>
  BY DEF Sending, Device
<1>2. \A d \in Drivers : kernel[d] # << >> => kernel'[d] # << >>
  <2>1. PICK d \in Drivers, e \in InputEvents : kernel' = [kernel EXCEPT ![d] = Append(@, e)]
    <3>1. PICK d \in Drivers : Device(d)
      BY PollAssumption DEF Sending
    <3>2. ASSUME NEW s \in Sensors, Change(d, s)
          PROVE  \E e \in InputEvents : kernel' = [kernel EXCEPT ![d] = Append(@, e)]
      <4>1. (IF s = "P" THEN near' ELSE 0) \in 0 .. 1
        BY <3>2 DEF Change, RestInv, PacketInv, QueuesOK
      <4> DEFINE v == IF s = "P" THEN near' ELSE 0
      <4>2. Value(s, v) \in InputEvents
        BY <4>1 DEF InputEvents
      <4>3. kernel' = [kernel EXCEPT ![d] = Append(@, Value(s, v))]
        BY <3>2 DEF Change
      <4> HIDE DEF v
      <4> QED BY <4>2, <4>3
    <3>3. EndPacket(d) \/ SendNoise(d) =>
            \E e \in InputEvents : kernel' = [kernel EXCEPT ![d] = Append(@, e)]
      BY DEF EndPacket, SendNoise, InputEvents
    <3> QED BY <3>1, <3>2, <3>3 DEF Device
  <2>2. kernel \in [Drivers -> Seq(InputEvents)]
    BY DEF RestInv, PacketInv, QueuesOK
  <2>3. Append(kernel[d], e) # << >>
    BY <2>2, AppendProperties
  <2> QED BY <2>1, <2>2, <2>3
<1> QED BY <1>1, <1>2 DEF RestInv, Promised, Driver, hasPendingEvents

(* activate only makes an event pending.                                   *)
LEMMA RestActivate ==
  ASSUME RestInv, PacketInv', Activate
  PROVE  RestInv'
<1>1. UNCHANGED restVars
  BY DEF Activate, devVars, restVars
<1>2. mHasPendingEvent => mHasPendingEvent'
  BY DEF Activate, EnableSame, EnableFails, Enable, Call, Measure, SetFlag, SetDistance, Wake
<1> QED BY <1>1, <1>2, RestFrame

(* A driver is entered because of its POLLIN or its pending event.         *)
LEMMA RestRead ==
  ASSUME RestInv, PacketInv', Scan \/ ReadEvents \/ CopyPending \/ ReturnPending
  PROVE  RestInv'
<1> USE DEF RestInv, Promised, Driver, hasPendingEvents
<1>1. CASE Scan
  <2>1. /\ pc = "scan" /\ UNCHANGED <<kernel, mHasPendingEvent, revents, leftover>>
        /\ \/ pc' \in {"idle", "scan", "poll"}
           \/ pc' = "read" /\ HasWork(Driver) /\ UNCHANGED at
    BY <1>1 DEF Scan, Return
  <2> QED BY <2>1 DEF HasWork
<1>2. CASE ReadEvents
  BY <1>2 DEF ReadEvents
<1>3. CASE CopyPending \/ ReturnPending
  BY <1>3 DEF CopyPending, ReturnPending, Goes
<1> QED BY <1>1, <1>2, <1>3

(* The device that fill reads is the one the thread is in.                 *)
LEMMA RestFill ==
  ASSUME RestInv, PacketInv', FillReader
  PROVE  RestInv'
<1>1. pc = "fill" /\ pc' = "drain" /\ UNCHANGED <<at, revents, leftover>> /\ Driver' = Driver
  BY DEF FillReader, Goes, Driver
<1>2. \A d \in Drivers : d # Driver => kernel'[d] = kernel[d]
  BY DEF FillReader, RestInv, PacketInv, QueuesOK
<1> QED BY <1>1, <1>2 DEF RestInv, Promised

(* Taking events touches no device and no POLLIN.                          *)
LEMMA RestTake ==
  ASSUME RestInv, PacketInv', TakeValue \/ TakeNoise \/ TakeSyn \/ AkmSyn \/ DrainOver
  PROVE  RestInv'
<1>1. /\ pc = "drain" /\ pc' \in {"drain", "took"} /\ Driver' = Driver
      /\ UNCHANGED <<at, revents, leftover, kernel>>
  BY DEF TakeValue, TakeNoise, TakeSyn, AkmSyn, DrainOver, Goes, Draining, Driver
<1> QED BY <1>1 DEF RestInv, Promised

(* POLLIN is kept only when the room is used up: the driver is left over.  *)
LEMMA RestTook ==
  ASSUME RestInv, PacketInv', Took
  PROVE  RestInv'
<1>1. /\ pc = "took" /\ pc' = "scan" /\ UNCHANGED kernel
      /\ \/ revents' = revents /\ leftover' = leftover \cup {Driver}
         \/ revents' = revents \ {Driver} /\ leftover' = leftover \ {Driver}
  BY DEF Took, Goes
<1> QED BY <1>1 DEF RestInv, Promised

(* poll() sets POLLIN anew, for the devices that have events.              *)
LEMMA RestPoll ==
  ASSUME RestInv, PacketInv', Poll \/ PollFails \/ Calling \/ \E e \in ReadErrors : FillFails(e)
  PROVE  RestInv'
<1> USE DEF RestInv, Promised, Driver
<1>1. CASE Poll
  BY <1>1 DEF Poll, Ready, Return
<1>2. CASE PollFails
  BY <1>2 DEF PollFails, Return
<1>3. CASE Calling
  BY <1>3 DEF Calling, PollEvents, Goes
<1>4. ASSUME NEW e \in ReadErrors, FillFails(e) PROVE RestInv'
  BY <1>4 DEF FillFails, Goes
<1> QED BY <1>1, <1>2, <1>3, <1>4

(* At the start no POLLIN is set.                                          *)
LEMMA RestInit == Init => RestInv
BY PacketInit DEF Init, RestInv, Promised

(* Every step keeps it.                                                    *)
LEMMA RestNext == ASSUME RestInv, [Next]_vars PROVE RestInv'
<1>1. PacketInv'
  BY PacketNext DEF RestInv
<1>2. CASE UNCHANGED vars
  BY <1>1, <1>2, RestFrame DEF vars, restVars, devVars
<1>3. CASE Sending \/ Activate
  BY <1>1, <1>3, RestSending, RestActivate
<1>4. CASE Reading
  BY <1>1, <1>4, RestRead, RestFill, RestTake, RestTook, RestPoll DEF Reading
<1>5. CASE Failing \/ Calling
  BY <1>1, <1>5, RestPoll DEF Failing
<1> QED BY <1>2, <1>3, <1>4, <1>5 DEF Next

(* Whatever room the calls have, however large the readers are and         *)
(* whatever reads fail: the read of a device waits for an event only if    *)
(* an earlier call had its room used up by that driver and kept its        *)
(* POLLIN (sensors.cpp:222).  Every other wait is the one in poll().       *)
THEOREM NeverBlocksOtherwise == Spec => []BlocksOnlyOnLeftover
<1>1. Init => RestInv
  BY RestInit
<1>2. RestInv /\ [Next]_vars => RestInv'
  BY RestNext
<1>3. RestInv => BlocksOnlyOnLeftover
  BY DEF RestInv, Promised, Waiting, BlocksOnlyOnLeftover
<1> QED BY <1>1, <1>2, <1>3, PTL DEF Spec
=============================================================================
