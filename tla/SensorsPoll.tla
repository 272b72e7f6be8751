------------------------------ MODULE SensorsPoll ------------------------------
(***************************************************************************)
(* The sensors of the device: sensors_poll_context_t (sensors.cpp) and its *)
(* three drivers, ProximitySensor, Smb380Sensor ("bosch") and AkmSensor.   *)
(*                                                                         *)
(* One thread of the framework calls pollEvents again and again, another   *)
(* calls activate; nothing in this code orders the two.  An input device   *)
(* gives value events and, after each packet of them, a SYN event.  A      *)
(* driver reads them through an InputEventCircularReader, a bounded queue  *)
(* (InputEventReader, EventQueue), remembers the values, and at a SYN      *)
(* hands out an event for each enabled sensor of the packet.               *)
(***************************************************************************)
EXTENDS Integers, Sequences, FiniteSets

CONSTANTS Devices,       \* the drivers whose input device was found
          ReaderSize,    \* the capacity of the reader of each driver
          Counts,        \* the room a call of pollEvents may have
          ReadErrors,    \* the errnos a read of an input device may fail with
          PollMayFail,   \* whether poll() may fail
          IoctlMayFail,  \* whether the distance may be unknown to setInitialState
          Noisy,         \* the devices that send events meaning nothing to the drivers
          MaxQueue,      \* bound: events of a device not yet read
          MaxActivates,  \* bound: calls of activate
          MaxErrors      \* bound: reads that fail

Drivers == {"proximity", "bosch", "akm"}

ASSUME PollAssumption ==
  /\ Devices \subseteq Drivers
  /\ ReaderSize \in [Drivers -> Nat \ {0}]
  /\ Counts \subseteq Nat \ {0}
  /\ ReadErrors \subseteq Nat \ {0}
  /\ PollMayFail \in BOOLEAN /\ IoctlMayFail \in BOOLEAN
  /\ Noisy \subseteq Devices

(* mSensors, in the order pollEvents visits them.                          *)
mSensors == <<"proximity", "bosch", "akm">>

Sensors == {"P", "A", "M", "O"}

handleToDriver == [P |-> "proximity", A |-> "bosch", M |-> "akm", O |-> "akm"]

SensorsOf(d) == {s \in Sensors : handleToDriver[s] = d}

Value(s, v) == [type |-> "value", code |-> s, value |-> v]
Syn         == [type |-> "syn", code |-> "", value |-> 0]
(* An unknown type, or a distance of -1.                                   *)
Noise       == [type |-> "noise", code |-> "", value |-> 0]

InputEvents == {Value(s, v) : s \in Sensors, v \in 0 .. 1} \cup {Syn, Noise}

VARIABLES
  \* the input devices
  kernel,     \* events of each device not yet read
  packet,     \* the sensors whose value changed since the last SYN
  near,       \* what the proximity device measures
  \* the drivers
  reader,     \* mInputReader: events read and not yet taken
  mEnabled,   \* the sensors that are enabled
  mPendingMask,      \* of akm: sensors with a value newer than the last SYN
  mHasPendingEvent,  \* of proximity: an event to report at once
  distance,   \* of proximity: mPendingEvent.distance
  \* sensors_poll_context_t
  revents,    \* the drivers whose POLLIN is set
  pipe,       \* wake messages in the pipe
  \* the thread in pollEvents
  pc, at,     \* where it is, and the index into mSensors
  count,      \* room left in data
  nbEvents,   \* events put into data
  room, nb,   \* count and numEventReceived of readEvents
  copied,     \* the distance copied into data
  errors,     \* how many reads have failed
  \* the thread in activate
  apc,        \* where it is
  measured,   \* absinfo.value
  activates,  \* how many calls there were
  \* history
  owed,       \* of each sensor, the packets with a value of it that were sent
              \* and have not been dealt with
  leftover,   \* the drivers whose POLLIN was kept because they used up the room
  reported    \* the distance in the last event of proximity

devVars  == <<kernel, packet, near>>
drvVars  == <<reader, mPendingMask>>
callVars == <<count, nbEvents>>
actVars  == <<apc, measured, activates>>
vars == <<devVars, drvVars, mEnabled, mHasPendingEvent, distance, revents, pipe, pc, at,
          callVars, room, nb, copied, errors, actVars, owed, leftover, reported>>

Driver == mSensors[at]

hasPendingEvents(d) == d = "proximity" /\ mHasPendingEvent

(* The constructor of the akm driver takes over what the library says is   *)
(* enabled; without the library there is no device.                        *)
AkmEnabled == SUBSET (IF "akm" \in Devices THEN {"M", "O"} ELSE {})

(* That of proximity enables the sensor, which may fail.                   *)
ProximityEnabled(on) ==
  \/ /\ "proximity" \in Devices
     /\ mEnabled = on \cup {"P"}
     /\ mHasPendingEvent \in {TRUE} \cup (IF IoctlMayFail THEN {FALSE} ELSE {})
  \/ /\ mEnabled = on
     /\ mHasPendingEvent = FALSE

Init ==
  /\ kernel = [d \in Drivers |-> << >>]
  /\ packet = [d \in Drivers |-> {}]
  /\ near \in IF "proximity" \in Devices THEN 0 .. 1 ELSE {0}
  /\ reader = [d \in Drivers |-> << >>]
  /\ mPendingMask = {}
  /\ \E on \in AkmEnabled : ProximityEnabled(on)
  /\ distance = IF mHasPendingEvent THEN near ELSE 0
  /\ revents = {}
  /\ pipe = 0
  /\ pc = "idle" /\ at = 1
  /\ count = 0 /\ nbEvents = 0 /\ room = 0 /\ nb = 0
  /\ copied = 0
  /\ errors = 0
  /\ apc = "idle" /\ measured = 0 /\ activates = 0
  /\ owed = [s \in Sensors |-> 0]
  /\ leftover = {}
  /\ reported = 0

-----------------------------------------------------------------------------
(* The input devices.                                                      *)

(* A value changes.  The distance is 0 or 1; which value the others have   *)
(* does not matter.                                                        *)
Change(d, s) ==
  /\ handleToDriver[s] = d
  /\ s \notin packet[d]
  /\ packet' = [packet EXCEPT ![d] = @ \cup {s}]
  /\ near' = IF s = "P" THEN 1 - near ELSE near
  /\ kernel' = [kernel EXCEPT ![d] = Append(@, Value(s, IF s = "P" THEN near' ELSE 0))]
  /\ UNCHANGED owed

(* The end of a packet: an event is owed for each sensor in it.            *)
EndPacket(d) ==
  /\ packet[d] # {}
  /\ kernel' = [kernel EXCEPT ![d] = Append(@, Syn)]
  /\ owed' = [s \in Sensors |-> IF s \in packet[d] THEN owed[s] + 1 ELSE owed[s]]
  /\ packet' = [packet EXCEPT ![d] = {}]
  /\ UNCHANGED near

SendNoise(d) ==
  /\ d \in Noisy
  /\ kernel' = [kernel EXCEPT ![d] = Append(@, Noise)]
  /\ UNCHANGED <<packet, near, owed>>

Device(d) ==
  /\ Len(kernel[d]) < MaxQueue
  /\ \/ \E s \in Sensors : Change(d, s)
     \/ EndPacket(d)
     \/ SendNoise(d)
  /\ UNCHANGED <<drvVars, mEnabled, mHasPendingEvent, distance, revents, pipe, pc, at,
                 callVars, room, nb, copied, errors, actVars, leftover, reported>>

-----------------------------------------------------------------------------
(* activate.                                                               *)

(* enable() of the driver has nothing to do, which is a success, or cannot *)
(* open the sysfs file, or the AKM library refuses.                        *)
Call ==
  /\ apc = "idle" /\ activates < MaxActivates
  /\ activates' = activates + 1
  /\ UNCHANGED <<measured, mHasPendingEvent, distance, pipe>>

EnableSame(h, en) ==
  /\ Call
  /\ (h \in mEnabled) = en
  /\ apc' = IF en THEN "wake" ELSE "idle"
  /\ UNCHANGED mEnabled

EnableFails(h, en) ==
  /\ Call
  /\ (h \in mEnabled) # en
  /\ UNCHANGED <<apc, mEnabled>>

(* It switches the sensor.                                                 *)
Enable(h, en) ==
  /\ Call
  /\ (h \in mEnabled) # en
  /\ handleToDriver[h] \in Devices
  /\ mEnabled' = IF en THEN mEnabled \cup {h} ELSE mEnabled \ {h}
  /\ apc' = IF h = "P" THEN "measure" ELSE IF en THEN "wake" ELSE "idle"

(* setInitialState: the distance as it is now.  The ioctl may fail.        *)
AfterInitialState == IF "P" \in mEnabled THEN "wake" ELSE "idle"

Measure ==
  /\ apc = "measure"
  /\ \/ apc' = "flag" /\ measured' = near
     \/ IoctlMayFail /\ apc' = AfterInitialState /\ UNCHANGED measured
  /\ UNCHANGED <<activates, mEnabled, mHasPendingEvent, distance, pipe>>

SetFlag ==
  /\ apc = "flag"
  /\ mHasPendingEvent' = TRUE
  /\ apc' = "distance"
  /\ UNCHANGED <<measured, activates, mEnabled, distance, pipe>>

SetDistance ==
  /\ apc = "distance"
  /\ distance' = measured
  /\ measured' = 0
  /\ apc' = AfterInitialState
  /\ UNCHANGED <<activates, mEnabled, mHasPendingEvent, pipe>>

(* The wake message.  Mutant: it is not written.                           *)
Woken_Never == pipe

Woken == pipe + 1

Wake ==
  /\ apc = "wake"
  /\ pipe' = Woken
  /\ apc' = "idle"
  /\ UNCHANGED <<measured, activates, mEnabled, mHasPendingEvent, distance>>

Activate ==
  /\ \/ \E h \in Sensors, en \in BOOLEAN :
          EnableSame(h, en) \/ EnableFails(h, en) \/ Enable(h, en)
     \/ Measure \/ SetFlag \/ SetDistance \/ Wake
  /\ UNCHANGED <<devVars, drvVars, revents, pc, at, callVars, room, nb, copied, errors,
                 owed, leftover, reported>>

-----------------------------------------------------------------------------
(* pollEvents, and the drivers' readEvents inside it.                      *)

Goes(here, there) == pc = here /\ pc' = there

PollEvents(c) ==
  /\ Goes("idle", "scan")
  /\ count' = c /\ nbEvents' = 0 /\ at' = 1
  /\ UNCHANGED <<kernel, drvVars, mHasPendingEvent, distance, revents, pipe, room, nb,
                 copied, errors, owed, leftover, reported>>

(* A variable of a call that has returned is 0.                            *)
Return == pc' = "idle" /\ at' = 1 /\ count' = 0 /\ nbEvents' = 0

(* The next driver that poll() said has input, or has a pending event.     *)
(* Mutants: each driver is read; one is, until there is an event to return. *)
HasWork_Always(d) == TRUE

HasWork_First(d) == nbEvents = 0 /\ (d \in revents \/ hasPendingEvents(d))

HasWork(d) == d \in revents \/ hasPendingEvents(d)

Scan ==
  /\ pc = "scan"
  /\ \/ count = 0 /\ Return /\ UNCHANGED room
     \/ count # 0 /\ at > Len(mSensors)
          /\ pc' = "poll" /\ at' = 1 /\ UNCHANGED <<callVars, room>>
     \/ count # 0 /\ at <= Len(mSensors) /\ HasWork(Driver)
          /\ pc' = "read" /\ room' = count /\ UNCHANGED <<callVars, at>>
     \/ count # 0 /\ at <= Len(mSensors) /\ ~HasWork(Driver)
          /\ at' = at + 1 /\ UNCHANGED <<callVars, pc, room>>
  /\ UNCHANGED <<kernel, drvVars, nb, mHasPendingEvent, distance, revents, pipe, copied,
                 errors, owed, leftover, reported>>

(* readEvents: the pending event of proximity goes first.                  *)
ReadEvents ==
  /\ pc = "read"
  /\ IF hasPendingEvents(Driver)
     THEN pc' = "copy" /\ mHasPendingEvent' = FALSE
     ELSE pc' = "fill" /\ UNCHANGED mHasPendingEvent
  /\ UNCHANGED <<kernel, drvVars, callVars, distance, revents, pipe, at, room, nb, copied,
                 errors, owed, leftover, reported>>

CopyPending ==
  /\ Goes("copy", "pending")
  /\ copied' = distance
  /\ UNCHANGED <<kernel, drvVars, callVars, mHasPendingEvent, distance, revents, pipe, at, room,
                 nb, errors, owed, leftover, reported>>

ReturnPending ==
  /\ Goes("pending", "took")
  /\ IF "P" \in mEnabled
     THEN nb' = 1 /\ reported' = copied
     ELSE UNCHANGED <<nb, reported>>
  /\ copied' = 0
  /\ UNCHANGED <<kernel, drvVars, callVars, mHasPendingEvent, distance, revents, pipe, at, room,
                 errors, owed, leftover>>

(* mInputReader.fill: a full reader reads nothing, another one waits until *)
(* the device has an event and takes what there is and it has room for.    *)
Free(d) == ReaderSize[d] - Len(reader[d])

Lowest(a, b) == IF a < b THEN a ELSE b

FillReader ==
  /\ Goes("fill", "drain")
  /\ Free(Driver) > 0 => kernel[Driver] # << >>
  /\ LET k == Lowest(Free(Driver), Len(kernel[Driver])) IN
       /\ reader' = [reader EXCEPT ![Driver] = @ \o SubSeq(kernel[Driver], 1, k)]
       /\ kernel' = [kernel EXCEPT ![Driver] = SubSeq(@, k + 1, Len(@))]
  /\ UNCHANGED <<mPendingMask, callVars, mHasPendingEvent, distance, revents, pipe, at, room, nb,
                 copied, errors, owed, leftover, reported>>

FillFails(e) ==
  /\ Goes("fill", "took")
  /\ Free(Driver) > 0
  /\ errors < MaxErrors
  /\ errors' = errors + 1
  /\ nb' = -e
  /\ UNCHANGED <<kernel, drvVars, callVars, mHasPendingEvent, distance, revents, pipe, at, room,
                 copied, owed, leftover, reported>>

(* One event out of the reader, as long as there is room in data.          *)
Draining == pc = "drain" /\ room > 0 /\ reader[Driver] # << >>

Event == Head(reader[Driver])

TakeNext == reader' = [reader EXCEPT ![Driver] = Tail(@)]

Put(s) ==
  IF s \in mEnabled
  THEN room' = room - 1 /\ nb' = nb + 1
  ELSE UNCHANGED <<room, nb>>

(* processEvent of akm.                                                    *)
processEvent(e) == mPendingMask \cup {e.code}

TakeValue ==
  /\ Draining /\ Event.type = "value"
  /\ TakeNext
  /\ distance' = IF Driver = "proximity" THEN Event.value ELSE distance
  /\ mPendingMask' = IF Driver = "akm" THEN processEvent(Event) ELSE mPendingMask
  /\ UNCHANGED <<kernel, callVars, pc, at, mHasPendingEvent, revents, pipe, room, nb, copied,
                 errors, owed, leftover, reported>>

TakeNoise ==
  /\ Draining /\ Event.type = "noise"
  /\ TakeNext
  /\ UNCHANGED <<kernel, callVars, pc, at, mPendingMask, mHasPendingEvent, distance, revents,
                 pipe, room, nb, copied, errors, owed, leftover, reported>>

(* The SYN of proximity or bosch.                                          *)
TakeSyn ==
  /\ Draining /\ Event.type = "syn" /\ Driver # "akm"
  /\ LET s == CHOOSE x \in Sensors : handleToDriver[x] = Driver IN
       /\ Put(s)
       /\ owed' = [owed EXCEPT ![s] = @ - 1]
       /\ reported' = IF s = "P" /\ s \in mEnabled THEN distance ELSE reported
  /\ TakeNext
  /\ UNCHANGED <<kernel, callVars, pc, at, mPendingMask, mHasPendingEvent, distance, revents,
                 pipe, copied, errors, leftover>>

(* That of akm stays in the reader until each sensor of its packet has     *)
(* been dealt with.  Mutant: it leaves whatever is still pending.          *)
SynDone_Always(mask) == TRUE

SynDone(mask) == mask = {}

AkmSyn ==
  /\ Draining /\ Event.type = "syn" /\ Driver = "akm"
  /\ IF mPendingMask = {}
     THEN UNCHANGED <<mPendingMask, room, nb, owed>>
     ELSE LET s == IF "M" \in mPendingMask THEN "M" ELSE "O" IN
            /\ mPendingMask' = mPendingMask \ {s}
            /\ Put(s)
            /\ owed' = [owed EXCEPT ![s] = @ - 1]
  /\ IF SynDone(mPendingMask') THEN TakeNext ELSE UNCHANGED reader
  /\ UNCHANGED <<kernel, callVars, pc, at, mHasPendingEvent, distance, revents, pipe, copied,
                 errors, leftover, reported>>

DrainOver ==
  /\ Goes("drain", "took")
  /\ ~Draining
  /\ UNCHANGED <<kernel, drvVars, callVars, at, mHasPendingEvent, distance, revents, pipe, room, nb,
                 copied, errors, owed, leftover, reported>>

(* Back in pollEvents.  Mutant: POLLIN is always cleared.                  *)
MoreToCome_Never == FALSE

MoreToCome == nb >= count

Took ==
  /\ Goes("took", "scan")
  /\ revents' = IF MoreToCome THEN revents ELSE revents \ {Driver}
  /\ leftover' = IF MoreToCome THEN leftover \cup {Driver} ELSE leftover \ {Driver}
  /\ count' = count - nb
  /\ nbEvents' = nbEvents + nb
  /\ at' = at + 1
  /\ room' = 0 /\ nb' = 0
  /\ UNCHANGED <<kernel, drvVars, mHasPendingEvent, distance, pipe, copied, errors,
                 owed, reported>>

(* poll(): waits only if there is nothing to return.                       *)
Ready == {d \in Drivers : kernel[d] # << >>}

Poll ==
  /\ pc = "poll"
  /\ nbEvents = 0 => Ready # {} \/ pipe > 0
  /\ revents' = Ready /\ leftover' = {}
  /\ pipe' = IF pipe > 0 THEN pipe - 1 ELSE 0
  /\ IF Ready # {} \/ pipe > 0
     THEN pc' = "scan" /\ at' = 1 /\ UNCHANGED callVars
     ELSE Return
  /\ UNCHANGED <<kernel, drvVars, mHasPendingEvent, distance, room, nb, copied, errors,
                 owed, reported>>

PollFails ==
  /\ PollMayFail
  /\ pc = "poll" /\ Return
  /\ UNCHANGED <<kernel, drvVars, mHasPendingEvent, distance, revents, pipe, room,
                 nb, copied, errors, owed, leftover, reported>>

Reading ==
  /\ \/ Scan \/ ReadEvents \/ CopyPending \/ ReturnPending \/ FillReader
     \/ TakeValue \/ TakeNoise \/ TakeSyn \/ AkmSyn \/ DrainOver \/ Took \/ Poll
  /\ UNCHANGED <<packet, near, mEnabled, actVars>>

Failing ==
  /\ PollFails \/ \E e \in ReadErrors : FillFails(e)
  /\ UNCHANGED <<packet, near, mEnabled, actVars>>

Calling ==
  /\ \E c \in Counts : PollEvents(c)
  /\ UNCHANGED <<packet, near, mEnabled, actVars>>

Sending == \E d \in Devices : Device(d)

Next == Sending \/ Activate \/ Reading \/ Failing \/ Calling

Spec == Init /\ [][Next]_vars

(* The thread in pollEvents runs whenever it can and is called again, and  *)
(* a call of activate goes on to its end.                                  *)
FairSpec == Spec /\ WF_vars(Reading) /\ WF_vars(Calling)
                 /\ WF_vars(Activate /\ apc # "idle")

-----------------------------------------------------------------------------
(* Properties.                                                             *)

TypeOK ==
  /\ kernel \in [Drivers -> Seq(InputEvents)]
  /\ packet \in [Drivers -> SUBSET Sensors]
  /\ near \in 0 .. 1
  /\ reader \in [Drivers -> Seq(InputEvents)]
  /\ \A d \in Drivers : Len(reader[d]) <= ReaderSize[d]
  /\ mEnabled \subseteq Sensors
  /\ mPendingMask \subseteq {"M", "O"}
  /\ mHasPendingEvent \in BOOLEAN
  /\ distance \in 0 .. 1 /\ measured \in 0 .. 1 /\ copied \in 0 .. 1 /\ reported \in 0 .. 1
  /\ revents \subseteq Devices
  /\ pipe \in 0 .. MaxActivates /\ activates \in 0 .. MaxActivates
  /\ pc \in {"idle", "scan", "read", "copy", "pending", "fill", "drain", "took", "poll"}
  /\ at \in 1 .. Len(mSensors) + 1
  /\ pc \in {"read", "copy", "pending", "fill", "drain", "took"} => at <= Len(mSensors)
  /\ count \in Int /\ nbEvents \in Int /\ room \in Nat /\ nb \in Int
  /\ errors \in 0 .. MaxErrors
  /\ apc \in {"idle", "measure", "flag", "distance", "wake"}
  /\ owed \in [Sensors -> Nat] /\ leftover \subseteq Drivers

(* The events of a device on their way, oldest first.                      *)
OnTheWay(d) == reader[d] \o kernel[d]

(* The packets on their way that have a value of s.  Those of proximity    *)
(* and bosch have one sensor only.                                         *)
HasValue(s, q, i) ==
  \/ s \notin SensorsOf("akm")
  \/ \E j \in 0 .. i - 1 :
       /\ IF j = 0 THEN s \in mPendingMask ELSE q[j].code = s
       /\ \A k \in j + 1 .. i - 1 : q[k] # Syn

Due(s) ==
  LET q == OnTheWay(handleToDriver[s]) IN
    Cardinality({i \in DOMAIN q : q[i] = Syn /\ HasValue(s, q, i)})

(* Whatever room the calls of pollEvents have, and wherever one of them    *)
(* stops in the middle of a packet, each packet is dealt with exactly once *)
(* for each of its sensors.                                                *)
OnePerPacket == \A s \in Sensors : owed[s] = Due(s)

(* When the thread waits for input, there is nothing left in a reader that *)
(* it could have returned: an event read earlier is not held back until    *)
(* the device sends another one.  A failed read may leave one behind.      *)
AtRest == pc = "poll" /\ nbEvents = 0

NothingHeldBack == AtRest /\ errors = 0 => \A d \in {"bosch", "akm"} : reader[d] = << >>

(* The thread in the read of fill, for a device that has sent nothing.     *)
Waiting == pc = "fill" /\ Free(Driver) > 0 /\ kernel[Driver] = << >>

(* sensors.cpp:233-235 says that the thread waits only if there is nothing *)
(* to return.  In poll() that is so.  In the read of a device it is not,   *)
(* and the one reason is this: an earlier call ended with its room used up *)
(* by that driver, whose POLLIN was kept for more to come (:222), although *)
(* it had taken the last event.  No other read ever waits.                 *)
BlocksOnlyOnLeftover == Waiting => Driver \in leftover

(* The comment at ProximitySensor.cpp:60, "make sure to report an event    *)
(* immediately": once the framework has enabled the sensor and everything  *)
(* has settled, the last distance reported is the one measured then.       *)
Settled == AtRest /\ pipe = 0 /\ apc = "idle" /\ ~mHasPendingEvent
             /\ \A d \in Drivers : OnTheWay(d) = << >> /\ packet[d] = {}

DistanceReported == Settled /\ "P" \in mEnabled => reported = near

(* The event that enabling proximity makes pending is reported without     *)
(* waiting for that device, for activate wakes the thread after it has     *)
(* made the event pending, and the thread goes on unless it is stuck in    *)
(* the read of a device that sends no more.                                *)
PendingReported ==
  <>[]("P" \in mEnabled /\ mHasPendingEvent) => <>[]Waiting

(* No device is starved: while there is always something of a sensor to    *)
(* deal with, packets of it are dealt with again and again, however many   *)
(* the drivers before it send and however often the room is used up.  The  *)
(* code has two exceptions: the thread stuck in a read, and an event that  *)
(* proximity holds until its device sends again, because a pending event   *)
(* was taken for all there was (ProximitySensor.cpp:102-107).              *)
Forgotten ==
  reader["proximity"] # << >> /\ "proximity" \notin revents /\ kernel["proximity"] = << >>

DevicesServed ==
  \A s \in Sensors :
    <>[](Due(s) > 0) =>
      <>[]Waiting \/ (s = "P" /\ <>[]Forgotten) \/ []<><<owed'[s] < owed[s]>>_owed
=============================================================================
