-------------------------------- MODULE GpsWave --------------------------------
(***************************************************************************)
(* The GPS HAL (gps_wave.c) over its client of the radio daemon.           *)
(*                                                                         *)
(* Three kinds of threads.  The location service calls init, start, stop   *)
(* and cleanup, one at a time and in any order.  The thread of the radio   *)
(* client copies what the daemon sends into the state, under GpsMutex.     *)
(* Whoever has changed the state then has a new thread created, which      *)
(* takes the mutex and tells the location service what the state is by     *)
(* then.                                                                   *)
(*                                                                         *)
(* A datum of the state is modelled by the number of the last change that  *)
(* has been begun.  The handler's memcpy begins a change and ends it; in   *)
(* between, the datum is neither the old nor the new one, and its number   *)
(* is not that of any change made.                                         *)
(***************************************************************************)
EXTENDS Naturals, RilClient

CONSTANTS Messages,    \* the messages the daemon sends
          MaxChanges   \* how often each datum changes

Kinds == {"status", "location", "svStatus"}

ASSUME GpsAssumption == Messages \subseteq Kinds /\ MaxChanges \in Nat

VARIABLES
  init,        \* STATE_QUIT, STATE_INIT, STATE_START
  callbacks,   \* the callbacks of the location service are stored
  data,        \* status, location, svStatus of GpsState
  GpsMutex,    \* who holds it
  caller,      \* where the location service is in its call
  mode,        \* the navigation mode its call is about
  reader,      \* where the client's thread is in _GpsHandler
  message,     \* and the kind of message it is dealing with
  threads,     \* the threads created and not yet done, of each kind
  reported,    \* the datum each callback was last given
  unfinished,  \* connectRILDIfRequired has opened the socket and given up on it
  early        \* a navigation mode went out on a socket that had not said hello and
               \* was not left behind like that

gpsVars == <<init, callbacks, data, GpsMutex, caller, mode, reader, message,
             threads, reported, unfinished, early>>

vars == <<rilVars, gpsVars>>

STATE_QUIT  == 0
STATE_INIT  == 1
STATE_START == 2

Modes == {"off", "on"}

Free == "free"

Init ==
  /\ RilInit(FALSE)
  /\ init = STATE_QUIT
  /\ callbacks = FALSE
  /\ data = [k \in Kinds |-> 0]
  /\ GpsMutex = Free
  /\ caller = "idle"
  /\ mode = "off"
  /\ reader = "reading"
  /\ message = "status"
  /\ threads = [k \in Kinds |-> 0]
  /\ reported = [k \in Kinds |-> 0]
  /\ unfinished = FALSE
  /\ early = FALSE

(* create_thread_cb, if there is one.                                      *)
Created(k) == threads' = IF callbacks THEN [threads EXCEPT ![k] = @ + 1] ELSE threads

----------------------------------------------------------------------------
(* The location service.                                                   *)

(* Opens the client if there is none, and goes on without one if that      *)
(* fails; a HAL that is initialised keeps its callbacks.                   *)
wave_gps_init ==
  /\ caller = "idle"
  /\ init = STATE_QUIT => data["status"] < MaxChanges
  /\ \/ opened /\ UNCHANGED rilVars
     \/ ~opened /\ \E ok \in BOOLEAN : OpenClient_RILD(ok)
  /\ IF init = STATE_QUIT
       THEN callbacks' = TRUE /\ caller' = "on"
       ELSE UNCHANGED <<callbacks, caller>>
  /\ UNCHANGED <<init, data, GpsMutex, mode, reader, message, threads, reported, unfinished, early>>

wave_gps_cleanup ==
  /\ caller = "idle"
  /\ init # STATE_QUIT
  /\ data["status"] < MaxChanges
  /\ caller' = "off"
  /\ UNCHANGED <<rilVars, init, callbacks, data, GpsMutex, mode, reader, message,
                 threads, reported, unfinished, early>>

(* The status is assigned under the mutex,                                 *)
SetStatus(from, to) ==
  /\ caller = from
  /\ GpsMutex = Free
  /\ data' = [data EXCEPT !["status"] = @ + 1]
  /\ caller' = to
  /\ UNCHANGED <<rilVars, init, callbacks, GpsMutex, mode, reader, message, threads,
                 reported, unfinished, early>>

(* and the thread that reports it created afterwards.                      *)
StatusSet(from, state) ==
  /\ caller = from
  /\ Created("status")
  /\ init' = state
  /\ caller' = "idle"
  /\ UNCHANGED <<rilVars, callbacks, data, GpsMutex, mode, reader, message, reported,
                 unfinished, early>>

(* Mutant: the thread that reports is created before there is a status.    *)
EngineOff_TellsFirst ==
  \/ /\ caller = "off"
     /\ Created("status")
     /\ caller' = "created off"
     /\ UNCHANGED <<rilVars, init, callbacks, data, GpsMutex, mode, reader, message,
                    reported, unfinished, early>>
  \/ /\ caller = "created off" /\ GpsMutex = Free
     /\ data' = [data EXCEPT !["status"] = @ + 1]
     /\ init' = STATE_QUIT
     /\ caller' = "idle"
     /\ UNCHANGED <<rilVars, callbacks, GpsMutex, mode, reader, message, threads,
                    reported, unfinished, early>>

EngineOn  == SetStatus("on", "created on") \/ StatusSet("created on", STATE_INIT)
EngineOff == SetStatus("off", "created off") \/ StatusSet("created off", STATE_QUIT)

(* wave_gps_start is m = "on", wave_gps_stop m = "off"; both return -1 of  *)
(* a HAL that is not initialised.                                          *)
SetNavigation(m) ==
  /\ caller = "idle"
  /\ IF init = STATE_QUIT
       THEN UNCHANGED <<mode, caller>>
       ELSE mode' = m /\ caller' = "isConnected"
  /\ UNCHANGED <<rilVars, init, callbacks, data, GpsMutex, reader, message, threads,
                 reported, unfinished, early>>

Goes(from, to) ==
  /\ caller = from
  /\ caller' = to
  /\ UNCHANGED <<init, callbacks, data, GpsMutex, mode, reader, message, threads,
                 reported, early>>

(* connectRILDIfRequired, one call of the radio client after the other;    *)
(* an error ends start and stop, which return 0 all the same, and leaves   *)
(* the socket as it is.                                                    *)
IsConnected ==
  \E connected \in BOOLEAN :
    /\ isConnected_RILD(connected)
    /\ Goes("isConnected", IF connected THEN "navigate" ELSE "connect")
    /\ UNCHANGED unfinished

Connect ==
  \E rc \in Results :
    /\ Connect_RILD(rc)
    /\ Goes("connect", IF rc = SUCCESS THEN "register" ELSE "idle")
    /\ unfinished' = IF rc = CONNECT THEN unfinished ELSE rc = UNKNOWN

(* Mutant: the thread is started before there is a handler.                *)
Register_ThreadFirst ==
  /\ \/ srs_client_thread_start /\ Goes("register", "started")
     \/ RegisterGpsHandler /\ Goes("started", "hello")
  /\ UNCHANGED unfinished

Register == RegisterGpsHandler /\ Goes("register", "thread") /\ UNCHANGED unfinished

(* Mutant: whoever is connected need not be introduced.                    *)
StartThread_NoHello ==
  srs_client_thread_start /\ Goes("thread", "navigate") /\ UNCHANGED unfinished

StartThread == srs_client_thread_start /\ Goes("thread", "hello") /\ UNCHANGED unfinished

Hello ==
  \E rc \in Results :
    /\ GpsHello(rc)
    /\ Goes("hello", IF rc = SUCCESS THEN "navigate" ELSE "idle")
    /\ unfinished' = (rc # SUCCESS)

(* The request itself: what comes of it is not looked at.                  *)
ModeSent ==
  \E rc \in Results :
    /\ GpsSetNavigationMode(mode, rc)
    /\ early' = (early \/ (rc = SUCCESS /\ daemon["hello"] = NoRequest /\ ~unfinished))

(* Mutant: stop leaves the HAL in the state of start.                      *)
Navigate_Started ==
  /\ caller = "navigate"
  /\ ModeSent
  /\ init' = STATE_START
  /\ caller' = "idle"
  /\ UNCHANGED <<callbacks, data, GpsMutex, mode, reader, message, threads, reported, unfinished>>

Navigate ==
  /\ caller = "navigate"
  /\ ModeSent
  /\ init' = IF mode = "on" THEN STATE_START ELSE STATE_INIT
  /\ caller' = "idle"
  /\ UNCHANGED <<callbacks, data, GpsMutex, mode, reader, message, threads, reported, unfinished>>

LocationService ==
  \/ EngineOn \/ EngineOff
  \/ IsConnected \/ Connect \/ Register \/ StartThread \/ Hello \/ Navigate

Calls == wave_gps_init \/ wave_gps_cleanup \/ \E m \in Modes : SetNavigation(m)

----------------------------------------------------------------------------
(* The thread of the radio client.                                         *)

(* srs_client_cb: a message of the GPS group goes to the handler, if there *)
(* is one.                                                                 *)
srs_client_cb(k) ==
  /\ thread = "reading" /\ link = "open"
  /\ reader = "reading"
  /\ handler
  /\ data[k] < MaxChanges
  /\ message' = k
  /\ reader' = "handling"
  /\ UNCHANGED <<rilVars, init, callbacks, data, GpsMutex, caller, mode, threads,
                 reported, unfinished, early>>

(* Mutant: the message is copied without the mutex.                        *)
CopyFirst_Unlocked ==
  /\ reader = "handling"
  /\ data' = [data EXCEPT ![message] = @ + 1]
  /\ reader' = "copying"
  /\ UNCHANGED <<rilVars, init, callbacks, GpsMutex, caller, mode, message, threads,
                 reported, unfinished, early>>

(* _GpsHandler: the copying begins under the mutex,                        *)
CopyFirst ==
  /\ reader = "handling"
  /\ GpsMutex = Free
  /\ GpsMutex' = "handler"
  /\ data' = [data EXCEPT ![message] = @ + 1]
  /\ reader' = "copying"
  /\ UNCHANGED <<rilVars, init, callbacks, caller, mode, message, threads, reported,
                 unfinished, early>>

(* ends,                                                                   *)
CopySecond ==
  /\ reader = "copying"
  /\ GpsMutex' = Free
  /\ reader' = "handled"
  /\ UNCHANGED <<rilVars, init, callbacks, data, caller, mode, message, threads, reported,
                 unfinished, early>>

(* and a thread created that reports it.                                   *)
HandlerCreates ==
  /\ reader = "handled"
  /\ Created(message)
  /\ reader' = "reading"
  /\ UNCHANGED <<rilVars, init, callbacks, data, GpsMutex, caller, mode, message,
                 reported, unfinished, early>>

GpsHandler == CopyFirst \/ CopySecond \/ HandlerCreates

----------------------------------------------------------------------------
(* update_gps_status, update_gps_location, update_gps_svstatus: the thread *)
(* gives the callback what the state is now, and holds the mutex while the *)
(* callback reads it.                                                      *)
UpdateLocks(k) ==
  /\ threads[k] > 0
  /\ GpsMutex = Free
  /\ GpsMutex' = k
  /\ UNCHANGED <<rilVars, init, callbacks, data, caller, mode, reader, message, threads,
                 reported, unfinished, early>>

UpdateReports(k) ==
  /\ GpsMutex = k
  /\ GpsMutex' = Free
  /\ reported' = [reported EXCEPT ![k] = data[k]]
  /\ threads' = [threads EXCEPT ![k] = @ - 1]
  /\ UNCHANGED <<rilVars, init, callbacks, data, caller, mode, reader, message, unfinished, early>>

Update(k) == UpdateLocks(k) \/ UpdateReports(k)

Radio == RadioStep /\ UNCHANGED gpsVars

Next ==
  \/ Calls \/ LocationService
  \/ \E k \in Messages : srs_client_cb(k)
  \/ \E k \in Kinds : Update(k)
  \/ GpsHandler
  \/ Radio

Spec == Init /\ [][Next]_vars

(* Threads that have something to do are run; nobody owes a call, and the  *)
(* daemon nothing at all.                                                  *)
FairSpec ==
  /\ Spec
  /\ WF_vars(LocationService)
  /\ WF_vars(GpsHandler)
  /\ \A k \in Kinds : WF_vars(Update(k))

----------------------------------------------------------------------------
TypeOK ==
  /\ RilTypeOK({"said"} \cup Modes)
  /\ init \in {STATE_QUIT, STATE_INIT, STATE_START}
  /\ callbacks \in BOOLEAN
  /\ data \in [Kinds -> Nat] /\ reported \in [Kinds -> Nat]
  /\ GpsMutex \in Kinds \cup {Free, "handler"}
  /\ caller \in {"idle", "on", "created on", "off", "created off", "isConnected",
                 "connect", "register", "thread", "hello", "navigate"}
  /\ mode \in Modes
  /\ reader \in {"reading", "handling", "copying", "handled"}
  /\ message \in Kinds
  /\ threads \in [Kinds -> Nat]
  /\ unfinished \in BOOLEAN /\ early \in BOOLEAN

(* A message the client's thread reads finds the handler registered, and   *)
(* the handler the callbacks stored: connecting, registering and           *)
(* initialising come in that order on every path (gps_wave.c:198, :128,    *)
(* ril-client.c:138), for a message that comes too early is lost.          *)
MessagesFindHandler == thread_run => handler /\ callbacks

(* No navigation mode goes out on a socket on which the client has not     *)
(* introduced itself (gps_wave.c:131), whatever became of the sockets      *)
(* before, but on one that an earlier start or stop has opened and given   *)
(* up: its ping or its introduction failed (:123-134), the socket stayed   *)
(* open, and this one found itself connected (:119).                       *)
IntroducedFirst == ~early

(* A HAL that is in STATE_START has a daemon that navigates, as long as    *)
(* the socket is there and the client introduced on it; no failed or       *)
(* repeated start or stop, ping or introduction makes the two part, only   *)
(* a request that fails itself, which the code does not look at (:200).    *)
StartedNavigates ==
  (/\ init = STATE_START /\ caller = "idle"
   /\ link = "open" /\ daemon["hello"] # NoRequest)
  => daemon["navigation"] = "on" \/ refused

(* Each callback is a LatestValue, with the change the handler is copying  *)
(* as not yet made.                                                        *)
Value(k) == IF reader = "copying" /\ message = k THEN data[k] - 1 ELSE data[k]

StatusFeed == INSTANCE LatestValue
  WITH value <- Value("status"), reported <- reported["status"]

LocationFeed == INSTANCE LatestValue
  WITH value <- Value("location"), reported <- reported["location"]

SvStatusFeed == INSTANCE LatestValue
  WITH value <- Value("svStatus"), reported <- reported["svStatus"]

(* Every callback is given the state as it is, never half of a message     *)
(* (gps_wave.c:94-96, :63-66), and once nothing changes any more the last  *)
(* thing it was given is the last thing that came.                         *)
StatusTold   == StatusFeed!FairValueSpec
LocationTold == LocationFeed!FairValueSpec
SvStatusTold == SvStatusFeed!FairValueSpec

(* So it is for the status, which calls and messages change, and for the   *)
(* location, which messages alone do.                                      *)
CallbacksTold == StatusTold /\ LocationTold
=============================================================================
