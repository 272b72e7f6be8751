----------------------------- MODULE GpsWaveProofs -----------------------------
(***************************************************************************)
(* What holds of the GPS HAL for every number of lost daemons, failed      *)
(* pings, requests and changes: its types, the order of connection,        *)
(* introduction and navigation, and that each callback is a LatestValue.   *)
(***************************************************************************)
EXTENDS GpsWave, TLAPS

(* The types of the client and of the HAL's own state, apart.              *)
ClientTypes == RilTypeOK({"said"} \cup Modes)

HalTypes ==
  /\ init \in {STATE_QUIT, STATE_INIT, STATE_START}
  /\ callbacks \in BOOLEAN
  /\ data \in [Kinds -> Nat] /\ reported \in [Kinds -> Nat]
  /\ GpsMutex \in Kinds \cup {Free, "handler"}
  /\ caller \in {"idle", "on", "created on", "off", "created off", "isConnected",
                 "connect", "register", "thread", "hello", "navigate"}
  /\ mode \in Modes
  /\ reader \in {"reading", "handling", "copying", "handled"}
  /\ message \in Kinds
  /\ threads \in [Kinds -> Nat]
  /\ unfinished \in BOOLEAN /\ early \in BOOLEAN

LEMMA Types == TypeOK <=> ClientTypes /\ HalTypes
BY DEF TypeOK, ClientTypes, HalTypes

(* Where the location service is in start or stop.                         *)
InNavigation == {"isConnected", "connect", "register", "thread", "hello", "navigate"}

(* What comes before what, on every path.                                  *)
Order ==
  /\ ~opened => link = "closed" /\ thread = "none"
  /\ caller \in {"connect", "register", "thread", "hello"} => opened
  /\ caller \in InNavigation => init # STATE_QUIT
  /\ init # STATE_QUIT \/ caller \in {"on", "created on"} => callbacks
  /\ thread # "none" \/ caller = "thread" => handler
  /\ handler => callbacks

(* A socket is introduced once the call that opened it has gone on, or it  *)
(* was given up.                                                           *)
Introduced ==
  /\ link = "open" /\ ~unfinished /\ caller \notin {"register", "thread", "hello"}
       => daemon["hello"] # NoRequest
  /\ ~early

Navigates ==
  (/\ init = STATE_START /\ caller # "navigate"
   /\ link = "open" /\ daemon["hello"] # NoRequest)
  => daemon["navigation"] = "on" \/ refused

(* The mutex is held while half a message is in the state, and by no       *)
(* thread that was not created.                                            *)
Whole ==
  /\ GpsMutex = "handler" <=> reader = "copying"
  /\ \A k \in Kinds : GpsMutex = k => threads[k] > 0
  /\ reader = "copying" => data[message] > 0

IInv == TypeOK /\ Order /\ Introduced /\ Navigates /\ Whole

----------------------------------------------------------------------------
(* What the steps leave alone.                                             *)

(* Only these touch the radio client.                                      *)
ClientSteps ==
  \/ wave_gps_init \/ IsConnected \/ Connect \/ Register \/ StartThread \/ Hello \/ Navigate
  \/ Radio

LEMMA OtherSteps ==
  ASSUME [Next]_vars
  PROVE  ClientSteps \/ UNCHANGED rilVars
BY DEF Next, Calls, LocationService, GpsHandler, Update, ClientSteps, wave_gps_cleanup, SetStatus,
       StatusSet, EngineOn, EngineOff, SetNavigation, srs_client_cb, CopyFirst, CopySecond,
       HandlerCreates, UpdateLocks, UpdateReports, vars

(* The kinds, the modes and the names in them.                             *)
LEMMA Names ==
  /\ {"status", "location", "svStatus"} = Kinds
  /\ \A k \in Kinds : k # Free /\ k # "handler"
  /\ {"off", "on"} = Modes
  /\ "hello" \in Commands /\ "navigation" \in Commands
  /\ "hello" # "navigation"
BY DEF Kinds, Free, Modes, Commands

(* Changes and threads are counted up and down.                            *)
LEMMA CountedUp ==
  ASSUME NEW f \in [Kinds -> Nat], NEW k \in Kinds
  PROVE  /\ [f EXCEPT ![k] = @ + 1] \in [Kinds -> Nat]
         /\ \A j \in Kinds : [f EXCEPT ![k] = @ + 1][j] >= f[j]
         /\ [f EXCEPT ![k] = @ + 1][k] > 0
OBVIOUS

LEMMA CountedDown ==
  ASSUME NEW f \in [Kinds -> Nat], NEW k \in Kinds, f[k] > 0
  PROVE  [f EXCEPT ![k] = @ - 1] \in [Kinds -> Nat]
OBVIOUS

(* The start: nothing is opened, registered or changed.                    *)
LEMMA InvInit == Init => IInv
<1> SUFFICES ASSUME Init PROVE IInv
  OBVIOUS
<1>1. ClientTypes
  BY DEF Init, RilInit, ClientTypes, RilTypeOK
<1>2. HalTypes
  BY Names DEF Init, HalTypes, Free
<1>3. Order /\ Introduced /\ Navigates
  BY DEF Init, RilInit, Order, Introduced, Navigates, STATE_QUIT, STATE_START, InNavigation
<1>4. Whole
  BY Names DEF Init, Whole, Free
<1> QED
  BY <1>1, <1>2, <1>3, <1>4, Types DEF IInv

----------------------------------------------------------------------------
(* Every step of the radio client keeps its types.                         *)
LEMMA ClientTypesStep ==
  ASSUME ClientTypes, mode \in Modes, [Next]_vars
  PROVE  ClientTypes'
<1> USE Names DEF ClientTypes, RilTypeOK, rilVars
<1>1. CASE UNCHANGED rilVars
  BY <1>1
<1>2. CASE wave_gps_init
  BY <1>2 DEF wave_gps_init, OpenClient_RILD
<1>3. CASE IsConnected
  BY <1>3 DEF IsConnected, isConnected_RILD
<1>4. CASE Connect
  BY <1>4 DEF Connect, Connect_RILD, Reopened, thread_run
<1>5. CASE Register \/ StartThread
  BY <1>5 DEF Register, RegisterGpsHandler, StartThread, srs_client_thread_start, thread_run
<1>6. CASE Hello
  BY <1>6 DEF Hello, GpsHello, Request
<1>7. CASE Navigate
  BY <1>7 DEF Navigate, ModeSent, GpsSetNavigationMode, Request
<1>8. CASE Radio
  BY <1>8 DEF Radio, RadioStep, DaemonDies, ThreadEnds, ThreadGoesOn
<1> QED
  BY <1>1, <1>2, <1>3, <1>4, <1>5, <1>6, <1>7, <1>8, OtherSteps DEF ClientSteps

(* Every step of the HAL keeps its types; that no count of threads goes    *)
(* below zero needs Whole.                                                 *)
LEMMA HalTypesStep ==
  ASSUME HalTypes, Whole, [Next]_vars
  PROVE  HalTypes'
<1> USE Names DEF HalTypes
<1>1. CASE wave_gps_init \/ wave_gps_cleanup
  BY <1>1 DEF wave_gps_init, wave_gps_cleanup
<1>2. ASSUME NEW from \in {"on", "off"}, NEW to \in {"created on", "created off"},
             SetStatus(from, to)
      PROVE  HalTypes'
  BY <1>2, CountedUp DEF SetStatus
<1>3. ASSUME NEW from, NEW state \in {STATE_QUIT, STATE_INIT}, StatusSet(from, state)
      PROVE  HalTypes'
  BY <1>3, CountedUp DEF StatusSet, Created
<1>4. ASSUME NEW m \in Modes, SetNavigation(m) PROVE HalTypes'
  BY <1>4 DEF SetNavigation
<1>5. CASE IsConnected \/ Connect \/ Register \/ StartThread \/ Hello
  <2>1. /\ UNCHANGED <<init, callbacks, data, GpsMutex, mode, reader, message, threads, reported,
                      early>>
        /\ caller' \in {"navigate", "connect", "register", "idle", "thread", "hello"}
    BY <1>5 DEF IsConnected, Connect, Register, StartThread, Hello, Goes
  <2>2. unfinished' \in BOOLEAN
    BY <1>5, Zenon DEF IsConnected, Connect, Register, StartThread, Hello
  <2> QED
    BY <2>1, <2>2
<1>6. CASE Navigate
  BY <1>6 DEF Navigate, ModeSent
<1>7. ASSUME NEW k \in Messages, srs_client_cb(k) PROVE HalTypes'
  BY <1>7, GpsAssumption DEF srs_client_cb
<1>8. CASE CopyFirst
  BY <1>8, CountedUp DEF CopyFirst
<1>9. CASE CopySecond
  BY <1>9 DEF CopySecond
<1>10. CASE HandlerCreates
  BY <1>10, CountedUp DEF HandlerCreates, Created
<1>11. ASSUME NEW k \in Kinds, UpdateLocks(k) PROVE HalTypes'
  BY <1>11 DEF UpdateLocks
<1>12. ASSUME NEW k \in Kinds, UpdateReports(k) PROVE HalTypes'
  BY <1>12, CountedDown DEF UpdateReports, Whole
<1>13. CASE Radio \/ UNCHANGED vars
  <2>1. UNCHANGED gpsVars
    BY <1>13 DEF Radio, vars
  <2> QED
    BY <2>1 DEF gpsVars
<1> QED
  BY <1>1, <1>2, <1>3, <1>4, <1>5, <1>6, <1>7, <1>8, <1>9, <1>10, <1>11, <1>12, <1>13
  DEF Next, Calls, LocationService, EngineOn, EngineOff, GpsHandler, Update

LEMMA TypeStep ==
  ASSUME TypeOK, Whole, [Next]_vars
  PROVE  TypeOK'
<1>1. ClientTypes'
  BY Types, ClientTypesStep DEF HalTypes
<1>2. HalTypes'
  BY Types, HalTypesStep
<1> QED
  BY <1>1, <1>2 DEF TypeOK, ClientTypes, HalTypes

----------------------------------------------------------------------------
(* Only these touch the state of the HAL the order is about; the rest      *)
(* copies messages and reports them.                                       *)
CallSteps ==
  \/ Calls \/ LocationService \/ Radio

LEMMA ReportSteps ==
  ASSUME [Next]_vars
  PROVE  CallSteps \/ UNCHANGED <<rilVars, init, callbacks, caller, mode, unfinished, early>>
BY DEF Next, GpsHandler, Update, CallSteps, srs_client_cb, CopyFirst, CopySecond,
       HandlerCreates, UpdateLocks, UpdateReports, vars, gpsVars

(* Opening, connecting, registering and initialising stay in order.        *)
LEMMA OrderStep ==
  ASSUME TypeOK, Order, [Next]_vars
  PROVE  Order'
<1> USE DEF Order, InNavigation, thread_run, STATE_QUIT, STATE_INIT, STATE_START, rilVars
<1>1. CASE wave_gps_init
  <2>1. CASE opened /\ UNCHANGED rilVars
    BY <1>1, <2>1 DEF wave_gps_init
  <2>2. CASE ~opened /\ \E ok \in BOOLEAN : OpenClient_RILD(ok)
    BY <1>1, <2>2 DEF wave_gps_init, OpenClient_RILD
  <2> QED
    BY <1>1, <2>1, <2>2 DEF wave_gps_init
<1>2. CASE wave_gps_cleanup
  BY <1>2 DEF wave_gps_cleanup
<1>3. CASE EngineOn
  <2>1. CASE SetStatus("on", "created on")
    BY <2>1 DEF SetStatus
  <2>2. CASE StatusSet("created on", STATE_INIT)
    BY <2>2 DEF StatusSet
  <2> QED
    BY <1>3, <2>1, <2>2 DEF EngineOn
<1>4. CASE EngineOff
  <2>1. CASE SetStatus("off", "created off")
    BY <2>1 DEF SetStatus
  <2>2. CASE StatusSet("created off", STATE_QUIT)
    BY <2>2 DEF StatusSet
  <2> QED
    BY <1>4, <2>1, <2>2 DEF EngineOff
<1>5. ASSUME NEW m \in Modes, SetNavigation(m) PROVE Order'
  BY <1>5 DEF SetNavigation
<1>6. CASE IsConnected
  BY <1>6 DEF IsConnected, isConnected_RILD, Goes
<1>7. CASE Connect
  BY <1>7 DEF Connect, Connect_RILD, Reopened, Goes
<1>8. CASE Register \/ StartThread
  BY <1>8 DEF Register, RegisterGpsHandler, StartThread, srs_client_thread_start, Goes
<1>9. CASE Hello
  BY <1>9 DEF Hello, GpsHello, Request, Goes
<1>10. CASE Navigate
  BY <1>10 DEF Navigate, ModeSent, GpsSetNavigationMode, Request
<1>11. CASE Radio
  <2>1. CASE DaemonDies
    BY <1>11, <2>1 DEF Radio, DaemonDies, gpsVars
  <2>2. CASE ThreadEnds
    BY <1>11, <2>2 DEF Radio, ThreadEnds, gpsVars
  <2>3. CASE ThreadGoesOn
    BY <1>11, <2>3 DEF Radio, ThreadGoesOn, gpsVars
  <2> QED
    BY <1>11, <2>1, <2>2, <2>3 DEF Radio, RadioStep
<1>12. CASE UNCHANGED <<rilVars, init, callbacks, caller, mode, unfinished, early>>
  BY <1>12
<1> QED
  BY <1>1, <1>2, <1>3, <1>4, <1>5, <1>6, <1>7, <1>8, <1>9, <1>10, <1>11, <1>12, ReportSteps
  DEF CallSteps, Calls, LocationService

(* A socket whose opening call has gone on is introduced, or given up.     *)
LEMMA IntroducedStep ==
  ASSUME TypeOK, Order, Introduced, [Next]_vars
  PROVE  Introduced'
<1> USE DEF Introduced, rilVars
<1>0. daemon \in [Commands -> {NoRequest} \cup ({"said"} \cup Modes)]
  BY DEF TypeOK, RilTypeOK
<1>1. CASE wave_gps_init
  <2>1. CASE opened /\ UNCHANGED rilVars
    BY <1>1, <2>1 DEF wave_gps_init
  <2>2. CASE ~opened /\ \E ok \in BOOLEAN : OpenClient_RILD(ok)
    BY <1>1, <2>2 DEF wave_gps_init, OpenClient_RILD
  <2> QED
    BY <1>1, <2>1, <2>2 DEF wave_gps_init
<1>2. CASE wave_gps_cleanup
  BY <1>2 DEF wave_gps_cleanup
<1>3. ASSUME NEW from, NEW to, SetStatus(from, to), from \in {"on", "off"} PROVE Introduced'
  BY <1>3 DEF SetStatus
<1>4. ASSUME NEW from, NEW state, StatusSet(from, state), from \in {"created on", "created off"}
      PROVE  Introduced'
  BY <1>4 DEF StatusSet
<1>5. ASSUME NEW m \in Modes, SetNavigation(m) PROVE Introduced'
  BY <1>5 DEF SetNavigation
<1>6. CASE IsConnected
  BY <1>6 DEF IsConnected, isConnected_RILD, Goes
<1>7. CASE Connect
  <2>1. PICK rc \in Results :
          /\ Connect_RILD(rc)
          /\ Goes("connect", IF rc = SUCCESS THEN "register" ELSE "idle")
          /\ unfinished' = IF rc = CONNECT THEN unfinished ELSE rc = UNKNOWN
    BY <1>7 DEF Connect
  <2>2. CASE rc = CONNECT
    <3>1. unfinished' <=> unfinished
      BY <2>1, <2>2, Zenon
    <3> QED
      BY <2>1, <2>2, <3>1 DEF Connect_RILD, Goes, CONNECT, SUCCESS, UNKNOWN, INVAL
  <2>3. CASE rc = UNKNOWN
    <3>1. unfinished'
      BY <2>1, <2>3, Zenon DEF CONNECT, UNKNOWN
    <3> QED
      BY <2>1, <3>1 DEF Goes
  <2>4. CASE rc \notin {CONNECT, UNKNOWN}
    BY <2>1, <2>4 DEF Connect_RILD, Goes, CONNECT, SUCCESS, UNKNOWN, INVAL, Order
  <2> QED
    BY <2>2, <2>3, <2>4
<1>8. CASE Register \/ StartThread
  BY <1>8 DEF Register, RegisterGpsHandler, StartThread, srs_client_thread_start, Goes
<1>9. CASE Hello
  <2>1. PICK rc \in Results :
          /\ GpsHello(rc)
          /\ Goes("hello", IF rc = SUCCESS THEN "navigate" ELSE "idle")
          /\ unfinished' = (rc # SUCCESS)
    BY <1>9 DEF Hello
  <2>2. CASE rc = SUCCESS
    <3>1. daemon'["hello"] = "said"
      BY <1>0, <2>1, <2>2, Names DEF GpsHello, Request, SUCCESS, INVAL, UNKNOWN
    <3> QED
      BY <2>1, <3>1 DEF Goes, NoRequest
  <2>3. CASE rc # SUCCESS
    <3>1. unfinished'
      BY <2>1, <2>3, Zenon
    <3> QED
      BY <2>1, <3>1 DEF Goes
  <2> QED
    BY <2>2, <2>3
<1>10. CASE Navigate
  <2>1. PICK rc \in Results :
          /\ GpsSetNavigationMode(mode, rc)
          /\ early' = (early \/ (rc = SUCCESS /\ daemon["hello"] = NoRequest /\ ~unfinished))
    BY <1>10 DEF Navigate, ModeSent
  <2>2. daemon'["hello"] = daemon["hello"] /\ UNCHANGED link
    BY <1>0, <2>1, Names DEF GpsSetNavigationMode, Request
  <2>3. rc = SUCCESS => link = "open"
    BY <2>1 DEF GpsSetNavigationMode, Request, SUCCESS, INVAL, UNKNOWN
  <2>4. early' => early \/ (rc = SUCCESS /\ daemon["hello"] = NoRequest /\ ~unfinished)
    BY <2>1, Zenon
  <2>5. caller = "navigate" /\ UNCHANGED unfinished
    BY <1>10 DEF Navigate
  <2>6. ~early'
    BY <2>3, <2>4, <2>5
  <2> QED
    BY <1>0, <2>2, <2>5, <2>6
<1>11. CASE Radio
  BY <1>11 DEF Radio, RadioStep, DaemonDies, ThreadEnds, ThreadGoesOn, gpsVars
<1>12. CASE UNCHANGED <<rilVars, init, callbacks, caller, mode, unfinished, early>>
  BY <1>12
<1> QED
  BY <1>1, <1>2, <1>3, <1>4, <1>5, <1>6, <1>7, <1>8, <1>9, <1>10, <1>11, <1>12, ReportSteps
  DEF CallSteps, Calls, LocationService, EngineOn, EngineOff

(* The state of the HAL changes with the request, not before or without it.*)
LEMMA NavigatesStep ==
  ASSUME TypeOK, Order, Navigates, [Next]_vars
  PROVE  Navigates'
<1> USE DEF Navigates, rilVars, STATE_QUIT, STATE_INIT, STATE_START
<1>0. daemon \in [Commands -> {NoRequest} \cup ({"said"} \cup Modes)]
  BY DEF TypeOK, RilTypeOK
<1>1. CASE wave_gps_init
  <2>1. CASE opened /\ UNCHANGED rilVars
    BY <1>1, <2>1 DEF wave_gps_init
  <2>2. CASE ~opened /\ \E ok \in BOOLEAN : OpenClient_RILD(ok)
    BY <1>1, <2>2 DEF wave_gps_init, OpenClient_RILD, Order
  <2> QED
    BY <1>1, <2>1, <2>2 DEF wave_gps_init
<1>2. CASE wave_gps_cleanup
  BY <1>2 DEF wave_gps_cleanup
<1>3. ASSUME NEW from, NEW to, SetStatus(from, to), from \in {"on", "off"} PROVE Navigates'
  BY <1>3 DEF SetStatus
<1>4. ASSUME NEW from, NEW state \in {STATE_QUIT, STATE_INIT}, StatusSet(from, state)
      PROVE  Navigates'
  BY <1>4 DEF StatusSet
<1>5. ASSUME NEW m \in Modes, SetNavigation(m) PROVE Navigates'
  BY <1>5 DEF SetNavigation
<1>6. CASE IsConnected
  BY <1>6 DEF IsConnected, isConnected_RILD, Goes
<1>7. CASE Connect
  BY <1>0, <1>7, Names DEF Connect, Connect_RILD, Reopened, Goes, CONNECT, SUCCESS, UNKNOWN,
     INVAL, NoRequest
<1>8. CASE Register \/ StartThread
  BY <1>8 DEF Register, RegisterGpsHandler, StartThread, srs_client_thread_start, Goes
<1>9. CASE Hello
  <2>1. daemon'["navigation"] = daemon["navigation"]
    BY <1>0, <1>9, Names DEF Hello, GpsHello, Request
  <2> QED
    BY <1>9, <2>1 DEF Hello, GpsHello, Request, Goes, SUCCESS, INVAL, UNKNOWN
<1>10. CASE Navigate
  <2>1. PICK rc \in Results : GpsSetNavigationMode(mode, rc)
    BY <1>10 DEF Navigate, ModeSent
  <2>2. init' = STATE_START => mode = "on"
    BY <1>10, Names DEF Navigate
  <2>3. refused' \/ daemon'["navigation"] = mode
    BY <1>0, <2>1, Names DEF GpsSetNavigationMode, Request
  <2> QED
    BY <2>2, <2>3
<1>11. CASE Radio
  BY <1>11 DEF Radio, RadioStep, DaemonDies, ThreadEnds, ThreadGoesOn, gpsVars
<1>12. CASE UNCHANGED <<rilVars, init, callbacks, caller, mode, unfinished, early>>
  BY <1>12
<1> QED
  BY <1>1, <1>2, <1>3, <1>4, <1>5, <1>6, <1>7, <1>8, <1>9, <1>10, <1>11, <1>12, ReportSteps
  DEF CallSteps, Calls, LocationService, EngineOn, EngineOff

(* Only the holder of the mutex has half a message in the state.           *)
LEMMA WholeStep ==
  ASSUME TypeOK, Whole, [Next]_vars
  PROVE  Whole'
<1> USE Names DEF Whole
<1>0. HalTypes /\ ClientTypes
  BY Types
<1>1. CASE UNCHANGED <<data, GpsMutex, reader, message, threads>>
  BY <1>1
<1>2. ASSUME NEW from, NEW to, SetStatus(from, to) PROVE Whole'
  BY <1>0, <1>2 DEF SetStatus, HalTypes, Free
<1>3. ASSUME NEW k \in Kinds, Created(k), UNCHANGED <<data, GpsMutex, message>>,
             reader' = reader \/ (reader = "handled" /\ reader' = "reading")
      PROVE  Whole'
  <2>1. \A j \in Kinds : threads'[j] >= threads[j] /\ threads[j] \in Nat /\ threads'[j] \in Nat
    <3>1. threads \in [Kinds -> Nat] /\ (threads' = threads \/ threads' = [threads EXCEPT ![k] = @ + 1])
      BY <1>0, <1>3 DEF Created, HalTypes
    <3>2. CASE threads' = threads
      BY <3>1, <3>2
    <3>3. CASE threads' = [threads EXCEPT ![k] = @ + 1]
      BY <3>1, <3>3, CountedUp
    <3> QED
      BY <3>1, <3>2, <3>3
  <2>2. \A j \in Kinds : GpsMutex' = j => threads'[j] > 0
    BY <1>3, <2>1
  <2> QED
    BY <1>3, <2>2
<1>4. ASSUME NEW k \in Messages, srs_client_cb(k) PROVE Whole'
  BY <1>4 DEF srs_client_cb
<1>5. CASE CopyFirst
  <2>1. data'[message] > 0
    BY <1>0, <1>5, CountedUp DEF CopyFirst, HalTypes
  <2> QED
    BY <1>5, <2>1 DEF CopyFirst
<1>6. CASE CopySecond
  BY <1>6 DEF CopySecond, Free
<1>7. ASSUME NEW k \in Kinds, UpdateLocks(k) PROVE Whole'
  BY <1>7 DEF UpdateLocks, Free
<1>8. ASSUME NEW k \in Kinds, UpdateReports(k) PROVE Whole'
  BY <1>0, <1>8 DEF UpdateReports, HalTypes, Free
<1>9. CASE EngineOn \/ EngineOff
  BY <1>2, <1>3, <1>9 DEF EngineOn, EngineOff, StatusSet
<1>10. CASE HandlerCreates
  BY <1>0, <1>3, <1>10 DEF HandlerCreates, HalTypes
<1>11. CASE Calls \/ IsConnected \/ Connect \/ Register \/ StartThread \/ Hello \/ Navigate
           \/ Radio
  BY <1>1, <1>11 DEF Calls, wave_gps_init, wave_gps_cleanup, SetNavigation, IsConnected, Connect,
     Register, StartThread, Hello, Goes, Navigate, ModeSent, Radio, gpsVars
<1> QED
  BY <1>1, <1>4, <1>5, <1>6, <1>7, <1>8, <1>9, <1>10, <1>11
  DEF Next, LocationService, GpsHandler, Update, vars, gpsVars

(* The inductive invariant: no conjunct is inductive alone.                *)
THEOREM Invariance == Spec => []IInv
<1>1. IInv /\ [Next]_vars => IInv'
  BY TypeStep, OrderStep, IntroducedStep, NavigatesStep, WholeStep DEF IInv
<1> QED
  BY <1>1, InvInit, PTL DEF Spec

(* Every variable keeps its type.                                          *)
THEOREM TypeCorrect == Spec => []TypeOK
BY Invariance, PTL DEF IInv

(* A message of the daemon finds the handler and its callbacks.            *)
THEOREM HandlerFound == Spec => []MessagesFindHandler
<1>1. IInv => MessagesFindHandler
  BY DEF IInv, Order, MessagesFindHandler, thread_run
<1> QED
  BY <1>1, Invariance, PTL

(* No navigation mode goes out on a socket that did not say hello, but on  *)
(* one that the call which opened it has given up.                         *)
THEOREM HelloFirst == Spec => []IntroducedFirst
<1>1. IInv => IntroducedFirst
  BY DEF IInv, Introduced, IntroducedFirst
<1> QED
  BY <1>1, Invariance, PTL

(* A HAL that says it is started has a daemon that navigates, or its own   *)
(* request was the one that failed.                                        *)
THEOREM StartedMeansNavigating == Spec => []StartedNavigates
<1>1. IInv => StartedNavigates
  BY DEF IInv, Navigates, StartedNavigates
<1> QED
  BY <1>1, Invariance, PTL

----------------------------------------------------------------------------
(* What one step does to the value of a kind and to what was reported of   *)
(* it: at most one of the two changes.                                     *)
Feeds(k) ==
  \/ (Value(k))' = Value(k) + 1 /\ reported'[k] = reported[k]
  \/ (Value(k))' = Value(k) /\ reported'[k] = Value(k)
  \/ (Value(k))' = Value(k) /\ reported'[k] = reported[k]

LEMMA FeedStep ==
  ASSUME IInv, [Next]_vars, NEW k \in Kinds
  PROVE  Feeds(k)
<1> USE Names DEF Feeds, Value
<1>0. /\ data \in [Kinds -> Nat] /\ reported \in [Kinds -> Nat] /\ message \in Kinds
      /\ GpsMutex = "handler" <=> reader = "copying"
  BY DEF IInv, TypeOK, Whole
<1>1. CASE UNCHANGED <<data, reader, message, reported>>
  BY <1>1
<1>2. ASSUME NEW from, NEW to, SetStatus(from, to) PROVE Feeds(k)
  BY <1>0, <1>2 DEF SetStatus, Free
<1>3. ASSUME NEW j \in Messages, srs_client_cb(j) PROVE Feeds(k)
  BY <1>3 DEF srs_client_cb
<1>4. CASE CopyFirst
  <2>1. data'[k] = IF k = message THEN data[k] + 1 ELSE data[k]
    BY <1>0, <1>4 DEF CopyFirst
  <2> QED
    BY <1>0, <1>4, <2>1 DEF CopyFirst
<1>5. CASE CopySecond
  BY <1>0, <1>5 DEF CopySecond
<1>6. CASE HandlerCreates
  BY <1>6 DEF HandlerCreates
<1>7. ASSUME NEW j \in Kinds, UpdateReports(j) PROVE Feeds(k)
  BY <1>0, <1>7 DEF UpdateReports
<1>8. CASE Calls \/ IsConnected \/ Connect \/ Register \/ StartThread \/ Hello \/ Navigate
           \/ Radio
  BY <1>1, <1>8 DEF Calls, wave_gps_init, wave_gps_cleanup, SetNavigation, IsConnected, Connect,
     Register, StartThread, Hello, Goes, Navigate, ModeSent, Radio, gpsVars
<1>9. CASE EngineOn \/ EngineOff
  BY <1>1, <1>2, <1>9 DEF EngineOn, EngineOff, StatusSet
<1>10. ASSUME NEW j \in Kinds, UpdateLocks(j) PROVE Feeds(k)
  BY <1>1, <1>10 DEF UpdateLocks
<1> QED
  BY <1>1, <1>3, <1>4, <1>5, <1>6, <1>7, <1>8, <1>9, <1>10
  DEF Next, LocationService, GpsHandler, Update, vars, gpsVars

LEMMA FeedInit ==
  ASSUME Init, NEW k \in Kinds
  PROVE  Value(k) = 0 /\ reported[k] = 0
BY DEF Init, Value

(* The callback of each kind implements LatestValue: it is never told half *)
(* a message or one that was never in the state.                           *)
THEOREM StatusImplements == Spec => StatusFeed!ValueSpec
<1>1. Init => StatusFeed!ValueInit
  BY FeedInit, Names DEF StatusFeed!ValueInit
<1>2. IInv /\ [Next]_vars =>
        [StatusFeed!ValueNext]_<<Value("status"), reported["status"]>>
  BY FeedStep, Names DEF Feeds, StatusFeed!ValueNext, StatusFeed!Change, StatusFeed!Tell
<1> QED
  BY <1>1, <1>2, Invariance, PTL DEF Spec, StatusFeed!ValueSpec

(* So does the location callback: it is never given half of a message.     *)
THEOREM LocationImplements == Spec => LocationFeed!ValueSpec
<1>1. Init => LocationFeed!ValueInit
  BY FeedInit, Names DEF LocationFeed!ValueInit
<1>2. IInv /\ [Next]_vars =>
        [LocationFeed!ValueNext]_<<Value("location"), reported["location"]>>
  BY FeedStep, Names DEF Feeds, LocationFeed!ValueNext, LocationFeed!Change, LocationFeed!Tell
<1> QED
  BY <1>1, <1>2, Invariance, PTL DEF Spec, LocationFeed!ValueSpec

(* So does the satellite callback, whose message is copied in halves too.  *)
THEOREM SvStatusImplements == Spec => SvStatusFeed!ValueSpec
<1>1. Init => SvStatusFeed!ValueInit
  BY FeedInit, Names DEF SvStatusFeed!ValueInit
<1>2. IInv /\ [Next]_vars =>
        [SvStatusFeed!ValueNext]_<<Value("svStatus"), reported["svStatus"]>>
  BY FeedStep, Names DEF Feeds, SvStatusFeed!ValueNext, SvStatusFeed!Change, SvStatusFeed!Tell
<1> QED
  BY <1>1, <1>2, Invariance, PTL DEF Spec, SvStatusFeed!ValueSpec
=============================================================================
