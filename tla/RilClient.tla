------------------------------- MODULE RilClient -------------------------------
(***************************************************************************)
(* The client of the radio daemon (ril-client.c): a handle, a socket that  *)
(* is opened when it is needed, requests sent over it, and a thread that   *)
(* reads what the daemon sends unasked.  The GPS HAL and the audio HAL     *)
(* each have one of their own.                                             *)
(*                                                                         *)
(* Every function is an action with its result as the argument, so that    *)
(* the caller says \E rc : Connect_RILD(rc) /\ ... and goes by rc.  The    *)
(* socket and the thread are those of libsrs-client, which is not part of  *)
(* the repository; what they may do is taken from how they are used here.  *)
(* A ping and a request may fail at any time, on an open socket too: the   *)
(* code looks at nothing but rc < 0, whatever the reason.                  *)
(***************************************************************************)
VARIABLES
  opened,     \* OpenClient_RILD has given a handle
  link,       \* the socket: closed, open, or broken since the daemon died
  thread,     \* the client's thread: none, reading, or lost: its socket is gone
  handler,    \* _handler is set
  daemon,     \* the last request of each kind the living daemon has received
  refused     \* the last request that was due has not reached the daemon

rilVars == <<opened, link, thread, handler, daemon, refused>>

SUCCESS == "success"
INVAL   == "inval"
CONNECT == "connect"
UNKNOWN == "unknown"
Results == {SUCCESS, INVAL, CONNECT, UNKNOWN}

(* SetVolume's switch: one level for each type of sound.                   *)
SoundTypes == {"voice", "speaker", "headset", "btvoice"}

Commands == {"hello", "navigation", "path"} \cup SoundTypes

NoRequest == "none"

RilInit(ok) ==
  /\ opened = ok
  /\ link = "closed"
  /\ thread = "none"
  /\ handler = FALSE
  /\ daemon = [c \in Commands |-> NoRequest]
  /\ refused = FALSE

thread_run == thread # "none"

(* srs_client_create may fail, and OpenClient_RILD returns NULL then.      *)
OpenClient_RILD(ok) ==
  /\ opened' = ok
  /\ UNCHANGED <<link, thread, handler, daemon, refused>>

(* What isConnected_RILD returns, a C truth value: RIL_CLIENT_ERR_INVAL    *)
(* for a NULL handle is one, too.  A ping on an open socket may be in vain *)
(* all the same.                                                           *)
isConnected_RILD(connected) ==
  /\ opened /\ link # "open" => ~connected
  /\ ~opened => connected
  /\ UNCHANGED rilVars

(* A new socket: whoever was introduced on the old one is not on this one, *)
(* and a thread that was reading from the old one has lost it.             *)
Reopened ==
  /\ link' = "open"
  /\ daemon' = [daemon EXCEPT !["hello"] = NoRequest]
  /\ thread' = IF thread_run THEN "lost" ELSE "none"

(* A ping that fails after srs_client_open leaves the new socket open.     *)
Connect_RILD(rc) ==
  /\ \/ ~opened /\ rc = INVAL /\ UNCHANGED <<link, thread, daemon>>
     \/ opened /\ rc = CONNECT /\ UNCHANGED <<link, thread, daemon>>
     \/ opened /\ rc \in {SUCCESS, UNKNOWN} /\ Reopened
  /\ UNCHANGED <<opened, handler, refused>>

(* RegisterGpsHandler sets the handler,                                    *)
RegisterGpsHandler ==
  /\ handler' = TRUE
  /\ UNCHANGED <<opened, link, thread, daemon, refused>>

(* and starts the client's thread next, unless it runs.                    *)
srs_client_thread_start ==
  /\ thread' = IF thread_run THEN thread ELSE "reading"
  /\ UNCHANGED <<opened, link, handler, daemon, refused>>

(* A request with one value: it arrives over an open socket, or fails.     *)
Request(command, value, rc) ==
  /\ \/ ~opened /\ rc = INVAL /\ refused' = TRUE /\ UNCHANGED daemon
     \/ opened /\ rc = UNKNOWN /\ refused' = TRUE /\ UNCHANGED daemon
     \/ /\ opened /\ link = "open" /\ rc = SUCCESS /\ refused' = FALSE
        /\ daemon' = [daemon EXCEPT ![command] = value]
  /\ UNCHANGED <<opened, link, thread, handler>>

GpsHello(rc) == Request("hello", "said", rc)

GpsSetNavigationMode(enabled, rc) == Request("navigation", enabled, rc)

(* The daemon dies, with what it knew, and is started again at once; that  *)
(* may happen at any time and any number of times.                         *)
DaemonDies ==
  /\ link' = IF link = "closed" THEN "closed" ELSE "broken"
  /\ thread' = IF thread = "reading" THEN "lost" ELSE thread
  /\ daemon' = [c \in Commands |-> NoRequest]
  /\ UNCHANGED <<opened, handler, refused>>

(* A thread that has lost its socket ends, or goes on with the new one.    *)
ThreadEnds ==
  /\ thread = "lost"
  /\ thread' = "none"
  /\ UNCHANGED <<opened, link, handler, daemon, refused>>

ThreadGoesOn ==
  /\ thread = "lost" /\ link = "open"
  /\ thread' = "reading"
  /\ UNCHANGED <<opened, link, handler, daemon, refused>>

RadioStep == DaemonDies \/ ThreadEnds \/ ThreadGoesOn

(* The types of the client's state, for requests with the given values.    *)
RilTypeOK(values) ==
  /\ opened \in BOOLEAN /\ handler \in BOOLEAN /\ refused \in BOOLEAN
  /\ link \in {"closed", "open", "broken"}
  /\ thread \in {"none", "reading", "lost"}
  /\ daemon \in [Commands -> {NoRequest} \cup values]
=============================================================================
