---------------------------- MODULE Connections -----------------------------
(***************************************************************************)
(* What the cameras' connections promise together, without the loops, the  *)
(* clients, the callbacks and the semaphore that internal/stream/stream.go *)
(* and internal/rtsp/client.go implement it with.                          *)
(*                                                                         *)
(* At most DialSlots cameras dial at a time.  A camera is counted and      *)
(* announced as online in one session after the other, never while it      *)
(* dials, and never twice without having gone offline.  A camera that was  *)
(* stopped is neither dialling nor online, and stays so.                   *)
(***************************************************************************)
EXTENDS Naturals, FiniteSets

CONSTANTS Cameras,     \* the cameras
          DialSlots    \* how many may dial at a time

VARIABLES dialling,    \* cameras that connect
          live,        \* cameras counted as online
          announced,   \* announced[c]: the last event about c
          stopped      \* cameras that are gone

connectionVars == <<dialling, live, announced, stopped>>

Init ==
    /\ dialling = {} /\ live = {} /\ stopped = {}
    /\ announced = [c \in Cameras |-> "nothing"]

Dial(c) ==
    /\ c \notin dialling \cup live \cup stopped
    /\ Cardinality(dialling) < DialSlots
    /\ dialling' = dialling \cup {c}
    /\ UNCHANGED <<live, announced, stopped>>

(* The handshake is over, well or badly.                                   *)
Dialled(c) ==
    /\ c \in dialling
    /\ dialling' = dialling \ {c}
    /\ UNCHANGED <<live, announced, stopped>>

ComeOnline(c) ==
    /\ c \notin dialling \cup live \cup stopped
    /\ live' = live \cup {c}
    /\ announced' = [announced EXCEPT ![c] = "online"]
    /\ UNCHANGED <<dialling, stopped>>

(* The end of a session, or of an attempt that never led to one.           *)
GoOffline(c) ==
    /\ c \notin dialling \cup stopped
    /\ live' = live \ {c}
    /\ announced' = [announced EXCEPT ![c] = "offline"]
    /\ UNCHANGED <<dialling, stopped>>

Stop(c) ==
    /\ c \notin dialling \cup live \cup stopped
    /\ stopped' = stopped \cup {c}
    /\ UNCHANGED <<dialling, live, announced>>

Next == \E c \in Cameras : Dial(c) \/ Dialled(c) \/ ComeOnline(c) \/ GoOffline(c) \/ Stop(c)

Spec == Init /\ [][Next]_connectionVars
=============================================================================
