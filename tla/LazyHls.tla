------------------------------ MODULE LazyHls ------------------------------
(***************************************************************************)
(* internal/stream/stream.go: the life of the HLS muxer of one stream.     *)
(* Viewers wake it (WakeUpHLSMuxer), housekeeping stops it after a minute  *)
(* without requests (TickHousekeeping) and Stream.Stop stops it for good.  *)
(*                                                                         *)
(* A muxer is a goroutine, the metadata subscription it was made with and  *)
(* a cancelled flag; what it serves is HlsMuxer's subject.  Time is the    *)
(* age of the last request.  A muxer that has exited and that nobody       *)
(* refers to may stand for a new one.                                      *)
(***************************************************************************)
EXTENDS Naturals, FiniteSets

CONSTANTS Viewers,    \* concurrent requests
          Muxers      \* muxer objects

NoMuxer == "no muxer"
ASSUME NoMuxerAssumption == NoMuxer \notin Muxers

VARIABLES
    lazyHLS,      \* the stream starts its muxer on demand
    hlsMuxer,     \* the stream's muxer, or NoMuxer
    running,      \* muxers whose loop has not ended
    cancelled,    \* muxers whose Stop was called
    subs,         \* muxers subscribed to the metadata broadcaster
    lastReq,      \* last request: "never", "recent" or "old" (over 60 s)
    holder,       \* who keeps muxerMu while a muxer ends: "none", "tick" or "stop"
    viewer,       \* where a request stands in WakeUpHLSMuxer
    got,          \* the muxer a request works with
    flight,       \* a wake-up is in flight (singleflight)
    tick,         \* where TickHousekeeping stands
    ringClosed,   \* the frame buffer was closed
    stop          \* where Stream.Stop stands

muxerVars == <<hlsMuxer, running, cancelled, subs>>
viewerVars == <<viewer, got, flight>>
vars == <<lazyHLS, muxerVars, lastReq, holder, viewerVars, tick, ringClosed, stop>>

(* NewStream starts the muxer at once unless it is lazy.                   *)
Init ==
    /\ lazyHLS \in BOOLEAN
    /\ IF lazyHLS THEN hlsMuxer = NoMuxer /\ running = {} /\ subs = {}
                  ELSE \E m \in Muxers : hlsMuxer = m /\ running = {m} /\ subs = {m}
    /\ cancelled = {}
    /\ lastReq = "never"
    /\ holder = "none"
    /\ viewer = [v \in Viewers |-> "idle"]
    /\ got = [v \in Viewers |-> NoMuxer]
    /\ flight = FALSE
    /\ tick = "idle"
    /\ ringClosed = FALSE
    /\ stop = "idle"

----------------------------------------------------------------------------
(* The muxer's goroutine ends when it is cancelled or its frames end.      *)
LoopEnds(m) ==
    /\ m \in running
    /\ m \in cancelled \/ ringClosed
    /\ running' = running \ {m}
    /\ UNCHANGED <<lazyHLS, hlsMuxer, cancelled, subs, lastReq, holder, viewerVars, tick,
                   ringClosed, stop>>

(* Faulty: the loop is not told to end.                                    *)
StopMuxerWithoutCancel(m) ==
    /\ subs' = subs \ {m}
    /\ UNCHANGED cancelled

(* The beginning of Muxer.Stop; it then waits until m is not running.      *)
StopMuxer(m) ==
    /\ subs' = subs \ {m}
    /\ cancelled' = cancelled \cup {m}

Unused(m) == m \notin running \cup {hlsMuxer} \cup {got[v] : v \in Viewers}

(* NewMuxer with its metadata subscription.                                *)
StartNew(m) ==
    /\ Unused(m)
    /\ hlsMuxer' = m
    /\ running' = running \cup {m}
    /\ cancelled' = cancelled \ {m}
    /\ subs' = subs \cup {m}

(* A new muxer if there is none; m is what WakeUpHLSMuxer returns.         *)
StartMuxer(m) ==
    IF hlsMuxer # NoMuxer THEN m = hlsMuxer /\ UNCHANGED muxerVars ELSE StartNew(m)

----------------------------------------------------------------------------
(* WakeUpHLSMuxer.                                                         *)

(* A request notes its time before anything else.                          *)
Request(v) ==
    /\ viewer[v] = "idle"
    /\ viewer' = [viewer EXCEPT ![v] = "fast"]
    /\ lastReq' = "recent"
    /\ UNCHANGED <<lazyHLS, muxerVars, holder, got, flight, tick, ringClosed, stop>>

(* The fast path, under muxerMu.                                           *)
FastPath(v) ==
    /\ viewer[v] = "fast"
    /\ holder = "none"
    /\ viewer' = [viewer EXCEPT ![v] = IF hlsMuxer # NoMuxer THEN "serving" ELSE "slow"]
    /\ got' = [got EXCEPT ![v] = hlsMuxer]
    /\ UNCHANGED <<lazyHLS, muxerVars, lastReq, holder, flight, tick, ringClosed, stop>>

(* One request leads the flight, the others wait for its result.           *)
Join(v) ==
    /\ viewer[v] = "slow"
    /\ viewer' = [viewer EXCEPT ![v] = IF flight THEN "follow" ELSE "lead"]
    /\ flight' = TRUE
    /\ UNCHANGED <<lazyHLS, muxerVars, lastReq, holder, got, tick, ringClosed, stop>>

(* The leader, under muxerMu; every request of the flight gets the result. *)
WakeUp(v, m) ==
    /\ viewer[v] = "lead"
    /\ holder = "none"
    /\ StartMuxer(m)
    /\ LET landed == {w \in Viewers : viewer[w] \in {"lead", "follow"}}
       IN /\ viewer' = [w \in Viewers |-> IF w \in landed THEN "serving" ELSE viewer[w]]
          /\ got' = [w \in Viewers |-> IF w \in landed THEN m ELSE got[w]]
    /\ flight' = FALSE
    /\ UNCHANGED <<lazyHLS, lastReq, holder, tick, ringClosed, stop>>

(* The request is answered from the muxer it got.                          *)
Answer(v) ==
    /\ viewer[v] = "serving"
    /\ viewer' = [viewer EXCEPT ![v] = "idle"]
    /\ got' = [got EXCEPT ![v] = NoMuxer]
    /\ UNCHANGED <<lazyHLS, muxerVars, lastReq, holder, flight, tick, ringClosed, stop>>

(* A minute passes.                                                        *)
Age ==
    /\ lastReq = "recent"
    /\ lastReq' = "old"
    /\ UNCHANGED <<lazyHLS, muxerVars, holder, viewerVars, tick, ringClosed, stop>>

----------------------------------------------------------------------------
(* TickHousekeeping, which the manager's loop may still run on a stream    *)
(* that was removed meanwhile.                                             *)

(* The age of the last request is read before muxerMu is taken.            *)
TickJudge ==
    /\ tick = "idle"
    /\ tick' = IF lazyHLS /\ lastReq = "old" THEN "idleMuxer" ELSE "watchdog"
    /\ UNCHANGED <<lazyHLS, muxerVars, lastReq, holder, viewerVars, ringClosed, stop>>

(* Under muxerMu: the muxer is stopped, and waited for.                    *)
TickStop ==
    /\ tick = "idleMuxer"
    /\ holder = "none"
    /\ IF hlsMuxer = NoMuxer
         THEN tick' = "watchdog" /\ UNCHANGED <<subs, cancelled, holder>>
         ELSE tick' = "await" /\ StopMuxer(hlsMuxer) /\ holder' = "tick"
    /\ UNCHANGED <<lazyHLS, hlsMuxer, running, lastReq, viewerVars, ringClosed, stop>>

(* Faulty: the goroutine of the muxer is not waited for.                   *)
TickDoesNotWait ==
    /\ tick = "await"
    /\ tick' = "watchdog"
    /\ hlsMuxer' = NoMuxer
    /\ holder' = "none"
    /\ UNCHANGED <<lazyHLS, running, cancelled, subs, lastReq, viewerVars, ringClosed,
                   stop>>

TickStopped ==
    /\ tick = "await"
    /\ hlsMuxer \notin running
    /\ tick' = "watchdog"
    /\ hlsMuxer' = NoMuxer
    /\ holder' = "none"
    /\ UNCHANGED <<lazyHLS, running, cancelled, subs, lastReq, viewerVars, ringClosed,
                   stop>>

(* The watchdog runs on the muxer that muxerMu shows.                      *)
TickWatchdog ==
    /\ tick = "watchdog"
    /\ holder = "none"
    /\ tick' = "idle"
    /\ UNCHANGED <<lazyHLS, muxerVars, lastReq, holder, viewerVars, ringClosed, stop>>

----------------------------------------------------------------------------
(* Stream.Stop: the buffer, the muxer, then recorder and ingest loop.      *)

CloseBuffer ==
    /\ stop = "idle"
    /\ stop' = "muxer"
    /\ ringClosed' = TRUE
    /\ UNCHANGED <<lazyHLS, muxerVars, lastReq, holder, viewerVars, tick>>

StopStopsMuxer ==
    /\ stop = "muxer"
    /\ holder = "none"
    /\ IF hlsMuxer = NoMuxer
         THEN stop' = "others" /\ UNCHANGED <<subs, cancelled, holder>>
         ELSE stop' = "await" /\ StopMuxer(hlsMuxer) /\ holder' = "stop"
    /\ UNCHANGED <<lazyHLS, hlsMuxer, running, lastReq, viewerVars, tick, ringClosed>>

StopStopped ==
    /\ stop = "await"
    /\ hlsMuxer \notin running
    /\ stop' = "others"
    /\ holder' = "none"
    /\ UNCHANGED <<lazyHLS, muxerVars, lastReq, viewerVars, tick, ringClosed>>

StopReturns ==
    /\ stop = "others"
    /\ stop' = "done"
    /\ UNCHANGED <<lazyHLS, muxerVars, lastReq, holder, viewerVars, tick, ringClosed>>

----------------------------------------------------------------------------
Wake(v) == FastPath(v) \/ Join(v) \/ (\E m \in Muxers : WakeUp(v, m))
Tick == TickJudge \/ TickStop \/ TickStopped \/ TickWatchdog
StopSteps == StopStopsMuxer \/ StopStopped \/ StopReturns

Next ==
    \/ \E m \in Muxers : LoopEnds(m)
    \/ \E v \in Viewers : Request(v) \/ Wake(v) \/ Answer(v)
    \/ Age
    \/ Tick
    \/ CloseBuffer \/ StopSteps

Spec == Init /\ [][Next]_vars

(* Goroutines are scheduled, and muxerMu, a sync.Mutex, hands itself to a  *)
(* waiter that has waited long: strong fairness of the steps that take it. *)
Fairness ==
    /\ \A m \in Muxers : WF_vars(LoopEnds(m))
    /\ \A v \in Viewers : SF_vars(Wake(v))
    /\ WF_vars(TickStopped) /\ SF_vars(TickStop) /\ SF_vars(TickWatchdog)
    /\ SF_vars(StopSteps)

FairSpec == Spec /\ Fairness

----------------------------------------------------------------------------
(* Types of the variables.                                                 *)
TypeOK ==
    /\ lazyHLS \in BOOLEAN
    /\ hlsMuxer \in Muxers \cup {NoMuxer}
    /\ running \subseteq Muxers
    /\ cancelled \subseteq Muxers
    /\ subs \subseteq Muxers
    /\ lastReq \in {"never", "recent", "old"}
    /\ holder \in {"none", "tick", "stop"}
    /\ viewer \in [Viewers -> {"idle", "fast", "slow", "lead", "follow", "serving"}]
    /\ got \in [Viewers -> Muxers \cup {NoMuxer}]
    /\ flight \in BOOLEAN
    /\ tick \in {"idle", "idleMuxer", "await", "watchdog"}
    /\ ringClosed \in BOOLEAN
    /\ stop \in {"idle", "muxer", "await", "others", "done"}

(* At most one muxer loop reads the frames of a stream, and every metadata *)
(* subscription belongs to the muxer of the stream: concurrent wake-ups    *)
(* share one, the lazy stop has waited for the old one before a new one    *)
(* can start, and the cycle of waking and sleeping leaks no subscription.  *)
OneMuxer == running \cup subs \subseteq {hlsMuxer}

(* A wake-up comes to a muxer and Stop returns, although both take the     *)
(* lock under which others wait for a muxer's goroutine.                   *)
WakeAndStopReturn ==
    /\ \A v \in Viewers : viewer[v] = "fast" ~> viewer[v] = "serving"
    /\ stop = "muxer" ~> stop = "done"

(* Stop's comment says that it "stops recorders and HLS muxers": when it   *)
(* has returned, the muxer the stream has left was stopped.                *)
StopLeavesNoMuxer == stop = "done" => hlsMuxer \in cancelled \cup {NoMuxer}

=============================================================================
