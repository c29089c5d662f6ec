------------------------------- MODULE Ingest -------------------------------
(***************************************************************************)
(* internal/stream/stream.go and internal/rtsp/client.go: the connection   *)
(* loops of the cameras (Stream.run around Client.Start), the frame        *)
(* callbacks of the RTSP library, and Stream.Stop.                         *)
(*                                                                         *)
(* All cameras dial through one semaphore.  The library client is new,     *)
(* started or closed; its calls may fail at any time and do fail once it   *)
(* is closed, and its Close and Wait return after the running callbacks.   *)
(* Delays, counters of bytes and frames and error texts are left out; the  *)
(* frame that a callback writes is RingBuffer's Write.                     *)
(***************************************************************************)
EXTENDS Integers, FiniteSets

CONSTANTS Cameras,     \* streams, each with its own loop
          Readers,     \* Readers[c]: goroutines of c's library client that deliver frames
          DialSlots    \* capacity of dialSemaphore

ASSUME DialSlotsAssumption == DialSlots \in Nat \ {0}
ASSUME CamerasAssumption == IsFiniteSet(Cameras)
ASSUME ReadersAssumption == \A c \in Cameras : IsFiniteSet(Readers[c])

VARIABLES
    loop,        \* where Stream.run stands
    cancelled,   \* the stream's context is done
    closed,      \* closed flag of the camera's current client
    startDone,   \* startDone flag of the current client
    lib,         \* library client: "none", "new", "started", "closed"
    used,        \* entries in dialSemaphore
    holds,       \* Start has taken a slot and not released it
    state,       \* camera state: "connecting", "online", "offline"
    gauge,       \* ActiveStreams of the camera
    announced,   \* last event published for the camera
    callback,    \* what a reader's frame callback is doing
    stop,        \* where Stream.Stop stands
    canClose     \* Client.Close: startDone as it read it

loopVars == <<loop, closed, startDone, used, holds>>
stopVars == <<cancelled, stop, canClose>>
vars == <<loopVars, stopVars, lib, state, gauge, announced, callback>>

States == {"connecting", "online", "offline"}
InStart == {"dial", "connect", "mark", "handshake", "play", "wait", "closing"}

Init ==
    /\ loop \in [Cameras -> {"top", "synthetic"}]
    /\ cancelled = [c \in Cameras |-> FALSE]
    /\ closed = [c \in Cameras |-> FALSE]
    /\ startDone = [c \in Cameras |-> FALSE]
    /\ lib = [c \in Cameras |-> "none"]
    /\ used = 0
    /\ holds = [c \in Cameras |-> FALSE]
    /\ state = [c \in Cameras |-> "connecting"]
    /\ gauge = [c \in Cameras |-> 0]
    /\ announced = [c \in Cameras |-> "nothing"]
    /\ callback = [c \in Cameras |-> [r \in Readers[c] |-> "idle"]]
    /\ stop = [c \in Cameras |-> "idle"]
    /\ canClose = [c \in Cameras |-> FALSE]

Go(c, from, to) == loop[c] = from /\ loop' = [loop EXCEPT ![c] = to]

CallbacksReturned(c) == \A r \in Readers[c] : callback[c][r] = "idle"

----------------------------------------------------------------------------
(* The loop of Stream.run, with Client.Start in its steps.                 *)

(* A camera without a source (its URL says synthetic) only waits.          *)
Synthetic(c) ==
    /\ cancelled[c]
    /\ Go(c, "synthetic", "exited")
    /\ UNCHANGED <<closed, startDone, used, holds, stopVars, lib, state, gauge,
                   announced, callback>>

(* The loop condition.                                                     *)
Top(c) ==
    /\ Go(c, "top", IF cancelled[c] THEN "exited" ELSE "new")
    /\ UNCHANGED <<closed, startDone, used, holds, stopVars, lib, state, gauge,
                   announced, callback>>

(* A new client, under rtspMu, which Stop holds while it closes one.  A    *)
(* URL that does not parse makes Start return at once.                     *)
NewClient(c) ==
    /\ stop[c] \notin {"close", "closing"}
    /\ \E to \in {"dial", "returned"} : Go(c, "new", to)
    /\ closed' = [closed EXCEPT ![c] = FALSE]
    /\ startDone' = [startDone EXCEPT ![c] = FALSE]
    /\ lib' = [lib EXCEPT ![c] = "new"]
    /\ UNCHANGED <<used, holds, stopVars, state, gauge, announced, callback>>

(* The send on dialSemaphore blocks while it is full; it does not look at  *)
(* the context.                                                            *)
Acquire(c) ==
    /\ used < DialSlots
    /\ Go(c, "dial", "connect")
    /\ used' = used + 1
    /\ holds' = [holds EXCEPT ![c] = TRUE]
    /\ UNCHANGED <<closed, startDone, stopVars, lib, state, gauge, announced, callback>>

(* releaseSemaphore, which gives the slot back once.                       *)
Release(c) ==
    /\ used' = IF holds[c] THEN used - 1 ELSE used
    /\ holds' = [holds EXCEPT ![c] = FALSE]

(* The library's Start: on failure Client.Start returns.                   *)
ConnectFails(c) ==
    /\ Go(c, "connect", "returned")
    /\ Release(c)
    /\ UNCHANGED <<closed, startDone, stopVars, lib, state, gauge, announced, callback>>

Connect(c) ==
    /\ Go(c, "connect", "mark")
    /\ lib' = [lib EXCEPT ![c] = "started"]
    /\ UNCHANGED <<closed, startDone, used, holds, stopVars, state, gauge, announced,
                   callback>>

(* Under the client's mutex: from now on Close may close the library       *)
(* client; a Close that came earlier is carried out here.                  *)
MarkStarted(c) ==
    /\ Go(c, "mark", IF closed[c] THEN "closing" ELSE "handshake")
    /\ startDone' = [startDone EXCEPT ![c] = TRUE]
    /\ lib' = [lib EXCEPT ![c] = IF closed[c] THEN "closed" ELSE @]
    /\ UNCHANGED <<closed, used, holds, stopVars, state, gauge, announced, callback>>

(* Faulty: only the deferred call gives the slot back, when Start returns. *)
HandshakeKeepsSlot(c) ==
    /\ lib[c] = "started"
    /\ Go(c, "handshake", "play")
    /\ UNCHANGED <<closed, startDone, used, holds, stopVars, lib, state, gauge, announced,
                   callback>>

(* Describe and SetupAll, then the slot is free for another camera.        *)
Handshake(c) ==
    /\ lib[c] = "started"
    /\ Go(c, "handshake", "play")
    /\ Release(c)
    /\ UNCHANGED <<closed, startDone, stopVars, lib, state, gauge, announced, callback>>

(* Play; from here on frames arrive.                                       *)
Play(c) ==
    /\ lib[c] = "started"
    /\ Go(c, "play", "wait")
    /\ UNCHANGED <<closed, startDone, used, holds, stopVars, lib, state, gauge,
                   announced, callback>>

(* An error of Describe, SetupAll, a decoder or Play, the end of the       *)
(* session, or the context: the library client is closed.                  *)
GiveUp(c) ==
    /\ \/ Go(c, "handshake", "closing")
       \/ Go(c, "play", "closing")
       \/ Go(c, "wait", "closing")
    /\ lib' = [lib EXCEPT ![c] = "closed"]
    /\ UNCHANGED <<closed, startDone, used, holds, stopVars, state, gauge, announced,
                   callback>>

(* Faulty: Start returns although callbacks are still running.             *)
ReturnsEarly(c) ==
    /\ Go(c, "closing", "returned")
    /\ Release(c)
    /\ UNCHANGED <<closed, startDone, stopVars, lib, state, gauge, announced, callback>>

(* Start returns when the library's Close does: no callback is running.    *)
StartReturns(c) ==
    /\ CallbacksReturned(c)
    /\ Go(c, "closing", "returned")
    /\ Release(c)
    /\ UNCHANGED <<closed, startDone, stopVars, lib, state, gauge, announced, callback>>

(* After Start: the state, the gauge, the event, and the delay or the end. *)
WentOffline(c) ==
    /\ Go(c, "returned", IF cancelled[c] THEN "exited" ELSE "backoff")
    /\ state' = [state EXCEPT ![c] = "offline"]
    /\ gauge' = [gauge EXCEPT ![c] = IF state[c] = "online" THEN @ - 1 ELSE @]
    /\ announced' = [announced EXCEPT ![c] = "offline"]
    /\ UNCHANGED <<closed, startDone, used, holds, stopVars, lib, callback>>

(* The reconnect timer, or the context.                                    *)
Backoff(c) ==
    /\ \/ Go(c, "backoff", "top")
       \/ cancelled[c] /\ Go(c, "backoff", "exited")
    /\ UNCHANGED <<closed, startDone, used, holds, stopVars, lib, state, gauge,
                   announced, callback>>

Run(c) ==
    \/ Synthetic(c) \/ Top(c) \/ NewClient(c) \/ Acquire(c)
    \/ Connect(c) \/ ConnectFails(c) \/ MarkStarted(c) \/ Handshake(c) \/ Play(c)
    \/ GiveUp(c) \/ StartReturns(c) \/ WentOffline(c) \/ Backoff(c)

----------------------------------------------------------------------------
(* Frame callbacks, one per reader goroutine of the library client.        *)

SetCallback(c, r, pc) == callback' = [callback EXCEPT ![c][r] = pc]

(* The callback loads the state; a frame of an online camera is only       *)
(* written.                                                                *)
OnFrame(c, r) ==
    /\ lib[c] = "started"
    /\ loop[c] \in {"play", "wait"}
    /\ callback[c][r] = "idle"
    /\ state[c] # "online"
    /\ SetCallback(c, r, state[c])
    /\ UNCHANGED <<loopVars, stopVars, lib, state, gauge, announced>>

(* Faulty: the state is stored without comparing.                          *)
StoreState(c, r) ==
    /\ callback[c][r] \in States
    /\ state' = [state EXCEPT ![c] = "online"]
    /\ SetCallback(c, r, "won")
    /\ UNCHANGED <<loopVars, stopVars, lib, gauge, announced>>

(* The compare-and-swap: of several readers one brings the camera online.  *)
SwapState(c, r) ==
    /\ callback[c][r] \in States
    /\ IF state[c] = callback[c][r]
         THEN state' = [state EXCEPT ![c] = "online"] /\ SetCallback(c, r, "won")
         ELSE UNCHANGED state /\ SetCallback(c, r, "idle")
    /\ UNCHANGED <<loopVars, stopVars, lib, gauge, announced>>

CameOnline(c, r) ==
    /\ callback[c][r] = "won"
    /\ gauge' = [gauge EXCEPT ![c] = @ + 1]
    /\ announced' = [announced EXCEPT ![c] = "online"]
    /\ SetCallback(c, r, "idle")
    /\ UNCHANGED <<loopVars, stopVars, lib, state>>

Callback(c, r) == OnFrame(c, r) \/ SwapState(c, r) \/ CameOnline(c, r)

----------------------------------------------------------------------------
(* Stream.Stop, once.                                                      *)

StopGo(c, from, to) == stop[c] = from /\ stop' = [stop EXCEPT ![c] = to]

StopCancel(c) ==
    /\ StopGo(c, "idle", "begun")
    /\ cancelled' = [cancelled EXCEPT ![c] = TRUE]
    /\ UNCHANGED <<loopVars, canClose, lib, state, gauge, announced, callback>>

(* Faulty: the library client is closed whether it was started or not.     *)
CloseAlways(c) ==
    /\ IF lib[c] = "none"
         THEN StopGo(c, "begun", "consumers") /\ UNCHANGED <<closed, canClose>>
         ELSE /\ StopGo(c, "begun", "close")
              /\ closed' = [closed EXCEPT ![c] = TRUE]
              /\ canClose' = [canClose EXCEPT ![c] = TRUE]
    /\ UNCHANGED <<loop, startDone, used, holds, cancelled, lib, state, gauge, announced,
                   callback>>

(* Client.Close under rtspMu: the flag is set and startDone read under the *)
(* client's mutex.                                                         *)
CloseClient(c) ==
    /\ IF lib[c] = "none"
         THEN StopGo(c, "begun", "consumers") /\ UNCHANGED <<closed, canClose>>
         ELSE /\ StopGo(c, "begun", IF startDone[c] THEN "close" ELSE "consumers")
              /\ closed' = [closed EXCEPT ![c] = TRUE]
              /\ canClose' = [canClose EXCEPT ![c] = startDone[c]]
    /\ UNCHANGED <<loop, startDone, used, holds, cancelled, lib, state, gauge, announced,
                   callback>>

(* The library's Close, without the client's mutex.  On a client that was  *)
(* never started it would fail.                                            *)
CloseLibrary(c) ==
    /\ StopGo(c, "close", "closing")
    /\ lib' = [lib EXCEPT ![c] = IF @ = "new" THEN "misused" ELSE "closed"]
    /\ UNCHANGED <<loopVars, cancelled, canClose, state, gauge, announced, callback>>

CloseReturns(c) ==
    /\ CallbacksReturned(c)
    /\ StopGo(c, "closing", "consumers")
    /\ UNCHANGED <<loopVars, cancelled, canClose, lib, state, gauge, announced, callback>>

(* The ring buffer is closed, the muxer and the recorder are stopped.      *)
StopConsumers(c) ==
    /\ StopGo(c, "consumers", "waiting")
    /\ UNCHANGED <<loopVars, cancelled, canClose, lib, state, gauge, announced, callback>>

(* wg.Wait.                                                                *)
StopReturns(c) ==
    /\ loop[c] = "exited"
    /\ StopGo(c, "waiting", "done")
    /\ UNCHANGED <<loopVars, cancelled, canClose, lib, state, gauge, announced, callback>>

Stop(c) ==
    \/ CloseClient(c) \/ CloseLibrary(c) \/ CloseReturns(c) \/ StopConsumers(c)
    \/ StopReturns(c)

(* Every camera was stopped: the process may end.                          *)
Terminated == (\A c \in Cameras : stop[c] = "done") /\ UNCHANGED vars

Next ==
    \/ \E c \in Cameras : \/ Run(c)
                          \/ \E r \in Readers[c] : Callback(c, r)
                          \/ StopCancel(c) \/ Stop(c)
    \/ Terminated

Spec == Init /\ [][Next]_vars

(* A session that is healthy may last for ever; everything else goes on:   *)
(* goroutines are scheduled, library calls return or time out.             *)
Obliged(c) ==
    /\ ~(loop[c] = "wait" /\ lib[c] = "started" /\ ~cancelled[c])
    /\ Run(c)

(* The semaphore is a Go channel, which serves blocked senders in order:   *)
(* strong fairness of Acquire.                                             *)
Fairness ==
    \A c \in Cameras :
        /\ WF_vars(Obliged(c))
        /\ SF_vars(Acquire(c))
        /\ \A r \in Readers[c] : WF_vars(SwapState(c, r) \/ CameOnline(c, r))
        /\ WF_vars(Stop(c))

FairSpec == Spec /\ Fairness

----------------------------------------------------------------------------
LoopStates == {"synthetic", "top", "new", "returned", "backoff", "exited"} \cup InStart
StopStates == {"idle", "begun", "close", "closing", "consumers", "waiting", "done"}

(* Types of the variables.                                                 *)
TypeOK ==
    /\ loop \in [Cameras -> LoopStates]
    /\ cancelled \in [Cameras -> BOOLEAN]
    /\ closed \in [Cameras -> BOOLEAN]
    /\ startDone \in [Cameras -> BOOLEAN]
    /\ lib \in [Cameras -> {"none", "new", "started", "closed", "misused"}]
    /\ used \in 0..DialSlots
    /\ holds \in [Cameras -> BOOLEAN]
    /\ state \in [Cameras -> States]
    /\ gauge \in [Cameras -> {0, 1}]
    /\ announced \in [Cameras -> {"nothing", "online", "offline"}]
    /\ DOMAIN callback = Cameras
    /\ \A c \in Cameras : callback[c] \in [Readers[c] -> States \cup {"idle", "won"}]
    /\ stop \in [Cameras -> StopStates]
    /\ canClose \in [Cameras -> BOOLEAN]

(* dialSemaphore holds one entry for every camera between Acquire and the  *)
(* end of its handshake, so no failed or stopped connection eats a slot.   *)
SlotsExact == used = Cardinality({c \in Cameras : holds[c]})

(* The ActiveStreams gauge counts a camera while it is online, whichever   *)
(* readers raced to bring it online, and not while the callback that did   *)
(* is still to count it.                                                   *)
GaugeExact ==
    \A c \in Cameras :
        gauge[c] = IF state[c] = "online" /\ \A r \in Readers[c] : callback[c][r] # "won"
                     THEN 1 ELSE 0

(* Both counts agree with the cameras.                                     *)
CountsExact == SlotsExact /\ GaugeExact

(* The library client is closed only after its Start has returned, by      *)
(* Client.Close and by Client.Start alike.                                 *)
CloseOnlyStarted == \A c \in Cameras : lib[c] # "misused"

(* When Stop has returned, the loop is gone, the connection is closed, the *)
(* slot is free, no frame is being delivered, and neither the gauge nor    *)
(* the last event says that the camera is online.                          *)
StopQuiesces ==
    \A c \in Cameras : stop[c] = "done" =>
        /\ loop[c] = "exited"
        /\ lib[c] # "started"
        /\ ~holds[c]
        /\ CallbacksReturned(c)
        /\ gauge[c] = 0
        /\ announced[c] # "online"

(* Stop neither comes too early for the library nor leaves anything.       *)
StopIsClean == CloseOnlyStarted /\ StopQuiesces

(* The semaphore, the flags and the compare-and-swap implement the         *)
(* cameras' connections.                                                   *)
Promise == INSTANCE Connections WITH
               dialling <- {c \in Cameras : holds[c]},
               live <- {c \in Cameras : gauge[c] = 1},
               stopped <- {c \in Cameras : stop[c] = "done"}

(* Whatever fails, reconnects and is stopped (stream.go:141-262, 268-331,  *)
(* client.go:76-244), no more cameras dial than there are slots, a camera  *)
(* is counted and announced once in a session and never while it dials,    *)
(* and nothing of it comes after its Stop has returned.                    *)
ImplementsConnections == Promise!Spec

(* Stop returns, also when it finds the loop waiting for a dial slot, in a *)
(* handshake, or between two clients.                                      *)
StopTerminates == \A c \in Cameras : stop[c] = "begun" ~> stop[c] = "done"

(* A camera that waits for a dial slot gets one, however often the others  *)
(* reconnect.                                                              *)
DialIsServed == \A c \in Cameras : loop[c] = "dial" ~> loop[c] = "connect"

(* Neither Stop nor a dial waits for ever.                                 *)
NobodyWaitsForever == StopTerminates /\ DialIsServed

=============================================================================
