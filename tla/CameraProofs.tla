---------------------------- MODULE CameraProofs ----------------------------
(***************************************************************************)
(* Proofs about a camera's connection (Ingest, for any number of cameras,  *)
(* readers and dial slots) and its recordings (Archive, for any number of  *)
(* recordings, of requests and of fragments, any length of a day and any   *)
(* size of the cache of indexes).                                          *)
(***************************************************************************)
EXTENDS Ingest, Archive, TLAPS

(* Zenon proves what is first-order; the leaves with arithmetic, sequences *)
(* or records name the SMT solver.                                         *)
USE ZenonT(30)

(* What is used of the library of finite sets. The lemmas that count have  *)
(* it as a hypothesis, which the library discharges at the end.            *)
FiniteSetFacts ==
    /\ IsFiniteSet({}) /\ Cardinality({}) = 0
    /\ \A S : IsFiniteSet(S) => Cardinality(S) \in Nat
    /\ \A S, T : IsFiniteSet(S) /\ T \subseteq S => IsFiniteSet(T)
    /\ \A S, x : IsFiniteSet(S) =>
           /\ Cardinality(S \cup {x}) = IF x \in S THEN Cardinality(S) ELSE Cardinality(S) + 1
           /\ Cardinality(S \ {x}) = IF x \in S THEN Cardinality(S) - 1 ELSE Cardinality(S)
    /\ \A n \in Nat : IsFiniteSet(1..n) /\ Cardinality(1..n) = n

----------------------------------------------------------------------------
(* The connection: the counts are exact, and Stop leaves nothing behind.   *)

(* What a camera's variables hold; the counts are only known to be         *)
(* numbers.                                                                *)
Types ==
    /\ loop \in [Cameras -> LoopStates]
    /\ closed \in [Cameras -> BOOLEAN] /\ startDone \in [Cameras -> BOOLEAN]
    /\ holds \in [Cameras -> BOOLEAN]
    /\ lib \in [Cameras -> {"none", "new", "started", "closed", "misused"}]
    /\ state \in [Cameras -> States]
    /\ gauge \in [Cameras -> Int]
    /\ announced \in [Cameras -> {"nothing", "online", "offline"}]
    /\ callback = [c \in Cameras |-> callback[c]]
    /\ \A c \in Cameras : callback[c] \in [Readers[c] -> States \cup {"idle", "won"}]
    /\ stop \in [Cameras -> StopStates]

(* Who may hold a dial slot.                                               *)
SlotSound(c) == holds[c] => loop[c] \in {"connect", "mark", "handshake", "closing"}

(* A callback runs only while its session does, so that nothing is online  *)
(* before or after it; and one callback at most has won the swap and has   *)
(* still to count the camera.                                              *)
OnlineSound(c) ==
    /\ \A r \in Readers[c] :
         /\ callback[c][r] # "online"
         /\ callback[c][r] # "idle" => loop[c] \in {"play", "wait", "closing"}
         /\ callback[c][r] = "won" => state[c] = "online"
    /\ \A r, s \in Readers[c] : callback[c][r] = "won" /\ callback[c][s] = "won" => r = s
    /\ state[c] = "online" => loop[c] \in {"play", "wait", "closing", "returned"}
    /\ announced[c] = "online" => state[c] = "online"
    /\ state[c] # "online" => gauge[c] = 0
    /\ state[c] = "online" /\ (\E r \in Readers[c] : callback[c][r] = "won") => gauge[c] = 0
    /\ state[c] = "online" /\ (\A r \in Readers[c] : callback[c][r] # "won") => gauge[c] = 1

(* The library client at every place of the loop, and what Close may read. *)
ClientSound(c) ==
    /\ loop[c] \in {"dial", "connect"} => lib[c] = "new" /\ startDone[c] = FALSE
    /\ loop[c] = "mark" => lib[c] = "started" /\ startDone[c] = FALSE
    /\ lib[c] = "started" => loop[c] \in {"mark", "handshake", "play", "wait"}
    /\ startDone[c] = TRUE => lib[c] \in {"started", "closed"}
    /\ stop[c] = "close" => startDone[c] = TRUE
    /\ lib[c] # "misused"
    /\ stop[c] = "done" => loop[c] = "exited"

IngestInv ==
    /\ Types
    /\ SlotsExact
    /\ \A c \in Cameras : SlotSound(c) /\ OnlineSound(c) /\ ClientSound(c)

LEMMA InitInv ==
    ASSUME FiniteSetFacts
    PROVE  Init => IngestInv
<1> SUFFICES ASSUME Init
             PROVE  IngestInv
  OBVIOUS
<1>1. Types
  BY SMTT(20) DEF Init, Types, LoopStates, InStart, States, StopStates
<1>2. SlotsExact
  <2>1. {c \in Cameras : holds[c]} = {}
    BY DEF Init
  <2>2. QED
    BY <2>1 DEF SlotsExact, Init, FiniteSetFacts
<1>3. \A c \in Cameras : SlotSound(c) /\ OnlineSound(c) /\ ClientSound(c)
  BY DEF Init, SlotSound, OnlineSound, ClientSound
<1>4. QED
  BY <1>1, <1>2, <1>3 DEF IngestInv

(* The slots stay counted when one is taken, ...                           *)
LEMMA SlotTaken ==
    ASSUME FiniteSetFacts, IngestInv, NEW c \in Cameras, ~holds[c],
           used' = used + 1, holds' = [holds EXCEPT ![c] = TRUE]
    PROVE  SlotsExact'
<1> DEFINE H == {d \in Cameras : holds[d]}
<1>1. IsFiniteSet(H) /\ c \notin H
  BY CamerasAssumption DEF FiniteSetFacts
<1>2. {d \in Cameras : holds'[d]} = H \cup {c}
  BY SMTT(20) DEF IngestInv, Types
<1>3. Cardinality(H \cup {c}) = Cardinality(H) + 1
  BY <1>1 DEF FiniteSetFacts
<1>4. QED
  BY <1>2, <1>3 DEF IngestInv, SlotsExact

(* ... and when releaseSemaphore gives it back, or has nothing to give.    *)
LEMMA SlotReleased ==
    ASSUME FiniteSetFacts, IngestInv, NEW c \in Cameras, Release(c)
    PROVE  SlotsExact' /\ holds' \in [Cameras -> BOOLEAN] /\ ~holds'[c]
<1> DEFINE H == {d \in Cameras : holds[d]}
<1>1. IsFiniteSet(H)
  BY CamerasAssumption DEF FiniteSetFacts
<1>2. {d \in Cameras : holds'[d]} = H \ {c}
  BY DEF IngestInv, Types, Release
<1>3. Cardinality(H \ {c}) = IF c \in H THEN Cardinality(H) - 1 ELSE Cardinality(H)
  BY <1>1 DEF FiniteSetFacts
<1>4. used' = IF c \in H THEN used - 1 ELSE used
  BY DEF Release
<1>5. SlotsExact'
  BY <1>2, <1>3, <1>4 DEF IngestInv, SlotsExact
<1>6. QED
  BY <1>5 DEF IngestInv, Types, Release

(* A step of one camera leaves the others as they were.                    *)
LEMMA OthersSound ==
    ASSUME NEW d \in Cameras, SlotSound(d), OnlineSound(d), ClientSound(d),
           loop'[d] = loop[d], startDone'[d] = startDone[d],
           lib'[d] = lib[d], holds'[d] = holds[d], state'[d] = state[d], gauge'[d] = gauge[d],
           announced'[d] = announced[d], callback'[d] = callback[d], stop'[d] = stop[d]
    PROVE  SlotSound(d)' /\ OnlineSound(d)' /\ ClientSound(d)'
BY SMTT(20) DEF SlotSound, OnlineSound, ClientSound

LEMMA SlotsUnchanged ==
    ASSUME IngestInv, UNCHANGED <<used, holds>>
    PROVE  SlotsExact'
BY DEF IngestInv, SlotsExact

(* One step of the loop of camera c.                                       *)
LEMMA RunKeepsInv ==
    ASSUME FiniteSetFacts, IngestInv, NEW c \in Cameras, Run(c)
    PROVE  IngestInv'
<1> USE DEF Go
<1>a. Types /\ SlotsExact /\ \A d \in Cameras : SlotSound(d) /\ OnlineSound(d) /\ ClientSound(d)
  BY DEF IngestInv
<1>b. UNCHANGED <<callback, stop>> /\ (UNCHANGED <<used, holds>> \/ Release(c) \/ Acquire(c))
  BY DEF Run, Synthetic, Top, NewClient, Acquire, Connect, ConnectFails, MarkStarted, Handshake, Play,
         GiveUp, StartReturns, WentOffline, Backoff, stopVars
<1>c. SlotsExact' /\ holds' \in [Cameras -> BOOLEAN]
  <2>1. CASE UNCHANGED <<used, holds>>
    BY <2>1, <1>a, SlotsUnchanged DEF Types
  <2>2. CASE Release(c)
    BY <2>2, SlotReleased
  <2>3. CASE Acquire(c)
    <3>1. ~holds[c]
      BY <2>3, <1>a DEF Acquire, SlotSound
    <3>2. QED
      BY <2>3, <3>1, <1>a, SlotTaken DEF Acquire, Types
  <2>4. QED
    BY <1>b, <2>1, <2>2, <2>3
<1>d. Types'
  <2>1. loop' \in [Cameras -> LoopStates]
    <3>1. \E to \in LoopStates : loop' = [loop EXCEPT ![c] = to]
      BY DEF LoopStates, InStart, Run, Synthetic, Top, NewClient, Acquire, Connect,
         ConnectFails, MarkStarted, Handshake, Play, GiveUp, StartReturns, WentOffline, Backoff
    <3>2. QED
      BY <3>1, <1>a, SMTT(20) DEF Types
  <2>2. closed' \in [Cameras -> BOOLEAN] /\ startDone' \in [Cameras -> BOOLEAN]
    BY <1>a DEF Types, Run, Synthetic, Top, NewClient, Acquire, Connect,
         ConnectFails, MarkStarted, Handshake, Play, GiveUp, StartReturns, WentOffline, Backoff
  <2>3. lib' \in [Cameras -> {"none", "new", "started", "closed", "misused"}]
    BY <1>a DEF Types, Run, Synthetic, Top, NewClient, Acquire, Connect,
         ConnectFails, MarkStarted, Handshake, Play, GiveUp, StartReturns, WentOffline, Backoff
  <2>4. /\ state' \in [Cameras -> States] /\ gauge' \in [Cameras -> Int]
        /\ announced' \in [Cameras -> {"nothing", "online", "offline"}]
    <3>1. WentOffline(c) \/ UNCHANGED <<state, gauge, announced>>
      BY DEF Run, Synthetic, Top, NewClient, Acquire, Connect,
         ConnectFails, MarkStarted, Handshake, Play, GiveUp, StartReturns, Backoff
    <3>2. CASE WentOffline(c)
      <4>1. /\ state' = [state EXCEPT ![c] = "offline"]
            /\ announced' = [announced EXCEPT ![c] = "offline"]
            /\ gauge' = [gauge EXCEPT ![c] = IF state[c] = "online" THEN gauge[c] - 1 ELSE gauge[c]]
        BY <3>2 DEF WentOffline
      <4>2. QED
        BY <4>1, <1>a, SMTT(20) DEF Types, States
    <3>3. CASE UNCHANGED <<state, gauge, announced>>
      BY <3>3, <1>a DEF Types
    <3>4. QED
      BY <3>1, <3>2, <3>3
  <2>5. QED
    BY <1>a, <1>b, <1>c, <2>1, <2>2, <2>3, <2>4 DEF Types
<1>e. ASSUME NEW d \in Cameras \ {c}
      PROVE  SlotSound(d)' /\ OnlineSound(d)' /\ ClientSound(d)'
  <2>1. /\ loop'[d] = loop[d] /\ startDone'[d] = startDone[d] /\ lib'[d] = lib[d]
        /\ state'[d] = state[d] /\ gauge'[d] = gauge[d] /\ announced'[d] = announced[d]
    BY <1>a, SMTT(20) DEF Types, Run, Synthetic, Top, NewClient, Acquire, Connect,
         ConnectFails, MarkStarted, Handshake, Play, GiveUp, StartReturns, WentOffline, Backoff
  <2>2. holds'[d] = holds[d]
    BY <1>a, <1>b DEF Types, Release, Acquire
  <2>3. QED
    BY <1>a, <1>b, <2>1, <2>2, OthersSound
<1>f. SlotSound(c)' /\ OnlineSound(c)' /\ ClientSound(c)'
  <2>1. CASE Synthetic(c)
    <3>1. SlotSound(c)'
      BY <2>1, <1>a DEF Synthetic, SlotSound, Types
    <3>2. OnlineSound(c)'
      BY <2>1, <1>a DEF Synthetic, OnlineSound, Types
    <3>3. ClientSound(c)'
      BY <2>1, <1>a DEF Synthetic, ClientSound, Types, stopVars
    <3>4. QED
      BY <3>1, <3>2, <3>3
  <2>2. CASE Top(c)
    <3>1. SlotSound(c)'
      BY <2>2, <1>a DEF Top, SlotSound, Types
    <3>2. OnlineSound(c)'
      BY <2>2, <1>a DEF Top, OnlineSound, Types
    <3>3. ClientSound(c)'
      BY <2>2, <1>a DEF Top, ClientSound, Types, stopVars
    <3>4. QED
      BY <3>1, <3>2, <3>3
  <2>3. CASE NewClient(c)
    <3>1. SlotSound(c)'
      BY <2>3, <1>a DEF NewClient, SlotSound, Types
    <3>2. OnlineSound(c)'
      BY <2>3, <1>a DEF NewClient, OnlineSound, Types
    <3>3. ClientSound(c)'
      BY <2>3, <1>a, SMTT(20) DEF NewClient, ClientSound, Types, stopVars
    <3>4. QED
      BY <3>1, <3>2, <3>3
  <2>4. CASE Acquire(c)
    <3>1. SlotSound(c)'
      BY <2>4, <1>a DEF Acquire, SlotSound, Types
    <3>2. OnlineSound(c)'
      BY <2>4, <1>a DEF Acquire, OnlineSound, Types
    <3>3. ClientSound(c)'
      BY <2>4, <1>a DEF Acquire, ClientSound, Types, stopVars
    <3>4. QED
      BY <3>1, <3>2, <3>3
  <2>5. CASE Connect(c)
    <3>1. SlotSound(c)'
      BY <2>5, <1>a DEF Connect, SlotSound, Types
    <3>2. OnlineSound(c)'
      BY <2>5, <1>a DEF Connect, OnlineSound, Types
    <3>3. ClientSound(c)'
      BY <2>5, <1>a DEF Connect, ClientSound, Types, stopVars
    <3>4. QED
      BY <3>1, <3>2, <3>3
  <2>6. CASE ConnectFails(c)
    <3>1. SlotSound(c)'
      BY <2>6, <1>a DEF ConnectFails, Release, SlotSound, Types
    <3>2. OnlineSound(c)'
      BY <2>6, <1>a DEF ConnectFails, Release, OnlineSound, Types
    <3>3. ClientSound(c)'
      BY <2>6, <1>a DEF ConnectFails, Release, ClientSound, Types, stopVars
    <3>4. QED
      BY <3>1, <3>2, <3>3
  <2>7. CASE MarkStarted(c)
    <3>1. SlotSound(c)'
      BY <2>7, <1>a DEF MarkStarted, SlotSound, Types
    <3>2. OnlineSound(c)'
      BY <2>7, <1>a DEF MarkStarted, OnlineSound, Types
    <3>3. ClientSound(c)'
      BY <2>7, <1>a DEF MarkStarted, ClientSound, Types, stopVars
    <3>4. QED
      BY <3>1, <3>2, <3>3
  <2>8. CASE Handshake(c)
    <3>1. SlotSound(c)'
      BY <2>8, <1>a DEF Handshake, Release, SlotSound, Types
    <3>2. OnlineSound(c)'
      BY <2>8, <1>a DEF Handshake, Release, OnlineSound, Types
    <3>3. ClientSound(c)'
      BY <2>8, <1>a DEF Handshake, Release, ClientSound, Types, stopVars
    <3>4. QED
      BY <3>1, <3>2, <3>3
  <2>9. CASE Play(c)
    <3>1. SlotSound(c)'
      BY <2>9, <1>a DEF Play, SlotSound, Types
    <3>2. OnlineSound(c)'
      BY <2>9, <1>a, SMTT(20) DEF Play, OnlineSound, Types
    <3>3. ClientSound(c)'
      BY <2>9, <1>a DEF Play, ClientSound, Types, stopVars
    <3>4. QED
      BY <3>1, <3>2, <3>3
  <2>10. CASE GiveUp(c)
    <3>1. SlotSound(c)'
      BY <2>10, <1>a DEF GiveUp, SlotSound, Types
    <3>2. OnlineSound(c)'
      BY <2>10, <1>a, SMTT(20) DEF GiveUp, OnlineSound, Types
    <3>3. ClientSound(c)'
      BY <2>10, <1>a, SMTT(20) DEF GiveUp, ClientSound, Types, stopVars
    <3>4. QED
      BY <3>1, <3>2, <3>3
  <2>11. CASE StartReturns(c)
    <3>1. SlotSound(c)'
      BY <2>11, <1>a DEF StartReturns, Release, CallbacksReturned, SlotSound, Types
    <3>2. OnlineSound(c)'
      BY <2>11, <1>a, SMTT(20) DEF StartReturns, Release, CallbacksReturned, OnlineSound, Types
    <3>3. ClientSound(c)'
      BY <2>11, <1>a DEF StartReturns, Release, CallbacksReturned, ClientSound, Types, stopVars
    <3>4. QED
      BY <3>1, <3>2, <3>3
  <2>12. CASE WentOffline(c)
    <3>1. SlotSound(c)'
      BY <2>12, <1>a DEF WentOffline, SlotSound, Types
    <3>2. OnlineSound(c)'
      BY <2>12, <1>a, SMTT(20) DEF WentOffline, OnlineSound, Types
    <3>3. ClientSound(c)'
      BY <2>12, <1>a DEF WentOffline, ClientSound, Types, stopVars
    <3>4. QED
      BY <3>1, <3>2, <3>3
  <2>13. CASE Backoff(c)
    <3>1. SlotSound(c)'
      BY <2>13, <1>a DEF Backoff, SlotSound, Types
    <3>2. OnlineSound(c)'
      BY <2>13, <1>a DEF Backoff, OnlineSound, Types
    <3>3. ClientSound(c)'
      BY <2>13, <1>a, SMTT(20) DEF Backoff, ClientSound, Types, stopVars
    <3>4. QED
      BY <3>1, <3>2, <3>3
  <2>14. QED
    BY <2>1, <2>2, <2>3, <2>4, <2>5, <2>6, <2>7, <2>8, <2>9, <2>10, <2>11, <2>12, <2>13 DEF Run
<1>g. QED
  BY <1>c, <1>d, <1>e, <1>f DEF IngestInv

(* One step of a frame callback of camera c.                               *)
LEMMA CallbackKeepsInv ==
    ASSUME IngestInv, NEW c \in Cameras, NEW r \in Readers[c], Callback(c, r)
    PROVE  IngestInv'
<1> USE DEF SetCallback
<1>a. Types /\ SlotsExact /\ \A d \in Cameras : SlotSound(d) /\ OnlineSound(d) /\ ClientSound(d)
  BY DEF IngestInv
<1>b. UNCHANGED <<loop, closed, startDone, used, holds, lib, stop>>
  BY DEF Callback, OnFrame, SwapState, CameOnline, loopVars, stopVars
<1>c. PICK pc \in States \cup {"idle", "won"} : callback' = [callback EXCEPT ![c][r] = pc]
  BY <1>a DEF Callback, OnFrame, SwapState, CameOnline, Types, States
<1>d. /\ callback' = [d \in Cameras |-> callback'[d]]
      /\ \A d \in Cameras \ {c} : callback'[d] = callback[d]
      /\ callback'[c] = [callback[c] EXCEPT ![r] = pc]
      /\ callback[c] \in [Readers[c] -> States \cup {"idle", "won"}]
  BY <1>a, <1>c DEF Types
<1>e. /\ callback'[c][r] = pc
      /\ \A s \in Readers[c] \ {r} : callback'[c][s] = callback[c][s]
      /\ callback'[c] \in [Readers[c] -> States \cup {"idle", "won"}]
  BY <1>d
<1>f. /\ state' \in [Cameras -> States] /\ gauge' \in [Cameras -> Int]
      /\ announced' \in [Cameras -> {"nothing", "online", "offline"}]
      /\ \A d \in Cameras \ {c} :
            state'[d] = state[d] /\ gauge'[d] = gauge[d] /\ announced'[d] = announced[d]
  BY <1>a, SMTT(20) DEF Callback, OnFrame, SwapState, CameOnline, Types, States
<1>g. Types'
  BY <1>a, <1>b, <1>d, <1>e, <1>f DEF Types
<1>h. ASSUME NEW d \in Cameras \ {c}
      PROVE  SlotSound(d)' /\ OnlineSound(d)' /\ ClientSound(d)'
  BY <1>a, <1>b, <1>d, <1>f, OthersSound
<1>i. SlotSound(c)' /\ ClientSound(c)'
  BY <1>a, <1>b DEF SlotSound, ClientSound
<1>j. OnlineSound(c)'
  <2>1. CASE OnFrame(c, r)
    <3>1. callback'[c][r] \in {"connecting", "offline"} /\ loop[c] \in {"play", "wait"}
      BY <2>1, <1>a, <1>d DEF OnFrame, Types, States
    <3>2. UNCHANGED <<state, gauge, announced>> /\ callback[c][r] = "idle"
      BY <2>1 DEF OnFrame
    <3>3. QED
      BY <3>1, <3>2, <1>a, <1>b, <1>e, SMTT(20) DEF OnlineSound
  <2>2. CASE SwapState(c, r) /\ state[c] = callback[c][r]
    <3>1. /\ callback'[c][r] = "won" /\ state'[c] = "online" /\ UNCHANGED <<gauge, announced>>
          /\ callback[c][r] \in States
      BY <2>2, <1>a, <1>d, SMTT(20) DEF SwapState, Types
    <3>2. /\ state[c] # "online" /\ gauge[c] = 0 /\ loop[c] \in {"play", "wait", "closing"}
          /\ \A s \in Readers[c] : callback[c][s] # "won"
      BY <2>2, <3>1, <1>a, SMTT(20) DEF OnlineSound, States
    <3>3. QED
      BY <3>1, <3>2, <1>a, <1>b, <1>e, SMTT(20) DEF OnlineSound
  <2>3. CASE SwapState(c, r) /\ state[c] # callback[c][r]
    <3>1. /\ callback'[c][r] = "idle" /\ UNCHANGED <<state, gauge, announced>>
          /\ callback[c][r] # "won"
      BY <2>3, <1>a, <1>d, SMTT(20) DEF SwapState, Types, States
    <3>2. QED
      BY <3>1, <1>a, <1>b, <1>e, SMTT(20) DEF OnlineSound
  <2>4. CASE CameOnline(c, r)
    <3>1. /\ callback[c][r] = "won" /\ callback'[c][r] = "idle" /\ UNCHANGED state
          /\ gauge'[c] = gauge[c] + 1 /\ announced'[c] = "online"
      BY <2>4, <1>a, <1>d DEF CameOnline, Types
    <3>2. state[c] = "online" /\ gauge[c] = 0 /\ \A s \in Readers[c] \ {r} : callback[c][s] # "won"
      BY <3>1, <1>a, SMTT(20) DEF OnlineSound
    <3>3. QED
      BY <3>1, <3>2, <1>a, <1>b, <1>e, SMTT(20) DEF OnlineSound
  <2>5. QED
    BY <2>1, <2>2, <2>3, <2>4 DEF Callback
<1>k. QED
  BY <1>a, <1>b, <1>g, <1>h, <1>i, <1>j, SlotsUnchanged DEF IngestInv

(* One step of Stop of camera c.                                           *)
LEMMA StopKeepsInv ==
    ASSUME IngestInv, NEW c \in Cameras, StopCancel(c) \/ Stop(c)
    PROVE  IngestInv'
<1> USE DEF StopGo
<1>a. Types /\ SlotsExact /\ \A d \in Cameras : SlotSound(d) /\ OnlineSound(d) /\ ClientSound(d)
  BY DEF IngestInv
<1>b. UNCHANGED <<loop, startDone, used, holds, state, gauge, announced, callback>>
  BY DEF StopCancel, Stop, CloseClient, CloseLibrary, CloseReturns, StopConsumers, StopReturns, loopVars
<1>c. \E to \in StopStates : stop' = [stop EXCEPT ![c] = to]
  BY DEF StopStates, StopCancel, Stop, CloseClient, CloseLibrary, CloseReturns, StopConsumers, StopReturns
<1>d. closed' \in [Cameras -> BOOLEAN]
  BY <1>a DEF Types, StopCancel, Stop, CloseClient, CloseLibrary, CloseReturns, StopConsumers,
              StopReturns, loopVars
<1>e. /\ lib' \in [Cameras -> {"none", "new", "started", "closed", "misused"}]
      /\ \A d \in Cameras \ {c} : lib'[d] = lib[d]
  BY <1>a DEF Types, StopCancel, Stop, CloseClient, CloseLibrary, CloseReturns, StopConsumers, StopReturns
<1>f. Types' /\ \A d \in Cameras \ {c} : stop'[d] = stop[d]
  <2>1. stop' \in [Cameras -> StopStates] /\ \A d \in Cameras \ {c} : stop'[d] = stop[d]
    BY <1>a, <1>c, SMTT(20) DEF Types
  <2>2. QED
    BY <2>1, <1>a, <1>b, <1>d, <1>e DEF Types
<1>g. ASSUME NEW d \in Cameras \ {c}
      PROVE  SlotSound(d)' /\ OnlineSound(d)' /\ ClientSound(d)'
  BY <1>a, <1>b, <1>e, <1>f, OthersSound
<1>h. SlotSound(c)' /\ OnlineSound(c)'
  BY <1>a, <1>b DEF SlotSound, OnlineSound
<1>i. ClientSound(c)'
  <2>1. CASE CloseLibrary(c)
    BY <2>1, <1>a, <1>b, SMTT(20) DEF CloseLibrary, ClientSound, Types
  <2>2. CASE CloseClient(c)
    BY <2>2, <1>a, <1>b, SMTT(20) DEF CloseClient, ClientSound, Types
  <2>3. CASE StopCancel(c) \/ CloseReturns(c) \/ StopConsumers(c) \/ StopReturns(c)
    BY <2>3, <1>a, <1>b, SMTT(20) DEF StopCancel, CloseReturns, StopConsumers, StopReturns, ClientSound, Types
  <2>4. QED
    BY <2>1, <2>2, <2>3 DEF Stop
<1>j. QED
  BY <1>a, <1>b, <1>f, <1>g, <1>h, <1>i, SlotsUnchanged DEF IngestInv

LEMMA NextInv ==
    ASSUME FiniteSetFacts
    PROVE  IngestInv /\ [Next]_vars => IngestInv'
<1> SUFFICES ASSUME IngestInv, [Next]_vars
             PROVE  IngestInv'
  OBVIOUS
<1>1. CASE UNCHANGED vars
  BY <1>1, SMTT(20) DEF vars, loopVars, stopVars, IngestInv, Types, SlotsExact, SlotSound, OnlineSound, ClientSound
<1>2. CASE Next
  BY <1>1, <1>2, RunKeepsInv, CallbackKeepsInv, StopKeepsInv DEF Next, Terminated
<1>3. QED
  BY <1>1, <1>2

----------------------------------------------------------------------------
(* The connections: every step is one of Connections or changes nothing    *)
(* that it speaks of.                                                      *)

Dialling == {c \in Cameras : holds[c]}
Live == {c \in Cameras : gauge[c] = 1}
Stopped == {c \in Cameras : stop[c] = "done"}

(* A camera that holds a slot is not online, and nothing is about to bring *)
(* it online.                                                              *)
Apart == \A c \in Cameras : holds[c] => state[c] # "online" /\ CallbacksReturned(c)

(* The order of the two parts of a session.                                *)
LEMMA ApartStep ==
    ASSUME IngestInv, Apart, [Next]_vars
    PROVE  Apart'
<1> USE DEF IngestInv, Types, Apart, CallbacksReturned
<1>1. ASSUME NEW c \in Cameras, Run(c) PROVE Apart'
  <2> USE <1>1 DEF Go
  <2>1. UNCHANGED callback /\ (state' = state \/ state' = [state EXCEPT ![c] = "offline"])
    BY DEF Run, Synthetic, Top, NewClient, Acquire, Connect, ConnectFails, MarkStarted, Handshake, Play,
           GiveUp, StartReturns, WentOffline, Backoff
  <2>2. UNCHANGED holds \/ Release(c) \/ Acquire(c)
    BY DEF Run, Synthetic, Top, NewClient, Acquire, Connect, ConnectFails, MarkStarted, Handshake, Play,
           GiveUp, StartReturns, WentOffline, Backoff
  <2>3. \A d \in Cameras : state'[d] = "online" => state[d] = "online"
    BY <2>1
  <2>4. CASE UNCHANGED holds
    BY <2>1, <2>3, <2>4
  <2>5. CASE Release(c)
    <3>1. \A d \in Cameras : holds'[d] => holds[d]
      BY <2>5 DEF Release
    <3> QED BY <2>1, <2>3, <3>1
  <2>6. CASE Acquire(c)
    <3>1. state[c] # "online" /\ CallbacksReturned(c)
      BY <2>6 DEF Acquire, OnlineSound
    <3>2. \A d \in Cameras : d # c => holds'[d] = holds[d]
      BY <2>6 DEF Acquire
    <3> QED BY <2>1, <2>3, <3>1, <3>2
  <2> QED BY <2>2, <2>4, <2>5, <2>6
<1>2. ASSUME NEW c \in Cameras, NEW r \in Readers[c], Callback(c, r) PROVE Apart'
  <2>1. ~holds[c]
    <3>1. CASE OnFrame(c, r)
      BY <3>1 DEF OnFrame, SlotSound
    <3>2. CASE SwapState(c, r) \/ CameOnline(c, r)
      BY <3>2 DEF SwapState, CameOnline, States
    <3> QED BY <1>2, <3>1, <3>2 DEF Callback
  <2>2. UNCHANGED holds
    BY <1>2 DEF Callback, OnFrame, SwapState, CameOnline, loopVars
  <2>3. \E pc : callback' = [callback EXCEPT ![c][r] = pc]
    BY <1>2 DEF Callback, OnFrame, SwapState, CameOnline, SetCallback
  <2>4. state' = state \/ state' = [state EXCEPT ![c] = "online"]
    BY <1>2 DEF Callback, OnFrame, SwapState, CameOnline
  <2>5. ASSUME NEW d \in Cameras, holds'[d] PROVE state'[d] # "online" /\ CallbacksReturned(d)'
    <3>1. holds[d] /\ d # c
      BY <2>1, <2>2, <2>5
    <3>2. callback'[d] = callback[d]
      BY <2>3, <3>1
    <3>3. state'[d] = state[d]
      BY <2>4, <3>1, SMTT(20)
    <3> QED BY <3>1, <3>2, <3>3, SMTT(20)
  <2> QED BY <2>5
<1>3. ASSUME NEW c \in Cameras, StopCancel(c) \/ Stop(c) PROVE Apart'
  <2>1. UNCHANGED <<holds, state, callback>>
    BY <1>3 DEF StopCancel, Stop, CloseClient, CloseLibrary, CloseReturns, StopConsumers, StopReturns,
                loopVars
  <2> QED BY <2>1
<1>4. CASE UNCHANGED vars
  BY <1>4 DEF vars, loopVars
<1> QED BY <1>1, <1>2, <1>3, <1>4 DEF Next, Terminated

(* What a step of the loop does to the connections.                        *)
LEMMA RunRefines ==
    ASSUME IngestInv, NEW c \in Cameras, Run(c)
    PROVE  [Promise!Next]_(Promise!connectionVars)
<1> USE DEF IngestInv, Types, Go, Promise!connectionVars
<1>1. UNCHANGED stop
  BY DEF Run, Synthetic, Top, NewClient, Acquire, Connect, ConnectFails, MarkStarted, Handshake, Play,
         GiveUp, StartReturns, WentOffline, Backoff, stopVars
<1>2. CASE Acquire(c)
  <2>1. c \notin Dialling \cup Live \cup Stopped
    BY <1>2, SMTT(20) DEF Acquire, SlotSound, OnlineSound, ClientSound, Dialling, Live, Stopped
  <2>2. Cardinality(Dialling) < DialSlots
    BY <1>2 DEF Acquire, SlotsExact, Dialling
  <2>3. Dialling' = Dialling \cup {c} /\ UNCHANGED <<Live, announced, Stopped>>
    BY <1>1, <1>2 DEF Acquire, Dialling, Live, Stopped
  <2>4. Promise!Cardinality(Dialling) = Cardinality(Dialling)
    BY DEF Promise!Cardinality, Cardinality
  <2>5. Promise!Dial(c)
    BY <2>1, <2>2, <2>3, <2>4 DEF Promise!Dial, Dialling, Live, Stopped
  <2> QED BY <2>5 DEF Promise!Next
<1>3. CASE Release(c) /\ UNCHANGED <<gauge, announced>>
  <2>1. Dialling' = Dialling \ {c} /\ UNCHANGED <<Live, announced, Stopped>>
    BY <1>1, <1>3 DEF Release, Dialling, Live, Stopped
  <2>2. CASE c \in Dialling
    <3>1. Promise!Dialled(c)
      BY <2>1, <2>2 DEF Promise!Dialled, Dialling, Live, Stopped
    <3> QED BY <3>1 DEF Promise!Next
  <2>3. CASE c \notin Dialling
    <3>1. UNCHANGED Dialling
      BY <2>1, <2>3
    <3> QED BY <2>1, <3>1 DEF Dialling, Live, Stopped
  <2> QED BY <2>2, <2>3
<1>4. CASE WentOffline(c)
  <2>1. c \notin Dialling \cup Stopped
    BY <1>4 DEF WentOffline, SlotSound, ClientSound, Dialling, Stopped
  <2>2. gauge'[c] = 0
    <3>1. gauge'[c] = IF state[c] = "online" THEN gauge[c] - 1 ELSE gauge[c]
      BY <1>4 DEF WentOffline
    <3>2. \A r \in Readers[c] : callback[c][r] = "idle"
      BY <1>4 DEF WentOffline, OnlineSound
    <3>3. gauge[c] = IF state[c] = "online" THEN 1 ELSE 0
      BY <3>2 DEF OnlineSound
    <3> QED BY <3>1, <3>3, SMTT(20)
  <2>3. Live' = Live \ {c}
    <3>1. \A d \in Cameras : d # c => gauge'[d] = gauge[d]
      BY <1>4 DEF WentOffline
    <3>2. gauge'[c] # 1
      BY <2>2, SMTT(20)
    <3> QED BY <3>1, <3>2 DEF Live
  <2>4. UNCHANGED <<Dialling, Stopped>> /\ announced' = [announced EXCEPT ![c] = "offline"]
    BY <1>1, <1>4 DEF WentOffline, Dialling, Stopped
  <2>5. Promise!GoOffline(c)
    BY <2>1, <2>3, <2>4 DEF Promise!GoOffline, Dialling, Live, Stopped
  <2> QED BY <2>5 DEF Promise!Next
<1>5. CASE UNCHANGED <<holds, gauge, announced>>
  BY <1>1, <1>5
<1> QED BY <1>2, <1>3, <1>4, <1>5
        DEF Run, Synthetic, Top, NewClient, Connect, ConnectFails, MarkStarted, Handshake, Play,
            GiveUp, StartReturns, Backoff

(* What a frame callback does to them.                                     *)
LEMMA CallbackRefines ==
    ASSUME IngestInv, Apart, NEW c \in Cameras, NEW r \in Readers[c], Callback(c, r)
    PROVE  [Promise!Next]_(Promise!connectionVars)
<1> USE DEF IngestInv, Types, Promise!connectionVars
<1>1. UNCHANGED <<holds, stop>>
  BY DEF Callback, OnFrame, SwapState, CameOnline, loopVars, stopVars
<1>2. CASE CameOnline(c, r)
  <2>1. callback[c][r] = "won"
    BY <1>2 DEF CameOnline
  <2>2. ~holds[c] /\ stop[c] # "done"
    BY <2>1 DEF Apart, CallbacksReturned, OnlineSound, ClientSound
  <2>3. gauge[c] = 0
    BY <2>1, SMTT(20) DEF OnlineSound
  <2>4. gauge' = [gauge EXCEPT ![c] = 1]
    BY <1>2, <2>3, SMTT(20) DEF CameOnline
  <2>5. c \notin Dialling \cup Live \cup Stopped
    BY <2>2, <2>3, SMTT(20) DEF Dialling, Live, Stopped
  <2>6. Live' = Live \cup {c}
    BY <2>4 DEF Live
  <2>7. UNCHANGED <<Dialling, Stopped>> /\ announced' = [announced EXCEPT ![c] = "online"]
    BY <1>1, <1>2 DEF CameOnline, Dialling, Stopped
  <2>8. Promise!ComeOnline(c)
    BY <2>5, <2>6, <2>7 DEF Promise!ComeOnline, Dialling, Live, Stopped
  <2> QED BY <2>8 DEF Promise!Next
<1>3. CASE OnFrame(c, r) \/ SwapState(c, r)
  BY <1>1, <1>3 DEF OnFrame, SwapState
<1> QED BY <1>2, <1>3 DEF Callback

(* What Stop does to them.                                                 *)
LEMMA StopRefines ==
    ASSUME IngestInv, NEW c \in Cameras, StopCancel(c) \/ Stop(c)
    PROVE  [Promise!Next]_(Promise!connectionVars)
<1> USE DEF IngestInv, Types, StopGo, Promise!connectionVars
<1>1. UNCHANGED <<holds, gauge, announced>>
  BY DEF StopCancel, Stop, CloseClient, CloseLibrary, CloseReturns, StopConsumers, StopReturns, loopVars
<1>2. CASE StopReturns(c)
  <2>1. c \notin Dialling \cup Live \cup Stopped
    BY <1>2, SMTT(20) DEF StopReturns, SlotSound, OnlineSound, Dialling, Live, Stopped
  <2>2. Stopped' = Stopped \cup {c} /\ UNCHANGED <<Dialling, Live, announced>>
    BY <1>1, <1>2 DEF StopReturns, Dialling, Live, Stopped
  <2>3. Promise!Stop(c)
    BY <2>1, <2>2 DEF Promise!Stop, Dialling, Live, Stopped
  <2> QED BY <2>3 DEF Promise!Next
<1>3. CASE StopCancel(c) \/ CloseClient(c) \/ CloseLibrary(c) \/ CloseReturns(c) \/ StopConsumers(c)
  <2>1. stop[c] # "done" /\ stop'[c] # "done" /\ \A d \in Cameras : d # c => stop'[d] = stop[d]
    BY <1>3 DEF StopCancel, CloseClient, CloseLibrary, CloseReturns, StopConsumers
  <2>2. UNCHANGED Stopped
    BY <2>1 DEF Stopped
  <2> QED BY <1>1, <2>2 DEF Stopped
<1> QED BY <1>2, <1>3 DEF Stop

LEMMA ConnectionsStep ==
    ASSUME IngestInv, Apart, [Next]_vars
    PROVE  [Promise!Next]_(Promise!connectionVars)
<1>1. CASE UNCHANGED vars
  BY <1>1 DEF vars, loopVars, stopVars, Promise!connectionVars
<1> QED BY <1>1, RunRefines, CallbackRefines, StopRefines DEF Next, Terminated

----------------------------------------------------------------------------
(* The cache of file indexes.                                              *)

Entry == Names \X SUBSET Nat
Contents(c) == {c[i] : i \in DOMAIN c}
Once(c) == \A i, j \in DOMAIN c : c[i][1] = c[j][1] => i = j
CacheSound(c) == c \in Seq(Entry) /\ Len(c) <= Capacity /\ Once(c)

CutOut(c, k) == SubSeq(c, 1, k - 1) \o SubSeq(c, k + 1, Len(c))

(* A cache without the entry at a position.                                *)
LEMMA WithoutPosition ==
    ASSUME NEW c \in Seq(Entry), Once(c), NEW k \in DOMAIN c
    PROVE  /\ CutOut(c, k) \in Seq(Entry)
           /\ Len(CutOut(c, k)) = Len(c) - 1
           /\ Once(CutOut(c, k))
           /\ Contents(CutOut(c, k)) = {e \in Contents(c) : e[1] # c[k][1]}
<1> DEFINE n == Len(c)
           d == CutOut(c, k)
<1>1. n \in Nat /\ DOMAIN c = 1..n /\ k \in 1..n
  BY SMTT(20)
<1>2. /\ SubSeq(c, 1, k - 1) \in Seq(Entry) /\ Len(SubSeq(c, 1, k - 1)) = k - 1
      /\ \A i \in 1..(k - 1) : SubSeq(c, 1, k - 1)[i] = c[i]
  <2>1. \A i \in 1..(k - 1) : c[i] \in Entry
    BY <1>1, SMTT(20)
  <2> QED BY <1>1, <2>1, SMTT(20)
<1>3. /\ SubSeq(c, k + 1, n) \in Seq(Entry) /\ Len(SubSeq(c, k + 1, n)) = n - k
      /\ \A i \in 1..(n - k) : SubSeq(c, k + 1, n)[i] = c[k + i]
  <2>1. \A i \in (k + 1)..n : c[i] \in Entry
    BY <1>1, SMTT(20)
  <2> QED BY <1>1, <2>1, SMTT(20)
<1>4. /\ d \in Seq(Entry) /\ Len(d) = n - 1 /\ DOMAIN d = 1..(n - 1)
      /\ \A i \in 1..(n - 1) : d[i] = IF i < k THEN c[i] ELSE c[i + 1]
  <2>1. PICK a, b : a = SubSeq(c, 1, k - 1) /\ b = SubSeq(c, k + 1, n)
    OBVIOUS
  <2>2. /\ a \in Seq(Entry) /\ Len(a) = k - 1 /\ \A i \in 1..(k - 1) : a[i] = c[i]
        /\ b \in Seq(Entry) /\ Len(b) = n - k /\ \A i \in 1..(n - k) : b[i] = c[k + i]
    BY <1>2, <1>3, <2>1
  <2>3. d = a \o b
    BY <2>1 DEF CutOut
  <2> HIDE DEF n, d
  <2>4. /\ d \in Seq(Entry) /\ Len(d) = Len(a) + Len(b) /\ DOMAIN d = 1..(Len(a) + Len(b))
        /\ \A i \in 1..(Len(a) + Len(b)) : d[i] = IF i <= Len(a) THEN a[i] ELSE b[i - Len(a)]
    BY <2>2, <2>3, SMTT(20)
  <2>5. Len(a) + Len(b) = n - 1
    BY <1>1, <2>2, SMTT(20)
  <2>6. ASSUME NEW i \in 1..(n - 1) PROVE d[i] = IF i < k THEN c[i] ELSE c[i + 1]
    <3>1. CASE i < k
      BY <1>1, <2>2, <2>4, <2>5, <3>1, SMTT(20)
    <3>2. CASE ~(i < k)
      <4>1. i - (k - 1) \in 1..(n - k) /\ ~(i <= k - 1) /\ k + (i - (k - 1)) = i + 1
        BY <1>1, <3>2, SMTT(20)
      <4>2. d[i] = b[i - (k - 1)]
        BY <2>2, <2>4, <2>5, <4>1
      <4> QED BY <2>2, <3>2, <4>1, <4>2
    <3> QED BY <3>1, <3>2
  <2> QED BY <1>1, <2>4, <2>5, <2>6
<1> HIDE DEF n, d
<1>o. PICK old \in [1..(n - 1) -> 1..n] :
         /\ \A i \in 1..(n - 1) : d[i] = c[old[i]] /\ old[i] # k
         /\ \A i, j \in 1..(n - 1) : old[i] = old[j] => i = j
  <2> DEFINE o == [i \in 1..(n - 1) |-> IF i < k THEN i ELSE i + 1]
  <2>1. /\ o \in [1..(n - 1) -> 1..n] /\ \A i \in 1..(n - 1) : o[i] # k
        /\ \A i, j \in 1..(n - 1) : o[i] = o[j] => i = j
    BY <1>1, SMTT(20)
  <2>2. \A i \in 1..(n - 1) : d[i] = c[o[i]]
    BY <1>4
  <2> HIDE DEF o
  <2> QED BY <2>1, <2>2
<1>5. Once(d)
  BY <1>1, <1>4, <1>o, SMTT(20) DEF Once
<1>6. \A i \in 1..(n - 1) : d[i] \in Contents(c) /\ d[i][1] # c[k][1]
  BY <1>1, <1>o, SMTT(20) DEF Once, Contents
<1>7. ASSUME NEW j \in 1..n, c[j][1] # c[k][1] PROVE c[j] \in Contents(d)
  <2>1. CASE j < k
    BY <1>1, <1>4, <2>1, SMTT(20) DEF Contents
  <2>2. CASE j > k
    <3>1. j - 1 \in 1..(n - 1) /\ d[j - 1] = c[j]
      BY <1>1, <1>4, <2>2, SMTT(20)
    <3> QED BY <1>4, <3>1 DEF Contents
  <2>3. j # k
    BY <1>7
  <2> QED BY <1>1, <2>1, <2>2, <2>3, SMTT(20)
<1>8. Contents(d) = {e \in Contents(c) : e[1] # c[k][1]}
  <2>1. \A e \in Contents(d) : e \in Contents(c) /\ e[1] # c[k][1]
    BY <1>4, <1>6, SMTT(20) DEF Contents
  <2>2. \A e \in Contents(c) : e[1] # c[k][1] => e \in Contents(d)
    <3>1. \A e \in Contents(c) : \E j \in 1..n : e = c[j]
      BY <1>1 DEF Contents
    <3> QED BY <1>7, <3>1, SMTT(20)
  <2> QED BY <2>1, <2>2
<1> QED BY <1>4, <1>5, <1>8 DEF n, d

LEMMA WithoutName ==
    ASSUME CacheSound(cache), NEW name
    PROVE  /\ CacheSound(WithoutIndex(name))
           /\ Contents(WithoutIndex(name)) = {e \in Contents(cache) : e[1] # name}
           /\ Position(name) # {} => Len(WithoutIndex(name)) < Capacity
<1>1. CASE Position(name) = {}
  BY <1>1 DEF WithoutIndex, Position, Contents
<1>2. CASE Position(name) # {}
  <2>1. PICK k \in Position(name) : WithoutIndex(name) = CutOut(cache, k)
    <3>1. PICK k : k = CHOOSE j \in Position(name) : TRUE
      OBVIOUS
    <3>2. k \in Position(name)
      BY <1>2, <3>1
    <3>3. WithoutIndex(name) = CutOut(cache, k)
      BY <1>2, <3>1 DEF WithoutIndex, CutOut
    <3> QED BY <3>2, <3>3
  <2>2. k \in DOMAIN cache /\ cache[k][1] = name
    BY DEF Position
  <2>3. Capacity \in Nat /\ Len(cache) \in Nat
    BY ArchiveAssumption, SMTT(20) DEF CacheSound
  <2> QED BY <2>1, <2>2, <2>3, WithoutPosition, SMTT(20) DEF CacheSound
<1> QED BY <1>1, <1>2

(* A cache with an entry more, in front.                                   *)
LEMMA WithFront ==
    ASSUME NEW c, CacheSound(c), Len(c) < Capacity, NEW x \in Entry,
           \A e \in Contents(c) : e[1] # x[1]
    PROVE  CacheSound(<<x>> \o c) /\ Contents(<<x>> \o c) = {x} \cup Contents(c)
<1> DEFINE n == Len(c)
           d == <<x>> \o c
<1>1. /\ n \in Nat /\ DOMAIN c = 1..n /\ Capacity \in Nat /\ c \in Seq(Entry)
      /\ <<x>> \in Seq(Entry) /\ Len(<<x>>) = 1
  BY ArchiveAssumption, SMTT(20) DEF CacheSound
<1>2. /\ d \in Seq(Entry) /\ Len(d) = n + 1 /\ DOMAIN d = 1..(n + 1)
      /\ d[1] = x /\ \A i \in 2..(n + 1) : d[i] = c[i - 1] /\ i - 1 \in 1..n
  BY <1>1, SMTT(20)
<1> HIDE DEF n, d
<1>3. \A i \in 1..n : i + 1 \in 2..(n + 1) /\ d[i + 1] = c[i]
  BY <1>1, <1>2, SMTT(20)
<1>4. Contents(d) = {x} \cup Contents(c)
  <2>1. Contents(d) \subseteq {x} \cup Contents(c)
    <3>1. \A i \in 1..(n + 1) : i = 1 \/ i \in 2..(n + 1)
      BY <1>1, SMTT(20)
    <3> QED BY <1>1, <1>2, <3>1 DEF Contents
  <2>2. Contents(c) \subseteq Contents(d)
    <3>1. \A i \in 1..n : \E j \in 1..(n + 1) : d[j] = c[i]
      BY <1>1, <1>3, SMTT(20)
    <3>2. DOMAIN c = 1..n /\ DOMAIN d = 1..(n + 1)
      BY <1>1, <1>2
    <3> QED BY <3>1, <3>2, SMTT(20) DEF Contents
  <2>3. x \in Contents(d)
    BY <1>1, <1>2, SMTT(20) DEF Contents
  <2> QED BY <2>1, <2>2, <2>3
<1>5. Once(d)
  <2>1. ASSUME NEW i \in 1..(n + 1), NEW j \in 1..(n + 1), d[i][1] = d[j][1] PROVE i = j
    <3>1. \A k \in 2..(n + 1) : d[k][1] # x[1]
      BY <1>1, <1>2 DEF Contents
    <3>2. CASE i = 1 \/ j = 1
      BY <1>1, <1>2, <2>1, <3>1, <3>2, SMTT(20)
    <3>3. CASE i # 1 /\ j # 1
      <4>1. i - 1 \in 1..n /\ j - 1 \in 1..n /\ c[i - 1][1] = c[j - 1][1]
        BY <1>1, <1>2, <2>1, <3>3, SMTT(20)
      <4>2. i - 1 = j - 1
        BY <1>1, <4>1 DEF CacheSound, Once
      <4> QED BY <4>2, SMTT(20)
    <3> QED BY <3>2, <3>3
  <2> QED BY <1>2, <2>1 DEF Once
<1>6. n + 1 <= Capacity
  BY <1>1, SMTT(20) DEF n
<1> QED BY <1>2, <1>4, <1>5, <1>6 DEF CacheSound, n, d

(* Get and Add: the entry is in front, no other has its name, and the      *)
(* others were there before.                                               *)
LEMMA TouchedCache ==
    ASSUME CacheSound(cache), NEW name, NEW idx, <<name, idx>> \in Entry, Position(name) # {}
    PROVE  /\ CacheSound(Touched(name, idx))
           /\ Contents(Touched(name, idx))
                = {<<name, idx>>} \cup {e \in Contents(cache) : e[1] # name}
<1> DEFINE x == <<name, idx>>
<1>1. x[1] = name
  OBVIOUS
<1> HIDE DEF x
<1>2. Touched(name, idx) = <<x>> \o WithoutIndex(name) /\ x \in Entry
  BY DEF Touched, x
<1> QED BY <1>1, <1>2, WithoutName, WithFront DEF x

LEMMA AddedCache ==
    ASSUME CacheSound(cache), NEW name, NEW idx, <<name, idx>> \in Entry
    PROVE  /\ CacheSound(Added(name, idx))
           /\ Contents(Added(name, idx))
                \subseteq {<<name, idx>>} \cup {e \in Contents(cache) : e[1] # name}
<1> DEFINE x == <<name, idx>>
<1>1. x[1] = name /\ x \in Entry
  OBVIOUS
<1>2. Cached(name) = {} <=> Position(name) = {}
  BY DEF Cached
<1>3. CASE Position(name) # {}
  BY <1>2, <1>3, TouchedCache DEF Added
<1>4. CASE Position(name) = {}
  <2>1. PICK c : c = IF Len(cache) < Capacity THEN cache ELSE SubSeq(cache, 1, Capacity - 1)
    OBVIOUS
  <2>2. Added(name, idx) = <<x>> \o c
    BY <1>2, <1>4, <2>1 DEF Added
  <2>3. Len(cache) \in Nat /\ Capacity \in Nat \ {0} /\ Len(cache) <= Capacity
        /\ DOMAIN cache = 1..Len(cache) /\ cache \in Seq(Entry) /\ Once(cache)
    BY ArchiveAssumption, SMTT(20) DEF CacheSound
  <2>4. CacheSound(c) /\ Len(c) < Capacity /\ Contents(c) \subseteq Contents(cache)
    <3>1. CASE Len(cache) < Capacity
      BY <2>1, <2>3, <3>1 DEF CacheSound
    <3>2. CASE ~(Len(cache) < Capacity)
      <4>1. Len(cache) = Capacity /\ \A i \in 1..(Capacity - 1) : i \in 1..Len(cache)
        <5>1. Len(cache) \in Nat /\ Capacity \in Nat /\ Len(cache) <= Capacity
          BY <2>3
        <5> QED BY <3>2, <5>1, SMTT(20)
      <4>2. /\ c \in Seq(Entry) /\ Len(c) = Capacity - 1 /\ DOMAIN c = 1..(Capacity - 1)
            /\ \A i \in 1..(Capacity - 1) : c[i] = cache[i]
        <5>1. \A i \in 1..(Capacity - 1) : cache[i] \in Entry
          BY <2>3, <4>1, SMTT(20)
        <5> QED BY <2>1, <2>3, <3>2, <4>1, <5>1, SMTT(20)
      <4> QED BY <2>3, <4>1, <4>2, SMTT(20) DEF CacheSound, Once, Contents
    <3> QED BY <3>1, <3>2
  <2>5. \A e \in Contents(cache) : e[1] # name
    BY <1>4 DEF Position, Contents
  <2> HIDE DEF x
  <2>6. CacheSound(<<x>> \o c) /\ Contents(<<x>> \o c) = {x} \cup Contents(c)
    BY <1>1, <2>4, <2>5, WithFront, SMTT(20)
  <2> QED BY <2>2, <2>4, <2>5, <2>6 DEF x
<1> QED BY <1>3, <1>4

----------------------------------------------------------------------------
(* Requests and files.                                                     *)

Early == [pc : {"scan", "add", "indexed"}, name : Names, index : SUBSET Nat, missed : SUBSET Nat]

RequestTyped(q) ==
    \/ req[q] = Idle
    \/ req[q] \in Early
    \/ req[q].pc = "copy" /\ req[q].name \in Names /\ req[q].index \in SUBSET Nat

(* Types, with those of the requests; no two entries of the cache have one *)
(* name, and a recording does not end before it starts.                    *)
ArchiveTyped ==
    /\ ArchiveTypeOK
    /\ Once(cache)
    /\ req = [q \in Requests |-> req[q]]
    /\ \A q \in Requests : RequestTyped(q)
    /\ \A q \in Requests : req[q] # Idle => IsFiniteSet(req[q].index)
    /\ \A e \in Contents(cache) : IsFiniteSet(e[2])
    /\ \A r \in Recordings : end[r] >= Start[r]
    /\ \A r \in torn : parts[r] < MaxParts[r]

LEMMA TypedNames ==
    ASSUME NEW name \in Names
    PROVE  File(name) \in Recordings /\ name[1] \in {"ongoing", "done"}
           /\ name = <<name[1], File(name)>>
BY SMTT(20) DEF Names, File

LEMMA TypedRequest ==
    ASSUME ArchiveTyped, NEW q \in Requests, req[q] # Idle
    PROVE  /\ req[q].pc \in {"scan", "add", "indexed", "copy"}
           /\ req[q].name \in Names /\ File(req[q].name) \in Recordings
           /\ req[q].index \in SUBSET Nat
           /\ req[q].pc # "copy" => req[q] \in Early /\ req[q].missed \in SUBSET Nat
<1>1. RequestTyped(q)
  BY DEF ArchiveTyped
<1>2. CASE req[q] \in Early
  BY <1>2, TypedNames DEF Early
<1>3. CASE req[q].pc = "copy" /\ req[q].name \in Names /\ req[q].index \in SUBSET Nat
  BY <1>3, TypedNames
<1> QED BY <1>1, <1>2, <1>3 DEF RequestTyped

LEMMA IdlePc == Idle.pc = "idle"
BY DEF Idle

LEMMA TypedCache ==
    ASSUME ArchiveTyped
    PROVE  /\ CacheSound(cache)
           /\ \A e \in Contents(cache) : e \in Entry /\ e[1] \in Names /\ e[2] \in SUBSET Nat
                                         /\ File(e[1]) \in Recordings
<1>1. CacheSound(cache) /\ cache \in Seq(Entry)
  BY DEF ArchiveTyped, ArchiveTypeOK, CacheSound, Entry
<1>2. \A e \in Contents(cache) : e \in Entry
  BY <1>1, SMTT(20) DEF Contents
<1> QED BY <1>1, <1>2, TypedNames DEF Entry

(* Only a file that is written changes its parts, and it goes from name to *)
(* name in one direction.                                                  *)
FileStep ==
    /\ \A r \in Recordings :
          /\ parts'[r] >= parts[r]
          /\ at[r] # "ongoing" => parts'[r] = parts[r]
          /\ at[r] # "none" => at'[r] # "none"
          /\ at[r] \in {"done", "gone"} => at'[r] \in {"done", "gone"}
    /\ UNCHANGED <<cache, req>>

LEMMA FilesTyped ==
    ASSUME ArchiveTyped,
           \/ \E r \in Recordings :
                 \/ StartFile(r) \/ WritePart(r) \/ PartWritten(r) \/ Discard(r)
                 \/ \E d \in Spans : Finish(r, Start[r] + d)
           \/ \E n \in Names : Delete(n)
    PROVE  ArchiveTyped' /\ FileStep /\ answer' = NoAnswer
<1> USE DEF FileStep, NoReply
<1>t. /\ at \in [Recordings -> Places] /\ parts \in [Recordings -> Nat]
      /\ end \in [Recordings -> Nat] /\ Start \in [Recordings -> Nat] /\ Spans \subseteq Nat
      /\ MaxParts \in [Recordings -> Nat]
      /\ \A r \in Recordings : parts[r] <= MaxParts[r] /\ end[r] >= Start[r]
  BY ArchiveAssumption DEF ArchiveTyped, ArchiveTypeOK
<1>q. ASSUME UNCHANGED <<req, cache>>
      PROVE  /\ \A q \in Requests : RequestTyped(q)'
             /\ \A q \in Requests : req'[q] # Idle => IsFiniteSet(req'[q].index)
             /\ Contents(cache)' = Contents(cache)
  BY <1>q DEF ArchiveTyped, RequestTyped, Contents
<1>1. ASSUME NEW r \in Recordings, StartFile(r) \/ WritePart(r) \/ Discard(r)
      PROVE  ArchiveTyped' /\ FileStep /\ answer' = NoAnswer
  <2>1. /\ UNCHANGED <<parts, end, cache, req, removing, shown, contended, late>>
        /\ torn' = torn \/ (torn' = torn \cup {r} /\ parts[r] < MaxParts[r])
        /\ \/ at' = at
           \/ at[r] = "none" /\ at' = [at EXCEPT ![r] = "ongoing"]
           \/ at[r] = "ongoing" /\ at' = [at EXCEPT ![r] = "gone"]
        /\ answer' = NoAnswer
    BY <1>1 DEF StartFile, WritePart, Discard, historyVars
  <2>2. at' \in [Recordings -> Places]
    BY <1>t, <2>1 DEF Places
  <2>3. ArchiveTyped'
    BY <1>q, <2>1, <2>2 DEF ArchiveTyped, ArchiveTypeOK
  <2> QED BY <1>t, <2>1, <2>3, SMTT(20)
<1>2. ASSUME NEW r \in Recordings, PartWritten(r)
      PROVE  ArchiveTyped' /\ FileStep /\ answer' = NoAnswer
  <2>1. /\ UNCHANGED <<at, end, cache, req, removing, shown, contended, late>>
        /\ torn' = torn \ {r} /\ r \in torn /\ at[r] = "ongoing"
        /\ parts' = [parts EXCEPT ![r] = @ + 1]
        /\ answer' = NoAnswer
    BY <1>2 DEF PartWritten, historyVars
  <2>2. parts[r] < MaxParts[r] /\ \A s \in torn : parts[s] < MaxParts[s]
    BY <2>1 DEF ArchiveTyped
  <2>3. /\ parts' \in [Recordings -> Nat]
        /\ \A s \in Recordings : parts'[s] <= MaxParts[s] /\ parts'[s] >= parts[s]
        /\ \A s \in torn' : parts'[s] < MaxParts[s]
        /\ \A s \in Recordings : at[s] # "ongoing" => parts'[s] = parts[s]
    BY <1>t, <2>1, <2>2, SMTT(20)
  <2>4. ArchiveTyped'
    BY <1>q, <2>1, <2>3 DEF ArchiveTyped, ArchiveTypeOK
  <2> QED BY <1>t, <2>1, <2>3, <2>4
<1>3. ASSUME NEW r \in Recordings, NEW d \in Spans, Finish(r, Start[r] + d)
      PROVE  ArchiveTyped' /\ FileStep /\ answer' = NoAnswer
  <2>1. /\ UNCHANGED <<parts, torn, cache, req, removing, shown, contended, late>>
        /\ at[r] = "ongoing"
        /\ \E p \in {"done", "gone"} : at' = [at EXCEPT ![r] = p]
        /\ end' = [end EXCEPT ![r] = Start[r] + d]
        /\ answer' = NoAnswer
    BY <1>3 DEF Finish, historyVars
  <2>2. at' \in [Recordings -> Places]
    BY <1>t, <2>1 DEF Places
  <2>3. end' \in [Recordings -> Nat] /\ \A s \in Recordings : end'[s] >= Start[s]
    BY <1>t, <2>1, SMTT(20)
  <2>4. ArchiveTyped'
    BY <1>q, <2>1, <2>2, <2>3 DEF ArchiveTyped, ArchiveTypeOK
  <2> QED BY <1>t, <2>1, <2>4, SMTT(20)
<1>4. ASSUME NEW n \in Names, Delete(n)
      PROVE  ArchiveTyped' /\ FileStep /\ answer' = NoAnswer
  <2>1. /\ UNCHANGED <<parts, torn, end, cache, req, shown, contended>>
        /\ at' = [at EXCEPT ![File(n)] = "gone"] /\ at[File(n)] = n[1]
        /\ removing' = n /\ late' \in {late, late \cup {File(n)}}
        /\ answer' = NoAnswer
    BY <1>4 DEF Delete, Exists
  <2>2. File(n) \in Recordings /\ n[1] \in {"ongoing", "done"}
    BY TypedNames
  <2>3. at' \in [Recordings -> Places]
    BY <1>t, <2>1, <2>2 DEF Places
  <2>4. ArchiveTyped'
    BY <1>q, <2>1, <2>2, <2>3 DEF ArchiveTyped, ArchiveTypeOK
  <2> QED BY <1>t, <2>1, <2>2, <2>4, SMTT(20)
<1> QED BY <1>1, <1>2, <1>3, <1>4

(* What a request does: its index is found in the cache, the file is       *)
(* opened to be indexed, the file is opened to be exported, or the client  *)
(* has its answer.                                                         *)
Found(q, name, idx) ==
    /\ idx \in Cached(name)
    /\ cache' = Touched(name, idx)
    /\ req' = [req EXCEPT ![q] = [pc |-> "indexed", name |-> name, index |-> idx, missed |-> {}]]
    /\ answer' = NoAnswer
    /\ UNCHANGED <<fileVars, removing, historyVars>>

Opened(q, name) ==
    /\ req[q] = Idle
    /\ Cached(name) = {}
    /\ Exists(name)
    /\ req' = [req EXCEPT ![q] = [pc |-> "scan", name |-> name, index |-> {}, missed |-> {}]]
    /\ contended' = IF name[1] = "done" \/ Indexing(name) = {}
                      THEN contended ELSE contended \cup {File(name)}
    /\ answer' = NoAnswer
    /\ UNCHANGED <<fileVars, cache, removing, shown, late>>

Exporting(q, w) ==
    /\ req[q].pc = "indexed"
    /\ w.pc = "copy" /\ w.name = req[q].name /\ w.index = req[q].index /\ w.index # {}
    /\ req' = [req EXCEPT ![q] = w]
    /\ answer' = NoAnswer
    /\ UNCHANGED <<fileVars, cache, removing, historyVars>>

Answered(q) ==
    /\ req' = [req EXCEPT ![q] = Idle]
    /\ shown' = shown \/ GenerateHLSPlaylist(q)
    /\ UNCHANGED <<fileVars, cache, removing, contended, late>>

RequestStep(q) ==
    \/ \E name \in Names, idx \in SUBSET Nat : Found(q, name, idx)
    \/ \E name \in Names : Opened(q, name)
    \/ MissPart(q) \/ ScanEnds(q) \/ AddIndex(q)
    \/ \E w : Exporting(q, w)
    \/ Answered(q)

LEMMA CachedIndex ==
    ASSUME ArchiveTyped, NEW name, NEW idx \in Cached(name)
    PROVE  <<name, idx>> \in Contents(cache) /\ idx \in SUBSET Nat
<1>1. cache \in Seq(Entry)
  BY DEF ArchiveTyped, ArchiveTypeOK, Entry
<1>2. PICK i \in DOMAIN cache : cache[i][1] = name /\ idx = cache[i][2]
  BY DEF Cached, Position
<1>3. cache[i] \in Entry
  BY <1>1, SMTT(20)
<1>4. cache[i] = <<name, idx>> /\ idx \in SUBSET Nat
  BY <1>2, <1>3, SMTT(20) DEF Entry
<1> QED BY <1>4 DEF Contents

LEMMA NotCached ==
    ASSUME ArchiveTyped, NEW name, Cached(name) = {}
    PROVE  Position(name) = {} /\ \A e \in Contents(cache) : e[1] # name
BY DEF Cached, Position, Contents

LEMMA RequestSteps ==
    ASSUME FiniteSetFacts, ArchiveTyped, NEW q \in Requests,
           \/ \E n \in Names : Begin(q, n)
           \/ MissPart(q) \/ ScanEnds(q) \/ AddIndex(q)
           \/ GenerateHLSPlaylist(q)
           \/ \E seq \in Positions : GenerateHLSSegment(q, seq)
           \/ \E lo, hi \in Positions \cup {-1} : ExportOpen(q, lo, hi)
           \/ ExportCopy(q)
    PROVE  RequestStep(q)
<1>1. ASSUME NEW n \in Names, Begin(q, n) PROVE RequestStep(q)
  <2>1. CASE Cached(n) # {}
    <3>1. PICK idx \in Cached(n) : Found(q, n, idx)
      BY <1>1, <2>1 DEF Begin, Found, NoReply, historyVars
    <3> QED BY <3>1, CachedIndex DEF RequestStep
  <2>2. CASE Cached(n) = {} /\ Exists(n)
    <3>1. Opened(q, n)
      BY <1>1, <2>2 DEF Begin, Opened, NoReply
    <3> QED BY <3>1 DEF RequestStep
  <2>3. CASE Cached(n) = {} /\ ~Exists(n)
    BY <1>1, <2>3 DEF Begin, Error, Answer, RequestStep, Answered
  <2> QED BY <2>1, <2>2, <2>3
<1>2. ASSUME NEW lo \in Positions \cup {-1}, NEW hi \in Positions \cup {-1}, ExportOpen(q, lo, hi)
      PROVE  RequestStep(q)
  <2> DEFINE n == Cardinality(req[q].index)
             top == IF hi \in 0..n - 1 THEN hi ELSE n - 1
             w == [pc |-> "copy", name |-> req[q].name, index |-> req[q].index,
                   lo |-> Min({Max({lo, 0}), top}), hi |-> top]
  <2>1. CASE n > 0 /\ Exists(req[q].name)
    <3>1. w.pc = "copy" /\ w.name = req[q].name /\ w.index = req[q].index
      OBVIOUS
    <3>2. req' = [req EXCEPT ![q] = w] /\ req[q].pc = "indexed" /\ answer' = NoAnswer
          /\ UNCHANGED <<fileVars, cache, removing, historyVars>>
      BY <1>2, <2>1 DEF ExportOpen, NoReply
    <3>0. req[q].index # {}
      <4>1. Cardinality({}) = 0
        BY DEF FiniteSetFacts
      <4> QED BY <2>1, <4>1, SMTT(20)
    <3> HIDE DEF w
    <3>3. Exporting(q, w)
      BY <3>0, <3>1, <3>2 DEF Exporting
    <3> QED BY <3>3 DEF RequestStep
  <2>2. CASE ~(n > 0 /\ Exists(req[q].name))
    BY <1>2, <2>2 DEF ExportOpen, Error, Answer, RequestStep, Answered, historyVars
  <2> QED BY <2>1, <2>2
<1>3. ASSUME NEW seq \in Positions, GenerateHLSSegment(q, seq) PROVE RequestStep(q)
  BY <1>3 DEF GenerateHLSSegment, Error, Answer, RequestStep, Answered, historyVars
<1>4. ASSUME ExportCopy(q) PROVE RequestStep(q)
  BY <1>4 DEF ExportCopy, Error, Answer, RequestStep, Answered, historyVars
<1>5. ASSUME GenerateHLSPlaylist(q) PROVE RequestStep(q)
  BY <1>5 DEF GenerateHLSPlaylist, Answer, RequestStep, Answered
<1> QED BY <1>1, <1>2, <1>3, <1>4, <1>5 DEF RequestStep

LEMMA OneRequest ==
    ASSUME ArchiveTyped, NEW q \in Requests, NEW w, req' = [req EXCEPT ![q] = w],
           \/ w = Idle
           \/ /\ w \in Early \/ (w.pc = "copy" /\ w.name \in Names /\ w.index \in SUBSET Nat)
              /\ IsFiniteSet(w.index)
    PROVE  /\ req'[q] = w
           /\ \A p \in Requests : p # q => req'[p] = req[p]
           /\ req' = [p \in Requests |-> req'[p]]
           /\ \A p \in Requests : RequestTyped(p)'
           /\ \A p \in Requests : req'[p] # Idle => IsFiniteSet(req'[p].index)
<1>1. req = [p \in Requests |-> req[p]]
  BY DEF ArchiveTyped
<1>2. req'[q] = w /\ (\A p \in Requests : p # q => req'[p] = req[p])
      /\ req' = [p \in Requests |-> req'[p]]
  BY <1>1
<1>3. \A p \in Requests : p # q => RequestTyped(p)'
  BY <1>2 DEF ArchiveTyped, RequestTyped
<1>4. RequestTyped(q)'
  BY <1>2 DEF RequestTyped
<1>5. \A p \in Requests : req'[p] # Idle => IsFiniteSet(req'[p].index)
  BY <1>2 DEF ArchiveTyped
<1> QED BY <1>2, <1>3, <1>4, <1>5

LEMMA Longer ==
    ASSUME NEW a \in Nat, NEW b \in Nat
    PROVE  Max({a, b}) \in Nat /\ Max({a, b}) = IF a >= b THEN a ELSE b
<1>1. Max({a, b}) \in {a, b} /\ \A y \in {a, b} : Max({a, b}) >= y
  <2>1. \E x \in {a, b} : \A y \in {a, b} : x >= y
    BY SMTT(20)
  <2> QED BY <2>1 DEF Max
<1> QED BY <1>1, SMTT(20)

(* What the steps of a request do to its record.                           *)
LEMMA Missed ==
    ASSUME ArchiveTyped, NEW q \in Requests, MissPart(q)
    PROVE  \E w \in Early :
              /\ req' = [req EXCEPT ![q] = w]
              /\ w.pc = "scan" /\ req[q].pc = "scan" /\ w.name = req[q].name /\ w.index = req[q].index
              /\ req[q] # Idle
<1>1. req[q] # Idle /\ req[q].pc = "scan"
  BY IdlePc DEF MissPart
<1>2. req[q] \in Early /\ File(req[q].name) \in Recordings
  BY <1>1, TypedRequest
<1>3. parts[File(req[q].name)] + 1 \in Nat
  BY <1>2, SMTT(20) DEF ArchiveTyped, ArchiveTypeOK
<1> DEFINE w == [req[q] EXCEPT !.missed = @ \cup {parts[File(req[q].name)] + 1}]
<1>4. w \in Early /\ w.pc = "scan" /\ w.name = req[q].name /\ w.index = req[q].index
  BY <1>1, <1>2, <1>3 DEF Early
<1>5. req' = [req EXCEPT ![q] = w]
  BY <1>1 DEF MissPart, ArchiveTyped
<1> QED BY <1>1, <1>4, <1>5

LEMMA Scanned ==
    ASSUME FiniteSetFacts, ArchiveTyped, NEW q \in Requests, ScanEnds(q)
    PROVE  \E w \in Early :
              /\ req' = [req EXCEPT ![q] = w]
              /\ w.pc = "add" /\ req[q].pc = "scan" /\ w.name = req[q].name /\ req[q] # Idle
              /\ w.index = (1..parts[File(req[q].name)]) \ req[q].missed
              /\ IsFiniteSet(w.index)
<1>1. req[q] # Idle /\ req[q].pc = "scan"
  BY IdlePc DEF ScanEnds
<1>2. req[q] \in Early /\ File(req[q].name) \in Recordings
  BY <1>1, TypedRequest
<1>3. PICK k \in Nat : k = parts[File(req[q].name)]
  BY <1>2 DEF ArchiveTyped, ArchiveTypeOK
<1> DEFINE w == [req[q] EXCEPT !.pc = "add", !.missed = {}, !.index = (1..k) \ req[q].missed]
<1>4. (1..k) \ req[q].missed \in SUBSET Nat /\ IsFiniteSet((1..k) \ req[q].missed)
  <2>1. IsFiniteSet(1..k)
    BY DEF FiniteSetFacts
  <2>2. IsFiniteSet((1..k) \ req[q].missed)
    BY <2>1, SMTT(20) DEF FiniteSetFacts
  <2> QED BY <2>2, SMTT(20)
<1>5. w \in Early /\ w.pc = "add" /\ w.name = req[q].name /\ w.index = (1..k) \ req[q].missed
  BY <1>1, <1>2, <1>4 DEF Early
<1>6. req' = [req EXCEPT ![q] = w]
  BY <1>1, <1>3 DEF ScanEnds, ArchiveTyped
<1> QED BY <1>1, <1>3, <1>4, <1>5, <1>6

LEMMA Indexed ==
    ASSUME ArchiveTyped, NEW q \in Requests, AddIndex(q)
    PROVE  \E w \in Early :
              /\ req' = [req EXCEPT ![q] = w]
              /\ w.pc = "indexed" /\ req[q].pc = "add" /\ req[q] # Idle
              /\ w.name = req[q].name /\ w.index = req[q].index
<1>1. req[q] # Idle /\ req[q].pc = "add"
  BY IdlePc DEF AddIndex
<1>2. req[q] \in Early
  BY <1>1, TypedRequest
<1> DEFINE w == [req[q] EXCEPT !.pc = "indexed"]
<1>3. w \in Early /\ w.pc = "indexed" /\ w.name = req[q].name /\ w.index = req[q].index
  BY <1>2 DEF Early
<1>4. req' = [req EXCEPT ![q] = w]
  BY <1>1 DEF AddIndex, ArchiveTyped
<1> QED BY <1>1, <1>3, <1>4

LEMMA PlaylistSent ==
    ASSUME FiniteSetFacts, ArchiveTyped, NEW q \in Requests, GenerateHLSPlaylist(q)
    PROVE  /\ req[q] # Idle /\ req[q].pc = "indexed" /\ req[q].name \in Names
           /\ Cardinality(req[q].index) \in Nat
           /\ req[q].name[1] = "done" => shown' = shown
           /\ req[q].name[1] # "done" =>
                 shown' = [shown EXCEPT ![File(req[q].name)] =
                              IF @ >= Cardinality(req[q].index) THEN @
                                                               ELSE Cardinality(req[q].index)]
           /\ shown' \in [Recordings -> Nat]
<1>1. req[q] # Idle /\ req[q].pc = "indexed"
  BY IdlePc DEF GenerateHLSPlaylist
<1>2. req[q].name \in Names /\ File(req[q].name) \in Recordings
  BY <1>1, TypedRequest
<1>3. Cardinality(req[q].index) \in Nat
  BY <1>1 DEF ArchiveTyped, FiniteSetFacts
<1>4. shown \in [Recordings -> Nat]
  BY DEF ArchiveTyped, ArchiveTypeOK
<1>5. PICK n \in Nat : n = Cardinality(req[q].index)
  BY <1>3
<1>6. PICK r \in Recordings : r = File(req[q].name)
  BY <1>2
<1>7. Max({shown[r], n}) = IF shown[r] >= n THEN shown[r] ELSE n
  BY <1>4, Longer
<1>8. shown' = IF req[q].name[1] = "done" THEN shown
               ELSE [shown EXCEPT ![r] = Max({shown[r], n})]
  BY <1>4, <1>5, <1>6 DEF GenerateHLSPlaylist
<1>9. shown' = IF req[q].name[1] = "done" THEN shown
               ELSE [shown EXCEPT ![r] = IF shown[r] >= n THEN shown[r] ELSE n]
  BY <1>7, <1>8
<1> QED BY <1>1, <1>2, <1>4, <1>5, <1>6, <1>9

(* The fields that a request leaves alone.                                 *)
LEMMA OthersTyped ==
    ASSUME ArchiveTyped, UNCHANGED <<fileVars, removing, late>>,
           shown' \in [Recordings -> Nat], contended' \subseteq Recordings,
           CacheSound(cache'), \A e \in Contents(cache') : IsFiniteSet(e[2]),
           req' = [p \in Requests |-> req'[p]],
           \A p \in Requests : RequestTyped(p)',
           \A p \in Requests : req'[p] # Idle => IsFiniteSet(req'[p].index)
    PROVE  ArchiveTyped'
<1>1. cache' \in Seq(Names \X SUBSET Nat) /\ Len(cache') <= Capacity /\ Once(cache)'
  BY DEF CacheSound, Entry, Once
<1>2. ArchiveTypeOK'
  BY <1>1 DEF ArchiveTyped, ArchiveTypeOK, fileVars
<1>3. \A e \in Contents(cache)' : IsFiniteSet(e[2])
  BY DEF Contents
<1>4. /\ \A r \in Recordings : end'[r] >= Start[r]
      /\ \A r \in torn' : parts'[r] < MaxParts[r]
  BY DEF ArchiveTyped, fileVars
<1> QED BY <1>1, <1>2, <1>3, <1>4 DEF ArchiveTyped

LEMMA RequestsTyped ==
    ASSUME FiniteSetFacts, ArchiveTyped, NEW q \in Requests, RequestStep(q)
    PROVE  ArchiveTyped'
<1>c. CacheSound(cache) /\ \A e \in Contents(cache) : IsFiniteSet(e[2]) /\ e \in Entry
  BY TypedCache DEF ArchiveTyped
<1>t. shown \in [Recordings -> Nat] /\ contended \subseteq Recordings
  BY DEF ArchiveTyped, ArchiveTypeOK
<1>k. ASSUME UNCHANGED cache
      PROVE  CacheSound(cache') /\ \A e \in Contents(cache') : IsFiniteSet(e[2])
  BY <1>k, <1>c
<1>1. ASSUME NEW name \in Names, NEW idx \in SUBSET Nat, Found(q, name, idx) PROVE ArchiveTyped'
  <2>1. <<name, idx>> \in Contents(cache) /\ <<name, idx>> \in Entry /\ Position(name) # {}
    BY <1>1, CachedIndex DEF Found, Entry, Cached
  <2>2. IsFiniteSet(idx)
    BY <2>1, <1>c
  <2>3. CacheSound(Touched(name, idx))
        /\ Contents(Touched(name, idx)) = {<<name, idx>>} \cup {e \in Contents(cache) : e[1] # name}
    BY <2>1, <1>c, TouchedCache
  <2>4. CacheSound(cache') /\ \A e \in Contents(cache') : IsFiniteSet(e[2])
    BY <1>1, <2>2, <2>3, <1>c, SMTT(20) DEF Found
  <2> DEFINE w == [pc |-> "indexed", name |-> name, index |-> idx, missed |-> {}]
  <2>5. w \in Early /\ w.index = idx /\ req' = [req EXCEPT ![q] = w]
    BY <1>1 DEF Early, Found
  <2> HIDE DEF w
  <2>6. UNCHANGED <<fileVars, removing, late, shown, contended>>
    BY <1>1 DEF Found, historyVars
  <2> QED BY <1>t, <2>2, <2>4, <2>5, <2>6, OneRequest, OthersTyped
<1>2. ASSUME NEW name \in Names, Opened(q, name) PROVE ArchiveTyped'
  <2> DEFINE w == [pc |-> "scan", name |-> name, index |-> {}, missed |-> {}]
  <2>1. w \in Early /\ IsFiniteSet(w.index) /\ req' = [req EXCEPT ![q] = w]
    BY <1>2 DEF Early, Opened, FiniteSetFacts
  <2> HIDE DEF w
  <2>2. UNCHANGED <<fileVars, removing, late, shown, cache>> /\ contended' \subseteq Recordings
    BY <1>2, <1>t, TypedNames DEF Opened
  <2> QED BY <1>t, <1>k, <2>1, <2>2, OneRequest, OthersTyped
<1>3. ASSUME MissPart(q) PROVE ArchiveTyped'
  <2>1. PICK w \in Early : req' = [req EXCEPT ![q] = w] /\ w.index = req[q].index /\ req[q] # Idle
    BY <1>3, Missed
  <2>2. IsFiniteSet(w.index) /\ File(req[q].name) \in Recordings
    BY <2>1, TypedRequest DEF ArchiveTyped
  <2>3. UNCHANGED <<fileVars, removing, late, shown, cache>> /\ contended' \subseteq Recordings
    BY <1>3, <1>t, <2>2 DEF MissPart
  <2> QED BY <1>t, <1>k, <2>1, <2>2, <2>3, OneRequest, OthersTyped
<1>4. ASSUME ScanEnds(q) PROVE ArchiveTyped'
  <2>1. PICK w \in Early : req' = [req EXCEPT ![q] = w] /\ IsFiniteSet(w.index)
    BY <1>4, Scanned
  <2>2. UNCHANGED <<fileVars, removing, late, shown, cache, contended>>
    BY <1>4 DEF ScanEnds, historyVars
  <2> QED BY <1>t, <1>k, <2>1, <2>2, OneRequest, OthersTyped
<1>5. ASSUME AddIndex(q) PROVE ArchiveTyped'
  <2>1. PICK w \in Early : req' = [req EXCEPT ![q] = w] /\ w.index = req[q].index /\ req[q] # Idle
    BY <1>5, Indexed
  <2>2. PICK name \in Names, idx \in SUBSET Nat :
           name = req[q].name /\ idx = req[q].index /\ IsFiniteSet(idx)
    BY <2>1, TypedRequest DEF ArchiveTyped
  <2>3. cache' = Added(name, idx) /\ UNCHANGED <<fileVars, removing, late, shown, contended>>
    BY <1>5, <2>2 DEF AddIndex, historyVars
  <2>4. <<name, idx>> \in Entry
    BY DEF Entry
  <2>5. CacheSound(cache') /\ \A e \in Contents(cache') : IsFiniteSet(e[2])
    BY <2>2, <2>3, <2>4, <1>c, AddedCache, SMTT(20)
  <2> QED BY <1>t, <2>1, <2>2, <2>3, <2>5, OneRequest, OthersTyped
<1>6. ASSUME NEW w, Exporting(q, w) PROVE ArchiveTyped'
  <2>1. req[q] # Idle
    BY <1>6, IdlePc DEF Exporting
  <2>2. w.pc = "copy" /\ w.name \in Names /\ w.index \in SUBSET Nat /\ IsFiniteSet(w.index)
    BY <1>6, <2>1, TypedRequest DEF Exporting, ArchiveTyped
  <2>3. UNCHANGED <<fileVars, removing, late, shown, cache, contended>> /\ req' = [req EXCEPT ![q] = w]
    BY <1>6 DEF Exporting, historyVars
  <2> QED BY <1>t, <1>k, <2>2, <2>3, OneRequest, OthersTyped
<1>7. ASSUME Answered(q) PROVE ArchiveTyped'
  <2>1. shown' \in [Recordings -> Nat]
    BY <1>7, <1>t, PlaylistSent DEF Answered
  <2>2. UNCHANGED <<fileVars, removing, late, cache, contended>> /\ req' = [req EXCEPT ![q] = Idle]
    BY <1>7 DEF Answered
  <2> QED BY <1>t, <1>k, <2>1, <2>2, OneRequest, OthersTyped
<1> QED BY <1>1, <1>2, <1>3, <1>4, <1>5, <1>6, <1>7 DEF RequestStep

----------------------------------------------------------------------------
(* The index of a finished file.  The entries and the requests that bear   *)
(* the final name of a recording hold all of its parts, since the file is  *)
(* not written any more; and retention catches all but those that are      *)
(* being made.                                                             *)

Settled(r) == at[r] \in {"done", "gone"}

FinishedEntry(e) ==
    e[1][1] = "done" =>
        /\ Settled(File(e[1]))
        /\ e[2] = 1..parts[File(e[1])]
        /\ Exists(e[1]) \/ e[1] = removing \/ File(e[1]) \in late

FinishedRequest(w) ==
    w # Idle /\ w.name[1] = "done" =>
        LET r == File(w.name)
        IN /\ Settled(r)
           /\ w.pc = "scan" => w.missed = {}
           /\ w.pc \in {"add", "indexed", "copy"} => w.index = 1..parts[r]
           /\ w.pc \in {"scan", "add"} => Exists(w.name) \/ r \in late
           /\ w.pc = "copy" => w.index # {}

FinishedInv ==
    /\ \A e \in Contents(cache) : FinishedEntry(e)
    /\ \A q \in Requests : FinishedRequest(req[q])

LEMMA FilesFinished ==
    ASSUME ArchiveTyped, FinishedInv, FileStep,
           \/ /\ UNCHANGED <<removing, late>>
              /\ \A r \in Recordings : at[r] = "done" => at'[r] = "done"
           \/ \E n \in Names : Delete(n)
    PROVE  FinishedInv'
<1> DEFINE Kept(r) == Settled(r) => Settled(r)' /\ parts'[r] = parts[r]
<1>1. ASSUME NEW r \in Recordings PROVE Kept(r)
  BY DEF FileStep, Settled
<1>2. ASSUME NEW e \in Contents(cache) PROVE FinishedEntry(e)'
  <2>1. SUFFICES ASSUME e[1][1] = "done" PROVE FinishedEntry(e)'
    BY DEF FinishedEntry
  <2>2. e[1] \in Names
    BY TypedCache
  <2>3. PICK r \in Recordings : r = File(e[1]) /\ e[1] = <<"done", r>>
    BY <2>1, <2>2, TypedNames
  <2>4. Settled(r) /\ e[2] = 1..parts[r] /\ (at[r] = "done" \/ e[1] = removing \/ r \in late)
    BY <2>1, <2>3 DEF FinishedInv, FinishedEntry, Exists, File
  <2>5. at'[r] = "done" \/ e[1] = removing' \/ r \in late'
    <3>1. CASE \E n \in Names : Delete(n)
      <4>1. PICK n \in Names : Delete(n)
        BY <3>1
      <4>2. removing = NoName /\ removing' = n /\ at' = [at EXCEPT ![File(n)] = "gone"]
            /\ late \subseteq late' /\ Exists(n)
        BY <4>1 DEF Delete
      <4>3. e[1] # removing
        BY <2>2, <4>2, SMTT(20) DEF Names, NoName
      <4>4. CASE r = File(n)
        <5>1. at[r] = n[1] /\ n[1] # "gone"
          BY <4>2, <4>4, TypedNames DEF Exists
        <5>2. r \in late \/ n[1] = "done"
          BY <5>1, <2>4, <4>3
        <5> QED BY <5>2, <4>2, <4>4, <2>3, TypedNames
      <4>5. CASE r # File(n)
        BY <4>2, <4>3, <4>5, <2>4 DEF ArchiveTyped, ArchiveTypeOK
      <4> QED BY <4>4, <4>5
    <3> QED BY <2>4, <3>1
  <2> QED BY <2>3, <2>4, <2>5, <1>1 DEF FinishedEntry, Exists, File
<1>3. ASSUME NEW q \in Requests PROVE FinishedRequest(req[q])'
  <2>0. req'[q] = req[q]
    BY DEF FileStep
  <2>1. SUFFICES ASSUME req[q] # Idle, req[q].name[1] = "done" PROVE FinishedRequest(req[q])'
    BY <2>0 DEF FinishedRequest
  <2>2. PICK r \in Recordings : r = File(req[q].name) /\ req[q].name = <<"done", r>>
    BY <2>1, TypedRequest, TypedNames
  <2>3. /\ Settled(r)
        /\ req[q].pc = "scan" => req[q].missed = {}
        /\ req[q].pc \in {"add", "indexed", "copy"} => req[q].index = 1..parts[r]
        /\ req[q].pc \in {"scan", "add"} => at[r] = "done" \/ r \in late
        /\ req[q].pc = "copy" => req[q].index # {}
    BY <2>1, <2>2 DEF FinishedInv, FinishedRequest, Exists, File
  <2>4. ASSUME req[q].pc \in {"scan", "add"} PROVE at'[r] = "done" \/ r \in late'
    <3>1. CASE \E n \in Names : Delete(n)
      <4>1. PICK n \in Names : Delete(n)
        BY <3>1
      <4>2. at' = [at EXCEPT ![File(n)] = "gone"] /\ late \subseteq late' /\ Exists(n)
            /\ (Indexing(n) # {} => File(n) \in late')
        BY <4>1 DEF Delete
      <4>3. CASE r = File(n) /\ r \notin late
        <5>1. n[1] = "done" /\ n = <<"done", r>>
          BY <4>2, <4>3, <2>3, <2>4, TypedNames DEF Exists
        <5>2. q \in Indexing(n)
          BY <5>1, <2>2, <2>4 DEF Indexing
        <5> QED BY <5>2, <4>2, <4>3
      <4>4. CASE r # File(n) \/ r \in late
        BY <4>2, <4>4, <2>3, <2>4 DEF ArchiveTyped, ArchiveTypeOK
      <4> QED BY <4>3, <4>4
    <3> QED BY <2>3, <2>4, <3>1
  <2> QED BY <2>0, <2>2, <2>3, <2>4, <1>1 DEF FinishedRequest, Exists, File
<1>4. Contents(cache)' = Contents(cache)
  BY DEF FileStep, Contents
<1> QED BY <1>2, <1>3, <1>4 DEF FinishedInv

LEMMA InvalidateFinished ==
    ASSUME ArchiveTyped, FinishedInv, InvalidateFileIndex
    PROVE  FinishedInv' /\ ArchiveTyped'
<1>1. /\ removing \in Names
      /\ cache' = WithoutIndex(removing)
      /\ UNCHANGED <<fileVars, req, historyVars>> /\ removing' = NoName
  BY DEF InvalidateFileIndex, ArchiveTyped, ArchiveTypeOK
<1>2. CacheSound(cache') /\ Contents(cache') = {e \in Contents(cache) : e[1] # removing}
  BY <1>1, TypedCache, WithoutName
<1>3. ASSUME NEW e \in Contents(cache') PROVE FinishedEntry(e)'
  <2>1. FinishedEntry(e) /\ e[1] # removing
    BY <1>2 DEF FinishedInv
  <2> QED BY <2>1, <1>1 DEF FinishedEntry, Settled, Exists, fileVars, historyVars
<1>4. ASSUME NEW q \in Requests PROVE FinishedRequest(req[q])'
  BY <1>1 DEF FinishedInv, FinishedRequest, Settled, Exists, fileVars, historyVars
<1>5. FinishedInv'
  BY <1>3, <1>4 DEF FinishedInv, Contents
<1>6. cache' \in Seq(Names \X SUBSET Nat) /\ Len(cache') <= Capacity /\ Once(cache)'
  BY <1>2 DEF CacheSound, Entry, Once
<1>7. ArchiveTypeOK'
  BY <1>1, <1>6 DEF ArchiveTyped, ArchiveTypeOK, fileVars, historyVars
<1>8. \A e \in Contents(cache)' : IsFiniteSet(e[2])
  BY <1>2 DEF ArchiveTyped, Contents
<1>9. ArchiveTyped'
  BY <1>1, <1>6, <1>7, <1>8 DEF ArchiveTyped, RequestTyped, fileVars
<1> QED BY <1>5, <1>9

LEMMA RequestFinished ==
    ASSUME ArchiveTyped, FinishedInv, UNCHANGED <<fileVars, removing, late>>,
           NEW q \in Requests, NEW w, req' = [req EXCEPT ![q] = w], FinishedRequest(w),
           \A e \in Contents(cache') : FinishedEntry(e)
    PROVE  FinishedInv'
<1>1. \A p \in Requests : FinishedRequest(req'[p])
  BY DEF ArchiveTyped, FinishedInv
<1>2. ASSUME NEW p \in Requests PROVE FinishedRequest(req[p])'
  BY <1>1 DEF FinishedRequest, Settled, Exists, fileVars
<1>3. ASSUME NEW e \in Contents(cache') PROVE FinishedEntry(e)'
  BY <1>3 DEF FinishedEntry, Settled, Exists, fileVars
<1> QED BY <1>2, <1>3 DEF FinishedInv, Contents

LEMMA RequestsFinished ==
    ASSUME FiniteSetFacts, ArchiveTyped, FinishedInv, NEW q \in Requests, RequestStep(q)
    PROVE  FinishedInv'
<1>c. CacheSound(cache) /\ \A e \in Contents(cache) : FinishedEntry(e)
  BY TypedCache DEF FinishedInv
<1>q. FinishedRequest(req[q])
  BY DEF FinishedInv
<1>1. ASSUME NEW name \in Names, NEW idx \in SUBSET Nat, Found(q, name, idx) PROVE FinishedInv'
  <2>1. <<name, idx>> \in Contents(cache) /\ <<name, idx>> \in Entry /\ Position(name) # {}
    BY <1>1, CachedIndex DEF Found, Entry, Cached
  <2>2. Contents(Touched(name, idx)) = {<<name, idx>>} \cup {e \in Contents(cache) : e[1] # name}
    BY <2>1, <1>c, TouchedCache
  <2>3. \A e \in Contents(cache') : FinishedEntry(e)
    BY <1>1, <1>c, <2>1, <2>2 DEF Found
  <2> DEFINE w == [pc |-> "indexed", name |-> name, index |-> idx, missed |-> {}]
  <2>4. FinishedEntry(<<name, idx>>)
    BY <1>c, <2>1
  <2>5. FinishedRequest(w)
    BY <2>4 DEF FinishedRequest, FinishedEntry
  <2>6. UNCHANGED <<fileVars, removing, late>> /\ req' = [req EXCEPT ![q] = w]
    BY <1>1 DEF Found, historyVars
  <2> HIDE DEF w
  <2> QED BY <2>3, <2>5, <2>6, RequestFinished
<1>2. ASSUME NEW name \in Names, Opened(q, name) PROVE FinishedInv'
  <2> DEFINE w == [pc |-> "scan", name |-> name, index |-> {}, missed |-> {}]
  <2>1. FinishedRequest(w)
    BY <1>2 DEF FinishedRequest, Opened, Exists, Settled
  <2>2. UNCHANGED <<fileVars, removing, late, cache>> /\ req' = [req EXCEPT ![q] = w]
    BY <1>2 DEF Opened
  <2> HIDE DEF w
  <2> QED BY <1>c, <2>1, <2>2, RequestFinished
<1>3. ASSUME MissPart(q) PROVE FinishedInv'
  <2>1. PICK w \in Early : /\ req' = [req EXCEPT ![q] = w]
                           /\ w.pc = "scan" /\ w.name = req[q].name /\ req[q] # Idle
    BY <1>3, Missed
  <2>2. at[File(req[q].name)] = "ongoing"
    BY <1>3 DEF MissPart
  <2>3. FinishedRequest(w)
    BY <1>q, <2>1, <2>2 DEF FinishedRequest, Settled
  <2>4. UNCHANGED <<fileVars, removing, late, cache>>
    BY <1>3 DEF MissPart
  <2> QED BY <1>c, <2>1, <2>3, <2>4, RequestFinished
<1>4. ASSUME ScanEnds(q) PROVE FinishedInv'
  <2>1. PICK w \in Early :
              /\ req' = [req EXCEPT ![q] = w]
              /\ w.pc = "add" /\ req[q].pc = "scan" /\ w.name = req[q].name /\ req[q] # Idle
              /\ w.index = (1..parts[File(req[q].name)]) \ req[q].missed
    BY <1>4, Scanned
  <2>2. FinishedRequest(w)
    BY <1>q, <2>1 DEF FinishedRequest
  <2>3. UNCHANGED <<fileVars, removing, late, cache>>
    BY <1>4 DEF ScanEnds, historyVars
  <2> QED BY <1>c, <2>1, <2>2, <2>3, RequestFinished
<1>5. ASSUME AddIndex(q) PROVE FinishedInv'
  <2>1. PICK w \in Early :
              /\ req' = [req EXCEPT ![q] = w]
              /\ w.pc = "indexed" /\ req[q].pc = "add" /\ req[q] # Idle
              /\ w.name = req[q].name /\ w.index = req[q].index
    BY <1>5, Indexed
  <2>2. PICK name \in Names, idx \in SUBSET Nat : name = req[q].name /\ idx = req[q].index
    BY <2>1, TypedRequest
  <2>3. FinishedRequest(w)
    BY <1>q, <2>1 DEF FinishedRequest
  <2>4. FinishedEntry(<<name, idx>>)
    BY <1>q, <2>1, <2>2 DEF FinishedRequest, FinishedEntry
  <2>5. cache' = Added(name, idx) /\ UNCHANGED <<fileVars, removing, late>>
    BY <1>5, <2>2 DEF AddIndex, historyVars
  <2>6. <<name, idx>> \in Entry
    BY DEF Entry
  <2>7. Contents(cache') \subseteq {<<name, idx>>} \cup {e \in Contents(cache) : e[1] # name}
    BY <2>5, <2>6, <1>c, AddedCache
  <2>8. \A e \in Contents(cache') : FinishedEntry(e)
    BY <1>c, <2>4, <2>7
  <2> QED BY <2>1, <2>3, <2>5, <2>8, RequestFinished
<1>6. ASSUME NEW w, Exporting(q, w) PROVE FinishedInv'
  <2>1. req[q] # Idle /\ req[q].pc = "indexed"
    BY <1>6, IdlePc DEF Exporting
  <2>2. FinishedRequest(w)
    BY <1>6, <1>q, <2>1 DEF Exporting, FinishedRequest
  <2>3. UNCHANGED <<fileVars, removing, late, cache>> /\ req' = [req EXCEPT ![q] = w]
    BY <1>6 DEF Exporting, historyVars
  <2> QED BY <1>c, <2>2, <2>3, RequestFinished
<1>7. ASSUME Answered(q) PROVE FinishedInv'
  <2>1. UNCHANGED <<fileVars, removing, late, cache>> /\ req' = [req EXCEPT ![q] = Idle]
    BY <1>7 DEF Answered
  <2>2. FinishedRequest(Idle)
    BY DEF FinishedRequest
  <2> QED BY <1>c, <2>1, <2>2, RequestFinished
<1> QED BY <1>1, <1>2, <1>3, <1>4, <1>5, <1>6, <1>7 DEF RequestStep

(* The part that a full index lists at position k is part k + 1.           *)
LEMMA NthOfAll ==
    ASSUME FiniteSetFacts, NEW n \in Nat, NEW k \in Nat, k < n
    PROVE  Nth(1..n, k) = k + 1
<1>1. ASSUME NEW p \in 1..n PROVE Cardinality({o \in 1..n : o < p}) = p - 1
  <2>1. {o \in 1..n : o < p} = 1..(p - 1)
    BY SMTT(20)
  <2>2. PICK m \in Nat : m = p - 1
    BY SMTT(20)
  <2>3. Cardinality(1..m) = m
    BY <2>2 DEF FiniteSetFacts
  <2> QED BY <2>1, <2>2, <2>3
<1>2. ASSUME NEW p \in 1..n PROVE Cardinality({o \in 1..n : o < p}) = k <=> p = k + 1
  <2>1. Cardinality({o \in 1..n : o < p}) = p - 1
    BY <1>1
  <2> QED BY ONLY <2>1, p \in 1..n, n \in Nat, k \in Nat
<1>3. k + 1 \in 1..n
  BY SMTT(20)
<1> QED BY <1>2, <1>3 DEF Nth

(* The answers of FinishedIsComplete.                                      *)
AnswerComplete ==
    answer.kind \in {"playlist", "segment", "export"} /\ answer.name[1] = "done" =>
        LET all == 1..parts[File(answer.name)]
        IN CASE answer.kind = "playlist" -> answer.index = all
             [] answer.kind = "segment" -> answer.part = answer.seq + 1
             [] answer.kind = "export" -> answer.whole => answer.copied = all

LEMMA NoneComplete ==
    ASSUME answer' = NoAnswer \/ answer' = [kind |-> "error"]
    PROVE  AnswerComplete'
BY SMTT(20) DEF NoAnswer, AnswerComplete

LEMMA AnswersComplete ==
    ASSUME FiniteSetFacts, ArchiveTyped, FinishedInv, ArchiveNext
    PROVE  AnswerComplete'
<1>n. ASSUME answer' = NoAnswer \/ answer' = [kind |-> "error"] PROVE AnswerComplete'
  BY <1>n, NoneComplete
<1>1. ASSUME \/ \E r \in Recordings :
                   \/ StartFile(r) \/ WritePart(r) \/ PartWritten(r) \/ Discard(r)
                   \/ \E d \in Spans : Finish(r, Start[r] + d)
             \/ \E n \in Names : Delete(n)
      PROVE  AnswerComplete'
  BY <1>1, <1>n, FilesTyped
<1>2. CASE InvalidateFileIndex
  BY <1>2, <1>n DEF InvalidateFileIndex, NoReply
<1>3. ASSUME NEW q \in Requests, NEW n \in Names, Begin(q, n) PROVE AnswerComplete'
  BY <1>3, <1>n DEF Begin, NoReply, Error, Answer
<1>4. ASSUME NEW q \in Requests, MissPart(q) \/ ScanEnds(q) \/ AddIndex(q) PROVE AnswerComplete'
  BY <1>4, <1>n DEF MissPart, ScanEnds, AddIndex, NoReply
<1>i. ASSUME NEW q \in Requests, req[q].pc \in {"indexed", "copy"}
      PROVE  \E r \in Recordings, n \in Nat :
                /\ r = File(req[q].name) /\ n = parts[r]
                /\ req[q].name[1] = "done" =>
                      /\ req[q].index = 1..n
                      /\ req[q].pc = "copy" => n > 0
  <2>1. req[q] # Idle
    BY <1>i, IdlePc
  <2>2. PICK r \in Recordings : r = File(req[q].name)
    BY <2>1, TypedRequest
  <2>3. PICK n \in Nat : n = parts[r]
    BY DEF ArchiveTyped, ArchiveTypeOK
  <2>4. ASSUME req[q].name[1] = "done"
        PROVE  req[q].index = 1..n /\ (req[q].pc = "copy" => req[q].index # {})
    BY <1>i, <2>1, <2>2, <2>3, <2>4 DEF FinishedInv, FinishedRequest
  <2>5. 1..n # {} => n > 0
    BY SMTT(20)
  <2> QED BY <2>2, <2>3, <2>4, <2>5
<1>5. ASSUME NEW q \in Requests, GenerateHLSPlaylist(q) PROVE AnswerComplete'
  <2>1. /\ answer' = [kind |-> "playlist", name |-> req[q].name, index |-> req[q].index]
        /\ UNCHANGED parts /\ req[q].pc = "indexed"
    BY <1>5 DEF GenerateHLSPlaylist, Answer, fileVars
  <2>2. req[q].name[1] = "done" => req[q].index = 1..parts[File(req[q].name)]
    BY <2>1, <1>i
  <2> QED BY <2>1, <2>2 DEF AnswerComplete
<1>6. ASSUME NEW q \in Requests, NEW seq \in Positions, GenerateHLSSegment(q, seq)
      PROVE  AnswerComplete'
  <2>0. seq \in Nat
    BY ArchiveAssumption, SMTT(20) DEF Positions
  <2>1. req[q].pc = "indexed"
    BY <1>6 DEF GenerateHLSSegment
  <2>2. CASE seq < Cardinality(req[q].index) /\ Exists(req[q].name)
    <3>1. answer' = [kind |-> "segment", name |-> req[q].name, seq |-> seq,
                     part |-> Nth(req[q].index, seq)]
      BY <1>6, <2>2 DEF GenerateHLSSegment, Answer
    <3>2. ASSUME req[q].name[1] = "done" PROVE Nth(req[q].index, seq) = seq + 1
      <4>1. PICK n \in Nat : req[q].index = 1..n
        BY <2>1, <1>i, <3>2
      <4>2. Cardinality(1..n) = n
        BY <4>1 DEF FiniteSetFacts
      <4>3. seq < n
        BY <2>0, <2>2, <4>1, <4>2
      <4> QED BY <2>0, <4>1, <4>3, NthOfAll
    <3> QED BY <3>1, <3>2 DEF AnswerComplete
  <2>3. CASE ~(seq < Cardinality(req[q].index) /\ Exists(req[q].name))
    BY <1>6, <2>3, <1>n DEF GenerateHLSSegment, Answer, Error
  <2> QED BY <2>2, <2>3
<1>7. ASSUME NEW q \in Requests, NEW lo, NEW hi, ExportOpen(q, lo, hi) PROVE AnswerComplete'
  BY <1>7, <1>n DEF ExportOpen, NoReply, Error, Answer
<1>8. ASSUME NEW q \in Requests, ExportCopy(q) PROVE AnswerComplete'
  <2> DEFINE idx == req[q].index
             toTheEnd == req[q].hi = Cardinality(idx) - 1
             to == IF toTheEnd THEN parts[File(req[q].name)] ELSE Nth(idx, req[q].hi + 1) - 1
  <2>1. req[q].pc = "copy" /\ UNCHANGED parts
    BY <1>8 DEF ExportCopy, fileVars
  <2>2. CASE ~(toTheEnd /\ ~Exists(req[q].name))
    <3>1. answer' = [kind |-> "export", name |-> req[q].name,
                     whole |-> req[q].lo = 0 /\ toTheEnd,
                     copied |-> Nth(idx, req[q].lo)..to,
                     torn |-> toTheEnd /\ File(req[q].name) \in torn]
      BY <1>8, <2>2 DEF ExportCopy, Answer
    <3>2. ASSUME req[q].name[1] = "done", req[q].lo = 0, toTheEnd
          PROVE  Nth(idx, req[q].lo)..to = 1..parts[File(req[q].name)]
      <4>1. PICK n \in Nat : idx = 1..n /\ n = parts[File(req[q].name)] /\ n > 0
        BY <2>1, <1>i, <3>2
      <4>2. Nth(1..n, 0) = 1
        BY <4>1, NthOfAll, SMTT(20)
      <4> QED BY <3>2, <4>1, <4>2
    <3> HIDE DEF toTheEnd, to, idx
    <3>3. answer'.kind = "export" /\ answer'.name = req[q].name
          /\ (answer'.whole => req[q].lo = 0 /\ toTheEnd) /\ answer'.copied = Nth(idx, req[q].lo)..to
      BY <3>1
    <3> QED BY <2>1, <3>2, <3>3 DEF AnswerComplete
  <2>3. CASE toTheEnd /\ ~Exists(req[q].name)
    BY <1>8, <2>3, <1>n DEF ExportCopy, Answer, Error
  <2> QED BY <2>2, <2>3
<1> QED BY <1>1, <1>2, <1>3, <1>4, <1>5, <1>6, <1>7, <1>8 DEF ArchiveNext

----------------------------------------------------------------------------
(* The index of a file that is written.  An index that is used, or about   *)
(* to be cached, lists the first parts of the file, and what it lists      *)
(* covers all that was sent, or will be by the requests that have an       *)
(* index.  Only one request at a time makes an index, and only while there *)
(* is none in the cache.                                                   *)

Growing(r) == <<"ongoing", r>>
Scanning(r, w) == w.pc = "scan" /\ w.name = Growing(r)
Adding(r, w) == w.pc = "add" /\ w.name = Growing(r)
Using(r, w) == w.pc = "indexed" /\ w.name = Growing(r)

FirstParts(r, idx) == \E k \in Nat : k <= parts[r] /\ idx = 1..k
Covers(r, idx) ==
    1..shown[r] \subseteq idx /\ \A p \in Requests : Using(r, req[p]) => req[p].index \subseteq idx

GrowingEntries(r) ==
    \A e \in Contents(cache) : e[1] = Growing(r) => FirstParts(r, e[2]) /\ Covers(r, e[2])
GrowingIndexes(r) ==
    \A q \in Requests : Using(r, req[q]) \/ Adding(r, req[q]) => FirstParts(r, req[q].index)
NothingMissed(r) == \A q \in Requests : Scanning(r, req[q]) => req[q].missed = {}
AddedCovers(r) == \A q \in Requests : Adding(r, req[q]) => Covers(r, req[q].index)
OneIndexer(r) ==
    \A q \in Requests : Scanning(r, req[q]) \/ Adding(r, req[q]) =>
        /\ \A e \in Contents(cache) : e[1] # Growing(r)
        /\ \A p \in Requests : Scanning(r, req[p]) \/ Adding(r, req[p]) => p = q

GrowingSound(r) ==
    r \notin contended =>
        /\ shown[r] <= parts[r]
        /\ GrowingEntries(r)
        /\ GrowingIndexes(r)
        /\ NothingMissed(r)
        /\ AddedCovers(r)
        /\ OneIndexer(r)

(* A step that makes no index of the file, sends no playlist of it, and    *)
(* takes no index out of the cache.                                        *)
LEMMA GrowingAside ==
    ASSUME ArchiveTyped, NEW r \in Recordings, GrowingSound(r),
           parts'[r] \in Nat, parts'[r] >= parts[r], shown'[r] = shown[r],
           r \notin contended' => r \notin contended,
           \A e \in Contents(cache') : e[1] = Growing(r) => e \in Contents(cache),
           \A p \in Requests :
              \/ req'[p] = req[p]
              \/ ~Scanning(r, req'[p]) /\ ~Adding(r, req'[p]) /\ ~Using(r, req'[p])
    PROVE  GrowingSound(r)'
<1>0. SUFFICES ASSUME r \notin contended' PROVE GrowingSound(r)'
  BY DEF GrowingSound
<1>1. /\ shown[r] <= parts[r] /\ GrowingEntries(r) /\ GrowingIndexes(r)
      /\ NothingMissed(r) /\ AddedCovers(r) /\ OneIndexer(r)
  BY <1>0 DEF GrowingSound
<1>2. parts[r] \in Nat /\ shown[r] \in Nat
  BY DEF ArchiveTyped, ArchiveTypeOK
<1>3. ASSUME NEW idx, FirstParts(r, idx) PROVE FirstParts(r, idx)'
  BY <1>2, <1>3, SMTT(20) DEF FirstParts
<1>4. ASSUME NEW idx, Covers(r, idx) PROVE Covers(r, idx)'
  BY <1>4 DEF Covers, Scanning, Adding, Using, Growing
<1>5. \A p \in Requests : Scanning(r, req'[p]) \/ Adding(r, req'[p]) \/ Using(r, req'[p])
                             => req'[p] = req[p]
  OBVIOUS
<1>6. GrowingEntries(r)'
  BY <1>1, <1>3, <1>4 DEF GrowingEntries, Contents, Growing
<1>7. GrowingIndexes(r)'
  BY <1>1, <1>3, <1>5 DEF GrowingIndexes, Using, Adding, Growing
<1>8. NothingMissed(r)'
  BY <1>1, <1>5 DEF NothingMissed, Scanning, Growing
<1>9. AddedCovers(r)'
  BY <1>1, <1>4, <1>5 DEF AddedCovers, Adding, Growing
<1>10. OneIndexer(r)'
  BY <1>1, <1>5, SMTT(20) DEF OneIndexer, Scanning, Adding, Growing, Contents
<1>11. shown'[r] <= parts'[r]
  BY <1>1, <1>2, SMTT(20)
<1> QED BY <1>6, <1>7, <1>8, <1>9, <1>10, <1>11 DEF GrowingSound

LEMMA FoundGrowing ==
    ASSUME ArchiveTyped, NEW r \in Recordings, GrowingSound(r), NEW q \in Requests,
           NEW idx \in SUBSET Nat, Found(q, Growing(r), idx)
    PROVE  GrowingSound(r)'
<1>0. SUFFICES ASSUME r \notin contended PROVE GrowingSound(r)'
  BY DEF GrowingSound, Found, historyVars
<1>1. /\ shown[r] <= parts[r] /\ GrowingEntries(r) /\ GrowingIndexes(r)
      /\ NothingMissed(r) /\ AddedCovers(r) /\ OneIndexer(r)
  BY <1>0 DEF GrowingSound
<1>u. UNCHANGED <<shown, parts>> /\ cache' = Touched(Growing(r), idx)
      /\ req' = [req EXCEPT ![q] = [pc |-> "indexed", name |-> Growing(r), index |-> idx, missed |-> {}]]
  BY DEF Found, fileVars, historyVars
<1>2. <<Growing(r), idx>> \in Contents(cache) /\ <<Growing(r), idx>> \in Entry
      /\ Position(Growing(r)) # {}
  BY CachedIndex DEF Found, Entry, Cached, Names, Growing
<1>3. Contents(cache') = {<<Growing(r), idx>>} \cup {e \in Contents(cache) : e[1] # Growing(r)}
  BY <1>u, <1>2, TypedCache, TouchedCache
<1>4. FirstParts(r, idx) /\ Covers(r, idx)
  BY <1>1, <1>2 DEF GrowingEntries
<1>5. \A p \in Requests : ~Scanning(r, req[p]) /\ ~Adding(r, req[p])
  BY <1>1, <1>2 DEF OneIndexer
<1>6. req'[q].pc = "indexed" /\ req'[q].index = idx /\ (\A p \in Requests : p # q => req'[p] = req[p])
  BY <1>u DEF ArchiveTyped
<1>7. \A p \in Requests : ~Scanning(r, req'[p]) /\ ~Adding(r, req'[p])
  BY <1>5, <1>6 DEF Scanning, Adding
<1>8. FirstParts(r, idx)' /\ Covers(r, idx)'
  BY <1>u, <1>4, <1>6 DEF FirstParts, Covers, Using, Growing
<1>9. GrowingEntries(r)'
  BY <1>3, <1>8, SMTT(20) DEF GrowingEntries, Contents, Growing
<1>10. GrowingIndexes(r)'
  <2>1. ASSUME NEW p \in Requests, Using(r, req'[p]) PROVE FirstParts(r, req[p].index)'
    <3>1. CASE p = q
      BY <1>6, <1>8, <3>1
    <3>2. CASE p # q
      BY <1>1, <1>6, <1>u, <2>1, <3>2 DEF GrowingIndexes, FirstParts
    <3> QED BY <3>1, <3>2
  <2> QED BY <2>1, <1>7 DEF GrowingIndexes, Using, Adding, Growing
<1>11. NothingMissed(r)' /\ AddedCovers(r)' /\ OneIndexer(r)'
  BY <1>7 DEF NothingMissed, AddedCovers, OneIndexer, Scanning, Adding, Growing
<1> QED BY <1>1, <1>u, <1>9, <1>10, <1>11 DEF GrowingSound

LEMMA OpenedGrowing ==
    ASSUME ArchiveTyped, NEW r \in Recordings, GrowingSound(r), NEW q \in Requests,
           Opened(q, Growing(r))
    PROVE  GrowingSound(r)'
<1>0. SUFFICES ASSUME r \notin contended' PROVE GrowingSound(r)'
  BY DEF GrowingSound
<1>g. Growing(r)[1] = "ongoing" /\ File(Growing(r)) = r /\ Growing(r) \in Names
  BY DEF Growing, File, Names
<1>i. r \notin contended /\ Indexing(Growing(r)) = {}
  BY <1>0, <1>g DEF Opened
<1>1. /\ shown[r] <= parts[r] /\ GrowingEntries(r) /\ GrowingIndexes(r)
      /\ NothingMissed(r) /\ AddedCovers(r) /\ OneIndexer(r)
  BY <1>i DEF GrowingSound
<1>u. UNCHANGED <<shown, parts, cache>>
      /\ req' = [req EXCEPT ![q] = [pc |-> "scan", name |-> Growing(r), index |-> {}, missed |-> {}]]
  BY DEF Opened, fileVars
<1>2. \A e \in Contents(cache) : e[1] # Growing(r)
  BY NotCached DEF Opened
<1>3. \A p \in Requests : ~Scanning(r, req[p]) /\ ~Adding(r, req[p])
  BY <1>i DEF Indexing, Scanning, Adding
<1>4. req'[q].pc = "scan" /\ req'[q].missed = {} /\ (\A p \in Requests : p # q => req'[p] = req[p])
  BY <1>u DEF ArchiveTyped
<1>5. \A p \in Requests : ~Adding(r, req'[p]) /\ (Scanning(r, req'[p]) => p = q)
  BY <1>3, <1>4 DEF Adding
<1>6. GrowingEntries(r)' /\ (\A e \in Contents(cache)' : e[1] # Growing(r))
  BY <1>u, <1>2 DEF GrowingEntries, Contents, Growing
<1>7. GrowingIndexes(r)'
  BY <1>1, <1>u, <1>4, <1>5 DEF GrowingIndexes, FirstParts, Using, Adding, Growing
<1>8. NothingMissed(r)' /\ AddedCovers(r)'
  BY <1>4, <1>5 DEF NothingMissed, AddedCovers, Scanning, Adding, Growing
<1>9. OneIndexer(r)'
  BY <1>5, <1>6 DEF OneIndexer, Scanning, Adding, Growing
<1> QED BY <1>1, <1>u, <1>6, <1>7, <1>8, <1>9 DEF GrowingSound

LEMMA ScannedGrowing ==
    ASSUME FiniteSetFacts, ArchiveTyped, NEW r \in Recordings, GrowingSound(r), NEW q \in Requests,
           ScanEnds(q), req[q].name = Growing(r)
    PROVE  GrowingSound(r)'
<1>u. UNCHANGED <<shown, parts, cache, contended>>
  BY DEF ScanEnds, fileVars, historyVars
<1>0. SUFFICES ASSUME r \notin contended PROVE GrowingSound(r)'
  BY <1>u DEF GrowingSound
<1>1. /\ shown[r] <= parts[r] /\ GrowingEntries(r) /\ GrowingIndexes(r)
      /\ NothingMissed(r) /\ AddedCovers(r) /\ OneIndexer(r)
  BY <1>0 DEF GrowingSound
<1>n. parts[r] \in Nat /\ shown[r] \in Nat
  BY DEF ArchiveTyped, ArchiveTypeOK
<1>2. PICK w \in Early :
              /\ req' = [req EXCEPT ![q] = w]
              /\ w.pc = "add" /\ req[q].pc = "scan" /\ w.name = req[q].name
              /\ w.index = (1..parts[File(req[q].name)]) \ req[q].missed
  BY Scanned
<1>3. Scanning(r, req[q])
  BY <1>2 DEF Scanning
<1>4. w.index = 1..parts[r]
  BY <1>1, <1>2, <1>3, SMTT(20) DEF NothingMissed, Growing, File
<1>5. req'[q] = w /\ (\A p \in Requests : p # q => req'[p] = req[p])
  BY <1>2 DEF ArchiveTyped
<1>6. \A p \in Requests : p # q => ~Scanning(r, req'[p]) /\ ~Adding(r, req'[p])
  BY <1>1, <1>3, <1>5 DEF OneIndexer
<1>7. ~Scanning(r, req'[q]) /\ ~Using(r, req'[q])
  BY <1>2, <1>5 DEF Scanning, Using
<1>8. FirstParts(r, 1..parts[r])
  BY <1>n, SMTT(20) DEF FirstParts
<1>9. Covers(r, 1..parts[r])
  <2>1. 1..shown[r] \subseteq 1..parts[r]
    BY <1>1, <1>n, SMTT(20)
  <2>2. ASSUME NEW p \in Requests, Using(r, req[p]) PROVE req[p].index \subseteq 1..parts[r]
    BY <1>1, <1>n, <2>2, SMTT(20) DEF GrowingIndexes, FirstParts
  <2> QED BY <2>1, <2>2 DEF Covers
<1>c. ASSUME NEW idx, Covers(r, idx) PROVE Covers(r, idx)'
  BY <1>c, <1>u, <1>5, <1>7 DEF Covers, Using, Growing
<1>f. ASSUME NEW idx, FirstParts(r, idx) PROVE FirstParts(r, idx)'
  BY <1>f, <1>u DEF FirstParts
<1>10. GrowingEntries(r)' /\ (\A e \in Contents(cache)' : e[1] # Growing(r))
  BY <1>1, <1>3, <1>u DEF OneIndexer, GrowingEntries, Contents, Growing
<1>11. GrowingIndexes(r)'
  <2>1. ASSUME NEW p \in Requests, p # q, Using(r, req'[p]) PROVE FirstParts(r, req[p].index)'
    BY <1>1, <1>5, <1>f, <2>1 DEF GrowingIndexes
  <2>2. FirstParts(r, req[q].index)'
    BY <1>4, <1>5, <1>8, <1>f
  <2> QED BY <1>6, <2>1, <2>2 DEF GrowingIndexes, Using, Adding, Growing
<1>12. NothingMissed(r)'
  BY <1>6, <1>7 DEF NothingMissed, Scanning, Growing
<1>13. Covers(r, req[q].index)'
  BY <1>4, <1>5, <1>9, <1>c
<1>14. AddedCovers(r)'
  BY <1>6, <1>13 DEF AddedCovers, Adding, Growing
<1>15. OneIndexer(r)'
  BY <1>6, <1>10 DEF OneIndexer, Scanning, Adding, Growing
<1> QED BY <1>1, <1>u, <1>10, <1>11, <1>12, <1>14, <1>15 DEF GrowingSound

LEMMA AddedGrowing ==
    ASSUME ArchiveTyped, NEW r \in Recordings, GrowingSound(r), NEW q \in Requests,
           AddIndex(q), req[q].name = Growing(r)
    PROVE  GrowingSound(r)'
<1>u. UNCHANGED <<shown, parts, contended>>
  BY DEF AddIndex, fileVars, historyVars
<1>0. SUFFICES ASSUME r \notin contended PROVE GrowingSound(r)'
  BY <1>u DEF GrowingSound
<1>1. /\ shown[r] <= parts[r] /\ GrowingEntries(r) /\ GrowingIndexes(r)
      /\ NothingMissed(r) /\ AddedCovers(r) /\ OneIndexer(r)
  BY <1>0 DEF GrowingSound
<1>2. PICK w \in Early :
              /\ req' = [req EXCEPT ![q] = w]
              /\ w.pc = "indexed" /\ req[q].pc = "add" /\ req[q] # Idle
              /\ w.name = req[q].name /\ w.index = req[q].index
  BY Indexed
<1>3. PICK idx \in SUBSET Nat : idx = req[q].index
  BY <1>2, TypedRequest
<1>4. cache' = Added(Growing(r), idx) /\ <<Growing(r), idx>> \in Entry
  BY <1>3 DEF AddIndex, Entry, Names, Growing
<1>5. Contents(cache') \subseteq {<<Growing(r), idx>>} \cup {e \in Contents(cache) : e[1] # Growing(r)}
  BY <1>4, TypedCache, AddedCache
<1>6. Adding(r, req[q])
  BY <1>2 DEF Adding
<1>7. FirstParts(r, idx) /\ Covers(r, idx)
  BY <1>1, <1>3, <1>6 DEF GrowingIndexes, AddedCovers
<1>8. req'[q] = w /\ (\A p \in Requests : p # q => req'[p] = req[p])
  BY <1>2 DEF ArchiveTyped
<1>9. \A p \in Requests : ~Scanning(r, req'[p]) /\ ~Adding(r, req'[p])
  BY <1>1, <1>2, <1>6, <1>8 DEF OneIndexer, Scanning, Adding
<1>10. Covers(r, idx)'
  BY <1>u, <1>2, <1>3, <1>7, <1>8 DEF Covers, Using, Growing
<1>f. ASSUME NEW i, FirstParts(r, i) PROVE FirstParts(r, i)'
  BY <1>f, <1>u DEF FirstParts
<1>11. GrowingEntries(r)'
  BY <1>5, <1>7, <1>f, <1>10, SMTT(20) DEF GrowingEntries, Contents, Growing
<1>12. GrowingIndexes(r)'
  <2>1. ASSUME NEW p \in Requests, p # q, Using(r, req'[p]) PROVE FirstParts(r, req[p].index)'
    BY <1>1, <1>8, <1>f, <2>1 DEF GrowingIndexes
  <2>2. FirstParts(r, req[q].index)'
    BY <1>2, <1>3, <1>7, <1>8, <1>f
  <2> QED BY <1>9, <2>1, <2>2 DEF GrowingIndexes, Using, Adding, Growing
<1>13. NothingMissed(r)' /\ AddedCovers(r)' /\ OneIndexer(r)'
  BY <1>9 DEF NothingMissed, AddedCovers, OneIndexer, Scanning, Adding, Growing
<1> QED BY <1>1, <1>u, <1>11, <1>12, <1>13 DEF GrowingSound

LEMMA PlaylistGrowing ==
    ASSUME FiniteSetFacts, ArchiveTyped, NEW r \in Recordings, GrowingSound(r), NEW q \in Requests,
           GenerateHLSPlaylist(q), req[q].name = Growing(r)
    PROVE  GrowingSound(r)'
<1>u. UNCHANGED <<parts, contended, cache>> /\ req' = [req EXCEPT ![q] = Idle]
  BY DEF GenerateHLSPlaylist, fileVars, Answer
<1>0. SUFFICES ASSUME r \notin contended PROVE GrowingSound(r)'
  BY <1>u DEF GrowingSound
<1>1. /\ shown[r] <= parts[r] /\ GrowingEntries(r) /\ GrowingIndexes(r)
      /\ NothingMissed(r) /\ AddedCovers(r) /\ OneIndexer(r)
  BY <1>0 DEF GrowingSound
<1>n. parts[r] \in Nat /\ shown[r] \in Nat /\ shown \in [Recordings -> Nat]
  BY DEF ArchiveTyped, ArchiveTypeOK
<1>2. Using(r, req[q]) /\ req[q].pc = "indexed"
  BY DEF Using, GenerateHLSPlaylist
<1>3. PICK k \in Nat : k <= parts[r] /\ req[q].index = 1..k
  BY <1>1, <1>2 DEF GrowingIndexes, FirstParts
<1>4. Cardinality(req[q].index) = k
  BY <1>3 DEF FiniteSetFacts
<1>5. shown' = [shown EXCEPT ![r] = IF @ >= k THEN @ ELSE k]
  BY <1>4, PlaylistSent, SMTT(20) DEF Growing, File
<1>6. shown'[r] = IF shown[r] >= k THEN shown[r] ELSE k
  BY <1>n, <1>5
<1>7. shown'[r] <= parts'[r]
  BY <1>1, <1>3, <1>6, <1>u
<1>8. ASSUME NEW idx, Covers(r, idx) PROVE 1..shown'[r] \subseteq idx
  <2>1. 1..shown[r] \subseteq idx /\ 1..k \subseteq idx
    BY <1>2, <1>3, <1>8 DEF Covers
  <2> QED BY <1>6, <2>1
<1>9. ~Scanning(r, req'[q]) /\ ~Adding(r, req'[q]) /\ ~Using(r, req'[q])
      /\ (\A p \in Requests : p # q => req'[p] = req[p])
  BY <1>u, IdlePc DEF ArchiveTyped, Scanning, Adding, Using
<1>c. ASSUME NEW idx, Covers(r, idx) PROVE Covers(r, idx)'
  BY <1>8, <1>9, <1>c DEF Covers, Using, Growing
<1>f. ASSUME NEW i, FirstParts(r, i) PROVE FirstParts(r, i)'
  BY <1>f, <1>u DEF FirstParts
<1>10. GrowingEntries(r)'
  BY <1>1, <1>u, <1>c, <1>f DEF GrowingEntries, Contents, Growing
<1>11. GrowingIndexes(r)'
  BY <1>1, <1>9, <1>f DEF GrowingIndexes, Using, Adding, Growing
<1>12. NothingMissed(r)' /\ AddedCovers(r)'
  BY <1>1, <1>9, <1>c DEF NothingMissed, AddedCovers, Scanning, Adding, Growing
<1>13. OneIndexer(r)'
  <2>1. ASSUME NEW p \in Requests, Scanning(r, req'[p]) \/ Adding(r, req'[p])
        PROVE  p # q /\ (Scanning(r, req[p]) \/ Adding(r, req[p]))
    BY <1>9, <2>1
  <2>2. Contents(cache') = Contents(cache) /\ Growing(r)' = Growing(r)
    BY <1>u DEF Contents, Growing
  <2> QED BY <1>1, <2>1, <2>2 DEF OneIndexer, Scanning, Adding
<1> QED BY <1>7, <1>10, <1>11, <1>12, <1>13 DEF GrowingSound

LEMMA RequestsGrowing ==
    ASSUME FiniteSetFacts, ArchiveTyped, NEW r \in Recordings, GrowingSound(r), NEW q \in Requests, RequestStep(q)
    PROVE  GrowingSound(r)'
<1>n. parts[r] \in Nat /\ shown \in [Recordings -> Nat]
  BY DEF ArchiveTyped, ArchiveTypeOK
<1>a. ASSUME NEW w, req' = [req EXCEPT ![q] = w],
             w.pc \notin {"scan", "add", "indexed"} \/ w.name # Growing(r)
      PROVE  \A p \in Requests :
                \/ req'[p] = req[p]
                \/ ~Scanning(r, req'[p]) /\ ~Adding(r, req'[p]) /\ ~Using(r, req'[p])
  BY <1>a DEF ArchiveTyped, Scanning, Adding, Using
<1>b. ASSUME NEW w, req' = [req EXCEPT ![q] = w],
             w.pc \notin {"scan", "add", "indexed"} \/ w.name # Growing(r),
             UNCHANGED parts, shown'[r] = shown[r], contended \subseteq contended',
             \A e \in Contents(cache') : e[1] = Growing(r) => e \in Contents(cache)
      PROVE  GrowingSound(r)'
  <2>1. \A p \in Requests :
           \/ req'[p] = req[p]
           \/ ~Scanning(r, req'[p]) /\ ~Adding(r, req'[p]) /\ ~Using(r, req'[p])
    BY <1>a, <1>b
  <2>2. parts'[r] \in Nat /\ parts'[r] >= parts[r] /\ (r \notin contended' => r \notin contended)
    BY <1>n, <1>b, SMTT(20)
  <2> HIDE DEF GrowingSound
  <2> QED BY <2>1, <2>2, <1>b, GrowingAside
<1>1. ASSUME NEW name \in Names, NEW idx \in SUBSET Nat, Found(q, name, idx)
      PROVE  GrowingSound(r)'
  <2>1. CASE name = Growing(r)
    BY <1>1, <2>1, FoundGrowing
  <2>2. CASE name # Growing(r)
    <3>1. <<name, idx>> \in Contents(cache) /\ <<name, idx>> \in Entry /\ Position(name) # {}
      BY <1>1, CachedIndex DEF Found, Entry, Cached
    <3>2. Contents(cache') = {<<name, idx>>} \cup {e \in Contents(cache) : e[1] # name}
      BY <1>1, <3>1, TypedCache, TouchedCache DEF Found
    <3>3. \A e \in Contents(cache') : e \in Contents(cache)
      BY <3>1, <3>2
    <3> DEFINE w == [pc |-> "indexed", name |-> name, index |-> idx, missed |-> {}]
    <3>4. UNCHANGED <<parts, shown, contended>> /\ req' = [req EXCEPT ![q] = w] /\ w.name # Growing(r)
      BY <1>1, <2>2 DEF Found, fileVars, historyVars
    <3> HIDE DEF w
    <3> QED BY <1>b, <3>3, <3>4
  <2> QED BY <2>1, <2>2
<1>2. ASSUME NEW name \in Names, Opened(q, name) PROVE GrowingSound(r)'
  <2>1. CASE name = Growing(r)
    BY <1>2, <2>1, OpenedGrowing
  <2>2. CASE name # Growing(r)
    <3> DEFINE w == [pc |-> "scan", name |-> name, index |-> {}, missed |-> {}]
    <3>1. /\ UNCHANGED <<parts, shown, cache>> /\ contended \subseteq contended'
          /\ req' = [req EXCEPT ![q] = w] /\ w.name # Growing(r)
      BY <1>2, <2>2 DEF Opened, fileVars
    <3> HIDE DEF w
    <3> QED BY <1>b, <3>1
  <2> QED BY <2>1, <2>2
<1>3. ASSUME MissPart(q) PROVE GrowingSound(r)'
  <2>1. UNCHANGED <<parts, shown, cache>> /\ contended' = contended \cup {File(req[q].name)}
    BY <1>3 DEF MissPart, fileVars
  <2>2. PICK w \in Early : req' = [req EXCEPT ![q] = w] /\ w.name = req[q].name
    BY <1>3, Missed
  <2>3. CASE req[q].name = Growing(r)
    BY <2>1, <2>3, SMTT(20) DEF Growing, File, GrowingSound
  <2>4. CASE req[q].name # Growing(r)
    BY <1>b, <2>1, <2>2, <2>4
  <2> QED BY <2>3, <2>4
<1>4. ASSUME ScanEnds(q) PROVE GrowingSound(r)'
  <2>1. UNCHANGED <<parts, shown, cache, contended>>
    BY <1>4 DEF ScanEnds, fileVars, historyVars
  <2>2. PICK w \in Early : req' = [req EXCEPT ![q] = w] /\ w.name = req[q].name
    BY <1>4, Scanned
  <2>3. CASE req[q].name = Growing(r)
    BY <1>4, <2>3, ScannedGrowing
  <2>4. CASE req[q].name # Growing(r)
    BY <1>b, <2>1, <2>2, <2>4
  <2> QED BY <2>3, <2>4
<1>5. ASSUME AddIndex(q) PROVE GrowingSound(r)'
  <2>1. PICK w \in Early : req' = [req EXCEPT ![q] = w] /\ w.name = req[q].name /\ req[q] # Idle
    BY <1>5, Indexed
  <2>2. PICK name \in Names, idx \in SUBSET Nat : name = req[q].name /\ idx = req[q].index
    BY <2>1, TypedRequest
  <2>3. UNCHANGED <<parts, shown, contended>> /\ cache' = Added(name, idx) /\ <<name, idx>> \in Entry
    BY <1>5, <2>2 DEF AddIndex, fileVars, historyVars, Entry
  <2>4. Contents(cache') \subseteq {<<name, idx>>} \cup {e \in Contents(cache) : e[1] # name}
    BY <2>3, TypedCache, AddedCache
  <2>5. CASE req[q].name = Growing(r)
    BY <1>5, <2>5, AddedGrowing
  <2>6. CASE req[q].name # Growing(r)
    <3>1. \A e \in Contents(cache') : e[1] = Growing(r) => e \in Contents(cache)
      BY <2>2, <2>4, <2>6, SMTT(20)
    <3> QED BY <1>b, <2>1, <2>3, <2>6, <3>1
  <2> QED BY <2>5, <2>6
<1>6. ASSUME NEW w, Exporting(q, w) PROVE GrowingSound(r)'
  <2>1. UNCHANGED <<parts, shown, cache, contended>> /\ req' = [req EXCEPT ![q] = w] /\ w.pc = "copy"
    BY <1>6 DEF Exporting, fileVars, historyVars
  <2> QED BY <1>b, <2>1
<1>7. ASSUME Answered(q) PROVE GrowingSound(r)'
  <2>1. UNCHANGED <<parts, cache, contended>> /\ req' = [req EXCEPT ![q] = Idle]
    BY <1>7 DEF Answered, fileVars
  <2>2. CASE shown'[r] = shown[r]
    BY <1>b, <2>1, <2>2, IdlePc
  <2>3. CASE shown'[r] # shown[r]
    <3>1. GenerateHLSPlaylist(q)
      BY <1>7, <2>3 DEF Answered
    <3>2. req[q].name[1] # "done" /\ r = File(req[q].name) /\ req[q].name \in Names
      BY <1>n, <2>3, <3>1, PlaylistSent
    <3>3. req[q].name = Growing(r)
      BY <3>2, TypedNames DEF Growing
    <3> QED BY <3>1, <3>3, PlaylistGrowing
  <2> QED BY <2>2, <2>3
<1> QED BY <1>1, <1>2, <1>3, <1>4, <1>5, <1>6, <1>7 DEF RequestStep

----------------------------------------------------------------------------
(* The archive as a whole.                                                 *)

ArchiveInv ==
    /\ ArchiveTyped
    /\ FinishedInv
    /\ AnswerComplete
    /\ \A r \in Recordings : GrowingSound(r)

LEMMA ArchiveInitInv == ArchiveInit => ArchiveInv
<1> SUFFICES ASSUME ArchiveInit PROVE ArchiveInv
  OBVIOUS
<1>1. ArchiveTypeOK
  BY ArchiveAssumption, SMTT(20) DEF ArchiveInit, ArchiveTypeOK, Places
<1>2. Contents(cache) = {} /\ Once(cache)
  BY SMTT(20) DEF ArchiveInit, Contents, Once
<1>3. \A q \in Requests : req[q] = Idle
  BY DEF ArchiveInit
<1>4. ArchiveTyped
  BY <1>1, <1>2, <1>3, ArchiveAssumption, SMTT(20) DEF ArchiveInit, ArchiveTyped, RequestTyped
<1>5. FinishedInv
  BY <1>2, <1>3 DEF FinishedInv, FinishedRequest
<1>6. AnswerComplete
  BY DEF ArchiveInit, NoAnswer, AnswerComplete
<1>7. ASSUME NEW r \in Recordings PROVE GrowingSound(r)
  BY <1>2, <1>3, IdlePc, SMTT(20) DEF ArchiveInit, GrowingSound, GrowingEntries, GrowingIndexes, NothingMissed,
     AddedCovers, OneIndexer, Scanning, Adding, Using
<1> QED BY <1>4, <1>5, <1>6, <1>7 DEF ArchiveInv

LEMMA ArchiveNextInv ==
    ASSUME FiniteSetFacts
    PROVE  ArchiveInv /\ [ArchiveNext]_archiveVars => ArchiveInv'
<1> SUFFICES ASSUME ArchiveInv, [ArchiveNext]_archiveVars PROVE ArchiveInv'
  OBVIOUS
<1>i. ArchiveTyped /\ FinishedInv /\ AnswerComplete /\ \A r \in Recordings : GrowingSound(r)
  BY DEF ArchiveInv
<1>a. ASSUME ArchiveNext PROVE AnswerComplete'
  BY <1>a, <1>i, AnswersComplete
<1>n. parts \in [Recordings -> Nat] /\ shown \in [Recordings -> Nat] /\ at \in [Recordings -> Places]
  BY <1>i DEF ArchiveTyped, ArchiveTypeOK
<1>1. ASSUME \/ \E r \in Recordings :
                   \/ StartFile(r) \/ WritePart(r) \/ PartWritten(r) \/ Discard(r)
                   \/ \E d \in Spans : Finish(r, Start[r] + d)
             \/ \E n \in Names : Delete(n)
      PROVE  ArchiveTyped' /\ FinishedInv' /\ \A r \in Recordings : GrowingSound(r)'
  <2>1. ArchiveTyped' /\ FileStep
    BY <1>1, <1>i, FilesTyped
  <2>2. \/ /\ UNCHANGED <<removing, late>>
           /\ \A r \in Recordings : at[r] = "done" => at'[r] = "done"
        \/ \E n \in Names : Delete(n)
    <3>1. ASSUME NEW r \in Recordings,
                 \/ StartFile(r) \/ WritePart(r) \/ PartWritten(r) \/ Discard(r)
                 \/ \E d \in Spans : Finish(r, Start[r] + d)
          PROVE  UNCHANGED <<removing, late>> /\ \A s \in Recordings : at[s] = "done" => at'[s] = "done"
      BY <3>1, <1>n DEF StartFile, WritePart, PartWritten, Discard, Finish, historyVars
    <3> QED BY <1>1, <3>1
  <2>3. FinishedInv'
    BY <1>i, <2>1, <2>2, FilesFinished
  <2>4. ASSUME NEW r \in Recordings PROVE GrowingSound(r)'
    <3>1. UNCHANGED <<shown, contended>>
      BY <1>1 DEF StartFile, WritePart, PartWritten, Discard, Finish, Delete, historyVars
    <3>2. parts'[r] \in Nat /\ parts'[r] >= parts[r] /\ UNCHANGED <<cache, req>>
      BY <2>1 DEF FileStep, ArchiveTyped, ArchiveTypeOK
    <3> QED BY <1>i, <3>1, <3>2, GrowingAside
  <2> QED BY <2>1, <2>3, <2>4
<1>2. ASSUME InvalidateFileIndex
      PROVE  ArchiveTyped' /\ FinishedInv' /\ \A r \in Recordings : GrowingSound(r)'
  <2>1. UNCHANGED <<parts, shown, contended, req>> /\ cache' = WithoutIndex(removing)
    BY <1>2 DEF InvalidateFileIndex, fileVars, historyVars
  <2>2. \A e \in Contents(cache') : e \in Contents(cache)
    BY <2>1, <1>i, TypedCache, WithoutName
  <2>3. ASSUME NEW r \in Recordings PROVE GrowingSound(r)'
    <3>1. parts'[r] \in Nat /\ parts'[r] >= parts[r]
      BY <1>n, <2>1, SMTT(20)
    <3> QED BY <1>i, <2>1, <2>2, <3>1, GrowingAside
  <2> QED BY <1>2, <1>i, <2>3, InvalidateFinished
<1>3. ASSUME NEW q \in Requests, RequestStep(q)
      PROVE  ArchiveTyped' /\ FinishedInv' /\ \A r \in Recordings : GrowingSound(r)'
  BY <1>3, <1>i, RequestsTyped, RequestsFinished, RequestsGrowing
<1>4. CASE ArchiveNext
  <2>1. \/ \/ \E r \in Recordings :
                 \/ StartFile(r) \/ WritePart(r) \/ PartWritten(r) \/ Discard(r)
                 \/ \E d \in Spans : Finish(r, Start[r] + d)
           \/ \E n \in Names : Delete(n)
        \/ InvalidateFileIndex
        \/ \E q \in Requests : RequestStep(q)
    BY <1>4, <1>i, RequestSteps DEF ArchiveNext
  <2> QED BY <1>1, <1>2, <1>3, <1>4, <1>a, <2>1 DEF ArchiveInv
<1>5. CASE UNCHANGED archiveVars
  <2>1. UNCHANGED <<at, parts, torn, end, cache, req, answer, removing, shown, contended, late>>
    BY <1>5 DEF archiveVars, fileVars, historyVars
  <2>2. ArchiveTyped'
    BY <1>i, <2>1, SMTT(20) DEF ArchiveTyped, ArchiveTypeOK, Once, RequestTyped, Contents
  <2>3. FinishedInv'
    BY <1>i, <2>1, SMTT(20) DEF FinishedInv, FinishedEntry, FinishedRequest, Settled, Exists, Contents
  <2>4. AnswerComplete'
    BY <1>i, <2>1 DEF AnswerComplete
  <2>5. ASSUME NEW r \in Recordings PROVE GrowingSound(r)'
    <3>1. parts'[r] \in Nat /\ parts'[r] >= parts[r]
      BY <1>n, <2>1, SMTT(20)
    <3> QED BY <1>i, <2>1, <3>1, GrowingAside
  <2> QED BY <2>2, <2>3, <2>4, <2>5 DEF ArchiveInv
<1> QED BY <1>4, <1>5

LEMMA Division ==
    ASSUME NEW n \in Nat, NEW d \in Nat, d > 0
    PROVE  \E a \in Int, x \in 0..d - 1 : n = d * a + x /\ x = n % d
BY SMTT(20)

(* The day that GetCameraArchive works out for the end of a recording.     *)
LEMMA EndOfRecording ==
    ASSUME NEW s \in Nat, NEW e \in Nat, s <= e, e - s < Day
    PROVE  EndTime(s, e % Day) = e
<1>d. Day \in Nat /\ Day > 0
  BY ArchiveAssumption, SMTT(20)
<1>1. PICK a \in Int, x \in 0..Day - 1 : s = Day * a + x /\ x = s % Day
  BY <1>d, Division
<1>2. PICK b \in Int, y \in 0..Day - 1 : e = Day * b + y /\ y = e % Day
  BY <1>d, Division
<1>3. PICK c \in Int : b = a + c
  BY <1>1, <1>2, SMTT(20)
<1>4. Day * b = Day * a + Day * c
  BY <1>d, <1>3, SMTT(20)
<1>5. PICK m \in Int : m = Day * c
  BY <1>d, SMTT(20)
<1>6. -Day < m /\ m < 2 * Day
  BY <1>d, <1>1, <1>2, <1>4, <1>5, SMTT(20)
<1>7. c <= -1 => m <= -Day
  BY <1>d, <1>5, SMTT(20)
<1>8. c >= 2 => m >= 2 * Day
  BY <1>d, <1>5, SMTT(20)
<1>9. c = 0 \/ c = 1
  BY <1>6, <1>7, <1>8, <1>d, SMTT(20)
<1>10. m = 0 \/ m = Day
  BY <1>9, <1>5, <1>d, SMTT(20)
<1>11. s - (s % Day) + (e % Day) = e - m
  BY <1>1, <1>2, <1>4, <1>5, <1>d, SMTT(20)
<1> QED BY <1>10, <1>11, <1>d, SMTT(20) DEF EndTime

-----------------------------------------------------------------------------
(* What holds of the system.                                               *)

INSTANCE FiniteSetTheorems

LEMMA FiniteSetsSound == FiniteSetFacts
<1>1. IsFiniteSet({}) /\ Cardinality({}) = 0
  BY FS_EmptySet
<1>2. \A S : IsFiniteSet(S) => Cardinality(S) \in Nat
  BY FS_CardinalityType
<1>3. \A S, T : IsFiniteSet(S) /\ T \subseteq S => IsFiniteSet(T)
  BY FS_Subset
<1>4. \A S, x : IsFiniteSet(S) =>
          /\ Cardinality(S \cup {x}) = IF x \in S THEN Cardinality(S) ELSE Cardinality(S) + 1
          /\ Cardinality(S \ {x}) = IF x \in S THEN Cardinality(S) - 1 ELSE Cardinality(S)
  BY FS_AddElement, FS_RemoveElement
<1>5. ASSUME NEW n \in Nat PROVE IsFiniteSet(1..n) /\ Cardinality(1..n) = n
  <2>1. IsFiniteSet(1..n) /\ Cardinality(1..n) = IF 1 > n THEN 0 ELSE n - 1 + 1
    BY FS_Interval, SMTT(20)
  <2> QED BY <2>1, SMTT(20)
<1> QED BY <1>1, <1>2, <1>3, <1>4, <1>5 DEF FiniteSetFacts

LEMMA InductiveInv == Spec => []IngestInv
BY InitInv, NextInv, FiniteSetsSound, PTL DEF Spec

(* No failed, stopped or repeated connection eats a dial slot or gives one *)
(* back twice, and the ActiveStreams gauge counts a camera exactly while   *)
(* it is online, whichever readers race to bring it online: for any number *)
(* of cameras, readers and slots.                                          *)
THEOREM CountsAreExact == Spec => []CountsExact
<1>1. IngestInv => CountsExact
  <2> SUFFICES ASSUME IngestInv
               PROVE  SlotsExact /\ GaugeExact
    BY DEF CountsExact
  <2>1. GaugeExact
    BY SMTT(20) DEF IngestInv, OnlineSound, GaugeExact
  <2>2. QED
    BY <2>1 DEF IngestInv
<1>2. QED
  BY <1>1, InductiveInv, PTL

(* Stop never closes a library client that was not started, and when it    *)
(* has returned the loop, the connection, the callbacks, the slot and the  *)
(* count of the camera are gone.                                           *)
THEOREM StopLeavesNothing == Spec => []StopIsClean
<1>1. IngestInv => StopIsClean
  <2> SUFFICES ASSUME IngestInv
               PROVE  CloseOnlyStarted /\ StopQuiesces
    BY DEF StopIsClean
  <2>1. CloseOnlyStarted
    BY DEF IngestInv, ClientSound, CloseOnlyStarted
  <2>2. StopQuiesces
    BY DEF IngestInv, ClientSound, OnlineSound, SlotSound, StopQuiesces, CallbacksReturned
  <2>3. QED
    BY <2>1, <2>2
<1>2. QED
  BY <1>1, InductiveInv, PTL

(* The loops, the clients with their flags, the callbacks with their       *)
(* compare-and-swap and the semaphore implement Connections, for any       *)
(* number of cameras, readers and slots (stream.go:141-262 and 268-331,    *)
(* client.go:76-244).                                                      *)
THEOREM ConnectionsImplemented == Spec => ImplementsConnections
<1>1. Init => Apart /\ Promise!Init
  <2> SUFFICES ASSUME Init PROVE Apart /\ Promise!Init
    OBVIOUS
  <2>1. Apart
    BY DEF Init, Apart
  <2>2. Dialling = {} /\ Stopped = {}
    BY DEF Init, Dialling, Stopped
  <2>3. Live = {}
    BY SMTT(20) DEF Init, Live
  <2> QED BY <2>1, <2>2, <2>3 DEF Init, Promise!Init, Dialling, Live, Stopped
<1>2. IngestInv /\ Apart /\ [Next]_vars => Apart' /\ [Promise!Next]_(Promise!connectionVars)
  BY ApartStep, ConnectionsStep
<1> QED BY <1>1, <1>2, InductiveInv, PTL DEF Spec, ImplementsConnections, Promise!Spec

(* Under any order of recording, deleting and requests for playlists and   *)
(* exports, the cache holds one entry for a name, a finished file's index  *)
(* is complete, and an unfinished one's only grows.                        *)
THEOREM ArchiveInvariance == ArchiveSpec => []ArchiveInv
BY ArchiveInitInv, ArchiveNextInv, FiniteSetsSound, PTL DEF ArchiveSpec

(* Playback, listing and export of a finished recording, through the cache *)
(* of getFileIndex, are those of the whole recording.                      *)
THEOREM FinishedFilesComplete == ArchiveSpec => []FinishedIsComplete
<1>1. ArchiveInv => FinishedIsComplete
  <2> SUFFICES ASSUME ArchiveInv PROVE FinishedIsComplete
    OBVIOUS
  <2>1. ASSUME NEW i \in DOMAIN cache, cache[i][1][1] = "done"
        PROVE  cache[i][2] = 1..parts[File(cache[i][1])]
    <3>1. cache[i] \in Contents(cache)
      BY DEF Contents
    <3> QED BY <2>1, <3>1 DEF ArchiveInv, FinishedInv, FinishedEntry
  <2> QED BY <2>1 DEF FinishedIsComplete, AnswerComplete, ArchiveInv
<1> QED BY <1>1, ArchiveInvariance, PTL

(* The index that the cache holds for a file that is written is never      *)
(* behind a playlist that GenerateHLSPlaylist made of it, while no two     *)
(* requests index the file at once and no scan meets half a fragment.      *)
THEOREM ListedSegmentsServed == ArchiveSpec => []ListedIsServed
<1>1. ArchiveInv => ListedIsServed
  <2> SUFFICES ASSUME ArchiveInv, NEW i \in DOMAIN cache, cache[i][1][1] = "ongoing"
               PROVE  File(cache[i][1]) \in contended \/ 1..shown[File(cache[i][1])] \subseteq cache[i][2]
    BY DEF ListedIsServed
  <2>1. PICK e \in Contents(cache) : e = cache[i]
    BY DEF Contents
  <2>2. PICK r \in Recordings : r = File(e[1]) /\ e[1] = Growing(r)
    BY <2>1, TypedCache, TypedNames, SMTT(20) DEF Growing, ArchiveInv
  <2>3. r \in contended \/ Covers(r, e[2])
    BY <2>2 DEF ArchiveInv, GrowingSound, GrowingEntries
  <2> QED BY <2>1, <2>2, <2>3 DEF Covers
<1> QED BY <1>1, ArchiveInvariance, PTL

(* Retention leaves no index of a file it deleted, once InvalidateFileIndex*)
(* has run, but one that a request was making meanwhile.                   *)
THEOREM DeletedFilesForgotten == ArchiveSpec => []DeletedIsForgotten
<1>1. ArchiveInv => DeletedIsForgotten
  <2> SUFFICES ASSUME ArchiveInv, NEW i \in DOMAIN cache,
                      cache[i][1][1] = "done", ~Exists(cache[i][1])
               PROVE  cache[i][1] = removing \/ File(cache[i][1]) \in late
    BY DEF DeletedIsForgotten
  <2>1. cache[i] \in Contents(cache)
    BY DEF Contents
  <2> QED BY <2>1 DEF ArchiveInv, FinishedInv, FinishedEntry
<1> QED BY <1>1, ArchiveInvariance, PTL

(* What requests are told from an index of getFileIndex is right: finished *)
(* files are complete, growing ones keep what playlists announced, deleted *)
(* ones are forgotten (hls.go:134-278, with the exceptions its parts name).*)
THEOREM IndexesAreTrue == ArchiveSpec => []IndexesTrue
BY FinishedFilesComplete, ListedSegmentsServed, DeletedFilesForgotten, PTL DEF IndexesTrue

(* The interval that GetCameraArchive lists is the one that was recorded,  *)
(* over midnight too, for a recording of less than a day.                  *)
THEOREM IntervalsListed == ArchiveSpec => []ListedWhenRecorded
<1>1. ArchiveInv => ListedWhenRecorded
  <2> SUFFICES ASSUME ArchiveInv, NEW r \in Recordings, at[r] = "done", end[r] - Start[r] < Day
               PROVE  <<"done", r, <<Start[r], end[r]>>>> \in GetCameraArchive
    BY DEF ListedWhenRecorded
  <2>1. PICK s \in Nat : s = Start[r]
    BY ArchiveAssumption
  <2>2. PICK e \in Nat : e = end[r] /\ s <= e
    BY <2>1 DEF ArchiveInv, ArchiveTyped, ArchiveTypeOK
  <2>3. Interval(r) = <<s, e>>
    BY <2>1, <2>2, EndOfRecording DEF Interval
  <2> QED BY <2>1, <2>2, <2>3 DEF GetCameraArchive
<1> QED BY <1>1, ArchiveInvariance, PTL

=============================================================================
