------------------------ MODULE EventsAndTimesProofs ------------------------
(***************************************************************************)
(* Proofs about EventBus: no send on a closed channel, Stop drains the     *)
(* queues, and every endpoint sees the events of a camera in order, for    *)
(* any number of publishers, callers of Stop, workers and webhooks.  And   *)
(* about Timestamps: frames have the times of the camera, at any width of  *)
(* the timestamps.                                                         *)
(***************************************************************************)
EXTENDS EventBus, Timestamps, TLAPS

(* Zenon proves what is first-order; the leaves with arithmetic, sequences *)
(* or records name the SMT solver.                                         *)
USE ZenonT(30)

-----------------------------------------------------------------------------
(* Sequences                                                               *)

(* A sequence as a function.                                               *)
LEMMA SeqShape ==
  ASSUME NEW S, NEW q \in Seq(S)
  PROVE  Len(q) \in Nat /\ DOMAIN q = 1..Len(q) /\ q \in [1..Len(q) -> S]
BY SMTT(20)

LEMMA SeqElement ==
  ASSUME NEW S, NEW q \in Seq(S), NEW i \in 1..Len(q)
  PROVE  q[i] \in S
BY SMTT(20)

(* The empty sequence is the one without length.                           *)
LEMMA SeqEmpty ==
  ASSUME NEW S
  PROVE  << >> \in Seq(S) /\ Len(<< >>) = 0 /\ \A q \in Seq(S) : q # << >> => Len(q) \in Nat \ {0}
BY SMTT(20)

LEMMA SeqAppended ==
  ASSUME NEW S, NEW q \in Seq(S), NEW x \in S
  PROVE  /\ Append(q, x) \in Seq(S)
         /\ Append(q, x) # << >> /\ Len(Append(q, x)) = Len(q) + 1
         /\ \A i \in 1..Len(q) : Append(q, x)[i] = q[i]
         /\ Append(q, x)[Len(q) + 1] = x
BY SMTT(20)

-----------------------------------------------------------------------------
(* The event bus                                                           *)

(* How Stop, the flag, the channels and the workers hang together.         *)
StopInv ==
    /\ chanClosed = stopped
    /\ stopped => once \in {"draining", "done"}
    /\ \A p \in Publishers : pub[p] = "sending" => ~chanClosed
    /\ ~panicked
    /\ \A w \in Workers : /\ taken[w] <= Len(sent[w])
                          /\ work[w] = "exited" => chanClosed /\ taken[w] = Len(sent[w])
    /\ once = "done" => \A w \in Workers : work[w] = "exited"
    /\ \A s \in Stoppers : stop[s] = "returned" => once = "done"

(* A queue holds the events of its own cameras, in the order of their      *)
(* numbers.                                                                *)
QueuesOrdered ==
    \A w \in Workers : \A i \in DOMAIN sent[w] :
        /\ WorkerOf(sent[w][i].camera, sent[w][i].topic) = w
        /\ sent[w][i].n <= accepted
        /\ \A j \in DOMAIN sent[w] : i <= j => sent[w][i].n <= sent[w][j].n

(* A worker that handles an event has received one.                        *)
WorkersBusy ==
    \A w \in Workers : work[w] \in {"hooks", "posting"} =>
        taken[w] > 0 /\ (work[w] = "posting" => pos[w] <= Len(Webhooks))

(* What an endpoint accepted is no newer than what its worker is handling. *)
DeliveredWereTaken ==
    \A u \in Urls : \A i \in DOMAIN delivered[u] :
        LET e == delivered[u][i]
            w == WorkerOf(e.camera, e.topic)
        IN taken[w] > 0 /\ e.n <= Current(w).n

IInv == TypeOK /\ StopInv /\ QueuesOrdered /\ WorkersBusy /\ DeliveredWereTaken /\ PerCameraOrder

-----------------------------------------------------------------------------
(* Lemmas about single definitions                                         *)

(* Every event has a worker (eventbus.go:111-118).                         *)
LEMMA WorkerOfEvent ==
  \A camera \in Cameras \cup {NoCamera}, topic \in Topics : WorkerOf(camera, topic) \in Workers
  BY HashAssumption DEF WorkerOf

(* Events of the same stream have the same worker.                         *)
LEMMA SameStreamSameWorker ==
  \A e, f \in Event : SameStream(e, f) => WorkerOf(e.camera, e.topic) = WorkerOf(f.camera, f.topic)
  BY DEF SameStream, WorkerOf, Event

(* A worker in its loop over the webhooks is at one of them.               *)
LEMMA HookUrl ==
  ASSUME NEW w \in Workers, pos[w] \in 1..Len(Webhooks)
  PROVE  Hook(w).url \in Urls
<1>1. pos[w] \in DOMAIN Webhooks
  BY WebhooksAssumption, SeqShape
<1> QED
  BY <1>1 DEF Hook, Urls

(* The event a busy worker handles is in its queue.                        *)
LEMMA CurrentIsSent ==
  ASSUME IInv, NEW w \in Workers, taken[w] > 0
  PROVE  taken[w] \in DOMAIN sent[w] /\ Current(w) \in Event
<1>1. sent[w] \in Seq(Event) /\ taken[w] \in Nat /\ taken[w] <= Len(sent[w])
  BY DEF IInv, TypeOK, StopInv
<1>2. taken[w] \in 1..Len(sent[w])
  BY <1>1, SMTT(20)
<1> QED
  BY <1>1, <1>2, SeqElement, SeqShape DEF Current

-----------------------------------------------------------------------------
(* The initial states                                                      *)

LEMMA InitEstablishes == Init => IInv
<1> SUFFICES ASSUME Init
             PROVE  IInv
  OBVIOUS
<1> USE DEF Init
<1>1. TypeOK
  <2>1. sent \in [Workers -> Seq(Event)] /\ delivered \in [Urls -> Seq(Event)]
    BY SeqEmpty
  <2>2. pos \in [Workers -> 1..(Len(Webhooks) + 1)]
    BY WebhooksAssumption, SeqShape, SMTT(20)
  <2>3. breaker \in [Urls -> Int] /\ lastFail \in [Urls -> Int]
    BY BoundsAssumption, SMTT(20) DEF NoBreaker, Never
  <2>4. chanClosed \in BOOLEAN /\ stopped \in BOOLEAN /\ panicked \in BOOLEAN
    OBVIOUS
  <2>5. sawOpen \in [Workers -> BOOLEAN]
    OBVIOUS
  <2> QED
    BY <2>1, <2>2, <2>3, <2>4, <2>5 DEF TypeOK
<1>2. StopInv
  <2>1. \A w \in Workers : Len(sent[w]) = 0
    BY SeqEmpty
  <2>2. chanClosed = stopped /\ ~stopped /\ ~panicked
    OBVIOUS
  <2>3. /\ \A p \in Publishers : pub[p] # "sending"
        /\ \A w \in Workers : taken[w] = 0 /\ work[w] # "exited"
        /\ \A q \in Stoppers : stop[q] # "returned"
        /\ once # "done"
    OBVIOUS
  <2> HIDE DEF Init
  <2> QED
    BY <2>1, <2>2, <2>3, SMTT(20) DEF StopInv
<1>3. (\A w \in Workers : DOMAIN sent[w] = {}) /\ (\A u \in Urls : DOMAIN delivered[u] = {})
  BY SeqEmpty, SMTT(20)
<1>4. QueuesOrdered /\ WorkersBusy
  BY <1>3 DEF QueuesOrdered, WorkersBusy
<1>5. DeliveredWereTaken /\ PerCameraOrder
  BY <1>3 DEF DeliveredWereTaken, PerCameraOrder
<1> QED
  BY <1>1, <1>2, <1>4, <1>5 DEF IInv

-----------------------------------------------------------------------------
(* Steps that touch neither queues nor deliveries                          *)

(* What the order of events depends on.                                    *)
orderVars == <<sent, accepted, taken, delivered>>

(* Such a step keeps what is known about the order, if workers that start  *)
(* to handle an event have received one.                                   *)
LEMMA OrderUntouched ==
  ASSUME IInv, UNCHANGED orderVars
  PROVE  QueuesOrdered' /\ DeliveredWereTaken' /\ PerCameraOrder'
  BY DEF IInv, orderVars, QueuesOrdered, DeliveredWereTaken, PerCameraOrder, Current

(* Publish up to the send.                                                 *)
LEMMA PublishPrepares ==
  ASSUME IInv, NEW p \in Publishers,
         PublishCheck(p) \/ PublishLock(p) \/ PublishRecheck(p)
  PROVE  IInv'
<1>1. UNCHANGED orderVars /\ UNCHANGED <<chanClosed, stopped, stop, once, workVars, now, panicked>>
  BY DEF PublishCheck, PublishLock, PublishRecheck, workVars, orderVars
<1>2. pub' \in [Publishers -> {"idle", "checked", "locked", "sending"}]
  BY DEF IInv, TypeOK, PublishCheck, PublishLock, PublishRecheck
<1>3. TypeOK'
  BY <1>1, <1>2 DEF IInv, TypeOK, orderVars, workVars
<1>4. \A q \in Publishers : pub'[q] = "sending" => ~chanClosed
  BY DEF IInv, TypeOK, StopInv, PublishCheck, PublishLock, PublishRecheck, MayEnqueue
<1>5. StopInv' /\ WorkersBusy'
  BY <1>1, <1>4 DEF IInv, StopInv, WorkersBusy, orderVars, workVars
<1> QED
  BY <1>1, <1>3, <1>5, OrderUntouched DEF IInv

(* Stop: the channels are closed only when no publisher is about to send.  *)
LEMMA StopPreserves ==
  ASSUME IInv, StopBody \/ \E s \in Stoppers : Stop(s)
  PROVE  IInv'
<1>1. UNCHANGED orderVars /\ UNCHANGED <<pub, workVars, now, panicked>>
  BY DEF StopBody, Stop, StopCall, StopClose, StopWait, StopReturn, workVars, orderVars
<1>2. /\ stop' \in [Stoppers -> {"idle", "waiting", "returned"}]
      /\ once' \in {"fresh", "locking", "draining", "done"}
  BY DEF IInv, TypeOK, StopBody, Stop, StopCall, StopClose, StopWait, StopReturn
<1>3. chanClosed' \in BOOLEAN /\ stopped' \in BOOLEAN
  BY DEF IInv, TypeOK, StopBody, Stop, StopCall, StopClose, StopWait, StopReturn
<1>4. TypeOK'
  BY <1>1, <1>2, <1>3 DEF IInv, TypeOK, orderVars, workVars
<1>5. StopInv'
  <2>1. CASE StopClose
    BY <1>1, <2>1, SMTT(20) DEF IInv, StopInv, StopClose, orderVars, workVars
  <2>2. CASE StopWait
    BY <1>1, <2>2, SMTT(20) DEF IInv, StopInv, StopWait, orderVars, workVars
  <2>3. ASSUME NEW s \in Stoppers, StopCall(s)
        PROVE  StopInv'
    BY <1>1, <2>3, SMTT(20) DEF IInv, StopInv, StopCall, orderVars, workVars, TypeOK
  <2>4. ASSUME NEW s \in Stoppers, StopReturn(s)
        PROVE  StopInv'
    BY <1>1, <2>4, SMTT(20) DEF IInv, StopInv, StopReturn, orderVars, workVars, TypeOK
  <2> QED
    BY <2>1, <2>2, <2>3, <2>4 DEF StopBody, Stop
<1>6. WorkersBusy'
  BY <1>1 DEF IInv, WorkersBusy, orderVars, workVars
<1> QED
  BY <1>1, <1>4, <1>5, <1>6, OrderUntouched DEF IInv

-----------------------------------------------------------------------------
(* Steps of the queues and the workers                                     *)

(* The send: the new event is the newest of its queue.                     *)
LEMMA EnqueuePreserves ==
  ASSUME IInv, NEW p \in Publishers, NEW camera \in Cameras \cup {NoCamera}, NEW topic \in Topics,
         PublishEnqueue(p, camera, topic)
  PROVE  IInv'
<1> DEFINE v == WorkerOf(camera, topic)
           event == [camera |-> camera, topic |-> topic, n |-> accepted + 1]
<1>1. /\ UNCHANGED <<taken, chanClosed, stopped, stop, once, workVars, now>>
      /\ pub' = [pub EXCEPT ![p] = "idle"]
  BY DEF PublishEnqueue
<1>2. v \in Workers /\ event \in Event /\ accepted \in Nat
  BY WorkerOfEvent, SMTT(20) DEF IInv, TypeOK, Event
<1>3. ~chanClosed /\ panicked' = FALSE
  BY DEF IInv, StopInv, PublishEnqueue
<1>4. \/ UNCHANGED <<sent, accepted>>
      \/ sent' = [sent EXCEPT ![v] = Append(sent[v], event)] /\ accepted' = accepted + 1
  BY DEF PublishEnqueue
<1> HIDE DEF v, event
<1>5. CASE UNCHANGED <<sent, accepted>>
  <2>1. TypeOK'
    <3>1. pub' \in [Publishers -> {"idle", "checked", "locked", "sending"}]
      BY <1>1 DEF IInv, TypeOK
    <3>2. panicked' \in BOOLEAN
      BY <1>3
    <3> QED
      BY <1>1, <1>5, <3>1, <3>2 DEF IInv, TypeOK, workVars
  <2>2. StopInv' /\ WorkersBusy'
    BY <1>1, <1>3, <1>5 DEF IInv, StopInv, WorkersBusy, workVars, TypeOK
  <2> QED
    BY <1>1, <1>5, <2>1, <2>2, OrderUntouched DEF IInv, orderVars, workVars
<1>6. CASE sent' = [sent EXCEPT ![v] = Append(sent[v], event)] /\ accepted' = accepted + 1
  <2>1. /\ sent[v] \in Seq(Event) /\ Len(sent[v]) \in Nat /\ sent'[v] = Append(sent[v], event)
        /\ DOMAIN sent[v] = 1..Len(sent[v])
    BY <1>2, <1>6, SeqShape DEF IInv, TypeOK
  <2>2. /\ sent'[v] \in Seq(Event) /\ Len(sent'[v]) = Len(sent[v]) + 1
        /\ sent'[v][Len(sent[v]) + 1] = event
        /\ \A i \in 1..Len(sent[v]) : sent'[v][i] = sent[v][i]
        /\ DOMAIN sent'[v] = 1..(Len(sent[v]) + 1)
    BY <2>1, <1>2, SeqAppended, SeqShape, SMTT(20)
  <2>3. \A w \in Workers : w # v => sent'[w] = sent[w]
    BY <1>2, <1>6 DEF IInv, TypeOK
  <2>4. TypeOK'
    <3>1. pub' \in [Publishers -> {"idle", "checked", "locked", "sending"}]
      BY <1>1 DEF IInv, TypeOK
    <3>2. panicked' \in BOOLEAN
      BY <1>3
    <3>3. sent' \in [Workers -> Seq(Event)] /\ accepted' \in Nat
      BY <1>2, <1>6, <2>1, <2>2, SMTT(20) DEF IInv, TypeOK
    <3> QED
      BY <1>1, <3>1, <3>2, <3>3 DEF IInv, TypeOK, workVars
  <2>5. StopInv'
    <3>1. \A w \in Workers : taken[w] <= Len(sent'[w])
      <4> TAKE w \in Workers
      <4>1. taken[w] <= Len(sent[w]) /\ taken[w] \in Nat
        BY DEF IInv, StopInv, TypeOK
      <4> QED
        BY <4>1, <2>1, <2>2, <2>3, SMTT(20)
    <3>2. \A w \in Workers : work[w] # "exited"
      BY <1>3 DEF IInv, StopInv
    <3> QED
      BY <1>1, <1>3, <3>1, <3>2 DEF IInv, StopInv, workVars, TypeOK
  <2>6. QueuesOrdered'
    <3> SUFFICES ASSUME NEW w \in Workers, NEW i \in DOMAIN sent'[w]
                 PROVE  /\ WorkerOf(sent'[w][i].camera, sent'[w][i].topic) = w
                        /\ sent'[w][i].n <= accepted + 1
                        /\ \A j \in DOMAIN sent'[w] : i <= j => sent'[w][i].n <= sent'[w][j].n
      BY <1>6, SMTT(20) DEF QueuesOrdered, WorkerOf
    <3>t. \A k \in DOMAIN sent[w] : /\ sent[w][k].n \in Nat /\ sent[w][k].n <= accepted
                                    /\ WorkerOf(sent[w][k].camera, sent[w][k].topic) = w
      <4> TAKE k \in DOMAIN sent[w]
      <4>1. sent[w] \in Seq(Event) /\ DOMAIN sent[w] = 1..Len(sent[w])
        BY SeqShape DEF IInv, TypeOK
      <4>2. sent[w][k] \in Event
        BY <4>1, SeqElement
      <4> QED
        BY <4>2 DEF IInv, QueuesOrdered, Event
    <3>1. CASE w # v
      BY <1>2, <2>3, <3>1, <3>t, SMTT(20) DEF IInv, QueuesOrdered
    <3>2. CASE w = v
      <4>1. /\ event.n = accepted + 1 /\ WorkerOf(event.camera, event.topic) = v
        BY DEF event, v
      <4>2. CASE i = Len(sent[v]) + 1
        BY <1>2, <2>1, <2>2, <3>2, <4>1, <4>2, SMTT(20)
      <4>3. CASE i \in 1..Len(sent[v])
        <5>1. ASSUME NEW j \in 1..Len(sent[v]), i <= j
              PROVE  sent'[w][i].n <= sent'[w][j].n
          BY <2>1, <2>2, <3>2, <4>3, <5>1 DEF IInv, QueuesOrdered
        <5>2. sent'[w][i].n <= accepted /\ sent'[w][i].n \in Nat
              /\ WorkerOf(sent'[w][i].camera, sent'[w][i].topic) = w
          BY <2>1, <2>2, <3>2, <3>t, <4>3
        <5>3. sent'[w][i].n <= sent'[w][Len(sent[v]) + 1].n
          BY <1>2, <2>2, <3>2, <4>1, <5>2, SMTT(20)
        <5>4. \A j \in DOMAIN sent'[w] : j \in 1..Len(sent[v]) \/ j = Len(sent[v]) + 1
          BY <2>1, <2>2, <3>2, SMTT(20)
        <5>5. \A j \in DOMAIN sent'[w] : i <= j => sent'[w][i].n <= sent'[w][j].n
          BY <5>1, <5>3, <5>4
        <5> QED
          BY <1>2, <5>2, <5>5, SMTT(20)
      <4> QED
        BY <2>1, <2>2, <3>2, <4>2, <4>3, SMTT(20)
    <3> QED
      BY <3>1, <3>2
  <2>7. WorkersBusy' /\ PerCameraOrder'
    BY <1>1 DEF IInv, WorkersBusy, PerCameraOrder, workVars
  <2>8. DeliveredWereTaken'
    <3>1. \A w \in Workers : taken[w] > 0 => Current(w)' = Current(w)
      <4> SUFFICES ASSUME NEW w \in Workers, taken[w] > 0
                   PROVE  sent'[w][taken[w]] = sent[w][taken[w]]
        BY <1>1 DEF Current
      <4>1. taken[w] \in 1..Len(sent[w])
        BY CurrentIsSent, SeqShape DEF IInv, TypeOK
      <4> QED
        BY <4>1, <2>2, <2>3, SMTT(20)
    <3>2. ASSUME NEW u \in Urls, NEW i \in DOMAIN delivered[u]
          PROVE  WorkerOf(delivered[u][i].camera, delivered[u][i].topic) \in Workers
      <4>1. delivered[u][i] \in Event
        BY SeqElement, SeqShape DEF IInv, TypeOK
      <4> QED
        BY <4>1, WorkerOfEvent DEF Event
    <3> QED
      BY <1>1, <3>1, <3>2 DEF IInv, DeliveredWereTaken, workVars, WorkerOf
  <2> QED
    BY <2>4, <2>5, <2>6, <2>7, <2>8 DEF IInv
<1> QED
  BY <1>4, <1>5, <1>6

(* A worker takes the next event, which is newer than the ones before.     *)
LEMMA ReceivePreserves ==
  ASSUME IInv, NEW w \in Workers, Receive(w)
  PROVE  IInv'
<1>1. /\ taken' = [taken EXCEPT ![w] = @ + 1]
      /\ UNCHANGED <<sent, accepted, chanClosed, stopped, pub, stop, once, sawOpen, breaker,
                     delivered, lastFail, now, panicked>>
      /\ \/ work' = [work EXCEPT ![w] = "hooks"] /\ pos' = [pos EXCEPT ![w] = 1]
         \/ UNCHANGED <<work, pos>>
      /\ work[w] = "receive" /\ Len(sent[w]) - taken[w] > 0
  BY DEF Receive, Queued
<1>2. /\ \A x \in Workers : taken[x] \in Nat /\ Len(sent[x]) \in Nat
      /\ taken'[w] = taken[w] + 1 /\ \A x \in Workers : x # w => taken'[x] = taken[x]
  BY <1>1, SeqShape DEF IInv, TypeOK
<1>3. TypeOK'
  <2>1. taken' \in [Workers -> Nat]
    BY <1>1, SMTT(20) DEF IInv, TypeOK
  <2>2. work' \in [Workers -> {"receive", "hooks", "posting", "exited"}]
    <3>1. work \in [Workers -> {"receive", "hooks", "posting", "exited"}]
      BY DEF IInv, TypeOK
    <3> QED
      BY ONLY <1>1, <3>1
  <2>3. pos' \in [Workers -> 1..(Len(Webhooks) + 1)]
    <3>1. 1 \in 1..(Len(Webhooks) + 1)
      BY WebhooksAssumption, SeqShape, SMTT(20)
    <3> QED
      BY <1>1, <3>1 DEF IInv, TypeOK
  <2> QED
    BY <1>1, <2>1, <2>2, <2>3 DEF IInv, TypeOK
<1>4. StopInv'
  <2>1. \A x \in Workers : taken'[x] <= Len(sent[x])
    BY <1>1, <1>2, SMTT(20) DEF IInv, StopInv
  <2>2. \A x \in Workers : work'[x] = "exited" => x # w /\ work[x] = "exited"
    BY <1>1 DEF IInv, TypeOK
  <2>3. once # "done"
    BY <1>1 DEF IInv, StopInv
  <2> QED
    BY <1>1, <1>2, <2>1, <2>2, <2>3 DEF IInv, StopInv
<1>5. QueuesOrdered' /\ PerCameraOrder'
  BY <1>1, SMTT(20) DEF IInv, QueuesOrdered, PerCameraOrder, WorkerOf
<1>6. WorkersBusy'
  BY <1>1, <1>2, SMTT(20) DEF IInv, WorkersBusy, TypeOK
<1>7. DeliveredWereTaken'
  <2>1. ASSUME taken[w] > 0
        PROVE  Current(w).n <= sent[w][taken[w] + 1].n
    <3>1. taken[w] \in DOMAIN sent[w] /\ taken[w] + 1 \in DOMAIN sent[w]
      BY <1>1, <1>2, <2>1, SeqShape, SMTT(20) DEF IInv, TypeOK
    <3> QED
      BY <1>2, <3>1, SMTT(20) DEF IInv, QueuesOrdered, Current
  <2>2. ASSUME NEW u \in Urls, NEW i \in DOMAIN delivered[u]
        PROVE  /\ delivered[u][i].n \in Nat
               /\ WorkerOf(delivered[u][i].camera, delivered[u][i].topic) \in Workers
    <3>1. delivered[u][i] \in Event
      BY SeqElement, SeqShape DEF IInv, TypeOK
    <3> QED
      BY <3>1, WorkerOfEvent DEF Event
  <2>3. sent[w][taken[w] + 1].n \in Nat /\ (taken[w] > 0 => Current(w).n \in Nat)
    <3>1. taken[w] + 1 \in 1..Len(sent[w]) /\ (taken[w] > 0 => taken[w] \in 1..Len(sent[w]))
      BY <1>1, <1>2, SMTT(20)
    <3>2. sent[w][taken[w] + 1] \in Event /\ (taken[w] > 0 => sent[w][taken[w]] \in Event)
      BY <3>1, SeqElement DEF IInv, TypeOK
    <3> QED
      BY <3>2 DEF Current, Event
  <2>4. ASSUME NEW u \in Urls, NEW i \in DOMAIN delivered[u],
               NEW x \in Workers, x = WorkerOf(delivered[u][i].camera, delivered[u][i].topic)
        PROVE  taken'[x] > 0 /\ delivered[u][i].n <= sent[x][taken'[x]].n
    <3>1. taken[x] > 0 /\ delivered[u][i].n <= sent[x][taken[x]].n
      BY <2>4 DEF IInv, DeliveredWereTaken, Current
    <3>2. CASE x = w
      BY <1>2, <2>1, <2>2, <2>3, <3>1, <3>2, SMTT(20) DEF Current
    <3>3. CASE x # w
      BY <1>2, <3>1, <3>3
    <3> QED
      BY <3>2, <3>3
  <2>5. Current(w)' = sent[w][taken'[w]] /\ \A x \in Workers : Current(x)' = sent[x][taken'[x]]
    BY <1>1 DEF Current
  <2> QED
    BY <1>1, <2>2, <2>4, <2>5 DEF DeliveredWereTaken
<1> QED
  BY <1>3, <1>4, <1>5, <1>6, <1>7 DEF IInv

(* Steps within the loop over the webhooks that deliver nothing, and the   *)
(* end of the worker.                                                      *)
LEMMA WorkerMoves ==
  ASSUME IInv, NEW w \in Workers,
         Exit(w) \/ SkipHook(w) \/ StartPost(w) \/ HooksDone(w) \/ PostFails(w)
  PROVE  IInv'
<1> USE DEF Exit, SkipHook, StartPost, HooksDone, PostFails
<1>1. UNCHANGED <<busVars, delivered, now, panicked>>
  OBVIOUS
<1>2. work' \in [Workers -> {"receive", "hooks", "posting", "exited"}]
  BY SMTT(20) DEF IInv, TypeOK
<1>3. pos' \in [Workers -> 1..(Len(Webhooks) + 1)]
  <2>1. Len(Webhooks) \in Nat /\ pos \in [Workers -> 1..(Len(Webhooks) + 1)]
    BY WebhooksAssumption, SeqShape DEF IInv, TypeOK
  <2>2. \/ pos' = pos
        \/ pos' = [pos EXCEPT ![w] = @ + 1] /\ pos[w] <= Len(Webhooks)
    BY DEF IInv, WorkersBusy
  <2> QED
    BY <2>1, <2>2, SMTT(20)
<1>4. sawOpen' \in [Workers -> BOOLEAN]
  BY DEF IInv, TypeOK
<1>5. breaker' \in [Urls -> Int] /\ lastFail' \in [Urls -> Int]
  <2>1. now \in Int /\ now + Cooldown \in Int
    BY BoundsAssumption, SMTT(20) DEF IInv, TypeOK
  <2>2. /\ breaker' = breaker \/ breaker' = [breaker EXCEPT ![Hook(w).url] = now + Cooldown]
        /\ lastFail' = lastFail \/ lastFail' = [lastFail EXCEPT ![Hook(w).url] = now]
    OBVIOUS
  <2>3. breaker \in [Urls -> Int] /\ lastFail \in [Urls -> Int]
    BY DEF IInv, TypeOK
  <2> QED
    BY ONLY <2>1, <2>2, <2>3
<1>6. TypeOK'
  BY <1>1, <1>2, <1>3, <1>4, <1>5 DEF IInv, TypeOK, busVars
<1>7. StopInv'
  <2>1. \A x \in Workers : work'[x] = "exited" => chanClosed /\ taken[x] = Len(sent[x])
    BY SeqShape, SMTT(20) DEF IInv, TypeOK, StopInv, Queued
  <2>2. once # "done"
    BY DEF IInv, StopInv
  <2> QED
    BY <1>1, <2>1, <2>2 DEF IInv, StopInv, busVars
<1>8. WorkersBusy'
  BY <1>1, SMTT(20) DEF IInv, TypeOK, WorkersBusy, busVars
<1> QED
  BY <1>1, <1>6, <1>7, <1>8, OrderUntouched DEF IInv, orderVars, busVars

(* A delivery: the worker's current event is at least as new as anything   *)
(* of the same stream that the endpoint has accepted before.               *)
LEMMA DeliveryPreserves ==
  ASSUME IInv, NEW w \in Workers, PostSucceeds(w)
  PROVE  IInv'
<1> DEFINE url == Hook(w).url
           cur == Current(w)
<1>1. /\ UNCHANGED <<busVars, sawOpen, now, panicked>>
      /\ lastFail' = [lastFail EXCEPT ![url] = Never]
      /\ delivered' = [delivered EXCEPT ![url] = Append(@, cur)]
      /\ work' = [work EXCEPT ![w] = "hooks"] /\ pos' = [pos EXCEPT ![w] = @ + 1]
      /\ breaker' = breaker \/ breaker' = [breaker EXCEPT ![url] = NoBreaker]
      /\ work[w] = "posting"
  BY DEF PostSucceeds
<1>2. pos[w] \in 1..Len(Webhooks) /\ taken[w] > 0
  BY <1>1, SMTT(20) DEF IInv, WorkersBusy, TypeOK
<1>3. url \in Urls /\ cur \in Event /\ taken[w] \in DOMAIN sent[w]
  BY <1>2, HookUrl, CurrentIsSent
<1>4. WorkerOf(cur.camera, cur.topic) = w
  BY <1>3 DEF IInv, QueuesOrdered, Current
<1>c. \A x \in Workers : Current(x)' = Current(x)
  BY <1>1 DEF Current, busVars
<1>m. UNCHANGED <<sent, accepted, taken, chanClosed, stopped, pub, stop, once>>
  BY <1>1 DEF busVars
<1>w. cur = Current(w) /\ url = Hook(w).url
  OBVIOUS
<1> HIDE DEF url, cur
<1>5. /\ delivered[url] \in Seq(Event) /\ Len(delivered[url]) \in Nat
      /\ DOMAIN delivered[url] = 1..Len(delivered[url])
      /\ delivered'[url] = Append(delivered[url], cur)
  BY <1>1, <1>3, SeqShape DEF IInv, TypeOK
<1>6. /\ delivered'[url] \in Seq(Event)
      /\ DOMAIN delivered'[url] = 1..(Len(delivered[url]) + 1)
      /\ delivered'[url][Len(delivered[url]) + 1] = cur
      /\ \A i \in 1..Len(delivered[url]) : delivered'[url][i] = delivered[url][i]
  BY <1>3, <1>5, SeqAppended, SeqShape, SMTT(20)
<1>7. \A u \in Urls : u # url => delivered'[u] = delivered[u]
  BY <1>1, <1>3 DEF IInv, TypeOK
<1>8. TypeOK'
  <2>1. delivered' \in [Urls -> Seq(Event)]
    BY <1>1, <1>5, <1>6 DEF IInv, TypeOK
  <2>2. pos' \in [Workers -> 1..(Len(Webhooks) + 1)]
    <3>1. Len(Webhooks) \in Nat /\ pos \in [Workers -> 1..(Len(Webhooks) + 1)]
      BY WebhooksAssumption, SeqShape DEF IInv, TypeOK
    <3> QED
      BY <1>1, <1>2, <3>1, SMTT(20)
  <2>3. breaker' \in [Urls -> Int]
    BY <1>1, SMTT(20) DEF IInv, TypeOK, NoBreaker
  <2>4. work' \in [Workers -> {"receive", "hooks", "posting", "exited"}]
    BY <1>1 DEF IInv, TypeOK
  <2>5. lastFail' \in [Urls -> Int]
    <3>1. Never \in Int
      BY BoundsAssumption, SMTT(20) DEF Never
    <3>2. lastFail \in [Urls -> Int]
      BY DEF IInv, TypeOK
    <3>3. lastFail' = [lastFail EXCEPT ![url] = Never]
      BY <1>1
    <3> QED
      BY ONLY <3>1, <3>2, <3>3
  <2> QED
    BY <1>1, <1>m, <2>1, <2>2, <2>3, <2>4, <2>5 DEF IInv, TypeOK
<1>9. StopInv'
  <2>1. \A x \in Workers : work'[x] = "exited" => x # w /\ work[x] = "exited"
    BY <1>1 DEF IInv, TypeOK
  <2>2. once # "done"
    BY <1>1 DEF IInv, StopInv
  <2> QED
    BY <1>1, <1>m, <2>1, <2>2 DEF IInv, StopInv
<1>10. QueuesOrdered' /\ WorkersBusy'
  BY <1>1, <1>2, <1>m, SMTT(20) DEF IInv, QueuesOrdered, WorkersBusy, TypeOK, WorkerOf
<1>11. DeliveredWereTaken'
  <2> SUFFICES ASSUME NEW u \in Urls, NEW i \in DOMAIN delivered'[u], NEW x,
                      x = WorkerOf(delivered'[u][i].camera, delivered'[u][i].topic)
               PROVE  taken[x] > 0 /\ delivered'[u][i].n <= sent[x][taken[x]].n
    BY <1>m DEF DeliveredWereTaken, WorkerOf, Current
  <2>1. CASE u # url
    BY <1>7, <2>1 DEF IInv, DeliveredWereTaken, Current
  <2>2. CASE u = url /\ i \in 1..Len(delivered[url])
    BY <1>5, <1>6, <2>2 DEF IInv, DeliveredWereTaken, Current
  <2>3. CASE u = url /\ i = Len(delivered[url]) + 1
    <3>1. delivered'[u][i] = cur /\ x = w
      BY <1>4, <1>6, <2>3
    <3>2. cur.n \in Nat /\ sent[x][taken[x]] = cur
      BY <1>3, <1>w, <3>1 DEF Current, Event
    <3> QED
      BY <1>2, <3>1, <3>2, SMTT(20)
  <2>4. u = url => i \in 1..Len(delivered[url]) \/ i = Len(delivered[url]) + 1
    BY <1>5, <1>6, SMTT(20)
  <2> QED
    BY <2>1, <2>2, <2>3, <2>4
<1>12. PerCameraOrder'
  <2> SUFFICES ASSUME NEW u \in Urls, NEW i \in DOMAIN delivered'[u], NEW j \in DOMAIN delivered'[u],
                      i < j, SameStream(delivered'[u][i], delivered'[u][j])
               PROVE  delivered'[u][i].n <= delivered'[u][j].n
    BY DEF PerCameraOrder, SameStream
  <2>1. CASE u # url
    BY <1>7, <2>1 DEF IInv, PerCameraOrder
  <2>2. CASE u = url /\ j \in 1..Len(delivered[url])
    <3>1. i \in 1..Len(delivered[url])
      BY <1>5, <1>6, <2>2, SMTT(20)
    <3> QED
      BY <1>5, <1>6, <2>2, <3>1 DEF IInv, PerCameraOrder
  <2>3. CASE u = url /\ j = Len(delivered[url]) + 1
    <3>1. i \in 1..Len(delivered[url])
      BY <1>5, <1>6, <2>3, SMTT(20)
    <3>2. delivered[url][i] \in Event /\ SameStream(delivered[url][i], cur)
      BY <1>5, <1>6, <2>3, <3>1, SeqElement
    <3>3. WorkerOf(delivered[url][i].camera, delivered[url][i].topic) = w
      BY <1>3, <1>4, <3>2, SameStreamSameWorker
    <3>4. delivered[url][i].n <= cur.n
      BY <1>3, <1>5, <1>w, <3>1, <3>3 DEF IInv, DeliveredWereTaken
    <3> QED
      BY <1>6, <2>3, <3>1, <3>4
  <2> QED
    BY <1>5, <1>6, <2>1, <2>2, <2>3, SMTT(20)
<1> QED
  BY <1>8, <1>9, <1>10, <1>11, <1>12 DEF IInv

-----------------------------------------------------------------------------
(* Theorems                                                                *)

(* Every step keeps the inductive invariant.                               *)
LEMMA StepPreserves ==
  ASSUME IInv, [Next]_vars
  PROVE  IInv'
<1>1. ASSUME NEW p \in Publishers, Publish(p)
      PROVE  IInv'
  BY <1>1, PublishPrepares, EnqueuePreserves DEF Publish
<1>2. CASE StopBody \/ \E s \in Stoppers : Stop(s)
  BY <1>2, StopPreserves
<1>3. ASSUME NEW w \in Workers, WorkerLoop(w)
      PROVE  IInv'
  BY <1>3, ReceivePreserves, WorkerMoves, DeliveryPreserves DEF WorkerLoop
<1>4. CASE Tick \/ UNCHANGED vars
  <2>1. UNCHANGED <<busVars, workVars, panicked>>
    BY <1>4 DEF Tick, vars
  <2>2. TypeOK'
    <3>1. now' \in Nat
      BY <1>4, SMTT(20) DEF Tick, vars, IInv, TypeOK
    <3> QED
      BY <2>1, <3>1 DEF IInv, TypeOK, busVars, workVars
  <2>3. StopInv' /\ WorkersBusy'
    BY <2>1 DEF IInv, StopInv, WorkersBusy, busVars, workVars
  <2> QED
    BY <2>1, <2>2, <2>3, OrderUntouched DEF IInv, orderVars, busVars, workVars
<1> QED
  BY <1>1, <1>2, <1>3, <1>4 DEF Next

(* The inductive invariant holds in every reachable state.                 *)
THEOREM Invariance == Spec => []IInv
<1>1. Init => IInv
  BY InitEstablishes
<1>2. IInv /\ [Next]_vars => IInv'
  BY StepPreserves
<1> QED
  BY <1>1, <1>2, PTL DEF Spec

(* Every variable of the event bus keeps its type (eventbus.go:52-62).     *)
THEOREM TypeCorrect == Spec => []TypeOK
<1>1. IInv => TypeOK
  BY DEF IInv
<1> QED
  BY <1>1, Invariance, PTL

(* Publish never sends on a channel that Stop has closed                   *)
(* (eventbus.go:90-129, 134-145).                                          *)
THEOREM NoSendAfterStop == Spec => []NeverSendsOnClosed
<1>1. IInv => NeverSendsOnClosed
  BY DEF IInv, StopInv, NeverSendsOnClosed
<1> QED
  BY <1>1, Invariance, PTL

(* Every endpoint accepts the events of a camera in the order they were    *)
(* queued, for any number of workers (eventbus.go:109-118, 147-196).       *)
THEOREM OrderPerCamera == Spec => []PerCameraOrder
<1>1. IInv => PerCameraOrder
  BY DEF IInv
<1> QED
  BY <1>1, Invariance, PTL

(* When Stop returns, every queued event was handled and no worker runs    *)
(* (eventbus.go:131-145).                                                  *)
THEOREM StopWaitsForDelivery == Spec => []StopDrains
<1>1. IInv => StopDrains
  <2> SUFFICES ASSUME IInv, NEW s \in Stoppers, stop[s] = "returned", NEW w \in Workers
               PROVE  Len(sent[w]) - taken[w] = 0 /\ work[w] = "exited"
    BY DEF StopDrains, Queued
  <2> QED
    BY SeqShape, SMTT(20) DEF IInv, StopInv, TypeOK
<1> QED
  BY <1>1, Invariance, PTL

(* An endpoint that failed and has not succeeded since has its circuit     *)
(* open until the cooldown is over.                                        *)
BreakerSet ==
  \A u \in Urls : \/ lastFail[u] = Never
                  \/ lastFail[u] >= 0 /\ breaker[u] = lastFail[u] + Cooldown

(* Only the end of a request touches the circuits.                         *)
LEMMA BreakerKept ==
  ASSUME IInv, BreakerSet, [Next]_vars
  PROVE  BreakerSet'
<1>1. ASSUME NEW w \in Workers, PostSucceeds(w)
      PROVE  BreakerSet'
  <2>1. work[w] = "posting"
    BY <1>1 DEF PostSucceeds
  <2>2. Hook(w).url \in Urls
    BY <2>1, HookUrl, SMTT(20) DEF IInv, WorkersBusy, TypeOK
  <2>3. lastFail'[Hook(w).url] = Never
    BY <1>1, <2>2 DEF PostSucceeds, IInv, TypeOK
  <2>4. \A u \in Urls \ {Hook(w).url} : lastFail'[u] = lastFail[u] /\ breaker'[u] = breaker[u]
    BY <1>1 DEF PostSucceeds, IInv, TypeOK
  <2>5. ASSUME NEW u \in Urls
        PROVE  lastFail'[u] = Never \/ (lastFail'[u] = lastFail[u] /\ breaker'[u] = breaker[u])
    BY <2>3, <2>4
  <2> QED
    BY <2>5 DEF BreakerSet, Never
<1>2. ASSUME NEW w \in Workers, PostFails(w)
      PROVE  BreakerSet'
  <2>1. work[w] = "posting"
    BY <1>2 DEF PostFails
  <2>2. Hook(w).url \in Urls
    BY <2>1, HookUrl, SMTT(20) DEF IInv, WorkersBusy, TypeOK
  <2>3. /\ lastFail'[Hook(w).url] = now /\ breaker'[Hook(w).url] = now + Cooldown
        /\ now >= 0
    BY <1>2, <2>2, SMTT(20) DEF PostFails, IInv, TypeOK
  <2>4. \A u \in Urls \ {Hook(w).url} : lastFail'[u] = lastFail[u] /\ breaker'[u] = breaker[u]
    BY <1>2 DEF PostFails, IInv, TypeOK
  <2> QED
    BY <2>3, <2>4 DEF BreakerSet
<1>3. ASSUME UNCHANGED <<breaker, lastFail>>
      PROVE  BreakerSet'
  BY <1>3 DEF BreakerSet
<1>4. ASSUME NEW p \in Publishers, Publish(p)
      PROVE  UNCHANGED <<breaker, lastFail>>
  BY <1>4 DEF Publish, PublishCheck, PublishLock, PublishRecheck, PublishEnqueue, workVars
<1>5. CASE StopBody \/ \E s \in Stoppers : Stop(s)
  BY <1>3, <1>5 DEF StopBody, Stop, StopCall, StopClose, StopWait, StopReturn, workVars
<1>6. ASSUME NEW w \in Workers, WorkerLoop(w)
      PROVE  BreakerSet'
  BY <1>1, <1>2, <1>3, <1>6 DEF WorkerLoop, Receive, Exit, SkipHook, StartPost, HooksDone
<1>7. CASE Tick \/ UNCHANGED vars
  BY <1>3, <1>7 DEF Tick, vars, workVars
<1> QED
  BY <1>3, <1>4, <1>5, <1>6, <1>7 DEF Next

(* After a failure no request goes to an endpoint before its cooldown is   *)
(* over, unless a delivery has succeeded since (eventbus.go:175-192), for  *)
(* any number of workers that share the circuits.                          *)
THEOREM CooldownRespected == Spec => CircuitHolds
<1>1. ASSUME Init
      PROVE  BreakerSet
  <2>1. \A u \in Urls : lastFail[u] = Never
    BY <1>1 DEF Init
  <2> QED
    BY <2>1 DEF BreakerSet
<1>2. ASSUME IInv, BreakerSet, NEW w \in Workers, StartPost(w)
      PROVE  now >= lastFail[Hook(w).url] + Cooldown
  <2>1. Hook(w).url \in Urls
    BY <1>2, HookUrl, SMTT(20) DEF StartPost, IInv, TypeOK
  <2>2. /\ now \in Nat /\ breaker[Hook(w).url] \in Int /\ lastFail[Hook(w).url] \in Int
        /\ Cooldown \in Nat \ {0}
    BY <1>2, <2>1, BoundsAssumption DEF IInv, TypeOK
  <2>3. ~CircuitOpen(Hook(w).url)
    BY <1>2 DEF StartPost
  <2>5. breaker[Hook(w).url] = -1 \/ now >= breaker[Hook(w).url]
    BY ONLY <2>2, <2>3 DEF CircuitOpen, NoBreaker
  <2>4. \/ lastFail[Hook(w).url] = -Cooldown
        \/ lastFail[Hook(w).url] >= 0 /\ breaker[Hook(w).url] = lastFail[Hook(w).url] + Cooldown
    BY <1>2, <2>1 DEF BreakerSet, Never
  <2> QED
    BY ONLY <2>2, <2>4, <2>5
<1>3. IInv /\ BreakerSet /\ [Next]_vars
        => [\A w \in Workers : StartPost(w) => now >= lastFail[Hook(w).url] + Cooldown]_vars
  BY <1>2
<1> QED
  BY <1>1, <1>3, BreakerKept, Invariance, PTL DEF Spec, CircuitHolds

-----------------------------------------------------------------------------
(* Division.                                                               *)

LEMMA Divided ==
    ASSUME NEW n \in Int, NEW d \in Nat \ {0}
    PROVE  /\ n \div d \in Int /\ n % d \in 0..(d - 1)
           /\ n = (n \div d) * d + (n % d)
BY SMTT(20)

(* The quotient and the rest are the only ones.                            *)
LEMMA DividedOnce ==
    ASSUME NEW d \in Nat \ {0}, NEW q \in Int, NEW r \in 0..(d - 1)
    PROVE  (q * d + r) \div d = q /\ (q * d + r) % d = r
<1>1. PICK n \in Int : n = q * d + r
  BY SMTT(20)
<1>2. PICK a \in Int, x \in 0..(d - 1) : a = n \div d /\ x = n % d /\ n = a * d + x
  BY <1>1, Divided
<1>3. PICK c \in Int : a = q + c
  BY <1>2, SMTT(20)
<1>4. PICK m \in Int : m = c * d
  BY SMTT(20)
<1>5. a * d = q * d + m
  BY <1>3, <1>4, SMTT(20)
<1>6. -d < m /\ m < d
  BY <1>1, <1>2, <1>5, SMTT(20)
<1>7. c <= -1 => m <= -d
  BY <1>4, SMTT(20)
<1>8. c >= 1 => m >= d
  BY <1>4, SMTT(20)
<1>9. c = 0 /\ m = 0
  BY <1>4, <1>6, <1>7, <1>8, SMTT(20)
<1>10. QED
  BY <1>1, <1>2, <1>3, <1>5, <1>9, SMTT(20)

LEMMA Monotone ==
    ASSUME NEW a \in Int, NEW b \in Int, NEW c \in Nat, a <= b
    PROVE  a * c <= b * c
<1>1. PICK x \in Nat : b = a + x
  <2>1. b - a \in Nat /\ b = a + (b - a)
    BY SMTT(20)
  <2>2. QED
    BY <2>1
<1>2. b * c = a * c + x * c /\ x * c \in Nat
  BY <1>1, SMTT(20)
<1>3. QED
  BY <1>2, SMTT(20)

LEMMA LessTimes ==
    ASSUME NEW a \in Int, NEW b \in Int, NEW c \in Nat \ {0}, a * c < b * c
    PROVE  a < b
<1>1. b <= a => b * c <= a * c
  BY Monotone
<1>2. QED
  BY <1>1, SMTT(20)

-----------------------------------------------------------------------------
(* RTP90kToDuration rounds down, as long as its result is in range.        *)

(* d is the time of v ticks, rounded down to a nanosecond.                 *)
RoundedDown(v, d) == d * Rate <= v * Second /\ v * Second < d * Rate + Rate

LEMMA Widths ==
    /\ Wrap \in Nat \ {0} /\ Rate \in Nat \ {0} /\ Second \in Nat \ {0} /\ MaxInt \in Nat \ {0}
    /\ MinDuration \in Nat \ {0} /\ DefaultDuration \in Nat \ {0} /\ Rate <= Second
    /\ MinDuration <= DefaultDuration /\ DefaultDuration <= Second
    /\ Steps \subseteq Int /\ Unknown \notin Int
BY TimesAssumption

LEMMA Int64Fits ==
    ASSUME NEW n \in Nat
    PROVE  /\ n <= MaxInt => Int64(n) = n
           /\ MaxInt < n /\ n <= MaxInt + MaxInt + 1 => Int64(n) < 0
<1>1. PICK m \in Nat \ {0} : m = MaxInt + 1
  BY Widths, SMTT(20)
<1>2. Int64(n) = ((n + m) % (2 * m)) - m
  BY <1>1, Widths, SMTT(20) DEF Int64
<1>3. CASE n <= MaxInt
  <2>1. n + m = 0 * (2 * m) + (n + m) /\ n + m \in 0..(2 * m - 1)
    BY <1>1, <1>3, Widths, SMTT(20)
  <2>2. (n + m) % (2 * m) = n + m
    BY <2>1, SMTT(20)
  <2>3. QED
    BY <1>1, <1>2, <1>3, <2>2, Widths, SMTT(20)
<1>4. CASE MaxInt < n /\ n <= MaxInt + MaxInt + 1
  <2>1. PICK x \in Nat : x = n - m
    BY <1>1, <1>4, Widths, SMTT(20)
  <2>2. x \in 0..(2 * m - 1) /\ n + m = 1 * (2 * m) + x /\ x < m
    BY <1>1, <1>4, <2>1, Widths, SMTT(20)
  <2>3. (1 * (2 * m) + x) % (2 * m) = x
    BY <2>2, DividedOnce, SMTT(20)
  <2>4. QED
    BY <1>1, <1>2, <1>4, <2>2, <2>3, Widths, SMTT(20)
<1>5. QED
  BY <1>3, <1>4

(* The seconds q, the ticks x of the last one, and its nanoseconds t.      *)
SplitTime(v, q, x, t) ==
    /\ q = v \div Rate /\ x = v % Rate /\ t = (x * Second) \div Rate
    /\ v = q * Rate + x /\ x < Rate /\ t < Second
    /\ t * Rate <= x * Second /\ x * Second < t * Rate + Rate

LEMMA TimeSplits ==
    ASSUME NEW v \in Nat
    PROVE  \E q, x, t \in Nat : SplitTime(v, q, x, t)
<1> USE Widths
<1>0. v \div Rate \in Int /\ v % Rate \in 0..(Rate - 1) /\ v = (v \div Rate) * Rate + (v % Rate)
  BY Divided, SMTT(20)
<1>1. PICK q \in Int, x \in 0..(Rate - 1) : q = v \div Rate /\ x = v % Rate /\ v = q * Rate + x
  BY <1>0
<1>2. q \in Nat
  <2>1. q <= -1 => q * Rate <= (-1) * Rate
    BY Monotone, SMTT(20)
  <2>2. QED
    BY <1>1, <2>1, SMTT(20)
<1>3. PICK y \in Nat : y = x * Second
  BY <1>1, SMTT(20)
<1>4. PICK t \in Int, z \in 0..(Rate - 1) : t = y \div Rate /\ y = t * Rate + z
  BY <1>3, Divided, SMTT(20)
<1>5. t \in Nat
  <2>1. t <= -1 => t * Rate <= (-1) * Rate
    BY Monotone, SMTT(20)
  <2>2. QED
    BY <1>3, <1>4, <2>1, SMTT(20)
<1>6. t < Second
  <2>1. x * Second <= (Rate - 1) * Second
    BY <1>1, Monotone, SMTT(20)
  <2>2. (Rate - 1) * Second = Second * Rate - Second
    BY SMTT(20)
  <2>3. PICK a \in Nat : a = Second * Rate
    BY SMTT(20)
  <2>4. PICK b \in Nat : b = t * Rate
    BY <1>5, SMTT(20)
  <2>5. b < a
    BY <1>3, <1>4, <2>1, <2>2, <2>3, <2>4, SMTT(20)
  <2>6. QED
    BY <2>3, <2>4, <2>5, <1>5, LessTimes, SMTT(20)
<1>7. SplitTime(v, q, x, t)
  <2>1. PICK b \in Nat : b = t * Rate
    BY <1>5, SMTT(20)
  <2>2. b <= y /\ y < b + Rate
    BY <1>3, <1>4, <2>1, SMTT(20)
  <2>3. QED
    BY <1>1, <1>3, <1>4, <1>6, <2>1, <2>2, SMTT(20) DEF SplitTime
<1>8. QED
  BY <1>1, <1>2, <1>5, <1>7, SMTT(20)

(* In range there is neither saturation nor overflow.                      *)
LEMMA InRangeSplit ==
    ASSUME NEW v \in Nat, NEW q \in Nat, NEW x \in Nat, NEW t \in Nat, SplitTime(v, q, x, t)
    PROVE  /\ q < MaxInt \div Second => RTP90kToDuration(v) = q * Second + t
           /\ InRange(RTP90kToDuration(v)) => q < MaxInt \div Second
           /\ RTP90kToDuration(v) \in Int
<1> USE Widths
<1>0. /\ MaxInt \div Second \in Int /\ MaxInt % Second \in 0..(Second - 1)
      /\ MaxInt = (MaxInt \div Second) * Second + (MaxInt % Second)
  BY Divided, SMTT(20)
<1>1. PICK M \in Int, z \in 0..(Second - 1) : M = MaxInt \div Second /\ MaxInt = M * Second + z
  BY <1>0
<1>2. PICK e \in Int : e = M * Second
  BY <1>1, SMTT(20)
<1>3. RTP90kToDuration(v) = IF q > M THEN MaxInt ELSE Int64(q * Second + t)
  BY <1>1 DEF RTP90kToDuration, SplitTime
<1>4. PICK n \in Nat : n = q * Second + t
  BY SMTT(20)
<1>5. ASSUME q < M
      PROVE  RTP90kToDuration(v) = q * Second + t
  <2>1. (q + 1) * Second <= M * Second
    BY <1>1, <1>5, Monotone, SMTT(20)
  <2>2. (q + 1) * Second = q * Second + Second
    BY SMTT(20)
  <2>3. n <= MaxInt
    BY <1>1, <1>4, <2>1, <2>2, SMTT(20) DEF SplitTime
  <2>4. QED
    BY <1>1, <1>3, <1>4, <1>5, <2>3, Int64Fits, SMTT(20)
<1>i. RTP90kToDuration(v) \in Int
  <2>1. Int64(n) \in Int
    <3>1. PICK m \in Nat \ {0} : m = MaxInt + 1
      BY SMTT(20)
    <3>2. (n + m) % (2 * m) \in Int
      BY <1>4, <3>1, SMTT(20)
    <3>3. Int64(n) = ((n + m) % (2 * m)) - m
      BY <1>4, <3>1, SMTT(20) DEF Int64
    <3>4. QED
      BY <3>1, <3>2, <3>3, SMTT(20)
  <2>2. QED
    BY <1>3, <1>4, <2>1, SMTT(20)
<1>6. ASSUME q >= M
      PROVE  ~InRange(RTP90kToDuration(v))
  <2>1. CASE q > M
    BY <1>1, <1>2, <1>3, <2>1, SMTT(20) DEF InRange
  <2>2. CASE q = M
    <3>1. n = e + t /\ e <= n
      BY <1>2, <1>4, <2>2, SMTT(20)
    <3>2. RTP90kToDuration(v) = Int64(n)
      BY <1>3, <1>4, <2>2, SMTT(20)
    <3>3. CASE n <= MaxInt
      BY <1>1, <1>2, <3>1, <3>2, <3>3, Int64Fits, SMTT(20) DEF InRange
    <3>4. CASE MaxInt < n
      <4>1. CASE M = 0
        <5>1. e = 0
          BY <1>2, <4>1, SMTT(20)
        <5>2. QED
          BY <1>1, <1>2, <1>i, <5>1, SMTT(20) DEF InRange
      <4>2. CASE M # 0
        <5>1. 1 * Second <= M * Second
          BY <1>1, <2>2, <4>2, Monotone, SMTT(20)
        <5>2. n <= MaxInt + MaxInt + 1
          BY <1>1, <1>2, <3>1, <5>1, SMTT(20) DEF SplitTime
        <5>3. Int64(n) < 0
          BY <3>4, <5>2, Int64Fits
        <5>4. QED
          BY <1>i, <3>2, <5>3, SMTT(20) DEF InRange
      <4>3. QED
        BY <4>1, <4>2
    <3>5. QED
      BY <1>1, <3>3, <3>4, SMTT(20)
  <2>3. QED
    BY <1>1, <1>6, <2>1, <2>2, SMTT(20)
<1>7. QED
  BY <1>1, <1>5, <1>6, <1>i, SMTT(20)

(* The time in range of v ticks, and of fewer, is rounded down.            *)
LEMMA Rounding ==
    ASSUME NEW v \in Nat, NEW q \in Nat, NEW x \in Nat, NEW t \in Nat, SplitTime(v, q, x, t),
           q < MaxInt \div Second
    PROVE  RoundedDown(v, RTP90kToDuration(v))
<1> USE Widths
<1>1. RTP90kToDuration(v) = q * Second + t
  BY InRangeSplit
<1>2. PICK a \in Nat : a = (q * Rate) * Second
  BY SMTT(20)
<1>3. PICK b \in Nat : b = x * Second
  BY SMTT(20)
<1>4. PICK c \in Nat : c = t * Rate
  BY SMTT(20)
<1>5. v * Second = a + b
  BY <1>2, <1>3, SMTT(20) DEF SplitTime
<1>6. (q * Second + t) * Rate = a + c
  BY <1>2, <1>4, SMTT(20)
<1>7. c <= b /\ b < c + Rate
  BY <1>3, <1>4 DEF SplitTime
<1>8. QED
  BY <1>1, <1>5, <1>6, <1>7, SMTT(20) DEF RoundedDown

LEMMA FewerTicks ==
    ASSUME NEW u \in Nat, NEW v \in Nat, u <= v, InRange(RTP90kToDuration(v))
    PROVE  /\ RoundedDown(u, RTP90kToDuration(u)) /\ RTP90kToDuration(u) \in Int
           /\ RoundedDown(v, RTP90kToDuration(v)) /\ RTP90kToDuration(v) \in Int
<1> USE Widths
<1>1. PICK q, x, t \in Nat : SplitTime(v, q, x, t)
  BY TimeSplits
<1>2. PICK p, y, s \in Nat : SplitTime(u, p, y, s)
  BY TimeSplits
<1>3. q < MaxInt \div Second
  BY <1>1, InRangeSplit
<1>4. p <= q
  <2>1. q + 1 <= p => (q + 1) * Rate <= p * Rate
    BY Monotone, SMTT(20)
  <2>2. (q + 1) * Rate = q * Rate + Rate
    BY SMTT(20)
  <2>3. QED
    BY <1>1, <1>2, <2>1, <2>2, SMTT(20) DEF SplitTime
<1>5. MaxInt \div Second \in Int
  BY Divided, SMTT(20)
<1>6. p < MaxInt \div Second
  BY <1>3, <1>4, <1>5, SMTT(20)
<1>7. QED
  BY <1>1, <1>2, <1>3, <1>6, Rounding, InRangeSplit

(* The difference of two times is the time of the difference, to a         *)
(* nanosecond.                                                             *)
LEMMA Difference ==
    ASSUME NEW u \in Nat, NEW v \in Nat, NEW s \in Int, v = u + s, s >= 0,
           InRange(RTP90kToDuration(v)),
           NEW d \in Int, d = RTP90kToDuration(v) - RTP90kToDuration(u)
    PROVE  (d - 1) * Rate < s * Second /\ s * Second < (d + 1) * Rate
<1> USE Widths
<1>1. PICK a \in Int : a = RTP90kToDuration(v) /\ RoundedDown(v, a)
  BY FewerTicks, SMTT(20)
<1>2. PICK b \in Int : b = RTP90kToDuration(u) /\ RoundedDown(u, b)
  BY FewerTicks, SMTT(20)
<1>3. PICK x \in Int : x = a * Rate
  BY SMTT(20)
<1>4. PICK y \in Int : y = b * Rate
  BY SMTT(20)
<1>5. PICK g \in Int : g = u * Second
  BY SMTT(20)
<1>6. PICK h \in Int : h = s * Second
  BY SMTT(20)
<1>7. v * Second = g + h
  BY <1>5, <1>6, SMTT(20)
<1>8. x <= g + h /\ g + h < x + Rate /\ y <= g /\ g < y + Rate
  BY <1>1, <1>2, <1>3, <1>4, <1>5, <1>7 DEF RoundedDown
<1>9. (d - 1) * Rate = x - y - Rate /\ (d + 1) * Rate = x - y + Rate
  BY <1>1, <1>2, <1>3, <1>4, SMTT(20)
<1>10. QED
  BY <1>6, <1>8, <1>9, SMTT(20)

(* DurationTo90k gives the ticks back, or one less: a tick is not shorter  *)
(* than a nanosecond.                                                      *)
LEMMA BackToTicks ==
    ASSUME NEW v \in Nat, InRange(RTP90kToDuration(v))
    PROVE  DurationTo90k(RTP90kToDuration(v)) \in {v - 1, v}
<1> USE Widths
<1>1. PICK q, x, t \in Nat : SplitTime(v, q, x, t)
  BY TimeSplits
<1>2. RTP90kToDuration(v) = q * Second + t
  BY <1>1, InRangeSplit
<1>3. t \in 0..(Second - 1)
  BY <1>1, SMTT(20) DEF SplitTime
<1>4. (q * Second + t) \div Second = q /\ (q * Second + t) % Second = t
  BY <1>3, DividedOnce, SMTT(20)
<1>5. DurationTo90k(RTP90kToDuration(v)) = q * Rate + (t * Rate) \div Second
  BY <1>2, <1>4 DEF DurationTo90k
<1>6. PICK b \in Nat : b = t * Rate
  BY SMTT(20)
<1>7. b \div Second \in Int /\ b % Second \in 0..(Second - 1) /\ b = (b \div Second) * Second + (b % Second)
  BY Divided, SMTT(20)
<1>8. PICK k \in Int : k = b \div Second
  BY <1>7
<1>9. PICK e \in Int : e = k * Second
  BY <1>8, SMTT(20)
<1>10. PICK g \in Int : g = x * Second
  BY SMTT(20)
<1>11. e <= b /\ b < e + Second /\ b <= g /\ g < b + Rate
  <2>1. e <= b /\ b < e + Second
    BY <1>7, <1>8, <1>9, SMTT(20)
  <2>2. b <= g /\ g < b + Rate
    BY <1>1, <1>6, <1>10 DEF SplitTime
  <2>3. QED
    BY <2>1, <2>2
<1>12. x + 1 <= k => (x + 1) * Second <= k * Second
  BY <1>8, Monotone, SMTT(20)
<1>13. k <= x - 2 => k * Second <= (x - 2) * Second
  BY <1>8, Monotone, SMTT(20)
<1>14. (x + 1) * Second = g + Second /\ (x - 2) * Second = g - Second - Second
  BY <1>10, SMTT(20)
<1>15. k = x \/ k = x - 1
  BY <1>9, <1>11, <1>12, <1>13, <1>14, SMTT(20)
<1>16. v = q * Rate + x
  BY <1>1 DEF SplitTime
<1>17. PICK w \in Nat : w = q * Rate
  BY SMTT(20)
<1>18. DurationTo90k(RTP90kToDuration(v)) = w + k
  BY <1>5, <1>6, <1>8, <1>17
<1>19. v = w + x
  BY <1>16, <1>17
<1>20. QED
  BY <1>15, <1>18, <1>19, SMTT(20)

-----------------------------------------------------------------------------
(* The unwrapper.                                                          *)

(* The epoch counts rollovers, and the ticks so far are what the frames    *)
(* showed of the camera's clock.                                           *)
ClockSound ==
    /\ \E n \in Nat : epoch = n * Wrap
    /\ initialized => lastTS = ticks % Wrap

LEMMA UnwrapTypes ==
    ASSUME TsTypeOK, ClockSound, NEW ts \in 0..(Wrap - 1)
    PROVE  UnwrapEpoch(ts) \in Nat /\ \E n \in Nat : UnwrapEpoch(ts) = n * Wrap
<1> USE Widths
<1>1. PICK n \in Nat : epoch = n * Wrap
  BY DEF ClockSound
<1>2. (n + 1) * Wrap = epoch + Wrap /\ n + 1 \in Nat
  BY <1>1, SMTT(20)
<1>3. epoch >= Wrap => n - 1 \in Nat /\ (n - 1) * Wrap = epoch - Wrap
  <2>1. n = 0 => n * Wrap = 0
    BY SMTT(20)
  <2>2. QED
    BY <1>1, <2>1, SMTT(20)
<1>4. 0 \in Nat /\ 0 * Wrap = 0
  BY SMTT(20)
<1>5. UnwrapEpoch(ts) \in {0, epoch, epoch + Wrap} \/ (epoch >= Wrap /\ UnwrapEpoch(ts) = epoch - Wrap)
  BY DEF UnwrapEpoch
<1>6. epoch \in Nat
  BY DEF TsTypeOK
<1>7. CASE UnwrapEpoch(ts) = 0
  <2>1. PICK z \in Nat : z = 0 /\ z * Wrap = 0
    BY <1>4
  <2>2. UnwrapEpoch(ts) = z * Wrap /\ UnwrapEpoch(ts) \in Nat
    BY <1>7, <2>1
  <2>3. QED
    BY <2>2
<1>8. CASE UnwrapEpoch(ts) = epoch
  BY <1>1, <1>6, <1>8
<1>9. CASE UnwrapEpoch(ts) = epoch + Wrap
  <2>1. PICK m \in Nat : m = n + 1
    BY <1>2
  <2>2. UnwrapEpoch(ts) = m * Wrap
    BY <1>2, <1>9, <2>1
  <2>3. epoch + Wrap \in Nat
    BY <1>6, SMTT(20)
  <2>4. QED
    BY <1>9, <2>2, <2>3
<1>10. CASE epoch >= Wrap /\ UnwrapEpoch(ts) = epoch - Wrap
  <2>1. epoch - Wrap \in Nat
    BY <1>6, <1>10, SMTT(20)
  <2>2. QED
    BY <1>3, <1>10, <2>1
<1>11. QED
  BY <1>5, <1>7, <1>8, <1>9, <1>10

(* A step that the timestamps show is what the unwrapped time moves by.    *)
LEMMA UnwrapFollows ==
    ASSUME TsTypeOK, ClockSound, NEW step \in Int, Shown(step), NEW ts, ts = (ticks + step) % Wrap
    PROVE  UnwrapEpoch(ts) + ts = epoch + lastTS + step
<1> USE Widths
<1>1. initialized /\ ticks \in Int /\ epoch \in Nat /\ lastTS = ticks % Wrap
  BY DEF Shown, TsTypeOK, ClockSound
<1>2. ticks \div Wrap \in Int /\ lastTS \in 0..(Wrap - 1) /\ ticks = (ticks \div Wrap) * Wrap + lastTS
  BY <1>1, Divided
<1>t. lastTS \in Int /\ epoch \in Int
  BY <1>1, <1>2, SMTT(20)
<1>3. PICK q \in Int : q = ticks \div Wrap /\ ticks = q * Wrap + lastTS
  BY <1>2
<1>4. PICK H \in Nat : H = Wrap \div 2 /\ (Wrap = 2 * H \/ Wrap = 2 * H + 1)
  BY SMTT(20)
<1>5. -H < step /\ step < H
  BY <1>4 DEF Shown
<1>6. CASE lastTS + step \in 0..(Wrap - 1)
  <2>1. ticks + step = q * Wrap + (lastTS + step)
    BY <1>2, <1>3, SMTT(20)
  <2>2. ts = lastTS + step
    BY <1>6, <2>1, DividedOnce
  <2>3. UnwrapEpoch(ts) = epoch
    BY <1>1, <1>2, <1>4, <1>5, <2>2, SMTT(20) DEF UnwrapEpoch
  <2>4. QED
    BY <1>t, <2>2, <2>3, SMTT(20)
<1>7. CASE lastTS + step >= Wrap
  <2>1. PICK y \in Int : y = lastTS + step - Wrap /\ y \in 0..(Wrap - 1)
    BY <1>2, <1>4, <1>5, <1>7, SMTT(20)
  <2>2. PICK p \in Int : p = q + 1
    BY SMTT(20)
  <2>a. ticks + step = p * Wrap + y
    BY <1>2, <1>3, <2>1, <2>2, SMTT(20)
  <2>3. ts = y
    BY <2>1, <2>a, DividedOnce
  <2>4. UnwrapEpoch(ts) = epoch + Wrap
    BY <1>1, <1>2, <1>4, <1>5, <2>1, <2>3, SMTT(20) DEF UnwrapEpoch
  <2>5. QED
    BY <1>t, <2>1, <2>3, <2>4, SMTT(20)
<1>8. CASE lastTS + step < 0
  <2>1. PICK y \in Int : y = lastTS + step + Wrap /\ y \in 0..(Wrap - 1)
    BY <1>2, <1>4, <1>5, <1>8, SMTT(20)
  <2>2. ticks + step = (q - 1) * Wrap + y
    BY <1>2, <1>3, <2>1, SMTT(20)
  <2>3. ts = y /\ (ticks + step) \div Wrap = q - 1
    BY <2>1, <2>2, DividedOnce, SMTT(20)
  <2>4. epoch # 0
    BY <1>3, <2>3, SMTT(20) DEF Shown
  <2>5. epoch >= Wrap
    <3>1. PICK n \in Nat : epoch = n * Wrap
      BY DEF ClockSound
    <3>2. n # 0
      BY <2>4, <3>1, SMTT(20)
    <3>3. 1 * Wrap <= n * Wrap
      BY <3>2, Monotone, SMTT(20)
    <3>4. QED
      BY <3>1, <3>3, SMTT(20)
  <2>6. UnwrapEpoch(ts) = epoch - Wrap
    BY <1>1, <1>2, <1>4, <1>5, <2>1, <2>3, <2>5, SMTT(20) DEF UnwrapEpoch
  <2>7. QED
    BY <1>t, <2>1, <2>3, <2>6, SMTT(20)
<1>9. QED
  BY <1>2, <1>6, <1>7, <1>8, SMTT(20)

-----------------------------------------------------------------------------
(* What the latest times are the times of: the latest frame, and the       *)
(* latest one that the viewer read, elapsed.frame ticks before it.         *)
TimesKnown ==
    /\ initialized => pts = RTP90kToDuration(epoch + lastTS)
    /\ elapsed.frame # Unknown =>
          /\ hasLastPTS
          /\ \E u \in Nat : /\ lastPTS = RTP90kToDuration(u)
                            /\ epoch + lastTS = u + elapsed.frame

(* The duration of the latest sample (the second part of FrameTimesTrue).  *)
SampleTrue ==
    (hasLastPTS /\ elapsed.sample # Unknown /\ InRange(lastPTS)) =>
        LET exact == elapsed.sample * Second
        IN (MinDuration + 1) * Rate <= exact /\ exact <= (MaxDuration - 1) * Rate =>
              (duration - 1) * Rate < exact /\ exact < (duration + 1) * Rate

TimesInv ==
    /\ TsTypeOK
    /\ ClockSound
    /\ TimesKnown
    /\ MinDuration <= duration /\ duration <= MaxDuration
    /\ SampleTrue

LEMMA DurationLimits ==
    ASSUME NEW shownAt \in Int, lastPTS \in Int
    PROVE  /\ CalculateFrameDuration(shownAt) \in Int
           /\ MinDuration <= CalculateFrameDuration(shownAt) /\ CalculateFrameDuration(shownAt) <= MaxDuration
BY Widths, SMTT(20) DEF CalculateFrameDuration, MaxDuration

(* A sample's duration, when the time since the one before is known.       *)
LEMMA SampleExact ==
    ASSUME NEW u \in Nat, NEW v \in Nat, NEW s \in Int, v = u + s, lastPTS = RTP90kToDuration(u), hasLastPTS,
           InRange(RTP90kToDuration(v)),
           (MinDuration + 1) * Rate <= s * Second, s * Second <= (MaxDuration - 1) * Rate,
           lastPTS \in Int, NEW dur, dur = CalculateFrameDuration(RTP90kToDuration(v))
    PROVE  (dur - 1) * Rate < s * Second /\ s * Second < (dur + 1) * Rate
<1> USE Widths
<1>1. s >= 0
  <2>1. PICK a \in Nat : a = (MinDuration + 1) * Rate
    BY SMTT(20)
  <2>2. PICK b \in Int : b = s * Second
    BY SMTT(20)
  <2>3. s <= -1 => b <= (-1) * Second
    BY <2>2, Monotone, SMTT(20)
  <2>4. QED
    BY <2>1, <2>2, <2>3, SMTT(20)
<1>2. RTP90kToDuration(v) \in Int
  BY <1>1, FewerTicks, SMTT(20)
<1>3. PICK d \in Int : d = RTP90kToDuration(v) - RTP90kToDuration(u)
  BY <1>2, SMTT(20)
<1>4. (d - 1) * Rate < s * Second /\ s * Second < (d + 1) * Rate
  BY <1>1, <1>3, Difference
<1>5. MinDuration < d
  <2>1. PICK x \in Int, y \in Int : x = MinDuration + 1 /\ y = d + 1
    BY SMTT(20)
  <2>2. PICK a \in Int, b \in Int, h \in Int : a = x * Rate /\ b = y * Rate /\ h = s * Second
    BY SMTT(20)
  <2>3. a < b
    BY <1>4, <2>1, <2>2, SMTT(20)
  <2>4. x < y
    BY <2>2, <2>3, LessTimes
  <2>5. QED
    BY <2>1, <2>4, SMTT(20)
<1>6. d < MaxDuration
  <2>1. MaxDuration \in Int
    BY SMTT(20) DEF MaxDuration
  <2>2. PICK x \in Int, y \in Int : x = d - 1 /\ y = MaxDuration - 1
    BY <2>1, SMTT(20)
  <2>3. PICK a \in Int, b \in Int, h \in Int : a = x * Rate /\ b = y * Rate /\ h = s * Second
    BY SMTT(20)
  <2>4. a < b
    BY <1>4, <2>2, <2>3, SMTT(20)
  <2>5. x < y
    BY <2>3, <2>4, LessTimes
  <2>6. QED
    BY <2>1, <2>2, <2>5, SMTT(20)
<1>7. dur = d
  BY <1>3, <1>5, <1>6, SMTT(20) DEF CalculateFrameDuration, MaxDuration
<1>8. QED
  BY <1>4, <1>7

LEMMA TimesInit == TsInit => TimesInv
<1> SUFFICES ASSUME TsInit
             PROVE  TimesInv
  OBVIOUS
<1> USE Widths
<1>1. TsTypeOK
  <2>1. /\ ticks \in Int /\ lastTS \in 0..(Wrap - 1) /\ epoch \in Nat /\ duration \in Int
        /\ pts \in Int /\ lastPTS \in Int
    <3>1. /\ Wrap \in Nat /\ Wrap > 0 /\ ticks \in 0..(Wrap - 1) /\ lastTS = 0 /\ epoch = 0
          /\ pts = 0 /\ lastPTS = 0 /\ duration = DefaultDuration
      BY SMTT(20) DEF TsInit
    <3>2. QED
      BY <3>1, SMTT(20)
  <2>2. elapsed \in [sample : Int \cup {Unknown}, frame : Int \cup {Unknown}]
    BY DEF TsInit
  <2>3. QED
    BY <2>1, <2>2 DEF TsTypeOK, TsInit
<1>2. ClockSound
  <2>1. epoch = 0 * Wrap
    BY SMTT(20) DEF TsInit
  <2>2. QED
    BY <2>1 DEF ClockSound, TsInit
<1>3. TimesKnown /\ SampleTrue
  BY DEF TimesKnown, SampleTrue, TsInit
<1>4. QED
  BY <1>1, <1>2, <1>3 DEF TimesInv, TsInit, MaxDuration

LEMMA FrameKeepsTimes ==
    ASSUME TimesInv, NEW step \in Steps, NEW read \in BOOLEAN, Frame(step, read)
    PROVE  TimesInv'
<1> USE Widths
<1>a. TsTypeOK /\ ClockSound /\ TimesKnown
  BY DEF TimesInv
<1>1. PICK ts : ts = (ticks + step) % Wrap
  OBVIOUS
<1>2. ts \in 0..(Wrap - 1) /\ step \in Int /\ ticks + step \in Int
  BY <1>a, <1>1, Divided, SMTT(20) DEF TsTypeOK
<1>3. PICK e \in Nat : e = UnwrapEpoch(ts) /\ \E n \in Nat : e = n * Wrap
  BY <1>a, <1>2, UnwrapTypes
<1>4. PICK shownAt : shownAt = RTP90kToDuration(e + ts)
  OBVIOUS
<1>5. shownAt \in Int /\ e + ts \in Nat
  <2>1. e + ts \in Nat
    BY <1>2, <1>3, SMTT(20)
  <2>2. PICK q, x, t \in Nat : SplitTime(e + ts, q, x, t)
    BY <2>1, TimeSplits
  <2>3. QED
    BY <1>4, <2>1, <2>2, InRangeSplit
<1>6. PICK since : since = IF Shown(step) /\ elapsed.frame # Unknown THEN elapsed.frame + step ELSE Unknown
  OBVIOUS
<1>7. /\ ticks' = ticks + step /\ initialized' = TRUE /\ lastTS' = ts /\ epoch' = e /\ pts' = shownAt
      /\ \/ /\ read /\ hasLastPTS' = TRUE /\ lastPTS' = shownAt /\ duration' = CalculateFrameDuration(shownAt)
            /\ elapsed' = [sample |-> since, frame |-> 0]
         \/ /\ ~read /\ elapsed' = [elapsed EXCEPT !.frame = since]
            /\ UNCHANGED <<hasLastPTS, lastPTS, duration>>
  BY <1>1, <1>3, <1>4, <1>6 DEF Frame
<1>8. elapsed.sample \in Int \cup {Unknown} /\ elapsed.frame \in Int \cup {Unknown}
  BY <1>a DEF TsTypeOK
<1>9. since \in Int \cup {Unknown}
  BY <1>2, <1>6, <1>8, SMTT(20)
<1>10. since # Unknown => hasLastPTS /\ \E u \in Nat : lastPTS = RTP90kToDuration(u) /\ e + ts = u + since
  <2>1. SUFFICES ASSUME since # Unknown
                 PROVE  hasLastPTS /\ \E u \in Nat : lastPTS = RTP90kToDuration(u) /\ e + ts = u + since
    OBVIOUS
  <2>2. Shown(step) /\ elapsed.frame # Unknown /\ since = elapsed.frame + step
    BY <1>6, <2>1
  <2>3. PICK u \in Nat : hasLastPTS /\ lastPTS = RTP90kToDuration(u) /\ epoch + lastTS = u + elapsed.frame
    BY <1>a, <2>2 DEF TimesKnown
  <2>4. e + ts = epoch + lastTS + step
    BY <1>a, <1>1, <1>2, <1>3, <2>2, UnwrapFollows
  <2>5. elapsed.frame \in Int
    BY <1>8, <2>2
  <2>6. e + ts = u + since
    BY <1>2, <2>2, <2>3, <2>4, <2>5, SMTT(20)
  <2>7. QED
    BY <2>3, <2>6
<1>11. duration \in Int /\ lastPTS \in Int /\ hasLastPTS \in BOOLEAN
  BY <1>a DEF TsTypeOK
<1>12. /\ duration' \in Int /\ MinDuration <= duration' /\ duration' <= MaxDuration
  BY <1>5, <1>7, <1>11, DurationLimits DEF TimesInv
<1>13. TsTypeOK'
  <2>1. elapsed' \in [sample : Int \cup {Unknown}, frame : Int \cup {Unknown}]
    BY <1>a, <1>7, <1>8, <1>9, SMTT(20) DEF TsTypeOK
  <2>2. QED
    BY <1>2, <1>3, <1>5, <1>7, <1>11, <1>12, <2>1 DEF TsTypeOK
<1>14. ClockSound'
  BY <1>1, <1>3, <1>7 DEF ClockSound
<1>15. TimesKnown'
  <2>1. pts' = RTP90kToDuration(epoch' + lastTS')
    BY <1>4, <1>7
  <2>2. CASE read
    <3>1. PICK u \in Nat : u = e + ts
      BY <1>5
    <3>2. hasLastPTS' /\ elapsed'.frame = 0 /\ lastPTS' = RTP90kToDuration(u) /\ epoch' + lastTS' = u + 0
      BY <1>4, <1>7, <2>2, <3>1, SMTT(20)
    <3>3. QED
      BY <2>1, <3>2 DEF TimesKnown
  <2>3. CASE ~read
    <3>1. elapsed'.frame = since /\ lastPTS' = lastPTS
      BY <1>a, <1>7, <2>3 DEF TsTypeOK
    <3>2. QED
      BY <1>7, <1>10, <2>1, <3>1, SMTT(20) DEF TimesKnown
  <2>4. QED
    BY <2>2, <2>3
<1>16. SampleTrue'
  <2>1. CASE ~read
    <3>1. elapsed'.sample = elapsed.sample /\ UNCHANGED <<hasLastPTS, lastPTS, duration>>
      BY <1>a, <1>7, <2>1 DEF TsTypeOK
    <3>2. QED
      BY <3>1 DEF TimesInv, SampleTrue
  <2>2. CASE read
    <3>1. elapsed'.sample = since /\ lastPTS' = shownAt /\ duration' = CalculateFrameDuration(shownAt)
      BY <1>7, <2>2, SMTT(20)
    <3>2. SUFFICES ASSUME since # Unknown, InRange(shownAt),
                          (MinDuration + 1) * Rate <= since * Second, since * Second <= (MaxDuration - 1) * Rate
                   PROVE  (duration' - 1) * Rate < since * Second /\ since * Second < (duration' + 1) * Rate
      BY <3>1 DEF SampleTrue
    <3>3. PICK u \in Nat : lastPTS = RTP90kToDuration(u) /\ e + ts = u + since
      BY <1>10, <3>2
    <3>4. PICK v \in Nat : v = e + ts
      BY <1>5
    <3>5. hasLastPTS
      BY <1>10, <3>2
    <3>6. since \in Int
      BY <1>9, <3>2
    <3>7. QED
      BY <1>4, <1>11, <3>1, <3>2, <3>3, <3>4, <3>5, <3>6, SampleExact
  <2>3. QED
    BY <2>1, <2>2
<1>17. QED
  BY <1>12, <1>13, <1>14, <1>15, <1>16 DEF TimesInv

LEMMA ReconnectKeepsTimes ==
    ASSUME TimesInv, Reconnect
    PROVE  TimesInv'
<1> USE Widths
<1>1. /\ initialized' = FALSE /\ lastTS' = 0 /\ epoch' = 0 /\ ticks' \in 0..(Wrap - 1)
      /\ UNCHANGED <<pts, hasLastPTS, lastPTS, duration>>
      /\ elapsed' = [elapsed EXCEPT !.frame = Unknown]
  BY DEF Reconnect
<1>2. elapsed'.frame = Unknown /\ elapsed'.sample = elapsed.sample
  BY <1>1 DEF TimesInv, TsTypeOK
<1>3. TsTypeOK'
  <2>1. ticks' \in Int /\ lastTS' \in 0..(Wrap - 1) /\ epoch' \in Nat
    BY <1>1, SMTT(20)
  <2>2. elapsed' \in [sample : Int \cup {Unknown}, frame : Int \cup {Unknown}]
    BY <1>1 DEF TimesInv, TsTypeOK
  <2>3. QED
    BY <1>1, <2>1, <2>2 DEF TimesInv, TsTypeOK
<1>4. ClockSound'
  <2>1. epoch' = 0 * Wrap
    BY <1>1, SMTT(20)
  <2>2. QED
    BY <1>1, <2>1 DEF ClockSound
<1>5. TimesKnown' /\ SampleTrue'
  BY <1>1, <1>2 DEF TimesInv, TimesKnown, SampleTrue
<1>6. QED
  BY <1>1, <1>3, <1>4, <1>5 DEF TimesInv

(* Rollovers, reordered frames, reconnections and frames that a viewer     *)
(* missed leave the times of TimestampUnwrapper, RTP90kToDuration and      *)
(* calculateFrameDuration right, at any width of the timestamps and of a   *)
(* Duration.                                                               *)
THEOREM FrameTimesRight == TsSpec => []FrameTimesTrue
<1>1. TimesInv /\ [TsNext]_tsVars => TimesInv'
  <2> SUFFICES ASSUME TimesInv, [TsNext]_tsVars
               PROVE  TimesInv'
    OBVIOUS
  <2>1. CASE UNCHANGED tsVars
    BY <2>1 DEF tsVars, TimesInv, TsTypeOK, ClockSound, TimesKnown, SampleTrue
  <2>2. CASE TsNext
    BY <2>2, FrameKeepsTimes, ReconnectKeepsTimes DEF TsNext
  <2>3. QED
    BY <2>1, <2>2
<1>2. TimesInv => FrameTimesTrue
  <2> SUFFICES ASSUME TimesInv
               PROVE  FrameTimesTrue
    OBVIOUS
  <2>1. (initialized /\ InRange(pts)) => DurationTo90k(pts) \in {epoch + lastTS - 1, epoch + lastTS}
    <3>1. SUFFICES ASSUME initialized, InRange(pts)
                   PROVE  DurationTo90k(pts) \in {epoch + lastTS - 1, epoch + lastTS}
      OBVIOUS
    <3>2. PICK v \in Nat : v = epoch + lastTS
      BY SMTT(20) DEF TimesInv, TsTypeOK
    <3>3. pts = RTP90kToDuration(v)
      BY <3>1, <3>2 DEF TimesInv, TimesKnown
    <3>4. DurationTo90k(RTP90kToDuration(v)) \in {v - 1, v}
      BY <3>1, <3>3, BackToTicks
    <3>5. DurationTo90k(pts) = v - 1 \/ DurationTo90k(pts) = v
      BY <3>3, <3>4
    <3>6. epoch \in Int /\ lastTS \in Int
      BY SMTT(20) DEF TimesInv, TsTypeOK
    <3>7. QED
      BY <3>2, <3>5, <3>6, SMTT(20)
  <2>2. QED
    BY <2>1 DEF TimesInv, SampleTrue, FrameTimesTrue
<1>3. QED
  BY <1>1, <1>2, TimesInit, PTL DEF TsSpec
=============================================================================
