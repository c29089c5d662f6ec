------------------------------ MODULE EventBus ------------------------------
(***************************************************************************)
(* pkg/eventbus: events go to one of several worker queues, chosen by the  *)
(* hash of the camera, and each worker posts its events to the webhooks.   *)
(*                                                                         *)
(* Publishers, callers of Stop and workers are processes.  An event is     *)
(* numbered when it enters a queue; the queue of worker w holds sent[w]    *)
(* from position taken[w]+1 on.  An HTTP exchange is a start and an end,   *)
(* between which the other processes and the clock move.                   *)
(***************************************************************************)
EXTENDS Integers, Sequences, FiniteSets

CONSTANTS Publishers, Stoppers, Workers,
          Cameras,        \* camera ids; NoCamera is the empty one
          NoCamera,
          Topics,
          Hash,           \* worker of a camera id or, without one, of a topic
          Webhooks,       \* sequence of [url |-> ..., topics |-> ...]
          QueueSize,      \* buffer of a worker's channel (1000)
          Cooldown,       \* how long a circuit stays open (30s)
          MaxEvents, MaxTime    \* bounds on publications and on the clock

Urls == {Webhooks[i].url : i \in DOMAIN Webhooks}

ASSUME HashAssumption == Hash \in [Cameras \cup Topics -> Workers] /\ NoCamera \notin Cameras
ASSUME BoundsAssumption ==
    QueueSize \in Nat \ {0} /\ Cooldown \in Nat \ {0} /\ MaxEvents \in Nat /\ MaxTime \in Nat
ASSUME WebhooksAssumption ==
    Webhooks \in Seq([url : Urls, topics : SUBSET (Topics \cup {"*"})])

VARIABLES
    sent,       \* sent[w]: events ever put on w's channel
    accepted,   \* number of events put on any channel
    taken,      \* taken[w]: how many of them w has received
    chanClosed, \* the worker channels are closed
    stopped,    \* the stopped flag
    pub,        \* pub[p]: "idle", "checked" (saw ~stopped), "locked" or "sending" (with stopMu.RLock)
    stop,       \* stop[s]: "idle", "waiting" (in Stop) or "returned"
    once,       \* the body of stopOnce: "fresh", "locking", "draining" or "done"
    work,       \* work[w]: "receive", "hooks", "posting" or "exited"
    pos,        \* pos[w]: webhook w is at
    sawOpen,    \* sawOpen[w]: isOpen as w read it
    breaker,    \* breaker[u]: unlock time, or NoBreaker if u is not in the map
    now,        \* the clock
    delivered,  \* delivered[u]: events u answered with 2xx, in order
    lastFail,   \* lastFail[u]: when u last failed, with no success since, or Never
    panicked    \* something was sent on a closed channel

busVars == <<sent, accepted, taken, chanClosed, stopped, pub, stop, once>>
workVars == <<work, pos, sawOpen, breaker, delivered, lastFail>>
vars == <<busVars, workVars, now, panicked>>

NoBreaker == -1
Never == -Cooldown

Queued(w) == Len(sent[w]) - taken[w]
Current(w) == sent[w][taken[w]]

Init ==
    /\ sent = [w \in Workers |-> << >>]
    /\ accepted = 0
    /\ taken = [w \in Workers |-> 0]
    /\ chanClosed = FALSE
    /\ stopped = FALSE
    /\ pub = [p \in Publishers |-> "idle"]
    /\ stop = [s \in Stoppers |-> "idle"]
    /\ once = "fresh"
    /\ work = [w \in Workers |-> "receive"]
    /\ pos = [w \in Workers |-> 1]
    /\ sawOpen = [w \in Workers |-> FALSE]
    /\ breaker = [u \in Urls |-> NoBreaker]
    /\ now = 0
    /\ delivered = [u \in Urls |-> << >>]
    /\ lastFail = [u \in Urls |-> Never]
    /\ panicked = FALSE

-----------------------------------------------------------------------------
(* Publish                                                                 *)

(* The first look at the flag, without the lock.                           *)
PublishCheck(p) ==
    /\ pub[p] = "idle"
    /\ ~stopped /\ Webhooks # << >>
    /\ accepted + Cardinality({q \in Publishers : pub[q] # "idle"}) < MaxEvents
    /\ pub' = [pub EXCEPT ![p] = "checked"]
    /\ UNCHANGED <<sent, accepted, taken, chanClosed, stopped, stop, once, workVars, now, panicked>>

(* stopMu.RLock: not while Stop holds or waits for the lock.               *)
PublishLock(p) ==
    /\ pub[p] = "checked"
    /\ once # "locking"
    /\ pub' = [pub EXCEPT ![p] = "locked"]
    /\ UNCHANGED <<sent, accepted, taken, chanClosed, stopped, stop, once, workVars, now, panicked>>

(* Faulty: spreads the events of a camera over the workers.                *)
WorkerByTopic(camera, topic) == Hash[topic]

(* The worker of an event: by camera, or by topic if there is no camera.   *)
WorkerOf(camera, topic) == Hash[IF camera = NoCamera THEN topic ELSE camera]

(* Faulty: relies on the look at the flag before the lock.                 *)
MayEnqueueUnchecked == TRUE

(* The second look at the flag, under the lock.                            *)
MayEnqueue == ~stopped

PublishRecheck(p) ==
    /\ pub[p] = "locked"
    /\ pub' = [pub EXCEPT ![p] = IF MayEnqueue THEN "sending" ELSE "idle"]
    /\ UNCHANGED <<sent, accepted, taken, chanClosed, stopped, stop, once, workVars, now, panicked>>

(* Still under the lock: send without blocking, or drop the event when the *)
(* queue is full.  Sending on a closed channel panics.                     *)
PublishEnqueue(p, camera, topic) ==
    /\ pub[p] = "sending"
    /\ pub' = [pub EXCEPT ![p] = "idle"]
    /\ LET w == WorkerOf(camera, topic)
           event == [camera |-> camera, topic |-> topic, n |-> accepted + 1]
       IN IF ~chanClosed /\ Queued(w) < QueueSize
          THEN sent' = [sent EXCEPT ![w] = Append(@, event)] /\ accepted' = accepted + 1
          ELSE UNCHANGED <<sent, accepted>>
    /\ panicked' = (panicked \/ chanClosed)
    /\ UNCHANGED <<taken, chanClosed, stopped, stop, once, workVars, now>>

-----------------------------------------------------------------------------
(* Stop                                                                    *)

(* The first caller runs the body of stopOnce, the others wait for it.     *)
StopCall(s) ==
    /\ stop[s] = "idle"
    /\ stop' = [stop EXCEPT ![s] = "waiting"]
    /\ once' = IF once = "fresh" THEN "locking" ELSE once
    /\ UNCHANGED <<sent, accepted, taken, chanClosed, stopped, pub, workVars, now, panicked>>

(* Faulty: the channels stay open.                                         *)
StopOnlyFlags ==
    /\ once = "locking"
    /\ \A p \in Publishers : pub[p] \notin {"locked", "sending"}
    /\ stopped' = TRUE
    /\ once' = "draining"
    /\ UNCHANGED <<sent, accepted, taken, chanClosed, pub, stop, workVars, now, panicked>>

(* Under stopMu.Lock: set the flag and close every worker channel.         *)
StopClose ==
    /\ once = "locking"
    /\ \A p \in Publishers : pub[p] \notin {"locked", "sending"}
    /\ stopped' = TRUE
    /\ chanClosed' = TRUE
    /\ once' = "draining"
    /\ UNCHANGED <<sent, accepted, taken, pub, stop, workVars, now, panicked>>

(* wg.Wait returns when every worker has exited.                           *)
StopWait ==
    /\ once = "draining"
    /\ \A w \in Workers : work[w] = "exited"
    /\ once' = "done"
    /\ UNCHANGED <<sent, accepted, taken, chanClosed, stopped, pub, stop, workVars, now, panicked>>

StopReturn(s) ==
    /\ stop[s] = "waiting"
    /\ once = "done"
    /\ stop' = [stop EXCEPT ![s] = "returned"]
    /\ UNCHANGED <<sent, accepted, taken, chanClosed, stopped, pub, once, workVars, now, panicked>>

-----------------------------------------------------------------------------
(* The worker loop                                                         *)

(* The next event; one whose payload cannot be marshalled is dropped.      *)
Receive(w) ==
    /\ work[w] = "receive"
    /\ Queued(w) > 0
    /\ taken' = [taken EXCEPT ![w] = @ + 1]
    /\ \/ work' = [work EXCEPT ![w] = "hooks"] /\ pos' = [pos EXCEPT ![w] = 1]
       \/ UNCHANGED <<work, pos>>
    /\ UNCHANGED <<sent, accepted, chanClosed, stopped, pub, stop, once, sawOpen, breaker,
                   delivered, lastFail, now, panicked>>

(* Faulty: leaves as soon as the channel is closed.                        *)
ExitEarly(w) ==
    /\ work[w] = "receive"
    /\ chanClosed
    /\ work' = [work EXCEPT ![w] = "exited"]
    /\ UNCHANGED <<busVars, pos, sawOpen, breaker, delivered, lastFail, now, panicked>>

(* The loop over a closed channel ends when the channel is empty.          *)
Exit(w) ==
    /\ work[w] = "receive"
    /\ chanClosed /\ Queued(w) = 0
    /\ work' = [work EXCEPT ![w] = "exited"]
    /\ UNCHANGED <<busVars, pos, sawOpen, breaker, delivered, lastFail, now, panicked>>

Hook(w) == Webhooks[pos[w]]

(* matchesTopic: no filter, a wildcard or the topic itself.                *)
MatchesTopic(topics, topic) == topics = {} \/ "*" \in topics \/ topic \in topics

CircuitOpen(u) == breaker[u] # NoBreaker /\ now < breaker[u]

(* A webhook that is not interested or whose circuit is open is skipped.   *)
SkipHook(w) ==
    /\ work[w] = "hooks" /\ pos[w] <= Len(Webhooks)
    /\ ~MatchesTopic(Hook(w).topics, Current(w).topic) \/ CircuitOpen(Hook(w).url)
    /\ pos' = [pos EXCEPT ![w] = @ + 1]
    /\ UNCHANGED <<busVars, work, sawOpen, breaker, delivered, lastFail, now, panicked>>

(* Otherwise the request is sent, with isOpen as it was read.              *)
StartPost(w) ==
    /\ work[w] = "hooks" /\ pos[w] <= Len(Webhooks)
    /\ MatchesTopic(Hook(w).topics, Current(w).topic) /\ ~CircuitOpen(Hook(w).url)
    /\ work' = [work EXCEPT ![w] = "posting"]
    /\ sawOpen' = [sawOpen EXCEPT ![w] = breaker[Hook(w).url] # NoBreaker]
    /\ UNCHANGED <<busVars, pos, breaker, delivered, lastFail, now, panicked>>

(* A 2xx answer resets the circuit if it had been opened.                  *)
PostSucceeds(w) ==
    /\ work[w] = "posting"
    /\ delivered' = [delivered EXCEPT ![Hook(w).url] = Append(@, Current(w))]
    /\ breaker' = IF sawOpen[w] THEN [breaker EXCEPT ![Hook(w).url] = NoBreaker] ELSE breaker
    /\ work' = [work EXCEPT ![w] = "hooks"]
    /\ lastFail' = [lastFail EXCEPT ![Hook(w).url] = Never]
    /\ pos' = [pos EXCEPT ![w] = @ + 1]
    /\ UNCHANGED <<busVars, sawOpen, now, panicked>>

(* Faulty: an entry that has run out is not renewed.                       *)
PostFailsOnce(w) ==
    /\ work[w] = "posting"
    /\ breaker' = IF breaker[Hook(w).url] = NoBreaker
                    THEN [breaker EXCEPT ![Hook(w).url] = now + Cooldown] ELSE breaker
    /\ lastFail' = [lastFail EXCEPT ![Hook(w).url] = now]
    /\ work' = [work EXCEPT ![w] = "hooks"]
    /\ pos' = [pos EXCEPT ![w] = @ + 1]
    /\ UNCHANGED <<busVars, sawOpen, delivered, now, panicked>>

(* Any other answer, an error or a timeout opens it.                       *)
PostFails(w) ==
    /\ work[w] = "posting"
    /\ breaker' = [breaker EXCEPT ![Hook(w).url] = now + Cooldown]
    /\ lastFail' = [lastFail EXCEPT ![Hook(w).url] = now]
    /\ work' = [work EXCEPT ![w] = "hooks"]
    /\ pos' = [pos EXCEPT ![w] = @ + 1]
    /\ UNCHANGED <<busVars, sawOpen, delivered, now, panicked>>

HooksDone(w) ==
    /\ work[w] = "hooks" /\ pos[w] > Len(Webhooks)
    /\ work' = [work EXCEPT ![w] = "receive"]
    /\ UNCHANGED <<busVars, pos, sawOpen, breaker, delivered, lastFail, now, panicked>>

Tick ==
    /\ now < MaxTime
    /\ now' = now + 1
    /\ UNCHANGED <<busVars, workVars, panicked>>

-----------------------------------------------------------------------------
Publish(p) ==
    \/ PublishCheck(p)
    \/ PublishLock(p)
    \/ PublishRecheck(p)
    \/ \E camera \in Cameras \cup {NoCamera}, topic \in Topics : PublishEnqueue(p, camera, topic)

Stop(s) == StopCall(s) \/ StopReturn(s)
StopBody == StopClose \/ StopWait

WorkerLoop(w) ==
    \/ Receive(w) \/ Exit(w)
    \/ SkipHook(w) \/ StartPost(w) \/ HooksDone(w)
    \/ PostSucceeds(w) \/ PostFails(w)

Next ==
    \/ \E p \in Publishers : Publish(p)
    \/ \E s \in Stoppers : Stop(s)
    \/ StopBody
    \/ \E w \in Workers : WorkerLoop(w)
    \/ Tick

Spec == Init /\ [][Next]_vars

(* A publisher inside Publish goes on, a caller of Stop and the workers    *)
(* run, and a request ends because the HTTP client has a timeout of 3s.    *)
(* Nobody has to publish, to call Stop or to let a delivery succeed.       *)
FairSpec ==
    /\ Spec
    /\ \A p \in Publishers : WF_vars(pub[p] # "idle" /\ Publish(p))
    /\ \A s \in Stoppers : WF_vars(StopReturn(s))
    /\ WF_vars(StopBody)
    /\ \A w \in Workers : WF_vars(WorkerLoop(w))

-----------------------------------------------------------------------------
(* Properties                                                              *)

Event == [camera : Cameras \cup {NoCamera}, topic : Topics, n : Nat]

(* Every variable of the bus has its type.                                 *)
TypeOK ==
    /\ sent \in [Workers -> Seq(Event)]
    /\ accepted \in Nat
    /\ taken \in [Workers -> Nat]
    /\ chanClosed \in BOOLEAN
    /\ stopped \in BOOLEAN
    /\ pub \in [Publishers -> {"idle", "checked", "locked", "sending"}]
    /\ stop \in [Stoppers -> {"idle", "waiting", "returned"}]
    /\ once \in {"fresh", "locking", "draining", "done"}
    /\ work \in [Workers -> {"receive", "hooks", "posting", "exited"}]
    /\ pos \in [Workers -> 1..(Len(Webhooks) + 1)]
    /\ sawOpen \in [Workers -> BOOLEAN]
    /\ breaker \in [Urls -> Int]
    /\ now \in Nat
    /\ delivered \in [Urls -> Seq(Event)]
    /\ lastFail \in [Urls -> Int]
    /\ panicked \in BOOLEAN

(* No Publish ever sends on a closed channel (eventbus.go:95-129), however *)
(* it overlaps with Stop: it looks at the flag again under the lock, and   *)
(* Stop closes the channels only when nobody holds the lock.               *)
NeverSendsOnClosed == ~panicked

SameStream(e, f) == IF e.camera = NoCamera THEN f.camera = NoCamera /\ e.topic = f.topic
                                           ELSE e.camera = f.camera

(* Strict FIFO per camera (eventbus.go:109-110): the events of one camera  *)
(* that an endpoint accepts arrive in the order they were published, with  *)
(* any number of workers, drops, failures and open circuits.               *)
PerCameraOrder ==
    \A u \in Urls : \A i, j \in DOMAIN delivered[u] :
        i < j /\ SameStream(delivered[u][i], delivered[u][j])
            => delivered[u][i].n <= delivered[u][j].n

(* Stop blocks until all pending events are processed (eventbus.go:132):   *)
(* when any call of it returns, nothing is queued and no worker runs.      *)
StopDrains ==
    (\E s \in Stoppers : stop[s] = "returned") =>
        \A w \in Workers : Queued(w) = 0 /\ work[w] = "exited"

(* Stop returns, whatever the publishers do and the endpoints answer.      *)
StopTerminates == \A s \in Stoppers : stop[s] = "waiting" ~> stop[s] = "returned"

(* "Webhook delivery failed, opening circuit for 30s" (eventbus.go:183):   *)
(* no request to an endpoint starts within the cooldown of a failure,      *)
(* unless a delivery has succeeded since (a request that was already under *)
(* way when the circuit opened closes it again).                           *)
CircuitHolds ==
    [][\A w \in Workers : StartPost(w) => now >= lastFail[Hook(w).url] + Cooldown]_vars
=============================================================================
