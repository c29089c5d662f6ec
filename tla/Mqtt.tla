-------------------------------- MODULE Mqtt --------------------------------
(***************************************************************************)
(* internal/mqtt/publisher.go, behind the calls of PushMetadata            *)
(* (internal/grpc/server.go) that push to it.                              *)
(*                                                                         *)
(* A message is the call it comes from and its number there.               *)
(***************************************************************************)
EXTENDS Naturals, Sequences

CONSTANTS Producers,     \* calls of PushMetadata
          MqttQueueSize,
          TokenSize,     \* of tokenChan
          MaxPushed      \* bound on the messages of a call

ASSUME MqttAssumption == MqttQueueSize \in Nat /\ TokenSize \in Nat /\ MaxPushed \in Nat

VARIABLES
    pushed,      \* messages of a call so far
    mqttQueue,
    pending,     \* the message the worker publishes, or NoMessage
    mqttTokens,  \* tokens in tokenChan
    mqttClosed,  \* Close was called
    workerRuns,
    published,   \* history: messages sent to the broker
    dropped      \* history: messages that were not

mqttVars == <<pushed, mqttQueue, pending, mqttTokens, mqttClosed, workerRuns, published,
              dropped>>

NoMessage == <<>>

MqttInit ==
    /\ pushed = [p \in Producers |-> 0]
    /\ mqttQueue = <<>>
    /\ pending = NoMessage
    /\ mqttTokens = 0
    /\ mqttClosed = FALSE
    /\ workerRuns = TRUE
    /\ published = <<>>
    /\ dropped = {}

(* Push: the newest message is dropped when the queue is full.             *)
Push(p) ==
    /\ pushed[p] < MaxPushed
    /\ pushed' = [pushed EXCEPT ![p] = @ + 1]
    /\ LET message == <<p, pushed[p] + 1>>
       IN IF Len(mqttQueue) < MqttQueueSize
            THEN mqttQueue' = Append(mqttQueue, message) /\ UNCHANGED dropped
            ELSE dropped' = dropped \cup {message} /\ UNCHANGED mqttQueue
    /\ UNCHANGED <<pending, mqttTokens, mqttClosed, workerRuns, published>>

(* The worker takes a message and encodes it, if that can be done.         *)
WorkerTakes ==
    /\ workerRuns
    /\ pending = NoMessage
    /\ mqttQueue # <<>>
    /\ mqttQueue' = Tail(mqttQueue)
    /\ \/ pending' = Head(mqttQueue) /\ UNCHANGED dropped
       \/ dropped' = dropped \cup {Head(mqttQueue)} /\ UNCHANGED pending
    /\ UNCHANGED <<pushed, mqttTokens, mqttClosed, workerRuns, published>>

(* Faulty: without room for its token a message is put back.               *)
PublishOrRequeue ==
    /\ pending # NoMessage
    /\ IF mqttTokens < TokenSize \/ mqttClosed
         THEN /\ IF mqttClosed THEN dropped' = dropped \cup {pending} /\ UNCHANGED published
                               ELSE published' = Append(published, pending) /\ UNCHANGED dropped
              /\ mqttTokens' = IF mqttTokens < TokenSize THEN mqttTokens + 1 ELSE mqttTokens
              /\ UNCHANGED mqttQueue
         ELSE mqttQueue' = Append(mqttQueue, pending) /\ UNCHANGED <<published, dropped, mqttTokens>>
    /\ pending' = NoMessage
    /\ UNCHANGED <<pushed, mqttClosed, workerRuns>>

(* Publish, in vain after Disconnect; then its token, if there is room.    *)
WorkerPublishes ==
    /\ pending # NoMessage
    /\ IF mqttClosed THEN dropped' = dropped \cup {pending} /\ UNCHANGED published
                     ELSE published' = Append(published, pending) /\ UNCHANGED dropped
    /\ mqttTokens' = IF mqttTokens < TokenSize THEN mqttTokens + 1 ELSE mqttTokens
    /\ pending' = NoMessage
    /\ UNCHANGED <<pushed, mqttQueue, mqttClosed, workerRuns>>

TokenWaiter ==
    /\ mqttTokens > 0
    /\ mqttTokens' = mqttTokens - 1
    /\ UNCHANGED <<pushed, mqttQueue, pending, mqttClosed, workerRuns, published, dropped>>

(* Close cancels both goroutines.                                          *)
ClosePublisher ==
    /\ ~mqttClosed
    /\ mqttClosed' = TRUE
    /\ UNCHANGED <<pushed, mqttQueue, pending, mqttTokens, workerRuns, published, dropped>>

(* The worker's select finds that, sooner or later; what is queued by then *)
(* stays there.                                                            *)
WorkerEnds ==
    /\ mqttClosed /\ workerRuns
    /\ pending = NoMessage
    /\ workerRuns' = FALSE
    /\ UNCHANGED <<pushed, mqttQueue, pending, mqttTokens, mqttClosed, published, dropped>>

(* NewPublisher, in a new process.                                         *)
NewPublisher ==
    /\ ~workerRuns
    /\ pushed' = [p \in Producers |-> 0]
    /\ mqttQueue' = <<>>
    /\ mqttTokens' = 0
    /\ mqttClosed' = FALSE
    /\ workerRuns' = TRUE
    /\ published' = <<>>
    /\ dropped' = {}
    /\ UNCHANGED pending

MqttNext ==
    \/ \E p \in Producers : Push(p)
    \/ WorkerTakes \/ WorkerPublishes \/ TokenWaiter
    \/ ClosePublisher \/ WorkerEnds \/ NewPublisher

MqttSpec == MqttInit /\ [][MqttNext]_mqttVars

----------------------------------------------------------------------------
(* Properties.                                                             *)

MqttTypeOK ==
    /\ pushed \in [Producers -> Nat]
    /\ mqttQueue \in Seq(Producers \X Nat)
    /\ pending \in (Producers \X Nat) \cup {NoMessage}
    /\ mqttTokens \in Nat
    /\ mqttClosed \in BOOLEAN /\ workerRuns \in BOOLEAN
    /\ published \in Seq(Producers \X Nat)
    /\ dropped \subseteq Producers \X Nat

(* The broker gets the messages of one call of PushMetadata in their       *)
(* order, whatever other calls push meanwhile.  None is lost on the way    *)
(* but for a full queue, an encoding that fails, or the end of the         *)
(* publisher, and none for want of room for its token.                     *)
PublishedInOrder ==
    LET line == published \o (IF pending = NoMessage THEN <<>> ELSE <<pending>>) \o mqttQueue
        sent == {line[i] : i \in DOMAIN line}
    IN /\ \A i, j \in DOMAIN line :
             i < j /\ line[i][1] = line[j][1] => line[i][2] < line[j][2]
       /\ \A p \in Producers : \A n \in 1..pushed[p] : <<p, n>> \in sent \cup dropped
=============================================================================
