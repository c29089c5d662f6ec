------------------------------ MODULE Metadata ------------------------------
(***************************************************************************)
(* The broadcaster of AI metadata, internal/stream/metadata.go, between    *)
(* PushMetadata (internal/grpc/server.go) and pumpMetadata                 *)
(* (internal/webrtc/muxer.go); and the broadcaster of the logs,            *)
(* pkg/logger/broadcaster.go, which is the same thing without a message    *)
(* for newcomers.                                                          *)
(*                                                                         *)
(* A message is the number of its broadcast.                               *)
(***************************************************************************)
EXTENDS Naturals, Sequences

CONSTANTS Subscribers,
          ChannelSize,   \* of a subscriber
          MaxMessages    \* bound on the messages

ASSUME MetadataAssumption == ChannelSize \in Nat \ {0} /\ MaxMessages \in Nat

VARIABLES
    logs,        \* it is the broadcaster of the logs
    count,       \* broadcasts so far
    latest,      \* last message, for newcomers, or 0
    subscribed,  \* who is subscribed
    since,       \* history: broadcasts before a subscriber came
    channel,     \* messages in its channel
    passed,      \* history: messages it has taken
    missed       \* history: messages for which it had no room

metadataVars == <<logs, count, latest, subscribed, since, channel, passed, missed>>

MetadataInit ==
    /\ logs \in BOOLEAN
    /\ count = 0
    /\ latest = 0
    /\ subscribed = {}
    /\ since = [s \in Subscribers |-> 0]
    /\ channel = [s \in Subscribers |-> <<>>]
    /\ passed = [s \in Subscribers |-> {}]
    /\ missed = [s \in Subscribers |-> {}]

Room(s) == Len(channel[s]) < ChannelSize

----------------------------------------------------------------------------
(* The broadcaster, under its mutex.                                       *)

Subscribe(s) ==
    /\ s \notin subscribed
    /\ subscribed' = subscribed \cup {s}
    /\ since' = [since EXCEPT ![s] = count]
    /\ channel' = [channel EXCEPT ![s] = IF latest = 0 THEN <<>> ELSE <<latest>>]
    /\ UNCHANGED <<logs, count, latest, passed, missed>>

Unsubscribe(s) ==
    /\ s \in subscribed
    /\ subscribed' = subscribed \ {s}
    /\ since' = [since EXCEPT ![s] = 0]
    /\ channel' = [channel EXCEPT ![s] = <<>>]
    /\ passed' = [passed EXCEPT ![s] = {}]
    /\ missed' = [missed EXCEPT ![s] = {}]
    /\ UNCHANGED <<logs, count, latest>>

(* Faulty: a subscriber without room ends the broadcast.                   *)
DeliverUntilFull(n) ==
    LET full == {s \in subscribed : ~Room(s)}
    IN /\ channel' = [s \in Subscribers |->
                        IF s \in subscribed /\ full = {} THEN Append(channel[s], n) ELSE channel[s]]
       /\ missed' = [s \in Subscribers |-> IF s \in full THEN missed[s] \cup {n} ELSE missed[s]]

(* Who has no room misses the message.                                     *)
Deliver(n) ==
    /\ channel' = [s \in Subscribers |->
                     IF s \in subscribed /\ Room(s) THEN Append(channel[s], n) ELSE channel[s]]
    /\ missed' = [s \in Subscribers |->
                     IF s \in subscribed /\ ~Room(s) THEN missed[s] \cup {n} ELSE missed[s]]

(* Broadcast, and the Write of the logs.                                   *)
Broadcast ==
    /\ count < MaxMessages
    /\ count' = count + 1
    /\ latest' = IF logs THEN 0 ELSE count + 1
    /\ Deliver(count + 1)
    /\ UNCHANGED <<logs, subscribed, since, passed>>

(* pumpMetadata passes a message on, unless it cannot be encoded;          *)
(* StreamLogs writes it.                                                   *)
PassOn(s) ==
    /\ s \in subscribed
    /\ channel[s] # <<>>
    /\ passed' = [passed EXCEPT ![s] = @ \cup {Head(channel[s])}]
    /\ channel' = [channel EXCEPT ![s] = Tail(@)]
    /\ UNCHANGED <<logs, count, latest, subscribed, since, missed>>

MetadataNext ==
    \/ Broadcast
    \/ \E s \in Subscribers : Subscribe(s) \/ Unsubscribe(s) \/ PassOn(s)

MetadataSpec == MetadataInit /\ [][MetadataNext]_metadataVars

----------------------------------------------------------------------------
(* Properties.                                                             *)

MetadataTypeOK ==
    /\ logs \in BOOLEAN
    /\ count \in Nat
    /\ latest \in Nat
    /\ subscribed \subseteq Subscribers
    /\ since \in [Subscribers -> Nat]
    /\ channel \in [Subscribers -> Seq(Nat)]
    /\ passed \in [Subscribers -> SUBSET Nat]
    /\ missed \in [Subscribers -> SUBSET Nat]

(* A subscriber is told the latest message and every later one, in the     *)
(* order of the broadcasts and none twice, but for those that found its    *)
(* own channel full: another subscriber's delay costs it nothing, and no   *)
(* message falls between the preload and the first broadcast.              *)
MetadataComplete ==
    \A s \in subscribed :
        LET queued == {channel[s][i] : i \in DOMAIN channel[s]}
            told == passed[s] \cup queued
        IN /\ told \cap missed[s] = {}
           /\ told \cup missed[s] = (IF since[s] = 0 \/ logs THEN since[s] + 1 ELSE since[s])..count
           /\ \A i, j \in DOMAIN channel[s] : i < j => channel[s][i] < channel[s][j]
           /\ \A m \in passed[s], n \in queued : m < n
=============================================================================
