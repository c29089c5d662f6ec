------------------------------ MODULE Delivery ------------------------------
(***************************************************************************)
(* The viewers of one stream, and the end of the process under them:       *)
(* internal/grpc/server.go (StreamFrames), internal/api/ws.go (StreamWS),  *)
(* internal/webrtc/muxer.go, and the shutdown of pkg/engine/engine.go.     *)
(*                                                                         *)
(* A frame is the version of the parameter sets it was coded with, which   *)
(* the camera may change when it is dialled again, and whether it is a     *)
(* keyframe.  Which frames a reader gets is RingBuffer's subject, and what *)
(* goes over the metadata channel Metadata's.  Viewers come once in the    *)
(* life of a process.                                                      *)
(***************************************************************************)
EXTENDS Naturals, Sequences

CONSTANTS Clients,      \* who may come
          Audiences,    \* the kinds of viewers they may be
          MaxVersion    \* bound on the changes of the parameter sets

Kinds == {"grpc", "ws", "webrtc", "logs"}

ASSUME DeliveryAssumption ==
    /\ Audiences \subseteq [Clients -> Kinds]
    /\ MaxVersion \in Nat

VARIABLES
    kind,       \* what a client is
    version,    \* parameter sets of the buffer, 0 before the first
    ringOpen,   \* the buffer is open
    phase,      \* how far Run is
    conn,       \* the client's side: "none", "open" or "gone"
    at,         \* where the goroutine that serves it stands
    queue,      \* frames in the channel of its reader
    hand,       \* the frame it sends, with the parameter sets that go along
    kept,       \* parameter sets that the goroutine keeps
    ctx,        \* its context was cancelled
    meta,       \* where pumpMetadata stands
    peer,       \* the peer connection
    reports,    \* its callbacks that have still to run, in any order
    counted     \* it is in WebRTCPeersActive; "late": the callbacks crossed

readVars == <<at, queue, hand, kept>>
peerVars == <<meta, peer, reports, counted>>
clientVars == <<conn, readVars, ctx, peerVars>>
deliveryVars == <<kind, version, ringOpen, phase, clientVars>>

QueueSize == 1
Frames == [ver : 1..MaxVersion, key : BOOLEAN]
NoHand == [ver |-> 0, key |-> FALSE, params |-> 0]

DeliveryInit ==
    /\ kind \in Audiences
    /\ version = 0
    /\ ringOpen = TRUE
    /\ phase = "run"
    /\ conn = [v \in Clients |-> "none"]
    /\ at = [v \in Clients |-> "idle"]
    /\ queue = [v \in Clients |-> <<>>]
    /\ hand = [v \in Clients |-> NoHand]
    /\ kept = [v \in Clients |-> 0]
    /\ ctx = [v \in Clients |-> FALSE]
    /\ meta = [v \in Clients |-> "none"]
    /\ peer = [v \in Clients |-> "new"]
    /\ reports = [v \in Clients |-> {}]
    /\ counted = [v \in Clients |-> "no"]

Running == phase # "exited"
Reading(v) == at[v] \in {"sync", "loop"}
HasReader(v) == at[v] \in {"sync", "loop", "send"}

----------------------------------------------------------------------------
(* The camera.                                                             *)

(* The camera is dialled, and its parameter sets are stored.               *)
NewParams ==
    /\ Running /\ ringOpen
    /\ version < MaxVersion
    /\ version' = version + 1
    /\ UNCHANGED <<kind, ringOpen, phase, clientVars>>

(* Faulty: the first frames come before the parameter sets are stored.     *)
WriteBeforeParams(key, readers) ==
    /\ Running /\ ringOpen
    /\ version < MaxVersion
    /\ readers \subseteq {v \in Clients : HasReader(v) /\ Len(queue[v]) < QueueSize}
    /\ queue' = [v \in Clients |->
                   IF v \in readers THEN Append(queue[v], [ver |-> version + 1, key |-> key])
                   ELSE queue[v]]
    /\ UNCHANGED <<kind, version, ringOpen, phase, conn, at, hand, kept, ctx, peerVars>>

(* Write: some readers have room for the frame, and get it.                *)
WriteFrame(key, readers) ==
    /\ Running /\ ringOpen
    /\ version > 0
    /\ readers \subseteq {v \in Clients : HasReader(v) /\ Len(queue[v]) < QueueSize}
    /\ queue' = [v \in Clients |->
                   IF v \in readers THEN Append(queue[v], [ver |-> version, key |-> key])
                   ELSE queue[v]]
    /\ UNCHANGED <<kind, version, ringOpen, phase, conn, at, hand, kept, ctx, peerVars>>

(* The stream is removed: its buffer is closed.                            *)
StreamRemoved ==
    /\ phase = "run"
    /\ ringOpen
    /\ ringOpen' = FALSE
    /\ UNCHANGED <<kind, version, phase, clientVars>>

----------------------------------------------------------------------------
(* What the goroutines share.                                              *)

(* NewReader preloads the frames from the last keyframe on, which may be   *)
(* older than the parameter sets.                                          *)
NewReader(v, pc) ==
    /\ at' = [at EXCEPT ![v] = pc]
    /\ \/ queue' = [queue EXCEPT ![v] = <<>>]
       \/ /\ ringOpen
          /\ \E n \in 1..version :
                queue' = [queue EXCEPT ![v] = <<[ver |-> n, key |-> TRUE]>>]

(* PeerConnection.Close; its callbacks will run.                           *)
ClosePeer(v) ==
    /\ peer' = [peer EXCEPT ![v] = "closed"]
    /\ reports' = IF peer[v] = "closed" THEN reports
                  ELSE [reports EXCEPT ![v] = @ \cup {"closed", "ice"}]

(* The goroutine returns, and what it deferred runs.                       *)
Ends(v) ==
    /\ conn' = [conn EXCEPT ![v] = "gone"]
    /\ at' = [at EXCEPT ![v] = "ended"]
    /\ queue' = [queue EXCEPT ![v] = <<>>]
    /\ hand' = [hand EXCEPT ![v] = NoHand]
    /\ IF kind[v] = "webrtc" THEN ClosePeer(v) ELSE UNCHANGED <<peer, reports>>

(* A frame in hand, with the parameter sets that a keyframe takes along.   *)
Hold(v, params) ==
    /\ hand' = [hand EXCEPT ![v] = [ver |-> Head(queue[v]).ver, key |-> Head(queue[v]).key,
                                    params |-> params]]
    /\ at' = [at EXCEPT ![v] = "send"]
    /\ queue' = [queue EXCEPT ![v] = Tail(@)]

ServeKept == UNCHANGED <<kind, version, ringOpen, phase, ctx, meta, counted>>

(* The frame is written.  A WebSocket has a deadline, a gRPC client that   *)
(* does not read holds its goroutine up.                                   *)
Sent(v) ==
    /\ Running
    /\ at[v] = "send"
    /\ at' = [at EXCEPT ![v] = "loop"]
    /\ hand' = [hand EXCEPT ![v] = NoHand]
    /\ UNCHANGED <<conn, queue, kept, peer, reports>>
    /\ ServeKept

SendFails(v) ==
    /\ Running
    /\ at[v] = "send"
    /\ conn[v] = "gone" \/ kind[v] = "ws" \/ peer[v] = "closed"
    /\ Ends(v)
    /\ UNCHANGED kept
    /\ ServeKept

(* Faulty: frames are awaited without the context.                         *)
LeaveOnlyAtEnd(v) ==
    /\ Running
    /\ Reading(v)
    /\ ~ringOpen /\ queue[v] = <<>>
    /\ Ends(v)
    /\ UNCHANGED kept
    /\ ServeKept

(* ReadContext, or the select of StreamWS or StreamLogs: the context is    *)
(* cancelled, the channel closed and empty, or a ping fails.               *)
Leave(v) ==
    /\ Running
    /\ Reading(v) \/ at[v] = "logs"
    /\ \/ ctx[v]
       \/ HasReader(v) /\ ~ringOpen /\ queue[v] = <<>>
       \/ kind[v] = "ws" /\ conn[v] = "gone"
    /\ Ends(v)
    /\ UNCHANGED kept
    /\ ServeKept

(* The client leaves: the context of a call or request is cancelled.       *)
ClientLeaves(v) ==
    /\ Running
    /\ conn[v] = "open"
    /\ conn' = [conn EXCEPT ![v] = "gone"]
    /\ ctx' = [ctx EXCEPT ![v] = @ \/ kind[v] \in {"grpc", "logs"}]
    /\ UNCHANGED <<kind, version, ringOpen, phase, readVars, peerVars>>

(* StreamLogs, a request that lasts as long as its client.                 *)
StreamLogs(v) ==
    /\ phase = "run"
    /\ kind[v] = "logs" /\ conn[v] = "none"
    /\ conn' = [conn EXCEPT ![v] = "open"]
    /\ at' = [at EXCEPT ![v] = "logs"]
    /\ UNCHANGED <<kind, version, ringOpen, phase, queue, hand, kept, ctx, peerVars>>

----------------------------------------------------------------------------
(* gRPC.                                                                   *)

(* StreamFrames, until GracefulStop refuses new calls.                     *)
StreamFrames(v) ==
    /\ phase \in {"run", "http"}
    /\ kind[v] = "grpc" /\ conn[v] = "none"
    /\ ringOpen
    /\ conn' = [conn EXCEPT ![v] = "open"]
    /\ NewReader(v, "loop")
    /\ UNCHANGED <<kind, version, ringOpen, phase, hand, kept, ctx, peerVars>>

(* The parameter sets are read for every frame.                            *)
TakeFrame(v) ==
    /\ Running
    /\ kind[v] = "grpc" /\ at[v] = "loop"
    /\ queue[v] # <<>>
    /\ Hold(v, version)
    /\ UNCHANGED <<conn, kept, peer, reports>>
    /\ ServeKept

----------------------------------------------------------------------------
(* WebSocket.                                                              *)

StreamWS(v) ==
    /\ phase = "run"
    /\ kind[v] = "ws" /\ conn[v] = "none"
    /\ ringOpen
    /\ conn' = [conn EXCEPT ![v] = "open"]
    /\ at' = [at EXCEPT ![v] = "params"]
    /\ UNCHANGED <<kind, version, ringOpen, phase, queue, hand, kept, ctx, peerVars>>

(* The parameter sets, or none after 3 seconds.                            *)
AwaitParams(v) ==
    /\ Running
    /\ at[v] = "params"
    /\ kept' = [kept EXCEPT ![v] = version]
    /\ at' = [at EXCEPT ![v] = "header"]
    /\ UNCHANGED <<conn, queue, hand, peer, reports>>
    /\ ServeKept

(* The header with them is written; then the reader is made.               *)
SendHeader(v) ==
    /\ Running
    /\ at[v] = "header"
    /\ \/ NewReader(v, "sync") /\ UNCHANGED <<conn, hand, peer, reports>>
       \/ Ends(v)
    /\ UNCHANGED kept
    /\ ServeKept

(* Frames before the first keyframe are left out.                          *)
TakeForWS(v) ==
    /\ Running
    /\ kind[v] = "ws" /\ Reading(v)
    /\ queue[v] # <<>>
    /\ IF at[v] = "loop" \/ Head(queue[v]).key
         THEN Hold(v, kept[v])
         ELSE queue' = [queue EXCEPT ![v] = Tail(@)] /\ UNCHANGED <<at, hand>>
    /\ UNCHANGED <<conn, kept, peer, reports>>
    /\ ServeKept

(* The goroutine that reads from the client has an error, at the latest    *)
(* 60 seconds after the last pong.                                         *)
ReaderNotices(v) ==
    /\ Running
    /\ kind[v] = "ws" /\ HasReader(v)
    /\ conn[v] = "gone" /\ ~ctx[v]
    /\ ctx' = [ctx EXCEPT ![v] = TRUE]
    /\ UNCHANGED <<kind, version, ringOpen, phase, conn, readVars, peerVars>>

----------------------------------------------------------------------------
(* WebRTC.                                                                 *)

(* HandleOffer up to its wait for candidates.  An error before it leaves   *)
(* nothing behind but a closed peer connection.                            *)
HandleOffer(v) ==
    /\ phase = "run"
    /\ kind[v] = "webrtc" /\ conn[v] = "none"
    /\ ringOpen
    /\ version > 0
    /\ \/ /\ conn' = [conn EXCEPT ![v] = "open"]
          /\ at' = [at EXCEPT ![v] = "gather"]
          /\ UNCHANGED peer
       \/ /\ conn' = [conn EXCEPT ![v] = "gone"]
          /\ at' = [at EXCEPT ![v] = "ended"]
          /\ peer' = [peer EXCEPT ![v] = "closed"]
    /\ UNCHANGED <<kind, version, ringOpen, phase, queue, hand, kept, ctx,
                   meta, reports, counted>>

(* The candidates are there, or 15 seconds have passed: pumpFrames starts. *)
Gathered(v) ==
    /\ Running
    /\ at[v] = "gather"
    /\ NewReader(v, "loop")
    /\ kept' = [kept EXCEPT ![v] = version]
    /\ UNCHANGED <<conn, hand, peer, reports>>
    /\ ServeKept

(* pumpFrames keeps the parameter sets, once it has any.                   *)
PumpFrame(v) ==
    /\ Running
    /\ kind[v] = "webrtc" /\ at[v] = "loop"
    /\ queue[v] # <<>>
    /\ LET params == IF Head(queue[v]).key /\ kept[v] = 0 THEN version ELSE kept[v]
       IN Hold(v, params) /\ kept' = [kept EXCEPT ![v] = params]
    /\ UNCHANGED <<conn, peer, reports>>
    /\ ServeKept

PeerKept == UNCHANGED <<kind, version, ringOpen, phase, conn, readVars>>

(* The peer connection comes up, and goes down when the client does, or at *)
(* any time.                                                               *)
PeerConnects(v) ==
    /\ Running
    /\ at[v] \in {"gather", "loop", "send"}
    /\ peer[v] = "new" /\ conn[v] = "open" /\ kind[v] = "webrtc"
    /\ peer' = [peer EXCEPT ![v] = "connected"]
    /\ reports' = [reports EXCEPT ![v] = @ \cup {"connected"}]
    /\ UNCHANGED <<ctx, meta, counted>>
    /\ PeerKept

PeerFails(v) ==
    /\ Running
    /\ kind[v] = "webrtc" /\ at[v] # "idle"
    /\ peer[v] \in {"new", "connected"}
    /\ peer' = [peer EXCEPT ![v] = "down"]
    /\ \E news \in {{"ice"}, {"ice", "closed"}} : reports' = [reports EXCEPT ![v] = @ \cup news]
    /\ UNCHANGED <<ctx, meta, counted>>
    /\ PeerKept

(* Faulty: the peer connection is closed, and the pumps not told.          *)
CloseOnICE(v) ==
    /\ Running
    /\ "ice" \in reports[v]
    /\ peer' = [peer EXCEPT ![v] = "closed"]
    /\ reports' = [reports EXCEPT ![v] = (@ \ {"ice"}) \cup {"closed"}]
    /\ UNCHANGED <<ctx, meta, counted>>
    /\ PeerKept

(* OnICEConnectionStateChange: closed, failed or disconnected.             *)
OnICEConnectionStateChange(v) ==
    /\ Running
    /\ "ice" \in reports[v]
    /\ peer' = [peer EXCEPT ![v] = "closed"]
    /\ reports' = [reports EXCEPT ![v] =
                     IF peer[v] = "closed" THEN @ \ {"ice"} ELSE @ \cup {"closed"}]
    /\ ctx' = [ctx EXCEPT ![v] = TRUE]
    /\ UNCHANGED <<meta, counted>>
    /\ PeerKept

(* OnConnectionStateChange: connected, then closed or failed.              *)
OnConnected(v) ==
    /\ Running
    /\ "connected" \in reports[v]
    /\ reports' = [reports EXCEPT ![v] = @ \ {"connected"}]
    /\ counted' = [counted EXCEPT ![v] =
                     IF peer[v] = "closed" /\ "closed" \notin reports[v] THEN "late" ELSE "yes"]
    /\ UNCHANGED <<peer, ctx, meta>>
    /\ PeerKept

OnClosed(v) ==
    /\ Running
    /\ "closed" \in reports[v]
    /\ reports' = [reports EXCEPT ![v] = @ \ {"closed"}]
    /\ counted' = [counted EXCEPT ![v] = "no"]
    /\ UNCHANGED <<peer, ctx, meta>>
    /\ PeerKept

(* OnDataChannel starts pumpMetadata, which waits for the channel to open. *)
OnDataChannel(v) ==
    /\ Running
    /\ peer[v] = "connected" /\ meta[v] = "none"
    /\ meta' = [meta EXCEPT ![v] = "opening"]
    /\ UNCHANGED <<peer, reports, counted, ctx>>
    /\ PeerKept

ChannelOpens(v) ==
    /\ Running
    /\ peer[v] = "connected" /\ meta[v] = "opening"
    /\ meta' = [meta EXCEPT ![v] = "subscribed"]
    /\ UNCHANGED <<peer, reports, counted, ctx>>
    /\ PeerKept

(* It does not open in time, the context is cancelled, or sending fails.   *)
MetadataEnds(v) ==
    /\ Running
    /\ \/ meta[v] = "opening"
       \/ meta[v] = "subscribed" /\ (ctx[v] \/ peer[v] = "closed")
    /\ meta' = [meta EXCEPT ![v] = "ended"]
    /\ UNCHANGED <<peer, reports, counted, ctx>>
    /\ PeerKept

----------------------------------------------------------------------------
(* Shutdown.                                                               *)

SetPhase(p) ==
    /\ phase' = p
    /\ UNCHANGED <<kind, version, clientVars>>

Signal == phase = "run" /\ SetPhase("http") /\ UNCHANGED ringOpen

(* HTTP requests in progress; WebSockets are not among them any more.      *)
Busy == \E v \in Clients : at[v] \in {"logs", "gather"}

(* srv.Shutdown waits for them, and after 5 seconds the process is given   *)
(* up with what it was doing.                                              *)
HTTPShutdown == phase = "http" /\ ~Busy /\ SetPhase("grpc") /\ UNCHANGED ringOpen
ForcedShutdown == phase = "http" /\ Busy /\ SetPhase("exited") /\ UNCHANGED ringOpen

InCall(v) == kind[v] = "grpc" /\ HasReader(v)

(* GracefulStop waits for the calls.                                       *)
GracefulStop ==
    /\ phase = "grpc"
    /\ \A v \in Clients : ~InCall(v)
    /\ SetPhase("close")
    /\ UNCHANGED ringOpen

(* manager.Close ends every stream, and its buffer.                        *)
ManagerClose == phase = "close" /\ SetPhase("exiting") /\ ringOpen' = FALSE
RunReturns == phase = "exiting" /\ SetPhase("exited") /\ UNCHANGED ringOpen

(* The process is started again.                                           *)
StartAgain ==
    /\ phase = "exited"
    /\ version' = 0
    /\ ringOpen' = TRUE
    /\ phase' = "run"
    /\ conn' = [v \in Clients |-> "none"]
    /\ at' = [v \in Clients |-> "idle"]
    /\ queue' = [v \in Clients |-> <<>>]
    /\ hand' = [v \in Clients |-> NoHand]
    /\ kept' = [v \in Clients |-> 0]
    /\ ctx' = [v \in Clients |-> FALSE]
    /\ meta' = [v \in Clients |-> "none"]
    /\ peer' = [v \in Clients |-> "new"]
    /\ reports' = [v \in Clients |-> {}]
    /\ counted' = [v \in Clients |-> "no"]
    /\ UNCHANGED kind

----------------------------------------------------------------------------
Serve(v) ==
    \/ TakeFrame(v) \/ TakeForWS(v) \/ PumpFrame(v)
    \/ AwaitParams(v) \/ SendHeader(v) \/ Gathered(v)
WriteEnds(v) == Sent(v) \/ SendFails(v)
Callbacks(v) == OnICEConnectionStateChange(v) \/ OnConnected(v) \/ OnClosed(v)
ShutdownSteps ==
    HTTPShutdown \/ ForcedShutdown \/ GracefulStop \/ ManagerClose \/ RunReturns

DeliveryNext ==
    \/ NewParams \/ StreamRemoved
    \/ \E key \in BOOLEAN, readers \in SUBSET Clients : WriteFrame(key, readers)
    \/ \E v \in Clients :
         \/ StreamFrames(v) \/ StreamWS(v) \/ HandleOffer(v) \/ StreamLogs(v)
         \/ Serve(v) \/ WriteEnds(v) \/ Leave(v) \/ ClientLeaves(v)
         \/ ReaderNotices(v)
         \/ PeerConnects(v) \/ PeerFails(v) \/ Callbacks(v)
         \/ OnDataChannel(v) \/ ChannelOpens(v) \/ MetadataEnds(v)
    \/ Signal \/ ShutdownSteps
    \/ StartAgain

DeliverySpec == DeliveryInit /\ [][DeliveryNext]_deliveryVars

(* The loop of a viewer's goroutine, and what else happens to a viewer     *)
(* once: callbacks, and the notice that the client has gone.               *)
Loop(v) == Serve(v) \/ ((conn[v] = "gone" \/ kind[v] # "grpc") /\ WriteEnds(v))
Events(v) ==
    Callbacks(v) \/ ReaderNotices(v) \/ MetadataEnds(v) \/ (conn[v] = "gone" /\ PeerFails(v))

(* Goroutines are scheduled, a select takes each of its ready cases sooner *)
(* or later, callbacks run, a peer connection notices that its client has  *)
(* gone, and writes end, except to a gRPC client that stays and does not   *)
(* read.                                                                   *)
DeliveryFairness ==
    /\ \A v \in Clients :
         /\ WF_deliveryVars(Loop(v))
         /\ SF_deliveryVars(Leave(v))
         /\ WF_deliveryVars(Events(v))
    /\ WF_deliveryVars(ShutdownSteps)

DeliveryFairSpec == DeliverySpec /\ DeliveryFairness

----------------------------------------------------------------------------
(* Properties.                                                             *)

(* A keyframe is sent behind parameter sets, and behind those it was coded *)
(* with.  A gRPC client gets others only with a frame that was on its way  *)
(* when the camera changed them.  A WebRTC viewer keeps those it began     *)
(* with, whatever the camera does later.                                   *)
ParamsFit ==
    \A v \in Clients :
        hand[v].key /\ hand[v].params # hand[v].ver =>
            \/ hand[v].ver < version
            \/ kind[v] = "ws" /\ kept[v] < version
            \/ kind[v] = "webrtc" /\ hand[v].params \in 1..(version - 1)

(* The goroutine of the viewer has closed its reader, its metadata         *)
(* subscription is given up, and it is not counted as a peer.              *)
Released(v) ==
    \/ phase = "exited"
    \/ /\ at[v] \in {"idle", "ended"}
       /\ meta[v] \in {"none", "ended"}
       /\ counted[v] # "yes"

(* A viewer who leaves, and one whose stream is removed, gives everything  *)
(* back, whatever it is doing: reader, metadata subscription, and its      *)
(* place in WebRTCPeersActive, unless the callback for the connection came *)
(* after the one for its end.  A gRPC client that stays and does not read  *)
(* keeps its call, and the reader, when the stream is removed.             *)
ViewersReleased ==
    \A v \in Clients :
        conn[v] = "gone" \/ (conn[v] = "open" /\ ~ringOpen /\ kind[v] # "logs")
            ~> Released(v) \/ (kind[v] = "grpc" /\ conn[v] = "open" /\ at[v] = "send")

(* After the signal the process comes to its end, unless a gRPC client     *)
(* stays connected: GracefulStop, which runs before the streams are        *)
(* closed, waits for it as long as it likes.                               *)
GrpcClientStays == \E v \in Clients : kind[v] = "grpc" /\ conn[v] = "open" /\ phase = "grpc"
ShutdownReturns == []<>~GrpcClientStays => (phase = "http" ~> phase = "exited")
=============================================================================
