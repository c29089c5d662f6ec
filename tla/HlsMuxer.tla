------------------------------ MODULE HlsMuxer ------------------------------
(***************************************************************************)
(* internal/hls/muxer.go: the live HLS window of one camera.               *)
(*                                                                         *)
(* The muxing loop (run), the watchdog, callers of Stop and HTTP handlers  *)
(* are processes.  A segment is its number; segments[n] is what the code   *)
(* keeps of segment n.  A buffer of the pool is named, and content says    *)
(* which segment's bytes it holds, so that a buffer that is handed out     *)
(* again while somebody still reads it shows.  A frame counts only by      *)
(* being a keyframe and by closing the current segment or not; codec       *)
(* parameters are version numbers.                                         *)
(***************************************************************************)
EXTENDS Integers, Sequences, FiniteSets

CONSTANTS Handlers,      \* HTTP requests
          Stoppers,      \* callers of Stop
          Buffers,       \* buffers of bufferPool
          MaxSegments,   \* segments in the live window
          MaxSeq, MaxParams, MaxMeta   \* bounds: segments, codec changes, metadata

ASSUME WindowAssumption == MaxSegments \in Nat /\ MaxSegments >= 3
ASSUME SeqBounds == MaxSeq \in Nat /\ MaxParams \in Nat /\ MaxMeta \in Nat

None == 0       \* no segment, no buffer, no codec parameters

ASSUME NoneIsNoBuffer == None \notin Buffers

ASSUME FiniteHandlers == IsFiniteSet(Handlers)

VARIABLES
    run,          \* the loop: "select", "closing", "rebuild", "next" or "exited"
    current,      \* currentBuf, or None
    currentCodec, \* parameters in force when currentBuf was started
    sps,          \* the loop's copy of the codec parameters
    params,       \* the ring buffer's codec parameters
    ringClosed,   \* the ring buffer was closed
    currentMeta,  \* metadata received since the last segment
    metaSeen,     \* number of metadata messages received
    idle,         \* lastFrameTime is more than 5 seconds ago
    watchdog,     \* "off", "locking" (passed the first test) or "rebuild"
    mu,           \* holder of m.mu: "free", "run" or "watchdog"
    segments,     \* segments[n]: buffer, references, flags of segment n
    window,       \* the numbers in m.segments
    segIndex,     \* the numbers in m.segIndex
    seqCount,
    needsDiscontinuity,
    firstSegReady,
    cancelled,    \* m.ctx is done
    playlist,     \* cachedPlaylist: << >> or [first, names]
    pool,         \* buffers in bufferPool
    content,      \* content[b]: segment whose bytes b holds
    stopper,      \* stopper[s]: "idle", "waiting" or "returned"
    req,          \* req[h]: where the request of h is
    held          \* held[h]: the segment h has acquired, or None

loopVars == <<run, current, currentCodec, sps, currentMeta, metaSeen>>
winVars == <<segments, window, segIndex, seqCount, needsDiscontinuity, playlist>>
bufVars == <<pool, content>>
envVars == <<params, ringClosed, idle>>
ctlVars == <<watchdog, mu, firstSegReady, cancelled, stopper>>
reqVars == <<req, held>>
vars == <<loopVars, winVars, bufVars, envVars, ctlVars, reqVars>>

Numbers == 1..MaxSeq
NoPlaylist == << >>

Init ==
    /\ run = "select" /\ current = None /\ currentCodec = None /\ currentMeta = {}
    /\ metaSeen = 0
    /\ params \in {None, 1} /\ sps = params
    /\ ringClosed = FALSE /\ idle = FALSE
    /\ watchdog = "off" /\ mu = "free"
    /\ segments = << >> /\ window = << >> /\ segIndex = {} /\ seqCount = 0
    /\ needsDiscontinuity = FALSE /\ playlist = NoPlaylist
    /\ firstSegReady = FALSE /\ cancelled = FALSE
    /\ pool = Buffers /\ content = [b \in Buffers |-> None]
    /\ stopper = [s \in Stoppers |-> "idle"]
    /\ req = [h \in Handlers |-> "idle"] /\ held = [h \in Handlers |-> None]

-----------------------------------------------------------------------------
(* Reference counts                                                        *)

(* Faulty: returns the buffer at the first release.                        *)
ReleasedTooSoon(n, segs, free) ==
    [segs |-> [segs EXCEPT ![n].refs = @ - 1],
     free |-> IF segs[n].buf # None THEN free \cup {segs[n].buf} ELSE free]

(* Release: the last reference returns the buffer to the pool.             *)
Released(n, segs, free) ==
    [segs |-> [segs EXCEPT ![n].refs = @ - 1],
     free |-> IF segs[n].refs = 1 /\ segs[n].buf # None THEN free \cup {segs[n].buf} ELSE free]

(* Faulty: the watchdog does not count the segment that it repeats.        *)
PushUncounted(seg) ==
    LET grown == Append(segments, seg)
        win == Append(window, seqCount + 1)
        out == Released(win[1], grown, pool)
    IN /\ seqCount' = IF seg.dup THEN seqCount ELSE seqCount + 1
       /\ firstSegReady' = TRUE
       /\ IF Len(win) > MaxSegments
          THEN window' = Tail(win) /\ segments' = out.segs /\ pool' = out.free
          ELSE window' = win /\ segments' = grown /\ UNCHANGED pool

(* A new segment enters the window; the oldest one leaves it if the window *)
(* is over its size, and loses the window's reference.                     *)
Push(seg) ==
    LET grown == Append(segments, seg)
        win == Append(window, seqCount + 1)
        out == Released(win[1], grown, pool)
    IN /\ seqCount' = seqCount + 1
       /\ firstSegReady' = TRUE
       /\ IF Len(win) > MaxSegments
          THEN window' = Tail(win) /\ segments' = out.segs /\ pool' = out.free
          ELSE window' = win /\ segments' = grown /\ UNCHANGED pool

(* The manifest: media sequence number and the segments of the window.     *)
Rendered == [first |-> seqCount - Len(window) + 1, names |-> window]

(* rebuildPlaylistsLocked                                                  *)
Rebuild ==
    /\ segIndex' = {window[i] : i \in DOMAIN window}
    /\ playlist' = IF window = << >> THEN playlist ELSE Rendered

-----------------------------------------------------------------------------
(* The environment                                                         *)

SetParams ==
    /\ params < MaxParams
    /\ params' = params + 1
    /\ UNCHANGED <<loopVars, winVars, bufVars, ringClosed, idle, ctlVars, reqVars>>

CloseRing ==
    /\ ~ringClosed
    /\ ringClosed' = TRUE
    /\ UNCHANGED <<loopVars, winVars, bufVars, params, idle, ctlVars, reqVars>>

TimePasses ==
    /\ ~idle
    /\ idle' = TRUE
    /\ UNCHANGED <<loopVars, winVars, bufVars, params, ringClosed, ctlVars, reqVars>>

-----------------------------------------------------------------------------
(* run                                                                     *)

(* The top of the loop: parameters are fetched as long as there are none.  *)
Fetched(p) == IF p = None THEN params ELSE p

(* A new segment starts, in a buffer from the pool: their names are        *)
(* interchangeable, so it does not matter which.                           *)
StartSegment(codec) ==
    LET b == CHOOSE b \in pool : TRUE
    IN /\ pool # {}
       /\ pool' = pool \ {b}
       /\ content' = [content EXCEPT ![b] = None]
       /\ current' = b
       /\ currentCodec' = codec

(* A frame: a keyframe, or the 25th frame since, resets the watchdog; a    *)
(* keyframe looks for new parameters, and closes the segment if it comes   *)
(* late enough.  Only a keyframe starts a segment.                         *)
Frame(key, due) ==
    /\ run = "select"
    /\ due => key /\ current # None /\ seqCount < MaxSeq
    /\ idle' \in IF key THEN {FALSE} ELSE {idle, FALSE}
    /\ LET changed == key /\ params # None /\ params # sps
           known == IF changed THEN params ELSE sps
       IN /\ needsDiscontinuity' = (needsDiscontinuity \/ changed)
          /\ IF due THEN sps' = known /\ run' = "closing" ELSE sps' = Fetched(known) /\ UNCHANGED run
          /\ IF key /\ current = None THEN StartSegment(known)
             ELSE UNCHANGED <<pool, content, current, currentCodec>>
    /\ UNCHANGED <<segments, window, segIndex, seqCount, playlist, currentMeta, metaSeen,
                   params, ringClosed, ctlVars, reqVars>>

(* A metadata message is kept for the segment under way.                   *)
ReceiveMeta ==
    /\ run = "select" /\ metaSeen < MaxMeta
    /\ metaSeen' = metaSeen + 1
    /\ currentMeta' = currentMeta \cup {metaSeen + 1}
    /\ sps' = Fetched(sps)
    /\ UNCHANGED <<run, current, currentCodec, winVars, bufVars, envVars, ctlVars, reqVars>>

(* The finished segment is published under the lock ...                    *)
CloseSegment ==
    /\ run = "closing" /\ mu = "free"
    /\ mu' = "run" /\ run' = "rebuild"
    /\ Push([buf |-> current, refs |-> 1, disc |-> needsDiscontinuity, dup |-> FALSE,
             codec |-> currentCodec, meta |-> currentMeta])
    /\ content' = [content EXCEPT ![current] = seqCount + 1]
    /\ needsDiscontinuity' = FALSE
    /\ currentMeta' = {}
    /\ current' = None
    /\ UNCHANGED <<currentCodec, sps, metaSeen, segIndex, playlist, envVars, watchdog,
                   cancelled, stopper, reqVars>>

(* ... and the playlists are rendered before the lock is given back.       *)
RunRebuild ==
    /\ run = "rebuild"
    /\ Rebuild
    /\ mu' = "free" /\ run' = "next"
    /\ UNCHANGED <<current, currentCodec, sps, currentMeta, metaSeen, segments, window, seqCount,
                   needsDiscontinuity, bufVars, envVars, watchdog, firstSegReady, cancelled,
                   stopper, reqVars>>

(* The keyframe that closed the segment starts the next one.               *)
NextSegment ==
    /\ run = "next"
    /\ StartSegment(sps)
    /\ sps' = Fetched(sps)
    /\ run' = "select"
    /\ UNCHANGED <<currentMeta, metaSeen, winVars, envVars, ctlVars, reqVars>>

RunExit ==
    /\ run = "select"
    /\ cancelled \/ ringClosed
    /\ run' = "exited"
    /\ UNCHANGED <<current, currentCodec, sps, currentMeta, metaSeen, winVars, bufVars, envVars,
                   ctlVars, reqVars>>

-----------------------------------------------------------------------------
(* CheckWatchdog                                                           *)

(* The first look at lastFrameTime, without the lock.                      *)
WatchdogCheck ==
    /\ watchdog = "off" /\ idle
    /\ watchdog' = "locking"
    /\ UNCHANGED <<loopVars, winVars, bufVars, envVars, mu, firstSegReady, cancelled, stopper,
                   reqVars>>

(* Faulty: the segment after the copy is not marked.                       *)
WatchdogForgetsMark(fires) == needsDiscontinuity

WatchdogMark(fires) == needsDiscontinuity \/ fires

(* Under the lock it looks again, and repeats the last segment: a copy of  *)
(* its data that is not from the pool.                                     *)
WatchdogRepeat ==
    /\ watchdog = "locking" /\ mu = "free"
    /\ seqCount + (IF run = "closing" THEN 1 ELSE 0) < MaxSeq
    /\ LET fires == idle /\ window # << >>
       IN /\ IF fires
             THEN /\ Push([buf |-> None, refs |-> 1, disc |-> TRUE, dup |-> TRUE,
                           codec |-> segments[window[Len(window)]].codec, meta |-> {}])
                  /\ mu' = "watchdog" /\ watchdog' = "rebuild"
             ELSE /\ watchdog' = "off"
                  /\ UNCHANGED <<segments, window, seqCount, firstSegReady, pool, mu>>
          /\ idle' = (idle /\ ~fires)
          /\ needsDiscontinuity' = WatchdogMark(fires)
    /\ UNCHANGED <<loopVars, segIndex, playlist, content, params, ringClosed, cancelled,
                   stopper, reqVars>>

WatchdogRebuild ==
    /\ watchdog = "rebuild"
    /\ Rebuild
    /\ mu' = "free" /\ watchdog' = "off"
    /\ UNCHANGED <<loopVars, segments, window, seqCount, needsDiscontinuity, bufVars, envVars,
                   firstSegReady, cancelled, stopper, reqVars>>

-----------------------------------------------------------------------------
(* Stop                                                                    *)

(* Faulty: the loop is not told to end.                                    *)
StopWithoutCancel(s) ==
    /\ stopper[s] = "idle"
    /\ stopper' = [stopper EXCEPT ![s] = "waiting"]
    /\ firstSegReady' = TRUE
    /\ UNCHANGED <<loopVars, winVars, bufVars, envVars, watchdog, mu, cancelled, reqVars>>

(* Cancels the context and wakes up the requests for a first playlist.     *)
StopCancel(s) ==
    /\ stopper[s] = "idle"
    /\ stopper' = [stopper EXCEPT ![s] = "waiting"]
    /\ cancelled' = TRUE
    /\ firstSegReady' = TRUE
    /\ UNCHANGED <<loopVars, winVars, bufVars, envVars, watchdog, mu, reqVars>>

(* When the loop has exited the window's references are released.          *)
StopRelease(s) ==
    /\ stopper[s] = "waiting"
    /\ run = "exited" /\ mu = "free"
    /\ stopper' = [stopper EXCEPT ![s] = "returned"]
    /\ LET inWindow == {window[i] : i \in DOMAIN window}
           last == {n \in inWindow : segments[n].refs = 1 /\ segments[n].buf # None}
       IN /\ segments' = [n \in DOMAIN segments |->
                             IF n \in inWindow THEN [segments[n] EXCEPT !.refs = @ - 1]
                                               ELSE segments[n]]
          /\ pool' = pool \cup {segments[n].buf : n \in last}
    /\ window' = << >> /\ segIndex' = {}
    /\ UNCHANGED <<loopVars, seqCount, needsDiscontinuity, playlist, content, envVars, watchdog,
                   mu, firstSegReady, cancelled, reqVars>>

-----------------------------------------------------------------------------
(* HTTP requests                                                           *)

Go(h, where) == req' = [req EXCEPT ![h] = where]

requestsElse == <<loopVars, winVars, bufVars, envVars, ctlVars>>

(* GetPlaylist: from the cache, or after the first segment.                *)
GetPlaylist(h) ==
    /\ req[h] = "idle"
    /\ playlist = NoPlaylist
    /\ Go(h, "asking")
    /\ UNCHANGED <<requestsElse, held>>

(* GetSubsPlaylist does not wait for a first segment.                      *)
GetSubsPlaylist(h) ==
    /\ req[h] = "idle"
    /\ playlist = NoPlaylist
    /\ Go(h, "render")
    /\ UNCHANGED <<requestsElse, held>>

AskSegments(h) ==
    /\ req[h] = "asking" /\ mu = "free"
    /\ Go(h, IF window = << >> THEN "waiting" ELSE "reload")
    /\ UNCHANGED <<requestsElse, held>>

(* The select: a first segment, the end of the muxer or of the request.    *)
AwaitFirst(h) ==
    /\ req[h] = "waiting"
    /\ \/ firstSegReady /\ Go(h, "reload")
       \/ cancelled /\ Go(h, "idle")
    /\ UNCHANGED <<requestsElse, held>>

GiveUp(h) ==
    /\ req[h] = "waiting"
    /\ Go(h, "idle")
    /\ UNCHANGED <<requestsElse, held>>

(* The cache again; the signal comes before the playlist is rendered, so   *)
(* the request may have to render it itself.                               *)
Reload(h) ==
    /\ req[h] = "reload"
    /\ Go(h, IF playlist # NoPlaylist THEN "idle" ELSE "render")
    /\ UNCHANGED <<requestsElse, held>>

RenderNow(h) ==
    /\ req[h] = "render" /\ mu = "free"
    /\ IF window = << >> THEN UNCHANGED <<segIndex, playlist>> ELSE Rebuild
    /\ Go(h, "idle")
    /\ UNCHANGED <<loopVars, segments, window, seqCount, needsDiscontinuity, bufVars, envVars,
                   ctlVars, held>>

(* AcquireSegment: found by name under the read lock, and retained.        *)
AcquireSegment(h, n) ==
    /\ req[h] = "idle" /\ mu = "free"
    /\ n \in segIndex \cup {window[i] : i \in DOMAIN window}
    /\ segments' = [segments EXCEPT ![n].refs = @ + 1]
    /\ held' = [held EXCEPT ![h] = n]
    /\ Go(h, "serving")
    /\ UNCHANGED <<loopVars, window, segIndex, seqCount, needsDiscontinuity, playlist, bufVars,
                   envVars, ctlVars>>

(* The handler has sent the data and releases the segment.                 *)
ReleaseSegment(h) ==
    /\ req[h] = "serving"
    /\ LET r == Released(held[h], segments, pool)
       IN segments' = r.segs /\ pool' = r.free
    /\ held' = [held EXCEPT ![h] = None]
    /\ Go(h, "idle")
    /\ UNCHANGED <<loopVars, window, segIndex, seqCount, needsDiscontinuity, playlist, content,
                   envVars, ctlVars>>

-----------------------------------------------------------------------------
Run == \/ \E key, due \in BOOLEAN : Frame(key, due)
       \/ ReceiveMeta \/ CloseSegment \/ RunRebuild \/ NextSegment \/ RunExit

Watchdog == WatchdogCheck \/ WatchdogRepeat \/ WatchdogRebuild

Stop(s) == StopCancel(s) \/ StopRelease(s)

Request(h) ==
    \/ GetPlaylist(h) \/ GetSubsPlaylist(h) \/ AskSegments(h) \/ AwaitFirst(h) \/ GiveUp(h)
    \/ Reload(h) \/ RenderNow(h)
    \/ \E n \in Numbers : AcquireSegment(h, n)
    \/ ReleaseSegment(h)

Next == \/ SetParams \/ CloseRing \/ TimePasses
        \/ Run
        \/ Watchdog
        \/ \E s \in Stoppers : Stop(s)
        \/ \E h \in Handlers : Request(h)

Spec == Init /\ [][Next]_vars

(* The loop goes on once it has a frame, and its select, which chooses at  *)
(* random, takes a context that is done sooner or later; a watchdog that   *)
(* took the lock gives it back; Stop and the requests proceed.  No frame   *)
(* has to arrive and no request has to give up.                            *)
FairSpec ==
    /\ Spec
    /\ WF_vars(CloseSegment \/ RunRebuild \/ NextSegment)
    /\ WF_vars(RunExit)
    /\ WF_vars(WatchdogRebuild)
    /\ \A s \in Stoppers : WF_vars(StopRelease(s))
    /\ \A h \in Handlers :
          /\ WF_vars(AskSegments(h) \/ AwaitFirst(h) \/ Reload(h) \/ RenderNow(h))
          /\ WF_vars(ReleaseSegment(h))

-----------------------------------------------------------------------------
(* Properties                                                              *)

Segment == [buf : Buffers \cup {None}, refs : Nat, disc : BOOLEAN, dup : BOOLEAN,
            codec : Nat, meta : SUBSET (1..MaxMeta)]

(* Every variable of the muxer has its type.                               *)
TypeOK ==
    /\ run \in {"select", "closing", "rebuild", "next", "exited"}
    /\ current \in Buffers \cup {None}
    /\ currentCodec \in Nat /\ sps \in Nat /\ params \in Nat
    /\ ringClosed \in BOOLEAN /\ idle \in BOOLEAN
    /\ currentMeta \in SUBSET (1..MaxMeta) /\ metaSeen \in 0..MaxMeta
    /\ watchdog \in {"off", "locking", "rebuild"}
    /\ mu \in {"free", "run", "watchdog"}
    /\ segments \in Seq(Segment)
    /\ window \in Seq(Nat)
    /\ segIndex \in SUBSET Nat
    /\ seqCount \in Nat
    /\ needsDiscontinuity \in BOOLEAN /\ firstSegReady \in BOOLEAN /\ cancelled \in BOOLEAN
    /\ playlist # NoPlaylist => playlist.first \in Nat /\ playlist.names \in Seq(Nat)
    /\ pool \in SUBSET Buffers
    /\ content \in [Buffers -> Nat]
    /\ stopper \in [Stoppers -> {"idle", "waiting", "returned"}]
    /\ req \in [Handlers -> {"idle", "asking", "waiting", "reload", "render", "serving"}]
    /\ held \in [Handlers -> Nat]

InWindow == {window[i] : i \in DOMAIN window}
Held == {held[h] : h \in Handlers} \ {None}

(* The reference count protects the bytes (muxer.go:27-29): as long as a   *)
(* segment is in the window or a request serves it, its buffer is not in   *)
(* the pool, is not being filled and still holds that segment.             *)
ServedBytesIntact ==
    \A n \in InWindow \cup Held :
        LET b == segments[n].buf
        IN b # None => b \notin pool /\ b # current /\ content[b] = n

(* Every buffer comes back (muxer.go:362): when Stop has returned and no   *)
(* request serves a segment, only the buffer of a segment that was never   *)
(* finished is missing from the pool.                                      *)
BuffersReturned ==
    (\E s \in Stoppers : stopper[s] = "returned") /\ Held = {} => Buffers \ pool \subseteq {current}

(* A buffer is neither used again too soon nor lost.                       *)
BuffersCycle == ServedBytesIntact /\ BuffersReturned

(* The media sequence number of a cached playlist is the number of its     *)
(* first segment and the numbers have no holes (muxer.go:451), although    *)
(* the loop and the watchdog both number segments.                         *)
PlaylistNumbered ==
    playlist # NoPlaylist =>
        \A i \in DOMAIN playlist.names : playlist.names[i] = playlist.first + i - 1

(* "Flag next real segment with discontinuity as PTS will jump"            *)
(* (muxer.go:417): what follows a repeated segment in the window is marked,*)
(* however the loop and the watchdog interleave.                           *)
JumpIsMarked ==
    \A i \in DOMAIN window : i > 1 /\ segments[window[i - 1]].dup => segments[window[i]].disc

(* Each metadata message goes into the subtitles of exactly one segment,   *)
(* or still waits for the segment under way.                               *)
MetadataOnce ==
    \A m \in 1..metaSeen :
        Cardinality({n \in DOMAIN segments : m \in segments[n].meta})
            + (IF m \in currentMeta THEN 1 ELSE 0) = 1

(* What the player is told is right, whichever of the loop and the         *)
(* watchdog wrote it: numbers, marks and subtitles.                        *)
PlaylistSound == PlaylistNumbered /\ JumpIsMarked /\ MetadataOnce

(* A player that asks again is never sent back: the media sequence number  *)
(* (muxer.go:451-457) does not decrease, no segment that was announced is  *)
(* missing at the end, and a playlist once there is not withdrawn, whether *)
(* the loop, the watchdog or a request writes the cache (muxer.go:521-550).*)
Slides(old, new) ==
    old # NoPlaylist =>
        /\ new # NoPlaylist
        /\ old.first <= new.first
        /\ old.first + Len(old.names) <= new.first + Len(new.names)

PlaylistSlides == [][Slides(playlist, playlist')]_vars

(* A request for a playlist comes back when the muxer is stopped           *)
(* (muxer.go:513-514), and Stop itself returns.                            *)
RequestsReturn ==
    /\ \A h \in Handlers : (req[h] \notin {"idle", "serving"} /\ cancelled) ~> req[h] = "idle"
    /\ \A s \in Stoppers : stopper[s] = "waiting" ~> stopper[s] = "returned"

(* "IsDiscontinuity indicates whether an #EXT-X-DISCONTINUITY tag precedes *)
(* this segment" (muxer.go:39): a segment whose codec parameters are not   *)
(* those of the segment before it is marked.                               *)
CodecChangeIsMarked ==
    \A i \in DOMAIN window :
        i > 1 /\ segments[window[i]].codec # segments[window[i - 1]].codec
            => segments[window[i]].disc
=============================================================================
