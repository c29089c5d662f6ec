# Verification of ruseon-core

TLA+ models of the RTSP video server under `src/`, model-checked with TLC and,
where it says so, proved with TLAPS. `PROJECT.json` lists the components, the
runs, the source lines behind every definition, the hazards and the theorems.

    tlc -workers 2 -config MCFanOut.cfg MCFanOut     # one run
    tlapm FanOutProofs.tla                           # the proofs of one module

## The system

One process ingests cameras over RTSP and serves them over HLS, WebRTC,
WebSocket and gRPC, records them to fMP4, and exposes an HTTP API over a Badger
database. Its parts, their state, what changes it, and what is hard:

| Part | State | Operations | Hard behaviours |
|---|---|---|---|
| `internal/buffer` ring buffer | circular history, head, readers, drop counters, closed | Write, Subscribe, Reader.Close, Close, Read | history wrap-around, preload under the lock, slow readers, close against send |
| `internal/rtsp` client | dial semaphore, closed/startDone flags, gortsplib client | Start, Close, unwrapping of 32-bit timestamps | Close during Start, semaphore never released, rollover |
| `internal/stream` stream | state, reconnect count, counters, HLS muxer, recorder | run loop, Stop, WakeUpHLSMuxer, TickHousekeeping | Stop against reconnect, lazy muxer start against stop |
| `internal/stream` manager | map of streams, lifetime counters | Add/Upsert/RemoveStream, SyncWithStorage, Close, housekeeping | work outside the lock on stale snapshots, counters of replaced streams |
| `internal/stream` metadata | subscribers, latest message | Subscribe, Unsubscribe, Broadcast | close against send |
| `internal/stream` billing | last seen bytes, pending deltas | collect, flush, final flush | partial failure and retry, restarted counters, shutdown |
| `internal/hls` muxer | segments with reference counts, playlists, discontinuity flag | segmenter loop, watchdog, Stop, playlist and segment requests | eviction against readers, pooled buffers, watchdog against the loop |
| `internal/recorder` | current file, its parts, the directory | run loop, finalize, Stop, crash recovery, retention | crash between rename and write, rotation, deletion of live files |
| `internal/archive` | LRU of file indexes | playlist, segment, export | index of a file that is still growing |
| `internal/webrtc` | peers, batches, gauge | offer, pumps, batch writer and cleaner | batch pruned while a writer holds it, close |
| `pkg/eventbus` | per-worker queues, circuit breaker, stop flag | Publish, worker loop, Stop | publish against stop, breaker shared by workers |
| `internal/mqtt` publisher | bounded queue, token queue | Push, worker, Close | overflow |
| `internal/grpc` server | RPC streams | StreamFrames, PushMetadata, Stop | graceful stop against endless RPCs |
| `pkg/storage` | Badger keys, cached camera list | camera, tag, folder and user CRUD, batch traffic, import/export | cache against concurrent transaction, chunked batch |
| `pkg/storage/localfs`, `internal/backup` | files | write, rename, backup, retention | failed backup, partial file |
| `internal/api` | camera list cache, singleflight, client tracker | HTTP and WebSocket handlers | check-then-act over separate transactions |
| `pkg/auth`, `pkg/config` | users, tokens, config file | login, middleware, load/save | last-admin rule |
| `pkg/engine`, `cmd/server` | process phases | start-up, ordered shutdown | who waits for whom |
| `pkg/logger` broadcaster | subscribers | Write, Subscribe, Unsubscribe | close against send |

The parts meet in a few places, and that is where the models compose: a camera's
stream owns one ring buffer; the HLS muxer, the recorder, the WebRTC and gRPC
pumps are its readers; the manager owns the streams and is driven by the API and
by the database; stream state changes and finished archive files go to the event
bus; the engine starts and stops everything.

## Order of the work

The models go from the data path outwards:

1. RingBuffer, with the abstract LiveFeed it implements: everything else reads
   from it.
2. EventBus: the one component with its own protocol for concurrent shutdown.
3. HlsMuxer: reference counts, pooled buffers and a watchdog beside the loop.
4. Ingest, with the abstract Connections it implements: the connection loops of
   all cameras and Stop.
5. LazyHls: waking and stopping the muxer of a stream.
6. CameraStore and, on top of it, Manager: requests, records, the cached list and
   the registry of streams, composed.
7. Billing: counters, failing transactions, retries.
8. Recorder, and Archive: recordings as they are written and as they are played.
9. Delivery: the viewers from their call to the end of the process. Batcher: the
   packets of WebRTC below them. Timestamps: the times of their frames.
10. Metadata and Mqtt: what clients push, and who is told.
11. Accounts, Directory and Backup: the rest of the database.

Proofs follow the runs: every invariant that a passing run checks has a theorem.
What a next step would be: abstract specifications that Recorder and HlsMuxer are
shown to implement, as LiveFeed is for RingBuffer and Connections for Ingest.

## Modules

Every module states in its head which code it models and what it abstracts;
`PROJECT.json` maps each definition to its lines. A definition marked *Faulty*
is a plausible mistake in the definition that follows it; it is not part of the
specification, and shows that a property can fail.

**RingBuffer** (`internal/buffer/ring.go`). The buffer's mutex makes Write,
Subscribe, Reader.Close and Close one action each; Read is the receive from a
reader's channel. `frames`/`head` are the circular slots, `keys` the history of
IsKeyFrame, `sent`/`taken` a reader's channel with what was already received,
`needsIFrame` the resync flag. **LiveFeed** is what the buffer promises: a log of
frames, of which each reader gets an increasing, decodable selection. The
mapping forgets slots, channels and flags.

**EventBus** (`pkg/eventbus`). Publish is split at its lock-free check, its read
lock, its second check and its send; Stop at sync.Once, the write lock, and the
wait for the workers; a worker at its receive, every webhook, and the start and
end of each HTTP exchange. The breakers are shared by the workers.

**HlsMuxer** (`internal/hls/muxer.go`). The loop, the watchdog, callers of Stop
and requests interleave at the mutex and at the places where the code leaves it.
`content` says whose bytes a pooled buffer holds, so handing it out too early is
visible to a request that still reads it.

**Ingest** (`internal/stream/stream.go`, `internal/rtsp/client.go`). Per camera:
the place of Stream.run and Client.Start, the flags `closed` and `startDone`, the
state of the library client, the dial semaphore, the frame callbacks between
their compare-and-swap and their event, and the stages of Stop. gortsplib is
external: its calls may fail, fail once it is closed, and its Close returns after
the callbacks. **Connections** is what all of this promises: at most `DialSlots`
cameras dial, a camera is counted and announced as online once in a session and
never while it dials, and a stopped one stays silent. The mapping keeps who holds
a slot, whose gauge is 1 and whose Stop has returned, and forgets the loops,
clients and callbacks.

**LazyHls** (`internal/stream/stream.go`). Requests, housekeeping and Stop over
`muxerMu`, the singleflight group and the request age. A muxer is its goroutine,
its cancellation and its metadata subscription.

**CameraStore** (`pkg/storage/storage.go`) has each call in steps: drop the cache,
commit or fail; read a snapshot, fill the cache. **Manager** extends it with the
camera handlers of `internal/api/handler.go`, the registry, and the streams taken
out under the lock and stopped without it. `overlapped` records whether two
requests were ever under way together.

**Billing** (`internal/stream/billing.go`, BatchUpdateTraffic). Collect and flush,
one step per transaction, among restarting streams, deleted records, a new month
and the end of the process.

**Recorder** (`internal/recorder`). The directory of one camera, a recorder that
creates, flushes, rotates, fails, panics and stops, a crash at any moment that
leaves a prefix of the open file, the recovery at start-up and the retention
task. `flushed`, `expired`, `stuck` and `unchecked` are history variables.

**Archive** (`internal/archive`, with the writes of the recorder and the deletions
of retention that it meets). Recordings grow by fragments, are renamed and
deleted; requests look an index up, scan the file and add the index, in separate
steps; the LRU evicts. `shown` is how much a sent playlist promised, `contended`
and `late` record the overlaps for which the code promises nothing.

**Delivery** (`internal/grpc/server.go`, `internal/api/ws.go`,
`internal/webrtc/muxer.go`, `StreamLogs`, the end of `pkg/engine/engine.go`). A
viewer is its handler or pump (`at`), its connection, its reader, its metadata
pump, and for WebRTC the callbacks of the peer; frames carry the version of the
parameters they were coded with. Shutdown is the sequence of Run: HTTP with its
deadline, gRPC, streams.

**Batcher** (`internal/webrtc/batch_linux.go`). Writers at their lookup and their
lock, the cleaner and Close over the table and the batches of one peer; `wire` is
the history of what was sent.
**Timestamps** (`internal/rtsp/timestamp.go`, `calculateFrameDuration`). The
arithmetic as operators over a small word (`Wrap`), tick rate and largest
integer; `ticks` is the time of the camera, which the code does not see.

**Metadata** (`internal/stream/metadata.go`, `pkg/logger/broadcaster.go`): one
mutex, one action per call, two broadcasters that differ in the preload and in
what fits in a channel. **Mqtt** (`internal/mqtt/publisher.go`): Push, the worker
between its receive and its publish, the token waiter, Close.

**Accounts** (`pkg/auth/local.go`, the user handlers). Login, tokens, the check
of every request, and handlers with a step for each transaction. **Directory**:
tags, folders and the references of cameras, in the same way, with export, import,
migration and restarts. **Backup** (`internal/backup/worker.go`): files with age
and completeness. History variables (`excuses`, `broken`, `overtaken`, `gone`)
record the accidents that the properties except, so that everything else is
covered.

**Composition.** Manager is composed with CameraStore, and shares its state.
Parts that share none are checked in one run by a variable `lane` that says
which one a behaviour is about: MCFanOut (RingBuffer, Delivery), MCRecordings
(Recorder, Archive) and MCServer (Billing, Accounts, Directory, Backup, Metadata,
Mqtt, Batcher, Timestamps). The parts do not interact there, nor is it claimed;
each is explored in full, and the states add up instead of multiplying.

## Runs

| Run | Instance | Shows |
|---|---|---|
| `ring_buffer` | 2 readers, 2 slots, 4 frames; a viewer of each kind, 2 versions of parameters | what is delivered is decodable (DecodableDelivery), the preload never blocks under the lock (ChannelsWithinCapacity), a reader that keeps up loses nothing (OnlySlowReadersLoseFrames), all see the end, and the buffer implements LiveFeed; a keyframe comes with its parameters (ParamsFit), a viewer who leaves or whose stream is removed gives everything back (ViewersReleased), the shutdown ends (ShutdownReturns) |
| `event_bus` | 2 publishers, a Stop, 2 workers, 2 endpoints, 3 events, queues of 1 | no send on a closed channel, order per camera, an open circuit is respected, Stop returns and leaves nothing |
| `hls_muxer` | window of 3, 4 segments, 5 buffers, a request, a Stop, 1 codec change, 1 message | bytes under a request are intact and buffers come back once (BuffersCycle); playlists have no holes, the segment after a repeat is marked, a message is shown once (PlaylistSound); a playlist never goes back (PlaylistSlides); requests return |
| `hls_codec_change` | as above, without requests | **violated**: the mark of a codec change is on the segment before it |
| `ingest` | 2 cameras, 1 dial slot, 2 callback goroutines on one | slots and the online gauge are exact (CountsExact), the library is closed only when started and Stop leaves nothing (StopIsClean), Stop returns and everybody gets a slot (NobodyWaitsForever), and the whole implements Connections (ImplementsConnections) |
| `lazy_hls` | 2 requests, 4 muxer objects | one muxer at a time, no subscription left (OneMuxer), wake-up and Stop return |
| `lazy_hls_stop` | 1 request, 3 muxer objects | **violated**: a request can wake a muxer behind Stop |
| `manager` | 2 requests at a time on 1 camera with 2 settings, 4 streams | the registry is exact, Close stops all, and requests one after the other keep records, streams and cached list in step |
| `manager_race` | the same | **violated**: overlapping edits leave the stream with other settings than the record |
| `billing` | MCServer, one lane per part: 2 cameras in one transaction; 2 accounts and 2 requests; a camera, a tag, a folder and 2 requests; 6 ticks of backups; 2 subscribers and 4 messages; 2 callers and 3 messages each; 2 writers and 2 batches; a word of 8 ticks | no failure or restart overcharges, an undisturbed stream is charged exactly; AdminRemains, RevokedCannotAct; RefsResolve; BackupKept; MetadataComplete; PublishedInOrder; NothingStranded; FrameTimesTrue |
| `billing_chunks` | 2 cameras, one transaction each | **violated**: the retry of a half-done batch charges twice |
| `recorder` | 3 frames, 3 ticks, rotation at an age of more than 0, retention 1; 2 recordings, 2 requests, an index cache of 1 | flushed parts stay, names tell whether a file is finished and playable (NamesTell); indexes are true (IndexesTrue): a finished recording is served whole (FinishedIsComplete), what a playlist lists can be fetched (ListedIsServed), those of deleted files go (DeletedIsForgotten); intervals are listed as recorded (ListedWhenRecorded) |

The findings in `PROJECT.json` quote the comment behind each violated property.

**Bounds.** Every bound on a counter is a constant whose name starts with `Max`,
and only guards the environment (writes, requests, bytes, time), never a
reaction; `Min`/`MaxTicks` bound the camera's clock. They are the smallest that
reach the cases in question: four frames wrap a history of two slots and let a
reader lag, lose its sync and resynchronise; two publishers and queues of one
reach a full queue and a Publish that passed the check before Stop; four segments
push one out of a window of three while a request holds it; one dial slot makes
two cameras wait for each other; three muxers are one in use, one being stopped
and one started, the fourth keeps the model from running out; two requests are
the least that overlap, and a third would only repeat their interleavings; three
ticks let a file be started, written, rotated, recovered and expire, with a
recording open meanwhile; two fragments and a cache of one index let an index be
too short, evicted and made again; two batches are the one in the table and an
orphan, to which a writer may still point; a clock that runs from -8 to 20 goes
through three and a half words of eight ticks and past the largest duration. In the lane of
Directory a behaviour is not followed once every id was left behind by an
accident, where RefsResolve has nothing more to say (MCConstraint). The
theorems make every invariant of these runs independent of the bounds. In `ring_buffer`, `event_bus` and the HLS runs the bounded inputs may
run out, so an end of all behaviour is allowed there; every other run also checks
that nothing gets stuck.

**Symmetry** is used in `manager`, `manager_race`, `billing_chunks`, `billing` and
`recorder`, runs of invariants only, over callers, requests, streams, cameras,
subscribers and writers that no definition tells apart. In `billing` all pairs are
exchanged at once, which is enough when only one lane moves.

**Fairness.** Weak fairness stands for a goroutine that can run and is
eventually scheduled: the loops, workers, callbacks, a begun Publish or Stop, the
end of an HTTP exchange (the client has a timeout) and of a library call, the
steps of Run after the signal. Nothing forces the environment: no frame has to
come, no request to be made. Strong fairness is assumed where a goroutine waits
for something that others take in turn: a dial slot (blocked senders on a Go
channel are served in order), `muxerMu` (Go's mutex hands over to a waiter that
was passed for a millisecond), and the case of a `select` that is ready again and
again among others (Go picks among the ready ones at random; Leave in Delivery).
A write to a viewer ends, because WebSocket writes have a deadline and WebRTC
writes do not wait for the peer; a gRPC Send to a client that does not read may
wait as long as the client stays, and no fairness is assumed of it.

## Proofs

The theorems hold for every value of the constants that the named assumptions of
the modules admit (a positive capacity, a hash that picks a worker, a positive
cooldown and so on).

An invariant of a run is seldom inductive; each paragraph says what had to be
added. The larger ones (HlsMuxer, Recorder, Archive, Batcher and StepInv of
Manager) were also checked with TLC on small instances before they were proved.

**FanOutProofs.** RingBuffer: the slots hold exactly the most recent frames
(HistoryIsRecent), a registered reader is open and its channel is not closed
(HandlesConsistent), only written frames were sent, in order (SentWereWritten),
and a reader that needs no resync was sent the newest frame last
(ReadersInSync). From it follow TypeCorrect, DeliveryIsDecodable,
PreloadNeverBlocks, FastReadersMissNothing, the action property NoUseAfterClose,
and Refinement: every step of the buffer is a step of LiveFeed or none. Delivery:
ParamsFit compares a frame that is sent with the parameters sent before it, so
the invariant (Sound) says at every place of a viewer's goroutine where the
parameters in its hand come from: from what it keeps for WebSocket and WebRTC,
from what was stored when it took the frame for gRPC. No reader ever queues a
frame of a version that has not come.

**EventsAndTimesProofs.** EventBus: StopInv ties the stages of Stop to the
publishers under the read lock and to the workers; QueuesOrdered and
DeliveredWereTaken say that the numbers in a queue grow and that whatever an
endpoint has accepted is not newer than what its worker has in hand, which makes
PerCameraOrder inductive. BreakerSet relates an open circuit to the last failure
and gives CooldownRespected. Timestamps: FrameTimesRight needs that the epoch is
a number of whole words and the last timestamp the camera's clock in a word
(ClockSound), that the time known of a frame was computed from both (TimesKnown),
and lemmas on the rounding of RTP90kToDuration and of its inverse, at every
width, rate and largest integer. They use `Rate <= Second`, 90000 against 10^9 in
the code: with more than a tick to the nanosecond the way back would not give the
same tick.

**HlsMuxerProofs.** BuffersCycle speaks of pooled buffers under readers. It rests
on a count: a segment has one reference of the window and one of each request
that serves it (Counted). With Owned, every buffer belongs to the pool, to the
segment being filled or to exactly one segment with references, whose bytes it
holds; Serving and Locking tie the requests and the two rebuilding goroutines to
the mutex, and Ended says what is left once a Stop has returned. PlaylistSound
adds that the window is the tail of the segments (Numbered), that the segment
after a repeated one is going to be marked (Marked), and that a message waits or
is in exactly one segment (Carried). PlaylistNeverGoesBack is an action property:
a step either moves the window forward and leaves the cached playlist, or renders
the window and leaves it (WindowMoves), and with a playlist that is not ahead of
the window (Behind) no rendering is a step back. The sum of the references is a cardinality,
which is why the requests are assumed to be finitely many (FiniteHandlers).

**CameraProofs.** Ingest: SlotsExact counts; per camera, SlotSound ties the slot
to the place of Client.Start, OnlineSound the gauge and the last event to the
state and to a callback that has won its compare-and-swap, and ClientSound the
flags `closed` and `startDone` to what Close and Start may still do to the
library. From these follow CountsAreExact and StopLeavesNothing for any number of
cameras and slots. ConnectionsImplemented goes through the same actions and finds
for each the step of Connections it is, or none; that nobody is counted while it
dials needs one more invariant, that a camera with a slot has no callback under
way (Apart). Archive: a finished recording has one possible index, so
FinishedInv can say that every index of one, cached or in a request's hands, is
complete, and that a cached one of a deleted file is about to be removed or was
added late. A growing file has many; GrowingSound says, unless requests indexed
it at the same time, that all its indexes are initial parts, that the cached one
covers every promised playlist, and that there is none cached while a request
makes one (OneIndexer). IndexesAreTrue puts both together.

**RecorderProofs.** FlushedKept and NamesTell hold together with what the code
keeps implicitly: a name's start is unique in the directory (Dir), modification
times are between a file's start and now and not before any part in it (Stamped),
so that retention cannot take a file too early, and the open file is whole,
unrenamed, and missing only because it expired (OpenFile). RecorderFlow says at
which places of the run loop there is a file and a keyframe in hand.

**ManagerProofs.** RegistryExact is inductive together with the facts that only
requests in their stopping stage have streams to stop, that no two have the same
one, and that the registry stays empty behind Close; CallSound says which requests
have a call to the store in progress. OneAtATimeInStep is about quiet moments, and
its invariant StepInv about those between: as long as requests did not overlap,
the cached list and the list in a request's hands are the database (Alone), and
each camera is in step or is due to the one request at work (Attended). The run
has one camera, the theorems any number.

**ClientProofs.** Metadata: a subscriber's passed, queued and missed messages are
disjoint and make up everything since it came, and its channel rises above all it
was passed. Mqtt: what is published, in hand and queued is one line in which the
numbers of each caller rise. Batcher: what was sent comes before what waits in a
batch, and what waits outside the table, or beside a writer that sends on its own,
is late (BatchSound). LazyHls: OneMuxer needs to know who is between the stop of
one muxer and the start of the next: a wake-up creates a muxer only under
`muxerMu` with none left, and whoever waits for one holds the lock (Awaiting).

**AdministrationProofs.** Accounts: what a request has read is still so unless it
is marked stale, and a saved demotion or deletion was counted against two
administrators. Directory: RefsResolve holds together with what a request keeps
(RequestSound) and what an export holds (BackupSound): they refer to records that
exist, to ids that were deleted behind their back, or to accidents. Backup: the
last success is never among the files that retention collects. Billing:
Bookkeeping says that record, pending delta and the growth not yet read never
exceed what was received, and equal it for an undisturbed camera. It is inductive
when a flush is one transaction, that is under OneTransaction ==
Cardinality(Cameras) <= ChunkSize (200 in the code); the run `billing_chunks`
shows that the condition is needed.

The default prover is Zenon; the leaves with arithmetic, sequences or records name
the SMT solver. Counting needs facts about finite sets. In FanOutProofs and CameraProofs the lemmas
have them as a hypothesis, FiniteSetFacts, and the library FiniteSetTheorems is
instantiated only at the end, where FiniteSetsSound discharges it: with the library
in every obligation's context the provers are several times slower.

Only model-checked: every liveness property, with the safety that is part of it
(TLAPS does not treat fairness here), on the instances of the runs.

## What the models show beside the runs

These follow from the modelled code and have no run of their own. Where a
property has an exception, it is one of these.

Recordings:

- Stop of a recorder ignores a failing last write; the file is announced as
  ready with a torn end (ArchivedIsPlayable).
- Retention may delete the file of a camera that was away for the retention
  time while the recorder has it open; the next part goes to an unlinked file.
- A recovered file with a torn end is moved aside as a whole, with the parts that
  were complete; `.corrupted` files are never deleted.
- Two requests that index a growing file at once: the slower one replaces the
  longer index of the other, and a listed segment cannot be fetched until the
  index is evicted. A scan may skip a fragment that is half written, which
  shifts the numbers of the later ones (ListedIsServed).
- A scan that overlaps the deletion of its file puts the index back
  (DeletedIsForgotten).
- A recording of a day or more is listed with a wrong end (ListedWhenRecorded).

Delivery:

- GracefulStop waits for gRPC clients ("closes active client streams",
  `server.go:56`), and the streams that would end their calls are closed after
  it (ShutdownReturns). When the HTTP shutdown times out the process exits
  without closing any stream.
- A gRPC client gets the parameters of now before a keyframe of before ("to
  guarantee decodability", `server.go:64`); WebRTC and WebSocket viewers keep the
  parameters they began with (ParamsFit).
- A gRPC client that does not read keeps its call when the camera is removed; a
  Connected callback behind the one for Closed leaves WebRTCPeersActive too high
  (ViewersReleased).
- A packet whose writer looked up its batch just before the cleaner or Close took
  it out of the table may stay there, or come late (NothingStranded).
- Unwrap cannot step back before the first epoch, and takes a step of exactly
  half the range across a wrap as one backwards. RTP90kToDuration "clamps cleanly"
  (`timestamp.go:54`) except in the last fraction of the last second, where it
  overflows (FrameTimesTrue).

Messages:

- A success that was under way closes a circuit that another worker has just
  opened.
- A full MQTT queue drops the newest message, where `publisher.go:18` says "old
  items are dropped"; what is queued at Close is lost.

Database:

- A list read before a write and cached after it survives the write
  (`storage.go:350`) when requests overlap.
- EditUser and DeleteUser count administrators in one transaction and write in
  another, skip the check when the list cannot be read, and EditUser saves what it
  read before; AddUser replaces an existing account (AdminRemains).
- DeleteTag and DeleteFolder ignore errors and may be cut short by a crash, and the
  references stay; a folder that is deleted also empties the folder of a camera
  that was moved meanwhile (RefsResolve).
- A failed backup leaves its partial file, and skips the cleanup.

## Not modelled

`PROJECT.json` lists every part with its status. Left out for good, because a
model would only restate them: byte formats (fMP4, MPEG-TS, RTP, SDP, JSON), the
libraries (gortsplib, pion, Badger, paho, grpc, gin), metrics, logging, the
command line tools, the web interface and downloaded AI models. Left out of parts
that are modelled:

- the lifetime counters of the manager and the statistics of streams, which only
  feed displays (a replaced stream's counters are lost, a removed one's are
  added);
- the 250 ms cache of the camera list response, the client tracker and the health
  checks;
- two recorders of one camera that start a file in the same second (file names
  have that resolution; Recorder assumes that no name is reused);
- passwords, hashes and signatures: whether they fit is a choice of the client;
- the interaction of the lanes: for instance a restore of a backup while the
  process runs, which the code does not offer.
