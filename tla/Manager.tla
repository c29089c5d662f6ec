------------------------------ MODULE Manager ------------------------------
(***************************************************************************)
(* internal/stream/manager.go and the camera handlers of                   *)
(* internal/api/handler.go: the registry of running streams, kept in step  *)
(* with the camera records by the requests that change them.               *)
(*                                                                         *)
(* A request first writes the store (CameraStore), then changes the        *)
(* registry under the manager's lock, then stops the streams it took out   *)
(* without the lock.  A stream is its camera, its settings and whether it  *)
(* runs; Ingest shows that its Stop returns and leaves it quiet.  A        *)
(* stopped stream that nobody refers to may stand for a new one.           *)
(***************************************************************************)
EXTENDS CameraStore

CONSTANTS Streams,       \* stream objects
          NoStream,      \* no stream
          Imports        \* contents of backup files: Cameras -> Records or Keep

ASSUME ManagerAssumption ==
    /\ NoStream \notin Streams
    /\ Imports \subseteq [Cameras -> Records \cup {Keep}]

VARIABLES
    job,        \* the request a caller handles, or "none"
    target,     \* its camera and settings
    toStop,     \* streams it took out of the registry and has to stop
    streams,    \* the registry: camera -> stream or NoStream
    settings,   \* settings of a stream
    running,    \* streams that were started and not stopped
    closed,     \* Manager.Close was called
    syncFailed, \* the last import could not bring the streams in step
    overlapped  \* history: a request began while another was at work

managerVars == <<job, target, toStop, streams, settings, running, closed, syncFailed, overlapped>>
vars == <<storeVars, managerVars>>
requestVars == <<job, target, closed, overlapped>>
registryVars == <<toStop, streams, settings, running, syncFailed>>

Init ==
    /\ StoreInit
    /\ job = [k \in Callers |-> "none"]
    /\ target = [k \in Callers |-> <<>>]
    /\ toStop = [k \in Callers |-> {}]
    /\ streams = [c \in Cameras |-> NoStream]
    /\ settings = [s \in Streams |-> NoCamera]
    /\ running = {}
    /\ closed = FALSE
    /\ syncFailed = FALSE
    /\ overlapped = FALSE

Registered == {streams[c] : c \in Cameras} \ {NoStream}
Free(s) == s \notin running \cup Registered \cup UNION {toStop[k] : k \in Callers}

----------------------------------------------------------------------------
(* Requests.  The engine closes the manager after the last of them.        *)

Begin(k, name, arg) ==
    /\ ~closed
    /\ job[k] = "none"
    /\ job' = [job EXCEPT ![k] = name]
    /\ target' = [target EXCEPT ![k] = arg]
    /\ overlapped' = (overlapped \/ \E j \in Callers \ {k} : job[j] # "none")
    /\ UNCHANGED <<registryVars, closed>>

(* AddCamera looks the camera up first, in a transaction of its own; a     *)
(* camera that it finds ends the request, an error of the lookup does not. *)
AddCamera(k, c, r) ==
    /\ \E lookupFails \in BOOLEAN : lookupFails \/ db[c] = NoCamera
    /\ Begin(k, "check-add", <<c, r>>)
    /\ UNCHANGED storeVars

AddCameraSave(k) ==
    /\ job[k] = "check-add"
    /\ job' = [job EXCEPT ![k] = "upsert"]
    /\ SaveCamera(k, target[k][1], target[k][2])
    /\ UNCHANGED <<target, registryVars, closed, overlapped>>

(* EditCamera reads and writes the record in one transaction.              *)
EditCamera(k, c, r) ==
    /\ Begin(k, "upsert", <<c, r>>)
    /\ UpdateCameraTx(k, c, r)

(* DeleteCamera looks the camera up first as well.                         *)
RemoveCamera(k, c) ==
    /\ db[c] # NoCamera
    /\ Begin(k, "check-delete", <<c>>)
    /\ UNCHANGED storeVars

RemoveCameraDelete(k) ==
    /\ job[k] = "check-delete"
    /\ job' = [job EXCEPT ![k] = "remove"]
    /\ DeleteCamera(k, target[k][1])
    /\ UNCHANGED <<target, registryVars, closed, overlapped>>

(* ImportBackupJSON, then SyncWithStorage, which lists the cameras first.  *)
ImportBackup(k, records) ==
    /\ Begin(k, "import", <<>>)
    /\ ImportJSON(k, records)

ImportList(k) ==
    /\ job[k] = "list"
    /\ job' = [job EXCEPT ![k] = "sync"]
    /\ ListCameras(k)
    /\ UNCHANGED <<target, registryVars, closed, overlapped>>

(* GetCameras and the billing task use the store and no stream.            *)
GetCameras(k) ==
    /\ Begin(k, "read", <<>>)
    /\ ListCameras(k)

FlushBilling(k) ==
    /\ Begin(k, "read", <<>>)
    /\ BatchUpdateTraffic(k)

----------------------------------------------------------------------------
(* The registry, under the manager's lock.  A registry step takes streams  *)
(* out, for the caller to stop, and puts new ones in.                      *)

(* Start streams for the cameras in want, which maps them to settings; the *)
(* new streams are any free ones, one for each.                            *)
Register(k, want, out) ==
    \E new \in [DOMAIN want -> {s \in Streams : Free(s)}] :
        LET born == {new[c] : c \in DOMAIN want}
            CameraOf(s) == CHOOSE c \in DOMAIN want : new[c] = s
        IN /\ \A c, d \in DOMAIN want : new[c] = new[d] => c = d
           /\ streams' = [c \in Cameras |-> IF c \in DOMAIN want THEN new[c]
                                            ELSE IF streams[c] \in out THEN NoStream
                                            ELSE streams[c]]
           /\ settings' = [s \in Streams |-> IF s \in born THEN want[CameraOf(s)]
                                                           ELSE settings[s]]
           /\ running' = running \cup born
           /\ toStop' = [toStop EXCEPT ![k] = out]

Matches(c, r) == streams[c] # NoStream /\ settings[streams[c]] = r
Current(c) == {streams[c]} \ {NoStream}

(* Faulty: the stream that is replaced is not stopped.                     *)
UpsertForgets(k, c, r) ==
    IF r = Disabled THEN Register(k, <<>>, Current(c))
    ELSE IF Matches(c, r) THEN Register(k, <<>>, {})
    ELSE Register(k, [d \in {c} |-> r], {})

(* UpsertStream: a disabled camera loses its stream; one whose settings    *)
(* are those of its stream keeps it; any other gets a new one.             *)
UpsertStream(k, c, r) ==
    IF r = Disabled THEN Register(k, <<>>, Current(c))
    ELSE IF Matches(c, r) THEN Register(k, <<>>, {})
    ELSE Register(k, [d \in {c} |-> r], Current(c))

(* Faulty: cameras that are not in the list keep their streams.            *)
SyncKeepsRemoved(k, cams) ==
    LET want == {c \in Cameras : cams[c] \in Configs /\ ~Matches(c, cams[c])}
    IN Register(k, [c \in want |-> cams[c]], UNION {Current(c) : c \in want})

(* SyncWithStorage: the same for every camera of the list; what is not in  *)
(* the list, or disabled, loses its stream.                                *)
SyncWithStorage(k, cams) ==
    LET want == {c \in Cameras : cams[c] \in Configs /\ ~Matches(c, cams[c])}
        gone == {c \in Cameras : cams[c] \notin Configs}
    IN Register(k, [c \in want |-> cams[c]], UNION {Current(c) : c \in want \cup gone})

----------------------------------------------------------------------------
(* What a request does with the result of its call of the store.           *)

Then(k, from, to) == job[k] = from /\ job' = [job EXCEPT ![k] = to]

Upsert(k) ==
    /\ ok[k]
    /\ TakeResult(k)
    /\ Then(k, "upsert", "stop")
    /\ UpsertStream(k, target[k][1], target[k][2])
    /\ UNCHANGED <<target, closed, overlapped, syncFailed>>

(* RemoveStream; the statistics it adds up are left out.                   *)
Remove(k) ==
    /\ ok[k]
    /\ TakeResult(k)
    /\ Then(k, "remove", "stop")
    /\ Register(k, <<>>, Current(target[k][1]))
    /\ UNCHANGED <<target, closed, overlapped, syncFailed>>

Imported(k) ==
    /\ ok[k]
    /\ TakeResult(k)
    /\ Then(k, "import", "list")
    /\ UNCHANGED <<target, registryVars, closed, overlapped>>

Sync(k) ==
    /\ ok[k]
    /\ TakeResult(k)
    /\ Then(k, "sync", "stop")
    /\ SyncWithStorage(k, list[k])
    /\ syncFailed' = FALSE
    /\ UNCHANGED <<target, closed, overlapped>>

(* The store returned an error, or the request only read.                  *)
Fail(k) ==
    /\ ~ok[k] \/ job[k] = "read"
    /\ TakeResult(k)
    /\ job' = [job EXCEPT ![k] = "none"]
    /\ target' = [target EXCEPT ![k] = <<>>]
    /\ syncFailed' = (syncFailed \/ job[k] = "sync")
    /\ UNCHANGED <<toStop, streams, settings, running, closed, overlapped>>

(* Faulty: only the housekeeping loop is ended.                            *)
CloseLeavesStreams(k) ==
    /\ ~closed
    /\ \A j \in Callers : job[j] = "none"
    /\ closed' = TRUE
    /\ job' = [job EXCEPT ![k] = "stop"]
    /\ UNCHANGED <<storeVars, target, registryVars, overlapped>>

(* Manager.Close empties the registry.                                     *)
Close(k) ==
    /\ ~closed
    /\ \A j \in Callers : job[j] = "none"
    /\ closed' = TRUE
    /\ job' = [job EXCEPT ![k] = "stop"]
    /\ Register(k, <<>>, Registered)
    /\ UNCHANGED <<storeVars, target, syncFailed, overlapped>>

(* Stream.Stop, outside the lock, one stream after the other.              *)
StopStream(k, s) ==
    /\ job[k] = "stop"
    /\ s \in toStop[k]
    /\ toStop' = [toStop EXCEPT ![k] = @ \ {s}]
    /\ running' = running \ {s}
    /\ UNCHANGED <<storeVars, requestVars, streams, settings,
                   syncFailed>>

Respond(k) ==
    /\ job[k] = "stop"
    /\ toStop[k] = {}
    /\ job' = [job EXCEPT ![k] = "none"]
    /\ target' = [target EXCEPT ![k] = <<>>]
    /\ UNCHANGED <<storeVars, registryVars, closed, overlapped>>

Terminated == closed /\ (\A k \in Callers : job[k] = "none") /\ UNCHANGED vars

Next ==
    \/ \E k \in Callers :
         \/ \E c \in Cameras : \/ \E r \in Configs \cup {Disabled} : AddCamera(k, c, r)
                                                                     \/ EditCamera(k, c, r)
                               \/ RemoveCamera(k, c)
         \/ \E records \in Imports : ImportBackup(k, records)
         \/ AddCameraSave(k) \/ RemoveCameraDelete(k) \/ ImportList(k)
         \/ GetCameras(k) \/ FlushBilling(k)
         \/ StoreStep(k) /\ UNCHANGED managerVars
         \/ Upsert(k) \/ Remove(k) \/ Imported(k) \/ Sync(k) \/ Fail(k)
         \/ Close(k) \/ Respond(k)
         \/ \E s \in Streams : StopStream(k, s)
    \/ Terminated

Spec == Init /\ [][Next]_vars

----------------------------------------------------------------------------
(* Types of the variables.                                                 *)
TypeOK ==
    /\ StoreTypeOK
    /\ job \in [Callers -> {"none", "check-add", "check-delete", "upsert", "remove",
                            "import", "list", "sync", "read", "stop"}]
    /\ toStop \in [Callers -> SUBSET Streams]
    /\ streams \in [Cameras -> Streams \cup {NoStream}]
    /\ settings \in [Streams -> Records]
    /\ running \subseteq Streams
    /\ closed \in BOOLEAN
    /\ syncFailed \in BOOLEAN
    /\ overlapped \in BOOLEAN

(* The streams that run are those that are registered and those that a     *)
(* request is about to stop: no order of requests leaves one behind that   *)
(* nobody can reach, and a viewer that finds a stream finds a live one,    *)
(* which belongs to its camera alone.                                      *)
RegistryExact ==
    /\ running = Registered \cup UNION {toStop[k] : k \in Callers}
    /\ \A k \in Callers : toStop[k] \cap Registered = {}
    /\ \A c, d \in Cameras : streams[c] = streams[d] /\ streams[c] # NoStream => c = d

(* After Close nothing runs.                                               *)
CloseStopsAll == closed /\ (\A k \in Callers : job[k] = "none") => running = {}

(* When no request is at work, every camera record has the stream that it  *)
(* asks for (the handlers say that they synchronise the runtime            *)
(* atomically), unless an import was answered with an error.               *)
Converged ==
    (\A k \in Callers : job[k] = "none") /\ ~closed /\ ~syncFailed =>
        \A c \in Cameras : IF db[c] \in Configs THEN Matches(c, db[c])
                                                ELSE streams[c] = NoStream

(* Requests that come one after the other, each to its end (errors of the  *)
(* store included), keep the runtime in step with the records, and the     *)
(* cached list with the database.                                          *)
OneAtATimeInStep == ~overlapped => Converged /\ FreshReads

=============================================================================
