------------------------------ MODULE Archive ------------------------------
(***************************************************************************)
(* internal/archive with the archive handlers of internal/api/handler.go:  *)
(* playback of the recordings of a camera while the recorder writes,       *)
(* renames and the retention task deletes them.                            *)
(*                                                                         *)
(* A recording is a number of complete fragments, with a last one that may *)
(* be half written; Recorder shows how it comes about, here it is only     *)
(* what a reader meets.  An index of a file is the set of the fragments it *)
(* lists: fragments are never moved, so an offset stands for the fragment  *)
(* it had when it was noted.  A name carries the kind of the file; that no *)
(* second recording gets the same name is assumed, as in Recorder.  The    *)
(* init section (there from the start here), MP4 boxes, MPEG-TS and the    *)
(* text of a playlist are left out.                                        *)
(***************************************************************************)
EXTENDS Integers, Sequences, FiniteSets, FiniteSetsExt

CONSTANTS Recordings,   \* recordings of the camera
          Requests,     \* concurrent requests
          Capacity,     \* entries of the index cache
          MaxParts,     \* MaxParts[r]: bound on the fragments of recording r
          Day,          \* length of a day
          Spans,        \* how long a recording may last
          Start         \* Start[r]: when recording r starts

ASSUME ArchiveAssumption ==
    /\ Capacity \in Nat \ {0}
    /\ MaxParts \in [Recordings -> Nat]
    /\ Day \in Nat \ {0}
    /\ Spans \subseteq Nat
    /\ Start \in [Recordings -> Nat]

VARIABLES
    at,        \* the name a recording has now, see Places
    parts,     \* complete fragments of a recording
    torn,      \* recordings with a half-written fragment at the end
    end,       \* when a finished recording ended
    cache,     \* globalIndexCache, most recently used first: <<name, index>>
    req,       \* the request a goroutine handles
    answer,    \* the answer that the last step gave to a client, if any
    removing,  \* the name whose index retention has still to drop, or NoName
    shown,     \* history: the longest playlist sent for the file that is written
    contended, \* history: recordings that were indexed, as they were written, by
               \* two requests at once or while a fragment was half there
    late       \* history: recordings that retention deleted while they were indexed

fileVars == <<at, parts, torn, end>>
historyVars == <<shown, contended, late>>
archiveVars == <<fileVars, cache, req, answer, removing, historyVars>>

(* Gone: deleted, or set aside as .corrupted.                              *)
Places == {"none", "ongoing", "done", "gone"}
Names == {"ongoing", "done"} \X Recordings
NoName == <<"none">>
File(name) == name[2]
Exists(name) == at[File(name)] = name[1]

Idle == [pc |-> "idle"]
NoAnswer == [kind |-> "none"]
NoReply == answer' = NoAnswer

ArchiveInit ==
    /\ at = [r \in Recordings |-> "none"]
    /\ parts = [r \in Recordings |-> 0]
    /\ torn = {}
    /\ end = [r \in Recordings |-> Start[r]]
    /\ cache = <<>>
    /\ req = [q \in Requests |-> Idle]
    /\ answer = NoAnswer
    /\ removing = NoName
    /\ shown = [r \in Recordings |-> 0]
    /\ contended = {}
    /\ late = {}

----------------------------------------------------------------------------
(* The recorder, as a reader of the directory sees it.                     *)

StartFile(r) ==
    /\ at[r] = "none"
    /\ \A s \in Recordings : at[s] # "ongoing"
    /\ at' = [at EXCEPT ![r] = "ongoing"]
    /\ UNCHANGED <<parts, torn, end, cache, req, removing, historyVars>>
    /\ NoReply

WritePart(r) ==
    /\ at[r] = "ongoing"
    /\ r \notin torn
    /\ parts[r] < MaxParts[r]
    /\ torn' = torn \cup {r}
    /\ UNCHANGED <<at, parts, end, cache, req, removing, historyVars>>
    /\ NoReply

PartWritten(r) ==
    /\ at[r] = "ongoing"
    /\ r \in torn
    /\ torn' = torn \ {r}
    /\ parts' = [parts EXCEPT ![r] = @ + 1]
    /\ UNCHANGED <<at, end, cache, req, removing, historyVars>>
    /\ NoReply

(* finalize: a recording with parts is renamed, also when the last write   *)
(* of Stop has failed; an empty one is deleted.  A rename that fails       *)
(* leaves a file that is written no more.                                  *)
Finish(r, t) ==
    /\ at[r] = "ongoing"
    /\ at' = [at EXCEPT ![r] = IF parts[r] > 0 THEN "done" ELSE "gone"]
    /\ end' = [end EXCEPT ![r] = t]
    /\ UNCHANGED <<parts, torn, cache, req, removing, historyVars>>
    /\ NoReply

(* finalize after a failed write.                                          *)
Discard(r) ==
    /\ at[r] = "ongoing"
    /\ at' = [at EXCEPT ![r] = "gone"]
    /\ UNCHANGED <<parts, torn, end, cache, req, removing, historyVars>>
    /\ NoReply

----------------------------------------------------------------------------
(* The cache of file indexes, under its mutex.                             *)

Position(name) == {i \in DOMAIN cache : cache[i][1] = name}

(* Remove.                                                                 *)
WithoutIndex(name) ==
    IF Position(name) = {} THEN cache
    ELSE LET i == CHOOSE j \in Position(name) : TRUE
         IN SubSeq(cache, 1, i - 1) \o SubSeq(cache, i + 1, Len(cache))

(* Get: the index, which moves to the front.                               *)
Cached(name) == {cache[i][2] : i \in Position(name)}
Touched(name, idx) == <<<<name, idx>>>> \o WithoutIndex(name)

(* Add: an index of the same name is replaced, else the last ones go.      *)
Added(name, idx) ==
    IF Cached(name) # {} THEN Touched(name, idx)
    ELSE <<<<name, idx>>>> \o (IF Len(cache) < Capacity THEN cache
                                                      ELSE SubSeq(cache, 1, Capacity - 1))

----------------------------------------------------------------------------
(* Retention deletes a file that nobody has changed for a long time, then  *)
(* drops its index.                                                        *)

Indexing(name) == {q \in Requests : req[q].pc \in {"scan", "add"} /\ req[q].name = name}

Delete(name) ==
    /\ removing = NoName
    /\ Exists(name)
    /\ at' = [at EXCEPT ![File(name)] = "gone"]
    /\ removing' = name
    /\ late' = IF Indexing(name) = {} THEN late ELSE late \cup {File(name)}
    /\ UNCHANGED <<parts, torn, end, cache, req, shown, contended>>
    /\ NoReply

InvalidateFileIndex ==
    /\ removing # NoName
    /\ cache' = WithoutIndex(removing)
    /\ removing' = NoName
    /\ UNCHANGED <<fileVars, req, historyVars>>
    /\ NoReply

----------------------------------------------------------------------------
(* getFileIndex.                                                           *)

Answer(q, a) ==
    /\ answer' = a
    /\ req' = [req EXCEPT ![q] = Idle]

Error(q) == Answer(q, [kind |-> "error"])

(* A request for a name that some listing may have shown: a cached index   *)
(* is used whatever the disk holds; else the file is opened to be indexed. *)
(* What the index is for makes no difference until it is there.            *)
Begin(q, name) ==
    /\ req[q] = Idle
    /\ at[File(name)] # "none"
    /\ LET At(pc, idx) == [pc |-> pc, name |-> name, index |-> idx, missed |-> {}]
       IN IF Cached(name) # {}
            THEN \E idx \in Cached(name) :
                    /\ cache' = Touched(name, idx)
                    /\ req' = [req EXCEPT ![q] = At("indexed", idx)]
                    /\ NoReply
                    /\ UNCHANGED contended
            ELSE /\ IF Exists(name)
                      THEN /\ req' = [req EXCEPT ![q] = At("scan", {})]
                           /\ NoReply
                           /\ contended' = IF name[1] = "done" \/ Indexing(name) = {}
                                             THEN contended ELSE contended \cup {File(name)}
                      ELSE Error(q) /\ UNCHANGED contended
                 /\ UNCHANGED cache
    /\ UNCHANGED <<fileVars, removing, shown, late>>

(* A moof box whose mdat box is not there yet is not listed, and the scan  *)
(* goes on behind it.                                                      *)
MissPart(q) ==
    LET r == File(req[q].name)
    IN /\ req[q].pc = "scan"
       /\ r \in torn
       /\ at[r] = "ongoing"
       /\ req' = [req EXCEPT ![q].missed = @ \cup {parts[r] + 1}]
       /\ contended' = contended \cup {r}
       /\ UNCHANGED <<fileVars, cache, removing, shown, late>>
       /\ NoReply

(* The scan goes on until it meets the end of the file or a part that is   *)
(* not complete.  The file stays open, whatever becomes of its name.       *)
ScanEnds(q) ==
    /\ req[q].pc = "scan"
    /\ req' = [req EXCEPT ![q].pc = "add", ![q].missed = {},
                          ![q].index = (1..parts[File(req[q].name)]) \ req[q].missed]
    /\ UNCHANGED <<fileVars, cache, removing, historyVars>>
    /\ NoReply

(* Faulty: the index is kept under the name of the recording.              *)
AddForAnyKind(q) ==
    /\ req[q].pc = "add"
    /\ cache' = Added(<<"done", File(req[q].name)>>, req[q].index)
    /\ req' = [req EXCEPT ![q].pc = "indexed"]
    /\ UNCHANGED <<fileVars, removing, historyVars>>
    /\ NoReply

(* Whatever was found is cached.                                           *)
AddIndex(q) ==
    /\ req[q].pc = "add"
    /\ cache' = Added(req[q].name, req[q].index)
    /\ req' = [req EXCEPT ![q].pc = "indexed"]
    /\ UNCHANGED <<fileVars, removing, historyVars>>
    /\ NoReply

----------------------------------------------------------------------------
(* What the requests do with the index.                                    *)

(* The part that an index lists at position k, from 0.                     *)
Nth(idx, k) == CHOOSE p \in idx : Cardinality({o \in idx : o < p}) = k

(* GenerateHLSPlaylist does not look at the file any more.                 *)
GenerateHLSPlaylist(q) ==
    /\ req[q].pc = "indexed"
    /\ Answer(q, [kind |-> "playlist", name |-> req[q].name, index |-> req[q].index])
    /\ shown' = IF req[q].name[1] = "done" THEN shown
                ELSE [shown EXCEPT ![File(req[q].name)] = Max({@, Cardinality(req[q].index)})]
    /\ UNCHANGED <<fileVars, cache, removing, contended, late>>

(* GenerateHLSSegment reads the part from the file that has the name now.  *)
GenerateHLSSegment(q, seq) ==
    /\ req[q].pc = "indexed"
    /\ IF seq < Cardinality(req[q].index) /\ Exists(req[q].name)
         THEN Answer(q, [kind |-> "segment", name |-> req[q].name, seq |-> seq,
                         part |-> Nth(req[q].index, seq)])
         ELSE Error(q)
    /\ UNCHANGED <<fileVars, cache, removing, historyVars>>

(* ExportMP4: the bounds are brought into the index, -1 stands for none,   *)
(* and the file is opened.                                                 *)
ExportOpen(q, startSeq, endSeq) ==
    LET n == Cardinality(req[q].index)
        hi == IF endSeq \in 0..n - 1 THEN endSeq ELSE n - 1
        lo == Min({Max({startSeq, 0}), hi})
    IN /\ req[q].pc = "indexed"
       /\ IF n > 0 /\ Exists(req[q].name)
            THEN /\ req' = [req EXCEPT ![q] = [pc |-> "copy", name |-> req[q].name,
                                              index |-> req[q].index, lo |-> lo, hi |-> hi]]
                 /\ NoReply
            ELSE Error(q)
       /\ UNCHANGED <<fileVars, cache, removing, historyVars>>

(* Bytes are copied from the offset of one part to the offset of the next; *)
(* the last part of the index ends where the file of that name ends now.   *)
ExportCopy(q) ==
    LET idx == req[q].index
        name == req[q].name
        toTheEnd == req[q].hi = Cardinality(idx) - 1
        from == Nth(idx, req[q].lo)
        to == IF toTheEnd THEN parts[File(name)] ELSE Nth(idx, req[q].hi + 1) - 1
    IN /\ req[q].pc = "copy"
       /\ IF toTheEnd /\ ~Exists(name)
            THEN Error(q)
            ELSE Answer(q, [kind |-> "export", name |-> name, whole |-> req[q].lo = 0 /\ toTheEnd,
                            copied |-> from..to, torn |-> toTheEnd /\ File(name) \in torn])
       /\ UNCHANGED <<fileVars, cache, removing, historyVars>>

----------------------------------------------------------------------------
(* GetCameraArchive: a finished file carries the date and time of its      *)
(* start, but only the time of day of its end.                             *)

(* Faulty: the end is taken on the day of the start.                       *)
EndSameDay(s, timeOfDay) == s - (s % Day) + timeOfDay

EndTime(s, timeOfDay) ==
    LET full == s - (s % Day) + timeOfDay IN IF full < s THEN full + Day ELSE full

Interval(r) == <<Start[r], EndTime(Start[r], end[r] % Day)>>

GetCameraArchive ==
    {<<"done", r, Interval(r)>> : r \in {s \in Recordings : at[s] = "done"}}
        \cup {<<"ongoing", r, Start[r]>> : r \in {s \in Recordings : at[s] = "ongoing"}}

(* Positions in an index that a client may ask for.                        *)
Positions == UNION {0..MaxParts[r] - 1 : r \in Recordings}

ArchiveNext ==
    \/ \E r \in Recordings :
         \/ StartFile(r) \/ WritePart(r) \/ PartWritten(r) \/ Discard(r)
         \/ \E d \in Spans : Finish(r, Start[r] + d)
    \/ \E n \in Names : Delete(n)
    \/ InvalidateFileIndex
    \/ \E q \in Requests :
         \/ \E n \in Names : Begin(q, n)
         \/ MissPart(q) \/ ScanEnds(q) \/ AddIndex(q)
         \/ GenerateHLSPlaylist(q)
         \/ \E seq \in Positions : GenerateHLSSegment(q, seq)
         \/ \E lo, hi \in Positions \cup {-1} : ExportOpen(q, lo, hi)
         \/ ExportCopy(q)

ArchiveSpec == ArchiveInit /\ [][ArchiveNext]_archiveVars

----------------------------------------------------------------------------
(* Properties.                                                             *)

ArchiveTypeOK ==
    /\ at \in [Recordings -> Places]
    /\ parts \in [Recordings -> Nat] /\ \A r \in Recordings : parts[r] <= MaxParts[r]
    /\ torn \subseteq Recordings
    /\ end \in [Recordings -> Nat]
    /\ cache \in Seq(Names \X SUBSET Nat)
    /\ Len(cache) <= Capacity
    /\ removing \in Names \cup {NoName}
    /\ shown \in [Recordings -> Nat]
    /\ contended \subseteq Recordings
    /\ late \subseteq Recordings

(* What is played back, listed or exported under the final name of a       *)
(* recording is all of it, though the file was indexed, cached, read and   *)
(* exported under another name while it grew: the API lets clients cache   *)
(* the segments of such a file for good.                                   *)
FinishedIsComplete ==
    /\ \A i \in DOMAIN cache : cache[i][1][1] = "done" => cache[i][2] = 1..parts[File(cache[i][1])]
    /\ answer.kind \in {"playlist", "segment", "export"} /\ answer.name[1] = "done" =>
          LET all == 1..parts[File(answer.name)]
          IN CASE answer.kind = "playlist" -> answer.index = all
               [] answer.kind = "segment" -> answer.part = answer.seq + 1
               [] answer.kind = "export" -> answer.whole => answer.copied = all

(* A segment of a playlist that was sent for a recording that still grows  *)
(* can be fetched, and is the fragment the playlist meant, though the      *)
(* index is evicted and made again: an index in the cache is never behind  *)
(* a playlist that was sent.  The exception is a file that was indexed by  *)
(* two requests at once (the slower one overwrites the longer index of the *)
(* other) or while a fragment was half written.                            *)
ListedIsServed ==
    \A i \in DOMAIN cache :
        LET r == File(cache[i][1])
        IN cache[i][1][1] = "ongoing" => r \in contended \/ 1..shown[r] \subseteq cache[i][2]

(* The index of a file that retention deleted does not stay in the cache,  *)
(* where it would make playlists of a file that is gone, unless a request  *)
(* was indexing the file when it was deleted.                              *)
DeletedIsForgotten ==
    \A i \in DOMAIN cache :
        LET name == cache[i][1]
        IN name[1] = "done" /\ ~Exists(name) => name = removing \/ File(name) \in late

(* What requests are told from the index of a file (getFileIndex,          *)
(* hls.go:157-278) is right, for finished, growing and deleted files.      *)
IndexesTrue == FinishedIsComplete /\ ListedIsServed /\ DeletedIsForgotten

(* The interval that the archive lists for a finished recording is the one *)
(* that was recorded, over midnight too, if it is shorter than a day: the  *)
(* file name holds no date for the end.                                    *)
ListedWhenRecorded ==
    \A r \in Recordings :
        at[r] = "done" /\ end[r] - Start[r] < Day
            => <<"done", r, <<Start[r], end[r]>>>> \in GetCameraArchive
=============================================================================
