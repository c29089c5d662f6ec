------------------------------ MODULE Recorder ------------------------------
(***************************************************************************)
(* internal/recorder: the fMP4 archive of one camera, with crash recovery  *)
(* and retention.                                                          *)
(*                                                                         *)
(* The directory maps file names to contents: the init segment, the parts  *)
(* (sets of frame numbers), whether the file ends in the middle of a box,  *)
(* and its modification time.  Between a frame and the write it causes the *)
(* process may die.  The clock has the resolution of file names; two files *)
(* of a camera are not started at one tick (NotReused).                    *)
(***************************************************************************)
EXTENDS Integers, Sequences, FiniteSets

CONSTANTS RotateAfter,          \* age at which a file is rotated (1 hour)
          Retention,            \* age at which a file is deleted
          MaxFrames, MaxTime    \* bounds: frames, clock

ASSUME AgesAssumption ==
    /\ RotateAfter \in Nat /\ Retention \in Nat /\ RotateAfter < Retention
    /\ MaxFrames \in Nat /\ MaxTime \in Nat

VARIABLES
    dir,          \* the camera's directory: name -> content
    proc,         \* the process: "down", "recovering" or "up"
    todo,         \* names that RecoverCrashedFiles has listed and not handled
    rec,          \* the goroutine run: where it is
    file,         \* currentFilename of the open file, or NoFile
    hand,         \* the frame in hand, or 0
    samples,      \* frames in partSamples and pendingSample
    partsWritten,
    cancelled,    \* Stop was called
    degraded,     \* last value given to onDegraded
    clock,
    frames,       \* frames received so far
    flushed,      \* history: <<start of the file, frame, time>>, parts that were written
    expired,      \* history: <<start of the file, time>>, files that retention deleted
    stuck,        \* history: files that could not be renamed or deleted
    unchecked     \* history: starts of files whose last write failed in Exit

recVars == <<rec, file, hand, samples, partsWritten, cancelled, degraded>>
vars == <<dir, proc, todo, recVars, clock, frames, flushed, expired, stuck, unchecked>>

NoFile == << >>
Ongoing(start) == <<"ongoing", start, start>>
Corrupted(name) == <<"corrupted", name[2], name[2]>>
Final(name, end) == <<"final", name[2], end>>
Empty == [init |-> FALSE, parts |-> << >>, torn |-> FALSE, mod |-> 0]

Frames(f) == UNION {f.parts[i] : i \in DOMAIN f.parts}
Without(d, name) == [n \in DOMAIN d \ {name} |-> d[n]]
Renamed(d, from, to) == [n \in (DOMAIN d \ {from}) \cup {to} |-> IF n = to THEN d[from] ELSE d[n]]

Init ==
    /\ dir = << >>
    /\ proc = "down" /\ todo = {}
    /\ rec = "done" /\ file = NoFile /\ hand = 0 /\ samples = {} /\ partsWritten = 0
    /\ cancelled = FALSE /\ degraded = FALSE
    /\ clock = 0 /\ frames = 0
    /\ flushed = {} /\ expired = {} /\ stuck = {} /\ unchecked = {}

----------------------------------------------------------------------------
(* Writing to the open file, which retention may have unlinked.            *)

Linked == file \in DOMAIN dir
Wrote(part) == IF Linked THEN [dir EXCEPT ![file].parts = Append(@, part), ![file].mod = clock]
                         ELSE dir
Recorded == {<<file[2], k, clock>> : k \in samples}
Tore == IF Linked THEN [dir EXCEPT ![file].torn = TRUE, ![file].mod = clock] ELSE dir

(* finalize: close, then move the file aside, into the archive, or delete  *)
(* it if it has no part; done says whether the file system complies.       *)
Finalize(d, isError, parts, done) ==
    /\ file' = NoFile
    /\ stuck' = IF done THEN stuck ELSE stuck \cup {file}
    /\ dir' = IF ~done \/ file \notin DOMAIN d THEN d
              ELSE IF isError THEN Renamed(d, file, Corrupted(file))
              ELSE IF parts > 0 THEN Renamed(d, file, Final(file, clock))
              ELSE Without(d, file)

----------------------------------------------------------------------------
(* run                                                                     *)

At(from) == proc = "up" /\ rec = from

(* The codec parameters are polled, until Stop.                            *)
ParamsKnown ==
    /\ At("params")
    /\ rec' = IF cancelled THEN "done" ELSE "loop"
    /\ UNCHANGED <<dir, proc, todo, file, hand, samples, partsWritten, cancelled, degraded, clock,
                   frames, flushed, expired, stuck, unchecked>>

(* A frame: a keyframe rotates a file that is old enough, starts one if    *)
(* there is none, and ends a part; another frame is added to the part.     *)
Frame(key) ==
    /\ At("loop")
    /\ frames < MaxFrames
    /\ frames' = frames + 1
    /\ IF file = NoFile /\ ~key THEN UNCHANGED <<rec, hand, samples>>
       ELSE IF ~key THEN samples' = samples \cup {frames'} /\ UNCHANGED <<rec, hand>>
       ELSE /\ rec' = IF file = NoFile THEN "create"
                      ELSE IF clock - file[2] > RotateAfter THEN "rotate" ELSE "flush"
            /\ hand' = frames'
            /\ UNCHANGED samples
    /\ UNCHANGED <<dir, proc, todo, file, partsWritten, cancelled, degraded, clock, flushed, expired,
                   stuck, unchecked>>

(* Part.Marshal fails: whatever it has written stays, the file is moved    *)
(* aside, and the frame in hand is dropped.                                *)
MarshalFails(from) ==
    /\ At(from)
    /\ \E d \in {dir, Tore}, done \in BOOLEAN : Finalize(d, TRUE, partsWritten, done)
    /\ rec' = "loop" /\ hand' = 0 /\ samples' = {} /\ degraded' = TRUE
    /\ partsWritten' = IF from = "flush" THEN 0 ELSE partsWritten
    /\ UNCHANGED <<proc, todo, cancelled, clock, frames, flushed, expired, unchecked>>

(* Rotation: the samples are written, the file is finished, and the        *)
(* keyframe starts a new one.                                              *)
Rotate ==
    /\ At("rotate")
    /\ \E done \in BOOLEAN : Finalize(Wrote(samples), FALSE, partsWritten + 1, done)
    /\ flushed' = flushed \cup Recorded
    /\ rec' = "create" /\ samples' = {} /\ partsWritten' = 0
    /\ UNCHANGED <<proc, todo, hand, cancelled, degraded, clock, frames, expired, unchecked>>

(* Names have a resolution of a second.                                    *)
NotReused == \A n \in DOMAIN dir : n[2] < clock

Create ==
    /\ At("create")
    /\ NotReused
    /\ file' = Ongoing(clock)
    /\ dir' = [n \in DOMAIN dir \cup {file'} |-> IF n = file' THEN [Empty EXCEPT !.mod = clock]
                                                              ELSE dir[n]]
    /\ rec' = "init" /\ degraded' = FALSE
    /\ UNCHANGED <<proc, todo, hand, samples, partsWritten, cancelled, clock, frames, flushed,
                   expired, stuck, unchecked>>

CreateFails ==
    /\ At("create")
    /\ rec' = "loop" /\ hand' = 0 /\ degraded' = TRUE
    /\ UNCHANGED <<dir, proc, todo, file, samples, partsWritten, cancelled, clock, frames, flushed,
                   expired, stuck, unchecked>>

WriteInit ==
    /\ At("init")
    /\ dir' = IF Linked THEN [dir EXCEPT ![file].init = TRUE, ![file].mod = clock] ELSE dir
    /\ rec' = "loop" /\ samples' = {hand} /\ hand' = 0 /\ partsWritten' = 0
    /\ UNCHANGED <<proc, todo, file, cancelled, degraded, clock, frames, flushed, expired, stuck, unchecked>>

(* The part before the keyframe.                                           *)
Flush ==
    /\ At("flush")
    /\ dir' = Wrote(samples)
    /\ flushed' = flushed \cup Recorded
    /\ partsWritten' = partsWritten + 1
    /\ rec' = "loop" /\ samples' = {hand} /\ hand' = 0
    /\ UNCHANGED <<proc, todo, file, cancelled, degraded, clock, frames, expired, stuck, unchecked>>

(* Stop, and what run does then: frames that are still queued are given    *)
(* up, the samples in hand are written.  A failure of this write is        *)
(* ignored.                                                                *)
Stop ==
    /\ proc = "up" /\ rec # "done" /\ ~cancelled
    /\ cancelled' = TRUE
    /\ UNCHANGED <<dir, proc, todo, rec, file, hand, samples, partsWritten, degraded, clock, frames,
                   flushed, expired, stuck, unchecked>>

LoopEnds ==
    /\ At("loop") /\ cancelled
    /\ rec' = IF file = NoFile THEN "done" ELSE "exit"
    /\ UNCHANGED <<dir, proc, todo, file, hand, samples, partsWritten, cancelled, degraded, clock,
                   frames, flushed, expired, stuck, unchecked>>

Exit(written) ==
    /\ At("exit")
    /\ \E d \in IF written THEN {Wrote(samples)} ELSE {dir, Tore}, done \in BOOLEAN :
           Finalize(d, FALSE, IF written THEN partsWritten + 1 ELSE partsWritten, done)
    /\ flushed' = IF written THEN flushed \cup Recorded ELSE flushed
    /\ unchecked' = IF written THEN unchecked ELSE unchecked \cup {file[2]}
    /\ rec' = "done" /\ samples' = {}
    /\ UNCHANGED <<proc, todo, hand, partsWritten, cancelled, degraded, clock, frames, expired>>

(* A panic is recovered: the file is moved aside and the goroutine ends.   *)
Panic ==
    /\ proc = "up" /\ rec \notin {"params", "done"}
    /\ IF file = NoFile THEN UNCHANGED <<dir, file, stuck>>
       ELSE \E d \in {dir, Tore}, done \in BOOLEAN : Finalize(d, TRUE, partsWritten, done)
    /\ rec' = "done" /\ hand' = 0 /\ samples' = {} /\ degraded' = TRUE
    /\ UNCHANGED <<proc, todo, partsWritten, cancelled, clock, frames, flushed, expired, unchecked>>

(* NewRecorder: the camera is switched on again.                           *)
NewRecorder ==
    /\ At("done")
    /\ rec' = "params" /\ partsWritten' = 0 /\ cancelled' = FALSE /\ degraded' = FALSE
    /\ UNCHANGED <<dir, proc, todo, file, hand, samples, clock, frames, flushed, expired, stuck, unchecked>>

----------------------------------------------------------------------------
(* Crashes and recovery                                                    *)

(* The process dies.  The open file keeps a prefix of its parts (all of    *)
(* them unless the machine dies with it); a write that is under way, or    *)
(* the first part that is lost, may leave a torn end.                      *)
Crash ==
    /\ proc # "down"
    /\ proc' = "down" /\ todo' = {}
    /\ IF file \in DOMAIN dir
         THEN \E kept \in 0..Len(dir[file].parts), torn \in BOOLEAN :
                LET f == dir[file]
                    left == [f EXCEPT !.parts = SubSeq(@, 1, kept), !.torn = @ \/ torn]
                IN /\ torn => rec \in {"init", "flush", "rotate", "exit"} \/ kept < Len(f.parts)
                   /\ dir' = [dir EXCEPT ![file] = left]
                   /\ flushed' = {p \in flushed : p[1] = file[2] => p[2] \in Frames(left)}
         ELSE UNCHANGED <<dir, flushed>>
    /\ rec' = "done" /\ file' = NoFile /\ hand' = 0 /\ samples' = {} /\ partsWritten' = 0
    /\ cancelled' = FALSE /\ degraded' = FALSE
    /\ UNCHANGED <<clock, frames, expired, stuck, unchecked>>

IsOngoing(n) == n[1] = "ongoing"

(* RecoverCrashedFiles lists the files of an unfinished recording.         *)
Restart ==
    /\ proc = "down"
    /\ proc' = "recovering"
    /\ todo' = {n \in DOMAIN dir : IsOngoing(n)}
    /\ UNCHANGED <<dir, recVars, clock, frames, flushed, expired, stuck, unchecked>>

(* Faulty: a file that ends in the middle of a box passes.                 *)
ValidUnlessEmpty(f) == f.init /\ f.parts # << >>

(* ValidateFMP4File                                                        *)
Valid(f) == f.init /\ f.parts # << >> /\ ~f.torn

(* Each is validated, and goes into the archive under the time of its last *)
(* write or aside; a file that cannot be read goes aside as well.          *)
RecoverFile(n, readable, done) ==
    /\ proc = "recovering" /\ n \in todo
    /\ todo' = todo \ {n}
    /\ dir' = IF ~done THEN dir
              ELSE IF readable /\ Valid(dir[n]) THEN Renamed(dir, n, Final(n, dir[n].mod))
              ELSE Renamed(dir, n, Corrupted(n))
    /\ stuck' = IF done THEN stuck \ {n} ELSE stuck \cup {n}
    /\ UNCHANGED <<proc, recVars, clock, frames, flushed, expired, unchecked>>

(* The engine starts when recovery is over, and with it the recorder.      *)
EngineStarts ==
    /\ proc = "recovering" /\ todo = {}
    /\ proc' = "up" /\ rec' = "params"
    /\ UNCHANGED <<dir, todo, file, hand, samples, partsWritten, cancelled, degraded, clock, frames,
                   flushed, expired, stuck, unchecked>>

----------------------------------------------------------------------------
(* Retention                                                               *)

(* Faulty: the age of a file is taken from its name.                       *)
ExpiredByName(n) == n[1] # "corrupted" /\ clock - n[2] > Retention

(* cleanupOldFiles takes every .mp4 file that was not written for long,    *)
(* the open one included.                                                  *)
Expired(n) == n[1] # "corrupted" /\ clock - dir[n].mod > Retention

Cleanup ==
    /\ proc = "up"
    /\ \E gone \in SUBSET {n \in DOMAIN dir : Expired(n)} :
         /\ gone # {}
         /\ dir' = [n \in DOMAIN dir \ gone |-> dir[n]]
         /\ expired' = expired \cup {<<n[2], clock>> : n \in gone}
    /\ UNCHANGED <<proc, todo, recVars, clock, frames, flushed, stuck, unchecked>>

Tick ==
    /\ clock < MaxTime
    /\ clock' = clock + 1
    /\ UNCHANGED <<dir, proc, todo, recVars, frames, flushed, expired, stuck, unchecked>>

Next ==
    \/ ParamsKnown \/ (\E key \in BOOLEAN : Frame(key))
    \/ (\E from \in {"rotate", "init", "flush"} : MarshalFails(from))
    \/ Rotate \/ Create \/ CreateFails \/ WriteInit \/ Flush
    \/ Stop \/ LoopEnds \/ (\E written \in BOOLEAN : Exit(written)) \/ Panic \/ NewRecorder
    \/ Crash \/ Restart \/ EngineStarts
    \/ (\E n \in todo, readable \in BOOLEAN, done \in BOOLEAN : RecoverFile(n, readable, done))
    \/ Cleanup \/ Tick

Spec == Init /\ [][Next]_vars

----------------------------------------------------------------------------
(* Properties                                                              *)

Content == [init : BOOLEAN, parts : Seq(SUBSET (1..MaxFrames)), torn : BOOLEAN, mod : 0..MaxTime]
Name == {"ongoing", "final", "corrupted"} \X (0..MaxTime) \X (0..MaxTime)
OngoingName == {Ongoing(t) : t \in 0..MaxTime}

(* Every variable of the recorder and of the directory has its type; the   *)
(* open file bears the name of an unfinished recording.                    *)
TypeOK ==
    /\ DOMAIN dir \subseteq Name /\ \A n \in DOMAIN dir : dir[n] \in Content
    /\ proc \in {"down", "recovering", "up"} /\ todo \subseteq OngoingName
    /\ rec \in {"params", "loop", "rotate", "create", "init", "flush", "exit", "done"}
    /\ file \in {NoFile} \cup OngoingName
    /\ hand \in 0..MaxFrames /\ samples \subseteq 1..MaxFrames /\ partsWritten \in Nat
    /\ cancelled \in BOOLEAN /\ degraded \in BOOLEAN
    /\ clock \in 0..MaxTime /\ frames \in 0..MaxFrames
    /\ flushed \subseteq (0..MaxTime) \X (1..MaxFrames) \X (0..MaxTime)
    /\ expired \subseteq (0..MaxTime) \X (0..MaxTime)
    /\ stuck \subseteq OngoingName /\ unchecked \subseteq 0..MaxTime

(* What run has written to a file (Part.Marshal returned) and the disk has *)
(* kept stays in the directory through rotation, failures, Stop, crashes   *)
(* and recovery, in the archive or aside, until it is older than the       *)
(* retention of cleanupOldFiles.  A part is lost early only if it was      *)
(* written to a file that retention had already deleted.                   *)
FlushedKept ==
    \A p \in flushed :
        \/ \E n \in DOMAIN dir : n[2] = p[1] /\ p[2] \in Frames(dir[n])
        \/ \E e \in expired : e[1] = p[1] /\ (e[2] - p[3] > Retention \/ p[3] >= e[2])

(* A file under a final name, which the archive lists, has its init        *)
(* segment and a part, and no torn end, whichever of finalize and          *)
(* RecoverCrashedFiles gave it the name, unless the failed write was the   *)
(* last one of Stop, whose error run ignores.                              *)
ArchivedIsPlayable ==
    \A n \in DOMAIN dir : n[1] = "final" =>
        /\ dir[n].init /\ dir[n].parts # << >>
        /\ dir[n].torn => n[2] \in unchecked

(* An _ongoing file is the one the recorder has open, or one that could    *)
(* not be moved: finalize leaves none behind, and RecoverCrashedFiles none *)
(* of those that a crash left.                                             *)
OngoingIsOpen ==
    proc # "down" =>
        \A n \in DOMAIN dir : IsOngoing(n) => n = file \/ n \in stuck \/ n \in todo

(* The names of the files say what is in them.                             *)
NamesTell == ArchivedIsPlayable /\ OngoingIsOpen
=============================================================================
