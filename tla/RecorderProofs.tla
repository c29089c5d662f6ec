--------------------------- MODULE RecorderProofs ---------------------------
(***************************************************************************)
(* Proofs about Recorder, for any number of frames, any bound of the       *)
(* clock, any age at which files rotate and any longer one at which they   *)
(* expire: no flushed part is lost, and a file's name tells what is in it. *)
(***************************************************************************)
EXTENDS Recorder, TLAPS

(* Zenon proves what is first-order; the leaves with arithmetic, sequences *)
(* or records name the SMT solver.                                         *)
USE ZenonT(30)

----------------------------------------------------------------------------
(* The recorder.  What is in the directory is told apart by the start of   *)
(* the recording, which a renamed file keeps: no two names share one.      *)

Dir(d) ==
    /\ d = [n \in DOMAIN d |-> d[n]]
    /\ DOMAIN d \subseteq Name
    /\ \A n \in DOMAIN d : d[n] \in Content
    /\ \A m, n \in DOMAIN d : m[2] = n[2] => m = n

(* FlushedKept of a directory d, parts fl and expired files ex.            *)
Kept(d, fl, ex) ==
    \A p \in fl :
        \/ \E n \in DOMAIN d : n[2] = p[1] /\ p[2] \in Frames(d[n])
        \/ \E e \in ex : e[1] = p[1] /\ (e[2] - p[3] > Retention \/ p[3] >= e[2])

(* A file is not older than its start, nor than what was written to it.    *)
Stamped(d, fl, now) ==
    \A n \in DOMAIN d :
        /\ n[2] <= d[n].mod /\ d[n].mod <= now
        /\ \A p \in fl : n[2] = p[1] => p[3] <= d[n].mod

Playable(d, un) ==
    \A n \in DOMAIN d : n[1] = "final" =>
        d[n].init /\ d[n].parts # << >> /\ (d[n].torn => n[2] \in un)

MovedTo(d, from, to, e) ==
    /\ Dir(e)
    /\ DOMAIN e = (DOMAIN d \ {from}) \cup {to}
    /\ e[to] = d[from]
    /\ \A n \in DOMAIN d \ {from} : n # to /\ e[n] = d[n]

LEMMA RenamedDir ==
    ASSUME NEW d, Dir(d), NEW from, from \in DOMAIN d, NEW to, to \in Name, to[2] = from[2]
    PROVE  MovedTo(d, from, to, Renamed(d, from, to))
<1>1. PICK e : e = Renamed(d, from, to)
  OBVIOUS
<1>2. e = [n \in (DOMAIN d \ {from}) \cup {to} |-> IF n = to THEN d[from] ELSE d[n]]
  BY <1>1 DEF Renamed
<1>3. DOMAIN e = (DOMAIN d \ {from}) \cup {to} /\ e[to] = d[from]
  BY <1>2
<1>4. \A n \in DOMAIN d \ {from} : n # to
  BY DEF Dir
<1>5. \A n \in DOMAIN d \ {from} : e[n] = d[n]
  BY <1>2, <1>4
<1>6. e = [n \in DOMAIN e |-> e[n]] /\ DOMAIN e \subseteq Name
  BY <1>2, <1>3, SMTT(20) DEF Dir
<1>7. \A n \in DOMAIN e : e[n] \in Content
  BY <1>3, <1>5 DEF Dir
<1>8. \A m, n \in DOMAIN e : m[2] = n[2] => m = n
  BY <1>3 DEF Dir
<1> QED BY <1>1, <1>3, <1>4, <1>5, <1>6, <1>7, <1>8, SMTT(20) DEF Dir, MovedTo

(* A file that is renamed keeps what it holds and when it was written.     *)
LEMMA RenamedKept ==
    ASSUME NEW d, Dir(d), NEW from \in DOMAIN d, NEW to \in Name, to[2] = from[2],
           NEW fl, NEW ex, NEW now, NEW un, Kept(d, fl, ex), Stamped(d, fl, now), Playable(d, un),
           to[1] = "final" => /\ d[from].init /\ d[from].parts # << >>
                              /\ d[from].torn => from[2] \in un
    PROVE  /\ Kept(Renamed(d, from, to), fl, ex)
           /\ Stamped(Renamed(d, from, to), fl, now)
           /\ Playable(Renamed(d, from, to), un)
<1>1. PICK e : e = Renamed(d, from, to)
  OBVIOUS
<1>2. /\ DOMAIN e = (DOMAIN d \ {from}) \cup {to} /\ e[to] = d[from]
      /\ \A n \in DOMAIN d \ {from} : n # to /\ e[n] = d[n]
  <2>1. MovedTo(d, from, to, e)
    BY <1>1, RenamedDir
  <2> QED BY <2>1 DEF MovedTo
<1>3. ASSUME NEW p \in fl, NEW n \in DOMAIN d, n[2] = p[1], p[2] \in Frames(d[n])
      PROVE  \E m \in DOMAIN e : m[2] = p[1] /\ p[2] \in Frames(e[m])
  BY <1>2, <1>3, SMTT(20)
<1>4. Kept(e, fl, ex)
  BY <1>3 DEF Kept
<1>5. Stamped(e, fl, now)
  BY <1>2, SMTT(20) DEF Stamped
<1>6. Playable(e, un)
  BY <1>2 DEF Playable
<1> QED BY <1>1, <1>4, <1>5, <1>6

LEMMA FewerFiles ==
    ASSUME NEW d, Dir(d), NEW gone
    PROVE  LET e == [n \in DOMAIN d \ gone |-> d[n]]
           IN /\ Dir(e) /\ DOMAIN e = DOMAIN d \ gone /\ \A n \in DOMAIN e : e[n] = d[n]
              /\ \A fl, now : Stamped(d, fl, now) => Stamped(e, fl, now)
              /\ \A un : Playable(d, un) => Playable(e, un)
<1>1. PICK e : e = [n \in DOMAIN d \ gone |-> d[n]]
  OBVIOUS
<1>2. DOMAIN e = DOMAIN d \ gone /\ (\A n \in DOMAIN e : e[n] = d[n]) /\ e = [n \in DOMAIN e |-> e[n]]
  BY <1>1
<1>3. Dir(e)
  BY <1>2 DEF Dir
<1>4. \A fl, now : Stamped(d, fl, now) => Stamped(e, fl, now)
  BY <1>2 DEF Stamped
<1>5. \A un : Playable(d, un) => Playable(e, un)
  BY <1>2 DEF Playable
<1> QED BY <1>1, <1>2, <1>3, <1>4, <1>5

(* finalize, from the directory d that the last write has left.            *)
LEMMA FinalizedDir ==
    ASSUME NEW d, Dir(d), NEW t \in 0..MaxTime, file = Ongoing(t), clock \in 0..MaxTime,
           NEW isError \in BOOLEAN, NEW n \in Nat, NEW done \in BOOLEAN, Finalize(d, isError, n, done),
           NEW fl, NEW ex, NEW un, Kept(d, fl, ex), Stamped(d, fl, clock), Playable(d, un),
           ~isError /\ n = 0 => \A p \in fl : p[1] # file[2],
           file \in DOMAIN d /\ ~isError /\ n > 0 =>
              /\ d[file].init /\ d[file].parts # << >>
              /\ d[file].torn => file[2] \in un
    PROVE  /\ Dir(dir') /\ Kept(dir', fl, ex) /\ Stamped(dir', fl, clock) /\ Playable(dir', un)
           /\ file' = NoFile
           /\ stuck' \subseteq stuck \cup {file} /\ stuck \subseteq stuck'
           /\ \A m \in DOMAIN dir' : IsOngoing(m) => m \in DOMAIN d /\ (m # file \/ m \in stuck')
<1>f. file[2] = t /\ file[1] = "ongoing"
  BY DEF Ongoing
<1>s. file' = NoFile /\ stuck' \subseteq stuck \cup {file} /\ stuck \subseteq stuck'
      /\ (~done => file \in stuck')
  BY DEF Finalize
<1>1. CASE ~done \/ file \notin DOMAIN d
  <2>1. dir' = d
    BY <1>1 DEF Finalize
  <2> QED BY <1>1, <1>s, <2>1
<1>2. ASSUME done, file \in DOMAIN d, NEW to \in Name, to[2] = file[2], to[1] # "ongoing",
             dir' = Renamed(d, file, to),
             to[1] = "final" => /\ d[file].init /\ d[file].parts # << >>
                                /\ d[file].torn => file[2] \in un
      PROVE  /\ Dir(dir') /\ Kept(dir', fl, ex) /\ Stamped(dir', fl, clock) /\ Playable(dir', un)
             /\ \A m \in DOMAIN dir' : IsOngoing(m) => m \in DOMAIN d /\ (m # file \/ m \in stuck')
  <2>0. MovedTo(d, file, to, Renamed(d, file, to))
    BY <1>2, RenamedDir
  <2>1. Dir(dir') /\ DOMAIN dir' = (DOMAIN d \ {file}) \cup {to}
    BY <1>2, <2>0 DEF MovedTo
  <2>2. Kept(dir', fl, ex) /\ Stamped(dir', fl, clock) /\ Playable(dir', un)
    BY <1>2, RenamedKept
  <2> QED BY <1>2, <2>1, <2>2 DEF IsOngoing
<1>3. CASE done /\ file \in DOMAIN d /\ isError
  <2>1. Corrupted(file) \in Name /\ Corrupted(file)[2] = file[2] /\ Corrupted(file)[1] = "corrupted"
    BY <1>f DEF Corrupted, Name
  <2>2. dir' = Renamed(d, file, Corrupted(file))
    BY <1>3 DEF Finalize
  <2> QED BY <1>2, <1>3, <1>s, <2>1, <2>2
<1>4. CASE done /\ file \in DOMAIN d /\ ~isError /\ n > 0
  <2>1. Final(file, clock) \in Name /\ Final(file, clock)[2] = file[2] /\ Final(file, clock)[1] = "final"
    BY <1>f DEF Final, Name
  <2>2. dir' = Renamed(d, file, Final(file, clock))
    BY <1>4 DEF Finalize
  <2> QED BY <1>2, <1>4, <1>s, <2>1, <2>2
<1>5. CASE done /\ file \in DOMAIN d /\ ~isError /\ n = 0
  <2>1. dir' = [m \in DOMAIN d \ {file} |-> d[m]]
    BY <1>5, SMTT(20) DEF Finalize, Without
  <2>2. /\ Dir(dir') /\ DOMAIN dir' = DOMAIN d \ {file} /\ \A m \in DOMAIN dir' : dir'[m] = d[m]
        /\ Stamped(dir', fl, clock) /\ Playable(dir', un)
    BY <2>1, FewerFiles
  <2>3. \A p \in fl : p[1] # file[2]
    BY <1>5
  <2>4. Kept(dir', fl, ex)
    BY <2>2, <2>3 DEF Kept
  <2> QED BY <1>s, <2>2, <2>4
<1> QED BY <1>1, <1>3, <1>4, <1>5, SMTT(20)

RecorderTyped ==
    /\ proc \in {"down", "recovering", "up"} /\ todo \subseteq OngoingName
    /\ rec \in {"params", "loop", "rotate", "create", "init", "flush", "exit", "done"}
    /\ file \in {NoFile} \cup OngoingName
    /\ hand \in 0..MaxFrames /\ samples \subseteq 1..MaxFrames /\ partsWritten \in Nat
    /\ cancelled \in BOOLEAN /\ degraded \in BOOLEAN
    /\ clock \in 0..MaxTime /\ frames \in 0..MaxFrames
    /\ flushed \subseteq (0..MaxTime) \X (1..MaxFrames) \X (0..MaxTime)
    /\ expired \subseteq (0..MaxTime) \X (0..MaxTime)
    /\ stuck \subseteq OngoingName /\ unchecked \subseteq 0..MaxTime

(* Which steps of run have a file open, and a keyframe in hand; the        *)
(* recovery has the directory for itself.                                  *)
RecorderFlow ==
    /\ proc # "up" => rec = "done"
    /\ proc # "recovering" => todo = {}
    /\ todo \subseteq DOMAIN dir
    /\ \A n \in DOMAIN dir : IsOngoing(n) => n \in OngoingName
    /\ rec \in {"params", "create", "done"} => file = NoFile
    /\ rec \in {"rotate", "init", "flush", "exit"} => file # NoFile
    /\ rec \in {"rotate", "create", "init", "flush"} => hand \in 1..MaxFrames

(* A file that retention deletes is older than its start.                  *)
HistoryTimes ==
    /\ \A p \in flushed : p[3] <= clock
    /\ \A e \in expired : e[1] < e[2] /\ e[2] <= clock

(* The open file is whole, the only one of its start, and missing only     *)
(* because it expired; partsWritten tells whether it has a part.           *)
OpenFile ==
    file # NoFile =>
        /\ file[2] <= clock
        /\ \A n \in DOMAIN dir : n[2] = file[2] => n = file
        /\ ~Linked => \E e \in expired : e[1] = file[2]
        /\ rec = "init" \/ partsWritten = 0 => \A p \in flushed : p[1] # file[2]
        /\ Linked => ~dir[file].torn
        /\ Linked /\ rec # "init" => dir[file].init /\ (partsWritten > 0 => dir[file].parts # << >>)

RecorderInv ==
    /\ RecorderTyped
    /\ RecorderFlow
    /\ HistoryTimes
    /\ OpenFile
    /\ Dir(dir)
    /\ Kept(dir, flushed, expired)
    /\ Stamped(dir, flushed, clock)
    /\ Playable(dir, unchecked)
    /\ OngoingIsOpen

LEMMA OngoingNames ==
    ASSUME NEW n \in OngoingName
    PROVE  /\ n \in Name /\ n[1] = "ongoing" /\ n[2] \in 0..MaxTime /\ n = Ongoing(n[2])
           /\ n # NoFile
BY SMTT(20) DEF OngoingName, Ongoing, Name, NoFile

LEMMA MoreFrames ==
    ASSUME NEW s \in Seq(SUBSET (1..MaxFrames)), NEW part \in SUBSET (1..MaxFrames)
    PROVE  /\ Append(s, part) \in Seq(SUBSET (1..MaxFrames)) /\ Append(s, part) # << >>
           /\ UNION {s[i] : i \in DOMAIN s} \subseteq UNION {Append(s, part)[i] : i \in DOMAIN Append(s, part)}
           /\ part \subseteq UNION {Append(s, part)[i] : i \in DOMAIN Append(s, part)}
<1>1. PICK a : a = Append(s, part)
  OBVIOUS
<1>2. /\ a \in Seq(SUBSET (1..MaxFrames)) /\ Len(a) = Len(s) + 1 /\ a[Len(s) + 1] = part
      /\ \A i \in 1..Len(s) : a[i] = s[i]
  BY <1>1, SMTT(20)
<1>3. Len(s) \in Nat /\ DOMAIN s = 1..Len(s) /\ DOMAIN a = 1..Len(s) + 1
  BY <1>2, SMTT(20)
<1>4. \A i \in DOMAIN s : i \in DOMAIN a /\ a[i] = s[i]
  BY <1>2, <1>3, SMTT(20)
<1>5. Len(s) + 1 \in DOMAIN a /\ a[Len(s) + 1] = part
  BY <1>2, <1>3, SMTT(20)
<1>6. a # << >>
  BY <1>2, <1>3, SMTT(20)
<1> QED BY <1>1, <1>2, <1>4, <1>5, <1>6

(* One content of the open file replaced by another.                       *)
LEMMA ChangedFile ==
    ASSUME Dir(dir), NEW c \in Content, file \in DOMAIN dir
    PROVE  LET d == [dir EXCEPT ![file] = c]
           IN /\ Dir(d) /\ DOMAIN d = DOMAIN dir /\ d[file] = c
              /\ \A n \in DOMAIN dir : n # file => d[n] = dir[n]
<1>1. PICK d : d = [dir EXCEPT ![file] = c]
  OBVIOUS
<1>2. d = [n \in DOMAIN dir |-> IF n = file THEN c ELSE dir[n]]
  BY <1>1 DEF Dir
<1>3. DOMAIN d = DOMAIN dir /\ d[file] = c /\ (\A n \in DOMAIN dir : n # file => d[n] = dir[n])
  BY <1>2
<1>4. d = [n \in DOMAIN d |-> d[n]]
  BY <1>2, <1>3
<1>5. Dir(d)
  BY <1>3, <1>4 DEF Dir
<1> QED BY <1>1, <1>3, <1>5

(* The write of a part.                                                    *)
LEMMA WroteDir ==
    ASSUME RecorderInv, file # NoFile
    PROVE  /\ Dir(Wrote(samples)) /\ DOMAIN Wrote(samples) = DOMAIN dir
           /\ Kept(Wrote(samples), flushed \cup Recorded, expired)
           /\ Stamped(Wrote(samples), flushed \cup Recorded, clock)
           /\ Playable(Wrote(samples), unchecked)
           /\ Linked => /\ Wrote(samples)[file].parts # << >>
                        /\ Wrote(samples)[file].init = dir[file].init
                        /\ Wrote(samples)[file].torn = dir[file].torn
<1>t. /\ file \in OngoingName /\ samples \in SUBSET (1..MaxFrames) /\ clock \in 0..MaxTime
      /\ MaxTime \in Nat
  BY AgesAssumption DEF RecorderInv, RecorderTyped
<1>f. file[1] = "ongoing" /\ file[2] \in 0..MaxTime /\ file[2] <= clock
  BY <1>t, OngoingNames DEF RecorderInv, OpenFile
<1>d. Dir(dir) /\ Kept(dir, flushed, expired) /\ Stamped(dir, flushed, clock) /\ Playable(dir, unchecked)
  BY DEF RecorderInv
<1>h. \A p \in flushed : p[3] <= clock /\ p[3] \in Nat /\ p[1] \in Nat
  BY <1>t, SMTT(20) DEF RecorderInv, RecorderTyped, HistoryTimes
<1>r. \A p \in Recorded : p[1] = file[2] /\ p[2] \in samples /\ p[3] = clock
  BY SMTT(20) DEF Recorded
<1>1. CASE Linked
  <2>1. PICK g : g = dir[file] /\ g \in Content
    BY <1>1, <1>d DEF Linked, Dir
  <2> DEFINE c == [g EXCEPT !.parts = Append(@, samples), !.mod = clock]
  <2>2. PICK s \in Seq(SUBSET (1..MaxFrames)) : s = g.parts
    BY <2>1 DEF Content
  <2>3. Append(s, samples) \in Seq(SUBSET (1..MaxFrames))
    BY <1>t, MoreFrames
  <2>4. c \in Content /\ c.parts = Append(s, samples) /\ c.mod = clock /\ c.init = g.init
        /\ c.torn = g.torn
    BY <1>t, <2>1, <2>2, <2>3 DEF Content
  <2>5. Wrote(samples) = [dir EXCEPT ![file] = c]
    BY <1>1, <2>1 DEF Wrote, Linked
  <2> HIDE DEF c
  <2>6. PICK d : d = Wrote(samples)
    OBVIOUS
  <2>7. /\ Dir(d) /\ DOMAIN d = DOMAIN dir /\ d[file] = c
        /\ \A n \in DOMAIN dir : n # file => d[n] = dir[n]
    BY <1>1, <1>d, <2>4, <2>5, <2>6, ChangedFile DEF Linked
  <2>8. Frames(dir[file]) \subseteq Frames(d[file]) /\ samples \subseteq Frames(d[file])
    <3>1. PICK a : a = Append(s, samples)
      OBVIOUS
    <3>2. Frames(g) = UNION {s[i] : i \in DOMAIN s}
      BY <2>2 DEF Frames
    <3>3. Frames(c) = UNION {a[i] : i \in DOMAIN a}
      BY <2>4, <3>1 DEF Frames
    <3>4. UNION {s[i] : i \in DOMAIN s} \subseteq UNION {a[i] : i \in DOMAIN a}
          /\ samples \subseteq UNION {a[i] : i \in DOMAIN a}
      BY <1>t, <3>1, MoreFrames, SMTT(20)
    <3> QED BY <2>1, <2>7, <3>2, <3>3, <3>4
  <2>9. ASSUME NEW p \in flushed \cup Recorded
        PROVE  \/ \E n \in DOMAIN d : n[2] = p[1] /\ p[2] \in Frames(d[n])
               \/ \E e \in expired : e[1] = p[1] /\ (e[2] - p[3] > Retention \/ p[3] >= e[2])
    <3>1. CASE p \in Recorded
      BY <1>1, <1>r, <2>7, <2>8, <3>1 DEF Linked
    <3>2. CASE p \in flushed
      <4>1. CASE \E n \in DOMAIN dir : n[2] = p[1] /\ p[2] \in Frames(dir[n])
        BY <4>1, <2>7, <2>8
      <4> QED BY <1>d, <3>2, <4>1 DEF Kept
    <3> QED BY <3>1, <3>2
  <2>10. Kept(d, flushed \cup Recorded, expired)
    BY <2>9 DEF Kept
  <2>11. Stamped(d, flushed \cup Recorded, clock)
    <3>1. ASSUME NEW n \in DOMAIN d, n = file PROVE n[2] <= d[n].mod /\ d[n].mod <= clock
                              /\ \A p \in flushed \cup Recorded : p[3] <= d[n].mod
      <4>1. d[n].mod = clock
        BY <2>4, <2>7, <3>1
      <4>2. \A p \in flushed \cup Recorded : p[3] <= clock
        BY <1>h, <1>r, <1>t, SMTT(20)
      <4> QED BY <1>f, <1>t, <3>1, <4>1, <4>2, SMTT(20)
    <3>2. ASSUME NEW n \in DOMAIN d, n # file
          PROVE  n[2] <= d[n].mod /\ d[n].mod <= clock
                 /\ \A p \in flushed \cup Recorded : n[2] = p[1] => p[3] <= d[n].mod
      <4>1. d[n] = dir[n] /\ n \in DOMAIN dir /\ n[2] # file[2]
        BY <2>7, <3>2 DEF RecorderInv, OpenFile
      <4> QED BY <1>d, <1>r, <4>1 DEF Stamped
    <3> QED BY <3>1, <3>2 DEF Stamped
  <2>12. Playable(d, unchecked)
    BY <1>d, <1>f, <2>7 DEF Playable
  <2>13. c.parts # << >>
    BY <1>t, <2>4, MoreFrames
  <2> QED BY <2>1, <2>4, <2>6, <2>7, <2>10, <2>11, <2>12, <2>13
<1>2. CASE ~Linked
  <2>1. Wrote(samples) = dir
    BY <1>2 DEF Wrote
  <2>2. PICK e \in expired : e[1] = file[2]
    BY <1>2 DEF RecorderInv, OpenFile
  <2>3. e[2] <= clock
    BY DEF RecorderInv, HistoryTimes
  <2>4. \A p \in Recorded : e[1] = p[1] /\ p[3] >= e[2]
    BY <1>r, <1>t, <2>2, <2>3 DEF RecorderInv, RecorderTyped
  <2>5. Kept(dir, flushed \cup Recorded, expired)
    BY <1>d, <2>4 DEF Kept
  <2>6. \A n \in DOMAIN dir : n[2] # file[2]
    BY <1>2 DEF RecorderInv, OpenFile, Linked
  <2>7. Stamped(dir, flushed \cup Recorded, clock)
    BY <1>d, <1>r, <2>6 DEF Stamped
  <2> QED BY <1>2, <1>d, <2>1, <2>5, <2>7
<1> QED BY <1>1, <1>2

(* A write that fails may leave half a part.                               *)
LEMMA ToreDir ==
    ASSUME RecorderInv, file # NoFile, NEW d \in {dir, Tore}
    PROVE  /\ Dir(d) /\ DOMAIN d = DOMAIN dir
           /\ Kept(d, flushed, expired) /\ Stamped(d, flushed, clock) /\ Playable(d, unchecked)
           /\ Linked => d[file].parts = dir[file].parts /\ d[file].init = dir[file].init
<1>t. file \in OngoingName /\ clock \in 0..MaxTime /\ MaxTime \in Nat
  BY AgesAssumption DEF RecorderInv, RecorderTyped
<1>f. file[1] = "ongoing" /\ file[2] \in 0..MaxTime /\ file[2] <= clock
  BY <1>t, OngoingNames DEF RecorderInv, OpenFile
<1>d. Dir(dir) /\ Kept(dir, flushed, expired) /\ Stamped(dir, flushed, clock) /\ Playable(dir, unchecked)
  BY DEF RecorderInv
<1>1. CASE d = dir
  BY <1>1, <1>d
<1>2. CASE d # dir
  <2>0. Linked /\ d = [dir EXCEPT ![file].torn = TRUE, ![file].mod = clock]
    BY <1>2 DEF Tore
  <2>1. PICK g : g = dir[file] /\ g \in Content
    BY <2>0, <1>d DEF Linked, Dir
  <2> DEFINE c == [g EXCEPT !.torn = TRUE, !.mod = clock]
  <2>2. c \in Content /\ c.parts = g.parts /\ c.mod = clock /\ c.init = g.init
    BY <1>t, <2>1 DEF Content
  <2>3. d = [dir EXCEPT ![file] = c]
    BY <2>0, <2>1 DEF Linked
  <2> HIDE DEF c
  <2>4. /\ Dir(d) /\ DOMAIN d = DOMAIN dir /\ d[file] = c
        /\ \A n \in DOMAIN dir : n # file => d[n] = dir[n]
    BY <1>d, <2>0, <2>2, <2>3, ChangedFile DEF Linked
  <2>5. Frames(c) = Frames(g)
    BY <2>2 DEF Frames
  <2>6. \A n \in DOMAIN dir : Frames(d[n]) = Frames(dir[n])
    BY <2>1, <2>4, <2>5
  <2>7. Kept(d, flushed, expired)
    BY <1>d, <2>4, <2>6 DEF Kept
  <2>8. \A p \in flushed : p[3] <= clock
    BY DEF RecorderInv, HistoryTimes
  <2>9. Stamped(d, flushed, clock)
    <3>1. ASSUME NEW n \in DOMAIN d, n = file
          PROVE  n[2] <= d[n].mod /\ d[n].mod <= clock /\ \A p \in flushed : p[3] <= d[n].mod
      BY <1>f, <1>t, <2>2, <2>4, <2>8, <3>1, SMTT(20)
    <3>2. ASSUME NEW n \in DOMAIN d, n # file
          PROVE  n[2] <= d[n].mod /\ d[n].mod <= clock
                 /\ \A p \in flushed : n[2] = p[1] => p[3] <= d[n].mod
      BY <1>d, <2>4, <3>2 DEF Stamped
    <3> QED BY <3>1, <3>2 DEF Stamped
  <2>10. Playable(d, unchecked)
    BY <1>d, <1>f, <2>4 DEF Playable
  <2> QED BY <2>1, <2>2, <2>4, <2>7, <2>9, <2>10
<1> QED BY <1>1, <1>2

(* The directory after finalize, with the parts fl that were written.      *)
Closed(fl, un) ==
    /\ Dir(dir') /\ Kept(dir', fl, expired) /\ Stamped(dir', fl, clock) /\ Playable(dir', un)
    /\ file' = NoFile
    /\ stuck' \subseteq OngoingName
    /\ \A m \in DOMAIN dir' : IsOngoing(m) => m \in stuck'

LEMMA FileClosed ==
    ASSUME RecorderInv, proc = "up", file # NoFile,
           NEW d, NEW isError \in BOOLEAN, NEW n \in Nat, NEW done \in BOOLEAN, NEW fl, NEW un,
           Finalize(d, isError, n, done),
           Dir(d), DOMAIN d = DOMAIN dir, Kept(d, fl, expired), Stamped(d, fl, clock), Playable(d, un),
           ~isError /\ n = 0 => \A p \in fl : p[1] # file[2],
           Linked /\ ~isError /\ n > 0 =>
              /\ d[file].init /\ d[file].parts # << >>
              /\ d[file].torn => file[2] \in un
    PROVE  Closed(fl, un)
<1>t. file \in OngoingName /\ clock \in 0..MaxTime /\ stuck \subseteq OngoingName
  BY DEF RecorderInv, RecorderTyped
<1>f. PICK t \in 0..MaxTime : file = Ongoing(t)
  BY <1>t, OngoingNames
<1>1. /\ Dir(dir') /\ Kept(dir', fl, expired) /\ Stamped(dir', fl, clock) /\ Playable(dir', un)
      /\ file' = NoFile
      /\ stuck' \subseteq stuck \cup {file} /\ stuck \subseteq stuck'
      /\ \A m \in DOMAIN dir' : IsOngoing(m) => m \in DOMAIN d /\ (m # file \/ m \in stuck')
  BY <1>t, <1>f, FinalizedDir DEF Linked
<1>2. \A m \in DOMAIN dir : IsOngoing(m) => m = file \/ m \in stuck
  BY DEF RecorderInv, RecorderFlow, OngoingIsOpen
<1> QED BY <1>t, <1>1, <1>2 DEF Closed

LEMMA MovedAside ==
    ASSUME RecorderInv, proc = "up", file # NoFile,
           NEW d \in {dir, Tore}, NEW done \in BOOLEAN, Finalize(d, TRUE, partsWritten, done)
    PROVE  Closed(flushed, unchecked)
<1>1. partsWritten \in Nat
  BY DEF RecorderInv, RecorderTyped
<1>2. /\ Dir(d) /\ DOMAIN d = DOMAIN dir
      /\ Kept(d, flushed, expired) /\ Stamped(d, flushed, clock) /\ Playable(d, unchecked)
  BY ToreDir
<1> QED BY <1>1, <1>2, FileClosed

LEMMA PutIntoArchive ==
    ASSUME RecorderInv, proc = "up", rec \in {"rotate", "exit"}, NEW done \in BOOLEAN,
           Finalize(Wrote(samples), FALSE, partsWritten + 1, done)
    PROVE  Closed(flushed \cup Recorded, unchecked)
<1>0. file # NoFile
  BY DEF RecorderInv, RecorderFlow
<1>1. partsWritten \in Nat /\ partsWritten + 1 > 0 /\ partsWritten + 1 # 0 /\ partsWritten + 1 \in Nat
  BY SMTT(20) DEF RecorderInv, RecorderTyped
<1>2. PICK d : d = Wrote(samples)
  OBVIOUS
<1>3. /\ Dir(d) /\ DOMAIN d = DOMAIN dir
      /\ Kept(d, flushed \cup Recorded, expired)
      /\ Stamped(d, flushed \cup Recorded, clock) /\ Playable(d, unchecked)
      /\ Linked => d[file].parts # << >> /\ d[file].init = dir[file].init /\ d[file].torn = dir[file].torn
  BY <1>0, <1>2, WroteDir
<1>4. Linked => dir[file].init /\ ~dir[file].torn
  BY <1>0 DEF RecorderInv, OpenFile
<1>5. Linked => d[file].parts # << >> /\ d[file].init /\ ~d[file].torn
  BY <1>3, <1>4
<1> QED BY <1>0, <1>1, <1>2, <1>3, <1>5, FileClosed

LEMMA PutIntoArchiveUnchecked ==
    ASSUME RecorderInv, proc = "up", rec = "exit", NEW d \in {dir, Tore}, NEW done \in BOOLEAN,
           Finalize(d, FALSE, partsWritten, done)
    PROVE  Closed(flushed, unchecked \cup {file[2]})
<1>0. file # NoFile
  BY DEF RecorderInv, RecorderFlow
<1>1. partsWritten \in Nat
  BY DEF RecorderInv, RecorderTyped
<1>2. /\ Dir(d) /\ DOMAIN d = DOMAIN dir
      /\ Kept(d, flushed, expired) /\ Stamped(d, flushed, clock) /\ Playable(d, unchecked)
      /\ Linked => d[file].parts = dir[file].parts /\ d[file].init = dir[file].init
  BY <1>0, ToreDir
<1>3. Linked /\ partsWritten > 0 => d[file].init /\ d[file].parts # << >>
  BY <1>0, <1>2 DEF RecorderInv, OpenFile
<1>4. Playable(d, unchecked \cup {file[2]})
  BY <1>2 DEF Playable
<1>5. partsWritten = 0 => \A p \in flushed : p[1] # file[2]
  BY <1>0 DEF RecorderInv, OpenFile
<1> QED BY <1>0, <1>1, <1>2, <1>3, <1>4, <1>5, FileClosed

(* Then run goes on without a file.                                        *)
LEMMA AfterFile ==
    ASSUME RecorderInv, proc = "up", Closed(flushed', unchecked'),
           UNCHANGED <<proc, todo, clock, expired>>,
           RecorderTyped', \A p \in flushed' : p[3] <= clock,
           rec' \in {"loop", "create", "done"}, rec' = "create" => hand' \in 1..MaxFrames
    PROVE  RecorderInv'
<1>1. RecorderFlow'
  BY DEF RecorderInv, RecorderFlow, Closed
<1>2. HistoryTimes'
  BY DEF RecorderInv, HistoryTimes
<1>3. OpenFile'
  BY DEF Closed, OpenFile
<1>4. OngoingIsOpen'
  BY DEF Closed, OngoingIsOpen, IsOngoing
<1>5. Dir(dir)' /\ Kept(dir, flushed, expired)' /\ Stamped(dir, flushed, clock)' /\ Playable(dir, unchecked)'
  BY DEF Closed, Dir, Kept, Stamped, Playable
<1> QED BY <1>1, <1>2, <1>3, <1>4, <1>5 DEF RecorderInv

LEMMA RecordedTyped ==
    ASSUME RecorderInv, file # NoFile
    PROVE  /\ flushed \cup Recorded \subseteq (0..MaxTime) \X (1..MaxFrames) \X (0..MaxTime)
           /\ \A p \in flushed \cup Recorded : p[3] <= clock
           /\ file[2] \in 0..MaxTime
<1>1. /\ file \in OngoingName /\ samples \subseteq 1..MaxFrames /\ clock \in 0..MaxTime
      /\ flushed \subseteq (0..MaxTime) \X (1..MaxFrames) \X (0..MaxTime) /\ MaxTime \in Nat
  BY AgesAssumption DEF RecorderInv, RecorderTyped
<1>2. file[2] \in 0..MaxTime
  BY <1>1, OngoingNames
<1>3. Recorded \subseteq (0..MaxTime) \X (1..MaxFrames) \X (0..MaxTime)
  <2>1. ASSUME NEW k \in samples
        PROVE  <<file[2], k, clock>> \in (0..MaxTime) \X (1..MaxFrames) \X (0..MaxTime)
    <3>1. k \in 1..MaxFrames
      BY <1>1
    <3> QED BY <1>1, <1>2, <3>1
  <2> QED BY <2>1 DEF Recorded
<1>4. \A p \in Recorded : p[3] <= clock
  BY <1>1, SMTT(20) DEF Recorded
<1>5. \A p \in flushed : p[3] <= clock
  BY DEF RecorderInv, HistoryTimes
<1> QED BY <1>1, <1>2, <1>3, <1>4, <1>5

LEMMA ClosingSteps ==
    ASSUME RecorderInv,
           \/ \E from \in {"rotate", "init", "flush"} : MarshalFails(from)
           \/ Rotate \/ (\E written \in BOOLEAN : Exit(written))
           \/ Panic /\ file # NoFile
    PROVE  RecorderInv'
<1>t. RecorderTyped /\ RecorderFlow /\ \A p \in flushed : p[3] <= clock
  BY DEF RecorderInv, HistoryTimes
<1>1. ASSUME NEW from \in {"rotate", "init", "flush"}, MarshalFails(from) PROVE RecorderInv'
  <2>1. proc = "up" /\ file # NoFile
    BY <1>1, <1>t DEF MarshalFails, At, RecorderFlow
  <2>2. Closed(flushed, unchecked)
    BY <1>1, <2>1, MovedAside DEF MarshalFails
  <2>3. UNCHANGED <<proc, todo, clock, expired, flushed, unchecked>> /\ rec' = "loop"
    BY <1>1 DEF MarshalFails
  <2>4. RecorderTyped'
    <3>1. /\ hand' = 0 /\ samples' = {} /\ degraded' = TRUE /\ partsWritten' \in {0, partsWritten}
          /\ UNCHANGED <<cancelled, frames>>
      BY <1>1 DEF MarshalFails
    <3>2. file' = NoFile /\ stuck' \subseteq OngoingName
      BY <2>2 DEF Closed
    <3>3. 0 \in 0..MaxFrames
      BY AgesAssumption, SMTT(20)
    <3> QED BY <1>t, <2>3, <3>1, <3>2, <3>3, SMTT(20) DEF RecorderTyped
  <2> QED BY <1>t, <2>1, <2>2, <2>3, <2>4, AfterFile
<1>2. ASSUME Rotate PROVE RecorderInv'
  <2>1. proc = "up" /\ rec = "rotate" /\ file # NoFile /\ hand \in 1..MaxFrames
    BY <1>2, <1>t DEF Rotate, At, RecorderFlow
  <2>2. Closed(flushed \cup Recorded, unchecked)
    BY <1>2, <2>1, PutIntoArchive DEF Rotate
  <2>3. UNCHANGED <<proc, todo, clock, expired, unchecked, hand>> /\ rec' = "create"
        /\ flushed' = flushed \cup Recorded
    BY <1>2 DEF Rotate
  <2>4. RecorderTyped'
    BY <1>2, <1>t, <2>1, <2>2, <2>3, RecordedTyped DEF Rotate, RecorderTyped, Closed
  <2> QED BY <2>1, <2>2, <2>3, <2>4, RecordedTyped, AfterFile
<1>3. ASSUME Exit(TRUE) PROVE RecorderInv'
  <2>1. proc = "up" /\ rec = "exit" /\ file # NoFile
    BY <1>3, <1>t DEF Exit, At, RecorderFlow
  <2>2. \E done \in BOOLEAN : Finalize(Wrote(samples), FALSE, partsWritten + 1, done)
    BY <1>3 DEF Exit
  <2>3. Closed(flushed \cup Recorded, unchecked)
    BY <2>1, <2>2, PutIntoArchive
  <2>4. UNCHANGED <<proc, todo, clock, expired, unchecked>> /\ rec' = "done"
        /\ flushed' = flushed \cup Recorded
    BY <1>3 DEF Exit
  <2>5. RecorderTyped'
    BY <1>3, <1>t, <2>1, <2>3, <2>4, RecordedTyped DEF Exit, RecorderTyped, Closed
  <2> QED BY <2>1, <2>3, <2>4, <2>5, RecordedTyped, AfterFile
<1>4. ASSUME Exit(FALSE) PROVE RecorderInv'
  <2>1. proc = "up" /\ rec = "exit" /\ file # NoFile
    BY <1>4, <1>t DEF Exit, At, RecorderFlow
  <2>2. \E d \in {dir, Tore}, done \in BOOLEAN : Finalize(d, FALSE, partsWritten, done)
    BY <1>4 DEF Exit
  <2>3. Closed(flushed, unchecked \cup {file[2]})
    BY <2>1, <2>2, PutIntoArchiveUnchecked
  <2>4. UNCHANGED <<proc, todo, clock, expired, flushed>> /\ rec' = "done"
        /\ unchecked' = unchecked \cup {file[2]}
    BY <1>4 DEF Exit
  <2>5. RecorderTyped'
    BY <1>4, <1>t, <2>1, <2>3, <2>4, RecordedTyped DEF Exit, RecorderTyped, Closed
  <2> QED BY <1>t, <2>1, <2>3, <2>4, <2>5, AfterFile
<1>5. ASSUME Panic, file # NoFile PROVE RecorderInv'
  <2>1. proc = "up"
    BY <1>5 DEF Panic
  <2>2. \E d \in {dir, Tore}, done \in BOOLEAN : Finalize(d, TRUE, partsWritten, done)
    BY <1>5 DEF Panic
  <2>3. Closed(flushed, unchecked)
    BY <1>5, <2>1, <2>2, MovedAside
  <2>4. UNCHANGED <<proc, todo, clock, expired, flushed, unchecked>> /\ rec' = "done"
    BY <1>5 DEF Panic
  <2>5. RecorderTyped'
    <3>1. /\ hand' = 0 /\ samples' = {} /\ degraded' = TRUE
          /\ UNCHANGED <<cancelled, frames, partsWritten>>
      BY <1>5 DEF Panic
    <3>2. file' = NoFile /\ stuck' \subseteq OngoingName
      BY <2>3 DEF Closed
    <3>3. 0 \in 0..MaxFrames
      BY AgesAssumption, SMTT(20)
    <3> QED BY <1>t, <2>4, <3>1, <3>2, <3>3 DEF RecorderTyped
  <2> QED BY <1>t, <2>1, <2>3, <2>4, <2>5, AfterFile
<1> QED BY <1>1, <1>2, <1>3, <1>4, <1>5

(* Steps that leave the directory and the open file alone.                 *)
LEMMA AsideSteps ==
    ASSUME RecorderInv, UNCHANGED <<dir, proc, todo, file, clock, flushed, expired, stuck, unchecked>>,
           RecorderTyped', RecorderFlow',
           \/ file = NoFile
           \/ rec # "init" /\ rec' # "init" /\ UNCHANGED partsWritten
           \/ UNCHANGED <<rec, partsWritten>>
    PROVE  RecorderInv'
<1>1. HistoryTimes'
  BY DEF RecorderInv, HistoryTimes
<1>2. OpenFile'
  BY DEF RecorderInv, OpenFile, Linked
<1>3. OngoingIsOpen'
  BY DEF RecorderInv, OngoingIsOpen
<1>4. Dir(dir)' /\ Kept(dir, flushed, expired)' /\ Stamped(dir, flushed, clock)' /\ Playable(dir, unchecked)'
  BY DEF RecorderInv, Dir, Kept, Stamped, Playable
<1> QED BY <1>1, <1>2, <1>3, <1>4 DEF RecorderInv

Quiet ==
    \/ ParamsKnown \/ (\E key \in BOOLEAN : Frame(key)) \/ CreateFails \/ Stop \/ LoopEnds
    \/ NewRecorder \/ (Panic /\ file = NoFile)

LEMMA QuietSteps ==
    ASSUME RecorderInv, Quiet
    PROVE  RecorderInv'
<1>t. RecorderTyped /\ RecorderFlow
  BY DEF RecorderInv
<1>u. UNCHANGED <<dir, proc, todo, file, clock, flushed, expired, stuck, unchecked>>
  BY DEF Quiet, ParamsKnown, Frame, CreateFails, Stop, LoopEnds, NewRecorder, Panic
<1>1. ASSUME ParamsKnown PROVE RecorderInv'
  <2>1. RecorderTyped' /\ RecorderFlow' /\ file = NoFile
    BY <1>1, <1>t, <1>u DEF ParamsKnown, At, RecorderTyped, RecorderFlow
  <2> QED BY <1>u, <2>1, AsideSteps
<1>2. ASSUME NEW key \in BOOLEAN, Frame(key) PROVE RecorderInv'
  <2>1. frames' = frames + 1 /\ frames' \in 1..MaxFrames /\ frames' \in 0..MaxFrames
    BY <1>2, <1>t, AgesAssumption, SMTT(20) DEF Frame, RecorderTyped
  <2>2. /\ rec = "loop" /\ proc = "up" /\ UNCHANGED <<partsWritten, cancelled, degraded>>
        /\ \/ UNCHANGED <<rec, hand, samples>>
           \/ samples' = samples \cup {frames'} /\ UNCHANGED <<rec, hand>>
           \/ /\ rec' = IF file = NoFile THEN "create"
                        ELSE IF clock - file[2] > RotateAfter THEN "rotate" ELSE "flush"
              /\ hand' = frames' /\ UNCHANGED samples
    BY <1>2 DEF Frame, At
  <2>3. RecorderTyped'
    BY <1>t, <1>u, <2>1, <2>2 DEF RecorderTyped
  <2>4. RecorderFlow'
    BY <1>t, <1>u, <2>1, <2>2 DEF RecorderFlow
  <2>5. rec # "init" /\ rec' # "init"
    BY <2>2
  <2> QED BY <1>u, <2>2, <2>3, <2>4, <2>5, AsideSteps
<1>3. ASSUME CreateFails PROVE RecorderInv'
  <2>1. RecorderTyped' /\ RecorderFlow' /\ file = NoFile
    BY <1>3, <1>t, <1>u, AgesAssumption, SMTT(20) DEF CreateFails, At, RecorderTyped, RecorderFlow
  <2> QED BY <1>u, <2>1, AsideSteps
<1>4. ASSUME Stop PROVE RecorderInv'
  <2>1. RecorderTyped' /\ RecorderFlow' /\ UNCHANGED <<rec, partsWritten>>
    BY <1>4, <1>t, <1>u DEF Stop, RecorderTyped, RecorderFlow
  <2> QED BY <1>u, <2>1, AsideSteps
<1>5. ASSUME LoopEnds PROVE RecorderInv'
  <2>1. RecorderTyped' /\ RecorderFlow' /\ rec # "init" /\ rec' # "init" /\ UNCHANGED partsWritten
    BY <1>5, <1>t, <1>u DEF LoopEnds, At, RecorderTyped, RecorderFlow
  <2> QED BY <1>u, <2>1, AsideSteps
<1>6. ASSUME NewRecorder PROVE RecorderInv'
  <2>1. RecorderTyped' /\ RecorderFlow' /\ file = NoFile
    BY <1>6, <1>t, <1>u DEF NewRecorder, At, RecorderTyped, RecorderFlow
  <2> QED BY <1>u, <2>1, AsideSteps
<1>7. ASSUME Panic, file = NoFile PROVE RecorderInv'
  <2>1. RecorderTyped' /\ RecorderFlow'
    BY <1>7, <1>t, <1>u, AgesAssumption, SMTT(20) DEF Panic, RecorderTyped, RecorderFlow
  <2> QED BY <1>7, <1>u, <2>1, AsideSteps
<1> QED BY <1>1, <1>2, <1>3, <1>4, <1>5, <1>6, <1>7 DEF Quiet

LEMMA CreateStep ==
    ASSUME RecorderInv, Create
    PROVE  RecorderInv'
<1>t. RecorderTyped /\ RecorderFlow /\ HistoryTimes /\ Dir(dir) /\ Kept(dir, flushed, expired)
      /\ Stamped(dir, flushed, clock) /\ Playable(dir, unchecked) /\ OngoingIsOpen
  BY DEF RecorderInv
<1>1. /\ proc = "up" /\ rec = "create" /\ rec' = "init" /\ degraded' = FALSE /\ file' = Ongoing(clock)
      /\ \A n \in DOMAIN dir : n[2] < clock
      /\ UNCHANGED <<proc, todo, hand, samples, partsWritten, cancelled, clock, frames, flushed,
                     expired, stuck, unchecked>>
  BY DEF Create, At, NotReused
<1>2. PICK f : f = Ongoing(clock) /\ f = file'
  BY <1>1
<1>c. clock \in 0..MaxTime /\ MaxTime \in Nat
  BY <1>t, AgesAssumption DEF RecorderTyped
<1>3. f \in OngoingName /\ f \in Name /\ f[1] = "ongoing" /\ f[2] = clock /\ f # NoFile
  BY <1>2, <1>c, SMTT(20) DEF OngoingName, Ongoing, Name, NoFile
<1>4. PICK g \in Content : g = [Empty EXCEPT !.mod = clock]
  <2>1. << >> \in Seq(SUBSET (1..MaxFrames))
    BY SMTT(20)
  <2>2. Empty \in Content
    BY <1>c, <2>1, SMTT(20) DEF Empty, Content
  <2> QED BY <1>c, <2>2 DEF Content
<1>5. g.mod = clock /\ ~g.torn
  <2>1. g = [init |-> Empty.init, parts |-> Empty.parts, torn |-> Empty.torn, mod |-> clock]
    BY <1>4 DEF Empty
  <2> QED BY <2>1 DEF Empty
<1>6. dir' = [n \in DOMAIN dir \cup {f} |-> IF n = f THEN g ELSE dir[n]]
  BY <1>2, <1>4 DEF Create
<1>7. f \notin DOMAIN dir
  BY <1>1, <1>3, <1>c, SMTT(20)
<1>8. DOMAIN dir' = DOMAIN dir \cup {f} /\ dir'[f] = g /\ (\A n \in DOMAIN dir : dir'[n] = dir[n])
  BY <1>6, <1>7
<1>9. Dir(dir')
  <2>1. dir' = [n \in DOMAIN dir' |-> dir'[n]] /\ DOMAIN dir' \subseteq Name
    BY <1>3, <1>6, <1>8, <1>t DEF Dir
  <2>2. \A n \in DOMAIN dir' : dir'[n] \in Content
    BY <1>8, <1>t DEF Dir
  <2>3. \A m \in DOMAIN dir : m[2] # f[2]
    BY <1>1, <1>3, <1>c, SMTT(20)
  <2>4. \A m, n \in DOMAIN dir' : m[2] = n[2] => m = n
    BY <1>8, <1>t, <2>3 DEF Dir
  <2> QED BY <2>1, <2>2, <2>4 DEF Dir
<1>10. ASSUME NEW p \in flushed PROVE p[1] # clock
  <2>1. CASE \E n \in DOMAIN dir : n[2] = p[1]
    BY <1>1, <1>c, <2>1, SMTT(20)
  <2>2. CASE \E e \in expired : e[1] = p[1]
    BY <1>c, <1>t, <2>2, SMTT(20) DEF HistoryTimes, RecorderTyped
  <2> QED BY <1>t, <2>1, <2>2 DEF Kept
<1>11. Kept(dir', flushed, expired)
  BY <1>8, <1>t DEF Kept
<1>12. Stamped(dir', flushed, clock)
  <2>1. ASSUME NEW n \in DOMAIN dir PROVE n[2] <= dir'[n].mod /\ dir'[n].mod <= clock
                                      /\ \A p \in flushed : n[2] = p[1] => p[3] <= dir'[n].mod
    BY <1>8, <1>t DEF Stamped
  <2>2. f[2] <= dir'[f].mod /\ dir'[f].mod <= clock
    BY <1>3, <1>5, <1>8, <1>c, SMTT(20)
  <2>3. \A p \in flushed : f[2] # p[1]
    BY <1>3, <1>10
  <2> QED BY <1>8, <2>1, <2>2, <2>3 DEF Stamped
<1>13. Playable(dir', unchecked)
  BY <1>3, <1>8, <1>t DEF Playable
<1>14. RecorderTyped'
  BY <1>t, <1>1, <1>2, <1>3 DEF RecorderTyped
<1>15. RecorderFlow'
  BY <1>t, <1>1, <1>2, <1>3, <1>8 DEF RecorderFlow
<1>16. HistoryTimes'
  BY <1>t, <1>1 DEF HistoryTimes
<1>17. OpenFile'
  <2>1. file'[2] <= clock' /\ (\A n \in DOMAIN dir' : n[2] = file'[2] => n = file') /\ file' \in DOMAIN dir'
    BY <1>1, <1>2, <1>3, <1>8, <1>c, SMTT(20)
  <2>2. ~dir'[file'].torn
    BY <1>2, <1>5, <1>8
  <2>3. \A p \in flushed' : p[1] # file'[2]
    BY <1>1, <1>2, <1>3, <1>10
  <2> QED BY <1>1, <2>1, <2>2, <2>3 DEF OpenFile, Linked
<1>18. OngoingIsOpen'
  <2>1. ASSUME NEW n \in DOMAIN dir, IsOngoing(n) PROVE n \in stuck
    <3>1. todo = {} /\ file = NoFile
      BY <1>t, <1>1 DEF RecorderFlow
    <3>2. n # NoFile
      BY <1>t, SMTT(20) DEF Dir, Name, NoFile
    <3> QED BY <1>t, <1>1, <2>1, <3>1, <3>2 DEF OngoingIsOpen
  <2> QED BY <1>1, <1>2, <1>8, <2>1 DEF OngoingIsOpen
<1>19. Kept(dir, flushed, expired)' /\ Stamped(dir, flushed, clock)' /\ Playable(dir, unchecked)' /\ Dir(dir)'
  BY <1>1, <1>9, <1>11, <1>12, <1>13 DEF Dir, Kept, Stamped, Playable
<1> QED BY <1>14, <1>15, <1>16, <1>17, <1>18, <1>19 DEF RecorderInv

LEMMA PartWrittenStep ==
    ASSUME RecorderInv, Flush
    PROVE  RecorderInv'
<1>t. RecorderTyped /\ RecorderFlow /\ HistoryTimes /\ OpenFile /\ OngoingIsOpen
  BY DEF RecorderInv
<1>1. /\ proc = "up" /\ rec = "flush" /\ rec' = "loop" /\ samples' = {hand} /\ hand' = 0
      /\ dir' = Wrote(samples) /\ flushed' = flushed \cup Recorded /\ partsWritten' = partsWritten + 1
      /\ UNCHANGED <<proc, todo, file, cancelled, degraded, clock, frames, expired, stuck, unchecked>>
  BY DEF Flush, At
<1>2. file # NoFile /\ hand \in 1..MaxFrames
  BY <1>t, <1>1 DEF RecorderFlow
<1>3. /\ Dir(dir') /\ DOMAIN dir' = DOMAIN dir
      /\ Kept(dir', flushed', expired) /\ Stamped(dir', flushed', clock) /\ Playable(dir', unchecked)
      /\ Linked => dir'[file].parts # << >> /\ dir'[file].init = dir[file].init
                   /\ dir'[file].torn = dir[file].torn
  BY <1>1, <1>2, WroteDir
<1>4. RecorderTyped'
  BY <1>t, <1>1, <1>2, RecordedTyped, AgesAssumption, SMTT(20) DEF RecorderTyped
<1>5. RecorderFlow'
  BY <1>t, <1>1, <1>3 DEF RecorderFlow
<1>6. HistoryTimes'
  BY <1>t, <1>1, <1>2, RecordedTyped DEF HistoryTimes
<1>7. OpenFile'
  <2>1. partsWritten' # 0 /\ rec' # "init"
    BY <1>t, <1>1, SMTT(20) DEF RecorderTyped
  <2> QED BY <1>t, <1>1, <1>2, <1>3, <2>1 DEF OpenFile, Linked
<1>8. OngoingIsOpen'
  BY <1>t, <1>1, <1>3 DEF OngoingIsOpen
<1>9. Kept(dir, flushed, expired)' /\ Stamped(dir, flushed, clock)' /\ Playable(dir, unchecked)' /\ Dir(dir)'
  BY <1>1, <1>3 DEF Dir, Kept, Stamped, Playable
<1> QED BY <1>4, <1>5, <1>6, <1>7, <1>8, <1>9 DEF RecorderInv

LEMMA WriteInitStep ==
    ASSUME RecorderInv, WriteInit
    PROVE  RecorderInv'
<1>t. RecorderTyped /\ RecorderFlow /\ HistoryTimes /\ OpenFile /\ OngoingIsOpen
      /\ Dir(dir) /\ Kept(dir, flushed, expired) /\ Stamped(dir, flushed, clock) /\ Playable(dir, unchecked)
  BY DEF RecorderInv
<1>1. /\ proc = "up" /\ rec = "init" /\ rec' = "loop" /\ samples' = {hand} /\ hand' = 0
      /\ partsWritten' = 0
      /\ UNCHANGED <<proc, todo, file, cancelled, degraded, clock, frames, flushed, expired, stuck, unchecked>>
  BY DEF WriteInit, At
<1>2. file # NoFile /\ hand \in 1..MaxFrames /\ file \in OngoingName /\ clock \in 0..MaxTime /\ MaxTime \in Nat
  BY <1>t, <1>1, AgesAssumption DEF RecorderFlow, RecorderTyped
<1>f. file[1] = "ongoing" /\ file[2] \in 0..MaxTime /\ file[2] <= clock
  BY <1>t, <1>2, OngoingNames DEF OpenFile
<1>3. /\ Dir(dir') /\ DOMAIN dir' = DOMAIN dir
      /\ Kept(dir', flushed, expired) /\ Stamped(dir', flushed, clock) /\ Playable(dir', unchecked)
      /\ Linked => dir'[file].init /\ dir'[file].torn = dir[file].torn
  <2>1. CASE ~Linked
    BY <1>t, <2>1 DEF WriteInit
  <2>2. CASE Linked
    <3>1. PICK g : g = dir[file] /\ g \in Content
      BY <2>2, <1>t DEF Linked, Dir
    <3> DEFINE c == [g EXCEPT !.init = TRUE, !.mod = clock]
    <3>2. c \in Content /\ c.parts = g.parts /\ c.mod = clock /\ c.init /\ c.torn = g.torn
      BY <1>2, <3>1 DEF Content
    <3>3. dir' = [dir EXCEPT ![file] = c]
      BY <2>2, <3>1 DEF WriteInit, Linked
    <3> HIDE DEF c
    <3>4. /\ Dir(dir') /\ DOMAIN dir' = DOMAIN dir /\ dir'[file] = c
          /\ \A n \in DOMAIN dir : n # file => dir'[n] = dir[n]
      BY <1>t, <2>2, <3>2, <3>3, ChangedFile DEF Linked
    <3>5. Frames(c) = Frames(g)
      BY <3>2 DEF Frames
    <3>6. \A n \in DOMAIN dir : Frames(dir'[n]) = Frames(dir[n])
      BY <3>1, <3>4, <3>5
    <3>7. Kept(dir', flushed, expired)
      BY <1>t, <3>4, <3>6 DEF Kept
    <3>8. Stamped(dir', flushed, clock)
      <4>1. \A p \in flushed : p[3] <= clock
        BY <1>t DEF HistoryTimes
      <4>2. file[2] <= dir'[file].mod /\ dir'[file].mod <= clock /\ \A p \in flushed : p[3] <= dir'[file].mod
        BY <1>f, <1>2, <3>2, <3>4, <4>1, SMTT(20)
      <4>3. ASSUME NEW n \in DOMAIN dir', n # file
            PROVE  n[2] <= dir'[n].mod /\ dir'[n].mod <= clock
                   /\ \A p \in flushed : n[2] = p[1] => p[3] <= dir'[n].mod
        BY <1>t, <3>4, <4>3 DEF Stamped
      <4> QED BY <4>2, <4>3 DEF Stamped
    <3>9. Playable(dir', unchecked)
      BY <1>t, <1>f, <3>4 DEF Playable
    <3> QED BY <3>1, <3>2, <3>4, <3>7, <3>8, <3>9
  <2> QED BY <2>1, <2>2
<1>4. RecorderTyped'
  BY <1>t, <1>1, <1>2, AgesAssumption, SMTT(20) DEF RecorderTyped
<1>5. RecorderFlow'
  BY <1>t, <1>1, <1>3 DEF RecorderFlow
<1>6. HistoryTimes'
  BY <1>t, <1>1 DEF HistoryTimes
<1>7. OpenFile'
  <2>1. Linked' = Linked /\ (Linked => ~dir[file].torn)
    BY <1>t, <1>1, <1>2, <1>3 DEF OpenFile, Linked
  <2>2. /\ file' = file /\ file'[2] <= clock' /\ (\A n \in DOMAIN dir' : n[2] = file[2] => n = file)
        /\ \A p \in flushed' : p[1] # file[2]
    BY <1>t, <1>1, <1>2, <1>3 DEF OpenFile
  <2>3. ~Linked => \E e \in expired' : e[1] = file[2]
    BY <1>t, <1>1, <1>2 DEF OpenFile
  <2>4. Linked => dir'[file].init /\ ~dir'[file].torn
    BY <1>3, <2>1
  <2> QED BY <1>1, <2>1, <2>2, <2>3, <2>4, SMTT(20) DEF OpenFile
<1>8. OngoingIsOpen'
  BY <1>t, <1>1, <1>3 DEF OngoingIsOpen
<1>9. Kept(dir, flushed, expired)' /\ Stamped(dir, flushed, clock)' /\ Playable(dir, unchecked)' /\ Dir(dir)'
  BY <1>1, <1>3 DEF Dir, Kept, Stamped, Playable
<1> QED BY <1>4, <1>5, <1>6, <1>7, <1>8, <1>9 DEF RecorderInv

LEMMA CrashStep ==
    ASSUME RecorderInv, Crash
    PROVE  RecorderInv'
<1>t. RecorderTyped /\ RecorderFlow /\ HistoryTimes /\ OpenFile
      /\ Dir(dir) /\ Kept(dir, flushed, expired) /\ Stamped(dir, flushed, clock) /\ Playable(dir, unchecked)
  BY DEF RecorderInv
<1>1. /\ proc' = "down" /\ todo' = {} /\ rec' = "done" /\ file' = NoFile /\ hand' = 0 /\ samples' = {}
      /\ partsWritten' = 0 /\ cancelled' = FALSE /\ degraded' = FALSE
      /\ UNCHANGED <<clock, frames, expired, stuck, unchecked>>
  BY DEF Crash
<1>2. /\ Dir(dir') /\ DOMAIN dir' = DOMAIN dir /\ flushed' \subseteq flushed
      /\ Kept(dir', flushed', expired) /\ Stamped(dir', flushed', clock) /\ Playable(dir', unchecked)
  <2>1. CASE file \notin DOMAIN dir
    BY <1>t, <2>1 DEF Crash
  <2>2. CASE file \in DOMAIN dir
    <3>0. PICK g : g = dir[file] /\ g \in Content
      BY <1>t, <2>2 DEF Dir
    <3>1. PICK kept \in 0..Len(g.parts), torn_ \in BOOLEAN :
             LET left == [g EXCEPT !.parts = SubSeq(@, 1, kept), !.torn = @ \/ torn_]
             IN /\ dir' = [dir EXCEPT ![file] = left]
                /\ flushed' = {p \in flushed : p[1] = file[2] => p[2] \in Frames(left)}
      BY <2>2, <3>0 DEF Crash
    <3> DEFINE left == [g EXCEPT !.parts = SubSeq(@, 1, kept), !.torn = @ \/ torn_]
    <3>2. g.parts \in Seq(SUBSET (1..MaxFrames)) /\ g.torn \in BOOLEAN
      BY <3>0 DEF Content
    <3>3. SubSeq(g.parts, 1, kept) \in Seq(SUBSET (1..MaxFrames))
      BY <3>2, SMTT(20)
    <3>4. left \in Content /\ left.mod = g.mod
      BY <3>0, <3>2, <3>3 DEF Content
    <3>5. dir' = [dir EXCEPT ![file] = left]
          /\ flushed' = {p \in flushed : p[1] = file[2] => p[2] \in Frames(left)}
      BY <3>1
    <3> HIDE DEF left
    <3>6. /\ Dir(dir') /\ DOMAIN dir' = DOMAIN dir /\ dir'[file] = left
          /\ \A n \in DOMAIN dir : n # file => dir'[n] = dir[n]
      BY <1>t, <2>2, <3>4, <3>5, ChangedFile
    <3>7. Kept(dir', flushed', expired)
      <4>1. ASSUME NEW p \in flushed', p[1] = file[2]
            PROVE  \E n \in DOMAIN dir' : n[2] = p[1] /\ p[2] \in Frames(dir'[n])
        BY <2>2, <3>5, <3>6, <4>1
      <4>2. ASSUME NEW p \in flushed', p[1] # file[2],
                   \E n \in DOMAIN dir : n[2] = p[1] /\ p[2] \in Frames(dir[n])
            PROVE  \E n \in DOMAIN dir' : n[2] = p[1] /\ p[2] \in Frames(dir'[n])
        BY <3>6, <4>2
      <4>3. \A p \in flushed' : p \in flushed
        BY <3>5
      <4> QED BY <1>t, <4>1, <4>2, <4>3 DEF Kept
    <3>8. Stamped(dir', flushed', clock)
      <4>1. \A n \in DOMAIN dir : dir'[n].mod = dir[n].mod
        BY <3>0, <3>4, <3>6
      <4>2. \A p \in flushed' : p \in flushed
        BY <3>5
      <4> QED BY <1>t, <3>6, <4>1, <4>2 DEF Stamped
    <3>9. Playable(dir', unchecked)
      <4>1. file # NoFile
        BY <1>t, <2>2, SMTT(20) DEF Dir, Name, NoFile
      <4>2. file[1] = "ongoing"
        BY <1>t, <4>1, OngoingNames DEF RecorderTyped
      <4> QED BY <1>t, <3>6, <4>2 DEF Playable
    <3> QED BY <3>5, <3>6, <3>7, <3>8, <3>9
  <2> QED BY <2>1, <2>2
<1>3. RecorderTyped'
  <2>1. 0 \in 0..MaxFrames /\ 0 \in Nat
    BY AgesAssumption, SMTT(20)
  <2>2. flushed' \subseteq flushed
    BY <1>2
  <2> QED BY <1>t, <1>1, <2>1, <2>2 DEF RecorderTyped
<1>4. RecorderFlow'
  BY <1>t, <1>1, <1>2 DEF RecorderFlow, IsOngoing
<1>5. HistoryTimes'
  BY <1>t, <1>1, <1>2 DEF HistoryTimes
<1>6. OpenFile' /\ OngoingIsOpen'
  BY <1>1 DEF OpenFile, OngoingIsOpen
<1>7. Kept(dir, flushed, expired)' /\ Stamped(dir, flushed, clock)' /\ Playable(dir, unchecked)' /\ Dir(dir)'
  BY <1>1, <1>2 DEF Dir, Kept, Stamped, Playable
<1> QED BY <1>3, <1>4, <1>5, <1>6, <1>7 DEF RecorderInv

LEMMA RecoverStep ==
    ASSUME RecorderInv, NEW n \in todo, NEW readable \in BOOLEAN, NEW done \in BOOLEAN,
           RecoverFile(n, readable, done)
    PROVE  RecorderInv'
<1>t. RecorderTyped /\ RecorderFlow /\ HistoryTimes /\ OngoingIsOpen
      /\ Dir(dir) /\ Kept(dir, flushed, expired) /\ Stamped(dir, flushed, clock) /\ Playable(dir, unchecked)
  BY DEF RecorderInv
<1>1. /\ proc = "recovering" /\ todo' = todo \ {n}
      /\ stuck' = IF done THEN stuck \ {n} ELSE stuck \cup {n}
      /\ UNCHANGED <<proc, rec, file, hand, samples, partsWritten, cancelled, degraded, clock, frames,
                     flushed, expired, unchecked>>
  BY DEF RecoverFile, recVars
<1>2. n \in DOMAIN dir /\ n \in OngoingName /\ file = NoFile /\ rec = "done"
  BY <1>t, <1>1 DEF RecorderFlow, RecorderTyped
<1>3. n[2] \in 0..MaxTime /\ n[1] = "ongoing"
  BY <1>2, OngoingNames
<1>4. PICK g : g = dir[n] /\ g \in Content
  BY <1>t, <1>2 DEF Dir
<1>5. ASSUME NEW to, to \in Name, to[2] = n[2], to[1] # "ongoing", dir' = Renamed(dir, n, to), done,
             to[1] = "final" => g.init /\ g.parts # << >> /\ ~g.torn
      PROVE  /\ Dir(dir') /\ Kept(dir', flushed, expired) /\ Stamped(dir', flushed, clock)
             /\ Playable(dir', unchecked) /\ todo' \subseteq DOMAIN dir' /\ OngoingIsOpen'
             /\ \A m \in DOMAIN dir' : IsOngoing(m) => m \in DOMAIN dir
  <2>1. MovedTo(dir, n, to, dir')
    BY <1>t, <1>2, <1>5, RenamedDir
  <2>2. Dir(dir') /\ DOMAIN dir' = (DOMAIN dir \ {n}) \cup {to}
    BY <2>1 DEF MovedTo
  <2>3. Kept(dir', flushed, expired) /\ Stamped(dir', flushed, clock) /\ Playable(dir', unchecked)
    BY <1>t, <1>2, <1>4, <1>5, RenamedKept
  <2>4. todo' \subseteq DOMAIN dir'
    BY <1>t, <1>1, <2>2 DEF RecorderFlow
  <2>5. OngoingIsOpen'
    BY <1>t, <1>1, <1>5, <2>2 DEF OngoingIsOpen, IsOngoing
  <2>6. \A m \in DOMAIN dir' : IsOngoing(m) => m \in DOMAIN dir
    BY <1>5, <2>2 DEF IsOngoing
  <2> QED BY <2>2, <2>3, <2>4, <2>5, <2>6
<1>6. /\ Dir(dir') /\ Kept(dir', flushed, expired) /\ Stamped(dir', flushed, clock)
      /\ Playable(dir', unchecked) /\ todo' \subseteq DOMAIN dir' /\ OngoingIsOpen'
      /\ \A m \in DOMAIN dir' : IsOngoing(m) => m \in DOMAIN dir
  <2>1. CASE ~done
    <3>1. dir' = dir /\ stuck' = stuck \cup {n}
      BY <1>1, <2>1 DEF RecoverFile
    <3>2. OngoingIsOpen'
      BY <1>t, <1>1, <3>1 DEF OngoingIsOpen
    <3> QED BY <1>t, <1>1, <3>1, <3>2 DEF RecorderFlow
  <2>2. CASE done /\ readable /\ Valid(dir[n])
    <3>1. Final(n, g.mod) \in Name /\ Final(n, g.mod)[2] = n[2] /\ Final(n, g.mod)[1] = "final"
      BY <1>3, <1>4 DEF Final, Name, Content
    <3>2. dir' = Renamed(dir, n, Final(n, g.mod))
      BY <1>4, <2>2 DEF RecoverFile
    <3>3. g.init /\ g.parts # << >> /\ ~g.torn
      BY <1>4, <2>2 DEF Valid
    <3> QED BY <1>5, <2>2, <3>1, <3>2, <3>3
  <2>3. CASE done /\ ~(readable /\ Valid(dir[n]))
    <3>1. Corrupted(n) \in Name /\ Corrupted(n)[2] = n[2] /\ Corrupted(n)[1] = "corrupted"
      BY <1>3 DEF Corrupted, Name
    <3>2. dir' = Renamed(dir, n, Corrupted(n))
      BY <2>3 DEF RecoverFile
    <3> QED BY <1>5, <2>3, <3>1, <3>2
  <2> QED BY <2>1, <2>2, <2>3
<1>7. RecorderTyped'
  BY <1>t, <1>1, <1>2 DEF RecorderTyped
<1>8. RecorderFlow'
  BY <1>t, <1>1, <1>6 DEF RecorderFlow, IsOngoing
<1>9. HistoryTimes' /\ OpenFile'
  BY <1>t, <1>1, <1>2 DEF HistoryTimes, OpenFile
<1>10. Kept(dir, flushed, expired)' /\ Stamped(dir, flushed, clock)' /\ Playable(dir, unchecked)' /\ Dir(dir)'
  BY <1>1, <1>6 DEF Dir, Kept, Stamped, Playable
<1> QED BY <1>6, <1>7, <1>8, <1>9, <1>10 DEF RecorderInv

LEMMA CleanupStep ==
    ASSUME RecorderInv, Cleanup
    PROVE  RecorderInv'
<1>t. RecorderTyped /\ RecorderFlow /\ HistoryTimes /\ OpenFile /\ OngoingIsOpen
      /\ Dir(dir) /\ Kept(dir, flushed, expired) /\ Stamped(dir, flushed, clock) /\ Playable(dir, unchecked)
  BY DEF RecorderInv
<1>1. PICK gone \in SUBSET {n \in DOMAIN dir : Expired(n)} :
         /\ dir' = [n \in DOMAIN dir \ gone |-> dir[n]]
         /\ expired' = expired \cup {<<n[2], clock>> : n \in gone}
  BY DEF Cleanup
<1>2. /\ proc = "up"
      /\ UNCHANGED <<proc, todo, rec, file, hand, samples, partsWritten, cancelled, degraded, clock, frames,
                     flushed, stuck, unchecked>>
  BY DEF Cleanup, recVars
<1>3. /\ Dir(dir') /\ DOMAIN dir' = DOMAIN dir \ gone /\ (\A n \in DOMAIN dir' : dir'[n] = dir[n])
      /\ Stamped(dir', flushed, clock) /\ Playable(dir', unchecked)
  BY <1>t, <1>1, FewerFiles
<1>c. clock \in 0..MaxTime /\ MaxTime \in Nat /\ Retention \in Nat
  BY <1>t, AgesAssumption DEF RecorderTyped
<1>4. ASSUME NEW n \in gone
      PROVE  /\ n \in DOMAIN dir /\ n[2] \in 0..MaxTime /\ n[2] < clock
             /\ clock - dir[n].mod > Retention /\ dir[n].mod \in Nat
  <2>1. n \in DOMAIN dir /\ clock - dir[n].mod > Retention
    BY <1>1 DEF Expired
  <2>2. dir[n].mod \in 0..MaxTime /\ n[2] \in 0..MaxTime /\ n[2] <= dir[n].mod
    BY <1>t, <2>1 DEF Dir, Content, Name, Stamped
  <2> QED BY <1>c, <2>1, <2>2, SMTT(20)
<1>5. Kept(dir', flushed, expired')
  <2>1. ASSUME NEW p \in flushed, NEW n \in DOMAIN dir, n[2] = p[1], p[2] \in Frames(dir[n])
        PROVE  \/ \E m \in DOMAIN dir' : m[2] = p[1] /\ p[2] \in Frames(dir'[m])
               \/ \E e \in expired' : e[1] = p[1] /\ (e[2] - p[3] > Retention \/ p[3] >= e[2])
    <3>1. CASE n \notin gone
      BY <1>3, <2>1, <3>1
    <3>2. CASE n \in gone
      <4>1. PICK t \in Nat : t = p[3]
        BY <1>t, <1>c, SMTT(20) DEF RecorderTyped
      <4>2. t <= dir[n].mod
        BY <1>t, <2>1, <4>1 DEF Stamped
      <4>3. PICK m \in Nat : m = dir[n].mod /\ clock - m > Retention
        BY <1>4, <3>2
      <4>4. clock - t > Retention
        BY <1>c, <4>2, <4>3, SMTT(20)
      <4>5. <<n[2], clock>> \in expired'
        BY <1>1, <3>2
      <4> QED BY <2>1, <4>1, <4>4, <4>5
    <3> QED BY <3>1, <3>2
  <2>2. \A e \in expired : e \in expired'
    BY <1>1
  <2> QED BY <1>t, <2>1, <2>2 DEF Kept
<1>6. RecorderTyped'
  <2>1. {<<n[2], clock>> : n \in gone} \subseteq (0..MaxTime) \X (0..MaxTime)
    BY <1>4, <1>c, SMTT(20)
  <2> QED BY <1>t, <1>1, <1>2, <2>1 DEF RecorderTyped
<1>7. RecorderFlow'
  BY <1>t, <1>2, <1>3 DEF RecorderFlow, IsOngoing
<1>8. HistoryTimes'
  <2>1. ASSUME NEW e \in expired'
        PROVE  e[1] < e[2] /\ e[2] <= clock
    <3>1. CASE e \in expired
      BY <1>t, <3>1 DEF HistoryTimes
    <3>2. CASE e \in {<<n[2], clock>> : n \in gone}
      <4>1. PICK n \in gone : e = <<n[2], clock>>
        BY <3>2
      <4>2. e[1] = n[2] /\ e[2] = clock
        BY <4>1
      <4> QED BY <1>4, <1>c, <4>2, SMTT(20)
    <3> QED BY <1>1, <2>1, <3>1, <3>2
  <2> QED BY <1>t, <1>2, <2>1 DEF HistoryTimes
<1>9. OpenFile'
  <2>1. SUFFICES ASSUME file # NoFile PROVE OpenFile'
    BY <1>2 DEF OpenFile
  <2>2. ASSUME file \notin DOMAIN dir' PROVE \E e \in expired' : e[1] = file[2]
    <3>1. CASE file \in gone
      <4>1. <<file[2], clock>> \in expired'
        BY <1>1, <3>1
      <4> QED BY <4>1
    <3>2. CASE file \notin gone
      BY <1>t, <1>1, <1>3, <2>1, <2>2, <3>2 DEF OpenFile, Linked
    <3> QED BY <3>1, <3>2
  <2>3. (\A n \in DOMAIN dir' : n[2] = file[2] => n = file) /\ file[2] <= clock
        /\ (rec = "init" \/ partsWritten = 0 => \A p \in flushed : p[1] # file[2])
    BY <1>t, <1>3, <2>1 DEF OpenFile
  <2>4. file \in DOMAIN dir' => ~dir'[file].torn /\ (rec # "init" => dir'[file].init
                                   /\ (partsWritten > 0 => dir'[file].parts # << >>))
    BY <1>t, <1>3, <2>1 DEF OpenFile, Linked
  <2> QED BY <1>2, <2>2, <2>3, <2>4 DEF OpenFile, Linked
<1>10. OngoingIsOpen'
  BY <1>t, <1>2, <1>3 DEF OngoingIsOpen
<1>11. Kept(dir, flushed, expired)' /\ Stamped(dir, flushed, clock)' /\ Playable(dir, unchecked)' /\ Dir(dir)'
  BY <1>2, <1>3, <1>5 DEF Dir, Kept, Stamped, Playable
<1> QED BY <1>6, <1>7, <1>8, <1>9, <1>10, <1>11 DEF RecorderInv

LEMMA OtherSteps ==
    ASSUME RecorderInv, Restart \/ EngineStarts \/ Tick
    PROVE  RecorderInv'
<1>t. RecorderTyped /\ RecorderFlow /\ HistoryTimes /\ OpenFile /\ OngoingIsOpen
      /\ Dir(dir) /\ Kept(dir, flushed, expired) /\ Stamped(dir, flushed, clock) /\ Playable(dir, unchecked)
  BY DEF RecorderInv
<1>u. UNCHANGED <<dir, file, hand, samples, partsWritten, cancelled, degraded, frames, flushed,
                  expired, stuck, unchecked>>
  BY DEF Restart, EngineStarts, Tick, recVars
<1>d. Dir(dir)' /\ Kept(dir, flushed, expired)' /\ Playable(dir, unchecked)'
  BY <1>t, <1>u DEF Dir, Kept, Playable
<1>1. ASSUME Restart PROVE RecorderInv'
  <2>1. proc = "down" /\ proc' = "recovering" /\ todo' = {n \in DOMAIN dir : IsOngoing(n)}
        /\ UNCHANGED <<rec, clock>>
    BY <1>1 DEF Restart, recVars
  <2>2. rec = "done" /\ file = NoFile
    BY <1>t, <2>1 DEF RecorderFlow
  <2>3. todo' \subseteq OngoingName
    BY <1>t, <2>1 DEF RecorderFlow
  <2>4. RecorderTyped' /\ RecorderFlow'
    BY <1>t, <1>u, <2>1, <2>2, <2>3 DEF RecorderTyped, RecorderFlow
  <2>5. HistoryTimes' /\ OpenFile' /\ OngoingIsOpen' /\ Stamped(dir, flushed, clock)'
    BY <1>t, <1>u, <2>1, <2>2 DEF HistoryTimes, OpenFile, OngoingIsOpen, Stamped
  <2> QED BY <1>d, <2>4, <2>5 DEF RecorderInv
<1>2. ASSUME EngineStarts PROVE RecorderInv'
  <2>1. proc = "recovering" /\ todo = {} /\ proc' = "up" /\ rec' = "params" /\ UNCHANGED <<todo, clock>>
    BY <1>2 DEF EngineStarts
  <2>2. rec = "done" /\ file = NoFile
    BY <1>t, <2>1 DEF RecorderFlow
  <2>3. RecorderTyped' /\ RecorderFlow'
    BY <1>t, <1>u, <2>1, <2>2 DEF RecorderTyped, RecorderFlow
  <2>4. HistoryTimes' /\ OpenFile' /\ OngoingIsOpen' /\ Stamped(dir, flushed, clock)'
    BY <1>t, <1>u, <2>1, <2>2 DEF HistoryTimes, OpenFile, OngoingIsOpen, Stamped
  <2> QED BY <1>d, <2>3, <2>4 DEF RecorderInv
<1>3. ASSUME Tick PROVE RecorderInv'
  <2>1. clock' = clock + 1 /\ clock' \in 0..MaxTime /\ UNCHANGED <<proc, todo, rec>>
    BY <1>3, <1>t, AgesAssumption, SMTT(20) DEF Tick, RecorderTyped, recVars
  <2>2. RecorderTyped' /\ RecorderFlow'
    BY <1>t, <1>u, <2>1 DEF RecorderTyped, RecorderFlow
  <2>c. PICK c \in Nat : c = clock /\ clock' = c + 1
    BY <1>t, <2>1, AgesAssumption, SMTT(20) DEF RecorderTyped
  <2>3. HistoryTimes'
    <3>1. \A p \in flushed : p[3] \in Nat /\ p[3] <= c
      BY <1>t, <2>c, AgesAssumption, SMTT(20) DEF HistoryTimes, RecorderTyped
    <3>2. \A e \in expired : e[1] < e[2] /\ e[2] \in Nat /\ e[2] <= c
      BY <1>t, <2>c, AgesAssumption, SMTT(20) DEF HistoryTimes, RecorderTyped
    <3> QED BY <1>u, <2>c, <3>1, <3>2, SMTT(20) DEF HistoryTimes
  <2>4. Stamped(dir, flushed, clock)'
    <3>1. ASSUME NEW n \in DOMAIN dir PROVE dir[n].mod <= c + 1
      <4>1. dir[n].mod \in Nat /\ dir[n].mod <= c
        BY <1>t, <2>c, AgesAssumption, SMTT(20) DEF Dir, Content, Stamped
      <4> QED BY <4>1, SMTT(20)
    <3> QED BY <1>t, <1>u, <2>c, <3>1 DEF Stamped
  <2>5. OpenFile'
    <3>1. file # NoFile => file[2] <= c + 1
      <4>1. file # NoFile => file[2] \in Nat /\ file[2] <= c
        BY <1>t, <2>c, OngoingNames, AgesAssumption, SMTT(20) DEF OpenFile, RecorderTyped
      <4> QED BY <4>1, SMTT(20)
    <3> QED BY <1>t, <1>u, <2>1, <2>c, <3>1 DEF OpenFile, Linked
  <2>6. OngoingIsOpen'
    BY <1>t, <1>u, <2>1 DEF OngoingIsOpen
  <2> QED BY <1>d, <2>2, <2>3, <2>4, <2>5, <2>6 DEF RecorderInv
<1> QED BY <1>1, <1>2, <1>3

LEMMA RecorderInitInv == Init => RecorderInv
<1> SUFFICES ASSUME Init PROVE RecorderInv
  OBVIOUS
<1>1. DOMAIN dir = {} /\ dir = [n \in DOMAIN dir |-> dir[n]]
  BY SMTT(20) DEF Init
<1>2. RecorderTyped
  <2>1. 0 \in 0..MaxFrames /\ 0 \in 0..MaxTime /\ 0 \in Nat
    BY AgesAssumption, SMTT(20)
  <2> QED BY <2>1 DEF Init, RecorderTyped
<1>3. RecorderFlow /\ HistoryTimes /\ OpenFile /\ OngoingIsOpen
  BY SMTT(20) DEF Init, RecorderFlow, HistoryTimes, OpenFile, OngoingIsOpen
<1>4. Dir(dir) /\ Kept(dir, flushed, expired) /\ Stamped(dir, flushed, clock) /\ Playable(dir, unchecked)
  BY <1>1 DEF Init, Dir, Kept, Stamped, Playable
<1> QED BY <1>2, <1>3, <1>4 DEF RecorderInv

LEMMA RecorderNextInv == RecorderInv /\ [Next]_vars => RecorderInv'
<1> SUFFICES ASSUME RecorderInv, [Next]_vars PROVE RecorderInv'
  OBVIOUS
<1>1. CASE UNCHANGED vars
  <2>1. UNCHANGED <<dir, proc, todo, rec, file, hand, samples, partsWritten, cancelled, degraded, clock,
                    frames, flushed, expired, stuck, unchecked>>
    BY <1>1 DEF vars, recVars
  <2>2. RecorderTyped' /\ RecorderFlow'
    BY <2>1 DEF RecorderInv, RecorderTyped, RecorderFlow
  <2> QED BY <2>1, <2>2, AsideSteps
<1>2. ASSUME (\E from \in {"rotate", "init", "flush"} : MarshalFails(from)) PROVE RecorderInv'
  BY <1>2, ClosingSteps
<1>3. ASSUME Rotate PROVE RecorderInv'
  BY <1>3, ClosingSteps
<1>4. ASSUME (\E written \in BOOLEAN : Exit(written)) PROVE RecorderInv'
  BY <1>4, ClosingSteps
<1>5. ASSUME Panic PROVE RecorderInv'
  <2>1. CASE file # NoFile
    BY <1>5, <2>1, ClosingSteps
  <2>2. CASE file = NoFile
    BY <1>5, <2>2, QuietSteps DEF Quiet
  <2> QED BY <2>1, <2>2
<1>6. ASSUME ParamsKnown \/ CreateFails \/ Stop \/ LoopEnds \/ NewRecorder PROVE RecorderInv'
  <2>1. Quiet
    BY <1>6 DEF Quiet
  <2> QED BY <2>1, QuietSteps
<1>7. ASSUME (\E key \in BOOLEAN : Frame(key)) PROVE RecorderInv'
  <2>1. Quiet
    BY <1>7 DEF Quiet
  <2> QED BY <2>1, QuietSteps
<1>8. ASSUME Create \/ Flush \/ WriteInit \/ Crash \/ Cleanup PROVE RecorderInv'
  BY <1>8, CreateStep, PartWrittenStep, WriteInitStep, CrashStep, CleanupStep
<1>9. ASSUME (\E n \in todo, readable \in BOOLEAN, done \in BOOLEAN : RecoverFile(n, readable, done))
      PROVE  RecorderInv'
  <2>1. PICK n \in todo, readable \in BOOLEAN, done \in BOOLEAN : RecoverFile(n, readable, done)
    BY <1>9
  <2> QED BY <2>1, RecoverStep
<1>10. ASSUME Restart \/ EngineStarts \/ Tick PROVE RecorderInv'
  BY <1>10, OtherSteps
<1> QED BY <1>1, <1>2, <1>3, <1>4, <1>5, <1>6, <1>7, <1>8, <1>9, <1>10 DEF Next

(* Whatever the recorder, a crash, RecoverCrashedFiles and cleanupOldFiles *)
(* do in turn, the directory and the recorder's variables fit together:    *)
(* every flushed part is in a file, or expired.                            *)
THEOREM RecorderInvariance == Spec => []RecorderInv
BY RecorderInitInv, RecorderNextInv, PTL DEF Spec

(* What run has flushed stays in the directory, through finalize, crashes  *)
(* and RecoverCrashedFiles, until cleanupOldFiles may delete it.           *)
THEOREM FlushedPartsKept == Spec => []FlushedKept
<1>1. RecorderInv => FlushedKept
  BY DEF RecorderInv, Kept, FlushedKept
<1> QED BY <1>1, RecorderInvariance, PTL

(* A file that finalize or RecoverCrashedFiles put under a final name can  *)
(* be played, and a file that is not open does not keep the name of an     *)
(* unfinished recording.                                                   *)
THEOREM NamesTellContents == Spec => []NamesTell
<1>1. RecorderInv => NamesTell
  BY DEF RecorderInv, Playable, NamesTell, ArchivedIsPlayable
<1> QED BY <1>1, RecorderInvariance, PTL
=============================================================================
