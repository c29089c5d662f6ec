--------------------------- MODULE HlsMuxerProofs ---------------------------
(***************************************************************************)
(* Buffers of the live HLS window are neither reused too soon nor lost,    *)
(* and what the playlists say is right, for any number of requests, of     *)
(* callers of Stop, of buffers and of segments, and for any window.        *)
(***************************************************************************)
EXTENDS HlsMuxer, FiniteSetTheorems, TLAPS

(* Zenon proves what is first-order; the leaves with arithmetic, sequences *)
(* or records name the SMT solver.                                         *)
USE ZenonT(30)

-----------------------------------------------------------------------------
(* The inductive invariant                                                 *)

(* The window holds the last segments in the order of their numbers.       *)
Numbered ==
    /\ Len(segments) = seqCount
    /\ Len(window) <= seqCount /\ Len(window) <= MaxSegments
    /\ \A i \in 1..Len(window) : window[i] = seqCount - Len(window) + i
    /\ mu = "free" => segIndex = InWindow
    /\ PlaylistNumbered

Holders(n, who) == {h \in Handlers : who[h] = n}

(* A segment has one reference of the window and one of every request that *)
(* serves it.                                                              *)
RefsOf(n, inside, who) == (IF n \in inside THEN 1 ELSE 0) + Cardinality(Holders(n, who))

Counts(segs, inside, who) == \A n \in 1..Len(segs) : segs[n].refs = RefsOf(n, inside, who)

Counted == Counts(segments, InWindow, held)

Serving ==
    \A h \in Handlers : /\ req[h] = "serving" <=> held[h] # None
                        /\ held[h] \in 0..seqCount

Locking ==
    /\ mu = "run" <=> run = "rebuild"
    /\ mu = "watchdog" <=> watchdog = "rebuild"
    /\ run = "closing" => current # None
    /\ run \in {"rebuild", "next"} => current = None

(* The owner of a buffer is the pool, the segment being filled or the one  *)
(* segment with references whose bytes it holds.                           *)
Owns(segs, free, filling, bytes) ==
    /\ filling \notin free
    /\ \A n \in 1..Len(segs) :
          segs[n].refs > 0 /\ segs[n].buf # None =>
              segs[n].buf \notin free /\ segs[n].buf # filling /\ bytes[segs[n].buf] = n
    /\ \A b \in Buffers :
          b \in free \/ b = filling \/ \E n \in 1..Len(segs) : segs[n].refs > 0 /\ segs[n].buf = b

Owned == Owns(segments, pool, current, content)

Ended == (\E s \in Stoppers : stopper[s] = "returned") => run = "exited" /\ window = << >>

(* What follows a repeated segment is marked, and the next one will be.    *)
Marked ==
    /\ JumpIsMarked
    /\ window # << >> /\ segments[seqCount].dup => needsDiscontinuity

Carrying(m, segs) == {n \in 1..Len(segs) : m \in segs[n].meta}

CarriedOnce(segs, waiting, seen) ==
    /\ waiting \subseteq 1..seen
    /\ \A n \in 1..Len(segs) : segs[n].meta \subseteq 1..seen
    /\ \A m \in 1..seen :
          \/ m \in waiting /\ Carrying(m, segs) = {}
          \/ m \notin waiting /\ \E n \in 1..Len(segs) : Carrying(m, segs) = {n}

Carried == CarriedOnce(segments, currentMeta, metaSeen)

HlsInv ==
    /\ TypeOK /\ Numbered /\ Counted /\ Serving /\ Locking /\ Owned /\ Ended /\ Marked /\ Carried

-----------------------------------------------------------------------------
(* References                                                              *)

LEMMA HoldersFinite ==
    ASSUME NEW n, NEW who
    PROVE  IsFiniteSet(Holders(n, who)) /\ Cardinality(Holders(n, who)) \in Nat
<1>1. Holders(n, who) \subseteq Handlers
  BY DEF Holders
<1> QED BY <1>1, FiniteHandlers, FS_Subset, FS_CardinalityType

(* A segment has as many references as before when its holders are the     *)
(* same, one more when a request joins them, one less when one leaves.     *)
LEMMA HolderJoins ==
    ASSUME NEW who, NEW n, NEW h \in Handlers, who \in [Handlers -> Nat], n \in Nat, who[h] # n
    PROVE  /\ Cardinality(Holders(n, [who EXCEPT ![h] = n])) = Cardinality(Holders(n, who)) + 1
           /\ \A m : m # n /\ m # who[h] => Holders(m, [who EXCEPT ![h] = n]) = Holders(m, who)
<1>1. Holders(n, [who EXCEPT ![h] = n]) = Holders(n, who) \cup {h}
  BY DEF Holders
<1>2. h \notin Holders(n, who)
  BY DEF Holders
<1>3. \A m : m # n /\ m # who[h] => Holders(m, [who EXCEPT ![h] = n]) = Holders(m, who)
  BY DEF Holders
<1> QED BY <1>1, <1>2, <1>3, HoldersFinite, FS_AddElement

LEMMA HolderLeaves ==
    ASSUME NEW who, NEW h \in Handlers, NEW m \in Nat, who \in [Handlers -> Nat], who[h] # m
    PROVE  /\ Cardinality(Holders(who[h], [who EXCEPT ![h] = m])) = Cardinality(Holders(who[h], who)) - 1
           /\ Cardinality(Holders(who[h], who)) >= 1
<1>1. Holders(who[h], [who EXCEPT ![h] = m]) = Holders(who[h], who) \ {h}
  BY DEF Holders
<1>2. h \in Holders(who[h], who)
  BY DEF Holders
<1>3. Cardinality(Holders(who[h], [who EXCEPT ![h] = m])) = Cardinality(Holders(who[h], who)) - 1
  BY <1>1, <1>2, HoldersFinite, FS_RemoveElement
<1>4. Cardinality(Holders(who[h], [who EXCEPT ![h] = m])) \in Nat /\ Cardinality(Holders(who[h], who)) \in Nat
  BY HoldersFinite
<1> QED BY <1>3, <1>4, SMTT(20)

LEMMA OneHolder ==
    ASSUME NEW who, NEW n, NEW h \in Handlers, who[h] = n
    PROVE  Cardinality(Holders(n, who)) >= 1
<1>1. h \in Holders(n, who)
  BY DEF Holders
<1>2. Cardinality(Holders(n, who)) # 0
  BY <1>1, HoldersFinite, FS_EmptySet
<1> QED BY <1>2, HoldersFinite, SMTT(20)

-----------------------------------------------------------------------------
(* Buffers                                                                 *)

(* The buffers of the segments that lose their last reference.             *)
Freed(segs, new) ==
    {segs[n].buf : n \in {k \in 1..Len(segs) :
                             segs[k].refs > 0 /\ ~(new[k].refs > 0) /\ segs[k].buf # None}}

(* Nothing but references changes.                                         *)
Alike(segs, new) ==
    /\ new \in Seq(Segment) /\ Len(new) = Len(segs)
    /\ \A n \in 1..Len(segs) :
          /\ new[n].buf = segs[n].buf /\ new[n].disc = segs[n].disc /\ new[n].dup = segs[n].dup
          /\ new[n].codec = segs[n].codec /\ new[n].meta = segs[n].meta

(* Segments keep their buffers, and the ones that lose their last          *)
(* reference give them to the pool.                                        *)
LEMMA Recounted ==
    ASSUME NEW segs, NEW new, NEW free, NEW filling, NEW bytes,
           segs \in Seq(Segment), Alike(segs, new), Owns(segs, free, filling, bytes),
           \A n \in 1..Len(segs) : new[n].refs > 0 => segs[n].refs > 0
    PROVE  Owns(new, free \cup Freed(segs, new), filling, bytes)
<1>1. PICK last : last = {k \in 1..Len(segs) :
                     segs[k].refs > 0 /\ ~(new[k].refs > 0) /\ segs[k].buf # None}
  OBVIOUS
<1>2. PICK freed : freed = {segs[n].buf : n \in last}
  OBVIOUS
<1>a. freed = Freed(segs, new)
  BY <1>1, <1>2 DEF Freed
<1>b. Len(new) = Len(segs) /\ \A n \in 1..Len(segs) : new[n].buf = segs[n].buf
  BY DEF Alike
<1>3. \A b : b \in freed => \E k \in 1..Len(segs) : k \in last /\ b = segs[k].buf
  BY <1>1, <1>2
<1>4. filling \notin free \cup freed
  BY <1>1, <1>3, SMTT(20) DEF Owns
<1>5. ASSUME NEW n \in 1..Len(new), new[n].refs > 0, new[n].buf # None
      PROVE  new[n].buf \notin free \cup freed /\ new[n].buf # filling /\ bytes[new[n].buf] = n
  <2>1. segs[n].refs > 0 /\ segs[n].buf = new[n].buf /\ n \in 1..Len(segs)
    BY <1>5, <1>b
  <2>2. new[n].buf \notin free /\ new[n].buf # filling /\ bytes[new[n].buf] = n
    BY <2>1, <1>5 DEF Owns
  <2>3. ASSUME new[n].buf \in freed PROVE FALSE
    <3>1. PICK k \in 1..Len(segs) : k \in last /\ new[n].buf = segs[k].buf
      BY <2>3, <1>3
    <3>2. bytes[segs[k].buf] = k
      BY <3>1, <1>1 DEF Owns
    <3>3. k = n
      BY <3>1, <3>2, <2>2
    <3> QED BY <3>1, <3>3, <1>1, <1>5
  <2> QED BY <2>2, <2>3
<1>6. ASSUME NEW b \in Buffers
      PROVE  \/ b \in free \cup freed \/ b = filling
             \/ \E n \in 1..Len(new) : new[n].refs > 0 /\ new[n].buf = b
  <2>1. CASE \E n \in 1..Len(segs) : segs[n].refs > 0 /\ segs[n].buf = b
    <3>1. PICK n \in 1..Len(segs) : segs[n].refs > 0 /\ segs[n].buf = b
      BY <2>1
    <3>2. CASE new[n].refs > 0
      BY <3>1, <3>2, <1>b
    <3>3. CASE ~(new[n].refs > 0)
      BY <3>1, <3>3, <1>1, <1>2, NoneIsNoBuffer
    <3> QED BY <3>2, <3>3
  <2> QED BY <2>1 DEF Owns
<1>7. Owns(new, free \cup freed, filling, bytes)
  BY <1>4, <1>5, <1>6 DEF Owns
<1> QED BY <1>7, <1>a

(* A finished segment takes over the buffer that was being filled.         *)
LEMMA Finished ==
    ASSUME NEW segs, NEW free, NEW filling, NEW bytes, NEW seg,
           segs \in Seq(Segment), seg \in Segment, free \subseteq Buffers, filling \in Buffers,
           bytes \in [Buffers -> Nat], seg.buf = filling, seg.refs = 1,
           Owns(segs, free, filling, bytes)
    PROVE  Owns(Append(segs, seg), free, None, [bytes EXCEPT ![filling] = Len(segs) + 1])
<1>1. PICK grown : grown = Append(segs, seg)
  OBVIOUS
<1>2. PICK after : after = [bytes EXCEPT ![filling] = Len(segs) + 1]
  OBVIOUS
<1>3. Len(segs) \in Nat /\ Len(grown) = Len(segs) + 1 /\ grown[Len(segs) + 1] = seg
  BY <1>1, SMTT(20)
<1>4. \A n \in 1..Len(segs) : n \in 1..Len(grown) /\ grown[n] = segs[n]
  BY <1>1, <1>3, SMTT(20)
<1>5. \A n \in 1..Len(grown) : n = Len(segs) + 1 \/ n \in 1..Len(segs)
  BY <1>3, SMTT(20)
<1>6. None \notin free
  BY NoneIsNoBuffer
<1>7. ASSUME NEW n \in 1..Len(grown), grown[n].refs > 0, grown[n].buf # None
      PROVE  grown[n].buf \notin free /\ grown[n].buf # None /\ after[grown[n].buf] = n
  <2>1. CASE n = Len(segs) + 1
    <3>1. grown[n] = seg
      BY <2>1, <1>3
    <3>2. after[filling] = n
      BY <2>1, <1>2
    <3>3. filling \notin free /\ filling # None
      BY NoneIsNoBuffer DEF Owns
    <3> QED BY <3>1, <3>2, <3>3
  <2>2. CASE n \in 1..Len(segs)
    <3>1. grown[n] = segs[n]
      BY <2>2, <1>4
    <3>2. segs[n] \in Segment
      BY <2>2, SMTT(20)
    <3>3. segs[n].buf \in Buffers
      BY <3>1, <3>2, <1>7 DEF Segment
    <3>4. segs[n].buf \notin free /\ segs[n].buf # filling /\ bytes[segs[n].buf] = n
      BY <3>1, <2>2, <1>7 DEF Owns
    <3> QED BY <3>1, <3>3, <3>4, <1>2, <1>7
  <2> QED BY <2>1, <2>2, <1>5
<1>8. ASSUME NEW b \in Buffers
      PROVE  \/ b \in free \/ b = None
             \/ \E n \in 1..Len(grown) : grown[n].refs > 0 /\ grown[n].buf = b
  <2>1. CASE b = filling
    BY <2>1, <1>3, SMTT(20)
  <2>2. CASE \E n \in 1..Len(segs) : segs[n].refs > 0 /\ segs[n].buf = b
    BY <2>2, <1>4
  <2> QED BY <2>1, <2>2 DEF Owns
<1>9. Owns(grown, free, None, after)
  BY <1>6, <1>7, <1>8 DEF Owns
<1> QED BY <1>1, <1>2, <1>9

(* A repeated segment has no buffer.                                       *)
LEMMA Repeated ==
    ASSUME NEW segs, NEW free, NEW filling, NEW bytes, NEW seg,
           segs \in Seq(Segment), seg \in Segment, seg.buf = None,
           Owns(segs, free, filling, bytes)
    PROVE  Owns(Append(segs, seg), free, filling, bytes)
<1>1. PICK grown : grown = Append(segs, seg)
  OBVIOUS
<1>2. Len(segs) \in Nat /\ Len(grown) = Len(segs) + 1 /\ grown[Len(segs) + 1] = seg
  BY <1>1, SMTT(20)
<1>3. \A n \in 1..Len(segs) : n \in 1..Len(grown) /\ grown[n] = segs[n]
  BY <1>1, <1>2, SMTT(20)
<1>4. \A n \in 1..Len(grown) : grown[n].buf # None => n \in 1..Len(segs)
  BY <1>2, SMTT(20)
<1>5. Owns(grown, free, filling, bytes)
  BY <1>3, <1>4 DEF Owns
<1> QED BY <1>1, <1>5

(* A buffer leaves the pool to be filled.                                  *)
LEMMA Taken ==
    ASSUME NEW segs, NEW free, NEW bytes, NEW b,
           segs \in Seq(Segment), free \subseteq Buffers, b \in free, bytes \in [Buffers -> Nat],
           Owns(segs, free, None, bytes)
    PROVE  Owns(segs, free \ {b}, b, [bytes EXCEPT ![b] = None])
<1>1. PICK after : after = [bytes EXCEPT ![b] = None]
  OBVIOUS
<1>2. ASSUME NEW n \in 1..Len(segs), segs[n].refs > 0, segs[n].buf # None
      PROVE  segs[n].buf \notin free /\ segs[n].buf # b /\ after[segs[n].buf] = n
  <2>1. segs[n].buf \notin free /\ bytes[segs[n].buf] = n
    BY <1>2 DEF Owns
  <2>2. segs[n] \in Segment
    BY SMTT(20)
  <2>3. segs[n].buf \in Buffers
    BY <2>2, <1>2 DEF Segment
  <2> QED BY <2>1, <2>3, <1>1
<1>3. ASSUME NEW c \in Buffers
      PROVE  \/ c \in free \ {b} \/ c = b
             \/ \E n \in 1..Len(segs) : segs[n].refs > 0 /\ segs[n].buf = c
  BY NoneIsNoBuffer DEF Owns
<1>4. Owns(segs, free \ {b}, b, after)
  BY <1>2, <1>3 DEF Owns
<1> QED BY <1>1, <1>4

-----------------------------------------------------------------------------
(* Metadata                                                                *)

(* The metadata that waited goes into the new segment.                     *)
LEMMA WaitingCarried ==
    ASSUME NEW segs, NEW waiting, NEW seen, NEW seg,
           segs \in Seq(Segment), seg \in Segment, seg.meta = waiting,
           CarriedOnce(segs, waiting, seen)
    PROVE  CarriedOnce(Append(segs, seg), {}, seen)
<1>1. PICK grown : grown = Append(segs, seg)
  OBVIOUS
<1>2. Len(segs) \in Nat /\ Len(grown) = Len(segs) + 1 /\ grown[Len(segs) + 1] = seg
  BY <1>1, SMTT(20)
<1>3. \A n \in 1..Len(segs) : n \in 1..Len(grown) /\ grown[n] = segs[n]
  BY <1>1, <1>2, SMTT(20)
<1>4. \A n \in 1..Len(grown) : n = Len(segs) + 1 \/ n \in 1..Len(segs)
  BY <1>2, SMTT(20)
<1>5. \A n \in 1..Len(grown) : grown[n].meta \subseteq 1..seen
  BY <1>2, <1>3, <1>4 DEF CarriedOnce
<1>6. ASSUME NEW m \in 1..seen
      PROVE  \E n \in 1..Len(grown) : Carrying(m, grown) = {n}
  <2>1. CASE m \in waiting /\ Carrying(m, segs) = {}
    <3>1. Carrying(m, grown) = {Len(segs) + 1}
      BY <2>1, <1>2, <1>3, <1>4, SMTT(20) DEF Carrying
    <3> QED BY <3>1, <1>2, SMTT(20)
  <2>2. CASE m \notin waiting /\ \E n \in 1..Len(segs) : Carrying(m, segs) = {n}
    <3>1. PICK n \in 1..Len(segs) : Carrying(m, segs) = {n}
      BY <2>2
    <3>2. Carrying(m, grown) = {n}
      BY <3>1, <2>2, <1>2, <1>3, <1>4 DEF Carrying
    <3> QED BY <3>2, <1>3
  <2> QED BY <2>1, <2>2 DEF CarriedOnce
<1>7. CarriedOnce(grown, {}, seen)
  BY <1>5, <1>6 DEF CarriedOnce
<1> QED BY <1>1, <1>7

(* A segment without metadata changes nothing.                             *)
LEMMA NothingCarried ==
    ASSUME NEW segs, NEW waiting, NEW seen, NEW seg,
           segs \in Seq(Segment), seg \in Segment, seg.meta = {},
           CarriedOnce(segs, waiting, seen)
    PROVE  CarriedOnce(Append(segs, seg), waiting, seen)
<1>1. PICK grown : grown = Append(segs, seg)
  OBVIOUS
<1>2. Len(segs) \in Nat /\ Len(grown) = Len(segs) + 1 /\ grown[Len(segs) + 1] = seg
  BY <1>1, SMTT(20)
<1>3. \A n \in 1..Len(segs) : n \in 1..Len(grown) /\ grown[n] = segs[n]
  BY <1>1, <1>2, SMTT(20)
<1>4. \A n \in 1..Len(grown) : n = Len(segs) + 1 \/ n \in 1..Len(segs)
  BY <1>2, SMTT(20)
<1>5. \A n \in 1..Len(grown) : grown[n].meta \subseteq 1..seen
  BY <1>2, <1>3, <1>4 DEF CarriedOnce
<1>6. \A m : Carrying(m, grown) = Carrying(m, segs)
  BY <1>2, <1>3, <1>4 DEF Carrying
<1>7. CarriedOnce(grown, waiting, seen)
  BY <1>3, <1>5, <1>6 DEF CarriedOnce
<1> QED BY <1>1, <1>7

(* The references do not matter for the metadata.                          *)
LEMMA CarriedAlike ==
    ASSUME NEW segs, NEW new, NEW waiting, NEW seen,
           Alike(segs, new), CarriedOnce(segs, waiting, seen)
    PROVE  CarriedOnce(new, waiting, seen)
<1>1. \A m : Carrying(m, new) = Carrying(m, segs)
  BY DEF Carrying, Alike
<1> QED BY <1>1 DEF CarriedOnce, Alike

-----------------------------------------------------------------------------
(* Releasing and publishing a segment                                      *)

LEMMA OtherRefs ==
    ASSUME NEW s \in Segment, NEW k \in Nat
    PROVE  /\ [s EXCEPT !.refs = k] \in Segment /\ [s EXCEPT !.refs = k].refs = k
           /\ [s EXCEPT !.refs = k].buf = s.buf /\ [s EXCEPT !.refs = k].disc = s.disc
           /\ [s EXCEPT !.refs = k].dup = s.dup /\ [s EXCEPT !.refs = k].codec = s.codec
           /\ [s EXCEPT !.refs = k].meta = s.meta
BY DEF Segment

(* Segment n has one reference less; the last one frees the buffer.        *)
Dropped(n, segs, free, new, after) ==
    /\ Alike(segs, new)
    /\ \A m \in 1..Len(segs) : new[m].refs = IF m = n THEN segs[m].refs - 1 ELSE segs[m].refs
    /\ after = free \cup Freed(segs, new)

LEMMA OneReleased ==
    ASSUME NEW segs, NEW free, NEW n, segs \in Seq(Segment), n \in 1..Len(segs), segs[n].refs >= 1
    PROVE  Dropped(n, segs, free, Released(n, segs, free).segs, Released(n, segs, free).free)
<1>1. PICK new : new = [segs EXCEPT ![n].refs = @ - 1]
  OBVIOUS
<1>2. PICK f : f = IF segs[n].refs = 1 /\ segs[n].buf # None THEN free \cup {segs[n].buf} ELSE free
  OBVIOUS
<1>3. Released(n, segs, free).segs = new /\ Released(n, segs, free).free = f
  BY <1>1, <1>2 DEF Released
<1>4. segs[n] \in Segment /\ \A m \in 1..Len(segs) : segs[m] \in Segment
  BY SMTT(20)
<1>5. PICK seg : seg = [segs[n] EXCEPT !.refs = @ - 1]
  OBVIOUS
<1>a. PICK k : k = segs[n].refs - 1
  OBVIOUS
<1>b. segs[n].refs \in Nat
  BY <1>4 DEF Segment
<1>c. k \in Nat
  BY <1>a, <1>b, SMTT(20)
<1>d. seg = [segs[n] EXCEPT !.refs = k]
  BY <1>5, <1>a
<1>6. /\ seg \in Segment /\ seg.refs = segs[n].refs - 1 /\ seg.buf = segs[n].buf
      /\ seg.disc = segs[n].disc /\ seg.dup = segs[n].dup /\ seg.codec = segs[n].codec
      /\ seg.meta = segs[n].meta
  BY <1>4, <1>c, <1>d, <1>a, OtherRefs, SMTT(20)
<1>7. new = [segs EXCEPT ![n] = seg]
  BY <1>1, <1>5
<1>8. new \in Seq(Segment) /\ Len(new) = Len(segs)
  BY <1>6, <1>7, SMTT(20)
<1>9. new[n] = seg /\ \A m \in 1..Len(segs) : m # n => new[m] = segs[m]
  BY <1>7, SMTT(20)
<1>10. Alike(segs, new)
  BY <1>6, <1>8, <1>9 DEF Alike
<1>11. \A m \in 1..Len(segs) : new[m].refs = IF m = n THEN segs[m].refs - 1 ELSE segs[m].refs
  BY <1>6, <1>9
<1>12. segs[n].refs \in Nat
  BY <1>4 DEF Segment
<1>13. \A m \in 1..Len(segs) : segs[m].refs > 0 /\ ~(new[m].refs > 0) <=> m = n /\ segs[n].refs = 1
  <2> TAKE m \in 1..Len(segs)
  <2>1. segs[m].refs \in Nat
    BY <1>4 DEF Segment
  <2>2. CASE m = n
    BY <2>1, <2>2, <1>11, SMTT(20)
  <2>3. CASE m # n
    BY <2>1, <2>3, <1>11
  <2> QED BY <2>2, <2>3
<1>14. f = free \cup Freed(segs, new)
  <2>1. CASE segs[n].refs = 1 /\ segs[n].buf # None
    <3>1. Freed(segs, new) = {segs[n].buf}
      BY <2>1, <1>13 DEF Freed
    <3> QED BY <3>1, <2>1, <1>2
  <2>2. CASE ~(segs[n].refs = 1 /\ segs[n].buf # None)
    <3>1. Freed(segs, new) = {}
      BY <2>2, <1>13 DEF Freed
    <3> QED BY <3>1, <2>2, <1>2
  <2> QED BY <2>1, <2>2
<1> QED BY <1>3, <1>10, <1>11, <1>14 DEF Dropped

(* The numbers in the window are the last ones.                            *)
LastOnes(win, count) ==
    /\ win \in Seq(Nat) /\ Len(win) <= count
    /\ \A i \in 1..Len(win) : win[i] = count - Len(win) + i

Inside(win) == {win[i] : i \in DOMAIN win}

LEMMA WindowInterval ==
    ASSUME NEW win, NEW count, count \in Nat, LastOnes(win, count)
    PROVE  Inside(win) = (count - Len(win) + 1)..count
<1> USE DEF LastOnes, Inside
<1>1. Len(win) \in Nat /\ DOMAIN win = 1..Len(win)
  BY SMTT(20)
<1>2. ASSUME NEW n \in (count - Len(win) + 1)..count PROVE n \in {win[i] : i \in DOMAIN win}
  <2>1. PICK i : i = n - (count - Len(win))
    OBVIOUS
  <2>2. i \in 1..Len(win)
    BY <2>1, <1>1, SMTT(20)
  <2>3. win[i] = n
    BY <2>1, <2>2, <1>1, SMTT(20)
  <2> QED BY <2>2, <2>3, <1>1
<1>3. ASSUME NEW i \in DOMAIN win PROVE win[i] \in (count - Len(win) + 1)..count
  BY <1>1, SMTT(20)
<1> QED BY <1>2, <1>3

LEMMA InWindowInterval ==
    ASSUME TypeOK, Numbered
    PROVE  InWindow = (seqCount - Len(window) + 1)..seqCount
<1>1. LastOnes(window, seqCount) /\ seqCount \in Nat
  BY DEF TypeOK, Numbered, LastOnes
<1>2. InWindow = Inside(window)
  BY DEF InWindow, Inside
<1> QED BY <1>1, <1>2, WindowInterval

(* The muxer's segments and window after seg was published.                *)
Published(seg) ==
    /\ seqCount' = seqCount + 1
    /\ window' \in Seq(Nat) /\ window' # << >>
    /\ Len(window') <= seqCount' /\ Len(window') <= MaxSegments /\ Len(window') <= Len(window) + 1
    /\ \A i \in 1..Len(window') : window'[i] = seqCount' - Len(window') + i
    /\ Alike(Append(segments, seg), segments')
    /\ Counts(segments', InWindow', held)
    /\ \A n \in 1..seqCount + 1 : segments'[n].refs > 0 => Append(segments, seg)[n].refs > 0
    /\ pool' = pool \cup Freed(Append(segments, seg), segments')

LEMMA Publishing ==
    ASSUME TypeOK, Numbered, Counted, Serving, NEW seg \in Segment, seg.refs = 1, Push(seg)
    PROVE  Published(seg)
<1> USE DEF TypeOK
<1>1. PICK grown : grown = Append(segments, seg)
  OBVIOUS
<1>2. PICK win : win = Append(window, seqCount + 1)
  OBVIOUS
<1>3. /\ seqCount \in Nat /\ Len(segments) = seqCount /\ Len(window) \in Nat
      /\ Len(window) <= seqCount /\ Len(window) <= MaxSegments
      /\ \A i \in 1..Len(window) : window[i] = seqCount - Len(window) + i
  BY SMTT(20) DEF Numbered
<1>4. MaxSegments \in Nat /\ MaxSegments >= 3
  BY WindowAssumption
<1>5. /\ grown \in Seq(Segment) /\ Len(grown) = seqCount + 1 /\ grown[seqCount + 1] = seg
      /\ \A n \in 1..seqCount : grown[n] = segments[n]
  BY <1>1, <1>3, SMTT(20)
<1>6. /\ win \in Seq(Nat) /\ Len(win) = Len(window) + 1 /\ win[Len(window) + 1] = seqCount + 1
      /\ \A i \in 1..Len(window) : win[i] = window[i]
  BY <1>2, <1>3, SMTT(20)
<1>7. \A i \in 1..Len(win) : win[i] = seqCount + 1 - Len(win) + i
  <2> TAKE i \in 1..Len(win)
  <2>1. CASE i = Len(window) + 1
    BY <2>1, <1>3, <1>6, SMTT(20)
  <2>2. CASE i \in 1..Len(window)
    BY <2>2, <1>3, <1>6, SMTT(20)
  <2> QED BY <2>1, <2>2, <1>3, <1>6, SMTT(20)
<1>8. InWindow = (seqCount - Len(window) + 1)..seqCount
  BY InWindowInterval
<1>9. Counts(grown, (seqCount - Len(window) + 1)..(seqCount + 1), held)
  <2>1. ASSUME NEW n \in 1..Len(grown)
        PROVE  grown[n].refs = RefsOf(n, (seqCount - Len(window) + 1)..(seqCount + 1), held)
    <3>1. CASE n = seqCount + 1
      <4>1. Holders(n, held) = {}
        BY <3>1, <1>3, SMTT(20) DEF Holders, Serving
      <4>2. n \in (seqCount - Len(window) + 1)..(seqCount + 1)
        BY <3>1, <1>3, SMTT(20)
      <4>3. Cardinality(Holders(n, held)) = 0
        BY <4>1, FS_EmptySet
      <4> QED BY <4>2, <4>3, <3>1, <1>5, SMTT(20) DEF RefsOf
    <3>2. CASE n \in 1..seqCount
      <4>1. n \in InWindow <=> n \in (seqCount - Len(window) + 1)..(seqCount + 1)
        BY <3>2, <1>3, <1>8, SMTT(20)
      <4>2. segments[n].refs = RefsOf(n, InWindow, held)
        BY <3>2, <1>3 DEF Counted, Counts
      <4> QED BY <4>1, <4>2, <3>2, <1>5 DEF RefsOf
    <3> QED BY <3>1, <3>2, <1>3, <1>5, SMTT(20)
  <2> QED BY <2>1 DEF Counts
<1>10. seqCount' = seqCount + 1
  BY DEF Push
<1>11. CASE Len(win) > MaxSegments
  <2>1. Len(window) = MaxSegments
    BY <1>11, <1>3, <1>4, <1>6, SMTT(20)
  <2>2. PICK old : old = seqCount - Len(window) + 1
    OBVIOUS
  <2>3. win[1] = old /\ old \in 1..seqCount
    BY <2>1, <2>2, <1>3, <1>4, <1>6, SMTT(20)
  <2>4. /\ window' = Tail(win)
        /\ segments' = Released(old, grown, pool).segs /\ pool' = Released(old, grown, pool).free
    BY <1>11, <1>1, <1>2, <2>3 DEF Push
  <2>5. old \in 1..Len(grown)
    BY <2>3, <1>3, <1>5, SMTT(20)
  <2>6. old \in (seqCount - Len(window) + 1)..(seqCount + 1)
    BY <2>2, <2>3, <1>3, SMTT(20)
  <2>7. Cardinality(Holders(old, held)) \in Nat
    BY HoldersFinite
  <2>8. grown[old].refs = 1 + Cardinality(Holders(old, held))
    BY <1>9, <2>5, <2>6 DEF Counts, RefsOf
  <2>9. grown[old].refs >= 1
    BY <2>7, <2>8, SMTT(20)
  <2>10. /\ Alike(grown, segments')
         /\ \A m \in 1..Len(grown) :
               segments'[m].refs = IF m = old THEN grown[m].refs - 1 ELSE grown[m].refs
         /\ pool' = pool \cup Freed(grown, segments')
    <3>1. Dropped(old, grown, pool, segments', pool')
      BY <2>4, <2>5, <2>9, <1>5, OneReleased
    <3> QED BY <3>1 DEF Dropped
  <2>11. window' \in Seq(Nat) /\ Len(window') = MaxSegments /\ \A i \in 1..MaxSegments : window'[i] = win[i + 1]
    BY <2>1, <2>4, <1>4, <1>6, SMTT(20)
  <2>12. \A i \in 1..Len(window') : window'[i] = seqCount' - Len(window') + i
    <3> TAKE i \in 1..Len(window')
    <3>1. i \in 1..MaxSegments /\ i + 1 \in 1..Len(win)
      BY <2>11, <2>1, <1>6, <1>4, SMTT(20)
    <3>2. window'[i] = seqCount + 1 - Len(win) + (i + 1)
      BY <3>1, <2>11, <1>7
    <3>3. Len(win) = MaxSegments + 1 /\ Len(window') = MaxSegments
      BY <2>1, <2>11, <1>6
    <3>4. i \in Nat
      BY <3>1, SMTT(20)
    <3> QED BY <3>2, <3>3, <3>4, <1>3, <1>4, <1>10, SMTT(20)
  <2>13. window' # << >> /\ Len(window') <= seqCount'
    BY <2>11, <2>1, <1>3, <1>4, <1>10, SMTT(20)
  <2>14. InWindow' = (old + 1)..(seqCount + 1)
    <3>a. LastOnes(window', seqCount') /\ seqCount' \in Nat
      BY <2>11, <2>12, <2>13, <1>3, <1>10, SMTT(20) DEF LastOnes
    <3>b. InWindow' = Inside(window')
      BY DEF InWindow, Inside
    <3>1. InWindow' = (seqCount' - Len(window') + 1)..seqCount'
      BY <3>a, <3>b, WindowInterval
    <3>2. seqCount' - Len(window') + 1 = old + 1
      BY <2>1, <2>2, <2>11, <1>3, <1>4, <1>10, SMTT(20)
    <3> QED BY <3>1, <3>2, <1>10
  <2>15. ASSUME NEW n \in 1..Len(grown) PROVE segments'[n].refs = RefsOf(n, InWindow', held)
    <3>1. grown[n].refs = RefsOf(n, old..(seqCount + 1), held)
      BY <1>9, <2>2 DEF Counts
    <3>2. CASE n = old
      <4>1. n \notin InWindow'
        BY <3>2, <2>3, <2>14, <1>3, SMTT(20)
      <4>2. segments'[n].refs = Cardinality(Holders(n, held))
        BY <3>2, <2>7, <2>8, <2>10, SMTT(20)
      <4>3. RefsOf(n, InWindow', held) = Cardinality(Holders(n, held))
        BY <4>1, <3>2, <2>7, SMTT(20) DEF RefsOf
      <4> QED BY <4>2, <4>3
    <3>3. CASE n # old
      <4>1. n \in InWindow' <=> n \in old..(seqCount + 1)
        BY <3>3, <2>3, <2>14, <1>3, SMTT(20)
      <4> QED BY <4>1, <3>1, <3>3, <2>10 DEF RefsOf
    <3> QED BY <3>2, <3>3
  <2>16. Counts(segments', InWindow', held)
    BY <2>10, <2>15 DEF Counts, Alike
  <2>17. ASSUME NEW n \in 1..seqCount + 1, segments'[n].refs > 0 PROVE grown[n].refs > 0
    <3>1. n \in 1..Len(grown)
      BY <1>5
    <3>2. CASE n = old
      BY <3>2, <2>9, <2>8, <2>7, SMTT(20)
    <3>3. CASE n # old
      BY <3>1, <3>3, <2>10, <2>17
    <3> QED BY <3>2, <3>3
  <2>18. Len(window') <= MaxSegments /\ Len(window') <= Len(window) + 1
    BY <2>1, <2>11, <1>4, SMTT(20)
  <2> QED BY <1>1, <1>10, <2>10, <2>11, <2>12, <2>13, <2>16, <2>17, <2>18 DEF Published
<1>12. CASE ~(Len(win) > MaxSegments)
  <2>1. window' = win /\ segments' = grown /\ pool' = pool
    BY <1>12, <1>1, <1>2 DEF Push
  <2>2. Alike(grown, segments')
    BY <2>1, <1>5 DEF Alike
  <2>3. Freed(grown, segments') = {}
    BY <2>1 DEF Freed
  <2>4. /\ window' \in Seq(Nat) /\ window' # << >> /\ Len(window') <= seqCount' /\ Len(window') <= MaxSegments
        /\ \A i \in 1..Len(window') : window'[i] = seqCount' - Len(window') + i
    BY <2>1, <1>12, <1>3, <1>4, <1>6, <1>7, <1>10, SMTT(20)
  <2>5. InWindow' = (seqCount - Len(window) + 1)..(seqCount + 1)
    <3>a. LastOnes(window', seqCount') /\ seqCount' \in Nat
      BY <2>4, <1>3, <1>10, SMTT(20) DEF LastOnes
    <3>b. InWindow' = Inside(window')
      BY DEF InWindow, Inside
    <3>1. InWindow' = (seqCount' - Len(window') + 1)..seqCount'
      BY <3>a, <3>b, WindowInterval
    <3>2. seqCount' - Len(window') + 1 = seqCount - Len(window) + 1
      BY <2>1, <1>3, <1>6, <1>10, SMTT(20)
    <3> QED BY <3>1, <3>2, <1>10
  <2>6. Counts(segments', InWindow', held)
    BY <2>1, <2>5, <1>9
  <2>7. Len(window') <= Len(window) + 1
    BY <2>1, <1>3, <1>6, SMTT(20)
  <2> QED BY <1>1, <1>10, <2>1, <2>2, <2>3, <2>4, <2>6, <2>7 DEF Published
<1> QED BY <1>11, <1>12

-----------------------------------------------------------------------------
(* Steps that leave the window and the buffers alone                       *)

aside == <<segments, window, segIndex, seqCount, playlist, pool, content, current, held,
           currentMeta, metaSeen, mu>>

LEMMA Aside ==
    ASSUME HlsInv, UNCHANGED aside, needsDiscontinuity => needsDiscontinuity',
           TypeOK', Serving', Locking', Ended'
    PROVE  HlsInv'
<1>1. Numbered'
  BY DEF HlsInv, aside, Numbered, InWindow, PlaylistNumbered
<1>2. Counted'
  BY DEF HlsInv, aside, Counted, InWindow
<1>3. Owned'
  BY DEF HlsInv, aside, Owned
<1>4. Marked'
  BY DEF HlsInv, aside, Marked, JumpIsMarked
<1>5. Carried'
  BY DEF HlsInv, aside, Carried
<1> QED BY <1>1, <1>2, <1>3, <1>4, <1>5 DEF HlsInv

LEMMA EnvironmentSteps ==
    ASSUME HlsInv, SetParams \/ CloseRing \/ TimePasses \/ WatchdogCheck \/ RunExit
    PROVE  HlsInv'
<1> USE DEF loopVars, winVars, bufVars, envVars, ctlVars, reqVars
<1>1. UNCHANGED aside /\ UNCHANGED <<needsDiscontinuity, req, held, stopper>>
  BY DEF aside, SetParams, CloseRing, TimePasses, WatchdogCheck, RunExit
<1>2. TypeOK'
  <2>1. CASE SetParams
    BY <2>1, SMTT(20) DEF HlsInv, TypeOK, SetParams
  <2>2. CASE CloseRing
    BY <2>2, SMTT(20) DEF HlsInv, TypeOK, CloseRing
  <2>3. CASE TimePasses
    BY <2>3, SMTT(20) DEF HlsInv, TypeOK, TimePasses
  <2>4. CASE WatchdogCheck
    BY <2>4, SMTT(20) DEF HlsInv, TypeOK, WatchdogCheck
  <2>5. CASE RunExit
    BY <2>5, SMTT(20) DEF HlsInv, TypeOK, RunExit
  <2> QED BY <2>1, <2>2, <2>3, <2>4, <2>5
<1>3. Serving'
  BY <1>1 DEF HlsInv, Serving, aside
<1>4. Locking'
  BY DEF HlsInv, Locking, SetParams, CloseRing, TimePasses, WatchdogCheck, RunExit
<1>5. Ended'
  BY DEF HlsInv, Ended, SetParams, CloseRing, TimePasses, WatchdogCheck, RunExit
<1> QED BY <1>1, <1>2, <1>3, <1>4, <1>5, Aside

LEMMA StopCancelStep ==
    ASSUME HlsInv, NEW s \in Stoppers, StopCancel(s)
    PROVE  HlsInv'
<1> USE DEF loopVars, winVars, bufVars, envVars, reqVars
<1>1. UNCHANGED aside /\ UNCHANGED needsDiscontinuity
  BY DEF aside, StopCancel
<1>2. TypeOK'
  BY SMTT(20) DEF HlsInv, TypeOK, StopCancel
<1>3. Serving'
  BY DEF HlsInv, Serving, StopCancel
<1>4. Locking'
  BY DEF HlsInv, Locking, StopCancel
<1>5. Ended'
  BY DEF HlsInv, TypeOK, Ended, StopCancel
<1> QED BY <1>1, <1>2, <1>3, <1>4, <1>5, Aside

(* A request that asks for a playlist; it serves no segment.               *)
LEMMA AskingSteps ==
    ASSUME HlsInv, NEW h \in Handlers,
           \/ GetPlaylist(h) \/ GetSubsPlaylist(h) \/ AskSegments(h) \/ AwaitFirst(h)
           \/ GiveUp(h) \/ Reload(h)
    PROVE  HlsInv'
<1> USE DEF requestsElse, loopVars, winVars, bufVars, envVars, ctlVars
<1>1. UNCHANGED aside /\ UNCHANGED <<needsDiscontinuity, run, watchdog, stopper>>
  BY DEF aside, GetPlaylist, GetSubsPlaylist, AskSegments, AwaitFirst, GiveUp, Reload
<1>2. /\ req[h] # "serving"
      /\ \E where \in {"idle", "asking", "waiting", "reload", "render"} : req' = [req EXCEPT ![h] = where]
  BY DEF Go, GetPlaylist, GetSubsPlaylist, AskSegments, AwaitFirst, GiveUp, Reload
<1>3. PICK where \in {"idle", "asking", "waiting", "reload", "render"} : req' = [req EXCEPT ![h] = where]
  BY <1>2
<1>4. UNCHANGED requestsElse /\ UNCHANGED held
  BY DEF GetPlaylist, GetSubsPlaylist, AskSegments, AwaitFirst, GiveUp, Reload
<1>5. TypeOK'
  BY <1>3, <1>4, SMTT(20) DEF HlsInv, TypeOK
<1>6. Serving'
  BY <1>2, <1>3, <1>4 DEF HlsInv, TypeOK, Serving
<1>7. Locking'
  BY <1>4 DEF HlsInv, Locking
<1>8. Ended'
  BY <1>4 DEF HlsInv, Ended
<1> QED BY <1>1, <1>5, <1>6, <1>7, <1>8, Aside

LEMMA ReceiveMetaStep ==
    ASSUME HlsInv, ReceiveMeta
    PROVE  HlsInv'
<1> USE DEF winVars, bufVars, envVars, ctlVars, reqVars
<1>1. metaSeen \in Nat /\ MaxMeta \in Nat
  BY SeqBounds, SMTT(20) DEF HlsInv, TypeOK
<1>2. metaSeen' = metaSeen + 1 /\ currentMeta' = currentMeta \cup {metaSeen + 1} /\ metaSeen + 1 \in 1..MaxMeta
  BY <1>1, SeqBounds, SMTT(20) DEF ReceiveMeta
<1>3. TypeOK'
  <2>1. sps' \in Nat
    BY DEF HlsInv, TypeOK, ReceiveMeta, Fetched
  <2> QED BY <1>2, <2>1, SMTT(20) DEF HlsInv, TypeOK, ReceiveMeta
<1>4. Numbered'
  BY DEF HlsInv, ReceiveMeta, Numbered, InWindow, PlaylistNumbered
<1>5. Counted'
  BY DEF HlsInv, ReceiveMeta, Counted, InWindow
<1>6. Owned'
  BY DEF HlsInv, ReceiveMeta, Owned
<1>7. Marked'
  BY DEF HlsInv, ReceiveMeta, Marked, JumpIsMarked
<1>8. Serving' /\ Locking' /\ Ended'
  BY DEF HlsInv, ReceiveMeta, Serving, Locking, Ended
<1>9. CarriedOnce(segments, currentMeta \cup {metaSeen + 1}, metaSeen + 1)
  <2> USE DEF HlsInv, Carried, CarriedOnce
  <2>1. \A m : m \in 1..(metaSeen + 1) <=> m \in 1..metaSeen \/ m = metaSeen + 1
    BY <1>1, SMTT(20)
  <2>2. metaSeen + 1 \notin 1..metaSeen
    BY <1>1, SMTT(20)
  <2>3. Carrying(metaSeen + 1, segments) = {}
    BY <2>2 DEF Carrying
  <2>4. currentMeta \cup {metaSeen + 1} \subseteq 1..(metaSeen + 1)
    BY <2>1
  <2>5. \A n \in 1..Len(segments) : segments[n].meta \subseteq 1..(metaSeen + 1)
    BY <2>1
  <2> QED BY <2>1, <2>2, <2>3, <2>4, <2>5
<1>10. Carried'
  BY <1>2, <1>9 DEF ReceiveMeta, Carried
<1> QED BY <1>3, <1>4, <1>5, <1>6, <1>7, <1>8, <1>10 DEF HlsInv

-----------------------------------------------------------------------------
(* The loop                                                                *)

LEMMA Starting ==
    ASSUME HlsInv, NEW codec, StartSegment(codec), current = None
    PROVE  /\ Owns(segments, pool', current', content')
           /\ current' \in Buffers /\ pool' \subseteq Buffers /\ content' \in [Buffers -> Nat]
           /\ currentCodec' = codec
<1>1. PICK b : b = CHOOSE c \in pool : TRUE
  OBVIOUS
<1>2. b \in pool
  BY <1>1 DEF StartSegment
<1>3. /\ pool' = pool \ {b} /\ content' = [content EXCEPT ![b] = None] /\ current' = b
      /\ currentCodec' = codec
  BY <1>1 DEF StartSegment
<1>4. /\ pool \subseteq Buffers /\ content \in [Buffers -> Nat] /\ segments \in Seq(Segment)
      /\ Owns(segments, pool, None, content)
  BY DEF HlsInv, TypeOK, Owned
<1>5. Owns(segments, pool \ {b}, b, [content EXCEPT ![b] = None])
  BY <1>2, <1>4, Taken
<1>6. None \in Nat
  BY DEF None
<1> QED BY <1>2, <1>3, <1>4, <1>5, <1>6

LEMMA FrameStep ==
    ASSUME HlsInv, NEW key \in BOOLEAN, NEW due \in BOOLEAN, Frame(key, due)
    PROVE  HlsInv'
<1> USE DEF ctlVars, reqVars
<1>1. PICK known : known = IF key /\ params # None /\ params # sps THEN params ELSE sps
  OBVIOUS
<1>2. /\ UNCHANGED <<segments, window, segIndex, seqCount, playlist, currentMeta, metaSeen>>
      /\ UNCHANGED <<watchdog, mu, firstSegReady, cancelled, stopper, req, held>>
      /\ UNCHANGED <<params, ringClosed>>
  BY DEF Frame
<1>3. known \in Nat /\ sps' \in Nat /\ idle' \in BOOLEAN /\ needsDiscontinuity' \in BOOLEAN
  BY <1>1 DEF HlsInv, TypeOK, Frame, Fetched
<1>4. needsDiscontinuity => needsDiscontinuity'
  BY DEF Frame
<1>5. run = "select" /\ run' \in {"select", "closing"} /\ (run' = "closing" => due)
  BY DEF Frame
<1>6. CASE key /\ current = None
  <2>1. StartSegment(known) /\ ~due /\ run' = "select"
    BY <1>6, <1>1 DEF Frame
  <2>2. /\ Owns(segments, pool', current', content')
        /\ current' \in Buffers /\ pool' \subseteq Buffers /\ content' \in [Buffers -> Nat]
        /\ currentCodec' = known
    BY <2>1, <1>6, Starting
  <2>3. TypeOK'
    BY <1>2, <1>3, <2>1, <2>2 DEF HlsInv, TypeOK
  <2>4. Numbered'
    BY <1>2 DEF HlsInv, Numbered, InWindow, PlaylistNumbered
  <2>5. Counted'
    BY <1>2 DEF HlsInv, Counted, InWindow
  <2>6. Owned'
    BY <1>2, <2>2 DEF Owned
  <2>7. Marked'
    BY <1>2, <1>4 DEF HlsInv, Marked, JumpIsMarked
  <2>8. Carried'
    BY <1>2 DEF HlsInv, Carried
  <2>9. Serving' /\ Locking' /\ Ended'
    BY <1>2, <1>5, <2>1 DEF HlsInv, Serving, Locking, Ended
  <2> QED BY <2>3, <2>4, <2>5, <2>6, <2>7, <2>8, <2>9 DEF HlsInv
<1>7. CASE ~(key /\ current = None)
  <2>1. UNCHANGED <<pool, content, current, currentCodec>>
    BY <1>7 DEF Frame
  <2>2. TypeOK'
    BY <1>2, <1>3, <1>5, <2>1, SMTT(20) DEF HlsInv, TypeOK
  <2>3. UNCHANGED aside
    BY <1>2, <2>1 DEF aside
  <2>4. run' = "closing" => current' # None
    BY <1>5, <2>1 DEF Frame
  <2>5. Serving' /\ Locking' /\ Ended'
    BY <1>2, <1>5, <2>1, <2>4 DEF HlsInv, Serving, Locking, Ended
  <2> QED BY <1>4, <2>2, <2>3, <2>5, Aside
<1> QED BY <1>6, <1>7

LEMMA NextSegmentStep ==
    ASSUME HlsInv, NextSegment
    PROVE  HlsInv'
<1> USE DEF winVars, envVars, ctlVars, reqVars
<1>1. run = "next" /\ current = None /\ StartSegment(sps) /\ run' = "select"
  BY DEF HlsInv, Locking, NextSegment
<1>2. /\ Owns(segments, pool', current', content')
      /\ current' \in Buffers /\ pool' \subseteq Buffers /\ content' \in [Buffers -> Nat]
      /\ currentCodec' = sps
  BY <1>1, Starting
<1>3. sps' \in Nat
  BY DEF HlsInv, TypeOK, NextSegment, Fetched
<1>4. TypeOK'
  BY <1>1, <1>2, <1>3, SMTT(20) DEF HlsInv, TypeOK, NextSegment
<1>5. Numbered'
  BY DEF HlsInv, Numbered, InWindow, PlaylistNumbered, NextSegment
<1>6. Counted'
  BY DEF HlsInv, Counted, InWindow, NextSegment
<1>7. Owned'
  BY <1>2 DEF Owned, NextSegment
<1>8. Marked'
  BY DEF HlsInv, Marked, JumpIsMarked, NextSegment
<1>9. Carried'
  BY DEF HlsInv, Carried, NextSegment
<1>10. Serving' /\ Locking' /\ Ended'
  BY <1>1 DEF HlsInv, Serving, Locking, Ended, NextSegment
<1> QED BY <1>4, <1>5, <1>6, <1>7, <1>8, <1>9, <1>10 DEF HlsInv

(* Whoever publishes a segment marks it if the last one was a repetition.  *)
LEMMA PublishedMarked ==
    ASSUME TypeOK, Numbered, Marked, NEW seg \in Segment, Published(seg),
           needsDiscontinuity => seg.disc, seg.dup => needsDiscontinuity'
    PROVE  Marked'
<1>1. PICK grown : grown = Append(segments, seg)
  OBVIOUS
<1>2. seqCount \in Nat /\ Len(segments) = seqCount /\ segments \in Seq(Segment) /\ Len(window) \in Nat
  BY SMTT(20) DEF TypeOK, Numbered
<1>3. /\ Len(grown) = seqCount + 1 /\ grown[seqCount + 1] = seg
      /\ \A n \in 1..seqCount : grown[n] = segments[n]
  BY <1>1, <1>2, SMTT(20)
<1>4. \A n \in 1..(seqCount + 1) : segments'[n].dup = grown[n].dup /\ segments'[n].disc = grown[n].disc
  BY <1>1, <1>3 DEF Published, Alike
<1>5. segments'[seqCount'].dup => needsDiscontinuity'
  BY <1>2, <1>3, <1>4, SMTT(20) DEF Published
<1>6. ASSUME NEW i \in DOMAIN window', i > 1, segments'[window'[i - 1]].dup
      PROVE  segments'[window'[i]].disc
  <2>1. PICK len : len = Len(window')
    OBVIOUS
  <2>2. len \in Nat /\ len <= seqCount + 1 /\ i \in 2..len /\ DOMAIN window' = 1..len
    BY <2>1, <1>2, <1>6, SMTT(20) DEF Published
  <2>3. PICK n : n = window'[i]
    OBVIOUS
  <2>4. n = seqCount + 1 - len + i /\ window'[i - 1] = n - 1
    <3>1. \A k \in 1..len : window'[k] = seqCount + 1 - len + k
      <4>1. seqCount' = seqCount + 1
        BY DEF Published
      <4>2. \A k \in 1..Len(window') : window'[k] = seqCount' - Len(window') + k
        BY DEF Published
      <4> QED BY <4>1, <4>2, <2>1, <2>2, <1>2, SMTT(20)
    <3>2. i \in 1..len /\ i - 1 \in 1..len
      BY <2>2, SMTT(20)
    <3>3. window'[i] = seqCount + 1 - len + i /\ window'[i - 1] = seqCount + 1 - len + (i - 1)
      BY <3>1, <3>2
    <3> QED BY <3>2, <3>3, <2>2, <2>3, <1>2, SMTT(20)
  <2>5. n \in 2..(seqCount + 1) /\ n - 1 \in 1..seqCount
    BY <2>2, <2>4, <1>2, SMTT(20)
  <2>6. segments[n - 1].dup
    BY <2>4, <2>5, <1>2, <1>3, <1>4, <1>6, SMTT(20)
  <2>8. Len(window) >= len - 1 /\ Len(window) <= seqCount /\ Len(window) >= 1
    BY <2>1, <2>2, <1>2, SMTT(20) DEF Published, Numbered
  <2>7. CASE n = seqCount + 1
    <3>1. window # << >>
      BY <2>8, <1>2, SMTT(20)
    <3>2. needsDiscontinuity
      BY <3>1, <2>6, <2>7, <1>2, SMTT(20) DEF Marked
    <3> QED BY <3>2, <2>3, <2>7, <1>2, <1>3, <1>4, SMTT(20)
  <2>9. CASE n \in 2..seqCount
    <3>1. PICK w : w = Len(window)
      OBVIOUS
    <3>2. PICK j : j = n - (seqCount - w)
      OBVIOUS
    <3>3. w \in Nat /\ w >= len - 1 /\ w <= seqCount
      BY <3>1, <2>8, <1>2
    <3>4. j \in 1..w /\ j - 1 \in 1..w /\ j > 1
      <4>1. /\ seqCount \in Nat /\ len \in Nat /\ i \in Nat /\ i >= 2 /\ n \in Nat /\ n <= seqCount
            /\ n = seqCount + 1 - len + i
        BY <2>2, <2>4, <2>9, <1>2, SMTT(20)
      <4>2. w \in Nat /\ w >= len - 1 /\ j = n - (seqCount - w)
        BY <3>2, <3>3
      <4>3. j \in Int /\ j >= 2 /\ j <= w
        BY <4>1, <4>2, SMTT(20)
      <4> QED BY <4>2, <4>3, SMTT(20)
    <3>5. \A k \in 1..w : window[k] = seqCount - w + k
      <4>1. \A k \in 1..Len(window) : window[k] = seqCount - Len(window) + k
        BY DEF Numbered
      <4> QED BY <4>1, <3>1
    <3>6. window[j] = seqCount - w + j /\ window[j - 1] = seqCount - w + (j - 1)
      BY <3>4, <3>5
    <3>7. window[j] = n /\ window[j - 1] = n - 1
      BY <3>2, <3>3, <3>6, <2>9, <1>2, SMTT(20)
    <3>8. j \in DOMAIN window
      BY <3>1, <3>4, SMTT(20) DEF TypeOK
    <3>9. segments[n].disc
      <4>1. segments[window[j - 1]].dup
        BY <3>7, <2>6
      <4>2. segments[window[j]].disc
        BY <4>1, <3>4, <3>8 DEF Marked, JumpIsMarked
      <4> QED BY <4>2, <3>7
    <3> QED BY <3>9, <2>3, <2>9, <1>2, <1>3, <1>4, SMTT(20)
  <2> QED BY <2>5, <2>7, <2>9, <1>2, SMTT(20)
<1> QED BY <1>5, <1>6 DEF Marked, JumpIsMarked

LEMMA FreedBuffers ==
    ASSUME NEW segs \in Seq(Segment), NEW new
    PROVE  Freed(segs, new) \subseteq Buffers
<1>1. ASSUME NEW n \in 1..Len(segs), segs[n].buf # None PROVE segs[n].buf \in Buffers
  <2>1. segs[n] \in Segment
    BY SMTT(20)
  <2> QED BY <2>1, <1>1 DEF Segment
<1> QED BY <1>1 DEF Freed

(* What every publication keeps.                                           *)
LEMMA PublishedKept ==
    ASSUME HlsInv, NEW seg \in Segment, Published(seg), UNCHANGED <<playlist, req, held>>, mu' # "free"
    PROVE  /\ segments' \in Seq(Segment) /\ window' \in Seq(Nat) /\ seqCount' \in Nat
           /\ pool' \subseteq Buffers
           /\ Numbered' /\ Counted' /\ Serving'
<1>1. PICK grown : grown = Append(segments, seg)
  OBVIOUS
<1>2. seqCount \in Nat /\ Len(segments) = seqCount /\ segments \in Seq(Segment)
  BY DEF HlsInv, TypeOK, Numbered
<1>3. grown \in Seq(Segment) /\ Len(grown) = seqCount + 1
  BY <1>1, <1>2, SMTT(20)
<1>4. /\ segments' \in Seq(Segment) /\ Len(segments') = seqCount + 1
      /\ window' \in Seq(Nat) /\ seqCount' = seqCount + 1
  BY <1>1, <1>3 DEF Published, Alike
<1>5. pool' \subseteq Buffers
  BY <1>1, <1>3, FreedBuffers DEF Published, HlsInv, TypeOK
<1>6. PlaylistNumbered'
  BY DEF HlsInv, Numbered, PlaylistNumbered
<1>7. Numbered'
  BY <1>4, <1>6 DEF Published, Numbered
<1>8. Counted'
  BY DEF Published, Counted
<1>9. Serving'
  BY <1>2, <1>4, SMTT(20) DEF HlsInv, Serving
<1> QED BY <1>2, <1>4, <1>5, <1>7, <1>8, <1>9, SMTT(20)

LEMMA CloseSegmentStep ==
    ASSUME HlsInv, CloseSegment
    PROVE  HlsInv'
<1> USE DEF envVars, reqVars
<1>1. PICK seg : seg = [buf |-> current, refs |-> 1, disc |-> needsDiscontinuity, dup |-> FALSE,
                        codec |-> currentCodec, meta |-> currentMeta]
  OBVIOUS
<1>2. /\ seg \in Segment /\ seg.buf = current /\ seg.refs = 1 /\ seg.disc = needsDiscontinuity
      /\ seg.dup = FALSE /\ seg.meta = currentMeta
  BY <1>1 DEF HlsInv, TypeOK, Segment
<1>3. Push(seg)
  BY <1>1 DEF CloseSegment
<1>4. Published(seg)
  BY <1>2, <1>3, Publishing DEF HlsInv
<1>5. /\ segments \in Seq(Segment) /\ Len(segments) = seqCount /\ seqCount \in Nat
      /\ pool \subseteq Buffers /\ current \in Buffers /\ content \in [Buffers -> Nat]
  BY DEF HlsInv, TypeOK, Numbered, Locking, CloseSegment
<1>6. /\ segments' \in Seq(Segment) /\ window' \in Seq(Nat) /\ seqCount' \in Nat
      /\ pool' \subseteq Buffers
      /\ Numbered' /\ Counted' /\ Serving'
  BY <1>2, <1>4, PublishedKept DEF CloseSegment
<1>7. content' \in [Buffers -> Nat]
  BY <1>5, SMTT(20) DEF CloseSegment
<1>8. firstSegReady' \in BOOLEAN
  BY <1>3 DEF Push
<1>9. TypeOK'
  BY <1>6, <1>7, <1>8 DEF HlsInv, TypeOK, CloseSegment
<1>10. PICK grown : grown = Append(segments, seg)
  OBVIOUS
<1>11. /\ grown \in Seq(Segment) /\ Len(grown) = seqCount + 1 /\ Alike(grown, segments')
       /\ pool' = pool \cup Freed(grown, segments')
       /\ \A n \in 1..Len(grown) : segments'[n].refs > 0 => grown[n].refs > 0
  BY <1>2, <1>4, <1>5, <1>10, SMTT(20) DEF Published
<1>12. Owns(grown, pool, None, [content EXCEPT ![current] = Len(segments) + 1])
  BY <1>2, <1>5, <1>10, Finished DEF HlsInv, Owned
<1>13. Owned'
  <2>1. current' = None /\ content' = [content EXCEPT ![current] = Len(segments) + 1]
    BY <1>5 DEF CloseSegment
  <2>2. Owns(grown, pool, current', content')
    BY <2>1, <1>12
  <2> QED BY <2>2, <1>11, Recounted DEF Owned
<1>14. Marked'
  BY <1>2, <1>4, PublishedMarked DEF HlsInv
<1>15. Carried'
  <2>1. CarriedOnce(grown, {}, metaSeen)
    BY <1>2, <1>5, <1>10, WaitingCarried DEF HlsInv, Carried
  <2>2. CarriedOnce(segments', {}, metaSeen)
    BY <2>1, <1>11, CarriedAlike
  <2> QED BY <2>2 DEF Carried, CloseSegment
<1>16. Locking'
  BY DEF HlsInv, Locking, CloseSegment
<1>17. Ended'
  BY DEF HlsInv, Ended, CloseSegment
<1> QED BY <1>6, <1>9, <1>13, <1>14, <1>15, <1>16, <1>17 DEF HlsInv

LEMMA WatchdogRepeatStep ==
    ASSUME HlsInv, WatchdogRepeat
    PROVE  HlsInv'
<1> USE DEF loopVars, reqVars
<1>1. PICK seg : seg = [buf |-> None, refs |-> 1, disc |-> TRUE, dup |-> TRUE,
                        codec |-> segments[window[Len(window)]].codec, meta |-> {}]
  OBVIOUS
<1>2. CASE idle /\ window # << >>
  <2>1. /\ Push(seg) /\ mu' = "watchdog" /\ watchdog' = "rebuild" /\ idle' = FALSE
        /\ needsDiscontinuity' = TRUE
    BY <1>1, <1>2 DEF WatchdogRepeat, WatchdogMark
  <2>2. UNCHANGED <<run, current, currentCodec, sps, currentMeta, metaSeen, segIndex, playlist, content,
                    params, ringClosed, cancelled, stopper, req, held>>
    BY DEF WatchdogRepeat
  <2>3. /\ segments \in Seq(Segment) /\ Len(segments) = seqCount /\ seqCount \in Nat
        /\ window \in Seq(Nat) /\ Len(window) \in Nat /\ Len(window) # 0 /\ Len(window) <= seqCount
    BY <1>2, SMTT(20) DEF HlsInv, TypeOK, Numbered
  <2>4. window[Len(window)] = seqCount
    BY <2>3, SMTT(20) DEF HlsInv, Numbered
  <2>5. seqCount \in 1..Len(segments)
    BY <2>3, SMTT(20)
  <2>6. segments[seqCount] \in Segment
    BY <2>3, <2>5, SMTT(20)
  <2>7. segments[window[Len(window)]].codec \in Nat
    BY <2>4, <2>6 DEF Segment
  <2>8. seg \in Segment /\ seg.buf = None /\ seg.refs = 1 /\ seg.disc = TRUE /\ seg.dup = TRUE /\ seg.meta = {}
    BY <1>1, <2>7 DEF Segment
  <2>9. Published(seg)
    BY <2>1, <2>8, Publishing DEF HlsInv
  <2>10. /\ segments' \in Seq(Segment) /\ window' \in Seq(Nat) /\ seqCount' \in Nat
         /\ pool' \subseteq Buffers
         /\ Numbered' /\ Counted' /\ Serving'
    BY <2>1, <2>2, <2>8, <2>9, PublishedKept
  <2>11. firstSegReady' \in BOOLEAN
    BY <2>1 DEF Push
  <2>12. TypeOK'
    BY <2>1, <2>2, <2>10, <2>11 DEF HlsInv, TypeOK
  <2>13. PICK grown : grown = Append(segments, seg)
    OBVIOUS
  <2>14. /\ grown \in Seq(Segment) /\ Len(grown) = seqCount + 1 /\ Alike(grown, segments')
         /\ pool' = pool \cup Freed(grown, segments')
         /\ \A n \in 1..Len(grown) : segments'[n].refs > 0 => grown[n].refs > 0
    <3>1. grown \in Seq(Segment) /\ Len(grown) = seqCount + 1
      BY <2>3, <2>8, <2>13, SMTT(20)
    <3> QED BY <3>1, <2>9, <2>13 DEF Published
  <2>15. Owned'
    <3>1. Owns(grown, pool, current, content)
      BY <2>3, <2>8, <2>13, Repeated DEF HlsInv, Owned
    <3>2. Owns(segments', pool \cup Freed(grown, segments'), current, content)
      BY <3>1, <2>14, Recounted
    <3> QED BY <3>2, <2>2, <2>14 DEF Owned
  <2>16. Marked'
    BY <2>1, <2>8, <2>9, PublishedMarked DEF HlsInv
  <2>17. Carried'
    <3>1. CarriedOnce(grown, currentMeta, metaSeen)
      BY <2>3, <2>8, <2>13, NothingCarried DEF HlsInv, Carried
    <3>2. CarriedOnce(segments', currentMeta, metaSeen)
      BY <3>1, <2>14, CarriedAlike
    <3> QED BY <3>2, <2>2 DEF Carried
  <2>18. Locking'
    BY <2>1, <2>2 DEF HlsInv, Locking, WatchdogRepeat
  <2>19. Ended'
    BY <2>2, <1>2 DEF HlsInv, Ended
  <2> QED BY <2>10, <2>12, <2>15, <2>16, <2>17, <2>18, <2>19 DEF HlsInv
<1>3. CASE ~(idle /\ window # << >>)
  <2>1. /\ watchdog' = "off" /\ UNCHANGED <<segments, window, seqCount, firstSegReady, pool, mu>>
        /\ idle' = idle /\ needsDiscontinuity' = needsDiscontinuity
    BY <1>3 DEF WatchdogRepeat, WatchdogMark, HlsInv, TypeOK
  <2>2. UNCHANGED <<run, current, currentCodec, sps, currentMeta, metaSeen, segIndex, playlist, content,
                    params, ringClosed, cancelled, stopper, req, held>>
    BY DEF WatchdogRepeat
  <2>3. TypeOK'
    BY <2>1, <2>2, SMTT(20) DEF HlsInv, TypeOK
  <2>4. Serving' /\ Locking' /\ Ended'
    BY <2>1, <2>2 DEF HlsInv, Serving, Locking, Ended, WatchdogRepeat
  <2>5. UNCHANGED aside
    BY <2>1, <2>2 DEF aside
  <2> QED BY <2>1, <2>3, <2>4, <2>5, Aside
<1> QED BY <1>2, <1>3

-----------------------------------------------------------------------------
(* Playlists                                                               *)

(* Whoever renders the playlists numbers them as the window is numbered.   *)
LEMMA Rendering ==
    ASSUME TypeOK, Numbered, Rebuild, UNCHANGED <<segments, window, seqCount>>
    PROVE  /\ Numbered' /\ segIndex' \in SUBSET Nat
           /\ playlist' # NoPlaylist => playlist'.first \in Nat /\ playlist'.names \in Seq(Nat)
<1>1. segIndex' = InWindow /\ InWindow' = InWindow
  BY DEF Rebuild, InWindow
<1>2. InWindow \subseteq Nat
  BY SMTT(20) DEF TypeOK, InWindow
<1>3. seqCount \in Nat /\ window \in Seq(Nat) /\ Len(window) \in Nat /\ Len(window) <= seqCount
  BY SMTT(20) DEF TypeOK, Numbered
<1>4. CASE window = << >>
  <2>1. playlist' = playlist
    BY <1>4 DEF Rebuild
  <2>2. PlaylistNumbered'
    BY <2>1 DEF Numbered, PlaylistNumbered
  <2> QED BY <1>1, <1>2, <2>1, <2>2 DEF Numbered, TypeOK
<1>5. CASE window # << >>
  <2>1. playlist' = [first |-> seqCount - Len(window) + 1, names |-> window]
    BY <1>5 DEF Rebuild, Rendered
  <2>2. playlist'.first = seqCount - Len(window) + 1 /\ playlist'.names = window
    BY <2>1
  <2>3. playlist'.first \in Nat /\ playlist'.names \in Seq(Nat)
    BY <2>2, <1>3, SMTT(20)
  <2>4. \A i \in DOMAIN window : window[i] = (seqCount - Len(window) + 1) + i - 1
    <3>1. DOMAIN window = 1..Len(window)
      BY <1>3, SMTT(20)
    <3>2. \A i \in 1..Len(window) : window[i] = seqCount - Len(window) + i
      BY DEF Numbered
    <3>3. PICK w : w = Len(window)
      OBVIOUS
    <3>4. ASSUME NEW i \in 1..w PROVE seqCount - w + i = (seqCount - w + 1) + i - 1
      BY <3>3, <1>3, SMTT(20)
    <3> QED BY <3>1, <3>2, <3>3, <3>4
  <2>5. PlaylistNumbered'
    BY <2>2, <2>4 DEF PlaylistNumbered
  <2> QED BY <1>1, <1>2, <2>3, <2>5 DEF Numbered
<1> QED BY <1>4, <1>5

LEMMA RebuildSteps ==
    ASSUME HlsInv, RunRebuild \/ WatchdogRebuild
    PROVE  HlsInv'
<1> USE DEF loopVars, bufVars, envVars, reqVars
<1>1. /\ Rebuild /\ UNCHANGED <<segments, window, seqCount, needsDiscontinuity, pool, content, current,
                               currentMeta, metaSeen, stopper, req, held>>
  BY DEF RunRebuild, WatchdogRebuild
<1>2. /\ Numbered' /\ segIndex' \in SUBSET Nat
      /\ playlist' # NoPlaylist => playlist'.first \in Nat /\ playlist'.names \in Seq(Nat)
  BY <1>1, Rendering DEF HlsInv
<1>3. TypeOK'
  <2>1. CASE RunRebuild
    BY <1>2, <2>1 DEF HlsInv, TypeOK, RunRebuild
  <2>2. CASE WatchdogRebuild
    BY <1>2, <2>2 DEF HlsInv, TypeOK, WatchdogRebuild
  <2> QED BY <2>1, <2>2
<1>4. Counted'
  BY <1>1 DEF HlsInv, Counted, InWindow
<1>5. Owned'
  BY <1>1 DEF HlsInv, Owned
<1>6. Marked'
  BY <1>1 DEF HlsInv, Marked, JumpIsMarked
<1>7. Carried'
  BY <1>1 DEF HlsInv, Carried
<1>8. Serving' /\ Locking' /\ Ended'
  BY <1>1 DEF HlsInv, Serving, Locking, Ended, RunRebuild, WatchdogRebuild
<1> QED BY <1>2, <1>3, <1>4, <1>5, <1>6, <1>7, <1>8 DEF HlsInv

LEMMA RenderNowStep ==
    ASSUME HlsInv, NEW h \in Handlers, RenderNow(h)
    PROVE  HlsInv'
<1> USE DEF loopVars, bufVars, envVars, ctlVars
<1>1. /\ UNCHANGED <<segments, window, seqCount, needsDiscontinuity, pool, content, current, currentMeta,
                     metaSeen, run, watchdog, mu, stopper, held>>
      /\ req[h] = "render" /\ req' = [req EXCEPT ![h] = "idle"] /\ mu = "free"
  BY DEF RenderNow, Go
<1>2. /\ Numbered' /\ segIndex' \in SUBSET Nat
      /\ playlist' # NoPlaylist => playlist'.first \in Nat /\ playlist'.names \in Seq(Nat)
  <2>1. CASE window = << >>
    <3>1. UNCHANGED <<segIndex, playlist>>
      BY <2>1 DEF RenderNow
    <3>2. Numbered'
      BY <3>1, <1>1 DEF HlsInv, Numbered, InWindow, PlaylistNumbered
    <3> QED BY <3>1, <3>2 DEF HlsInv, TypeOK
  <2>2. CASE window # << >>
    BY <2>2, <1>1, Rendering DEF HlsInv, RenderNow
  <2> QED BY <2>1, <2>2
<1>3. TypeOK'
  BY <1>1, <1>2, SMTT(20) DEF HlsInv, TypeOK, RenderNow
<1>4. Counted'
  BY <1>1 DEF HlsInv, Counted, InWindow
<1>5. Owned'
  BY <1>1 DEF HlsInv, Owned
<1>6. Marked'
  BY <1>1 DEF HlsInv, Marked, JumpIsMarked
<1>7. Carried'
  BY <1>1 DEF HlsInv, Carried
<1>8. Serving'
  BY <1>1 DEF HlsInv, TypeOK, Serving
<1>9. Locking' /\ Ended'
  BY <1>1 DEF HlsInv, Locking, Ended
<1> QED BY <1>2, <1>3, <1>4, <1>5, <1>6, <1>7, <1>8, <1>9 DEF HlsInv

-----------------------------------------------------------------------------
(* References change                                                       *)

(* Nothing but references, and the pool with them.                         *)
LEMMA RecountedKept ==
    ASSUME HlsInv, Alike(segments, segments'), Counted', Serving', Locking', Ended',
           \A n \in 1..Len(segments) : segments'[n].refs > 0 => segments[n].refs > 0,
           pool' = pool \cup Freed(segments, segments'),
           window' = window \/ window' = << >>,
           mu' = "free" => segIndex' = InWindow', segIndex' \in SUBSET Nat,
           req' \in [Handlers -> {"idle", "asking", "waiting", "reload", "render", "serving"}],
           held' \in [Handlers -> Nat],
           stopper' \in [Stoppers -> {"idle", "waiting", "returned"}],
           UNCHANGED <<loopVars, seqCount, needsDiscontinuity, playlist, content, envVars, watchdog, mu,
                       firstSegReady, cancelled>>
    PROVE  HlsInv'
<1> USE DEF loopVars, envVars
<1>1. segments' \in Seq(Segment) /\ Len(segments') = Len(segments) /\ segments \in Seq(Segment)
  BY DEF Alike, HlsInv, TypeOK
<1>2. pool' \subseteq Buffers
  BY <1>1, FreedBuffers DEF HlsInv, TypeOK
<1>3. window' \in Seq(Nat)
  <2>1. window \in Seq(Nat) /\ << >> \in Seq(Nat)
    BY SMTT(20) DEF HlsInv, TypeOK
  <2> QED BY <2>1
<1>4. TypeOK'
  BY <1>1, <1>2, <1>3, SMTT(20) DEF HlsInv, TypeOK
<1>5. Numbered'
  <2>1. PlaylistNumbered'
    BY DEF HlsInv, Numbered, PlaylistNumbered
  <2>2. seqCount \in Nat /\ MaxSegments \in Nat
    BY WindowAssumption DEF HlsInv, TypeOK
  <2>3. CASE window' = window
    BY <2>1, <2>3, <1>1 DEF HlsInv, Numbered
  <2>4. CASE window' = << >>
    <3>1. Len(window') = 0 /\ 1..Len(window') = {}
      BY <2>4, SMTT(20)
    <3> QED BY <3>1, <2>1, <2>2, <1>1, SMTT(20) DEF HlsInv, Numbered
  <2> QED BY <2>3, <2>4
<1>6. Owned'
  <2>1. Owns(segments', pool \cup Freed(segments, segments'), current, content)
    BY <1>1, Recounted DEF HlsInv, Owned
  <2> QED BY <2>1 DEF Owned
<1>7. Carried'
  BY CarriedAlike DEF HlsInv, Carried
<1>8. Marked'
  <2>1. CASE window' = window /\ window # << >>
    <3>1. seqCount \in Nat /\ Len(segments) = seqCount /\ Len(window) \in Nat /\ Len(window) <= seqCount
          /\ DOMAIN window = 1..Len(window) /\ Len(window) # 0
      BY <2>1, SMTT(20) DEF HlsInv, TypeOK, Numbered
    <3>2. \A i \in DOMAIN window : window[i] \in 1..Len(segments)
      <4>1. \A i \in 1..Len(window) : window[i] = seqCount - Len(window) + i
        BY DEF HlsInv, Numbered
      <4> QED BY <4>1, <3>1, SMTT(20)
    <3>3. \A i \in DOMAIN window : i > 1 => i - 1 \in DOMAIN window
      BY <3>1, SMTT(20)
    <3>4. JumpIsMarked'
      BY <3>2, <3>3, <2>1 DEF HlsInv, Marked, JumpIsMarked, Alike
    <3>5. seqCount \in 1..Len(segments)
      BY <3>1, SMTT(20)
    <3>6. segments'[seqCount].dup = segments[seqCount].dup
      BY <3>5 DEF Alike
    <3> QED BY <3>4, <3>6, <2>1 DEF HlsInv, Marked
  <2>2. CASE window' = << >>
    <3>1. DOMAIN window' = {}
      BY <2>2, SMTT(20)
    <3> QED BY <3>1, <2>2 DEF Marked, JumpIsMarked
  <2> QED BY <2>1, <2>2
<1> QED BY <1>4, <1>5, <1>6, <1>7, <1>8 DEF HlsInv

(* Stop gives back every reference of the window.                          *)
LEMMA StopReleaseStep ==
    ASSUME HlsInv, NEW s \in Stoppers, StopRelease(s)
    PROVE  HlsInv'
<1> USE DEF loopVars, envVars, reqVars
<1>1. /\ seqCount \in Nat /\ segments \in Seq(Segment) /\ Len(segments) = seqCount
      /\ DOMAIN segments = 1..Len(segments)
  BY SMTT(20) DEF HlsInv, TypeOK, Numbered
<1>2. /\ segments' = [n \in DOMAIN segments |->
                         IF n \in InWindow THEN [segments[n] EXCEPT !.refs = @ - 1] ELSE segments[n]]
      /\ pool' = pool \cup {segments[n].buf : n \in {k \in InWindow : segments[k].refs = 1
                                                                      /\ segments[k].buf # None}}
  BY DEF StopRelease, InWindow
<1>3. \A n \in 1..Len(segments) : segments[n] \in Segment
  BY <1>1, SMTT(20)
<1>4. \A n \in 1..Len(segments) : /\ Cardinality(Holders(n, held)) \in Nat
                                  /\ segments[n].refs = RefsOf(n, InWindow, held)
  BY HoldersFinite DEF HlsInv, Counted, Counts
<1>5. InWindow \subseteq 1..Len(segments)
  <2>1. InWindow = (seqCount - Len(window) + 1)..seqCount
    BY InWindowInterval DEF HlsInv
  <2>2. Len(window) \in Nat /\ Len(window) <= seqCount
    BY SMTT(20) DEF HlsInv, TypeOK, Numbered
  <2> QED BY <2>1, <2>2, <1>1, SMTT(20)
<1>6. ASSUME NEW n \in 1..Len(segments)
      PROVE  /\ segments'[n] \in Segment /\ segments'[n].refs = Cardinality(Holders(n, held))
             /\ segments'[n].buf = segments[n].buf /\ segments'[n].disc = segments[n].disc
             /\ segments'[n].dup = segments[n].dup /\ segments'[n].codec = segments[n].codec
             /\ segments'[n].meta = segments[n].meta
  <2>1. CASE n \in InWindow
    <3>1. PICK k : k = Cardinality(Holders(n, held))
      OBVIOUS
    <3>2. k \in Nat /\ segments[n].refs = 1 + k
      BY <3>1, <2>1, <1>4 DEF RefsOf
    <3>3. segments[n].refs - 1 = k
      BY <3>2, SMTT(20)
    <3>4. segments'[n] = [segments[n] EXCEPT !.refs = k]
      BY <2>1, <3>3, <1>1, <1>2
    <3> QED BY <3>1, <3>2, <3>4, <1>3, OtherRefs, SMTT(20)
  <2>2. CASE n \notin InWindow
    BY <2>2, <1>1, <1>2, <1>3, <1>4, SMTT(20) DEF RefsOf
  <2> QED BY <2>1, <2>2
<1>7. Alike(segments, segments')
  <2>1. segments' \in [1..Len(segments) -> Segment]
    BY <1>1, <1>2, <1>6
  <2>2. segments' \in Seq(Segment) /\ Len(segments') = Len(segments)
    BY <2>1, <1>1, SMTT(20)
  <2> QED BY <2>2, <1>6 DEF Alike
<1>8. window' = << >> /\ segIndex' = {} /\ InWindow' = {}
  BY SMTT(20) DEF StopRelease, InWindow
<1>9. Counted'
  <2>1. \A n \in 1..Len(segments) : segments'[n].refs = RefsOf(n, {}, held)
    BY <1>4, <1>6, SMTT(20) DEF RefsOf
  <2>2. held' = held /\ Len(segments') = Len(segments)
    BY <1>7 DEF StopRelease, Alike
  <2> QED BY <2>1, <2>2, <1>8 DEF Counted, Counts
<1>10. \A n \in 1..Len(segments) : segments'[n].refs > 0 => segments[n].refs > 0
  BY <1>4, <1>6, SMTT(20) DEF RefsOf
<1>11. pool' = pool \cup Freed(segments, segments')
  <2>1. ASSUME NEW n \in 1..Len(segments)
        PROVE  segments[n].refs > 0 /\ ~(segments'[n].refs > 0) <=> n \in InWindow /\ segments[n].refs = 1
    BY <1>4, <1>6, SMTT(20) DEF RefsOf
  <2>2. {k \in 1..Len(segments) : segments[k].refs > 0 /\ ~(segments'[k].refs > 0) /\ segments[k].buf # None}
          = {k \in InWindow : segments[k].refs = 1 /\ segments[k].buf # None}
    BY <2>1, <1>5
  <2> QED BY <2>2, <1>2 DEF Freed
<1>12. Serving' /\ Locking'
  BY DEF HlsInv, Serving, Locking, StopRelease
<1>13. Ended'
  BY <1>8 DEF Ended, StopRelease
<1>14. stopper' \in [Stoppers -> {"idle", "waiting", "returned"}]
  BY DEF HlsInv, TypeOK, StopRelease
<1>15. /\ req' \in [Handlers -> {"idle", "asking", "waiting", "reload", "render", "serving"}]
       /\ held' \in [Handlers -> Nat]
  BY DEF HlsInv, TypeOK, StopRelease
<1>16. UNCHANGED <<loopVars, seqCount, needsDiscontinuity, playlist, content, envVars, watchdog, mu,
                   firstSegReady, cancelled>>
  BY DEF StopRelease
<1> QED BY <1>7, <1>8, <1>9, <1>10, <1>11, <1>12, <1>13, <1>14, <1>15, <1>16, RecountedKept

(* AcquireSegment adds a reference to a segment of the window.             *)
LEMMA AcquireStep ==
    ASSUME HlsInv, NEW h \in Handlers, NEW n, AcquireSegment(h, n)
    PROVE  HlsInv'
<1> USE DEF loopVars, bufVars, envVars, ctlVars
<1>1. /\ seqCount \in Nat /\ segments \in Seq(Segment) /\ Len(segments) = seqCount
      /\ held \in [Handlers -> Nat]
  BY DEF HlsInv, TypeOK, Numbered
<1>2. n \in InWindow
  BY DEF AcquireSegment, HlsInv, Numbered, InWindow
<1>3. n \in 1..Len(segments)
  <2>1. InWindow = (seqCount - Len(window) + 1)..seqCount
    BY InWindowInterval DEF HlsInv
  <2>2. Len(window) \in Nat /\ Len(window) <= seqCount
    BY SMTT(20) DEF HlsInv, TypeOK, Numbered
  <2> QED BY <2>1, <2>2, <1>1, <1>2, SMTT(20)
<1>4. held[h] = 0 /\ n # 0 /\ n \in Nat
  BY <1>1, <1>3, SMTT(20) DEF HlsInv, Serving, AcquireSegment, None
<1>5. PICK who : who = [held EXCEPT ![h] = n]
  OBVIOUS
<1>6. /\ Cardinality(Holders(n, who)) = Cardinality(Holders(n, held)) + 1
      /\ \A m : m # n /\ m # 0 => Holders(m, who) = Holders(m, held)
  BY <1>1, <1>4, <1>5, HolderJoins
<1>7. PICK k : k = segments[n].refs + 1
  OBVIOUS
<1>8. segments[n] \in Segment /\ \A m \in 1..Len(segments) : segments[m] \in Segment
  BY <1>1, <1>3, SMTT(20)
<1>9. segments[n].refs = 1 + Cardinality(Holders(n, held)) /\ Cardinality(Holders(n, held)) \in Nat
  BY <1>2, <1>3, HoldersFinite DEF HlsInv, Counted, Counts, RefsOf
<1>10. k \in Nat
  BY <1>7, <1>9, SMTT(20)
<1>11. PICK seg : seg = [segments[n] EXCEPT !.refs = k]
  OBVIOUS
<1>12. /\ seg \in Segment /\ seg.refs = k /\ seg.buf = segments[n].buf
       /\ seg.disc = segments[n].disc /\ seg.dup = segments[n].dup /\ seg.codec = segments[n].codec
       /\ seg.meta = segments[n].meta
  BY <1>8, <1>10, <1>11, OtherRefs
<1>13. segments' = [segments EXCEPT ![n] = seg]
  BY <1>7, <1>11 DEF AcquireSegment
<1>14. /\ segments' \in Seq(Segment) /\ Len(segments') = Len(segments) /\ segments'[n] = seg
       /\ \A m \in 1..Len(segments) : m # n => segments'[m] = segments[m]
  BY <1>1, <1>3, <1>12, <1>13, SMTT(20)
<1>15. Alike(segments, segments')
  BY <1>12, <1>14 DEF Alike
<1>16. \A m \in 1..Len(segments) : segments'[m].refs > 0 => segments[m].refs > 0
  BY <1>9, <1>14, SMTT(20)
<1>17. Freed(segments, segments') = {}
  <2>1. \A m \in 1..Len(segments) : segments[m].refs > 0 => segments'[m].refs > 0
    BY <1>7, <1>9, <1>12, <1>14, SMTT(20)
  <2> QED BY <2>1 DEF Freed
<1>18. held' = who /\ window' = window /\ segIndex' = segIndex /\ InWindow' = InWindow
  BY <1>5 DEF AcquireSegment, InWindow
<1>19. Counted'
  <2>1. ASSUME NEW m \in 1..Len(segments) PROVE segments'[m].refs = RefsOf(m, InWindow, who)
    <3>1. segments[m].refs = RefsOf(m, InWindow, held)
      BY DEF HlsInv, Counted, Counts
    <3>2. CASE m = n
      BY <3>2, <1>2, <1>6, <1>7, <1>9, <1>12, <1>14, SMTT(20) DEF RefsOf
    <3>3. CASE m # n
      <4>1. Holders(m, who) = Holders(m, held)
        BY <3>3, <1>1, <1>6, SMTT(20)
      <4> QED BY <4>1, <3>1, <3>3, <1>14 DEF RefsOf
    <3> QED BY <3>2, <3>3
  <2> QED BY <2>1, <1>14, <1>18 DEF Counted, Counts
<1>20. who \in [Handlers -> Nat] /\ req' = [req EXCEPT ![h] = "serving"] /\ req[h] = "idle"
  BY <1>1, <1>4, <1>5 DEF AcquireSegment, Go
<1>21. /\ req' \in [Handlers -> {"idle", "asking", "waiting", "reload", "render", "serving"}]
       /\ held' \in [Handlers -> Nat]
  BY <1>18, <1>20 DEF HlsInv, TypeOK
<1>22. Serving'
  <2>1. seqCount' = seqCount
    BY DEF AcquireSegment
  <2>2. n \in 0..seqCount
    BY <1>1, <1>3, SMTT(20)
  <2>3. ASSUME NEW g \in Handlers
        PROVE  (req'[g] = "serving" <=> who[g] # None) /\ who[g] \in 0..seqCount
    <3>1. CASE g = h
      BY <3>1, <2>2, <1>1, <1>4, <1>5, <1>20 DEF HlsInv, TypeOK, None
    <3>2. CASE g # h
      BY <3>2, <1>1, <1>5, <1>20 DEF HlsInv, TypeOK, Serving
    <3> QED BY <3>1, <3>2
  <2> QED BY <2>1, <2>3, <1>18 DEF Serving
<1>23. Locking' /\ Ended'
  BY DEF HlsInv, Locking, Ended, AcquireSegment
<1>24. /\ UNCHANGED <<loopVars, seqCount, needsDiscontinuity, playlist, content, envVars, watchdog, mu,
                      firstSegReady, cancelled, pool, stopper>>
  BY DEF AcquireSegment
<1>25. /\ stopper' \in [Stoppers -> {"idle", "waiting", "returned"}]
       /\ segIndex' \in SUBSET Nat /\ (mu' = "free" => segIndex' = InWindow')
  BY <1>18, <1>24 DEF HlsInv, TypeOK, Numbered
<1>26. pool' = pool \cup Freed(segments, segments')
  BY <1>17, <1>24
<1> QED BY <1>15, <1>16, <1>18, <1>19, <1>21, <1>22, <1>23, <1>24, <1>25, <1>26, RecountedKept

(* The end of a request takes its reference back.                          *)
LEMMA ReleaseStep ==
    ASSUME HlsInv, NEW h \in Handlers, ReleaseSegment(h)
    PROVE  HlsInv'
<1> USE DEF loopVars, envVars, ctlVars
<1>1. /\ seqCount \in Nat /\ segments \in Seq(Segment) /\ Len(segments) = seqCount
      /\ held \in [Handlers -> Nat]
  BY DEF HlsInv, TypeOK, Numbered
<1>2. PICK n : n = held[h]
  OBVIOUS
<1>3. n \in 1..Len(segments) /\ n # 0
  BY <1>1, <1>2, SMTT(20) DEF HlsInv, Serving, ReleaseSegment, None
<1>4. PICK who : who = [held EXCEPT ![h] = 0]
  OBVIOUS
<1>5. /\ Cardinality(Holders(n, who)) = Cardinality(Holders(n, held)) - 1
      /\ Cardinality(Holders(n, held)) >= 1
  BY <1>1, <1>2, <1>3, <1>4, HolderLeaves
<1>6. \A m : m # 0 /\ m # n => Holders(m, who) = Holders(m, held)
  BY <1>1, <1>2, <1>3, <1>4, HolderJoins
<1>7. \A m \in 1..Len(segments) : /\ segments[m].refs = RefsOf(m, InWindow, held)
                                  /\ Cardinality(Holders(m, held)) \in Nat
  BY HoldersFinite DEF HlsInv, Counted, Counts
<1>8. segments[n].refs >= 1
  BY <1>3, <1>5, <1>7, SMTT(20) DEF RefsOf
<1>9. Dropped(n, segments, pool, segments', pool')
  <2>1. /\ segments' = Released(n, segments, pool).segs /\ pool' = Released(n, segments, pool).free
    BY <1>2 DEF ReleaseSegment
  <2> QED BY <2>1, <1>1, <1>3, <1>8, OneReleased
<1>10. /\ Alike(segments, segments') /\ pool' = pool \cup Freed(segments, segments')
       /\ \A m \in 1..Len(segments) : segments'[m].refs = IF m = n THEN segments[m].refs - 1
                                                                 ELSE segments[m].refs
  BY <1>9 DEF Dropped
<1>11. \A m \in 1..Len(segments) : segments'[m].refs > 0 => segments[m].refs > 0
  BY <1>7, <1>8, <1>10, SMTT(20) DEF RefsOf
<1>12. held' = who /\ window' = window /\ segIndex' = segIndex /\ InWindow' = InWindow
  BY <1>4 DEF ReleaseSegment, InWindow, None
<1>13. Counted'
  <2>1. ASSUME NEW m \in 1..Len(segments) PROVE segments'[m].refs = RefsOf(m, InWindow, who)
    <3>1. CASE m = n
      <4>1. segments'[n].refs = RefsOf(n, InWindow, held) - 1
        BY <1>3, <1>7, <1>10
      <4>2. Cardinality(Holders(n, held)) \in Nat
        BY <1>3, <1>7
      <4> QED BY <4>1, <4>2, <3>1, <1>5, SMTT(20) DEF RefsOf
    <3>2. CASE m # n
      <4>1. Holders(m, who) = Holders(m, held)
        BY <3>2, <1>1, <1>6, SMTT(20)
      <4> QED BY <4>1, <3>2, <1>7, <1>10 DEF RefsOf
    <3> QED BY <3>1, <3>2
  <2> QED BY <2>1, <1>10, <1>12 DEF Counted, Counts, Alike
<1>14. req' = [req EXCEPT ![h] = "idle"] /\ who \in [Handlers -> Nat]
  BY <1>1, <1>4 DEF ReleaseSegment, Go
<1>15. /\ req' \in [Handlers -> {"idle", "asking", "waiting", "reload", "render", "serving"}]
       /\ held' \in [Handlers -> Nat]
  BY <1>12, <1>14 DEF HlsInv, TypeOK
<1>16. Serving'
  <2>1. seqCount' = seqCount /\ 0 \in 0..seqCount
    BY <1>1, SMTT(20) DEF ReleaseSegment
  <2>2. ASSUME NEW g \in Handlers
        PROVE  (req'[g] = "serving" <=> who[g] # None) /\ who[g] \in 0..seqCount
    <3>1. CASE g = h
      BY <3>1, <2>1, <1>1, <1>4, <1>14 DEF HlsInv, TypeOK, None
    <3>2. CASE g # h
      BY <3>2, <1>1, <1>4, <1>14 DEF HlsInv, TypeOK, Serving
    <3> QED BY <3>1, <3>2
  <2> QED BY <2>1, <2>2, <1>12 DEF Serving
<1>17. Locking' /\ Ended'
  BY DEF HlsInv, Locking, Ended, ReleaseSegment
<1>18. UNCHANGED <<loopVars, seqCount, needsDiscontinuity, playlist, content, envVars, watchdog, mu,
                   firstSegReady, cancelled, stopper>>
  BY DEF ReleaseSegment
<1>19. /\ stopper' \in [Stoppers -> {"idle", "waiting", "returned"}]
       /\ segIndex' \in SUBSET Nat /\ (mu' = "free" => segIndex' = InWindow')
  BY <1>12, <1>18 DEF HlsInv, TypeOK, Numbered
<1> QED BY <1>10, <1>11, <1>12, <1>13, <1>15, <1>16, <1>17, <1>18, <1>19, RecountedKept

-----------------------------------------------------------------------------
LEMMA HlsInitInv ==
    ASSUME Init
    PROVE  HlsInv
<1> USE DEF Init
<1>1. Len(segments) = 0 /\ Len(window) = 0 /\ DOMAIN window = {} /\ 1..0 = {}
  BY SMTT(20)
<1>2. None \in Nat /\ 1 \in Nat /\ 0 \in Nat /\ 0 \in 0..0 /\ None = 0
  BY SMTT(20) DEF None
<1>3. InWindow = {}
  BY <1>1 DEF InWindow
<1>4. TypeOK
  <2>1. segments \in Seq(Segment) /\ window \in Seq(Nat)
    BY SMTT(20)
  <2>2. params \in Nat /\ sps \in Nat
    BY <1>2
  <2>3. 0 \in 0..MaxMeta
    BY SeqBounds, SMTT(20)
  <2>4. playlist = NoPlaylist
    OBVIOUS
  <2> QED BY <1>2, <2>1, <2>2, <2>3, <2>4 DEF TypeOK
<1>5. Numbered
  <2>1. PlaylistNumbered
    BY DEF PlaylistNumbered
  <2> QED BY <2>1, <1>1, <1>3, WindowAssumption, SMTT(20) DEF Numbered
<1>6. Counted
  BY <1>1 DEF Counted, Counts
<1>7. Serving
  BY <1>2 DEF Serving
<1>8. Locking
  BY DEF Locking
<1>9. Owned
  BY <1>1, NoneIsNoBuffer DEF Owned, Owns
<1>10. Ended
  BY DEF Ended
<1>11. Marked
  BY <1>1 DEF Marked, JumpIsMarked
<1>12. Carried
  BY <1>1 DEF Carried, CarriedOnce
<1> QED BY <1>4, <1>5, <1>6, <1>7, <1>8, <1>9, <1>10, <1>11, <1>12 DEF HlsInv

LEMMA HlsNextInv ==
    ASSUME HlsInv, [Next]_vars
    PROVE  HlsInv'
<1>1. CASE SetParams \/ CloseRing \/ TimePasses
  BY <1>1, EnvironmentSteps
<1>2. CASE Run
  <2>1. ASSUME NEW key \in BOOLEAN, NEW due \in BOOLEAN, Frame(key, due) PROVE HlsInv'
    BY <2>1, FrameStep
  <2>2. CASE RunExit
    BY <2>2, EnvironmentSteps
  <2>3. CASE RunRebuild
    BY <2>3, RebuildSteps
  <2> QED BY <1>2, <2>1, <2>2, <2>3, ReceiveMetaStep, CloseSegmentStep, NextSegmentStep DEF Run
<1>3. CASE Watchdog
  <2>1. CASE WatchdogCheck
    BY <2>1, EnvironmentSteps
  <2>2. CASE WatchdogRebuild
    BY <2>2, RebuildSteps
  <2> QED BY <1>3, <2>1, <2>2, WatchdogRepeatStep DEF Watchdog
<1>4. ASSUME NEW s \in Stoppers, Stop(s) PROVE HlsInv'
  BY <1>4, StopCancelStep, StopReleaseStep DEF Stop
<1>5. ASSUME NEW h \in Handlers, Request(h) PROVE HlsInv'
  <2>1. CASE \/ GetPlaylist(h) \/ GetSubsPlaylist(h) \/ AskSegments(h) \/ AwaitFirst(h)
             \/ GiveUp(h) \/ Reload(h)
    BY <2>1, AskingSteps
  <2>2. CASE RenderNow(h)
    BY <2>2, RenderNowStep
  <2>3. ASSUME NEW n \in Numbers, AcquireSegment(h, n) PROVE HlsInv'
    BY <2>3, AcquireStep
  <2>4. CASE ReleaseSegment(h)
    BY <2>4, ReleaseStep
  <2> QED BY <1>5, <2>1, <2>2, <2>3, <2>4 DEF Request
<1>6. CASE UNCHANGED vars
  <2> USE <1>6 DEF vars, loopVars, winVars, bufVars, envVars, ctlVars, reqVars
  <2>1. UNCHANGED aside
    BY DEF aside
  <2>2. TypeOK'
    BY SMTT(20) DEF HlsInv, TypeOK
  <2>3. Serving' /\ Locking' /\ Ended'
    BY DEF HlsInv, Serving, Locking, Ended
  <2> QED BY <2>1, <2>2, <2>3, Aside
<1> QED BY <1>1, <1>2, <1>3, <1>4, <1>5, <1>6 DEF Next

(* Segments, window, references, buffers, marks and metadata of the muxer  *)
(* (muxer.go:63-81) always fit together.                                   *)
THEOREM HlsInvariance == Spec => []HlsInv
<1> QED BY HlsInitInv, HlsNextInv, PTL DEF Spec

LEMMA InvBuffersCycle ==
    ASSUME HlsInv
    PROVE  BuffersCycle
<1>1. /\ seqCount \in Nat /\ segments \in Seq(Segment) /\ Len(segments) = seqCount
      /\ InWindow = (seqCount - Len(window) + 1)..seqCount /\ Len(window) \in Nat /\ Len(window) <= seqCount
  BY InWindowInterval, SMTT(20) DEF HlsInv, TypeOK, Numbered
<1>2. ASSUME NEW n \in InWindow \cup Held
      PROVE  n \in 1..Len(segments) /\ segments[n].refs > 0
  <2>1. n \in 1..Len(segments)
    BY <1>1, SMTT(20) DEF Held, HlsInv, Serving, None
  <2>2. segments[n].refs = RefsOf(n, InWindow, held) /\ Cardinality(Holders(n, held)) \in Nat
    BY <2>1, HoldersFinite DEF HlsInv, Counted, Counts
  <2>3. CASE n \in InWindow
    BY <2>1, <2>2, <2>3, SMTT(20) DEF RefsOf
  <2>4. CASE n \in Held
    <3>1. PICK h \in Handlers : held[h] = n
      BY <2>4 DEF Held
    <3>2. Cardinality(Holders(n, held)) >= 1
      BY <3>1, OneHolder
    <3> QED BY <2>1, <2>2, <3>2, SMTT(20) DEF RefsOf
  <2> QED BY <2>3, <2>4
<1>3. ServedBytesIntact
  BY <1>2 DEF ServedBytesIntact, HlsInv, Owned, Owns
<1>4. ASSUME (\E s \in Stoppers : stopper[s] = "returned"), Held = {}
      PROVE  Buffers \ pool \subseteq {current}
  <2>1. window = << >>
    BY <1>4 DEF HlsInv, Ended
  <2>2. InWindow = {}
    BY <2>1, SMTT(20) DEF InWindow
  <2>3. ASSUME NEW n \in 1..Len(segments) PROVE segments[n].refs = 0
    <3>1. Holders(n, held) = {}
      <4>1. n # None
        BY <1>1, SMTT(20) DEF None
      <4>2. ASSUME NEW h \in Handlers, held[h] = n PROVE FALSE
        <5>1. held[h] \in Held
          BY <4>1, <4>2 DEF Held
        <5> QED BY <5>1, <1>4
      <4> QED BY <4>2 DEF Holders
    <3>2. Cardinality(Holders(n, held)) = 0
      BY <3>1, FS_EmptySet
    <3>3. segments[n].refs = RefsOf(n, InWindow, held)
      BY DEF HlsInv, Counted, Counts
    <3>4. n \notin InWindow
      BY <2>2
    <3> QED BY <3>2, <3>3, <3>4, SMTT(20) DEF RefsOf
  <2>4. ASSUME NEW n \in 1..Len(segments) PROVE ~(segments[n].refs > 0)
    BY <2>3, SMTT(20)
  <2> QED BY <2>4 DEF HlsInv, Owned, Owns
<1> QED BY <1>3, <1>4 DEF BuffersCycle, BuffersReturned

(* A buffer is neither handed out again while its segment is in the window *)
(* or served by a request, nor lost: when Stop has returned and nobody     *)
(* serves a segment every buffer but the unfinished one is in the pool     *)
(* (Retain, Release and Stop, muxer.go:45-61 and 362-380).                 *)
THEOREM BuffersNeverLost == Spec => []BuffersCycle
<1> QED BY HlsInvariance, InvBuffersCycle, PTL

LEMMA InvPlaylistSound ==
    ASSUME HlsInv
    PROVE  PlaylistSound
<1>1. PlaylistNumbered /\ JumpIsMarked
  BY DEF HlsInv, Numbered, Marked
<1>2. DOMAIN segments = 1..Len(segments)
  BY SMTT(20) DEF HlsInv, TypeOK
<1>3. ASSUME NEW m \in 1..metaSeen
      PROVE  Cardinality({n \in DOMAIN segments : m \in segments[n].meta})
               + (IF m \in currentMeta THEN 1 ELSE 0) = 1
  <2>1. {n \in DOMAIN segments : m \in segments[n].meta} = Carrying(m, segments)
    BY <1>2 DEF Carrying
  <2>2. CASE m \in currentMeta /\ Carrying(m, segments) = {}
    BY <2>1, <2>2, FS_EmptySet, SMTT(20)
  <2>3. CASE m \notin currentMeta /\ \E n \in 1..Len(segments) : Carrying(m, segments) = {n}
    <3>1. PICK n \in 1..Len(segments) : Carrying(m, segments) = {n}
      BY <2>3
    <3>2. Cardinality({n}) = 1
      BY FS_Singleton
    <3>3. Cardinality({k \in DOMAIN segments : m \in segments[k].meta}) = 1
      BY <3>1, <3>2, <2>1
    <3>4. (IF m \in currentMeta THEN 1 ELSE 0) = 0
      BY <2>3
    <3> QED BY <3>3, <3>4, SMTT(20)
  <2> QED BY <2>2, <2>3 DEF HlsInv, Carried, CarriedOnce
<1> QED BY <1>1, <1>3 DEF PlaylistSound, MetadataOnce

(* The numbers of every cached playlist have no holes and start with its   *)
(* media sequence number, what follows a repeated segment is marked, and   *)
(* each metadata message goes into one segment, although the loop and the  *)
(* watchdog both publish segments (muxer.go:266-286 and 389-420).          *)
THEOREM PlaylistsSound == Spec => []PlaylistSound
<1> QED BY HlsInvariance, InvPlaylistSound, PTL

-----------------------------------------------------------------------------
(* A step either leaves the cached playlist and moves the window forward,  *)
(* or leaves the window and renders it.                                    *)
Forward ==
    /\ playlist' = playlist
    /\ seqCount <= seqCount' /\ seqCount - Len(window) <= seqCount' - Len(window')

Redone == UNCHANGED <<window, seqCount>> /\ playlist' = Rendered

LEMMA NothingMoves ==
    ASSUME HlsInv, UNCHANGED <<window, seqCount, playlist>>
    PROVE  Forward
<1>1. seqCount \in Nat /\ Len(window) \in Nat
  BY SMTT(20) DEF HlsInv, TypeOK
<1> QED BY <1>1, SMTT(20) DEF Forward

LEMMA PushMoves ==
    ASSUME HlsInv, NEW seg, Push(seg), UNCHANGED playlist
    PROVE  Forward
<1>1. seqCount \in Nat /\ window \in Seq(Nat) /\ seqCount + 1 \in Nat
  BY SMTT(20) DEF HlsInv, TypeOK
<1>2. PICK win : win = Append(window, seqCount + 1)
  OBVIOUS
<1>3. win \in Seq(Nat) /\ Len(win) = Len(window) + 1 /\ Len(window) \in Nat
  BY <1>1, <1>2, SMTT(20)
<1>4. seqCount' = seqCount + 1 /\ (window' = Tail(win) \/ window' = win)
  BY <1>2 DEF Push
<1>5. Len(window') <= Len(window) + 1 /\ Len(window') \in Nat
  <2>1. Len(Tail(win)) = Len(win) - 1
    BY <1>3, SMTT(20)
  <2> QED BY <2>1, <1>3, <1>4, SMTT(20)
<1> QED BY <1>1, <1>3, <1>4, <1>5, SMTT(20) DEF Forward

LEMMA RebuildMoves ==
    ASSUME HlsInv, Rebuild, UNCHANGED <<window, seqCount>>
    PROVE  Forward \/ Redone
<1>1. CASE window = << >>
  BY <1>1, NothingMoves DEF Rebuild
<1>2. CASE window # << >>
  BY <1>2 DEF Rebuild, Redone
<1> QED BY <1>1, <1>2

LEMMA StopMoves ==
    ASSUME HlsInv, NEW s \in Stoppers, StopRelease(s)
    PROVE  Forward
<1>1. seqCount \in Nat /\ Len(window) \in Nat /\ Len(window) <= seqCount
  BY SMTT(20) DEF HlsInv, TypeOK, Numbered
<1>2. window' = << >> /\ seqCount' = seqCount /\ playlist' = playlist
  BY DEF StopRelease
<1>3. Len(window') = 0
  BY <1>2, SMTT(20)
<1> QED BY <1>1, <1>2, <1>3, SMTT(20) DEF Forward

LEMMA WindowMoves ==
    ASSUME HlsInv, [Next]_vars
    PROVE  Forward \/ Redone
<1> USE DEF vars, winVars
<1>1. CASE SetParams \/ CloseRing \/ TimePasses \/ UNCHANGED vars
  BY <1>1, NothingMoves DEF SetParams, CloseRing, TimePasses
<1>2. CASE Run
  <2>1. CASE \E key, due \in BOOLEAN : Frame(key, due)
    BY <2>1, NothingMoves DEF Frame
  <2>2. CASE ReceiveMeta \/ NextSegment \/ RunExit
    BY <2>2, NothingMoves DEF ReceiveMeta, NextSegment, RunExit
  <2>3. CASE CloseSegment
    BY <2>3, PushMoves DEF CloseSegment
  <2>4. CASE RunRebuild
    BY <2>4, RebuildMoves DEF RunRebuild
  <2> QED BY <1>2, <2>1, <2>2, <2>3, <2>4 DEF Run
<1>3. CASE Watchdog
  <2>1. CASE WatchdogCheck
    BY <2>1, NothingMoves DEF WatchdogCheck
  <2>2. CASE WatchdogRepeat
    <3>1. CASE idle /\ window # << >>
      BY <2>2, <3>1, PushMoves DEF WatchdogRepeat
    <3>2. CASE ~(idle /\ window # << >>)
      BY <2>2, <3>2, NothingMoves DEF WatchdogRepeat
    <3> QED BY <3>1, <3>2
  <2>3. CASE WatchdogRebuild
    BY <2>3, RebuildMoves DEF WatchdogRebuild
  <2> QED BY <1>3, <2>1, <2>2, <2>3 DEF Watchdog
<1>4. ASSUME NEW s \in Stoppers, Stop(s) PROVE Forward
  BY <1>4, StopMoves, NothingMoves DEF Stop, StopCancel
<1>5. ASSUME NEW h \in Handlers, Request(h) PROVE Forward \/ Redone
  <2>1. CASE \/ GetPlaylist(h) \/ GetSubsPlaylist(h) \/ AskSegments(h) \/ AwaitFirst(h)
             \/ GiveUp(h) \/ Reload(h)
    BY <2>1, NothingMoves
       DEF GetPlaylist, GetSubsPlaylist, AskSegments, AwaitFirst, GiveUp, Reload, requestsElse
  <2>2. CASE RenderNow(h)
    BY <2>2, RebuildMoves, NothingMoves DEF RenderNow
  <2>3. CASE (\E n \in Numbers : AcquireSegment(h, n)) \/ ReleaseSegment(h)
    BY <2>3, NothingMoves DEF AcquireSegment, ReleaseSegment
  <2> QED BY <1>5, <2>1, <2>2, <2>3 DEF Request
<1> QED BY <1>1, <1>2, <1>3, <1>4, <1>5 DEF Next

(* The cached playlist is not ahead of the window.                         *)
Behind ==
    playlist # NoPlaylist =>
        /\ playlist.first <= seqCount - Len(window) + 1
        /\ playlist.first + Len(playlist.names) <= seqCount + 1

LEMMA BehindStep ==
    ASSUME HlsInv, HlsInv', Behind, [Next]_vars
    PROVE  Behind' /\ Slides(playlist, playlist')
<1>1. /\ seqCount \in Nat /\ Len(window) \in Nat /\ seqCount' \in Nat /\ Len(window') \in Nat
      /\ playlist # NoPlaylist => playlist.first \in Nat /\ Len(playlist.names) \in Nat
  BY SMTT(20) DEF HlsInv, TypeOK
<1>2. CASE Forward
  <2>1. Slides(playlist, playlist')
    BY <1>1, <1>2, SMTT(20) DEF Forward, Slides
  <2>2. Behind'
    BY <1>1, <1>2, SMTT(20) DEF Forward, Behind
  <2> QED BY <2>1, <2>2
<1>3. CASE Redone
  <2>1. window' = window /\ seqCount' = seqCount
    BY <1>3 DEF Redone
  <2>2. playlist'.first = seqCount - Len(window) + 1 /\ playlist'.names = window
    BY <1>3 DEF Redone, Rendered
  <2>3. playlist' # NoPlaylist
    BY <1>3, SMTT(20) DEF Redone, Rendered, NoPlaylist
  <2>4. Behind'
    BY <1>1, <2>1, <2>2, SMTT(20) DEF Behind
  <2>5. Slides(playlist, playlist')
    BY <1>1, <2>2, <2>3, SMTT(20) DEF Behind, Slides
  <2> QED BY <2>4, <2>5
<1> QED BY <1>2, <1>3, WindowMoves

(* The playlist that players poll never goes back, whoever renders it: its *)
(* media sequence number and its last segment only move forward, for any   *)
(* window and any interleaving of the loop, the watchdog, Stop and the     *)
(* requests (rebuildPlaylistsLocked, muxer.go:425-508).                    *)
THEOREM PlaylistNeverGoesBack == Spec => PlaylistSlides
<1>1. Init => Behind
  BY DEF Init, Behind
<1>2. HlsInv /\ HlsInv' /\ Behind /\ [Next]_vars => Behind' /\ [Slides(playlist, playlist')]_vars
  BY BehindStep
<1> QED BY <1>1, <1>2, HlsInvariance, PTL DEF Spec, PlaylistSlides

=============================================================================
