---------------------------- MODULE FanOutProofs ----------------------------
(***************************************************************************)
(* Proofs about RingBuffer, for every capacity, every number of readers    *)
(* and every bound on the number of frames, and about Delivery, for any    *)
(* number of viewers of any kind.                                          *)
(***************************************************************************)
EXTENDS RingBuffer, Delivery, TLAPS

(* Zenon proves what is first-order; the leaves with arithmetic, sequences *)
(* or records name the SMT solver.                                         *)
USE ZenonT(30)

(* What is used of the library of finite sets. The lemmas that count have  *)
(* it as a hypothesis, which the library discharges at the end.            *)
FiniteSetFacts ==
    /\ \A S, T : IsFiniteSet(S) /\ T \subseteq S => IsFiniteSet(T) /\ Cardinality(T) \in Nat
    /\ \A n \in Nat : \A S \in SUBSET (0..n) : S # {} => \E m \in S : \A j \in S : j <= m

-----------------------------------------------------------------------------
(* Sequences                                                               *)

(* A sequence as a function.                                               *)
LEMMA SeqShape ==
  ASSUME NEW S, NEW q \in Seq(S)
  PROVE  Len(q) \in Nat /\ DOMAIN q = 1..Len(q) /\ q \in [1..Len(q) -> S]
BY SMTT(20)

LEMMA SeqElement ==
  ASSUME NEW S, NEW q \in Seq(S), NEW i \in 1..Len(q)
  PROVE  q[i] \in S
BY SMTT(20)

(* The empty sequence is the one without length.                           *)
LEMMA SeqEmpty ==
  ASSUME NEW S
  PROVE  << >> \in Seq(S) /\ Len(<< >>) = 0 /\ \A q \in Seq(S) : q # << >> => Len(q) \in Nat \ {0}
BY SMTT(20)

LEMMA SeqAppended ==
  ASSUME NEW S, NEW q \in Seq(S), NEW x \in S
  PROVE  /\ Append(q, x) \in Seq(S)
         /\ Append(q, x) # << >> /\ Len(Append(q, x)) = Len(q) + 1
         /\ \A i \in 1..Len(q) : Append(q, x)[i] = q[i]
         /\ Append(q, x)[Len(q) + 1] = x
BY SMTT(20)

-----------------------------------------------------------------------------
(* Slots of the circular history                                           *)

(* A frame number and its slot (ring.go:94): the remainder is a slot.      *)
LEMMA SlotOfFrame == \A i \in Nat : i % Capacity \in Slots
  BY CapacityAssumption, SMTT(20) DEF Slots

(* A positive multiple of the capacity is not smaller than the capacity.   *)
LEMMA NoSmallMultiple ==
  ASSUME NEW d \in Int, 0 < Capacity * d, Capacity * d < Capacity
  PROVE  FALSE
<1>1. CASE d <= 0
  BY <1>1, CapacityAssumption, SMTT(20)
<1>2. CASE d >= 1
  BY <1>2, CapacityAssumption, SMTT(20)
<1> QED
  BY <1>1, <1>2, SMTT(20)

(* Two frames less than the capacity apart are kept in different slots, so *)
(* a Write overwrites only the frame that leaves the history.              *)
LEMMA NearbyFramesDifferentSlots ==
  ASSUME NEW i \in Nat, NEW j \in Nat, i < j, j - i < Capacity
  PROVE  i % Capacity # j % Capacity
<1> SUFFICES ASSUME i % Capacity = j % Capacity
             PROVE  FALSE
  OBVIOUS
<1> DEFINE p == i \div Capacity
           q == j \div Capacity
<1>1. /\ p \in Int /\ q \in Int /\ i % Capacity \in Int
      /\ i = Capacity * p + (i % Capacity)
      /\ j = Capacity * q + (j % Capacity)
  BY CapacityAssumption, SMTT(20)
<1> HIDE DEF p, q
<1>2. j - i = Capacity * q - Capacity * p
  BY <1>1, CapacityAssumption, SMTT(20)
<1>3. Capacity * q - Capacity * p = Capacity * (q - p)
  BY <1>1, CapacityAssumption, SMTT(20)
<1>4. 0 < Capacity * (q - p) /\ Capacity * (q - p) < Capacity
  BY <1>2, <1>3, CapacityAssumption, SMTT(20)
<1> QED
  BY <1>1, <1>4, NoSmallMultiple, SMTT(20)

-----------------------------------------------------------------------------
(* The inductive invariant                                                 *)

(* The history holds the last Capacity frames, each in its own slot.       *)
HistoryIsRecent ==
    \A i \in 0..(head - 1) : head - i <= Capacity => frames[i % Capacity] = i

(* Bookkeeping that ties handles, registration and closing together.       *)
HandlesConsistent ==
    /\ Len(keys) = head
    /\ closed => subs = {}
    /\ \A r \in Readers :
          /\ handle[r] = "new" => /\ sent[r] = << >> /\ taken[r] = 0 /\ drops[r] = 0
                                  /\ ~needsIFrame[r] /\ ~chanClosed[r] /\ r \notin subs
          /\ chanClosed[r] => r \notin subs

(* Only frames that were written are sent.                                 *)
SentWereWritten ==
    \A r \in Readers : \A i \in 1..Len(sent[r]) : sent[r][i] < head

(* A registered reader that accepts any frame has the newest one; one that *)
(* waits for a keyframe without having lost a frame was sent nothing.      *)
ReadersInSync ==
    \A r \in subs :
        /\ ~needsIFrame[r] /\ head > 0 =>
              sent[r] # << >> /\ sent[r][Len(sent[r])] = head - 1
        /\ needsIFrame[r] /\ drops[r] = 0 => sent[r] = << >>
        /\ drops[r] = 0 =>
              \A i \in 2..Len(sent[r]) : sent[r][i] = sent[r][i - 1] + 1

IInv == /\ TypeOK
        /\ HistoryIsRecent
        /\ HandlesConsistent
        /\ SentWereWritten
        /\ DecodableDelivery
        /\ ChannelsWithinCapacity
        /\ ReadersInSync

-----------------------------------------------------------------------------
(* The preload                                                             *)

(* What findLastIFrameLocked finds: a keyframe the history still holds.    *)
LEMMA LastIFrameFound ==
  ASSUME FiniteSetFacts, IInv, RecentIFrames # {}
  PROVE  /\ LastIFrame \in 0..(head - 1)
         /\ head - LastIFrame <= Capacity
         /\ IsKeyFrame(LastIFrame)
<1>1. head \in Nat
  BY MaxFramesAssumption, SMTT(20) DEF IInv, TypeOK
<1>2. \E m \in RecentIFrames : \A j \in RecentIFrames : j <= m
  <2>1. RecentIFrames \in SUBSET (0..head)
    BY <1>1, SMTT(20) DEF RecentIFrames
  <2> HIDE DEF RecentIFrames
  <2> QED
    BY <2>1, <1>1 DEF FiniteSetFacts
<1>3. LastIFrame \in RecentIFrames
  BY <1>2 DEF LastIFrame
<1>4. \A i \in RecentIFrames : /\ i \in 0..(head - 1) /\ head - i <= Capacity
                               /\ IsKeyFrame(i)
  BY DEF RecentIFrames, IInv, HistoryIsRecent
<1> QED
  BY <1>3, <1>4

(* The preload is the run of frames from that keyframe to the newest one.  *)
LEMMA PreloadIsARun ==
  ASSUME IInv, NEW start \in 0..(head - 1), head - start <= Capacity
  PROVE  /\ Preload(start) \in Seq(Nat)
         /\ Len(Preload(start)) = head - start
         /\ \A i \in 1..(head - start) : Preload(start)[i] = start + i - 1
<1>1. head \in Nat /\ start \in Nat /\ head - start \in Nat
  BY MaxFramesAssumption, SMTT(20) DEF IInv, TypeOK
<1>2. \A i \in 1..(head - start) : frames[(start + i - 1) % Capacity] = start + i - 1
  <2> TAKE i \in 1..(head - start)
  <2>1. start + i - 1 \in 0..(head - 1) /\ head - (start + i - 1) <= Capacity
    BY <1>1, CapacityAssumption, SMTT(20)
  <2> QED
    BY <2>1 DEF IInv, HistoryIsRecent
<1>3. Preload(start) = [i \in 1..(head - start) |-> start + i - 1]
  BY <1>2 DEF Preload
<1>4. Preload(start) \in Seq(Nat)
  <2>1. Preload(start) \in [1..(head - start) -> Nat]
    BY <1>1, <1>3, SMTT(20)
  <2> QED
    BY <1>1, <2>1, SMTT(20)
<1>5. Len(Preload(start)) = head - start
  BY <1>1, <1>3, <1>4, SeqShape, SMTT(20)
<1> QED
  BY <1>3, <1>4, <1>5

-----------------------------------------------------------------------------
(* One lemma per action: it preserves the inductive invariant              *)

(* A buffer that was just made satisfies the invariant.                    *)
LEMMA InitEstablishes == Init => IInv
<1> SUFFICES ASSUME Init
             PROVE  IInv
  OBVIOUS
<1>1. TypeOK
  <2>1. frames \in [Slots -> Nat \cup {NoFrame}] /\ head \in 0..MaxFrames
    BY MaxFramesAssumption, SMTT(20) DEF Init
  <2>2. closed \in BOOLEAN
    BY DEF Init
  <2>6. keys \in Seq(BOOLEAN) /\ totalDrops \in Nat
    BY SMTT(20) DEF Init
  <2>3. /\ handle \in [Readers -> {"new", "open", "left"}]
        /\ subs \in SUBSET Readers
        /\ sent \in [Readers -> Seq(Nat)]
    BY SMTT(20) DEF Init
  <2>4. taken \in [Readers -> Nat] /\ drops \in [Readers -> Nat]
    BY DEF Init
  <2>5. /\ needsIFrame \in [Readers -> BOOLEAN]
        /\ chanClosed \in [Readers -> BOOLEAN]
        /\ eof \in [Readers -> BOOLEAN]
    BY DEF Init
  <2> QED
    BY <2>1, <2>2, <2>3, <2>4, <2>5, <2>6 DEF TypeOK
<1>2. HistoryIsRecent /\ HandlesConsistent
  BY SMTT(20) DEF Init, HistoryIsRecent, HandlesConsistent
<1>3. SentWereWritten /\ DecodableDelivery
  BY SMTT(20) DEF Init, SentWereWritten, DecodableDelivery
<1>4. ChannelsWithinCapacity /\ ReadersInSync
  BY CapacityAssumption, SMTT(20) DEF Init, ChannelsWithinCapacity, ReadersInSync, Queued
<1> QED
  BY <1>1, <1>2, <1>3, <1>4 DEF IInv

(* Receiving a frame or io.EOF only moves the reader's own position.       *)
LEMMA ReadPreserves ==
  ASSUME IInv, NEW r \in Readers, Read(r)
  PROVE  IInv'
<1> USE DEF IInv
<1>1. TypeOK'
  <2>1. taken' = taken \/ taken' = [taken EXCEPT ![r] = @ + 1]
    BY DEF Read
  <2>2. taken \in [Readers -> Nat]
    BY DEF TypeOK
  <2>3. taken' \in [Readers -> Nat]
    BY <2>1, <2>2, SMTT(20)
  <2>4. eof' \in [Readers -> BOOLEAN]
    BY DEF TypeOK, Read
  <2> QED
    BY <2>3, <2>4 DEF TypeOK, Read
<1>2. HistoryIsRecent'
  BY DEF HistoryIsRecent, Read
<1>3. HandlesConsistent'
  BY DEF HandlesConsistent, Read, TypeOK
<1>4. SentWereWritten' /\ DecodableDelivery'
  BY DEF SentWereWritten, DecodableDelivery, IsKeyFrame, Read
<1>5. ChannelsWithinCapacity'
  <2> SUFFICES ASSUME NEW q \in Readers
               PROVE  Queued(q)' \in 0..Capacity
    BY DEF ChannelsWithinCapacity
  <2>1. /\ sent' = sent /\ sent[q] \in Seq(Nat)
        /\ taken[q] \in Nat /\ Queued(q) \in 0..Capacity
    BY DEF Read, TypeOK, ChannelsWithinCapacity
  <2>2. \/ taken'[q] = taken[q]
        \/ taken'[q] = taken[q] + 1 /\ taken[q] < Len(sent[q])
    BY DEF Read, TypeOK
  <2> QED
    BY <2>1, <2>2, CapacityAssumption, SeqShape, SMTT(20) DEF Queued
<1>6. ReadersInSync'
  BY DEF ReadersInSync, Read
<1> QED
  BY <1>1, <1>2, <1>3, <1>4, <1>5, <1>6

(* Unregistering a reader weakens what is required of it.                  *)
LEMMA CloseReaderPreserves ==
  ASSUME IInv, NEW r \in Readers, CloseReader(r)
  PROVE  IInv'
<1> USE DEF IInv
<1>1. TypeOK'
  BY DEF TypeOK, CloseReader
<1>2. HistoryIsRecent'
  BY DEF HistoryIsRecent, CloseReader
<1>3. HandlesConsistent'
  BY DEF HandlesConsistent, CloseReader, TypeOK
<1>4. SentWereWritten' /\ DecodableDelivery'
  BY DEF SentWereWritten, DecodableDelivery, IsKeyFrame, CloseReader
<1>5. ChannelsWithinCapacity'
  BY DEF ChannelsWithinCapacity, Queued, CloseReader
<1>6. ReadersInSync'
  BY DEF ReadersInSync, CloseReader
<1> QED
  BY <1>1, <1>2, <1>3, <1>4, <1>5, <1>6

(* Closing the buffer leaves no reader registered.                         *)
LEMMA ClosePreserves ==
  ASSUME IInv, Close
  PROVE  IInv'
<1> USE DEF IInv
<1>1. TypeOK'
  BY DEF TypeOK, Close
<1>2. HistoryIsRecent'
  BY DEF HistoryIsRecent, Close
<1>3. HandlesConsistent'
  BY DEF HandlesConsistent, Close, TypeOK
<1>4. SentWereWritten' /\ DecodableDelivery'
  BY DEF SentWereWritten, DecodableDelivery, IsKeyFrame, Close
<1>5. ChannelsWithinCapacity'
  BY DEF ChannelsWithinCapacity, Queued, Close
<1>6. ReadersInSync'
  BY DEF ReadersInSync, Close
<1> QED
  BY <1>1, <1>2, <1>3, <1>4, <1>5, <1>6

(* Subscribing: the preload is a run that starts with a keyframe and ends  *)
(* with the newest frame, and it fits the channel.                         *)
LEMMA SubscribePreserves ==
  ASSUME FiniteSetFacts, IInv, NEW r \in Readers, Subscribe(r)
  PROVE  IInv'
<1> USE DEF IInv
<1>h. head \in Nat
  BY MaxFramesAssumption, SMTT(20) DEF TypeOK
<1>n. /\ sent[r] = << >> /\ taken[r] = 0 /\ drops[r] = 0
      /\ ~needsIFrame[r] /\ ~chanClosed[r] /\ r \notin subs
  BY DEF Subscribe, HandlesConsistent
<1>f. HistoryIsRecent'
  BY DEF HistoryIsRecent, Subscribe
<1>1. CASE closed
  <2>1. TypeOK'
    BY <1>1 DEF TypeOK, Subscribe
  <2>2. HandlesConsistent'
    BY <1>1, <1>n, SMTT(20) DEF HandlesConsistent, Subscribe, TypeOK
  <2>3. SentWereWritten' /\ DecodableDelivery'
    BY <1>1 DEF SentWereWritten, DecodableDelivery, IsKeyFrame, Subscribe
  <2>4. ChannelsWithinCapacity' /\ ReadersInSync'
    BY <1>1, SMTT(20) DEF ChannelsWithinCapacity, Queued, ReadersInSync, Subscribe
  <2> QED
    BY <1>f, <2>1, <2>2, <2>3, <2>4
<1>2. CASE ~closed /\ RecentIFrames # {}
  <2> DEFINE L == LastIFrame
  <2>1. L \in 0..(head - 1) /\ head - L <= Capacity /\ IsKeyFrame(L)
    BY <1>2, LastIFrameFound
  <2>2. /\ Preload(L) \in Seq(Nat) /\ Len(Preload(L)) = head - L
        /\ \A i \in 1..(head - L) : Preload(L)[i] = L + i - 1
    BY <2>1, PreloadIsARun
  <2>3. sent' = [sent EXCEPT ![r] = Preload(L)]
    BY <1>2 DEF Subscribe
  <2> HIDE DEF L
  <2>4. /\ sent'[r] = Preload(L)
        /\ \A q \in Readers : q # r => sent'[q] = sent[q]
    BY <2>3 DEF TypeOK
  <2>5. /\ subs' = subs \cup {r} /\ chanClosed' = chanClosed /\ needsIFrame' = needsIFrame
        /\ UNCHANGED <<frames, head, closed, keys, taken, drops, totalDrops, eof>>
        /\ handle' = [handle EXCEPT ![r] = "open"]
    BY <1>2 DEF Subscribe
  <2>6. TypeOK'
    <3>1. sent' \in [Readers -> Seq(Nat)]
      BY <2>2, <2>3 DEF TypeOK
    <3> QED
      BY <2>5, <3>1 DEF TypeOK
  <2>7. HandlesConsistent'
    BY <1>2, <1>n, <2>4, <2>5 DEF HandlesConsistent, TypeOK
  <2>8. SentWereWritten'
    <3> SUFFICES ASSUME NEW q \in Readers, NEW i \in 1..Len(sent'[q])
                 PROVE  sent'[q][i] < head
      BY <2>5 DEF SentWereWritten
    <3>1. CASE q # r
      BY <3>1, <2>4 DEF SentWereWritten
    <3>2. CASE q = r
      <4>1. i \in 1..(head - L) /\ sent'[q][i] = L + i - 1
        BY <3>2, <2>2, <2>4
      <4>2. QED
        BY <4>1, <1>h, <2>1, SMTT(20)
    <3>3. QED
      BY <3>1, <3>2
  <2>9. DecodableDelivery'
    <3> SUFFICES ASSUME NEW q \in Readers, NEW i \in 1..Len(sent'[q])
                 PROVE  \/ IsKeyFrame(sent'[q][i])
                        \/ sent'[q][i] = 0
                        \/ i > 1 /\ sent'[q][i - 1] = sent'[q][i] - 1
      BY <2>5 DEF DecodableDelivery, IsKeyFrame
    <3>1. CASE q # r
      BY <3>1, <2>4 DEF DecodableDelivery
    <3>2. CASE q = r /\ i = 1
      BY <3>2, <1>h, <2>1, <2>2, <2>4, SMTT(20)
    <3>3. CASE q = r /\ i > 1
      BY <3>3, <1>h, <2>1, <2>2, <2>4, SMTT(20)
    <3> QED
      BY <3>1, <3>2, <3>3, SMTT(20)
  <2>10. ChannelsWithinCapacity'
    <3>1. Len(sent'[r]) - taken'[r] \in 0..Capacity
      BY <1>h, <1>n, <2>1, <2>2, <2>4, <2>5, CapacityAssumption, SMTT(20)
    <3>2. \A q \in Readers : q # r => Len(sent'[q]) - taken'[q] \in 0..Capacity
      BY <2>4, <2>5 DEF ChannelsWithinCapacity, Queued
    <3> QED
      BY <3>1, <3>2 DEF ChannelsWithinCapacity, Queued
  <2>11. ReadersInSync'
    <3> SUFFICES ASSUME NEW q \in subs'
                 PROVE  (/\ ~needsIFrame[q] /\ head > 0 =>
                               sent[q] # << >> /\ sent[q][Len(sent[q])] = head - 1
                         /\ needsIFrame[q] /\ drops[q] = 0 => sent[q] = << >>
                         /\ drops[q] = 0 =>
                               \A i \in 2..Len(sent[q]) : sent[q][i] = sent[q][i - 1] + 1)'
      BY DEF ReadersInSync
    <3>1. CASE q = r
      <4>1. Len(sent'[r]) = head - L /\ sent'[r] # << >> /\ sent'[r][Len(sent'[r])] = head - 1
        BY <1>h, <2>1, <2>2, <2>4, SMTT(20)
      <4>2. \A i \in 2..Len(sent'[r]) : sent'[r][i] = sent'[r][i - 1] + 1
        BY <1>h, <2>1, <2>2, <2>4, SMTT(20)
      <4> QED
        BY <3>1, <4>1, <4>2, <1>n, <2>5
    <3>2. CASE q # r
      BY <3>2, <2>4, <2>5, SMTT(20) DEF ReadersInSync, TypeOK
    <3> QED
      BY <3>1, <3>2
  <2> QED
    BY <1>f, <2>6, <2>7, <2>8, <2>9, <2>10, <2>11
<1>3. CASE ~closed /\ RecentIFrames = {}
  <2>1. /\ subs' = subs \cup {r} /\ chanClosed' = chanClosed /\ sent' = sent
        /\ needsIFrame' = [needsIFrame EXCEPT ![r] = head > 0]
        /\ UNCHANGED <<frames, head, closed, keys, taken, drops, totalDrops, eof>>
        /\ handle' = [handle EXCEPT ![r] = "open"]
    BY <1>3 DEF Subscribe
  <2>2. TypeOK'
    <3>1. needsIFrame' \in [Readers -> BOOLEAN]
      BY <2>1, SMTT(20) DEF TypeOK
    <3> QED
      BY <2>1, <3>1 DEF TypeOK
  <2>3. HandlesConsistent'
    BY <1>3, <1>n, <2>1 DEF HandlesConsistent, TypeOK
  <2>4. SentWereWritten' /\ DecodableDelivery'
    BY <2>1 DEF SentWereWritten, DecodableDelivery, IsKeyFrame
  <2>5. ChannelsWithinCapacity'
    BY <2>1 DEF ChannelsWithinCapacity, Queued
  <2>6. ReadersInSync'
    <3>1. \A q \in subs : needsIFrame'[q] = needsIFrame[q] /\ q \in Readers
      BY <1>n, <2>1 DEF TypeOK
    <3>2. needsIFrame'[r] <=> head > 0
      BY <2>1 DEF TypeOK
    <3>3. ASSUME NEW q \in subs'
          PROVE  (/\ ~needsIFrame[q] /\ head > 0 =>
                        sent[q] # << >> /\ sent[q][Len(sent[q])] = head - 1
                  /\ needsIFrame[q] /\ drops[q] = 0 => sent[q] = << >>
                  /\ drops[q] = 0 =>
                        \A i \in 2..Len(sent[q]) : sent[q][i] = sent[q][i - 1] + 1)'
      <4>1. CASE q = r
        <5>1. sent'[r] = << >> /\ Len(sent'[r]) = 0
          BY <1>n, <2>1, SeqEmpty
        <5>2. head' = head
          BY <2>1
        <5> QED
          BY <4>1, <5>1, <5>2, <3>2, SMTT(20)
      <4>2. CASE q \in subs
        BY <4>2, <2>1, <3>1 DEF ReadersInSync
      <4> QED
        BY <4>1, <4>2, <2>1
    <3> QED
      BY <3>3 DEF ReadersInSync
  <2> QED
    BY <1>f, <2>2, <2>3, <2>4, <2>5, <2>6
<1> QED
  BY <1>1, <1>2, <1>3 DEF TypeOK

(* Writing: a frame goes to readers that have its predecessor or, if it is *)
(* a keyframe, to any reader; a reader without room starts to wait.        *)
LEMMA WritePreserves ==
  ASSUME FiniteSetFacts, IInv, NEW key \in BOOLEAN, Write(key)
  PROVE  IInv'
<1> USE DEF IInv
<1> DEFINE offered == Offered(key)
           lost == {r \in offered : ~HasRoom(r)}
<1>h. head \in Nat /\ Len(keys) = head /\ head' = head + 1 /\ keys' = Append(keys, key)
  BY MaxFramesAssumption, SMTT(20) DEF TypeOK, HandlesConsistent, Write
<1>o. offered \subseteq subs /\ lost \subseteq offered /\ subs \subseteq Readers
  BY DEF Offered, TypeOK
<1>a. \A r \in offered : ~needsIFrame[r] \/ key
  BY DEF Offered
<1>b. \A r \in subs : r \notin offered => needsIFrame[r]
  BY DEF Offered
<1>u. UNCHANGED <<closed, subs, handle, taken, chanClosed, eof>>
  BY DEF Write
<1>s. \A r \in Readers : sent'[r] = IF r \in offered \ lost THEN Append(sent[r], head)
                                                          ELSE sent[r]
  BY DEF Write
<1>i. \A r \in Readers : needsIFrame'[r] = IF r \in offered THEN r \in lost ELSE needsIFrame[r]
  BY DEF Write
<1>d. \A r \in Readers : drops'[r] = IF r \in lost THEN drops[r] + 1 ELSE drops[r]
  BY DEF Write
<1>r. \A r \in offered \ lost : HasRoom(r)
  OBVIOUS
<1>k. /\ keys'[head + 1] = key
      /\ \A f \in 0..(head - 1) : keys'[f + 1] = keys[f + 1]
  <2>1. keys \in Seq(BOOLEAN)
    BY DEF TypeOK
  <2> QED
    BY <2>1, <1>h, SeqAppended, SMTT(20)
<1>t. \A r \in Readers : /\ sent[r] \in Seq(Nat) /\ taken[r] \in Nat /\ drops[r] \in Nat
                         /\ Len(sent[r]) \in Nat /\ (sent[r] # << >> => Len(sent[r]) > 0)
  BY SeqEmpty, SeqShape, SMTT(20) DEF TypeOK
<1>g. \A r \in offered \ lost :
         /\ sent'[r] \in Seq(Nat) /\ sent'[r] # << >>
         /\ Len(sent'[r]) = Len(sent[r]) + 1 /\ sent'[r][Len(sent[r]) + 1] = head
         /\ \A i \in 1..Len(sent[r]) : sent'[r][i] = sent[r][i]
  <2> TAKE r \in offered \ lost
  <2>1. r \in Readers
    BY <1>o
  <2> HIDE DEF offered, lost
  <2>2. sent'[r] = Append(sent[r], head)
    BY <2>1, <1>s
  <2>3. sent[r] \in Seq(Nat) /\ Len(sent[r]) \in Nat /\ head \in Nat
    BY <2>1, <1>t, <1>h
  <2>4. /\ Append(sent[r], head) \in Seq(Nat) /\ Append(sent[r], head) # << >>
        /\ Len(Append(sent[r], head)) = Len(sent[r]) + 1
        /\ Append(sent[r], head)[Len(sent[r]) + 1] = head
        /\ \A i \in 1..Len(sent[r]) : Append(sent[r], head)[i] = sent[r][i]
    BY ONLY <2>3, SeqAppended
  <2> QED
    BY ONLY <2>2, <2>4
<1>e. \A r \in Readers : r \notin offered \ lost => sent'[r] = sent[r]
  BY <1>s
<1>l. totalDrops' = totalDrops + Cardinality(lost)
  BY DEF Write
<1>m. /\ sent' = [r \in Readers |-> sent'[r]]
      /\ needsIFrame' = [r \in Readers |-> needsIFrame'[r]]
      /\ drops' = [r \in Readers |-> drops'[r]]
  BY DEF Write
<1> HIDE DEF offered, lost
<1>1. TypeOK'
  <2>1. frames' \in [Slots -> Nat \cup {NoFrame}]
    BY <1>h, SlotOfFrame DEF Write, TypeOK
  <2>2. head' \in 0..MaxFrames
    BY <1>h, MaxFramesAssumption, SMTT(20) DEF Write
  <2>3. keys' \in Seq(BOOLEAN)
    BY <1>h, SMTT(20) DEF TypeOK
  <2>4. sent' \in [Readers -> Seq(Nat)]
    <3>1. \A r \in Readers : sent'[r] \in Seq(Nat)
      BY <1>e, <1>g, <1>t
    <3> QED
      BY <3>1, <1>m
  <2>5. needsIFrame' \in [Readers -> BOOLEAN]
    <3>1. \A r \in Readers : needsIFrame'[r] \in BOOLEAN
      <4> TAKE r \in Readers
      <4>1. CASE r \in offered
        <5>1. needsIFrame'[r] = (r \in lost)
          BY <4>1, <1>i
        <5>2. (r \in lost) \in BOOLEAN
          BY SMTT(20)
        <5> QED
          BY ONLY <5>1, <5>2
      <4>2. CASE r \notin offered
        BY <4>2, <1>i DEF TypeOK
      <4> QED
        BY <4>1, <4>2
    <3> QED
      BY <3>1, <1>m
  <2>6. drops' \in [Readers -> Nat]
    <3>1. \A r \in Readers : drops'[r] \in Nat
      BY <1>d, <1>t, SMTT(20)
    <3> QED
      BY <3>1, <1>m
  <2>7. totalDrops' \in Nat
    <3>1. IsFiniteSet(lost)
      BY <1>o, ReadersAssumption DEF FiniteSetFacts
    <3>2. Cardinality(lost) \in Nat
      BY <3>1 DEF FiniteSetFacts
    <3> QED
      BY <3>2, <1>l, SMTT(20) DEF TypeOK
  <2> QED
    BY <1>u, <2>1, <2>2, <2>3, <2>4, <2>5, <2>6, <2>7 DEF TypeOK
<1>2. HistoryIsRecent'
  <2> SUFFICES ASSUME NEW i \in 0..head, head + 1 - i <= Capacity
               PROVE  frames'[i % Capacity] = i
    BY <1>h, SMTT(20) DEF HistoryIsRecent
  <2>1. frames' = [frames EXCEPT ![head % Capacity] = head]
    BY DEF Write
  <2>2. CASE i = head
    BY <2>1, <2>2, <1>h, SlotOfFrame DEF TypeOK
  <2>3. CASE i < head
    <3>1. i % Capacity # head % Capacity
      <4>1. i \in Nat /\ head \in Nat /\ head - i < Capacity
        BY <1>h, CapacityAssumption, SMTT(20)
      <4> QED
        BY <4>1, <2>3, NearbyFramesDifferentSlots
    <3>2. frames[i % Capacity] = i
      BY <2>3, <1>h, CapacityAssumption, SMTT(20) DEF HistoryIsRecent
    <3>3. i % Capacity \in Slots
      BY <1>h, SlotOfFrame, SMTT(20)
    <3> QED
      BY <2>1, <3>1, <3>2, <3>3 DEF TypeOK
  <2> QED
    BY <2>2, <2>3, <1>h, SMTT(20)
<1>3. HandlesConsistent'
  <2>1. Len(keys') = head'
    BY <1>h, SMTT(20) DEF TypeOK
  <2>2. \A r \in Readers : r \notin subs => /\ sent'[r] = sent[r] /\ drops'[r] = drops[r]
                                           /\ needsIFrame'[r] = needsIFrame[r]
    BY <1>o, <1>s, <1>i, <1>d
  <2> QED
    BY <2>1, <2>2, <1>u DEF HandlesConsistent
<1>4. SentWereWritten'
  <2> SUFFICES ASSUME NEW r \in Readers, NEW i \in 1..Len(sent'[r])
               PROVE  sent'[r][i] < head + 1
    BY <1>h DEF SentWereWritten
  <2>1. CASE r \in offered \ lost
    <3>1. CASE i <= Len(sent[r])
      <4>1. i \in 1..Len(sent[r]) /\ sent[r][i] \in Nat
        BY <3>1, <1>t, SeqElement, SMTT(20)
      <4>2. sent'[r][i] = sent[r][i] /\ sent[r][i] < head
        BY <2>1, <4>1, <1>g DEF SentWereWritten
      <4> QED
        BY <4>1, <4>2, <1>h, SMTT(20)
    <3>2. CASE i = Len(sent[r]) + 1
      BY <2>1, <3>2, <1>g, <1>h, SMTT(20)
    <3> QED
      BY <2>1, <3>1, <3>2, <1>g, <1>t, SMTT(20)
  <2>2. CASE r \notin offered \ lost
    BY <2>2, <1>e, <1>t, <1>h, SMTT(20) DEF SentWereWritten
  <2> QED
    BY <2>1, <2>2
<1>5. DecodableDelivery'
  <2> SUFFICES ASSUME NEW r \in Readers, NEW i \in 1..Len(sent'[r])
               PROVE  \/ keys'[sent'[r][i] + 1]
                      \/ sent'[r][i] = 0
                      \/ i > 1 /\ sent'[r][i - 1] = sent'[r][i] - 1
    BY DEF DecodableDelivery, IsKeyFrame
  <2>1. ASSUME i \in 1..Len(sent[r]), sent'[r][i] = sent[r][i],
               i > 1 => sent'[r][i - 1] = sent[r][i - 1]
        PROVE  \/ keys'[sent'[r][i] + 1]
               \/ sent'[r][i] = 0
               \/ i > 1 /\ sent'[r][i - 1] = sent'[r][i] - 1
    <3>1. sent[r][i] \in 0..(head - 1)
      BY <2>1, <1>t, <1>h, SMTT(20) DEF SentWereWritten
    <3> QED
      BY <2>1, <3>1, <1>k DEF DecodableDelivery, IsKeyFrame
  <2>2. CASE r \notin offered \ lost
    BY <2>1, <2>2, <1>e
  <2>3. CASE r \in offered \ lost /\ i <= Len(sent[r])
    <3>1. i \in 1..Len(sent[r]) /\ (i > 1 => i - 1 \in 1..Len(sent[r]))
      BY <2>3, <1>t, SMTT(20)
    <3> QED
      BY <2>1, <2>3, <3>1, <1>g
  <2>4. CASE r \in offered \ lost /\ i > Len(sent[r])
    <3>1. i = Len(sent[r]) + 1 /\ sent'[r][i] = head
      BY <2>4, <1>g, <1>t, SMTT(20)
    <3>2. CASE key
      BY <3>1, <3>2, <1>k
    <3>3. CASE ~key /\ head > 0
      <4>1. sent[r] # << >> /\ sent[r][Len(sent[r])] = head - 1
        BY <2>4, <3>3, <1>a, <1>o DEF ReadersInSync
      <4>2. i > 1 /\ sent'[r][i - 1] = sent[r][Len(sent[r])]
        <5>1. i - 1 = Len(sent[r]) /\ i - 1 \in 1..Len(sent[r])
          BY <3>1, <4>1, <1>t, SMTT(20)
        <5> QED
          BY <2>4, <5>1, <1>g, SMTT(20)
      <4> QED
        BY <3>1, <4>1, <4>2
    <3> QED
      BY <3>1, <3>2, <3>3, <1>h, SMTT(20)
  <2> QED
    BY <2>2, <2>3, <2>4, <1>t, SMTT(20)
<1>6. ChannelsWithinCapacity'
  <2> SUFFICES ASSUME NEW r \in Readers
               PROVE  Len(sent'[r]) - taken[r] \in 0..Capacity
    BY <1>u DEF ChannelsWithinCapacity, Queued
  <2>1. Len(sent[r]) - taken[r] \in 0..Capacity
    BY DEF ChannelsWithinCapacity, Queued
  <2>2. CASE r \in offered \ lost
    <3>1. Len(sent[r]) - taken[r] < Capacity
      BY <2>2, <1>r DEF HasRoom, Queued
    <3>2. Len(sent'[r]) = Len(sent[r]) + 1
      BY <2>2, <1>g
    <3> QED
      BY <2>1, <3>1, <3>2, <1>t, CapacityAssumption, SMTT(20)
  <2>3. CASE r \notin offered \ lost
    BY <2>1, <2>3, <1>e
  <2> QED
    BY <2>2, <2>3
<1>7. ReadersInSync'
  <2> SUFFICES ASSUME NEW r \in subs
               PROVE  (/\ ~needsIFrame[r] /\ head > 0 =>
                             sent[r] # << >> /\ sent[r][Len(sent[r])] = head - 1
                       /\ needsIFrame[r] /\ drops[r] = 0 => sent[r] = << >>
                       /\ drops[r] = 0 =>
                             \A i \in 2..Len(sent[r]) : sent[r][i] = sent[r][i - 1] + 1)'
    BY <1>u DEF ReadersInSync
  <2>t. r \in Readers /\ sent[r] \in Seq(Nat) /\ drops[r] \in Nat /\ Len(sent[r]) \in Nat
    BY <1>o, <1>t
  <2>1. CASE r \notin offered
    <3>1. /\ sent'[r] = sent[r] /\ drops'[r] = drops[r] /\ needsIFrame'[r] = needsIFrame[r]
          /\ needsIFrame[r]
      BY <2>1, <2>t, <1>o, <1>s, <1>i, <1>d, <1>b
    <3> QED
      BY <3>1, SMTT(20) DEF ReadersInSync
  <2>2. CASE r \in lost
    <3>1. drops'[r] = drops[r] + 1 /\ needsIFrame'[r]
      BY <2>2, <2>t, <1>o, <1>i, <1>d
    <3> QED
      BY <3>1, <2>t, SMTT(20)
  <2>3. CASE r \in offered \ lost
    <3>1. drops'[r] = drops[r] /\ ~needsIFrame'[r]
      BY <2>3, <2>t, <1>i, <1>d
    <3>2. /\ sent'[r] # << >> /\ Len(sent'[r]) = Len(sent[r]) + 1
          /\ sent'[r][Len(sent'[r])] = head'  - 1
          /\ \A i \in 1..Len(sent[r]) : sent'[r][i] = sent[r][i]
      BY <2>3, <1>g, <1>h, SMTT(20)
    <3>3. ASSUME drops'[r] = 0, NEW i \in 2..Len(sent'[r])
          PROVE  sent'[r][i] = sent'[r][i - 1] + 1
      <4>1. /\ needsIFrame[r] => sent[r] = << >>
            /\ \A j \in 2..Len(sent[r]) : sent[r][j] = sent[r][j - 1] + 1
        BY <3>1, <3>3 DEF ReadersInSync
      <4>2. CASE i <= Len(sent[r])
        <5>1. /\ i \in 2..Len(sent[r]) /\ i \in 1..Len(sent[r])
              /\ i - 1 \in 1..Len(sent[r])
          BY <4>2, <2>t, SMTT(20)
        <5> QED
          BY <4>1, <5>1, <3>2
      <4>3. CASE i = Len(sent[r]) + 1
        <5>1. sent[r] # << >>
          BY <4>3, <2>t, SMTT(20)
        <5>2. head > 0
          <6>1. 1 \in 1..Len(sent[r]) /\ sent[r][1] \in Nat
            BY <4>3, <2>t, SeqElement, SMTT(20)
          <6> QED
            BY <6>1, <2>t, <1>h, SMTT(20) DEF SentWereWritten
        <5>3. sent[r][Len(sent[r])] = head - 1
          BY <4>1, <5>1, <5>2 DEF ReadersInSync
        <5> QED
          <6>1. /\ sent'[r][i] = head /\ i - 1 = Len(sent[r])
                /\ i - 1 \in 1..Len(sent[r])
            BY <4>3, <3>2, <2>t, <1>h, SMTT(20)
          <6>2. sent'[r][i - 1] = sent[r][Len(sent[r])]
            BY <6>1, <3>2
          <6> QED
            BY <5>3, <6>1, <6>2, <1>h, SMTT(20)
      <4> QED
        BY <4>2, <4>3, <3>2, <2>t, SMTT(20)
    <3> QED
      BY <3>1, <3>2, <3>3
  <2> QED
    BY <2>1, <2>2, <2>3
<1> QED
  BY <1>1, <1>2, <1>3, <1>4, <1>5, <1>6, <1>7

-----------------------------------------------------------------------------
(* All steps                                                               *)

(* Every step keeps the inductive invariant.                               *)
LEMMA StepPreserves ==
  ASSUME FiniteSetFacts, IInv, [Next]_vars
  PROVE  IInv'
<1>1. ASSUME NEW key \in BOOLEAN, Write(key)
      PROVE  IInv'
  BY <1>1, WritePreserves
<1>2. ASSUME NEW r \in Readers, Subscribe(r)
      PROVE  IInv'
  BY <1>2, SubscribePreserves
<1>3. ASSUME NEW r \in Readers, CloseReader(r)
      PROVE  IInv'
  BY <1>3, CloseReaderPreserves
<1>4. ASSUME NEW r \in Readers, Read(r)
      PROVE  IInv'
  BY <1>4, ReadPreserves
<1>5. CASE Close
  BY <1>5, ClosePreserves
<1>6. CASE UNCHANGED vars
  BY <1>6 DEF vars, IInv, TypeOK, HistoryIsRecent, HandlesConsistent, SentWereWritten,
              DecodableDelivery, IsKeyFrame, ChannelsWithinCapacity, Queued, ReadersInSync
<1> QED
  BY <1>1, <1>2, <1>3, <1>4, <1>5, <1>6 DEF Next

(* No step sends on a closed channel, or closes it again.                  *)
LEMMA ClosedStaysShut ==
  ASSUME IInv, [Next]_vars
  PROVE  [\A r \in Readers : chanClosed[r] =>
             /\ sent'[r] = sent[r]
             /\ r \notin subs]_vars
<1> SUFFICES ASSUME Next, NEW r \in Readers, chanClosed[r]
             PROVE  sent'[r] = sent[r] /\ r \notin subs
  OBVIOUS
<1>1. r \notin subs /\ handle[r] # "new"
  BY DEF IInv, HandlesConsistent
<1>2. ASSUME NEW key \in BOOLEAN, Write(key)
      PROVE  sent'[r] = sent[r]
  BY <1>1, <1>2 DEF Write, Offered
<1>3. ASSUME NEW q \in Readers, Subscribe(q)
      PROVE  sent'[r] = sent[r]
  BY <1>1, <1>3 DEF Subscribe, IInv, TypeOK
<1>4. ASSUME NEW q \in Readers, CloseReader(q) \/ Read(q)
      PROVE  sent'[r] = sent[r]
  BY <1>4 DEF CloseReader, Read
<1>5. CASE Close
  BY <1>1, <1>5 DEF Close
<1> QED
  BY <1>1, <1>2, <1>3, <1>4, <1>5 DEF Next

-----------------------------------------------------------------------------
(* Refinement of LiveFeed                                                  *)

(* A Write publishes the frame to the readers that were offered it and had *)
(* room: each of them has the frame before it, or the frame is a keyframe. *)
LEMMA WriteRefines ==
  ASSUME IInv, NEW key \in BOOLEAN, Write(key)
  PROVE  Feed!Publish(key)
<1> DEFINE given == {r \in Offered(key) : HasRoom(r)}
<1>h. head \in Nat /\ Len(keys) = head /\ keys' = Append(keys, key) /\ ~closed
  BY MaxFramesAssumption, SMTT(20) DEF IInv, TypeOK, HandlesConsistent, Write
<1>1. ASSUME NEW r \in given
      PROVE  /\ r \in Readers /\ [q \in Readers |-> Phase(q)][r] = "live"
             /\ (key \/ Feed!UpToDate(r))
  <2>1. r \in subs /\ r \in Readers /\ (~needsIFrame[r] \/ key)
    BY DEF Offered, IInv, TypeOK
  <2>2. Phase(r) = "live"
    BY <2>1 DEF IInv, HandlesConsistent, Phase
  <2>3. ASSUME head > 0
        PROVE  key \/ Feed!UpToDate(r)
    BY <2>1, <2>3, <1>h DEF IInv, ReadersInSync, Feed!UpToDate, Feed!Count
  <2>4. ASSUME head = 0
        PROVE  Feed!UpToDate(r)
    <3>1. sent[r] = << >>
      <4>1. sent[r] \in Seq(Nat) /\ \A i \in 1..Len(sent[r]) : sent[r][i] \in Nat
        BY <2>1, SeqElement DEF IInv, TypeOK
      <4>2. \A i \in 1..Len(sent[r]) : FALSE
        BY <2>1, <2>4, <4>1, SMTT(20) DEF IInv, SentWereWritten
      <4> QED
        BY <4>1, <4>2, SeqShape, SeqEmpty, SMTT(20)
    <3> QED
      BY <3>1, <2>4, <1>h DEF Feed!UpToDate, Feed!Count
  <2> QED
    BY <2>1, <2>2, <2>3, <2>4, <1>h, SMTT(20)
<1>2. given \in SUBSET {r \in Readers : /\ [q \in Readers |-> Phase(q)][r] = "live"
                                       /\ (key \/ Feed!UpToDate(r))}
  BY <1>1
<1>3. sent' = [r \in Readers |-> IF r \in given THEN Append(sent[r], Len(keys)) ELSE sent[r]]
  BY <1>h DEF Write
<1>4. UNCHANGED <<taken, [q \in Readers |-> Phase(q)]>>
  BY DEF Write, Phase
<1> HIDE DEF given
<1> QED
  BY <1>2, <1>3, <1>4, <1>h DEF Feed!Publish, Feed!Count

(* A Subscribe joins, with the frames since the newest keyframe that the   *)
(* history still holds, with nothing, or after the end.                    *)
LEMMA SubscribeRefines ==
  ASSUME FiniteSetFacts, IInv, NEW r \in Readers, Subscribe(r)
  PROVE  Feed!Join(r)
<1> DEFINE stage == [q \in Readers |-> Phase(q)]
<1>h. head \in Nat /\ Len(keys) = head /\ handle[r] = "new" /\ UNCHANGED <<keys, taken>>
  BY MaxFramesAssumption, SMTT(20) DEF IInv, TypeOK, HandlesConsistent, Subscribe
<1>p. stage[r] = "new"
  BY <1>h DEF Phase
<1>f. handle' = [handle EXCEPT ![r] = "open"]
  BY DEF Subscribe
<1>1. CASE closed
  <2>1. subs' = {} /\ subs = {} /\ sent' = sent
    BY <1>1 DEF Subscribe, IInv, HandlesConsistent
  <2>2. stage' = [stage EXCEPT ![r] = "ended"]
    BY <2>1, <1>f DEF Phase, IInv, TypeOK
  <2> QED
    BY <1>h, <1>p, <2>1, <2>2 DEF Feed!Join
<1>2. CASE ~closed
  <2>1. subs' = subs \cup {r}
    BY <1>2 DEF Subscribe
  <2>2. stage' = [stage EXCEPT ![r] = "live"]
    BY <2>1, <1>f DEF Phase, IInv, TypeOK
  <2>3. CASE RecentIFrames # {}
    <3>1. /\ LastIFrame \in 0..(head - 1) /\ IsKeyFrame(LastIFrame)
          /\ Preload(LastIFrame) = [n \in 1..(head - LastIFrame) |-> LastIFrame + n - 1]
      BY <2>3, LastIFrameFound, PreloadIsARun, SMTT(20)
    <3>2. sent' = [sent EXCEPT ![r] = Preload(LastIFrame)]
      BY <1>2, <2>3 DEF Subscribe
    <3> QED
      BY <1>h, <1>p, <2>2, <3>1, <3>2 DEF Feed!Join, Feed!Since, Feed!Count, IsKeyFrame
  <2>4. CASE RecentIFrames = {}
    <3>1. sent' = sent
      BY <1>2, <2>4 DEF Subscribe
    <3> QED
      BY <1>h, <1>p, <2>2, <3>1 DEF Feed!Join
  <2> QED
    BY <2>3, <2>4
<1> QED
  BY <1>1, <1>2 DEF IInv, TypeOK


(* Every step of the buffer is one of the feed, or leaves it alone.        *)
LEMMA StepRefines ==
  ASSUME FiniteSetFacts, IInv, [Next]_vars
  PROVE  [Feed!Next]_(Feed!feedVars)
<1> DEFINE stage == [q \in Readers |-> Phase(q)]
<1>1. ASSUME NEW key \in BOOLEAN, Write(key)
      PROVE  Feed!Next
  BY <1>1, WriteRefines DEF Feed!Next
<1>2. ASSUME NEW r \in Readers, Subscribe(r)
      PROVE  Feed!Next
  BY <1>2, SubscribeRefines DEF Feed!Next
<1>3. ASSUME NEW r \in Readers, CloseReader(r)
      PROVE  Feed!Next
  <2>1. /\ UNCHANGED <<keys, sent, taken>> /\ r \in subs
        /\ subs' = subs \ {r} /\ handle' = [handle EXCEPT ![r] = "left"]
    BY <1>3 DEF CloseReader
  <2>2. stage' = [q \in Readers |-> IF q \in {r} THEN "ended" ELSE stage[q]]
    BY <2>1 DEF Phase, IInv, TypeOK
  <2>3. {r} \in SUBSET {q \in Readers : stage[q] = "live"}
    BY <2>1 DEF Phase, IInv, HandlesConsistent
  <2> QED
    BY <2>1, <2>2, <2>3 DEF Feed!Next, Feed!End
<1>4. ASSUME NEW r \in Readers, Read(r)
      PROVE  [Feed!Next]_(Feed!feedVars)
  <2>1. UNCHANGED <<keys, sent, stage>>
    BY <1>4 DEF Read, Phase
  <2>2. CASE taken' = taken
    BY <2>1, <2>2 DEF Feed!feedVars
  <2>3. CASE taken[r] < Len(sent[r]) /\ taken' = [taken EXCEPT ![r] = @ + 1]
    BY <2>1, <2>3 DEF Feed!Next, Feed!Receive
  <2> QED
    BY <1>4, <2>2, <2>3 DEF Read
<1>5. CASE Close
  <2>1. UNCHANGED <<keys, sent, taken, handle>> /\ subs' = {}
    BY <1>5 DEF Close
  <2>2. stage' = [q \in Readers |-> IF q \in subs THEN "ended" ELSE stage[q]]
    BY <2>1 DEF Phase, IInv, TypeOK, HandlesConsistent
  <2>3. subs \in SUBSET {q \in Readers : stage[q] = "live"}
    BY DEF Phase, IInv, TypeOK, HandlesConsistent
  <2> QED
    BY <2>1, <2>2, <2>3 DEF Feed!Next, Feed!End
<1>6. CASE UNCHANGED vars
  BY <1>6 DEF vars, Feed!feedVars, Phase
<1> QED
  BY <1>1, <1>2, <1>3, <1>4, <1>5, <1>6 DEF Next

-----------------------------------------------------------------------------
(* Viewers and parameter sets                                              *)

Places == {"idle", "logs", "params", "header", "sync", "gather", "loop", "send", "ended"}
FramesUpTo(last) == [ver : 1..last, key : BOOLEAN]
InHand(last) == [ver : 0..last, key : BOOLEAN, params : 0..last]

(* What a goroutine at place a has in hand h and keeps as k: a WebSocket   *)
(* and a WebRTC viewer send what they keep, a gRPC call what was stored    *)
(* when it took the frame, and pumpFrames starts with parameter sets.      *)
Sound(kd, a, h, k, last) ==
    /\ a \in {"params", "header", "sync"} => kd = "ws"
    /\ a = "gather" => kd = "webrtc" /\ last > 0
    /\ kd = "webrtc" /\ a \in {"loop", "send"} => k > 0
    /\ a # "send" => ~h.key
    /\ h.key => \/ kd = "grpc" /\ h.params >= h.ver
                \/ kd \in {"ws", "webrtc"} /\ h.params = k

DeliveryInv ==
    /\ kind \in [Clients -> Kinds] /\ version \in Nat
    /\ at \in [Clients -> Places]
    /\ queue \in [Clients -> Seq(FramesUpTo(version))]
    /\ hand \in [Clients -> InHand(version)]
    /\ kept \in [Clients -> 0..version]
    /\ \A v \in Clients : Sound(kind[v], at[v], hand[v], kept[v], version)

LEMMA NoHandTyped ==
    ASSUME NEW last \in Nat
    PROVE  NoHand \in InHand(last) /\ NoHand.key = FALSE
BY SMTT(20) DEF NoHand, InHand

(* A step of one viewer's goroutine.                                       *)
LEMMA ViewerStep ==
    ASSUME DeliveryInv, NEW v \in Clients, NEW a \in Places, NEW q \in Seq(FramesUpTo(version)),
           NEW h \in InHand(version), NEW k \in 0..version, Sound(kind[v], a, h, k, version),
           at' = [at EXCEPT ![v] = a], queue' = [queue EXCEPT ![v] = q],
           hand' = [hand EXCEPT ![v] = h], kept' = [kept EXCEPT ![v] = k],
           UNCHANGED <<kind, version>>
    PROVE  DeliveryInv'
<1>1. /\ at' \in [Clients -> Places] /\ queue' \in [Clients -> Seq(FramesUpTo(version))]
      /\ hand' \in [Clients -> InHand(version)] /\ kept' \in [Clients -> 0..version]
  BY DEF DeliveryInv
<1>2. ASSUME NEW w \in Clients PROVE Sound(kind[w], at'[w], hand'[w], kept'[w], version)
  <2>1. CASE w = v
    BY <2>1 DEF DeliveryInv
  <2>2. CASE w # v
    BY <2>2 DEF DeliveryInv
  <2> QED BY <2>1, <2>2
<1> QED BY <1>1, <1>2 DEF DeliveryInv

(* Steps of others leave the goroutine where it is.                        *)
LEMMA ElsewhereSteps ==
    ASSUME DeliveryInv, UNCHANGED <<kind, version, at, queue, hand, kept>>
    PROVE  DeliveryInv'
BY DEF DeliveryInv

(* The camera: what was stored before stays older than what is stored now. *)
LEMMA NewParamsStep ==
    ASSUME DeliveryInv, NewParams
    PROVE  DeliveryInv'
<1> USE DEF clientVars, readVars
<1>1. version' = version + 1 /\ version \in Nat /\ UNCHANGED <<kind, at, queue, hand, kept>>
  BY DEF DeliveryInv, NewParams
<1>2. /\ 0..version \subseteq 0..(version + 1) /\ 1..version \subseteq 1..(version + 1)
  BY <1>1, SMTT(20)
<1>3. FramesUpTo(version) \subseteq FramesUpTo(version + 1) /\ InHand(version) \subseteq InHand(version + 1)
  BY <1>2 DEF FramesUpTo, InHand
<1>4. queue' \in [Clients -> Seq(FramesUpTo(version + 1))]
  BY <1>1, <1>3, SMTT(20) DEF DeliveryInv
<1>5. hand' \in [Clients -> InHand(version + 1)] /\ kept' \in [Clients -> 0..(version + 1)]
  BY <1>1, <1>2, <1>3 DEF DeliveryInv
<1>6. \A v \in Clients : Sound(kind[v], at[v], hand[v], kept[v], version + 1)
  BY <1>1, SMTT(20) DEF DeliveryInv, Sound
<1> QED BY <1>1, <1>4, <1>5, <1>6, SMTT(20) DEF DeliveryInv

LEMMA WriteFrameStep ==
    ASSUME DeliveryInv, NEW key \in BOOLEAN, NEW readers, WriteFrame(key, readers)
    PROVE  DeliveryInv'
<1>1. version \in Nat /\ version \in 1..version
  BY SMTT(20) DEF DeliveryInv, WriteFrame
<1>2. PICK f : f = [ver |-> version, key |-> key]
  OBVIOUS
<1>3. f \in FramesUpTo(version)
  BY <1>1, <1>2 DEF FramesUpTo
<1>4. queue' = [v \in Clients |-> IF v \in readers THEN Append(queue[v], f) ELSE queue[v]]
  BY <1>2 DEF WriteFrame
<1>5. queue' \in [Clients -> Seq(FramesUpTo(version))]
  BY <1>3, <1>4, SMTT(20) DEF DeliveryInv
<1> QED BY <1>5 DEF DeliveryInv, WriteFrame

(* A reader that is made, with the frames from the last keyframe on.       *)
LEMMA ReaderMade ==
    ASSUME DeliveryInv, NEW v \in Clients, NEW pc \in Places, NewReader(v, pc), NEW k \in 0..version,
           Sound(kind[v], pc, hand[v], k, version), kept' = [kept EXCEPT ![v] = k],
           UNCHANGED <<kind, version, hand>>
    PROVE  DeliveryInv'
<1>1. at' = [at EXCEPT ![v] = pc]
  BY DEF NewReader
<1>2. hand' = [hand EXCEPT ![v] = hand[v]] /\ hand[v] \in InHand(version)
  BY DEF DeliveryInv
<1>3. ASSUME NEW q \in Seq(FramesUpTo(version)), queue' = [queue EXCEPT ![v] = q] PROVE DeliveryInv'
  BY <1>1, <1>2, <1>3, ViewerStep
<1>4. CASE queue' = [queue EXCEPT ![v] = <<>>]
  <2>1. <<>> \in Seq(FramesUpTo(version))
    BY SMTT(20)
  <2> QED BY <2>1, <1>3, <1>4
<1>5. ASSUME NEW n \in 1..version, queue' = [queue EXCEPT ![v] = <<[ver |-> n, key |-> TRUE]>>]
      PROVE  DeliveryInv'
  <2>1. [ver |-> n, key |-> TRUE] \in FramesUpTo(version)
    BY DEF FramesUpTo
  <2>2. <<[ver |-> n, key |-> TRUE]>> \in Seq(FramesUpTo(version))
    BY <2>1, SMTT(20)
  <2> QED BY <2>2, <1>3, <1>5
<1> QED BY <1>4, <1>5 DEF NewReader

(* A goroutine ends with nothing in hand.                                  *)
LEMMA Ending ==
    ASSUME DeliveryInv, NEW v \in Clients, Ends(v), UNCHANGED <<kind, version, kept>>
    PROVE  DeliveryInv'
<1>1. /\ at' = [at EXCEPT ![v] = "ended"] /\ queue' = [queue EXCEPT ![v] = <<>>]
      /\ hand' = [hand EXCEPT ![v] = NoHand]
  BY DEF Ends
<1>2. kept' = [kept EXCEPT ![v] = kept[v]] /\ kept[v] \in 0..version /\ version \in Nat
  BY DEF DeliveryInv
<1>3. NoHand \in InHand(version) /\ NoHand.key = FALSE
  BY <1>2, NoHandTyped
<1>4. Sound(kind[v], "ended", NoHand, kept[v], version)
  BY <1>3 DEF Sound
<1>5. "ended" \in Places /\ <<>> \in Seq(FramesUpTo(version))
  BY SMTT(20) DEF Places
<1> QED BY <1>1, <1>2, <1>3, <1>4, <1>5, ViewerStep

(* A frame is taken in hand.                                               *)
LEMMA Holding ==
    ASSUME DeliveryInv, NEW v \in Clients, queue[v] # <<>>, NEW params \in 0..version, Hold(v, params),
           \/ kind[v] = "grpc" /\ params = version /\ kept' = kept
           \/ kind[v] = "ws" /\ params = kept[v] /\ kept' = kept
           \/ kind[v] = "webrtc" /\ params > 0 /\ kept' = [kept EXCEPT ![v] = params],
           UNCHANGED <<kind, version>>
    PROVE  DeliveryInv'
<1>1. version \in Nat /\ queue[v] \in Seq(FramesUpTo(version)) /\ kept[v] \in 0..version
      /\ kept = [kept EXCEPT ![v] = kept[v]]
  BY DEF DeliveryInv
<1>2. Head(queue[v]) \in FramesUpTo(version) /\ Tail(queue[v]) \in Seq(FramesUpTo(version))
  BY <1>1, SMTT(20)
<1>3. PICK h : h = [ver |-> Head(queue[v]).ver, key |-> Head(queue[v]).key, params |-> params]
  OBVIOUS
<1>4. h \in InHand(version) /\ h.params = params /\ h.ver <= version
  BY <1>1, <1>2, <1>3, SMTT(20) DEF InHand, FramesUpTo
<1>5. /\ at' = [at EXCEPT ![v] = "send"] /\ queue' = [queue EXCEPT ![v] = Tail(queue[v])]
      /\ hand' = [hand EXCEPT ![v] = h]
  BY <1>3 DEF Hold
<1>6. "send" \in Places
  BY DEF Places
<1>7. CASE kind[v] = "grpc" /\ params = version /\ kept' = kept
  <2>1. Sound(kind[v], "send", h, kept[v], version)
    BY <1>4, <1>7 DEF Sound
  <2>2. kept' = [kept EXCEPT ![v] = kept[v]]
    BY <1>1, <1>7
  <2> QED BY <1>1, <1>2, <1>4, <1>5, <1>6, <2>1, <2>2, ViewerStep
<1>8. CASE kind[v] = "ws" /\ params = kept[v] /\ kept' = kept
  <2>1. Sound(kind[v], "send", h, kept[v], version)
    BY <1>4, <1>8 DEF Sound
  <2>2. kept' = [kept EXCEPT ![v] = kept[v]]
    BY <1>1, <1>8
  <2> QED BY <1>1, <1>2, <1>4, <1>5, <1>6, <2>1, <2>2, ViewerStep
<1>9. CASE kind[v] = "webrtc" /\ params > 0 /\ kept' = [kept EXCEPT ![v] = params]
  <2>1. Sound(kind[v], "send", h, params, version)
    BY <1>4, <1>9 DEF Sound
  <2> QED BY <1>2, <1>4, <1>5, <1>6, <1>9, <2>1, ViewerStep
<1> QED BY <1>7, <1>8, <1>9


LEMMA ServingSteps ==
    ASSUME DeliveryInv, NEW v \in Clients, Serve(v) \/ WriteEnds(v) \/ Leave(v)
    PROVE  DeliveryInv'
<1> USE DEF ServeKept
<1>a. /\ version \in Nat /\ kept[v] \in 0..version /\ kept = [kept EXCEPT ![v] = kept[v]]
      /\ hand[v] \in InHand(version) /\ hand = [hand EXCEPT ![v] = hand[v]]
      /\ queue[v] \in Seq(FramesUpTo(version)) /\ queue = [queue EXCEPT ![v] = queue[v]]
      /\ at[v] \in Places /\ at = [at EXCEPT ![v] = at[v]]
      /\ Sound(kind[v], at[v], hand[v], kept[v], version)
  BY DEF DeliveryInv
<1>b. version \in 0..version
  BY <1>a, SMTT(20)
<1>1. CASE TakeFrame(v)
  <2>1. /\ queue[v] # <<>> /\ Hold(v, version) /\ kind[v] = "grpc" /\ kept' = kept
        /\ UNCHANGED <<kind, version>>
    BY <1>1 DEF TakeFrame
  <2> QED BY <2>1, <1>b, Holding
<1>2. CASE TakeForWS(v)
  <2>1. queue[v] # <<>> /\ kind[v] = "ws" /\ kept' = kept /\ UNCHANGED <<kind, version>>
    BY <1>2 DEF TakeForWS
  <2>2. CASE Hold(v, kept[v])
    BY <2>1, <2>2, <1>a, Holding
  <2>3. CASE queue' = [queue EXCEPT ![v] = Tail(@)] /\ UNCHANGED <<at, hand>>
    <3>1. Tail(queue[v]) \in Seq(FramesUpTo(version))
      BY <2>1, <1>a, SMTT(20)
    <3> QED BY <2>1, <2>3, <3>1, <1>a, ViewerStep
  <2> QED BY <1>2, <2>2, <2>3 DEF TakeForWS
<1>3. CASE PumpFrame(v)
  <2>1. PICK params : params = IF Head(queue[v]).key /\ kept[v] = 0 THEN version ELSE kept[v]
    OBVIOUS
  <2>2. /\ queue[v] # <<>> /\ Hold(v, params) /\ kind[v] = "webrtc" /\ at[v] = "loop"
        /\ kept' = [kept EXCEPT ![v] = params] /\ UNCHANGED <<kind, version>>
    BY <1>3, <2>1 DEF PumpFrame
  <2>3. params = kept[v] /\ params > 0
    BY <2>1, <2>2, <1>a, SMTT(20) DEF Sound
  <2> QED BY <2>2, <2>3, <1>a, Holding
<1>4. CASE AwaitParams(v)
  <2>1. /\ at[v] = "params" /\ kept' = [kept EXCEPT ![v] = version] /\ at' = [at EXCEPT ![v] = "header"]
        /\ UNCHANGED <<kind, version, queue, hand>>
    BY <1>4 DEF AwaitParams
  <2>2. Sound(kind[v], "header", hand[v], version, version) /\ "header" \in Places
    BY <2>1, <1>a DEF Sound, Places
  <2> QED BY <2>1, <2>2, <1>a, <1>b, ViewerStep
<1>5. CASE SendHeader(v)
  <2>1. at[v] = "header" /\ UNCHANGED <<kind, version, kept>>
    BY <1>5 DEF SendHeader
  <2>2. CASE NewReader(v, "sync") /\ UNCHANGED hand
    <3>1. Sound(kind[v], "sync", hand[v], kept[v], version) /\ "sync" \in Places
      BY <2>1, <1>a DEF Sound, Places
    <3> QED BY <2>1, <2>2, <3>1, <1>a, ReaderMade
  <2>3. CASE Ends(v)
    BY <2>1, <2>3, Ending
  <2> QED BY <1>5, <2>2, <2>3 DEF SendHeader
<1>6. CASE Gathered(v)
  <2>1. /\ at[v] = "gather" /\ NewReader(v, "loop") /\ kept' = [kept EXCEPT ![v] = version]
        /\ UNCHANGED <<kind, version, hand>>
    BY <1>6 DEF Gathered
  <2>2. Sound(kind[v], "loop", hand[v], version, version) /\ "loop" \in Places
    BY <2>1, <1>a DEF Sound, Places
  <2> QED BY <2>1, <2>2, <1>b, ReaderMade
<1>7. CASE Sent(v)
  <2>1. /\ at[v] = "send" /\ at' = [at EXCEPT ![v] = "loop"] /\ hand' = [hand EXCEPT ![v] = NoHand]
        /\ UNCHANGED <<kind, version, queue, kept>>
    BY <1>7 DEF Sent
  <2>2. NoHand \in InHand(version) /\ NoHand.key = FALSE
    BY <1>a, NoHandTyped
  <2>3. Sound(kind[v], "loop", NoHand, kept[v], version) /\ "loop" \in Places
    BY <2>1, <2>2, <1>a DEF Sound, Places
  <2> QED BY <2>1, <2>2, <2>3, <1>a, ViewerStep
<1>8. CASE SendFails(v) \/ Leave(v)
  BY <1>8, Ending DEF SendFails, Leave
<1> QED BY <1>1, <1>2, <1>3, <1>4, <1>5, <1>6, <1>7, <1>8 DEF Serve, WriteEnds

(* A client that has not come has no goroutine.                            *)
Absent ==
    /\ conn \in [Clients -> {"none", "open", "gone"}] /\ at \in [Clients -> Places]
    /\ \A v \in Clients : conn[v] = "none" => at[v] = "idle"

LEMMA ComingSteps ==
    ASSUME DeliveryInv, Absent, NEW v \in Clients,
           StreamFrames(v) \/ StreamWS(v) \/ HandleOffer(v) \/ StreamLogs(v)
    PROVE  DeliveryInv'
<1> USE DEF peerVars
<1>a. /\ version \in Nat /\ kept[v] \in 0..version /\ kept = [kept EXCEPT ![v] = kept[v]]
      /\ hand[v] \in InHand(version) /\ hand = [hand EXCEPT ![v] = hand[v]]
      /\ queue[v] \in Seq(FramesUpTo(version)) /\ queue = [queue EXCEPT ![v] = queue[v]]
      /\ Sound(kind[v], at[v], hand[v], kept[v], version)
  BY DEF DeliveryInv
<1>b. ~hand[v].key
  BY <1>a DEF Absent, Sound, StreamFrames, StreamWS, HandleOffer, StreamLogs
<1>1. CASE StreamFrames(v)
  <2>1. NewReader(v, "loop") /\ kind[v] = "grpc" /\ UNCHANGED <<kind, version, hand, kept>>
    BY <1>1 DEF StreamFrames
  <2>2. Sound(kind[v], "loop", hand[v], kept[v], version) /\ "loop" \in Places
    BY <2>1, <1>b DEF Sound, Places
  <2> QED BY <2>1, <2>2, <1>a, ReaderMade
<1>2. CASE StreamWS(v) \/ StreamLogs(v) \/ HandleOffer(v)
  <2>1. PICK a \in {"params", "logs", "gather", "ended"} :
          /\ at' = [at EXCEPT ![v] = a]
          /\ a = "params" => kind[v] = "ws"
          /\ a = "gather" => kind[v] = "webrtc" /\ version > 0
    BY <1>2 DEF StreamWS, StreamLogs, HandleOffer
  <2>2. UNCHANGED <<kind, version, queue, hand, kept>>
    BY <1>2 DEF StreamWS, StreamLogs, HandleOffer
  <2>3. Sound(kind[v], a, hand[v], kept[v], version) /\ a \in Places
    BY <2>1, <1>b DEF Sound, Places
  <2> QED BY <2>1, <2>2, <2>3, <1>a, ViewerStep
<1> QED BY <1>1, <1>2

(* Who has come stays until the process is started again.                  *)
LEMMA AbsentStep ==
    ASSUME Absent, DeliveryInv', conn' \in [Clients -> {"none", "open", "gone"}],
           \A v \in Clients : /\ conn'[v] = "none" => conn[v] = "none"
                              /\ at'[v] = at[v] \/ at[v] # "idle" \/ conn'[v] # "none"
    PROVE  Absent'
BY DEF Absent, DeliveryInv

(* Before the first frame, and after a restart.                            *)
LEMMA FreshViewers ==
    ASSUME kind' \in [Clients -> Kinds], version' = 0,
           conn' = [v \in Clients |-> "none"], at' = [v \in Clients |-> "idle"],
           queue' = [v \in Clients |-> <<>>], hand' = [v \in Clients |-> NoHand],
           kept' = [v \in Clients |-> 0]
    PROVE  DeliveryInv' /\ Absent'
<1>1. NoHand \in InHand(0) /\ NoHand.key = FALSE
  BY NoHandTyped
<1>2. 0 \in 0..0 /\ 0 \in Nat /\ "idle" \in Places
  BY SMTT(20) DEF Places
<1>3. \A v \in Clients : Sound(kind'[v], at'[v], hand'[v], kept'[v], version')
  BY <1>1 DEF Sound
<1> QED BY <1>1, <1>2, <1>3, SMTT(20) DEF DeliveryInv, Absent

LEMMA DeliveryInitInv == DeliveryInit => DeliveryInv /\ Absent
<1> SUFFICES ASSUME DeliveryInit PROVE DeliveryInv /\ Absent
  OBVIOUS
<1> USE DEF DeliveryInit
<1>1. NoHand \in InHand(0) /\ NoHand.key = FALSE
  BY NoHandTyped
<1>2. 0 \in 0..0 /\ 0 \in Nat /\ "idle" \in Places /\ kind \in [Clients -> Kinds]
  BY DeliveryAssumption, SMTT(20) DEF Places
<1>3. \A v \in Clients : Sound(kind[v], at[v], hand[v], kept[v], version)
  BY <1>1 DEF Sound
<1> QED BY <1>1, <1>2, <1>3, SMTT(20) DEF DeliveryInv, Absent

LEMMA DeliveryNextInv ==
    ASSUME DeliveryInv, Absent, [DeliveryNext]_deliveryVars
    PROVE  DeliveryInv' /\ Absent'
<1> USE DEF clientVars, readVars, peerVars
<1>a. conn \in [Clients -> {"none", "open", "gone"}] /\ at \in [Clients -> Places]
  BY DEF Absent
<1>1. CASE NewParams
  <2>1. DeliveryInv'
    BY <1>1, NewParamsStep
  <2> QED BY <2>1, <1>1, <1>a, AbsentStep DEF NewParams
<1>2. ASSUME NEW key \in BOOLEAN, NEW readers \in SUBSET Clients, WriteFrame(key, readers)
      PROVE  DeliveryInv' /\ Absent'
  <2>1. DeliveryInv'
    BY <1>2, WriteFrameStep
  <2> QED BY <2>1, <1>2, <1>a, AbsentStep DEF WriteFrame
<1>3. ASSUME NEW v \in Clients, StreamFrames(v) \/ StreamWS(v) \/ HandleOffer(v) \/ StreamLogs(v)
      PROVE  DeliveryInv' /\ Absent'
  <2>1. DeliveryInv'
    BY <1>3, ComingSteps
  <2>2. /\ \E c \in {"open", "gone"} : conn' = [conn EXCEPT ![v] = c]
        /\ \E a : at' = [at EXCEPT ![v] = a]
    BY <1>3 DEF StreamFrames, StreamWS, HandleOffer, StreamLogs, NewReader
  <2> QED BY <2>1, <2>2, <1>a, AbsentStep
<1>4. ASSUME NEW v \in Clients, Serve(v) \/ WriteEnds(v) \/ Leave(v)
      PROVE  DeliveryInv' /\ Absent'
  <2>1. DeliveryInv'
    BY <1>4, ServingSteps
  <2>2. at[v] # "idle"
    BY <1>4 DEF Serve, WriteEnds, Leave, TakeFrame, TakeForWS, PumpFrame, AwaitParams, SendHeader, Gathered,
                Sent, SendFails, Reading
  <2>3. conn' = conn \/ conn' = [conn EXCEPT ![v] = "gone"]
    BY <1>4 DEF Serve, WriteEnds, Leave, TakeFrame, TakeForWS, PumpFrame, AwaitParams, SendHeader, Gathered,
                Sent, SendFails, Ends
  <2>4. at' = at \/ \E a : at' = [at EXCEPT ![v] = a]
    <3>1. CASE Ends(v)
      BY <3>1 DEF Ends
    <3>2. CASE ~Ends(v)
      BY <3>2, <1>4 DEF Serve, WriteEnds, Leave, TakeFrame, TakeForWS, PumpFrame, AwaitParams, SendHeader,
                        Gathered, Sent, SendFails, NewReader, Hold
    <3> QED BY <3>1, <3>2
  <2> QED BY <2>1, <2>2, <2>3, <2>4, <1>a, AbsentStep
<1>5. ASSUME NEW v \in Clients,
             \/ ClientLeaves(v) \/ ReaderNotices(v) \/ PeerConnects(v) \/ PeerFails(v) \/ Callbacks(v)
             \/ OnDataChannel(v) \/ ChannelOpens(v) \/ MetadataEnds(v)
      PROVE  DeliveryInv' /\ Absent'
  <2>1. UNCHANGED <<kind, version, at, queue, hand, kept>>
    BY <1>5 DEF ClientLeaves, ReaderNotices, PeerConnects, PeerFails, Callbacks, OnDataChannel, ChannelOpens,
                MetadataEnds, OnICEConnectionStateChange, OnConnected, OnClosed, PeerKept
  <2>2. conn' = conn \/ conn' = [conn EXCEPT ![v] = "gone"]
    BY <1>5 DEF ClientLeaves, ReaderNotices, PeerConnects, PeerFails, Callbacks, OnDataChannel, ChannelOpens,
                MetadataEnds, OnICEConnectionStateChange, OnConnected, OnClosed, PeerKept
  <2>3. DeliveryInv'
    BY <2>1, ElsewhereSteps
  <2> QED BY <2>1, <2>2, <2>3, <1>a, AbsentStep
<1>6. CASE StreamRemoved \/ Signal \/ ShutdownSteps \/ UNCHANGED deliveryVars
  <2>1. UNCHANGED <<kind, version, conn, at, queue, hand, kept>>
    BY <1>6 DEF StreamRemoved, Signal, ShutdownSteps, HTTPShutdown, ForcedShutdown, GracefulStop, ManagerClose,
                RunReturns, SetPhase, deliveryVars
  <2>2. DeliveryInv'
    BY <2>1, ElsewhereSteps
  <2> QED BY <2>1, <2>2, <1>a, AbsentStep
<1>7. CASE StartAgain
  <2>1. kind' \in [Clients -> Kinds]
    BY <1>7 DEF StartAgain, DeliveryInv
  <2> QED BY <2>1, <1>7, FreshViewers DEF StartAgain
<1> QED BY <1>1, <1>2, <1>3, <1>4, <1>5, <1>6, <1>7 DEF DeliveryNext

LEMMA DeliveryInvFits ==
    ASSUME DeliveryInv
    PROVE  ParamsFit
<1> SUFFICES ASSUME NEW v \in Clients, hand[v].key, hand[v].params # hand[v].ver
             PROVE  \/ hand[v].ver < version
                    \/ kind[v] = "ws" /\ kept[v] < version
                    \/ kind[v] = "webrtc" /\ hand[v].params \in 1..(version - 1)
  BY DEF ParamsFit
<1>1. /\ version \in Nat /\ kept[v] \in 0..version /\ hand[v] \in InHand(version)
      /\ Sound(kind[v], at[v], hand[v], kept[v], version)
  BY DEF DeliveryInv
<1>2. hand[v].ver \in 0..version /\ hand[v].params \in 0..version
  BY <1>1 DEF InHand
<1>3. at[v] = "send"
  BY <1>1 DEF Sound
<1> QED BY <1>1, <1>2, <1>3, SMTT(20) DEF Sound

(* A keyframe goes out with the parameter sets it was coded with, unless   *)
(* the camera has changed them since the frame or the viewer's copy was    *)
(* taken (StreamFrames, grpc/server.go; StreamWS, api/ws.go; pumpFrames,   *)
(* webrtc/muxer.go), for any number of viewers and of changes.             *)
THEOREM ViewersGetFittingParams == DeliverySpec => []ParamsFit
<1>1. DeliverySpec => [](DeliveryInv /\ Absent)
  BY DeliveryInitInv, DeliveryNextInv, PTL DEF DeliverySpec
<1> QED BY <1>1, DeliveryInvFits, PTL

-----------------------------------------------------------------------------
(* What holds of the system.                                               *)

INSTANCE FiniteSetTheorems

(* A nonempty bounded set of numbers has a greatest element.               *)
LEMMA GreatestExists ==
  ASSUME NEW n \in Nat, NEW S \in SUBSET (0..n), S # {}
  PROVE  \E m \in S : \A j \in S : j <= m
<1> DEFINE T == {k \in Nat : n - k \in S}
           R == OpToRel(<, Nat)
<1>1. T # {}
  <2>1. PICK s \in S : TRUE
    OBVIOUS
  <2>2. n - s \in T
    BY <2>1, SMTT(20)
  <2> QED
    BY <2>2
<1>2. T \subseteq Nat
  OBVIOUS
<1>3. IsWellFoundedOn(R, Nat)
  BY NatLessThanWellFounded
<1>4. \A x, y \in Nat : <<x, y>> \in R <=> x < y
  BY DEF OpToRel
<1> HIDE DEF R
<1>5. PICK d \in T : \A y \in T : ~(<<y, d>> \in R)
  <2> HIDE DEF T
  <2> QED
    BY <1>1, <1>2, <1>3, WFMin
<1>6. \A j \in S : j <= n - d
  <2> TAKE j \in S
  <2>1. n - j \in T /\ n - j \in Nat /\ d \in Nat
    BY SMTT(20)
  <2>2. ~(n - j < d)
    BY <2>1, <1>4, <1>5
  <2> QED
    BY <2>1, <2>2, SMTT(20)
<1> QED
  BY <1>6

LEMMA FiniteSetsSound == FiniteSetFacts
<1>1. \A S, T : IsFiniteSet(S) /\ T \subseteq S => IsFiniteSet(T) /\ Cardinality(T) \in Nat
  BY FS_Subset, FS_CardinalityType
<1>2. \A n \in Nat : \A S \in SUBSET (0..n) : S # {} => \E m \in S : \A j \in S : j <= m
  BY GreatestExists
<1> QED BY <1>1, <1>2 DEF FiniteSetFacts

(* The inductive invariant holds in every reachable state.                 *)
THEOREM Invariance == Spec => []IInv
<1>1. Init => IInv
  BY InitEstablishes
<1>2. IInv /\ [Next]_vars => IInv'
  BY StepPreserves, FiniteSetsSound
<1> QED
  BY <1>1, <1>2, PTL DEF Spec

(* Every variable of the ring buffer keeps its type (ring.go:32-49).       *)
THEOREM TypeCorrect == Spec => []TypeOK
<1>1. IInv => TypeOK
  BY DEF IInv
<1> QED
  BY <1>1, Invariance, PTL

(* A reader is never sent a frame it cannot decode, whatever was dropped   *)
(* and however it joined (ring.go:29-30, 97-103, 200-235).                 *)
THEOREM DeliveryIsDecodable == Spec => []DecodableDelivery
<1>1. IInv => DecodableDelivery
  BY DEF IInv
<1> QED
  BY <1>1, Invariance, PTL

(* The preload of Subscribe never blocks with the buffer locked            *)
(* (ring.go:217-226): no channel holds more than its capacity.             *)
THEOREM PreloadNeverBlocks == Spec => []ChannelsWithinCapacity
<1>1. IInv => ChannelsWithinCapacity
  BY DEF IInv
<1> QED
  BY <1>1, Invariance, PTL

(* A reader that keeps up gets every frame, whatever the slow ones do      *)
(* (ring.go:27-28).                                                        *)
THEOREM FastReadersMissNothing == Spec => []OnlySlowReadersLoseFrames
<1>1. IInv => OnlySlowReadersLoseFrames
  BY DEF IInv, ReadersInSync, OnlySlowReadersLoseFrames
<1> QED
  BY <1>1, Invariance, PTL

(* No step sends on a closed channel or closes it again, which would panic *)
(* (ring.go:106-107, 159-164).                                             *)
THEOREM NoUseAfterClose == Spec => ClosedChannelsStayShut
<1> QED
  BY ClosedStaysShut, Invariance, PTL DEF Spec, ClosedChannelsStayShut

(* The ring buffer implements the abstract feed for every capacity and     *)
(* every number of readers (ring.go, all operations).                      *)
THEOREM Refinement == Spec => ImplementsLiveFeed
<1>1. Init => Feed!Init
  BY DEF Init, Feed!Init, Phase
<1>2. IInv /\ [Next]_vars => [Feed!Next]_(Feed!feedVars)
  BY StepRefines, FiniteSetsSound
<1> QED
  BY <1>1, <1>2, Invariance, PTL DEF Spec, ImplementsLiveFeed, Feed!Spec

=============================================================================
