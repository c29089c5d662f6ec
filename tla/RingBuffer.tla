----------------------------- MODULE RingBuffer -----------------------------
(***************************************************************************)
(* internal/buffer/ring.go: the circular frame history of one camera and   *)
(* the broadcast of its frames to subscribed readers.                      *)
(*                                                                         *)
(* Write, Subscribe, both Close methods and the preload run under the      *)
(* buffer's mutex, so each is one action.  A reader receives from its      *)
(* channel without the mutex; a receive that falls between the sends of    *)
(* one Write commutes with the sends to the other channels, so it is the   *)
(* same as a receive before or after that Write.                           *)
(*                                                                         *)
(* A frame is its number, counted from 0 in the order of the Writes;       *)
(* keys[f+1] is its IsKeyFrame field.  The channel of reader r holds the   *)
(* frames sent[r] from position taken[r]+1 on: keeping what was already    *)
(* received makes the order of a whole subscription visible.               *)
(***************************************************************************)
EXTENDS Integers, Sequences, FiniteSets

CONSTANTS Readers,      \* subscription handles, each used once
          Capacity,     \* slots of the history and of every channel
          MaxFrames     \* bound on the number of Writes

ASSUME CapacityAssumption == Capacity \in Nat \ {0}
ASSUME MaxFramesAssumption == MaxFrames \in Nat
ASSUME ReadersAssumption == IsFiniteSet(Readers)

VARIABLES
    frames,       \* circular history: slot -> frame number or NoFrame
    head,         \* frames written so far
    closed,       \* the buffer was closed
    keys,         \* IsKeyFrame of every frame written
    subs,         \* registered readers (the subs map and subsSlice)
    handle,       \* handle[r]: "new", "open" (subscribed) or "left" (closed by r)
    sent,         \* sent[r]: frames ever put on r's channel
    taken,        \* taken[r]: frames r has received
    needsIFrame,  \* r waits for a keyframe
    drops,        \* drops[r]: frames dropped for r
    totalDrops,   \* frames dropped for all readers
    chanClosed,   \* r's channel was closed
    eof           \* r has seen the end of the stream

vars == <<frames, head, closed, keys, subs, handle, sent, taken, needsIFrame,
          drops, totalDrops, chanClosed, eof>>

NoFrame == -1
Slots == 0..(Capacity - 1)

IsKeyFrame(f) == keys[f + 1]

(* Frames waiting in r's channel.                                          *)
Queued(r) == Len(sent[r]) - taken[r]

Init ==
    /\ frames = [s \in Slots |-> NoFrame]
    /\ head = 0
    /\ closed = FALSE
    /\ keys = << >>
    /\ subs = {}
    /\ handle = [r \in Readers |-> "new"]
    /\ sent = [r \in Readers |-> << >>]
    /\ taken = [r \in Readers |-> 0]
    /\ needsIFrame = [r \in Readers |-> FALSE]
    /\ drops = [r \in Readers |-> 0]
    /\ totalDrops = 0
    /\ chanClosed = [r \in Readers |-> FALSE]
    /\ eof = [r \in Readers |-> FALSE]

(* The non-blocking send succeeds when the channel has room.               *)
HasRoom(r) == Queued(r) < Capacity

(* Faulty: the resync flag is ignored.                                     *)
OfferedDespiteResync(key) == subs

(* Faulty: the loop over the readers ends at one that has no room.         *)
OfferedUntilFull(key) ==
    {r \in subs : (~needsIFrame[r] \/ key) /\ (HasRoom(r) => \A q \in subs : HasRoom(q))}

(* The readers a Write of a frame tries to send to: those that wait for a  *)
(* keyframe are passed over by any other frame.                            *)
Offered(key) == {r \in subs : ~needsIFrame[r] \/ key}

(* The frame goes into the history and to every reader with room; a reader *)
(* without room loses it and has to wait for the next keyframe.            *)
Write(key) ==
    /\ ~closed
    /\ head < MaxFrames
    /\ frames' = [frames EXCEPT ![head % Capacity] = head]
    /\ head' = head + 1
    /\ keys' = Append(keys, key)
    /\ LET offered == Offered(key)
           lost == {r \in offered : ~HasRoom(r)}
       IN /\ sent' = [r \in Readers |-> IF r \in offered \ lost THEN Append(sent[r], head)
                                                                ELSE sent[r]]
          /\ needsIFrame' = [r \in Readers |-> IF r \in offered THEN r \in lost
                                                                ELSE needsIFrame[r]]
          /\ drops' = [r \in Readers |-> IF r \in lost THEN drops[r] + 1 ELSE drops[r]]
          /\ totalDrops' = totalDrops + Cardinality(lost)
    /\ UNCHANGED <<closed, subs, handle, taken, chanClosed, eof>>

(* findLastIFrameLocked: the keyframes among the last Capacity frames, as  *)
(* the history holds them.                                                 *)
RecentIFrames ==
    {i \in 0..(head - 1) : /\ head - i <= Capacity
                           /\ frames[i % Capacity] # NoFrame
                           /\ IsKeyFrame(frames[i % Capacity])}

LastIFrame == CHOOSE i \in RecentIFrames : \A j \in RecentIFrames : j <= i

(* Faulty: goes on to the slot of the next frame.                          *)
PreloadInclusive(start) ==
    [n \in 1..(head - start + 1) |-> frames[(start + n - 1) % Capacity]]

(* The frames preloaded into a new channel, read out of the history.  The  *)
(* code skips empty slots; HistoryIsRecent shows there are none.           *)
Preload(start) == [n \in 1..(head - start) |-> frames[(start + n - 1) % Capacity]]

(* A new reader gets the history from the newest keyframe on, or waits for *)
(* a keyframe if frames were written and none is left.  On a closed buffer *)
(* it gets a closed channel and is not registered.                         *)
Subscribe(r) ==
    /\ handle[r] = "new"
    /\ handle' = [handle EXCEPT ![r] = "open"]
    /\ \/ /\ closed
          /\ chanClosed' = [chanClosed EXCEPT ![r] = TRUE]
          /\ UNCHANGED <<subs, sent, needsIFrame>>
       \/ /\ ~closed
          /\ subs' = subs \cup {r}
          /\ IF RecentIFrames # {}
             THEN /\ sent' = [sent EXCEPT ![r] = Preload(LastIFrame)]
                  /\ UNCHANGED needsIFrame
             ELSE /\ needsIFrame' = [needsIFrame EXCEPT ![r] = head > 0]
                  /\ UNCHANGED sent
          /\ UNCHANGED chanClosed
    /\ UNCHANGED <<frames, head, closed, keys, taken, drops, totalDrops, eof>>

(* Reader.Close: unregisters the reader; its channel stays open.           *)
CloseReader(r) ==
    /\ r \in subs
    /\ subs' = subs \ {r}
    /\ handle' = [handle EXCEPT ![r] = "left"]
    /\ UNCHANGED <<frames, head, closed, keys, sent, taken, needsIFrame,
                   drops, totalDrops, chanClosed, eof>>

(* Faulty: the readers are unregistered but their channels left open.      *)
CloseForgetsChannels ==
    /\ ~closed
    /\ closed' = TRUE
    /\ subs' = {}
    /\ UNCHANGED <<frames, head, keys, handle, sent, taken, needsIFrame, drops,
                   totalDrops, chanClosed, eof>>

(* RingBuffer.Close: closes the channel of every registered reader.        *)
Close ==
    /\ ~closed
    /\ closed' = TRUE
    /\ chanClosed' = [r \in Readers |-> r \in subs \/ chanClosed[r]]
    /\ subs' = {}
    /\ UNCHANGED <<frames, head, keys, handle, sent, taken, needsIFrame, drops,
                   totalDrops, eof>>

(* ReadContext: the next frame, or io.EOF from a closed and empty channel. *)
Read(r) ==
    /\ handle[r] # "new"
    /\ \/ /\ taken[r] < Len(sent[r])
          /\ taken' = [taken EXCEPT ![r] = @ + 1]
          /\ UNCHANGED eof
       \/ /\ taken[r] = Len(sent[r])
          /\ chanClosed[r]
          /\ eof' = [eof EXCEPT ![r] = TRUE]
          /\ UNCHANGED taken
    /\ UNCHANGED <<frames, head, closed, keys, subs, handle, sent, needsIFrame,
                   drops, totalDrops, chanClosed>>

Next ==
    \/ \E key \in BOOLEAN : Write(key)
    \/ \E r \in Readers : Subscribe(r) \/ CloseReader(r) \/ Read(r)
    \/ Close

Spec == Init /\ [][Next]_vars

(* A subscribed reader keeps calling Read; nobody has to write or close.   *)
FairSpec == Spec /\ \A r \in Readers : WF_vars(Read(r))

-----------------------------------------------------------------------------
(* Properties                                                              *)

(* Every variable of the buffer and its readers has its type.              *)
TypeOK ==
    /\ frames \in [Slots -> Nat \cup {NoFrame}]
    /\ head \in 0..MaxFrames
    /\ closed \in BOOLEAN
    /\ keys \in Seq(BOOLEAN)
    /\ subs \in SUBSET Readers
    /\ handle \in [Readers -> {"new", "open", "left"}]
    /\ sent \in [Readers -> Seq(Nat)]
    /\ taken \in [Readers -> Nat]
    /\ needsIFrame \in [Readers -> BOOLEAN]
    /\ drops \in [Readers -> Nat]
    /\ totalDrops \in Nat
    /\ chanClosed \in [Readers -> BOOLEAN]
    /\ eof \in [Readers -> BOOLEAN]

(* Decodable delivery (ring.go:29-30): in the whole life of a subscription *)
(* a frame that is not a keyframe is sent to a reader only right after the *)
(* frame written before it, whatever was dropped and however the reader    *)
(* joined.  The very first frame of the buffer has no frame before it: a   *)
(* reader that subscribed to an empty buffer gets it whatever it is.       *)
DecodableDelivery ==
    \A r \in Readers : \A i \in 1..Len(sent[r]) :
        \/ IsKeyFrame(sent[r][i])
        \/ sent[r][i] = 0
        \/ i > 1 /\ sent[r][i - 1] = sent[r][i] - 1

(* No channel ever holds more than its capacity: the preload of Subscribe  *)
(* (ring.go:219-225), which sends with the buffer locked and without a     *)
(* default branch, can therefore never block the producer.                 *)
ChannelsWithinCapacity == \A r \in Readers : Queued(r) \in 0..Capacity

(* A slow reader costs the others nothing (ring.go:27-28): a registered    *)
(* reader that is not waiting for a keyframe was sent the newest frame,    *)
(* and one that never lost a frame was sent every frame since its first.   *)
OnlySlowReadersLoseFrames ==
    \A r \in subs :
        /\ ~needsIFrame[r] /\ head > 0 =>
              sent[r] # << >> /\ sent[r][Len(sent[r])] = head - 1
        /\ drops[r] = 0 =>
              \A i \in 2..Len(sent[r]) : sent[r][i] = sent[r][i - 1] + 1

(* Nothing is sent on a closed channel and no channel is closed twice      *)
(* (both panic in Go), also when Close, Reader.Close and Write meet.       *)
ClosedChannelsStayShut ==
    [][\A r \in Readers : chanClosed[r] =>
          /\ sent'[r] = sent[r]
          /\ r \notin subs]_vars

(* The buffer implements the abstract feed.                                *)
Phase(r) == IF handle[r] = "new" THEN "new" ELSE IF r \in subs THEN "live" ELSE "ended"

Feed == INSTANCE LiveFeed WITH
            feed <- sent,
            received <- taken,
            phase <- [r \in Readers |-> Phase(r)]

(* RingBuffer implements LiveFeed: whatever the channel sizes, drops and   *)
(* history wrap-around do, a reader observes a legal feed.                 *)
ImplementsLiveFeed == Feed!Spec

(* Once the buffer is closed every reader that has not left drains what is *)
(* queued and then gets io.EOF (ring.go:154-155,265), also one that only   *)
(* subscribes afterwards: no consumer hangs on a camera that is gone.      *)
ReadersSeeTheEnd == \A r \in Readers : (closed /\ handle[r] = "open") ~> eof[r]
=============================================================================
