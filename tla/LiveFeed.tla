------------------------------ MODULE LiveFeed ------------------------------
(***************************************************************************)
(* What the frame broadcaster of a camera promises to its consumers,       *)
(* without the circular history, the bounded channels or the resync flag   *)
(* that internal/buffer/ring.go implements it with.                        *)
(*                                                                         *)
(* Frames are numbered from 0 in the order the producer writes them and    *)
(* keys[f+1] says whether frame f is a keyframe.  A consumer's feed is the *)
(* sequence of frame numbers it is given.  Frames may be withheld from a   *)
(* consumer at any time, but a frame that is not a keyframe is only ever   *)
(* given to a consumer that was given the frame before it.                 *)
(***************************************************************************)
EXTENDS Naturals, Sequences

CONSTANTS Readers      \* the consumers' subscription handles

VARIABLES keys,        \* keyframe flags of the frames published so far
          feed,        \* feed[r]: frames given to r, in order
          received,    \* received[r]: how many of them r has taken
          phase        \* phase[r]: "new", "live", "ended" (no more frames)

feedVars == <<keys, feed, received, phase>>

Count == Len(keys)

(* A consumer that may be given the frame numbered Count even if it is not *)
(* a keyframe: it has the frame before it, or there is no frame before it. *)
UpToDate(r) == IF feed[r] = << >> THEN Count = 0
                                  ELSE feed[r][Len(feed[r])] = Count - 1

(* The frames from number i to the newest one.                             *)
Since(i) == [n \in 1..(Count - i) |-> i + n - 1]

Init == /\ keys = << >>
        /\ feed = [r \in Readers |-> << >>]
        /\ received = [r \in Readers |-> 0]
        /\ phase = [r \in Readers |-> "new"]

(* The producer publishes a frame; some consumers are given it.            *)
Publish(key) ==
    /\ \E given \in SUBSET {r \in Readers : phase[r] = "live" /\ (key \/ UpToDate(r))} :
          feed' = [r \in Readers |-> IF r \in given THEN Append(feed[r], Count) ELSE feed[r]]
    /\ keys' = Append(keys, key)
    /\ UNCHANGED <<received, phase>>

(* A consumer joins, with nothing or with the frames since some keyframe;  *)
(* one that joins after the end is given nothing.                          *)
Join(r) ==
    /\ phase[r] = "new"
    /\ \/ /\ phase' = [phase EXCEPT ![r] = "live"]
          /\ \/ UNCHANGED feed
             \/ \E i \in 0..(Count - 1) : /\ keys[i + 1]
                                          /\ feed' = [feed EXCEPT ![r] = Since(i)]
       \/ /\ phase' = [phase EXCEPT ![r] = "ended"]
          /\ UNCHANGED feed
    /\ UNCHANGED <<keys, received>>

(* Consumers stop being given frames: one that leaves, or all of them when *)
(* the feed is closed.                                                     *)
End == /\ \E gone \in SUBSET {r \in Readers : phase[r] = "live"} :
             phase' = [r \in Readers |-> IF r \in gone THEN "ended" ELSE phase[r]]
       /\ UNCHANGED <<keys, feed, received>>

(* A consumer takes the next frame of its feed.                            *)
Receive(r) ==
    /\ received[r] < Len(feed[r])
    /\ received' = [received EXCEPT ![r] = @ + 1]
    /\ UNCHANGED <<keys, feed, phase>>

Next == \/ \E key \in BOOLEAN : Publish(key)
        \/ \E r \in Readers : Join(r) \/ Receive(r)
        \/ End

Spec == Init /\ [][Next]_feedVars
=============================================================================
