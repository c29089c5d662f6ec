----------------------------- MODULE Timestamps -----------------------------
(***************************************************************************)
(* The time of a frame: the 32-bit timestamp of the camera, unwrapped and  *)
(* converted by internal/rtsp/timestamp.go for client.go, and the duration *)
(* that pumpFrames of internal/webrtc/muxer.go gives its sample.           *)
(*                                                                         *)
(* The width of the timestamp, the rate of its clock, the nanoseconds in a *)
(* second and the width of a Duration are constants, so that a small       *)
(* instance meets every boundary.                                          *)
(***************************************************************************)
EXTENDS Integers

CONSTANTS Wrap,             \* 2^32
          Rate,             \* 90000 ticks in a second
          Second,           \* 10^9 nanoseconds
          MaxInt,           \* 2^63 - 1
          MinDuration,      \* 1 ms
          DefaultDuration,  \* 40 ms
          Steps,            \* what the camera's clock may do between frames
          MinTicks, MaxTicks,  \* bounds on the camera's clock
          Unknown

ASSUME TimesAssumption ==
    /\ {Wrap, Rate, Second, MaxInt, MinDuration, DefaultDuration} \subseteq Nat \ {0}
    /\ MinDuration <= DefaultDuration /\ DefaultDuration <= Second
    /\ Rate <= Second
    /\ Steps \subseteq Int /\ {MinTicks, MaxTicks} \subseteq Int
    /\ Unknown \notin Int

MaxDuration == Second

VARIABLES
    ticks,        \* the camera's clock: its timestamp modulo Wrap is sent
    initialized, lastTS, epoch,   \* the TimestampUnwrapper
    pts,          \* Timestamp of the latest frame
    hasLastPTS, lastPTS,          \* pumpFrames
    duration,     \* of the latest sample
    elapsed       \* history: ticks between the latest two samples, as far
                  \*   as that can be known from the timestamps; or Unknown

tsVars == <<ticks, initialized, lastTS, epoch, pts, hasLastPTS, lastPTS, duration, elapsed>>

TsInit ==
    /\ ticks \in 0..(Wrap - 1)
    /\ initialized = FALSE /\ lastTS = 0 /\ epoch = 0
    /\ pts = 0
    /\ hasLastPTS = FALSE /\ lastPTS = 0
    /\ duration = DefaultDuration
    /\ elapsed = [sample |-> Unknown, frame |-> Unknown]

----------------------------------------------------------------------------
(* timestamp.go                                                            *)

(* Faulty: the sign of a rollover is not told.                             *)
EpochForward(ts) ==
    IF ~initialized THEN 0
    ELSE IF ts < lastTS THEN epoch + Wrap ELSE epoch

(* Unwrap: the epoch after timestamp ts.                                   *)
UnwrapEpoch(ts) ==
    IF ~initialized THEN 0
    ELSE IF ts < lastTS /\ lastTS - ts > Wrap \div 2 THEN epoch + Wrap
    ELSE IF ts > lastTS /\ ts - lastTS > Wrap \div 2 /\ epoch >= Wrap THEN epoch - Wrap
    ELSE epoch

(* Arithmetic on a Duration wraps.                                         *)
Int64(n) == ((n + MaxInt + 1) % (2 * (MaxInt + 1))) - (MaxInt + 1)

RTP90kToDuration(ts) ==
    LET sec == ts \div Rate
        rem == ts % Rate
    IN IF sec > MaxInt \div Second
         THEN MaxInt
         ELSE Int64(sec * Second + (rem * Second) \div Rate)

(* Of a Duration that is not negative.                                     *)
DurationTo90k(d) == (d \div Second) * Rate + ((d % Second) * Rate) \div Second

----------------------------------------------------------------------------
(* muxer.go                                                                *)

CalculateFrameDuration(current) ==
    LET delta == current - lastPTS
    IN IF ~hasLastPTS \/ delta <= 0 \/ delta > MaxDuration THEN DefaultDuration
       ELSE IF delta < MinDuration THEN MinDuration
       ELSE delta

----------------------------------------------------------------------------
(* A step that the timestamps show: less than half their range, and not    *)
(* back past the first epoch.                                              *)
Shown(step) ==
    /\ initialized
    /\ -(Wrap \div 2) < step /\ step < Wrap \div 2
    /\ ~(epoch = 0 /\ (ticks + step) \div Wrap < ticks \div Wrap)

(* A frame is sent, unwrapped and pushed; a viewer's reader gets it, or is *)
(* behind and does not.                                                    *)
Frame(step, read) ==
    LET ts == (ticks + step) % Wrap
        now == RTP90kToDuration(UnwrapEpoch(ts) + ts)
        since == IF Shown(step) /\ elapsed.frame # Unknown THEN elapsed.frame + step ELSE Unknown
    IN /\ ticks + step \in MinTicks..MaxTicks
       /\ ticks' = ticks + step
       /\ initialized' = TRUE /\ lastTS' = ts /\ epoch' = UnwrapEpoch(ts)
       /\ pts' = now
       /\ IF read
            THEN /\ hasLastPTS' = TRUE /\ lastPTS' = now
                 /\ duration' = CalculateFrameDuration(now)
                 /\ elapsed' = [sample |-> since, frame |-> 0]
            ELSE /\ elapsed' = [elapsed EXCEPT !.frame = since]
                 /\ UNCHANGED <<hasLastPTS, lastPTS, duration>>

(* A new connection has a new unwrapper; the viewers stay.                 *)
Reconnect ==
    /\ initialized
    /\ initialized' = FALSE /\ lastTS' = 0 /\ epoch' = 0
    /\ ticks' \in 0..(Wrap - 1)
    /\ elapsed' = [elapsed EXCEPT !.frame = Unknown]
    /\ UNCHANGED <<pts, hasLastPTS, lastPTS, duration>>

TsNext ==
    \/ \E step \in Steps, read \in BOOLEAN : Frame(step, read)
    \/ Reconnect

TsSpec == TsInit /\ [][TsNext]_tsVars

----------------------------------------------------------------------------
(* Properties.                                                             *)

TsTypeOK ==
    /\ ticks \in Int /\ pts \in Int /\ lastPTS \in Int /\ duration \in Int
    /\ initialized \in BOOLEAN /\ hasLastPTS \in BOOLEAN
    /\ lastTS \in 0..(Wrap - 1) /\ epoch \in Nat
    /\ elapsed \in [sample : Int \cup {Unknown}, frame : Int \cup {Unknown}]

(* The conversion is exact before the last second of a Duration.           *)
InRange(d) == 0 <= d /\ d < (MaxInt \div Second) * Second

(* Rollovers, reordered frames, reconnections and frames a viewer missed   *)
(* leave the times right: a sample's duration is always between the two    *)
(* limits, and it is the time the camera took since the sample before, to  *)
(* a nanosecond, whenever the timestamps show that time and it is within   *)
(* the limits.  Converting a frame's time back is at most a tick short.    *)
FrameTimesTrue ==
    /\ MinDuration <= duration /\ duration <= MaxDuration
    /\ (hasLastPTS /\ elapsed.sample # Unknown /\ InRange(lastPTS)) =>
          LET exact == elapsed.sample * Second
          IN (MinDuration + 1) * Rate <= exact /\ exact <= (MaxDuration - 1) * Rate =>
                (duration - 1) * Rate < exact /\ exact < (duration + 1) * Rate
    /\ (initialized /\ InRange(pts)) =>
          DurationTo90k(pts) \in {epoch + lastTS - 1, epoch + lastTS}
=============================================================================
