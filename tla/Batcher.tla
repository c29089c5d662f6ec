------------------------------ MODULE Batcher ------------------------------
(***************************************************************************)
(* internal/webrtc/batch_linux.go: the batches in which RTP packets are    *)
(* sent, the cleaner that forgets idle peers, and Close.                   *)
(*                                                                         *)
(* Peers and their shards have nothing in common, so there is one peer.    *)
(* Its batches follow one another: the table holds the current one, and a  *)
(* writer that looked a batch up before it left the table still has it.    *)
(* A packet is its writer and its number there.  The two lookups of        *)
(* getOrCreatePeerBatch are one step, that of the one which decides.       *)
(***************************************************************************)
EXTENDS Naturals, Sequences, FiniteSets

CONSTANTS Writers,
          BatchIds,        \* names for batches, at least as many as writers
          NoBatch,
          BatchSize,       \* maxBatchSize
          MaxPackets       \* bound on the packets of a writer

ASSUME BatcherAssumption ==
    /\ BatchSize \in Nat \ {0} /\ MaxPackets \in Nat
    /\ NoBatch \notin BatchIds
    /\ IsFiniteSet(Writers) /\ IsFiniteSet(BatchIds)
    /\ Cardinality(Writers) <= Cardinality(BatchIds)

VARIABLES
    table,    \* the peer's batch, or NoBatch
    batch,    \* packets of a batch
    idle,     \* batches whose lastUsed is 30 s ago
    status,   \* "open", "closing" (closed is set) or "closed" (flushed)
    cleaner,  \* cleanupLoop runs
    at,       \* where a writer is
    form,     \* what it writes: "other" than RTP, "large", "part" or "marker"
    held,     \* the batch it looked up
    written,  \* its packets so far
    wire,     \* history: the packets that were sent, in order
    late      \* history: packets put into a batch that had left the table

batcherVars == <<table, batch, idle, status, cleaner, at, form, held, written, wire, late>>

BatcherInit ==
    /\ table = NoBatch
    /\ batch = [b \in BatchIds |-> <<>>]
    /\ idle = {}
    /\ status = "open"
    /\ cleaner = TRUE
    /\ at = [w \in Writers |-> "idle"]
    /\ form = [w \in Writers |-> "other"]
    /\ held = [w \in Writers |-> NoBatch]
    /\ written = [w \in Writers |-> 0]
    /\ wire = <<>>
    /\ late = {}

(* What a flush may send of a batch: after an error the rest is dropped.   *)
Flushes(packets) == {SubSeq(packets, 1, n) : n \in 0..Len(packets)}

----------------------------------------------------------------------------
(* WriteToAddrPort                                                         *)

(* Nothing is written once closed is set.                                  *)
WriteToAddrPort(w, f) ==
    /\ at[w] = "idle"
    /\ written[w] < MaxPackets
    /\ status = "open"
    /\ at' = [at EXCEPT ![w] = "lookup"]
    /\ form' = [form EXCEPT ![w] = f]
    /\ written' = [written EXCEPT ![w] = @ + 1]
    /\ UNCHANGED <<table, batch, idle, status, cleaner, held, wire, late>>

(* A batch nobody can reach is garbage: its name is used again.            *)
Garbage == {b \in BatchIds : b # table /\ \A w \in Writers : held[w] # b}

GetOrCreatePeerBatch(w) ==
    /\ at[w] = "lookup"
    /\ at' = [at EXCEPT ![w] = "lock"]
    /\ IF table # NoBatch
         THEN held' = [held EXCEPT ![w] = table] /\ UNCHANGED <<table, batch, idle>>
         ELSE LET b == CHOOSE g \in Garbage : TRUE
              IN /\ table' = b
                 /\ held' = [held EXCEPT ![w] = b]
                 /\ batch' = [batch EXCEPT ![b] = <<>>]
                 /\ idle' = idle \ {b}
    /\ UNCHANGED <<status, cleaner, form, written, wire, late>>

(* What is not RTP is sent by itself, outside the lock; the rest of the    *)
(* batch goes first, and lastUsed stays.                                   *)
WriteOther(w) ==
    /\ at[w] = "lock" /\ form[w] = "other"
    /\ \E sent \in Flushes(batch[held[w]]) : wire' = wire \o sent
    /\ batch' = [batch EXCEPT ![held[w]] = <<>>]
    /\ at' = [at EXCEPT ![w] = "send"]
    /\ held' = [held EXCEPT ![w] = NoBatch]
    /\ UNCHANGED <<table, idle, status, cleaner, form, written, late>>

SendOther(w) ==
    /\ at[w] = "send"
    /\ wire' \in {wire, Append(wire, <<w, written[w]>>)}
    /\ at' = [at EXCEPT ![w] = "idle"]
    /\ UNCHANGED <<table, batch, idle, status, cleaner, form, held, written, late>>

(* RTP: a packet too large for its slot is sent at once, after the batch;  *)
(* any other joins the batch, which a marker or a full batch flushes.      *)
WriteRTP(w) ==
    LET b == held[w]
        packet == <<w, written[w]>>
        packets == Append(batch[b], packet)
        flush == form[w] \in {"large", "marker"} \/ Len(packets) >= BatchSize
    IN /\ at[w] = "lock" /\ form[w] # "other"
       /\ IF flush
            THEN /\ \E sent \in Flushes(packets) : wire' = wire \o sent
                 /\ batch' = [batch EXCEPT ![b] = <<>>]
            ELSE batch' = [batch EXCEPT ![b] = packets] /\ UNCHANGED wire
       /\ late' = IF b # table \/ status = "closed" THEN late \cup {packet} ELSE late
       /\ idle' = idle \ {b}
       /\ at' = [at EXCEPT ![w] = "idle"]
       /\ held' = [held EXCEPT ![w] = NoBatch]
       /\ UNCHANGED <<table, status, cleaner, form, written>>

----------------------------------------------------------------------------
(* cleanupLoop and Close                                                   *)

Idle ==
    /\ table # NoBatch /\ table \notin idle
    /\ idle' = idle \cup {table}
    /\ UNCHANGED <<table, batch, status, cleaner, at, form, held, written, wire, late>>

(* Faulty: an idle batch is forgotten as it is.                            *)
CleanWithoutFlush ==
    /\ cleaner /\ table # NoBatch
    /\ IF table \in idle
         THEN table' = NoBatch /\ UNCHANGED <<wire, batch>>
         ELSE /\ \E sent \in Flushes(batch[table]) : wire' = wire \o sent
              /\ batch' = [batch EXCEPT ![table] = <<>>]
              /\ UNCHANGED table
    /\ UNCHANGED <<idle, status, cleaner, at, form, held, written, late>>

(* A tick: flush, and forget the batch when it is idle.                    *)
Clean ==
    /\ cleaner /\ table # NoBatch
    /\ \E sent \in Flushes(batch[table]) : wire' = wire \o sent
    /\ batch' = [batch EXCEPT ![table] = <<>>]
    /\ table' = IF table \in idle THEN NoBatch ELSE table
    /\ UNCHANGED <<idle, status, cleaner, at, form, held, written, late>>

(* The cleaner finds stopClean closed.                                     *)
CleanerEnds ==
    /\ cleaner /\ status # "open"
    /\ cleaner' = FALSE
    /\ UNCHANGED <<table, batch, idle, status, at, form, held, written, wire, late>>

CloseBatcher ==
    /\ status = "open"
    /\ status' = "closing"
    /\ UNCHANGED <<table, batch, idle, cleaner, at, form, held, written, wire, late>>

FlushAll ==
    /\ status = "closing"
    /\ status' = "closed"
    /\ IF table = NoBatch
         THEN UNCHANGED <<wire, batch>>
         ELSE /\ \E sent \in Flushes(batch[table]) : wire' = wire \o sent
              /\ batch' = [batch EXCEPT ![table] = <<>>]
    /\ table' = NoBatch
    /\ UNCHANGED <<idle, cleaner, at, form, held, written, late>>

(* newPlatformBatcher, in a new process.                                   *)
NewBatcher ==
    /\ status = "closed" /\ ~cleaner
    /\ \A w \in Writers : at[w] = "idle"
    /\ table' = NoBatch
    /\ batch' = [b \in BatchIds |-> <<>>]
    /\ idle' = {}
    /\ status' = "open"
    /\ cleaner' = TRUE
    /\ form' = [w \in Writers |-> "other"]
    /\ written' = [w \in Writers |-> 0]
    /\ wire' = <<>>
    /\ late' = {}
    /\ UNCHANGED <<at, held>>

BatcherNext ==
    \/ \E w \in Writers :
          \/ \E f \in {"other", "large", "part", "marker"} : WriteToAddrPort(w, f)
          \/ GetOrCreatePeerBatch(w) \/ WriteOther(w) \/ SendOther(w) \/ WriteRTP(w)
    \/ Idle \/ Clean \/ CleanerEnds
    \/ CloseBatcher \/ FlushAll \/ NewBatcher

BatcherSpec == BatcherInit /\ [][BatcherNext]_batcherVars

----------------------------------------------------------------------------
(* Properties.                                                             *)

BatcherTypeOK ==
    /\ table \in BatchIds \cup {NoBatch}
    /\ batch \in [BatchIds -> Seq(Writers \X Nat)]
    /\ idle \subseteq BatchIds
    /\ status \in {"open", "closing", "closed"}
    /\ cleaner \in BOOLEAN
    /\ at \in [Writers -> {"idle", "lookup", "lock", "send"}]
    /\ form \in [Writers -> {"other", "large", "part", "marker"}]
    /\ held \in [Writers -> BatchIds \cup {NoBatch}]
    /\ written \in [Writers -> Nat]
    /\ wire \in Seq(Writers \X Nat)
    /\ late \subseteq Writers \X Nat

(* A packet waits only where a later packet, the cleaner or Close will     *)
(* find it, and the packets of a writer are sent in the order it wrote     *)
(* them, batched or not.  The exception is a packet whose writer had       *)
(* looked its batch up when the cleaner or Close took that out of the      *)
(* table: it may wait for ever, or come after packets written later.       *)
NothingStranded ==
    /\ \A b \in BatchIds \ {table} : \A i \in DOMAIN batch[b] : batch[b][i] \in late
    /\ status = "closed" => \A b \in BatchIds : \A i \in DOMAIN batch[b] : batch[b][i] \in late
    /\ \A i, j \in DOMAIN wire :
          i < j /\ wire[i][1] = wire[j][1] /\ {wire[i], wire[j]} \cap late = {} =>
              wire[i][2] < wire[j][2]
=============================================================================
