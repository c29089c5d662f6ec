------------------------------ MODULE Billing ------------------------------
(***************************************************************************)
(* internal/stream/billing.go with Storage.BatchUpdateTraffic: the task    *)
(* that reads the byte counters of the streams every minute and adds the   *)
(* growth to the cameras' traffic records.                                 *)
(*                                                                         *)
(* Collecting is one step: the counters are read one after the other, but  *)
(* a read commutes with what other streams do.  A flush takes one step per *)
(* transaction.  The process ends on its own schedule; nothing waits for   *)
(* the task.                                                               *)
(***************************************************************************)
EXTENDS Naturals, FiniteSets

CONSTANTS Cameras,
          ChunkSize,      \* cameras per transaction (batchSize)
          MaxTotal,       \* bound on the bytes a camera receives
          MaxMonth        \* bound on the months

ASSUME ChunkSizeAssumption == ChunkSize \in Nat \ {0}
ASSUME BoundsAssumption == MaxTotal \in Nat /\ MaxMonth \in Nat
ASSUME CamerasAssumption == IsFiniteSet(Cameras)

VARIABLES
    known,         \* cameras with a record
    active,        \* cameras with a registered stream
    bytes,         \* bytesReceived of the camera's stream
    total,         \* bytes the camera has received since its record was made
    steady,        \* its stream and its record are still the first ones
    lastBytes,     \* the counter at the last collection
    pendingDelta,  \* growth that is not yet in the database
    trafficUsed,   \* TrafficUsed of the record
    resetMonth,    \* LastResetMonth of the record
    charged,       \* bytes ever added to the record
    month,         \* current month
    task,          \* "waiting", "flushing" or "finished"
    todo,          \* cameras the flush has still to write
    flushMonth,    \* nowMonth of the flush
    final,         \* the task woke because the context was cancelled
    process        \* "up", "stopping" (context cancelled) or "gone"

streamVars == <<known, active, bytes, total, steady>>
recordVars == <<trafficUsed, resetMonth, charged>>
taskVars == <<lastBytes, pendingDelta, task, todo, flushMonth, final>>
vars == <<streamVars, recordVars, taskVars, month, process>>

Init ==
    /\ known = Cameras
    /\ active = Cameras
    /\ bytes = [c \in Cameras |-> 0]
    /\ total = [c \in Cameras |-> 0]
    /\ steady = [c \in Cameras |-> TRUE]
    /\ lastBytes = [c \in Cameras |-> 0]
    /\ pendingDelta = [c \in Cameras |-> 0]
    /\ trafficUsed = [c \in Cameras |-> 0]
    /\ resetMonth = [c \in Cameras |-> 0]
    /\ charged = [c \in Cameras |-> 0]
    /\ month = 0
    /\ task = "waiting"
    /\ todo = {}
    /\ flushMonth = 0
    /\ final = FALSE
    /\ process = "up"

Alive == process # "gone"

----------------------------------------------------------------------------
(* Streams and records change around the task.                             *)

Receive(c) ==
    /\ Alive
    /\ c \in active
    /\ total[c] < MaxTotal
    /\ bytes' = [bytes EXCEPT ![c] = @ + 1]
    /\ total' = [total EXCEPT ![c] = @ + 1]
    /\ UNCHANGED <<known, active, steady, recordVars, taskVars, month, process>>

(* UpsertStream replaces the stream: its counter starts at zero.           *)
Restart(c) ==
    /\ process = "up"
    /\ c \in active
    /\ bytes' = [bytes EXCEPT ![c] = 0]
    /\ steady' = [steady EXCEPT ![c] = FALSE]
    /\ UNCHANGED <<known, active, total, recordVars, taskVars, month, process>>

(* DeleteCamera deletes the record, then the stream.                       *)
DeleteRecord(c) ==
    /\ process = "up"
    /\ c \in known
    /\ known' = known \ {c}
    /\ steady' = [steady EXCEPT ![c] = FALSE]
    /\ UNCHANGED <<active, bytes, total, recordVars, taskVars, month, process>>

RemoveStream(c) ==
    /\ Alive
    /\ c \in active \ known
    /\ active' = active \ {c}
    /\ UNCHANGED <<known, bytes, total, steady, recordVars, taskVars, month, process>>

NewMonth ==
    /\ Alive
    /\ month < MaxMonth
    /\ month' = month + 1
    /\ UNCHANGED <<streamVars, recordVars, taskVars, process>>

----------------------------------------------------------------------------
(* The task.                                                               *)

(* The growth of a counter; one that went back has started again.          *)
Growth(c) == IF bytes[c] >= lastBytes[c] THEN bytes[c] - lastBytes[c] ELSE bytes[c]

(* Faulty: what was read is not remembered.                                *)
CollectForgets ==
    /\ pendingDelta' = [c \in Cameras |-> IF c \in active THEN pendingDelta[c] + Growth(c)
                                                          ELSE pendingDelta[c]]
    /\ UNCHANGED lastBytes

(* collectBillingDelta; a camera without a stream is forgotten.            *)
Collect ==
    /\ pendingDelta' = [c \in Cameras |-> IF c \in active THEN pendingDelta[c] + Growth(c)
                                                          ELSE pendingDelta[c]]
    /\ lastBytes' = [c \in Cameras |-> IF c \in active THEN bytes[c] ELSE 0]

(* After the cancelled context the task ends, else it waits on.            *)
Rest(last) == task' = IF last THEN "finished" ELSE "waiting"

(* The ticker or the cancelled context, whichever select takes: collect,   *)
(* and flush what is there.                                                *)
Wake ==
    /\ Alive
    /\ task = "waiting"
    /\ Collect
    /\ todo' = {c \in Cameras : pendingDelta'[c] > 0}
    /\ final' \in {FALSE, process = "stopping"}
    /\ IF todo' # {} THEN task' = "flushing" ELSE Rest(final')
    /\ flushMonth' = month
    /\ UNCHANGED <<streamVars, recordVars, month, process>>

(* One transaction of the batch.  A camera without a record is passed      *)
(* over; a new month sets the record to zero first.                        *)
CommitChunk(chunk) ==
    LET paid == chunk \cap known
        Base(c) == IF resetMonth[c] = flushMonth THEN trafficUsed[c] ELSE 0
    IN /\ trafficUsed' = [c \in Cameras |-> IF c \in paid THEN Base(c) + pendingDelta[c]
                                                          ELSE trafficUsed[c]]
       /\ resetMonth' = [c \in Cameras |-> IF c \in paid THEN flushMonth ELSE resetMonth[c]]
       /\ charged' = [c \in Cameras |-> IF c \in paid THEN charged[c] + pendingDelta[c]
                                                      ELSE charged[c]]

IsChunk(chunk) ==
    /\ chunk \subseteq todo
    /\ IF Cardinality(todo) <= ChunkSize THEN chunk = todo
                                         ELSE Cardinality(chunk) = ChunkSize

(* The flush writes a chunk; after the last one the deltas are cleared.    *)
FlushChunk(chunk) ==
    /\ Alive
    /\ task = "flushing"
    /\ IsChunk(chunk)
    /\ CommitChunk(chunk)
    /\ todo' = todo \ chunk
    /\ IF todo' = {}
         THEN /\ pendingDelta' = [c \in Cameras |-> 0]
              /\ Rest(final)
         ELSE UNCHANGED <<pendingDelta, task>>
    /\ UNCHANGED <<streamVars, lastBytes, flushMonth, final, month, process>>

(* Faulty: the deltas are cleared whether they were written or not.        *)
FlushFailsAndClears ==
    /\ Alive
    /\ task = "flushing"
    /\ todo' = {}
    /\ Rest(final)
    /\ pendingDelta' = [c \in Cameras |-> 0]
    /\ UNCHANGED <<streamVars, recordVars, lastBytes, flushMonth, final, month, process>>

(* A transaction fails: the batch ends, and all deltas stay for the next   *)
(* minute.                                                                 *)
FlushFails ==
    /\ Alive
    /\ task = "flushing"
    /\ todo' = {}
    /\ Rest(final)
    /\ UNCHANGED <<streamVars, recordVars, lastBytes, pendingDelta, flushMonth, final,
                   month, process>>

(* The engine cancels the contexts, and at some time the process ends.     *)
Shutdown ==
    /\ process = "up"
    /\ process' = "stopping"
    /\ UNCHANGED <<streamVars, recordVars, taskVars, month>>

Exit ==
    /\ process = "stopping"
    /\ process' = "gone"
    /\ UNCHANGED <<streamVars, recordVars, taskVars, month>>

Gone == process = "gone" /\ UNCHANGED vars

Next ==
    \/ \E c \in Cameras : Receive(c) \/ Restart(c) \/ DeleteRecord(c) \/ RemoveStream(c)
    \/ NewMonth
    \/ Wake \/ FlushFails
    \/ \E chunk \in SUBSET Cameras : FlushChunk(chunk)
    \/ Shutdown \/ Exit \/ Gone

Spec == Init /\ [][Next]_vars

----------------------------------------------------------------------------
(* Types of the variables.                                                 *)
TypeOK ==
    /\ known \subseteq Cameras
    /\ active \subseteq Cameras
    /\ bytes \in [Cameras -> Nat]
    /\ total \in [Cameras -> Nat]
    /\ steady \in [Cameras -> BOOLEAN]
    /\ lastBytes \in [Cameras -> Nat]
    /\ pendingDelta \in [Cameras -> Nat]
    /\ trafficUsed \in [Cameras -> Nat]
    /\ resetMonth \in [Cameras -> Nat]
    /\ charged \in [Cameras -> Nat]
    /\ month \in Nat
    /\ task \in {"waiting", "flushing", "finished"}
    /\ todo \subseteq Cameras
    /\ flushMonth \in Nat
    /\ final \in BOOLEAN
    /\ process \in {"up", "stopping", "gone"}

(* What the record, the pending deltas and the next collection hold.       *)
Accounted(c) ==
    charged[c] + pendingDelta[c] + (IF c \in active THEN Growth(c) ELSE 0)

(* No camera is charged for more than it received, whatever failed, was    *)
(* retried or restarted (registry.go calls the batch atomic).              *)
NeverOverbilled == \A c \in Cameras : charged[c] <= total[c]

(* A camera whose stream was not replaced is accounted for to the byte: a  *)
(* failed flush loses nothing.                                             *)
SteadyIsExact == \A c \in Cameras : steady[c] => Accounted(c) = total[c]

=============================================================================
