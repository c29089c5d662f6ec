---------------------------- MODULE CameraStore ----------------------------
(***************************************************************************)
(* pkg/storage/storage.go: the camera records of the Badger database and   *)
(* the cached list in front of them, used by concurrent callers.           *)
(*                                                                         *)
(* A Badger transaction commits at one moment or fails; a View reads one   *)
(* moment.  What lies between the steps of a call is the code around the   *)
(* transactions.  A record is abstracted to the settings that decide how   *)
(* the camera is streamed; JSON, tags, folders and users are left out.     *)
(***************************************************************************)
EXTENDS Naturals, FiniteSets

CONSTANTS Cameras,    \* camera ids
          Configs,    \* pipeline settings of an enabled camera
          Callers     \* goroutines that use the store

CONSTANTS Disabled,   \* the record of a disabled camera
          NoCamera,   \* no record
          Keep,       \* a record that a transaction leaves alone
          NoList      \* no list of records

ASSUME RecordsAssumption ==
    /\ Disabled \notin Configs
    /\ NoCamera \notin Configs \cup {Disabled}
    /\ Keep \notin Configs \cup {Disabled, NoCamera}
    /\ NoList \notin [Cameras -> Configs \cup {Disabled, NoCamera}]

VARIABLES
    db,             \* the camera records
    cachedCameras,  \* the cached list of records, or NoList
    call,           \* where a caller's call of the store stands
    write,          \* the transaction of a writing call
    list,           \* the records a caller of ListCameras has read
    ok              \* the caller's last call returned no error

storeVars == <<db, cachedCameras, call, write, list, ok>>

Records == Configs \cup {Disabled, NoCamera}

(* A transaction: new records, and the cameras it finds or fails.          *)
Writes == [records : [Cameras -> Records \cup {Keep}], needs : SUBSET Cameras]
NoWrite == [records |-> [c \in Cameras |-> Keep], needs |-> {}]
WriteOne(c, r, needs) == [records |-> [NoWrite.records EXCEPT ![c] = r], needs |-> needs]

Known == {c \in Cameras : db[c] # NoCamera}

StoreInit ==
    /\ db = [c \in Cameras |-> NoCamera]
    /\ cachedCameras = NoList
    /\ call = [k \in Callers |-> "idle"]
    /\ write = [k \in Callers |-> NoWrite]
    /\ list = [k \in Callers |-> NoList]
    /\ ok = [k \in Callers |-> TRUE]

(* Every writing call drops the cached list before its transaction.        *)
BeginWrite(k, w) ==
    /\ call[k] = "idle"
    /\ call' = [call EXCEPT ![k] = "commit"]
    /\ write' = [write EXCEPT ![k] = w]
    /\ cachedCameras' = NoList
    /\ UNCHANGED <<db, list, ok>>

(* SaveCamera, UpdateCameraTx (the record must exist), DeleteCamera,       *)
(* BatchUpdateTraffic (no setting changes) and ImportJSON.                 *)
SaveCamera(k, c, r) == BeginWrite(k, WriteOne(c, r, {}))
UpdateCameraTx(k, c, r) == BeginWrite(k, WriteOne(c, r, {c}))
DeleteCamera(k, c) == BeginWrite(k, WriteOne(c, NoCamera, {}))
BatchUpdateTraffic(k) == BeginWrite(k, NoWrite)
ImportJSON(k, records) == BeginWrite(k, [records |-> records, needs |-> {}])

(* The transaction commits, or fails because a record is missing.          *)
Commit(k) ==
    /\ call[k] = "commit"
    /\ call' = [call EXCEPT ![k] = "returned"]
    /\ LET succeeds == write[k].needs \subseteq Known
       IN /\ ok' = [ok EXCEPT ![k] = succeeds]
          /\ db' = [c \in Cameras |-> IF succeeds /\ write[k].records[c] # Keep
                                        THEN write[k].records[c] ELSE db[c]]
    /\ UNCHANGED <<cachedCameras, write, list>>

(* It fails for another reason: a conflict, or the disk.                   *)
CommitFails(k) ==
    /\ call[k] = "commit"
    /\ call' = [call EXCEPT ![k] = "returned"]
    /\ ok' = [ok EXCEPT ![k] = FALSE]
    /\ UNCHANGED <<db, cachedCameras, write, list>>

(* ListCameras: the cached list if there is one, else a View, whose result *)
(* is then cached.                                                         *)
ListCameras(k) ==
    /\ call[k] = "idle"
    /\ IF cachedCameras # NoList
         THEN /\ call' = [call EXCEPT ![k] = "returned"]
              /\ list' = [list EXCEPT ![k] = cachedCameras]
              /\ ok' = [ok EXCEPT ![k] = TRUE]
         ELSE call' = [call EXCEPT ![k] = "view"] /\ UNCHANGED <<list, ok>>
    /\ UNCHANGED <<db, cachedCameras, write>>

View(k) ==
    /\ call[k] = "view"
    /\ call' = [call EXCEPT ![k] = "fill"]
    /\ list' = [list EXCEPT ![k] = db]
    /\ UNCHANGED <<db, cachedCameras, write, ok>>

(* A record cannot be read: nothing is cached.                             *)
ViewFails(k) ==
    /\ call[k] = "view"
    /\ call' = [call EXCEPT ![k] = "returned"]
    /\ ok' = [ok EXCEPT ![k] = FALSE]
    /\ UNCHANGED <<db, cachedCameras, write, list>>

Fill(k) ==
    /\ call[k] = "fill"
    /\ call' = [call EXCEPT ![k] = "returned"]
    /\ cachedCameras' = list[k]
    /\ ok' = [ok EXCEPT ![k] = TRUE]
    /\ UNCHANGED <<db, write, list>>

(* The steps inside a call; the caller takes the result.                   *)
StoreStep(k) == Commit(k) \/ CommitFails(k) \/ View(k) \/ ViewFails(k) \/ Fill(k)

TakeResult(k) ==
    /\ call[k] = "returned"
    /\ call' = [call EXCEPT ![k] = "idle"]
    /\ write' = [write EXCEPT ![k] = NoWrite]
    /\ list' = [list EXCEPT ![k] = NoList]
    /\ UNCHANGED <<db, cachedCameras, ok>>

(* Types of the variables.                                                 *)
StoreTypeOK ==
    /\ db \in [Cameras -> Records]
    /\ cachedCameras \in [Cameras -> Records] \cup {NoList}
    /\ call \in [Callers -> {"idle", "commit", "view", "fill", "returned"}]
    /\ write \in [Callers -> Writes]
    /\ list \in [Callers -> [Cameras -> Records] \cup {NoList}]
    /\ ok \in [Callers -> BOOLEAN]

(* The comment on SaveCamera: the cache is invalidated "to guarantee fresh      *)
(* reads".  While no call is at work, a cached list is what the database   *)
(* holds, so the next ListCameras is fresh.                                *)
FreshReads ==
    (\A k \in Callers : call[k] = "idle") /\ cachedCameras # NoList => cachedCameras = db

=============================================================================
