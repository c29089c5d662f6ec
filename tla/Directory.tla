----------------------------- MODULE Directory -----------------------------
(***************************************************************************)
(* Tags and folders, and the cameras that refer to them: the handlers of   *)
(* internal/api/handler.go, pkg/storage/storage.go with the JSON export    *)
(* and import of the configuration, and its migration when the process     *)
(* starts.                                                                 *)
(*                                                                         *)
(* A camera record is abstracted to its references, a tag or folder to     *)
(* its id.  A handler takes one step for each transaction.  The client of  *)
(* EditCamera picks the references from the lists the API gave it.  The    *)
(* cached list of cameras, which CameraStore models, is a list that may    *)
(* miss a camera here.                                                     *)
(***************************************************************************)
EXTENDS Naturals, FiniteSets

CONSTANTS DirCameras,   \* camera ids
          Tags,         \* tag ids
          Folders,      \* folder ids
          NoFolder,     \* the empty folder id
          NoRecord,     \* no camera record
          DirRequests,  \* goroutines that handle requests
          Config        \* cameras and tags of config.yaml

VARIABLES
    tags,      \* tag records
    folders,   \* folder records
    cams,      \* camera records
    config,    \* config.yaml, or Cleaned
    backup,    \* a JSON export that an administrator keeps, or NoBackup
    dreq,      \* the request a goroutine handles
    broken     \* history: references that an accident left behind

dirVars == <<tags, folders, cams, config, backup, dreq, broken>>

Refs == [tags : SUBSET Tags, folder : Folders \cup {NoFolder}]
IdsOf(rec) == IF rec = NoRecord THEN {} ELSE rec.tags \cup ({rec.folder} \ {NoFolder})
Defined == tags \cup folders

Cleaned == [cams |-> {}, tags |-> {}]
NoBackup == [none |-> TRUE]
DirIdle == [pc |-> "idle"]

ASSUME DirectoryAssumption ==
    /\ Tags \cap Folders = {}
    /\ NoFolder \notin Folders \cup Tags
    /\ NoRecord \notin Refs
    /\ Config \in [cams : SUBSET DirCameras, tags : SUBSET Tags]

DirInit ==
    /\ tags = {} /\ folders = {}
    /\ cams = [c \in DirCameras |-> NoRecord]
    /\ config = Config
    /\ backup = NoBackup
    /\ dreq = [q \in DirRequests |-> DirIdle]
    /\ broken = {}

KnownCameras == {c \in DirCameras : cams[c] # NoRecord}

(* The process starts, first or after a crash that cut off its requests:   *)
(* MigrateFromConfig fills what is empty, then config.yaml is emptied if   *)
(* it can be saved.  What a cut-off deletion has not cleaned stays.        *)
Migrate(saved) ==
    LET new == [tags |-> config.tags, folder |-> NoFolder]
    IN /\ cams' = IF KnownCameras = {}
                    THEN [c \in DirCameras |-> IF c \in config.cams THEN new ELSE NoRecord]
                    ELSE cams
       /\ tags' = IF tags = {} THEN config.tags ELSE tags
       /\ config' = IF saved THEN Cleaned ELSE config
       /\ dreq' = [q \in DirRequests |-> DirIdle]
       /\ broken' = broken \cup {dreq[q].id : q \in {p \in DirRequests : dreq[p].pc \in {"list", "clean"}}}
                           \cup (IF KnownCameras = {} /\ tags # {} THEN config.tags \ tags ELSE {})
       /\ UNCHANGED <<folders, backup>>

----------------------------------------------------------------------------
(* A request that read lists keeps what it read; an id that is deleted     *)
(* meanwhile is gone behind its back.                                      *)

SetReq(q, r) == dreq' = [dreq EXCEPT ![q] = r]

WithGone(r, id) == [r EXCEPT !.gone = @ \cup {id}]

(* Deleting a record, seen by the others.                                  *)
Forget(q, id, r) ==
    dreq' = [o \in DirRequests |-> IF o = q THEN r
                ELSE IF dreq[o].pc = "lists" /\ id \in dreq[o].tags \cup dreq[o].folders
                       THEN WithGone(dreq[o], id)
                ELSE dreq[o]]

(* SaveTag and SaveFolder: a record is made or replaced.                   *)
SaveTag(id) == tags' = tags \cup {id} /\ UNCHANGED folders
SaveFolder(id) == folders' = folders \cup {id} /\ UNCHANGED tags
SaveRecord(id) == IF id \in Tags THEN SaveTag(id) ELSE SaveFolder(id)

AddTag(id) ==
    /\ SaveTag(id)
    /\ UNCHANGED <<cams, config, backup, dreq, broken>>

AddFolder(id) ==
    /\ SaveFolder(id)
    /\ UNCHANGED <<cams, config, backup, dreq, broken>>

(* EditTag and EditFolder read the record and save it, also if it was      *)
(* deleted in between.                                                     *)
GetRecord(q, id) ==
    /\ dreq[q] = DirIdle
    /\ SetReq(q, [pc |-> "save", id |-> id])
    /\ UNCHANGED <<tags, folders, cams, config, backup, broken>>

EditTag(q, id) == id \in tags /\ GetRecord(q, id)
EditFolder(q, id) == id \in folders /\ GetRecord(q, id)

EditSave(q) ==
    /\ dreq[q].pc = "save"
    /\ SaveRecord(dreq[q].id)
    /\ SetReq(q, DirIdle)
    /\ UNCHANGED <<cams, config, backup, broken>>

(* DeleteTag and DeleteFolder: the record goes first.                      *)
DropRecord(q, id) ==
    /\ dreq[q] = DirIdle
    /\ Forget(q, id, [pc |-> "list", id |-> id])
    /\ UNCHANGED <<cams, config, backup, broken>>

DeleteTag(q, id) == DropRecord(q, id) /\ tags' = tags \ {id} /\ UNCHANGED folders
DeleteFolder(q, id) == DropRecord(q, id) /\ folders' = folders \ {id} /\ UNCHANGED tags

(* ListCameras; an error is ignored, and no camera cleaned.                *)
ListForCleaning(q) ==
    /\ dreq[q].pc = "list"
    /\ \/ /\ SetReq(q, [pc |-> "clean", id |-> dreq[q].id,
                        left |-> {c \in KnownCameras :
                                    dreq[q].id \in Tags \/ cams[c].folder = dreq[q].id}])
          /\ UNCHANGED broken
       \/ /\ SetReq(q, DirIdle)
          /\ broken' = broken \cup {dreq[q].id}
    /\ UNCHANGED <<tags, folders, cams, config, backup>>

(* What UpdateCameraTx makes of the record: the tag is taken out, or the   *)
(* folder emptied, whatever it is by now.                                  *)
WithoutTag(rec, id) == [rec EXCEPT !.tags = @ \ {id}]
WithoutFolder(rec) == [rec EXCEPT !.folder = NoFolder]
CleanedRecord(c, id) == IF id \in Tags THEN WithoutTag(cams[c], id) ELSE WithoutFolder(cams[c])

WithoutCamera(r, c) == [r EXCEPT !.left = @ \ {c}]

CleanCamera(q, c) ==
    /\ dreq[q].pc = "clean"
    /\ c \in dreq[q].left
    /\ SetReq(q, WithoutCamera(dreq[q], c))
    /\ \/ /\ IF cams[c] = NoRecord THEN UNCHANGED cams
                                   ELSE cams' = [cams EXCEPT ![c] = CleanedRecord(c, dreq[q].id)]
          /\ UNCHANGED broken
       \/ /\ broken' = broken \cup {dreq[q].id}
          /\ UNCHANGED cams
    /\ UNCHANGED <<tags, folders, config, backup>>

DeleteEnds(q) ==
    /\ dreq[q].pc = "clean"
    /\ dreq[q].left = {}
    /\ SetReq(q, DirIdle)
    /\ UNCHANGED <<tags, folders, cams, config, backup, broken>>

----------------------------------------------------------------------------
(* Cameras.                                                                *)

(* The client reads tags and folders.                                      *)
ReadLists(q) ==
    /\ dreq[q] = DirIdle
    /\ SetReq(q, [pc |-> "lists", tags |-> tags, folders |-> folders, gone |-> {}])
    /\ UNCHANGED <<tags, folders, cams, config, backup, broken>>

(* AddCamera, EditCamera: the references are saved unchecked.              *)
SaveRefs(q, c, rec) ==
    /\ dreq[q].pc = "lists"
    /\ rec.tags \subseteq dreq[q].tags
    /\ rec.folder \in dreq[q].folders \cup {NoFolder}
    /\ cams' = [cams EXCEPT ![c] = rec]
    /\ broken' = broken \cup (IdsOf(rec) \cap dreq[q].gone)
    /\ SetReq(q, DirIdle)
    /\ UNCHANGED <<tags, folders, config, backup>>

DeleteCameraRecord(c) ==
    /\ cams' = [cams EXCEPT ![c] = NoRecord]
    /\ UNCHANGED <<tags, folders, config, backup, dreq, broken>>

----------------------------------------------------------------------------
(* ExportJSON reads cameras, tags and folders one after the other.         *)

ExportCameras(q) ==
    /\ dreq[q] = DirIdle
    /\ SetReq(q, [pc |-> "exportTags", cams |-> cams])
    /\ UNCHANGED <<tags, folders, cams, config, backup, broken>>

ExportTags(q) ==
    /\ dreq[q].pc = "exportTags"
    /\ SetReq(q, [pc |-> "exportFolders", cams |-> dreq[q].cams, tags |-> tags])
    /\ UNCHANGED <<tags, folders, cams, config, backup, broken>>

ExportFolders(q) ==
    /\ dreq[q].pc = "exportFolders"
    /\ backup' = [cams |-> dreq[q].cams, tags |-> dreq[q].tags, folders |-> folders]
    /\ SetReq(q, DirIdle)
    /\ UNCHANGED <<tags, folders, cams, config, broken>>

(* References of an export to what is not in it: a record was deleted      *)
(* between its reads.                                                      *)
Torn(b) == (UNION {IdsOf(b.cams[c]) : c \in DirCameras}) \ (b.tags \cup b.folders)

(* Faulty: only the cameras are restored.                                  *)
ImportCameras ==
    /\ backup # NoBackup
    /\ cams' = [c \in DirCameras |-> IF backup.cams[c] = NoRecord THEN cams[c] ELSE backup.cams[c]]
    /\ broken' = broken \cup Torn(backup)
    /\ UNCHANGED <<tags, folders, config, backup, dreq>>

(* ImportJSON restores what the export holds, in one transaction, and      *)
(* leaves the rest.                                                        *)
RestoreJSON ==
    /\ backup # NoBackup
    /\ cams' = [c \in DirCameras |-> IF backup.cams[c] = NoRecord THEN cams[c] ELSE backup.cams[c]]
    /\ tags' = tags \cup backup.tags
    /\ folders' = folders \cup backup.folders
    /\ broken' = broken \cup Torn(backup)
    /\ UNCHANGED <<config, backup, dreq>>

DirNext ==
    \/ \E saved \in BOOLEAN : Migrate(saved)
    \/ \E id \in Tags : AddTag(id)
    \/ \E id \in Folders : AddFolder(id)
    \/ \E c \in DirCameras : DeleteCameraRecord(c)
    \/ RestoreJSON
    \/ \E q \in DirRequests :
         \/ \E id \in Tags : EditTag(q, id) \/ DeleteTag(q, id)
         \/ \E id \in Folders : EditFolder(q, id) \/ DeleteFolder(q, id)
         \/ EditSave(q) \/ ListForCleaning(q) \/ DeleteEnds(q)
         \/ \E c \in DirCameras : CleanCamera(q, c) \/ \E rec \in Refs : SaveRefs(q, c, rec)
         \/ ReadLists(q) \/ ExportCameras(q) \/ ExportTags(q) \/ ExportFolders(q)

DirSpec == DirInit /\ [][DirNext]_dirVars

----------------------------------------------------------------------------
(* Properties.                                                             *)

DirTypeOK ==
    /\ tags \subseteq Tags
    /\ folders \subseteq Folders
    /\ cams \in [DirCameras -> Refs \cup {NoRecord}]
    /\ config \in {Config, Cleaned}
    /\ broken \subseteq Tags \cup Folders

(* A camera refers to tags and folders that exist, or that a deletion in   *)
(* progress has still to take out of it.  Left behind are only references  *)
(* that an accident left there: a deletion that a crash or an error of the *)
(* store cut short, a camera saved from lists that a deletion had          *)
(* overtaken, an export that was taken while a record was deleted, or a    *)
(* config.yaml that was imported again.                                    *)
RefsResolve ==
    \A c \in DirCameras : \A id \in IdsOf(cams[c]) \ (Defined \cup broken) :
        \E q \in DirRequests :
            \/ dreq[q].pc = "list" /\ dreq[q].id = id
            \/ dreq[q].pc = "clean" /\ dreq[q].id = id /\ c \in dreq[q].left
=============================================================================
