------------------------------ MODULE MCServer ------------------------------
(***************************************************************************)
(* Parts of the server that have no state in common: traffic, accounts,    *)
(* tags and folders and their backups in the database; the broadcasters,   *)
(* the MQTT publisher, the packets of WebRTC and the times of frames.  A   *)
(* behaviour is about the one that lane names, so that the states add up   *)
(* instead of multiplying.                                                 *)
(***************************************************************************)
EXTENDS MCBilling, Accounts, Directory, Backup, Metadata, Mqtt, Batcher, Timestamps

CONSTANTS d1, t1

VARIABLE lane

MCConfig == [cams |-> {d1}, tags |-> {t1}]
MCSteps == {-3, -1, 1, 2, 3, 4, 5}
MCMinTicks == -8

(* The two members of each of these sets are interchangeable, and only one *)
(* lane moves, so that all pairs can be exchanged at once.                 *)
Leave(S) == [x \in S |-> x]
Swap(S) == [x \in S |-> CHOOSE y \in S : x # y]
OnAll(f(_)) ==
    f(Cameras) @@ f(UserRequests) @@ f(DirRequests) @@ f(Subscribers) @@ f(Producers) @@ f(Writers)
Exchange == {OnAll(Leave), OnAll(Swap)}
MCSymmetry == Exchange

(* Once every id was left behind, RefsResolve has no more to say.          *)
MCConstraint == broken # Tags \cup Folders

MCInit ==
    /\ lane \in {"billing", "accounts", "directory", "backup", "metadata", "mqtt", "batcher",
                 "times"}
    /\ Init /\ AccountsInit /\ DirInit /\ BackupInit
    /\ MetadataInit /\ MqttInit /\ BatcherInit /\ TsInit
    /\ lane # "metadata" => ~logs
    /\ lane # "times" => ticks = 0

(* A step of one lane leaves the variables of the others alone.            *)
Only(name) ==
    /\ lane = name
    /\ name # "billing" => UNCHANGED vars
    /\ name # "accounts" => UNCHANGED accountVars
    /\ name # "directory" => UNCHANGED dirVars
    /\ name # "backup" => UNCHANGED backupVars
    /\ name # "metadata" => UNCHANGED metadataVars
    /\ name # "mqtt" => UNCHANGED mqttVars
    /\ name # "batcher" => UNCHANGED batcherVars
    /\ name # "times" => UNCHANGED tsVars
    /\ UNCHANGED lane

MCNext ==
    \/ Only("billing") /\ Next
    \/ Only("accounts") /\ AccountsNext
    \/ Only("directory") /\ DirNext
    \/ Only("backup") /\ BackupNext
    \/ Only("metadata") /\ MetadataNext
    \/ Only("mqtt") /\ MqttNext
    \/ Only("batcher") /\ BatcherNext
    \/ Only("times") /\ TsNext

MCSpec ==
    MCInit /\ [][MCNext]_<<lane, vars, accountVars, dirVars, backupVars, metadataVars,
                           mqttVars, batcherVars, tsVars>>
=============================================================================
