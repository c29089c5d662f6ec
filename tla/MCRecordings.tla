---------------------------- MODULE MCRecordings ----------------------------
(***************************************************************************)
(* Recordings, as they are written and recovered (Recorder, on a short     *)
(* timeline) and as they are played back (Archive: two requests, a         *)
(* recording of up to two fragments that goes over midnight, and one that  *)
(* never gets a fragment and only takes the place of others in the cache). *)
(*                                                                         *)
(* The two modules have no state in common, so a behaviour is about the    *)
(* one that lane names: the states add up instead of multiplying.          *)
(***************************************************************************)
EXTENDS Recorder, Archive, TLC

CONSTANTS r1, r2

VARIABLE lane

MCStart == r1 :> 4 @@ r2 :> 9
MCMaxParts == r1 :> 2 @@ r2 :> 0

(* Requests are interchangeable.                                           *)
Symmetry == Permutations(Requests)

MCInit == lane \in {"recorder", "archive"} /\ Init /\ ArchiveInit

MCNext ==
    /\ UNCHANGED lane
    /\ \/ lane = "recorder" /\ Next /\ UNCHANGED archiveVars
       \/ lane = "archive" /\ ArchiveNext /\ UNCHANGED vars

MCSpec == MCInit /\ [][MCNext]_<<lane, vars, archiveVars>>
=============================================================================
