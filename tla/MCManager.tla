----------------------------- MODULE MCManager -----------------------------
(* The manager and its requests on small instances; callers and stream     *)
(* objects are interchangeable.                                            *)
EXTENDS Manager, TLC

CONSTANTS c1, a

(* Backup files: the camera enabled, and disabled.                         *)
OneImport == {c1 :> a, c1 :> Disabled}

Symmetry == Permutations(Callers) \cup Permutations(Streams)

=============================================================================
