------------------------------ MODULE MCIngest ------------------------------
(* Ingest on a small instance.                                             *)
EXTENDS Ingest, TLC

CONSTANTS c1, c2, r1, r2

(* The client of one camera delivers on two goroutines; the other camera   *)
(* competes for the dial slot and never sends a frame.                     *)
MCReaders == (c1 :> {r1, r2}) @@ (c2 :> {})
=============================================================================
