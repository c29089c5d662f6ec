---------------------------- MODULE MCRingBuffer ----------------------------
(* RingBuffer on a small instance.                                         *)
EXTENDS RingBuffer
=============================================================================
