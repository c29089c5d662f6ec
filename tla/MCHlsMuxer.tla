----------------------------- MODULE MCHlsMuxer -----------------------------
(* HlsMuxer on small instances.                                            *)
EXTENDS HlsMuxer, TLC
=============================================================================
