----------------------------- MODULE MCLazyHls -----------------------------
(* The muxer of one stream, for a few requests and muxer objects.          *)
EXTENDS LazyHls
=============================================================================
