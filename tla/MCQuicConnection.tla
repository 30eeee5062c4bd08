-------------------------- MODULE MCQuicConnection --------------------------
(* A small instance of QuicConnection for TLC. *)
EXTENDS QuicConnection

CONSTANTS t1, t2, i1, o1
=============================================================================
