---------------------------- MODULE MCTransport2 ----------------------------
(* Two ends of one connection. *)
EXTENDS Transport2
=============================================================================
