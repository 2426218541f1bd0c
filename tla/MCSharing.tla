---- MODULE MCSharing ----
(* Two downstreams that compete for one port, alike.                       *)
EXTENDS Sharing, TLC

Alike == Permutations(Downstreams)
====
