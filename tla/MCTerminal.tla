---- MODULE MCTerminal ----
(* Two window sizes; the settings; and remotes that use one or two groups  *)
(* of sequences each, so that the groups' states add up, not multiply.     *)
EXTENDS Terminal
MCSizes == {<<2, 2>>, <<3, 1>>}
MCSettings == {[e2s |-> TRUE, sod |-> FALSE, noalt |-> FALSE],
               [e2s |-> FALSE, sod |-> FALSE, noalt |-> FALSE],
               [e2s |-> TRUE, sod |-> TRUE, noalt |-> TRUE]}
MCRemotes == {{"margins"}, {"cursor", "erase"}, {"alternate"}}
====
