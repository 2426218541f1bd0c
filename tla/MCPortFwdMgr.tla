---------------------------- MODULE MCPortFwdMgr ----------------------------
(* A local and three remote forwardings, two of them of the same port.     *)
EXTENDS PortFwdMgr

MCTypeOf == <<"L", "R", "R", "R">>

MCSrc == <<"p1", "p2", "p2", "p3">>
=============================================================================
