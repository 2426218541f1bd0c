----------------------------- MODULE PortFwdMgr -----------------------------
(***************************************************************************)
(* The set of port forwardings and its reconciliation with a changed       *)
(* configuration (ssh/portfwd.c, portfwdmgr_config), the remote            *)
(* forwardings of an SSH-2 connection (ssh/connection2-client.c), the list *)
(* of outstanding global requests (ssh/connection2.c), and the server they *)
(* are addressed to.                                                       *)
(*                                                                         *)
(* An entry of the configuration is a number; TypeOf and Src give its type *)
(* and source port, entries that agree in both have other destinations,    *)
(* and the order of the numbers is the order of pfr_cmp.  A struct         *)
(* ssh_rportfwd is <<entry, n>> where n counts the configurations.  A use  *)
(* of freed memory, a failed assertion and a protocol error are recorded   *)
(* in fault, after which nothing happens.                                  *)
(***************************************************************************)
EXTENDS Integers, Sequences, FiniteSets

CONSTANTS
    Entry,          \* entries a user may configure
    TypeOf, Src,
    MaxConfig,      \* bound: times the configuration is applied
    MaxFlight,      \* bound: messages under way, each way
    Unguarded       \* which of the orders below may happen

(* Orders the code does not survive:                                       *)
(*   "second batch"  a remote forwarding is asked for when all earlier     *)
(*                   requests have been answered                           *)
(*   "outstanding"   a forwarding is removed before it has been answered   *)
(*   "duplicate"     two entries ask for the same remote port              *)
(*   "unasked"       the server forwards before any forwarding was set up  *)
ASSUME EntryAssumption ==
    /\ Entry \subseteq Nat /\ IsFiniteSet(Entry)
    /\ TypeOf \in [Entry -> {"L", "D", "R"}]
    /\ DOMAIN Src = Entry
    /\ MaxConfig \in Nat /\ MaxFlight \in Nat

VARIABLES
    conf,       \* the entries of mgr->conf
    fwd,        \* the entries whose records are in mgr->forwardings
    dangling,   \* those of them whose records have been freed
    local,      \* the entries that listen
    rpfs,       \* s->rportfwds
    tree,       \* s->rportfwds has been allocated
    globreq,    \* the contexts of the outstanding requests, from globreq_head
    tail,       \* what globreq_tail points to
    nconfig,    \* configurations applied
    toServer, toClient, srv,    \* the network and the ports the server has open
    fault

vars == <<conf, fwd, dangling, local, rpfs, tree, globreq, tail, nconfig, toServer, toClient, srv, fault>>

Remote == {e \in Entry : TypeOf[e] = "R"}

Rpf == Remote \X (1..MaxConfig)

Port(r) == Src[r[1]]

Ports == {Src[e] : e \in Remote}

ToServer == [type : {"tcpip-forward", "cancel-tcpip-forward"}, port : Ports]

ToClient == [type : {"success", "failure", "forwarded-tcpip"}, port : Ports]

Init ==
    /\ conf = {} /\ fwd = {} /\ dangling = {} /\ local = {}
    /\ rpfs = {} /\ tree = FALSE
    /\ globreq = << >> /\ tail = "null"
    /\ nconfig = 0
    /\ toServer = << >> /\ toClient = << >> /\ srv = {}
    /\ fault = "none"

(* A set of entries in the order in which the trees are walked.            *)
Sorted(S) ==
    CHOOSE q \in [1..Cardinality(S) -> S] :
        /\ \A i, j \in 1..Cardinality(S) : i < j => q[i] < q[j]
        /\ \A e \in S : \E i \in 1..Cardinality(S) : q[i] = e

Messages(type, S) == [i \in 1..Cardinality(S) |-> [type |-> type, port |-> Src[Sorted(S)[i]]]]
-----------------------------------------------------------------------------
(* ssh2_rportfwd_remove that only forgets the records.                     *)
ssh2_rportfwd_remove_silent(removed) == << >>

(* ssh2_rportfwd_remove: what the server is told; no reply is wanted.      *)
ssh2_rportfwd_remove(removed) == Messages("cancel-tcpip-forward", {r[1] : r \in removed})

(* ssh2_queue_global_request_handler that puts new requests first.         *)
queue_global_request_first(seq) ==
    /\ globreq' = seq \o globreq
    /\ tail' = IF seq = << >> THEN tail ELSE "last"

(* ssh2_queue_global_request_handler, for the contexts in seq.  The tail   *)
(* keeps pointing to the last request when that has been freed.            *)
queue_global_request_handler(seq) ==
    /\ globreq' = globreq \o seq
    /\ tail' = IF seq = << >> THEN tail ELSE "last"

Faulty(f) ==
    /\ fault' = f
    /\ UNCHANGED <<conf, fwd, dangling, local, rpfs, tree, globreq, tail, nconfig, toServer, toClient, srv>>

(* What may stop a configuration c: the records are all visited, a removed *)
(* one's request may be outstanding, a new request follows the tail.       *)
ConfigFault(c, asked) ==
    IF dangling # {} THEN "record used after free"
    ELSE IF asked # {} /\ tail = "stale" THEN "globreq_tail used after free"
    ELSE "none"

Permitted(c) ==
    /\ \/ "duplicate" \in Unguarded
       \/ \A e, f \in c \cap Remote : Src[e] = Src[f] => e = f
    /\ \/ "outstanding" \in Unguarded
       \/ \A i \in 1..Len(globreq) : globreq[i] \in rpfs => globreq[i][1] \in c
    /\ \/ "second batch" \in Unguarded
       \/ tail # "stale"
       \/ c \cap Remote \subseteq fwd

(* portfwdmgr_config that sets up the new forwardings before it removes    *)
(* the old ones: a port that goes to a new destination is still taken.     *)
portfwdmgr_config_create_first(c, fails) ==
    LET destroy == fwd \ c
        create == c \ fwd
        asked == {e \in create \cap Remote : \A r \in rpfs : Port(r) # Src[e]}
    IN  IF ConfigFault(c, asked) # "none" THEN Faulty(ConfigFault(c, asked))
        ELSE /\ conf' = c
             /\ fwd' = c
             /\ dangling' = (create \cap Remote) \ asked
             /\ local' = (local \ destroy) \cup (create \ (Remote \cup fails))
             /\ rpfs' = {r \in rpfs : r[1] \notin destroy} \cup {<<e, nconfig + 1>> : e \in asked}
             /\ tree' = (tree \/ create \cap Remote # {})
             /\ toServer' = toServer \o Messages("tcpip-forward", asked)
                                     \o ssh2_rportfwd_remove({r \in rpfs : r[1] \in destroy})
             /\ queue_global_request_handler([i \in 1..Cardinality(asked) |-> <<Sorted(asked)[i], nconfig + 1>>])
             /\ nconfig' = nconfig + 1
             /\ UNCHANGED <<toClient, srv, fault>>

(* portfwdmgr_config: records not in the configuration any more are        *)
(* destroyed, ssh2_rportfwd_remove telling the server; then listeners and  *)
(* remote forwardings are set up for the new ones.  A listener may fail    *)
(* (fails), and a remote port that has a record already is not asked for   *)
(* again: the record of the second entry is freed and stays in the tree.   *)
portfwdmgr_config(c, fails) ==
    LET destroy == fwd \ c
        removed == {r \in rpfs : r[1] \in destroy}
        create == c \ fwd
        kept == {r[1] : r \in rpfs \ removed}
        asked == {e \in create \cap Remote :
                     \A f \in kept \cup {g \in create \cap Remote : g < e} : Src[f] # Src[e]}
    IN  IF ConfigFault(c, asked) # "none" THEN Faulty(ConfigFault(c, asked))
        ELSE /\ conf' = c
             /\ fwd' = c
             /\ dangling' = (create \cap Remote) \ asked
             /\ local' = (local \ destroy) \cup (create \ (Remote \cup fails))
             /\ rpfs' = (rpfs \ removed) \cup {<<e, nconfig + 1>> : e \in asked}
             /\ tree' = (tree \/ create \cap Remote # {})
             /\ toServer' = toServer \o ssh2_rportfwd_remove(removed)
                                     \o Messages("tcpip-forward", asked)
             /\ queue_global_request_handler([i \in 1..Cardinality(asked) |-> <<Sorted(asked)[i], nconfig + 1>>])
             /\ nconfig' = nconfig + 1
             /\ UNCHANGED <<toClient, srv, fault>>

(* At the start of the session and whenever the user changes settings.     *)
Reconfig ==
    \E c \in SUBSET Entry : \E fails \in SUBSET ((c \ fwd) \ Remote) :
        /\ fault = "none"
        /\ nconfig < MaxConfig
        /\ Len(toServer) < MaxFlight
        /\ Permitted(c)
        /\ portfwdmgr_config(c, fails)
-----------------------------------------------------------------------------
(* The refusal that forgets portfwdmgr_close.                              *)
rportfwd_globreq_response_no_close(type) ==
    /\ rpfs' = IF type = "success" THEN rpfs ELSE rpfs \ {Head(globreq)}
    /\ UNCHANGED <<fwd, local, dangling>>

(* ssh2_rportfwd_globreq_response: both answers use the record, a refusal  *)
(* removes it and the record that asked for it.                            *)
rportfwd_globreq_response(type) ==
    /\ IF type = "success" THEN UNCHANGED <<rpfs, fwd>>
       ELSE /\ rpfs' = rpfs \ {Head(globreq)}
            /\ fwd' = fwd \ {Head(globreq)[1]}
    /\ UNCHANGED <<local, dangling>>

(* SSH2_MSG_REQUEST_SUCCESS and FAILURE answer the oldest request.  After  *)
(* the last one globreq_head is what the freed request's next held: it was *)
(* never set, so that a further answer meets NULL or anything else.        *)
GlobalReply ==
    /\ fault = "none"
    /\ toClient # << >>
    /\ Head(toClient).type # "forwarded-tcpip"
    /\ IF globreq = << >> THEN \E f \in {"protocol error", "globreq_head not initialised"} : Faulty(f)
       ELSE IF Head(globreq) \notin rpfs THEN Faulty("forwarding used after free")
       ELSE /\ rportfwd_globreq_response(Head(toClient).type)
            /\ globreq' = Tail(globreq)
            /\ tail' = IF Len(globreq) = 1 THEN "stale" ELSE tail
            /\ toClient' = Tail(toClient)
            /\ UNCHANGED <<conf, tree, nconfig, toServer, srv, fault>>

(* chan_open_forwarded_tcpip: refused when the port is not recognised.     *)
ForwardedOpen ==
    /\ fault = "none"
    /\ toClient # << >>
    /\ Head(toClient).type = "forwarded-tcpip"
    /\ IF ~tree THEN Faulty("no tree of forwardings")
       ELSE /\ toClient' = Tail(toClient)
            /\ UNCHANGED <<conf, fwd, dangling, local, rpfs, tree, globreq, tail, nconfig, toServer, srv, fault>>
-----------------------------------------------------------------------------
(* The server opens a port it does not have open, or refuses, and answers  *)
(* in the order of the requests.                                           *)
ServerForward ==
    /\ fault = "none"
    /\ toServer # << >>
    /\ Head(toServer).type = "tcpip-forward"
    /\ Len(toClient) < MaxFlight
    /\ toServer' = Tail(toServer)
    /\ LET p == Head(toServer).port
       IN  \/ /\ p \notin srv
              /\ srv' = srv \cup {p}
              /\ toClient' = Append(toClient, [type |-> "success", port |-> p])
           \/ /\ UNCHANGED srv
              /\ toClient' = Append(toClient, [type |-> "failure", port |-> p])
    /\ UNCHANGED <<conf, fwd, dangling, local, rpfs, tree, globreq, tail, nconfig, fault>>

ServerCancel ==
    /\ fault = "none"
    /\ toServer # << >>
    /\ Head(toServer).type = "cancel-tcpip-forward"
    /\ toServer' = Tail(toServer)
    /\ srv' = srv \ {Head(toServer).port}
    /\ UNCHANGED <<conf, fwd, dangling, local, rpfs, tree, globreq, tail, nconfig, toClient, fault>>

(* Somebody connects to a port of the server.                              *)
ServerConnect ==
    /\ fault = "none"
    /\ Len(toClient) < MaxFlight
    /\ \E p \in (IF "unasked" \in Unguarded THEN Ports ELSE srv) :
          toClient' = Append(toClient, [type |-> "forwarded-tcpip", port |-> p])
    /\ UNCHANGED <<conf, fwd, dangling, local, rpfs, tree, globreq, tail, nconfig, toServer, srv, fault>>

Next ==
    \/ Reconfig
    \/ GlobalReply \/ ForwardedOpen
    \/ ServerForward \/ ServerCancel \/ ServerConnect

Safe == Init /\ [][Next]_vars
-----------------------------------------------------------------------------
TypeOK ==
    /\ conf \subseteq Entry /\ fwd \subseteq Entry /\ dangling \subseteq fwd \cap Remote
    /\ local \subseteq Entry \ Remote
    /\ rpfs \subseteq Rpf /\ tree \in BOOLEAN
    /\ globreq \in Seq(Rpf)
    /\ tail \in {"null", "last", "stale"}
    /\ nconfig \in 0..MaxConfig
    /\ toServer \in Seq(ToServer) /\ toClient \in Seq(ToClient)
    /\ srv \subseteq Ports

(* The client uses no freed record, forwarding or request and receives no  *)
(* answer without a request.  It holds only in the absence of the orders   *)
(* above.                                                                  *)
NoFault == fault = "none"

(* portfwdmgr_config and the handling of replies do not see to it that     *)
(* nothing freed is used, but what goes wrong has one cause each.  A freed *)
(* record is met when two configured entries ask for one port, never       *)
(* because a port moves to another destination.  A reply finds its         *)
(* forwarding gone when a later configuration has taken it away, never     *)
(* because another one was refused.  The freed tail is followed by a       *)
(* request made when all earlier ones were answered, never while one is    *)
(* outstanding.  There is no tree when the server forwards without ever    *)
(* having been asked to.  And in no order does an answer find the list of  *)
(* requests empty.                                                         *)
FaultHasCause ==
    \/ NoFault
    \/ /\ fault = "record used after free"
       /\ \E e, f \in conf \cap Remote : e # f /\ Src[e] = Src[f]
    \/ /\ fault = "forwarding used after free"
       /\ Head(globreq)[2] < nconfig
    \/ /\ fault = "globreq_tail used after free"
       /\ globreq = << >>
    \/ /\ fault = "no tree of forwardings"
       /\ rpfs = {} /\ globreq = << >> /\ srv = {}

(* k is the Rank-th member of K.                                           *)
Rank(K, k) == Cardinality({j \in K : j <= k})

(* Requests and answers carry no names: the answers under way and then the *)
(* requests under way are, in order, those of globreq.                     *)
RequestsMatchReplies ==
    LET answers == {k \in 1..Len(toClient) : toClient[k].type # "forwarded-tcpip"}
        requests == {k \in 1..Len(toServer) : toServer[k].type = "tcpip-forward"}
        answered == Cardinality(answers)
    IN  /\ Len(globreq) = answered + Cardinality(requests)
        /\ \A k \in answers : toClient[k].port = Port(globreq[Rank(answers, k)])
        /\ \A k \in requests :
               toServer[k].port = Port(globreq[answered + Rank(requests, k)])

(* A connection to a port is forwarded to the destination configured for   *)
(* it now, whatever was configured for the port before: a port has one     *)
(* record, of an entry that is still configured, and each configured       *)
(* remote entry that the server has not refused has one, unless another    *)
(* entry has the port.                                                     *)
ForwardedAsConfigured ==
    /\ \A q, r \in rpfs : Port(q) = Port(r) => q = r
    /\ {r[1] : r \in rpfs} = (fwd \ dangling) \cap Remote
    /\ \A e \in dangling : \E f \in (conf \ {e}) \cap Remote : Src[f] = Src[e]
    /\ fwd \subseteq conf

(* When nothing is under way the ports open on the server are those of the *)
(* remote forwardings: none that was cancelled is left open, and none is   *)
(* thought to be open that was refused.                                    *)
ServerAgrees ==
    toServer = << >> /\ toClient = << >> => srv = {Port(r) : r \in rpfs}

(* A forwarding that is kept because it is "up and running" is: a local    *)
(* entry that stays configured is being listened on.                       *)
KeptIsRunning == [][\A e \in (fwd \cap fwd') \ Remote : nconfig' > nconfig => e \in local']_vars
=============================================================================
