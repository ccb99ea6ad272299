------------------------------- MODULE Dispatch -------------------------------
(***************************************************************************)
(* What the receiver loop of a Socket does with one packet after the other *)
(* once its Namespace is known: process_packet(), process_event(), the ACL *)
(* of the Namespace, the callbacks that wait for an ack of the client, and *)
(* the ack that answers the client's own.  User code runs in the handlers  *)
(* and, at any time, in the jobs of the Namespaces.                        *)
(*                                                                         *)
(* How Namespaces come and go, and how kill() proceeds, is VirtSocket's    *)
(* subject: here the Namespaces are there, and kill() is the moment at     *)
(* which it forgets the callbacks and changes the state.                   *)
(***************************************************************************)
EXTENDS Naturals, Sequences, FiniteSets, Sublist

CONSTANTS
  Endpoints,    \* the active Namespaces
  Events,       \* the on_*() methods that event names stand for
  Callable,     \* the methods that are defined, with a `self' argument
  InitialAcl,   \* what get_initial_acl() returns in each Namespace
  AclMethods,   \* bound: the methods that user code adds and deletes
  Packets,      \* what the client may send
  MaxPackets,   \* bound: packets handled
  MaxPuts       \* bound: packets put in the client_queue by user code

RecvMethod == [message |-> "recv_message", json |-> "recv_json", connect |-> "recv_connect",
               error |-> "recv_error", disconnect |-> "recv_disconnect"]

Methods == Events \union {RecvMethod[t] : t \in DOMAIN RecvMethod}

\* allowed_methods: None, or a list (without repetitions) or a set of names.
NoAcl == [kind |-> "None", methods |-> {}]
Acls  == {NoAcl} \union [kind : {"list", "set"}, methods : SUBSET Methods]

\* The name of an event whose JSON does not parse (decode() lets the packet
\* through without one), and one that the regular expression rejects.
NoName  == "no name"
BadName == "bad name"

\* id is 0 in a packet without one.
PacketSet ==
  [type : (DOMAIN RecvMethod) \union {"event", "ack", "noop"}, endpoint : Endpoints,
   id : Nat, ack : {"none", "true", "data"}, name : Events \union {NoName, BadName},
   ackId : Nat]

ASSUME DispatchAssumption ==
  /\ InitialAcl \in [Endpoints -> Acls]
  /\ Callable \subseteq Methods /\ AclMethods \subseteq Methods
  /\ \A pkt \in Packets : pkt \in PacketSet
  /\ MaxPackets \in Nat /\ MaxPuts \in Nat

VARIABLES
  connected,      \* Socket.connected
  pc,             \* the receiver: "get", "handler" or "dead"
  cur,            \* the packet whose handler runs
  allowed,        \* allowed_methods of each Namespace
  granted,        \* the methods that the calls of the ACL methods leave open
  ack_counter,    \* the last message id given out
  ack_callbacks,  \* the message ids whose callback waits
  fired,          \* the message ids whose callback was called, in order
  mark,           \* ack_counter when the socket was killed
  out,            \* the packets put in the client_queue
  handled         \* the packets whose processing is over

aclVars == <<allowed, granted>>
ackVars == <<ack_counter, ack_callbacks, fired, mark>>
vars    == <<connected, pc, cur, aclVars, ackVars, out, handled>>

Nothing == [type |-> "none"]
PacketOut(type, id) == <<[type |-> type, id |-> id]>>

Allows(acl) == IF acl.kind = "None" THEN Methods ELSE acl.methods

Init ==
  /\ connected = TRUE /\ pc = "get" /\ cur = Nothing
  /\ allowed = InitialAcl
  /\ granted = [e \in Endpoints |-> Allows(InitialAcl[e])]
  /\ ack_counter = 0 /\ ack_callbacks = {} /\ fired = <<>> /\ mark = 0
  /\ out = <<>> /\ handled = <<>>

-----------------------------------------------------------------------------
(* Processing a packet. *)

IsMethodAllowed(e, m) == m \in Allows(allowed[e])

Method(pkt) == IF pkt.type = "event" THEN pkt.name ELSE RecvMethod[pkt.type]

\* Slip: call_method() instead of call_method_with_acl().
CallMethodOpen(pkt) == Method(pkt) \in Callable

\* call_method_with_acl(), call_method(): does it reach user code?
CallMethodWithAcl(pkt) ==
  IsMethodAllowed(pkt.endpoint, Method(pkt)) /\ Method(pkt) \in Callable

\* process_packet(): a method or a callback is called, an error event is sent,
\* nothing happens, or packet['name'] raises KeyError, which nothing catches.
Outcome(pkt) ==
  CASE pkt.type = "ack"  -> IF pkt.ackId \in ack_callbacks THEN "callback" ELSE "nothing"
    [] pkt.type = "noop" -> "nothing"
    [] pkt.type = "event" /\ pkt.name = NoName  -> "raise"
    [] pkt.type = "event" /\ pkt.name = BadName -> "error"
    [] OTHER -> IF CallMethodWithAcl(pkt) THEN "call" ELSE "error"

\* A connect packet is echoed, before the ACL is looked at.
Echo(pkt) == IF pkt.type = "connect" THEN PacketOut("connect", 0) ELSE <<>>

AckRequested(pkt) == pkt.ack = "data" /\ pkt.id # 0

\* Slip: errors `continue' the loop, like those before process_packet().
FinishQuiet(pkt, puts) ==
  /\ out' = out \o puts \o (IF AckRequested(pkt) /\ puts = <<>>
                            THEN PacketOut("ack", pkt.id) ELSE <<>>)
  /\ handled' = Append(handled, pkt)
  /\ cur' = Nothing
  /\ pc' = IF connected THEN "get" ELSE "dead"
  /\ ack_callbacks' = IF connected THEN ack_callbacks ELSE {}

\* process_packet() is over: the ack, then `are we still connected?', or else
\* kill(), which does not come back.
Finish(pkt, puts) ==
  /\ out' = out \o puts \o (IF AckRequested(pkt) THEN PacketOut("ack", pkt.id) ELSE <<>>)
  /\ handled' = Append(handled, pkt)
  /\ cur' = Nothing
  /\ pc' = IF connected THEN "get" ELSE "dead"
  /\ ack_callbacks' = IF connected THEN ack_callbacks ELSE {}

Receiving == pc = "get" /\ Len(handled) < MaxPackets

RecvUnserved(pkt) ==
  /\ Receiving
  /\ Outcome(pkt) \in {"error", "nothing"}
  /\ Finish(pkt, Echo(pkt) \o (IF Outcome(pkt) = "error" THEN PacketOut("event", 0) ELSE <<>>))
  /\ UNCHANGED <<connected, aclVars, ack_counter, fired, mark>>

RecvCall(pkt) ==
  /\ Receiving
  /\ Outcome(pkt) = "call"
  /\ pc' = "handler" /\ cur' = pkt
  /\ out' = out \o Echo(pkt)
  /\ UNCHANGED <<connected, aclVars, ackVars, handled>>

\* Slip: the callback stays.
RecvAckKeep(pkt) ==
  /\ Receiving
  /\ Outcome(pkt) = "callback"
  /\ pc' = "handler" /\ cur' = pkt
  /\ fired' = Append(fired, pkt.ackId)
  /\ UNCHANGED <<connected, aclVars, ack_counter, ack_callbacks, mark, out, handled>>

\* _pop_ack_callback(), and the callback runs.
RecvAck(pkt) ==
  /\ Receiving
  /\ Outcome(pkt) = "callback"
  /\ pc' = "handler" /\ cur' = pkt
  /\ ack_callbacks' = ack_callbacks \ {pkt.ackId}
  /\ fired' = Append(fired, pkt.ackId)
  /\ UNCHANGED <<connected, aclVars, ack_counter, mark, out, handled>>

RecvNameless(pkt) ==
  /\ Receiving
  /\ Outcome(pkt) = "raise"
  /\ pc' = "dead"
  /\ UNCHANGED <<connected, cur, aclVars, ackVars, out, handled>>

HandlerReturn ==
  /\ pc = "handler"
  /\ Finish(cur, <<>>)
  /\ UNCHANGED <<connected, aclVars, ack_counter, fired, mark>>

HandlerRaise ==
  /\ pc = "handler"
  /\ pc' = "dead" /\ cur' = Nothing
  /\ UNCHANGED <<connected, aclVars, ackVars, out, handled>>

-----------------------------------------------------------------------------
(* What user code calls. *)

AddAclMethod(e, m) ==
  /\ allowed' = [allowed EXCEPT ![e] =
                   [kind |-> "set", methods |-> {m} \union IF @.kind = "set" THEN @.methods ELSE {}]]
  /\ granted' = [granted EXCEPT ![e] = @ \union {m}]
  /\ UNCHANGED <<connected, pc, cur, ackVars, out, handled>>

\* It raises ValueError or KeyError when m is not there to delete.
DelAclMethod(e, m) ==
  /\ m \in allowed[e].methods
  /\ allowed' = [allowed EXCEPT ![e].methods = @ \ {m}]
  /\ granted' = [granted EXCEPT ![e] = @ \ {m}]
  /\ UNCHANGED <<connected, pc, cur, ackVars, out, handled>>

LiftAclRestrictions(e) ==
  /\ allowed' = [allowed EXCEPT ![e] = NoAcl]
  /\ granted' = [granted EXCEPT ![e] = Methods]
  /\ UNCHANGED <<connected, pc, cur, ackVars, out, handled>>

ResetAcl(e) ==
  /\ allowed' = [allowed EXCEPT ![e] = InitialAcl[e]]
  /\ granted' = [granted EXCEPT ![e] = Allows(InitialAcl[e])]
  /\ UNCHANGED <<connected, pc, cur, ackVars, out, handled>>

\* Slip: the id is the counter before it goes up.
EmitStale ==
  /\ Len(out) < MaxPuts
  /\ ack_counter' = ack_counter + 1
  /\ ack_callbacks' = ack_callbacks \union {ack_counter}
  /\ out' = out \o PacketOut("event", ack_counter)
  /\ UNCHANGED <<connected, pc, cur, aclVars, fired, mark, handled>>

\* emit() or send() with a callback, from a handler or a job, before or after
\* the socket is killed.
Emit ==
  /\ Len(out) < MaxPuts
  /\ ack_counter' = ack_counter + 1
  /\ ack_callbacks' = ack_callbacks \union {ack_counter'}
  /\ out' = out \o PacketOut("event", ack_counter')
  /\ UNCHANGED <<connected, pc, cur, aclVars, fired, mark, handled>>

\* error() in a handler, with or without the id of the packet.  With one, the
\* default handler makes a packet without 'ack', and encode() raises KeyError.
UserError(id) ==
  /\ pc = "handler" /\ Len(out) < MaxPuts
  /\ IF id = 0
     THEN out' = out \o PacketOut("event", 0) /\ UNCHANGED <<pc, cur>>
     ELSE pc' = "dead" /\ cur' = Nothing /\ UNCHANGED out
  /\ UNCHANGED <<connected, aclVars, ackVars, handled>>

-----------------------------------------------------------------------------
(* The teardown. *)

\* Slip: kill() leaves the callbacks alone.
KillKeep ==
  /\ connected
  /\ connected' = FALSE
  /\ mark' = ack_counter
  /\ UNCHANGED <<pc, cur, aclVars, ack_counter, ack_callbacks, fired, out, handled>>

Kill ==
  /\ connected
  /\ connected' = FALSE
  /\ ack_callbacks' = {}
  /\ mark' = ack_counter
  /\ UNCHANGED <<pc, cur, aclVars, ack_counter, fired, out, handled>>

\* The gevent.killall(self.jobs) of kill() or of the watcher.
ReceiverKilled ==
  /\ ~connected /\ pc # "dead"
  /\ pc' = "dead" /\ cur' = Nothing
  /\ UNCHANGED <<connected, aclVars, ackVars, out, handled>>

-----------------------------------------------------------------------------
Receive ==
  \/ \E pkt \in Packets :
       RecvUnserved(pkt) \/ RecvCall(pkt) \/ RecvAck(pkt) \/ RecvNameless(pkt)
  \/ HandlerReturn

User ==
  \/ Emit \/ HandlerRaise
  \/ pc = "handler" /\ \E id \in {0, cur.id} : UserError(id)
  \/ \E e \in Endpoints :
       \/ LiftAclRestrictions(e) \/ ResetAcl(e)
       \/ \E m \in AclMethods : AddAclMethod(e, m) \/ DelAclMethod(e, m)

Next == Receive \/ User \/ Kill \/ ReceiverKilled

Spec == Init /\ [][Next]_vars

-----------------------------------------------------------------------------
(* Properties *)

\* The type of every variable; an id waits only after it was given out.
TypeOK ==
  /\ connected \in BOOLEAN
  /\ pc \in {"get", "handler", "dead"}
  /\ cur \in Packets \union {Nothing}
  /\ pc = "handler" <=> cur # Nothing
  /\ allowed \in [Endpoints -> Acls]
  /\ granted \in [Endpoints -> SUBSET Methods]
  /\ ack_counter \in Nat /\ mark \in Nat
  /\ ack_callbacks \subseteq 1 .. ack_counter
  /\ fired \in Seq(1 .. ack_counter)
  /\ out \in Seq([type : {"connect", "event", "ack"}, id : Nat])
  /\ handled \in Seq(Packets)

\* Whatever the client acks, twice or with another's id, a callback is called
\* once at most, and one that waits was not called.
FiredOnce ==
  /\ \A i, j \in 1 .. Len(fired) : fired[i] = fired[j] => i = j
  /\ \A i \in 1 .. Len(fired) : fired[i] \notin ack_callbacks

\* kill() forgets the callbacks: an ack that is still in the server_queue, and
\* that the receiver takes before it dies, calls none of them.
KilledCallbacksSilent ==
  [][\A i \in 1 .. Len(fired') : i > Len(fired) /\ ~connected => fired'[i] > mark]_vars

\* A request for an ack with data that was dealt with, by a handler, by the ACL
\* or by an error, is answered once, with its id, in the order of the requests.
AcksMatchRequests ==
  LET replies  == Keep(out, [type : {"ack"}, id : Nat])
      requests == Keep(handled, {pkt \in Packets : AckRequested(pkt)})
  IN  /\ Len(replies) = Len(requests)
      /\ \A i \in 1 .. Len(replies) : replies[i].id = requests[i].id

\* Over any sequence of calls of the ACL methods, only a method that they leave
\* open, as documented, is called for a packet of the client.
OnlyGrantedRun ==
  [][\A pkt \in Packets : RecvCall(pkt) => Method(pkt) \in granted[pkt.endpoint]]_vars

-----------------------------------------------------------------------------
(* What the documentation says and the code does not do *)

\* docs/source/namespace.rst: get_initial_acl() returns "a list of the functions
\* they want to initially open", then one opens the rest of the Namespace "more
\* granularly with add_acl_method": adding a method closes no other.
AddedToTheRest ==
  \A e \in Endpoints : \A m \in granted[e] : IsMethodAllowed(e, m)

=============================================================================
