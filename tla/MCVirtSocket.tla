---------------------------- MODULE MCVirtSocket ----------------------------
(***************************************************************************)
(* Instances of VirtSocket for TLC.                                        *)
(***************************************************************************)
EXTENDS VirtSocket, TLC

CONSTANTS chat, room, global, r1, r2

Packet(t, e) == [type |-> t, endpoint |-> e]

TwoNames    == {chat, room}
OneName     == {chat}
TwoRequests == {r1, r2}
OneRequest  == {r1}

\* An event for each Namespace, a disconnect of one, the global disconnect, a
\* packet that does not decode and a payload that packs an event and a heartbeat.
AllPayloads ==
  {<<Packet("event", n)>> : n \in Names} \union
  {<<Packet("disconnect", n)>> : n \in Names \union {GLOBAL_NS}} \union
  {<<Packet("invalid", GLOBAL_NS)>>} \union
  {<<Packet("heartbeat", GLOBAL_NS), Packet("event", n)>> : n \in Names}

\* One payload that opens both Namespaces, one that disconnects one of them and
\* the global disconnect.
Pair ==
  {<<Packet("event", chat), Packet("event", room)>>, <<Packet("disconnect", chat)>>,
   <<Packet("disconnect", GLOBAL_NS)>>}

Symmetry == Permutations(Names) \union Permutations(Requests)

\* What can still matter: nothing reads the server_queue of a dead receiver, or
\* the flag of a dead heartbeat timeout.
View ==
  <<sockVars, nsVars, ctlVars, pc, cur, timeout /\ ~Dead(Hbt),
    IF Dead(Recv) THEN <<>> ELSE <<server_queue, sent>>>>

=============================================================================
