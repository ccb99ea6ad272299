------------------------------ MODULE MCDispatch ------------------------------
(* Instances of Dispatch for TLC: `chat' starts with a list of methods; on_c  *)
(* is open in vain when the restrictions are lifted, as nobody defines it.    *)
EXTENDS Dispatch, TLC

AllEvents == {"on_a", "on_b", "on_c"}
Defined   == {"on_a", "on_b", "recv_connect", "recv_message"}

OneList == "chat" :> [kind |-> "list", methods |-> {"on_a", "recv_message"}]

Pkt(type, endpoint, id, ack, name, ackId) ==
  [type |-> type, endpoint |-> endpoint, id |-> id, ack |-> ack, name |-> name, ackId |-> ackId]

\* Requests for acks that end in every way, an event that nobody defined, and acks
\* of callbacks, of which the third is never registered.
ClientPackets ==
  {Pkt("event", "chat", 1, "data", "on_a", 0), Pkt("event", "chat", 2, "data", "on_b", 0),
   Pkt("event", "chat", 3, "data", BadName, 0), Pkt("event", "chat", 0, "data", "on_a", 0),
   Pkt("event", "chat", 0, "none", "on_c", 0), Pkt("event", "chat", 5, "data", NoName, 0),
   Pkt("message", "chat", 4, "true", NoName, 0),
   Pkt("connect", "chat", 0, "none", NoName, 0), Pkt("noop", "chat", 0, "none", NoName, 0)}
  \union {Pkt("ack", "chat", 0, "none", NoName, k) : k \in 1 .. 3}

=============================================================================
