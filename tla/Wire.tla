--------------------------------- MODULE Wire ---------------------------------
(***************************************************************************)
(* A page that runs the socket.io client over xhr-polling, and the session *)
(* of the server it talks to: the packets each side sends, the POSTs and   *)
(* the poll that carry them, and the acks that pair a callback with the    *)
(* packet that asked for it.  Packet has what is on the wire.              *)
(*                                                                         *)
(* Each POST is a connection of its own: those in flight are served, and   *)
(* answered, in any order.  A connection may fail, and the client then     *)
(* gives the session up; what it does to reconnect starts a new one.       *)
(* An empty poll ("8::"), which neither side reads, is left out, and so    *)
(* are the disconnects, which are VirtSocket's and Outbound's subject.     *)
(***************************************************************************)
EXTENDS Packet, FiniteSets

CONSTANTS
  Scripts,    \* what the two applications may send: [up, down], each a sequence
  MaxBeats    \* bound: heartbeats of the server

Once(ps) == \A i, j \in DOMAIN ps : ps[i] = ps[j] => i = j

\* A packet that has yet to get its id, if it asks for an ack.
Unsent(t) ==
  /\ t \in PacketType /\ t.id = 0
  /\ Sound([t EXCEPT !.ack = "none"]) /\ Lines(t)
  /\ t.ack # "none" => t.type \in HasPayload

\* The packets of a script differ, whichever way they are read.
ASSUME WireAssumption ==
  /\ MaxBeats \in Nat
  /\ NoText \notin Text
  /\ \A s \in Scripts :
       /\ DOMAIN s = {"up", "down"}
       /\ s.up \in Seq(PacketType)
       /\ \A i \in DOMAIN s.up : Unsent(s.up[i]) /\ s.up[i].type \in HasPayload \union {"connect"}
       /\ \A i, j \in DOMAIN s.up : AsRead(s.up[i]) = AsRead(s.up[j]) => i = j
       /\ s.down \in Seq(PacketType) /\ Once(s.down)
       /\ \A i \in DOMAIN s.down : Unsent(s.down[i]) /\ s.down[i].type \in HasPayload

VARIABLES
  up, down,        \* what the application of each side has still to send
  \* The client.
  connected,       \* Socket.connected
  doBuffer,        \* Socket.doBuffer
  buffer,          \* Socket.buffer
  ackPackets,      \* SocketNamespace.ackPackets, of each endpoint
  acks,            \* the packets whose callback SocketNamespace.acks holds
  hearing,         \* the packets of a response that onData() has yet to handle
  \* The network.
  posts,           \* the POSTs in flight, in the order they were made
  crossed,         \* whether two ever were at a time
  \* The session.
  server_queue, client_queue,
  receiving,       \* the receiver loop is alive
  beats,           \* heartbeats put so far
  ack_counter,
  ack_callbacks,   \* the packets whose callback Socket.ack_callbacks holds
  \* What happened.
  sent, got,       \* packets the client sent, and the receiver loop decoded
  emitted, heard,  \* packets the server sent, and the client handled
  fired, called    \* the packets whose callback ran, with the ack that ran it: at
                   \* the client, and at the server

scriptVars == <<up, down>>
clientVars == <<connected, doBuffer, buffer, ackPackets, acks, hearing>>
netVars    == <<posts, crossed>>
serverVars == <<server_queue, client_queue, receiving, beats, ack_counter, ack_callbacks>>
upLog      == <<sent, got, called>>
downLog    == <<emitted, heard, fired>>
vars       == <<scriptVars, clientVars, netVars, serverVars, upLog, downLog>>

Endpoints == UNION {{s.up[i].endpoint : i \in DOMAIN s.up} : s \in Scripts}

\* Slip: the ack does not go to the endpoint of the packet.
AckToRoot(p, args) == [Blank EXCEPT !.type = "ack", !.ackId = p.id, !.args = args]

Ack(p, args) ==
  [Blank EXCEPT !.type = "ack", !.endpoint = p.endpoint, !.ackId = p.id, !.args = args]

Heartbeat == [Blank EXCEPT !.type = "heartbeat"]

Init ==
  /\ \E s \in Scripts : up = s.up /\ down = s.down
  /\ connected = TRUE /\ doBuffer = FALSE /\ buffer = <<>>
  /\ ackPackets = [e \in Endpoints |-> 0] /\ acks = {} /\ hearing = <<>>
  /\ posts = <<>> /\ crossed = FALSE
  /\ server_queue = <<>> /\ client_queue = <<>> /\ receiving = TRUE /\ beats = 0
  /\ ack_counter = 0 /\ ack_callbacks = {}
  /\ sent = <<>> /\ got = <<>> /\ emitted = <<>> /\ heard = <<>>
  /\ fired = <<>> /\ called = <<>>

-----------------------------------------------------------------------------
(* The client. *)

\* XHR.post(), for a client whose POSTs in flight are ps.
PostOn(ps, text) ==
  /\ posts' = Append(ps, [text |-> text, served |-> FALSE])
  /\ doBuffer' = TRUE
  /\ crossed' = (crossed \/ ps # <<>>)

\* Socket.packet(): a packet waits while a POST is in flight.
Submit(p) ==
  /\ sent' = Append(sent, p)
  /\ IF connected /\ ~doBuffer
     THEN PostOn(posts, ClientEncode(p)) /\ UNCHANGED buffer
     ELSE buffer' = Append(buffer, p) /\ UNCHANGED <<netVars, doBuffer>>

\* Slip: ackPackets++ instead of ++ackPackets.
NextIdAfter(e) == ackPackets[e]

NextId(e) == ackPackets[e] + 1

\* SocketNamespace.send(), emit() and packet({type: 'connect'}): one that gives
\* a callback gets the next id of its endpoint.
ClientSend ==
  /\ up # <<>> /\ hearing = <<>>
  /\ LET t == Head(up)
         e == t.endpoint
     IN  IF t.ack = "none"
         THEN Submit(t) /\ UNCHANGED <<ackPackets, acks>>
         ELSE LET p == [t EXCEPT !.id = NextId(e)]
              IN  /\ ackPackets' = [ackPackets EXCEPT ![e] = @ + 1]
                  /\ acks' = acks \union {p}
                  /\ Submit(p)
  /\ up' = Tail(up)
  /\ UNCHANGED <<down, connected, hearing, serverVars, got, called, downLog>>

\* Slips in setBuffer(): it keeps the buffer it posts, it does not look at it.
FlushKeeping(others) ==
  /\ IF buffer # <<>>
     THEN PostOn(others, ClientEncodePayload([k \in DOMAIN buffer |-> ClientEncode(buffer[k])]))
     ELSE posts' = others /\ doBuffer' = FALSE /\ UNCHANGED crossed
  /\ UNCHANGED buffer

FlushNothing(others) ==
  posts' = others /\ doBuffer' = FALSE /\ UNCHANGED <<crossed, buffer>>

\* setBuffer(false): the buffer is posted as one payload.
Flush(others) ==
  /\ IF buffer # <<>>
     THEN PostOn(others, ClientEncodePayload([k \in DOMAIN buffer |-> ClientEncode(buffer[k])]))
     ELSE posts' = others /\ doBuffer' = FALSE /\ UNCHANGED crossed
  /\ buffer' = <<>>

\* The i-th POST is answered.
PostDone(i) ==
  /\ posts[i].served /\ connected /\ hearing = <<>>
  /\ Flush(RemoveAt(posts, i))
  /\ UNCHANGED <<scriptVars, connected, ackPackets, acks, hearing, serverVars, upLog, downLog>>

\* A POST, or the poll with the messages it took or without, fails: onClose().
\* The server may still be reading the POST.
ConnectionLost ==
  /\ connected /\ hearing = <<>>
  /\ connected' = FALSE
  /\ client_queue' \in {client_queue, <<>>}
  /\ UNCHANGED <<scriptVars, doBuffer, buffer, ackPackets, acks, hearing, netVars,
                 server_queue, receiving, beats, ack_counter, ack_callbacks, upLog, downLog>>

\* Slip: the id of an ack is looked for in every endpoint.
AskedAnywhere(p) == {a \in acks : a.id = p.ackId}

\* The packet, if any, whose callback waits for the ack p.
Asked(p) == {a \in acks : a.id = p.ackId /\ a.endpoint = p.endpoint}

\* A callback of each packet of waiting is run by the ack p.
Runs(waiting, p) == SetToSeq({[asked |-> a, ack |-> p] : a \in waiting})

\* SocketNamespace.onPacket(): a listener acks at once, with its arguments.
HearPacket(p) ==
  /\ heard' = Append(heard, p)
  /\ \/ /\ p.type = "ack"
        /\ acks' = acks \ Asked(p)
        /\ fired' = fired \o Runs(Asked(p), p)
        /\ UNCHANGED <<doBuffer, buffer, netVars, sent>>
     \/ /\ p.type \in HasPayload /\ p.ack # "none"
        /\ Submit(Ack(p, IF p.ack = "data" THEN p.args ELSE <<>>))
        /\ UNCHANGED <<acks, fired>>
     \/ /\ p.type # "ack" /\ ~(p.type \in HasPayload /\ p.ack # "none")
        /\ UNCHANGED <<acks, fired, doBuffer, buffer, netVars, sent>>

\* Transport.onPacket(): a heartbeat is posted past the buffer.
Hear ==
  /\ connected /\ hearing # <<>>
  /\ \/ /\ Head(hearing).type = "heartbeat"
        /\ PostOn(posts, ClientEncode(Heartbeat))
        /\ UNCHANGED <<buffer, acks, sent, heard, fired>>
     \/ Head(hearing).type # "heartbeat" /\ HearPacket(Head(hearing))
  /\ hearing' = Tail(hearing)
  /\ UNCHANGED <<scriptVars, connected, ackPackets, serverVars, got, called, emitted>>

-----------------------------------------------------------------------------
(* The server. *)

\* post(): put_server_msg() for every message of the body.
ServePost(i) ==
  /\ ~posts[i].served
  /\ posts' = [posts EXCEPT ![i].served = TRUE]
  /\ server_queue' = server_queue \o DecodePayload(RequestBody(posts[i].text))
  /\ UNCHANGED <<scriptVars, clientVars, crossed, client_queue, receiving, beats, ack_counter,
                 ack_callbacks, upLog, downLog>>

\* get(): all that is in the client_queue goes in one response.
Poll ==
  /\ connected /\ hearing = <<>> /\ client_queue # <<>>
  /\ LET texts == ClientDecodePayload(EncodePayload(client_queue))
     IN  hearing' = [k \in DOMAIN texts |-> ClientDecode(texts[k])]
  /\ client_queue' = <<>>
  /\ UNCHANGED <<scriptVars, connected, doBuffer, buffer, ackPackets, acks, netVars, server_queue,
                 receiving, beats, ack_counter, ack_callbacks, upLog, downLog>>

\* Socket.send_packet()
SendPacket(p) ==
  /\ client_queue' = Append(client_queue, Encode(p))
  /\ emitted' = Append(emitted, p)

\* Slip: each Namespace counts its own ids.
MsgIdOfNamespace(p) ==
  Cardinality({i \in DOMAIN emitted : emitted[i].endpoint = p.endpoint /\ emitted[i].id # 0}) + 1

\* _get_next_msgid()
MsgId(p) == ack_counter + 1

\* BaseNamespace.send() and emit(): one with a callback gets the session's next id.
ServerEmit ==
  /\ down # <<>>
  /\ LET t == Head(down)
         n == MsgId(t)
     IN  IF t.ack = "none"
         THEN SendPacket(t) /\ UNCHANGED <<ack_counter, ack_callbacks>>
         ELSE LET p == [t EXCEPT !.id = n]
              IN  /\ ack_counter' = n
                  /\ ack_callbacks' = ack_callbacks \union {p}
                  /\ SendPacket(p)
  /\ down' = Tail(down)
  /\ UNCHANGED <<up, clientVars, netVars, server_queue, receiving, beats, upLog, heard, fired>>

\* _heartbeat()
Beat ==
  /\ beats < MaxBeats
  /\ beats' = beats + 1
  /\ client_queue' = Append(client_queue, Encode(Heartbeat))
  /\ UNCHANGED <<scriptVars, clientVars, netVars, server_queue, receiving, ack_counter,
                 ack_callbacks, upLog, downLog>>

\* default_error_handler() for a packet that does not decode, which has no endpoint.
InvalidPacket == [Blank EXCEPT !.type = "event", !.name = <<"error">>, !.endpoint = NoText]

\* process_packet() of a packet p, and the ack its sender asked for: a handler
\* returns its arguments, as a tuple.
Process(p) ==
  CASE p.type = "connect" -> SendPacket(p) /\ UNCHANGED <<ack_callbacks, called>>
    [] p.type = "ack" ->
         LET waiting == {a \in ack_callbacks : a.id = p.ackId}
         IN  /\ ack_callbacks' = ack_callbacks \ waiting
             /\ called' = called \o Runs(waiting, p)
             /\ UNCHANGED <<client_queue, emitted>>
    [] p.type \in HasPayload /\ p.ack = "data" ->
         SendPacket(Ack(p, p.args)) /\ UNCHANGED <<ack_callbacks, called>>
    [] OTHER -> UNCHANGED <<client_queue, emitted, ack_callbacks, called>>

\* One turn of _receiver_loop(): an error that encode() cannot write, and an event
\* without a name, end it.
Receive ==
  /\ receiving /\ server_queue # <<>>
  /\ server_queue' = Tail(server_queue)
  /\ LET p == Decode(Head(server_queue))
     IN  CASE p = Invalid /\ Encodable(InvalidPacket) ->
                SendPacket(InvalidPacket) /\ UNCHANGED <<got, receiving, ack_callbacks, called>>
           [] (p = Invalid /\ ~Encodable(InvalidPacket)) \/ p.name = NoText ->
                /\ receiving' = FALSE
                /\ UNCHANGED <<got, client_queue, emitted, ack_callbacks, called>>
           [] p.type = "heartbeat" ->
                UNCHANGED <<got, receiving, client_queue, emitted, ack_callbacks, called>>
           [] OTHER -> got' = Append(got, p) /\ Process(p) /\ UNCHANGED receiving
  /\ UNCHANGED <<scriptVars, clientVars, netVars, beats, ack_counter, sent, heard, fired>>

-----------------------------------------------------------------------------
Next ==
  \/ ClientSend \/ ConnectionLost \/ Hear
  \/ Poll \/ ServerEmit \/ Beat \/ Receive
  \/ \E i \in DOMAIN posts : ServePost(i) \/ PostDone(i)

Spec == Init /\ [][Next]_vars

\* A request that no connection error ends is served, and answered; the client
\* polls again after every response, and gevent runs the receiver loop.  Each is
\* stated for the queue that only this action takes from.
Hears     == connected /\ hearing # <<>> /\ hearing' = Tail(hearing)
Polls     == connected /\ hearing = <<>> /\ client_queue # <<>> /\ client_queue' = <<>>
Receives  == receiving /\ server_queue # <<>> /\ server_queue' = Tail(server_queue)
Serves(i) == ~posts[i].served /\ posts' = [posts EXCEPT ![i].served = TRUE]

Fairness ==
  /\ WF_hearing(Hears) /\ WF_client_queue(Polls) /\ WF_server_queue(Receives)
  /\ WF_posts(\E i \in DOMAIN posts : Serves(i))
  /\ WF_vars(\E i \in DOMAIN posts : PostDone(i))

FairSpec == Spec /\ Fairness

-----------------------------------------------------------------------------
(* Properties *)

\* The type of every variable.
TypeOK ==
  /\ connected \in BOOLEAN /\ doBuffer \in BOOLEAN /\ crossed \in BOOLEAN /\ receiving \in BOOLEAN
  /\ \A s \in {up, down, buffer, hearing, sent, got, emitted, heard} :
       \A i \in DOMAIN s : DOMAIN s[i] = DOMAIN Blank
  /\ \A s \in {fired, called} : \A i \in DOMAIN s : DOMAIN s[i] = {"asked", "ack"}
  /\ \A i \in DOMAIN posts : DOMAIN posts[i] = {"text", "served"} /\ posts[i].served \in BOOLEAN
  /\ ackPackets \in [Endpoints -> Nat] /\ ack_counter \in Nat /\ beats \in 0 .. MaxBeats
  /\ \A a \in acks : a.id \in 1 .. ackPackets[a.endpoint]
  /\ \A a \in ack_callbacks : a.id \in 1 .. ack_counter

\* The messages of the client that _request_body() does not read to their ends.
Multilines    == {p \in Range(sent) : Multiline(p)}

\* What each side decodes is what the other gave to be sent, type, endpoint, id and
\* arguments alike, and each packet at most once: through both encoders, both
\* framings and whatever packets share a payload.  A message of the client in which
\* there is a line feed is the exception: the server may get its first line.
Unaltered ==
  /\ Range(got) \subseteq Range(sent) \union {FirstLine(p) : p \in Multilines} /\ Once(got)
  /\ Range(heard) \subseteq Range(emitted) /\ Once(heard)

\* The server hears the client in the order in which it spoke, but for the POST of a
\* heartbeat that crosses another one; the client always hears the server in order.
InOrder ==
  /\ ~crossed /\ Multilines = {} => IsPrefix(got, sent)
  /\ IsPrefix(heard, emitted)

\* A client's callback runs once, with what the handler returned for its own event,
\* though the endpoints count their ids alike.
OwnAnswer ==
  \A i \in DOMAIN fired :
    /\ fired[i].ack.args = fired[i].asked.args
    /\ \A j \in DOMAIN fired : fired[i].asked = fired[j].asked => i = j

\* A server's callback runs once, with what the client's listener gave to ack() for
\* its own packet.
OwnReply ==
  \A i \in DOMAIN called :
    /\ called[i].ack.args = IF called[i].asked.ack = "data" THEN called[i].asked.args ELSE <<>>
    /\ \A j \in DOMAIN called : called[i].asked = called[j].asked => i = j

\* The receiver loop, if it has ended, ended at an ack whose arguments hold a '+', at
\* which decode() splits it, and had by then handled all that the client sent before it:
\* what shares its POST, and a heartbeat, never end it.  This is about
\* the packets that Scripts allows, whose data is JSON that parses and whose frames both
\* sides measure alike, and about handlers that return.
EndsAtPlus ==
  receiving \/ \E i \in DOMAIN sent :
                 /\ sent[i].type = "ack" /\ sent[i].args # <<>> /\ Has(sent[i].args[1], PLUS)
                 /\ ~crossed /\ Multilines = {} => i = Len(got) + 1

\* Once the two applications have stopped, and while the connection and the receiver
\* loop hold, nothing stays in the client's buffer, in a POST or in a queue of the
\* server; what shares a POST with a line feed, and follows it, is lost.
Delivered ==
  <>[](connected /\ receiving => /\ Multilines = {} => Len(got) = Len(sent)
                                 /\ Len(heard) = Len(emitted))

\* Then every callback that an event of the client gave, and every callback of the
\* server, has run.  One given to the client's send() never does: the server answers
\* no packet that asks for the ack of the library.
Answered ==
  <>[](connected /\ receiving => /\ \A p \in acks : p.ack # "data"
                                 /\ ack_callbacks = {})

=============================================================================
