------------------------------- MODULE Outbound -------------------------------
(***************************************************************************)
(* The outbound path of one Socket: what is put in its client_queue, the   *)
(* transports that take messages from it and write them to the client, and *)
(* what the teardown of the socket does to both.                           *)
(*                                                                         *)
(* A message is its number in the order of the puts: send_packet(), the    *)
(* heartbeat greenlet, a broadcast and an ack all end in put_nowait().     *)
(* How kill(), detach() and the killalls come about is VirtSocket's        *)
(* subject; here they are events, in any order that VirtSocket allows.     *)
(***************************************************************************)
EXTENDS Naturals, Sequences, FiniteSets, Functions, Sublist

CONSTANTS
  Consumers,    \* the requests that take messages, or spawn a greenlet that does
  Kind,         \* the transport of each
  MaxMessages   \* bound: messages put in the client_queue

Kinds == {"poll", "chunk", "websocket"}

ASSUME OutboundAssumption ==
  /\ Kind \in [Consumers -> Kinds]
  /\ MaxMessages \in Nat

\* What kill() puts in the queue to wake up the transports; no message is 0.
None == 0

VARIABLES
  state,      \* Socket.state
  attached,   \* sessid in server.sockets
  queue,      \* client_queue
  emitted,    \* messages put so far
  heart,      \* the heartbeat greenlet is alive
  pc,         \* where each consumer stands
  hand,       \* the messages each consumer is writing
  jobs,       \* the consumers spawned with socket.spawn()
  killalls,   \* the gevent.killall(self.jobs) to come
  inbox,      \* what the client received
  lost,       \* messages of failed writes and of killed consumers
  dropped,    \* messages that encode_payload() left out
  mark,       \* how many were emitted when kill() put its None
  notice      \* the packet of a disconnect() that was not silent

sockVars == <<state, attached, heart, killalls, mark, notice>>
msgVars  == <<queue, emitted, inbox, lost, dropped>>
consVars == <<pc, hand, jobs>>
vars     == <<sockVars, msgVars, consVars>>

Pcs == {"idle", "opening", "waiting", "writing", "dead"}

Msg == Nat \ {None}
Connected == state = "CONNECTED"
Messages(s) == Range(s) \ {None}

Init ==
  /\ state = "NEW" /\ attached = TRUE /\ heart = FALSE
  /\ killalls = {} /\ mark = 0 /\ notice = 0
  /\ queue = <<>> /\ emitted = 0
  /\ inbox = <<>> /\ lost = {} /\ dropped = {}
  /\ pc = [c \in Consumers |-> "idle"]
  /\ hand = [c \in Consumers |-> <<>>]
  /\ jobs = {}

-----------------------------------------------------------------------------
(* What is put in the client_queue. *)

Put == emitted < MaxMessages /\ emitted' = emitted + 1

\* send_packet(), by a handler or a job of any Namespace, whatever the state:
\* a broadcast reaches new sockets, and a handler may go on after kill().
Emit ==
  /\ Put
  /\ queue' = Append(queue, emitted')
  /\ UNCHANGED <<sockVars, inbox, lost, dropped, consVars>>

\* A sleep of _heartbeat() ends: it puts "2::", then looks at the state.
Beat ==
  /\ heart /\ Put
  /\ queue' = Append(queue, emitted')
  /\ heart' = Connected
  /\ UNCHANGED <<state, attached, killalls, mark, notice, inbox, lost, dropped, consVars>>

-----------------------------------------------------------------------------
(* The teardown. *)

Shut ==
  /\ state' = "DISCONNECTING"
  /\ mark' = emitted'
  /\ killalls' = {"kill", "watcher"}

Kill ==
  /\ Connected
  /\ queue' = Append(queue, None)
  /\ UNCHANGED emitted
  /\ Shut
  /\ UNCHANGED <<attached, heart, notice, inbox, lost, dropped, consVars>>

\* disconnect() of the last Namespace, by user code: the packet, then kill(),
\* which has no Namespace left to disconnect and detaches at once.
Boot ==
  /\ Connected /\ Put
  /\ queue' = queue \o <<emitted', None>>
  /\ notice' = emitted'
  /\ Shut
  /\ attached' = FALSE
  /\ UNCHANGED <<heart, inbox, lost, dropped, consVars>>

Detach ==
  /\ state = "DISCONNECTING" /\ attached
  /\ attached' = FALSE
  /\ UNCHANGED <<state, heart, killalls, mark, notice, msgVars, consVars>>

\* GreenletExit reaches every greenlet that was in jobs; what it was writing is
\* gone.  Requests are not in jobs.  kill() detaches before its killall.
Reap(k) ==
  /\ k \in killalls
  /\ k = "kill" => ~attached
  /\ killalls' = killalls \ {k}
  /\ heart' = FALSE
  /\ pc' = [c \in Consumers |-> IF c \in jobs THEN "dead" ELSE pc[c]]
  /\ lost' = lost \union UNION {Range(hand[c]) : c \in jobs}
  /\ hand' = [c \in Consumers |-> IF c \in jobs THEN <<>> ELSE hand[c]]
  /\ UNCHANGED <<state, attached, mark, notice, queue, emitted, inbox, dropped, jobs>>

-----------------------------------------------------------------------------
(* Opening the transports. *)

\* The first request of a session gets "1::".  (VirtSocket has the requests
\* that cross each other here.)
Connect(c) ==
  /\ pc[c] = "idle" /\ Kind[c] # "websocket"
  /\ state = "NEW" /\ attached
  /\ state' = "CONNECTED" /\ heart' = TRUE
  /\ UNCHANGED <<attached, killalls, mark, notice, msgVars, consVars>>

\* A WebSocket, or an htmlfile stream, writes "1::", which may block.
StreamOpen(c) ==
  /\ pc[c] = "idle" /\ attached
  /\ \/ Kind[c] = "websocket"
     \/ Kind[c] = "chunk" /\ state # "NEW"
  /\ pc' = [pc EXCEPT ![c] = "opening"]
  /\ UNCHANGED <<sockVars, msgVars, hand, jobs>>

\* Then it spawns its sender, and a first request connects the socket.
StreamSpawn(c) ==
  /\ pc[c] = "opening"
  /\ pc' = [pc EXCEPT ![c] = "waiting"]
  /\ jobs' = jobs \union {c}
  /\ IF state = "NEW"
     THEN state' = "CONNECTED" /\ heart' = TRUE
     ELSE UNCHANGED <<state, heart>>
  /\ UNCHANGED <<attached, killalls, mark, notice, msgVars, hand>>

StreamOpenFails(c) ==
  /\ pc[c] = "opening"
  /\ pc' = [pc EXCEPT ![c] = "dead"]
  /\ UNCHANGED <<sockVars, msgVars, hand, jobs>>

-----------------------------------------------------------------------------
(* Taking messages and writing them. *)

\* Slips in encode_payload(): a None anywhere empties the payload; messages
\* after the first one are forgotten; None is not filtered out.
EncodePayloadAny(msgs) ==
  IF None \in Range(msgs) THEN <<>> ELSE msgs

EncodePayloadFirst(msgs) ==
  IF Head(msgs) = None THEN <<>> ELSE <<Head(msgs)>>

EncodePayloadRaw(msgs) == IF Head(msgs) = None THEN <<>> ELSE msgs

\* encode_payload(): the messages that get into the payload.
EncodePayload(msgs) ==
  IF Head(msgs) = None THEN <<>> ELSE Keep(msgs, Msg)

\* Slip: the messages stay in the queue.
PeekAll(c) ==
  /\ hand' = [hand EXCEPT ![c] = EncodePayload(queue)]
  /\ pc' = [pc EXCEPT ![c] = "writing"]
  /\ UNCHANGED <<queue, dropped>>

\* get_multiple_client_msgs() drains the queue.  An empty payload is a NOOP for
\* a poll, and the end for a stream.
TakeAll(c) ==
  LET payload == EncodePayload(queue)
  IN  /\ queue' = <<>>
      /\ hand' = [hand EXCEPT ![c] = payload]
      /\ dropped' = dropped \union (Messages(queue) \ Range(payload))
      /\ pc' = [pc EXCEPT ![c] = IF Kind[c] = "chunk" /\ payload = <<>>
                                 THEN "dead" ELSE "writing"]

\* send_into_ws() takes one message.
TakeOne(c) ==
  /\ queue' = Tail(queue)
  /\ IF Head(queue) = None
     THEN pc' = [pc EXCEPT ![c] = "dead"] /\ UNCHANGED hand
     ELSE /\ hand' = [hand EXCEPT ![c] = <<Head(queue)>>]
          /\ pc' = [pc EXCEPT ![c] = "writing"]
  /\ UNCHANGED dropped

\* get(): a poll finds messages, or waits for heartbeat_interval at most.
Poll(c) ==
  /\ pc[c] = "idle" /\ Kind[c] = "poll"
  /\ attached /\ state # "NEW"
  /\ IF queue # <<>>
     THEN TakeAll(c)
     ELSE pc' = [pc EXCEPT ![c] = "waiting"] /\ UNCHANGED <<queue, hand, dropped>>
  /\ UNCHANGED <<sockVars, emitted, inbox, lost, jobs>>

\* The queue wakes up a getter, whichever it picks.
Take(c) ==
  /\ pc[c] = "waiting" /\ queue # <<>>
  /\ IF Kind[c] = "websocket" THEN TakeOne(c) ELSE TakeAll(c)
  /\ UNCHANGED <<sockVars, emitted, inbox, lost, jobs>>

\* Slips: the streams time out as well; the poll does not.
TimeoutAll(c) ==
  /\ pc[c] = "waiting"
  /\ pc' = [pc EXCEPT ![c] = IF Kind[c] = "poll" THEN "writing" ELSE "dead"]
  /\ UNCHANGED <<sockVars, msgVars, hand, jobs>>

TimeoutNever(c) == FALSE /\ UNCHANGED vars

\* Queue.get() raises Empty: the payload is empty, and the answer a NOOP.
Timeout(c) ==
  /\ pc[c] = "waiting" /\ Kind[c] = "poll"
  /\ pc' = [pc EXCEPT ![c] = "writing"]
  /\ UNCHANGED <<sockVars, msgVars, hand, jobs>>

WriteOk(c) ==
  /\ pc[c] = "writing"
  /\ inbox' = inbox \o hand[c]
  /\ hand' = [hand EXCEPT ![c] = <<>>]
  /\ pc' = [pc EXCEPT ![c] = IF Kind[c] = "poll" THEN "idle" ELSE "waiting"]
  /\ UNCHANGED <<sockVars, queue, emitted, lost, dropped, jobs>>

\* The client is gone: the request, or the greenlet of the stream, ends and its
\* payload with it.  Nothing else is told.
WriteFail(c) ==
  /\ pc[c] = "writing"
  /\ lost' = lost \union Range(hand[c])
  /\ hand' = [hand EXCEPT ![c] = <<>>]
  /\ pc' = [pc EXCEPT ![c] = IF Kind[c] = "poll" THEN "idle" ELSE "dead"]
  /\ UNCHANGED <<sockVars, queue, emitted, inbox, dropped, jobs>>

-----------------------------------------------------------------------------
Source == Emit \/ Beat

Teardown == Kill \/ Boot \/ Detach \/ \E k \in killalls : Reap(k)

Opening(c) == Connect(c) \/ StreamOpen(c) \/ StreamSpawn(c) \/ StreamOpenFails(c)

Exchange(c) == Poll(c) \/ Take(c) \/ Timeout(c) \/ WriteOk(c) \/ WriteFail(c)

Next == Source \/ Teardown \/ \E c \in Consumers : Opening(c) \/ Exchange(c)

Spec == Init /\ [][Next]_vars

\* gevent's loop wakes up a getter when there is a message and lets every timer
\* expire, and a write ends in one way or the other.  No killall need come: a
\* recv_disconnect() that raises ends kill() and the watcher.  ClientPolls is what is assumed of the client where a
\* property is about delivery: once connected, it polls again and again.
Fairness ==
  \A c \in Consumers :
    WF_vars(Take(c)) /\ WF_vars(Timeout(c)) /\ WF_vars(WriteOk(c) \/ WriteFail(c))

ClientPolls == \A c \in Consumers : WF_vars(Poll(c))

FairSpec == Spec /\ Fairness /\ ClientPolls

-----------------------------------------------------------------------------
(* Properties *)

\* The type of every variable; what is being written and what the client gets
\* is messages, never the None of kill().
TypeOK ==
  /\ state \in {"NEW", "CONNECTED", "DISCONNECTING"}
  /\ attached \in BOOLEAN /\ heart \in BOOLEAN
  /\ killalls \subseteq {"kill", "watcher"}
  /\ mark \in Nat /\ notice \in Nat /\ emitted \in Nat
  /\ queue \in Seq(Nat)
  /\ pc \in [Consumers -> Pcs]
  /\ hand \in [Consumers -> Seq(Msg)]
  /\ jobs \subseteq Consumers
  /\ inbox \in Seq(Msg)
  /\ lost \subseteq Msg /\ dropped \subseteq Msg

\* Where message m is: one entry for each copy of it.
Copies(m) ==
  {<<"queue", i>> : i \in {i \in DOMAIN queue : queue[i] = m}}
  \union {<<"inbox", i>> : i \in {i \in DOMAIN inbox : inbox[i] = m}}
  \union (UNION {{<<c, i>> : i \in {i \in DOMAIN hand[c] : hand[c][i] = m}} : c \in Consumers})
  \union (IF m \in lost THEN {<<"lost", 1>>} ELSE {})
  \union (IF m \in dropped THEN {<<"dropped", 1>>} ELSE {})

\* However requests overlap, fail and are killed, a message that was emitted is
\* in one place: queued, being written, received, or lost for a known reason.
\* None is received twice.
Accounted == \A m \in 1 .. emitted : Cardinality(Copies(m)) = 1

\* The None that encode_payload() finds ahead of other messages costs only
\* messages emitted after kill(): until then, nothing is dropped without a
\* failed write.
DropsOnlyLate == \A m \in dropped : state = "DISCONNECTING" /\ m > mark

\* A stream whose client is there ends only because its socket was killed
\* (transports.py: "so it was in fact killed, since we pass no timeout").
StreamEndsOnKill ==
  [][\A c \in Consumers : pc[c] = "waiting" /\ pc'[c] = "dead" => state' = "DISCONNECTING"]_vars

\* A poll is always answered, by messages or by a NOOP, even when its socket is
\* killed while it waits: requests are in nobody's killall.
PollAnswered ==
  \A c \in Consumers : (Kind[c] = "poll" /\ pc[c] = "waiting") ~> (pc[c] = "idle")

\* A message emitted on a connected socket reaches a client that keeps polling,
\* unless a write fails or the socket goes down.
Delivered ==
  \A m \in 1 .. MaxMessages :
    (Connected /\ m <= emitted) ~> (m \in Range(inbox) \/ lost # {} \/ ~Connected)

\* A client that has one request open at a time sees a LossyFifo.
Fifo == INSTANCE LossyFifo WITH broken <- (lost # {} \/ state = "DISCONNECTING")

ReliableFifo == Fifo!FifoSpec

-----------------------------------------------------------------------------
(* What the documentation says and the code does not do *)

\* BaseNamespace.disconnect(), docstring: "Send a 'disconnect' packet, so that
\* the user knows it has been disconnected": when no write failed and nobody is
\* left to take it, the packet was received.
BootedKnows ==
  (notice # 0 /\ ~attached /\ \A c \in Consumers : pc[c] \in {"idle", "dead"})
  => notice \in Range(inbox) \union lost

=============================================================================
