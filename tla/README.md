# A verification project for gevent-socketio

TLA+ modules, TLC configurations and TLAPS proofs about `gevent-socketio`
(`src/socketio`), a Socket.IO 0.9 server in Python on top of gevent.

## 1. The system

A browser talks to the server with many HTTP requests (XHR polling and posts,
or one WebSocket). The server gives it one *virtual socket*, and the
application sees *Namespaces* (endpoints) on that socket.

| component | state it keeps | operations | code |
|---|---|---|---|
| server and handler | `server.sockets` (sessid to Socket) | handshake, `get_socket`, request routing, first-request set-up | `server.py`, `handler.py` |
| virtual socket | `state`, `connection_established`, `active_ns`, `jobs`, two queues, `timeout` event, `ack_callbacks` | `kill`, `detach`, `disconnect`, `remove_namespace`, `spawn`, queue access | `virtsocket.py` |
| receiver loop | its current packet and Namespace | decode, route, create a Namespace, dispatch, answer acks | `virtsocket.py:347-430` |
| heartbeat, heartbeat timeout, watcher | where each of them sleeps | `_heartbeat`, `_heartbeat_timeout`, `_watcher` | `virtsocket.py:432-480` |
| Namespace | `allowed_methods`, `jobs` | ACL methods, `process_packet`, `emit`, `send`, `spawn`, `disconnect` | `namespace.py` |
| transports | the payload a request is writing | `get`, `post`, payload framing, the WebSocket reader and sender | `transports.py` |
| packets | none | `encode`, `decode` | `packet.py` |
| mixins | `session['rooms']` | `join`, `leave`, `emit_to_room`, `broadcast_event` | `mixins.py` |
| client (the socket.io 0.9 library of the examples) | `connected`, `doBuffer`, `buffer`, `ackPackets` and `acks` of each endpoint, the POSTs and the poll in flight | `packet`, `setBuffer`, `send`, `emit`, `onPacket`, the parser, the XHR transports | `examples/simple_chat/static/socket.io.js` |
| integration | none of its own | `socketio_manage`, Django view, gunicorn workers, Flash policy server | `__init__.py`, `sdjango.py`, `sgunicorn.py`, `policyserver.py` |

How they interact: a request finds its Socket in `server.sockets`, puts what
the client sent into `server_queue` and takes what is to be sent from
`client_queue`. The first request of a session starts the heartbeat greenlets,
the watcher and the WSGI application, which calls `socketio_manage` and so
starts the receiver loop. The receiver calls user code, and user code may call
back into the socket: emit, spawn, disconnect. `kill()` ends it all, and may be
entered from the receiver, the heartbeat timeout, a request or a job.

What is hard: greenlets switch wherever they block, and the teardown paths
(`kill`, `disconnect`, `BaseNamespace.disconnect`, `gevent.killall`, the
watcher) block half-way, call each other and throw `GreenletExit` into each
other, themselves included.

The state a component keeps is only ever changed by the greenlets of the
server process, and a greenlet runs alone until it blocks: in a `Queue.get`, a
`gevent.sleep`, an `Event.wait`, a write on a connection, `gevent.killall`, or
in user code. Everything between two such points is atomic, and the models
follow it: one action is one run of a greenlet from one blocking point to the
next.

### What makes each component correct

| component | properties that matter | where |
|---|---|---|
| virtual socket, receiver, timers | opens and closes once; killed by one greenlet; reachable and watched as long as connected; closed by the last Namespace that leaves; its teardown ends, whatever greenlet is killed half-way; what remains (Namespaces, greenlets, the jobs of a Namespace that disconnects) is cleaned up | `VirtSocket`, `SocketLifecycle` |
| outbound path | no message is duplicated, reordered (one request at a time) or lost without a failed write or a kill; `None` is never written; polls are answered; a stream ends only with its socket | `Outbound`, `LossyFifo` |
| dispatch, ACL, acks | only open methods run; callbacks run once and not after `kill()`; requests for acks are answered once, in order | `Dispatch` |
| packets, framing | what one side gives to be sent is what the other decodes, whatever shares its payload; where an ack that `decode` cannot take ends the receiver | `Packet`, `Wire` |
| client and session together | each side hears the other in order; a callback gets the answer to its own packet, once; with both at rest nothing is left in a buffer or a queue | `Wire` |
| mixins | an event for a room reaches the others in that room once, and nobody else; rooms last from `join()` to `leave()`; sessions agree on the order of events | `Rooms`, `RoomService` |
| server, sessions | a session is found from its handshake until it is killed, and never after | `Rooms`, `VirtSocket` |
| integration | the application starts one receiver for each socket | `VirtSocket` (`AppManage`) |

Not modelled, with no plan to: the gunicorn workers (they set up servers of
gunicorn, which is not in the repository), the Flash policy server (a constant
answer), the Django view (a call of `socketio_manage`), HTTP headers, logging
and JSONP quoting; the other examples, their pages and the JavaScript they ship
besides the client (jQuery, Backbone and the like), which are third-party code;
of the client, what opens and reopens sessions (handshake, choice of a
transport, reconnection) and its other transports.

The full list of hazards, each at its line with the properties that cover it or
the reason why none does, is in `PROJECT.json`.

## 2. The modules

    SocketLifecycle   <-- refines --  VirtSocket  <-- MCVirtSocket, VirtSocketProofs
    LossyFifo         <-- refines --  Outbound    <-- MCOutbound, OutboundProofs
                                      Dispatch    <-- MCDispatch, DispatchProofs
                          Packet  <--  Wire       <-- MCWire, WireProofs
                          Packet  <--  PacketProofs  <--  PayloadProofs  <--  WireProofs
    RoomService       <-- refines --  Rooms       <-- MCRooms, RoomsProofs
    SocketLifecycle   <-- refines, for each session --  Rooms

`Sublist` is the one loop that `Outbound` and `Dispatch` share, which keeps
some elements of a sequence; `SublistProofs` has the lemmas about it, and those
about induction, that the other proofs use. `PacketProofs`, `PayloadProofs` and
`WireProofs` build on each other: one packet, one body, the whole exchange.

Comments that start with `Slip:` mark variants of an operator with a plausible
mistake in it. They are no part of a specification; each of them makes one
property fail, which shows that the property depends on the code it is about.

### VirtSocket: the life of one socket

State (names of the code): `state`, `connection_established`, `jobs`,
`active_ns`, `server_queue`, `timeout` (the flag of the Event), `attached`
(the session is in `server.sockets`), `born` and `listed` for the Namespace
objects and their `jobs` lists. The k-th Namespace made for an endpoint is the
pair `<<name, k>>`, since an endpoint can be left and joined again while the
teardown of its first Namespace is still blocked somewhere.

Control: `pc[g]` says where greenlet `g` stands, `frame[g]` is what its stack
holds (whose `disconnect()` it is in, the Namespaces left in a loop over
`active_ns`, what follows the loop, whom its `killall` waits for).
The greenlets are the receiver, the heartbeat timeout, the watcher, the WSGI
application, the requests of the session and the jobs of the Namespaces.

| code | actions |
|---|---|
| `handle_one_response`, `do_exchange`, `post` | `ReqConnect` (the write of `1::`, which may block), `ReqEstablish` (state, heartbeat, watcher, application), `ReqPost`/`ReqDeliver`, `ReqPoll`, `ReqDisconnect` |
| `socketio_manage` | `AppManage` |
| `_receiver_loop` | `RecvSkip`, `RecvInvalid`, `RecvKill`, `RecvDispatch`, `RecvInit`, `RecvRegister`, `HandlerReturn`, `HandlerRaise` |
| `kill`, `detach` | `Kill`, `FinishLoop`, `DetachAndKillJobs`, `EndKill` |
| `disconnect` (the loop over `active_ns`) | `StartLoop`, `DisconnectNext`, `DisconnectRaise` (a `recv_disconnect()` of the user's that raises, if `Raises`), `UserDisconnectAll` |
| `BaseNamespace.disconnect`, `remove_namespace`, `kill_local_jobs` | `NsDisconnect`, `KillLocalJobs`, `ResumeKill`, `ResumeLocal`, `UserDisconnect` |
| `_heartbeat_timeout`, `_watcher` | `HbtArm`, `HbtWake`, `HbtExpire`, `WatchWake` |
| `gevent.killall(..., block=True)` (external) | `KillAll` schedules a callback and blocks; `RunCallback` throws `GreenletExit` into all of its victims; `Resumable` is its `joinall` |

`gevent` is not part of the repository: `killall` is modelled from its
documented behaviour and how the code uses it. A greenlet that was never
started dies at once; one that is blocked gets `GreenletExit` where it stands,
which a `finally` on the way (the one in `BaseNamespace.disconnect`) sees
before the greenlet dies; a job of the application may take its time.

`SocketLifecycle` is what all of this promises to others: three phases, never
back; an endpoint joins or leaves one at a time; the last one that leaves an
open socket closes it in the same step and makes it unreachable.

### Outbound: what leaves the server

A message is its number in the order of the puts. Producers are `Emit`
(`send_packet`, from any greenlet, at any time) and `Beat` (the heartbeat
greenlet). Consumers have a `Kind`: an XHR or JSONP `poll`, an htmlfile
`chunk` stream, a `websocket` sender. `EncodePayload` is what
`encode_payload()` keeps of a batch: nothing when its first entry is `None`,
else everything that is not `None`. `Kill`, `Boot` (the last Namespace's
`disconnect()`), `Detach` and `Reap` (a `killall` of `socket.jobs`) are the
events of `VirtSocket` that touch the path. They are in every order
`VirtSocket` allows, and in some it does not: whether a `killall` or the `None`
reaches a sender first is left open, the `killall`s of a greenlet that dies
half-way are still run, and the first write of a request does not race with
another first write (that race is in `VirtSocket`).

`LossyFifo` is the promise to a client with one request open at a time: each
message at most once, in order, none skipped until a write fails or the socket
is killed.

### Dispatch: what one packet does

The receiver with the Namespaces in place: `process_packet`, `process_event`,
`call_method_with_acl`, the ACL methods, `_save_ack_callback` and
`_pop_ack_callback`, the ack of a return value, `error()`. `Outcome` says what
becomes of a packet; `Finish` is the end of the loop's body (the ack, `are we
still connected?`). `granted` records what the calls of the ACL methods are
documented to leave open, `fired` the callbacks that ran, `mark` the last id
given out when the socket was killed: three records to state properties with,
which no action reads.

### Packet: what is on the wire

`encode()` and `decode()`, the parser of the client, and the framing of several
messages in one body on both sides, as functions. A text is a sequence of
symbols, one for each character: those that the parsers look for (`:`, `+`,
the frame mark, a line feed), numbers, and words that hold none of them. So the
conversions are what they are, with their splits, slices and lengths, while a
name or an argument is one symbol. The loops that take a payload apart are
functions of the turn: `LeftAfter(t)[n]` is what `n` turns leave of `t`, and
the server's `Unframe` and the client's `ClientUnframe` stop at the first turn
that leaves nothing, or no mark. `Invalid` stands for a packet at which
`decode()` raises; `Encodable` says when `encode()` does not. JSON is external:
it escapes a line feed and nothing else that the parsers look for. Packets of
type `error`, which neither side sends, are left out.

`Words`, the symbols without a meaning, is a constant. `PacketType`, `Sound` and
`Lines` say which packets either side may build: what the types, the parsers of
JSON and the code that builds packets leave possible. `AsRead(p)` is what
`_request_body()`, which reads one line, leaves of a packet.

### Wire: a page, the network, a session

The client of the examples over xhr-polling and the session it talks to. Each
application sends its script, a sequence of packets, at any pace. `ClientSend`
gives a packet its id and posts it, or buffers it while a POST is in flight
(`Submit`); `ServePost` and `PostDone` are the two ends of a POST, which may be
served and answered in any order; `Poll` answers with all that is queued, and
`Hear` handles one packet of a response, at which a listener may ack. `Receive`
is one turn of the receiver loop; every endpoint is served, by handlers that
return their arguments. `Beat` is the heartbeat, which the client answers past its buffer.
`ConnectionLost` is a request that fails: the client gives the session up, and
the server goes on. `sent`, `got`, `emitted`, `heard`, `fired` and `called` are
records that no action reads.

`WireAssumption` is about `Scripts`: packets of the types that applications
send, sound once they have their id (`Unsent`), and different from each other,
those of the client also as the server reads them. The last is what lets `Once`
tell a packet that came twice from two that look alike.

The requests of one session as greenlets, and the teardown, are in `VirtSocket`
and `Outbound`; here a request is served in one step, and a session stays up.

### Rooms: the sessions of a server

`made` and `sockets` are the sessions handed out and those in
`server.sockets`; a Socket is what `SocketLifecycle` says of it (`phase`,
`active_ns`), and `KeepsLifecycles` shows that the sessions together still obey
it. `rooms` is `session['rooms']`, made with the first Namespace that has the
mixin. A loop over `server.sockets` is taken step by step: `Start`, then `Turn`
for each session, in the unspecified order of a dict. That nothing else runs
until the loop is through (`MayRun`) is an assumption about gevent, not a
result: `put_nowait()` on an unbounded queue never switches. This is also why
`server.sockets` does not change under the loop. Code of a Namespace may run on
after the Namespace was left or the socket was killed, as handlers and jobs do.

`RoomService` is the promise: a room of an endpoint has members, an event
reaches the members (or all, or all others) in one step. The mapping takes the
puts that a loop has yet to do as done.

## 3. The runs

Deadlock is not checked (`CHECK_DEADLOCK FALSE`): a killed socket whose
greenlets are dead really stops, and so does a model whose bounds are used up.

| run | instance | shows |
|---|---|---|
| `requests` | one endpoint, two requests, one job, any payload | types; a connected socket is attached and monitored; one greenlet at a time tears it down; a killed one is never connected again, though two first requests overlap |
| `namespaces` | two endpoints, each left and joined again, one request, no jobs | the inductive invariant of the proofs; the refinement of `SocketLifecycle`: among the rest, the last Namespace that leaves closes the socket |
| `liveness` | one endpoint, one request, one job, weak fairness | killers blocked on each other go on; a silent client is dropped; Namespaces and greenlets of a killed socket go, whoever is killed half-way; `disconnect()` kills the jobs of its Namespace though its own greenlet is killed in it |
| `out_fifo` | one poll after the other, six messages | refinement of `LossyFifo` |
| `out_mixed` | a poll, a stream and a WebSocket at once, fairness | every message in one place; only messages after `kill()` are dropped; a stream ends only with its socket; polls are answered, messages arrive |
| `wire` | eight scripts: every type of packet in both directions, alone and in payloads, with the parsers' characters in them; callbacks of two endpoints and of both sides; one heartbeat; fairness | what is decoded is what was given to be sent, once and in order; callbacks run once with the answer to their own packet; the receiver, if it ends, ends at an ack with a `+`, with all that came before it handled; what was sent arrives, and what was asked is answered |
| `rooms` | two sessions, two endpoints, a room of each, two events | the refinement of `RoomService`; sessions agree on the order of events; each session keeps its lifecycle |
| `dispatch` | an ACL that starts as a list, every order of ACL calls, three packets, two callbacks | only a method that is open runs; callbacks run once, none from before `kill()`; acks answer the requests in order |

The other runs (`dead_attached`, `surviving_job`, `booted_knows`, `acl_list`)
each end in a violation, which is a finding of section 5.

Bounds, and why they are enough for what the runs show:

- `MaxInstances`: a second Namespace object for the same endpoint is what makes
  `remove_namespace()`, keyed by name, hit the wrong one. A third adds nothing
  that the second does not. The runs where this is not the question have one.
- `MaxJobs`: one job that a `killall` waits for, and that may itself call
  `disconnect()`, is the hard case. `namespaces` has none: jobs and a second
  Namespace for two endpoints together are out of reach, and what that run
  states is proved for every number of jobs. One is too few for the exception
  in `LocalJobsDie`, a second job spawned while `kill_local_jobs()` blocks: with
  `MaxJobs = 2` the property holds as well, over 704,000 states, which takes too
  long for a run that is kept.
- `Requests`: two in `requests`, so that two may be a session's first request.
- `MaxSent`: enough messages to open every endpoint, leave it, join it again
  and send the global disconnect. `liveness` has one message, which leaves the
  teardowns by the timeout, a request, the packet and user code.
- `MaxMessages`, `Consumers`: messages before and after the `None` of `kill()`
  in one batch, and a consumer of every kind.
- `MaxPackets`, `MaxPuts`, `AclMethods`: a packet around every change of an
  ACL; three packets for two callbacks, so that one may be acked twice.
- `Raises`: TRUE in `requests`, where the receiver, the timers, both requests
  and a job may each be in the loop that a `recv_disconnect()` ends by raising;
  FALSE elsewhere. The proofs hold for both.
- `Scripts`, `MaxBeats`: three packets of the client, so that two wait in the
  buffer while one is in flight and share a payload; two of the server, so that
  a poll takes two; one heartbeat, which is what makes two POSTs cross.
- `Sessions`, `RoomNames`, `MaxEvents` of `Rooms`: what the properties say is
  about pairs of sessions and pairs of events; either session may be the sender
  of both. The two rooms of the endpoints share a name, so that only the
  endpoint tells them apart; two rooms in one session are what a Namespace that
  is opened again could lose at once.

`SYMMETRY` is used only in runs without liveness properties, over model values
that no formula tells apart. The `VIEW` of `MCVirtSocket` leaves out the queue
of a receiver that is dead and the flag of a timeout that is dead: nothing
reads them again, and no property of a run with the view mentions them but for
their types.

Fairness (`FairSpec`) is weak and per greenlet: gevent's loop runs every
callback and every greenlet that is ready and lets every timer expire.
It says nothing about clients or about user code, except that handlers return
and that a job into which `GreenletExit` was thrown ends. That `kill()` and the
watcher get to their `killall` rests on `recv_disconnect()` not raising in the
loop before it (`Raises = FALSE` in `liveness`); where it may raise, the code
does not guarantee it (`virtsocket.py:440`), and `Outbound` assumes no fairness
of any `killall`. `Outbound` adds `ClientPolls`, which is an assumption about
the client, for the one property that is about delivery.

`Wire`'s `FairSpec` has weak fairness for what takes from each queue: the
receiver loop runs, a POST that is made is served and answered, a response that
came is handled, and the client polls again after every response (`get()` in
`onData`'s caller does). None of it is asked of the two applications, and all
of it ends with `ConnectionLost`, which may happen at any time and has no
fairness; `Delivered` and `Answered` are about connections that hold.

## 4. The proofs

Each of these modules proves theorems for every value of the constants that
the assumption of its specification allows. An invariant of a run is seldom
inductive; `IInv` of each module is the strengthening that is, as a conjunction
of named parts, and TLC checked it on the instance of the run before it was
proved (`namespaces` still does, for `VirtSocket`; the one of `Wire` is beyond
TLC).

### VirtSocketProofs

Holds for all sets of endpoints, requests and payloads and every bound, from
`VirtSocketAssumption` (the names of endpoints, requests and the socket's own
greenlets differ, payloads are sequences of packets, bounds are naturals).

- `Invariance`: `Spec => []IInv`. The safety invariants are not inductive by
  themselves. `OneKiller`, for instance, needs that whoever is in `kill()` has
  set the state already (`Closing`), and `Monitored` that nothing is thrown into
  the socket's own greenlets while it is connected (`ThrownInto`). `IInv` is
  their conjunction: `TypeOK`, `Established`, `Fresh` (nothing but requests
  exists before the socket opens), `Closing`, `ThrownInto`, `InUserCode`,
  `ConnectedAttached`, `Monitored`, `OneKiller`.
- `TypeCorrect`, `ReachableWhileConnected`, `MonitoredWhileConnected`,
  `KilledOnce` follow from it.
- `Implements`: `Spec => KeepsLifecycle`, each action mapped to a step of
  `SocketLifecycle` or to a stutter.
- `NeverResurrected`: from the refinement, since it holds of every behaviour of
  `SocketLifecycle`.

### RoomsProofs

Holds for all sets of sessions, endpoints and rooms and every bound, from
`RoomsAssumption`: no two pairs of an endpoint and a room have one name (which
leaves out the names with `_` of section 5), and `NoRooms` (a session without a
`rooms` yet) is no set of rooms.

- `Invariance`: at most one loop over `server.sockets` is under way; the
  sessions it has yet to reach are in `server.sockets` and hold older events
  only (`OneLoop`, `Rising`; `Shape`, `Ages` and `IdleOrBusy` say what a session
  is otherwise). All of it rests on `MayRun`, the assumption that a loop which
  only puts into unbounded queues is not interrupted.
- `TypeCorrect` follows at once, and `OneOrder` (`SameOrder`): an event is new to every session when its loop
  starts, and the next loop starts when it has ended, so that the numbers of
  the events rise in every session.
- `AllLive` (`KeepsLifecycles`): the sessions, side by side, each go through the
  states of `SocketLifecycle`.
- `RoomsImplement` (`KeepsRooms`): `Start` of a loop is the send of
  `RoomService`, since the mapping takes the puts ahead as done; each `Turn` is
  a stutter; `join()`, `leave()` and the teardown are what they are called.

### OutboundProofs

Holds for all consumers of any kind and every bound.

- `Invariance`: `IInv` is `TypeOK`, `DropsOnlyLate` and what makes `Accounted`
  inductive. `Spread` (`Apart`) says that a message is in one place: the queue,
  one consumer's hand, the client, the lost or the dropped; `Single` that each
  of these has it once; `HandsEmpty` that only a write has something in hand.
  `Killed` is about `kill()`: before it there is no `None` and no `killall`,
  and behind the `None` there is only what was emitted later, so that
  `encode_payload()`, which gives up at a `None` in front, drops nothing else.
- `TypeCorrect`, `LateDrops` (`DropsOnlyLate`), `KilledStreams`
  (`StreamEndsOnKill`), `AllAccounted` (`Accounted`).
- `OneAtATime`: with one consumer, `Outbound` implements `LossyFifo`. The run
  has a poll after a poll; the theorem is about a consumer of any kind. It
  needs one more invariant, `InLine`: what the client has, what is in hand and
  what is queued follow each other in the order of the puts.

### DispatchProofs

Holds for all sets of endpoints, events and packets, every initial ACL and
every bound. `IInv` is `TypeOK`, `FiredOnce`, `Silenced` (what waits on a killed
socket was registered after `kill()`) and `WithinGranted` (an ACL opens no more
than was granted). `DispatchInvariance` proves it; `DispatchTypeCorrect`,
`CallbacksFireOnce`, `CallbacksForgotten` and `OnlyGrantedMethodsRun` follow.
`RequestsAnswered` is `AcksMatchRequests`, which compares what `Keep` leaves of
two sequences.

### PacketProofs and PayloadProofs

Texts are sequences over any set of `Words`, besides the symbols that the
parsers look for; `Sound` says which packets the two sides may build. From
`PacketAssumption`: numbers are written differently, and none like one of those
symbols.

- `SameText`: `encode()` and the client's `encodePacket()` write every sound
  packet alike, although one goes type by type and the other part by part.
- `ServerReads`, `ClientReads`: what either side writes, the other reads back,
  field by field. The proof follows the text: where the first three `:` are
  (`Parts`, whose point is that only the last part may hold one), what the id
  and the data look like (`IdParts`, `DataParts`), and that JSON comes back
  (`Json`, `JsonEvent`).
- `PlusBreaks`: the one exception. `ServerReads` assumes that the arguments of
  an ack hold no `+`; an ack with one is `Invalid`. `ClientReads` has no such
  assumption.
- `ServerUnpacks`, `ClientUnpacks`: either side's loop takes a payload apart
  into the messages of which the other made it: any number of them, with frame
  marks, numbers and colons in them. `Turn` is one turn of the loop, `LoopFacts`
  all of them.
- `PollArrives`, `PostArrives`: both together, from packets to packets.
- `PostBody`: what `_request_body()` and `decode_payload()` make of a POST, line
  feeds included: the packets up to some point, the last of them perhaps cut,
  and nothing else. The argument is that a cut body is still a row of whole
  frames, but for its last one, whose length the loop does not check; and that
  JSON writes no line feed, so that only a message can be cut. This is where
  every text must have a length that can be written, `AllNumbers`.

What limits them: a frame's length counts symbols (the units in which the two
sides count differ, section 5), and must be a number that is written; JSON,
which is external, is modelled as escaping the line feed alone, so that `Sound`
leaves out an argument that holds the escape itself.

### WireProofs

Holds for all scripts that `WireAssumption` allows, however long, any set of
words and any number of heartbeats, under `AllNumbers`: the theorems are
`AllNumbers => (Spec => []P)`, where `AllNumbers` says that `Numeral` has every
natural number, as the two languages do (TLC's instance has those up to 40, so
that this is no assumption of the module). All six safety invariants of the run
are proved: `WireTypes` (`TypeOK`), `NothingAltered` (`Unaltered`),
`InOrderAlways` (`InOrder`), `AnswersMatch` (`OwnAnswer`), `RepliesMatch`
(`OwnReply`) and `EndedAtPlus` (`EndsAtPlus`). `Invariance` is
`AllNumbers => (Spec => []IInv)`; the parts of `IInv`:

- `Types0`: a queue holds texts of sound packets (`Coded`), and a POST holds a
  body from which the server takes such texts (`Taken`). `PostBody` and
  `ClientUnpacks` carry it over.
- `UpRest`, `DownRest`: what the scripts have left differs from what was sent.
  `UpApart`, `DownApart`: packets with one id, of one endpoint at the client and
  of the session at the server, are one packet; an id is never given out twice,
  as the counters are at least as high.
- `UpAcks`, `DownAcks`: an ack that was sent answers a packet that came, with
  its arguments. With `DownApart` this makes an ack find the callback it is for,
  and with "once" that it is the only one: `Fired`, `Called`.
- `DownLine`: what the server said is what the client heard, followed by what
  is in the response it is handling and in `client_queue`, in this order,
  heartbeats left out (`Keep`), until the connection is lost.
- `UpLine`: the same from the client: the receiver's log, `server_queue`, the
  POST in flight, the buffer, as long as no two POSTs were in flight at a time
  and no message has a line feed. `Buffered` is why it works: a packet
  is posted at once only when the buffer is empty.
- `Carried`, `Spread`: without that condition: every text that is anywhere on
  its way up was sent, and is in one place only. `At(w, k, x)` numbers the
  places; each step moves texts from place to place without merging two of them
  (`PostPlaces`, `ServePlaces`, `FlushPlaces`, `ReceivePlaces`), or adds one that
  is nowhere yet.
- `LoopLives`, `Ahead`: the receiver has ended only if an ack with a `+` was
  sent; and, under the condition of `UpLine`, that ack is the packet that
  follows all those it handled. Of every other packet of the client `Decoded` gives the fields.
  This is about the packets that `Scripts` may hold (`Sound`), framed by one
  unit of length, and about handlers that return: section 5 lists what else
  ends a receiver.

TLC cannot evaluate this `IInv`, which speaks of all sound packets and their
texts; it checks what follows from it.

### Induction

An induction theorem that takes a predicate as a parameter cannot be used with
these provers. What can: sets. `SublistProofs` proves from the well-ordering of
the naturals (`WFMin`) that a set which contains 0 and is closed under `+ 1`
contains every natural (`NatSetInduction`), and the same for sequences and
`Append` (`SeqSetInduction`); to use it, a proof names the set of those for
which the claim holds. `LoopExists`, `LoopUnique` and `Recursion` are about
recursive functions: there is one, and only one. So `Keep` and the loops of the
framings are proved about, without `RECURSIVE` operators.

### Only model-checked

Liveness under fairness is beyond the proof system's reach, in every module:
the properties of `liveness`, `PollAnswered` and `Delivered` of `out_mixed`,
`Delivered` and `Answered` of `wire`. Every safety invariant that a
run checks, and every refinement, is proved.

## 5. Where the code and what it says of itself differ

| run | what happens | what is said |
|---|---|---|
| `dead_attached` | the watcher kills the greenlet that runs `kill()` before its `detach()`; the dead socket stays in `server.sockets` | `detach`: "once all the jobs are dead, detach the socket for garbage collection" |
| `surviving_job` | a Namespace registered after the snapshots of `kill()` and the watcher keeps its jobs | `spawn`: "all these greenlets are going to be killed" |
| `booted_knows` | the `disconnect` packet is queued on a socket that is detached at once | `BaseNamespace.disconnect`: "so that the user knows" |
| `acl_list` | `add_acl_method()` on a list closes every other method | docs, namespace: opened "more granularly with `add_acl_method`" |

The models follow the code, not its comments, in these places too; no run is
spent on them:

- the receiver is in `socket.jobs` (`virtsocket.py:429`), so `kill()` throws
  `GreenletExit` into it, whereas `_receiver_loop` says it is "not tracked";
- leaving the only Namespace kills the whole socket (`virtsocket.py:328`),
  whereas `docs/source/index.rst` says it "only removes access to that
  namespace";
- a disconnect request before any Namespace is active does nothing
  (`handler.py:146`), and the heartbeat timeout has to end the socket;
- a job spawned while `kill_local_jobs()` blocks is dropped from its list alive
  (`namespace.py:511`);
- `send_into_ws()` raises before its `socket.disconnect()`
  (`transports.py:254`);
- a sender spawned after the last `killall` of its socket, when another
  transport took the only `None`, waits for ever (`transports.py:269`);
- a receiver that `socketio_manage()` spawns after the last `killall` of its
  socket is killed by nobody and waits for ever (`__init__.py:82`);
- `'ack': True` gets no ack (`virtsocket.py:407`), whereas
  `docs/source/packet.rst` calls it automatic;
- a packet that does not decode is to be answered by an `invalid_packet` event
  (`virtsocket.py:367`), but that event has no endpoint: `encode()` raises
  `TypeError` and the receiver loop ends, unless the application has its own
  error handler (`RecvInvalid` of `VirtSocket`, `Receive` of `Wire`);
- `decode()` splits an ack at every `+` (`packet.py:174`), whereas the comment
  of `encode()` says an ack is `'6:::' [id] '+' [data]` (`packet.py:85`) and the
  client writes it so. A listener that acks with a text that holds a `+` ends
  the receiver loop of its session, and what is queued behind the ack is never
  handled. `EndsAtPlus` shows that of the packets of `Wire` no other kind ends
  it. There are other ways outside `Wire`: a frame that is cut wrongly, data that
  is no JSON (`json.send(undefined)` writes none), an event that has no name, and
  a handler that raises (`virtsocket.py:404`, `HandlerRaise` of `VirtSocket`);
- `_request_body()` reads one line (`transports.py:72`), whereas
  `tests/test_packet.py` decodes messages of several lines: over XHR such a
  message is cut at its line feed, and what follows it in the payload is lost
  (`Unaltered` and `Delivered` have the exception);
- the client posts the answer to a heartbeat past its buffer
  (`socket.io.js:1415`), so that two POSTs may be served in either order, and
  the packets of the client be handled out of order (`InOrder` has the
  exception);
- the length of a frame counts code points at the server and UTF-16 units at
  the client (`transports.py:107`, `socket.io.js:1116`): the frames behind a
  character outside the basic plane are cut wrongly, and a piece that is taken
  for a packet may end the receiver;
- `broadcast_event()` is "sent to all in the sockets in this particular
  Namespace" (`mixins.py:52`), and reaches every session of the server, also
  those that never connected;
- a room outlives the Namespace through which it was joined (`mixins.py:19`),
  and "all in the room (in this particular Namespace)" (`mixins.py:29`) includes
  sessions that have left that Namespace;
- names that contain `_` may give rooms of two Namespaces one name
  (`mixins.py:26`): `/a` with `b_c`, `/a_b` with `c`. `RoomsAssumption` leaves
  such names out;
- `leave()` of a room that was not joined raises `KeyError` (`mixins.py:23`),
  which ends the receiver loop of a handler that lets it through;
- a session that never connects stays in `server.sockets` (`server.py:133`);
- the reader of a WebSocket ends without a word when the connection closes
  (`transports.py:263`); the heartbeat timeout has to end the socket;
- `error()` with a `msg_id` raises `KeyError` in `encode()`
  (`virtsocket.py:44`, `packet.py:72`);
- an event whose JSON does not parse ends the receiver (`namespace.py:214`).

## 6. Plan

Done, in this order: `VirtSocket` with `SocketLifecycle` and its proofs,
`Outbound` with `LossyFifo`, `Dispatch` and its proofs, `Packet` and `Wire`,
`Rooms` with `RoomService`; then the proofs of `Rooms`, `Outbound` and
`Packet`, the rest of those of `Dispatch`, and those of `Wire`.

Left out for good reason: the reader of a WebSocket (`read_from_ws`) puts one
message after the other, as the POSTs of `VirtSocket` do, and adds no step of
its own.

The check of the whole project takes a while: `requests`, `namespaces` and
`liveness` two to three minutes each, `rooms`, `wire` and `out_mixed` one to
two, the others seconds.
