-------------------------------- MODULE Rooms --------------------------------
(***************************************************************************)
(* The sessions of a server, server.sockets, and what RoomsMixin and       *)
(* BroadcastMixin do with them: rooms that are kept in the session of a    *)
(* socket, and events that are put into the queues of other sessions.      *)
(*                                                                         *)
(* A socket is here what SocketLifecycle says of it, which VirtSocket      *)
(* implements.  A loop over server.sockets is taken step by step; nothing  *)
(* in it blocks, so that no other greenlet runs until it is through.  A    *)
(* client_queue is the log of the events that were put, as numbers:        *)
(* Outbound has what becomes of them.  Every Namespace has both mixins,    *)
(* and a session id is never drawn twice.                                  *)
(***************************************************************************)
EXTENDS Naturals, Sequences

CONSTANTS
  Sessions,    \* session ids
  Endpoints,   \* texts: the names of the Namespaces
  RoomNames,   \* texts: the rooms, as join() has them
  NoRooms,     \* what session['rooms'] is as long as there is none
  MaxEvents    \* bound: events sent to other sessions

\* The name under which a session keeps a room.
RoomName(ns_name, room) == ns_name \o <<"_">> \o room

\* No text with a '_' in it makes the names of two rooms equal, and no set of rooms is
\* mistaken for the key 'rooms' that a session does not have.
ASSUME RoomsAssumption ==
  /\ \A names \in SUBSET {RoomName(e, r) : e \in Endpoints, r \in RoomNames} : names # NoRooms
  /\ <<>> \notin RoomNames
  /\ MaxEvents \in Nat
  /\ \A a, b \in Endpoints \X RoomNames :
       RoomName(a[1], a[2]) = RoomName(b[1], b[2]) => a = b

VARIABLES
  made,            \* the session ids that were handed out
  sockets,         \* server.sockets
  phase,           \* the state of each Socket: "opening", "open", "closing"
  active_ns,       \* its active Namespaces
  opened,          \* the endpoints for which a Namespace was ever made
  receiving,       \* its receiver loop is alive
  rooms,           \* session['rooms']
  client_queue,    \* the events put into its client_queue
  loop,            \* the loop over server.sockets that a greenlet of the session is in
  events           \* how many were started

lifeVars  == <<phase, active_ns, opened, receiving>>
vars      == <<made, sockets, lifeVars, rooms, client_queue, loop, events>>

Names  == {RoomName(e, r) : e \in Endpoints, r \in RoomNames}
Event(s, e, to, r, n) == [from |-> s, endpoint |-> e, to |-> to, room |-> r, number |-> n]
Events ==
  {Event(s, e, "room", r, n) :
     s \in Sessions, e \in Endpoints, r \in RoomNames, n \in 1 .. MaxEvents}
  \union {Event(s, e, to, <<>>, n) :
            s \in Sessions, e \in Endpoints, to \in {"all", "others"}, n \in 1 .. MaxEvents}

\* A greenlet is in no loop.
Idle == [event |-> <<>>, todo |-> {}]

Init ==
  /\ made = {} /\ sockets = {}
  /\ phase = [s \in Sessions |-> "opening"]
  /\ active_ns = [s \in Sessions |-> {}]
  /\ opened = [s \in Sessions |-> {}]
  /\ receiving = [s \in Sessions |-> TRUE]
  /\ rooms = [s \in Sessions |-> NoRooms]
  /\ client_queue = [s \in Sessions |-> <<>>]
  /\ loop = [s \in Sessions |-> Idle]
  /\ events = 0

\* Slip: a put() that may wait for room in the queue of another session.
MayRunAlways == TRUE

\* What the loops rest on, and what is assumed here of gevent, not shown: put_nowait() on
\* an unbounded queue does not switch, so that only the greenlet that is in a loop runs.
MayRun == \A s \in Sessions : loop[s].todo = {}

-----------------------------------------------------------------------------
(* The sessions. *)

\* _do_handshake(): get_socket() without a session id.
Handshake(s) ==
  /\ MayRun /\ s \notin made
  /\ made' = made \union {s} /\ sockets' = sockets \union {s}
  /\ UNCHANGED <<lifeVars, rooms, client_queue, loop, events>>

\* handle_one_response(): the first request of a session that get_socket() finds.
Connect(s) ==
  /\ MayRun /\ s \in sockets /\ phase[s] = "opening"
  /\ phase' = [phase EXCEPT ![s] = "open"]
  /\ UNCHANGED <<made, sockets, active_ns, opened, receiving, rooms, client_queue, loop, events>>

\* Slip: RoomsMixin.__init__() does not ask whether there are rooms.
RoomsAfresh(s) == {}

\* Slip: BaseNamespace.__init__() does not call the __init__() of the mixins after it.
RoomsLate(s) == rooms[s]

\* RoomsMixin.__init__()
RoomsOfNew(s) == IF rooms[s] = NoRooms THEN {} ELSE rooms[s]

\* The receiver makes a Namespace; once the socket is closed it is its last.
OpenNamespace(s, e) ==
  /\ MayRun /\ receiving[s] /\ phase[s] # "opening" /\ e \notin active_ns[s]
  /\ active_ns' = [active_ns EXCEPT ![s] = @ \union {e}]
  /\ opened' = [opened EXCEPT ![s] = @ \union {e}]
  /\ rooms' = [rooms EXCEPT ![s] = RoomsOfNew(s)]
  /\ receiving' = [receiving EXCEPT ![s] = phase[s] = "open"]
  /\ UNCHANGED <<made, sockets, phase, client_queue, loop, events>>

\* Slip: the socket that loses its last Namespace is not taken down.
LeaveNamespaceOnly(s, e) ==
  /\ MayRun /\ e \in opened[s]
  /\ active_ns' = [active_ns EXCEPT ![s] = @ \ {e}]
  /\ UNCHANGED <<made, sockets, phase, opened, receiving, rooms, client_queue, loop, events>>

\* BaseNamespace.disconnect(): the last Namespace of an open socket takes it down.
\* The rooms stay.
LeaveNamespace(s, e) ==
  /\ MayRun /\ e \in opened[s]
  /\ active_ns' = [active_ns EXCEPT ![s] = @ \ {e}]
  /\ IF phase[s] = "open" /\ active_ns[s] \subseteq {e}
     THEN phase' = [phase EXCEPT ![s] = "closing"] /\ sockets' = sockets \ {s}
     ELSE UNCHANGED <<phase, sockets>>
  /\ UNCHANGED <<made, opened, receiving, rooms, client_queue, loop, events>>

\* kill(), until it blocks in its disconnect loop; without a Namespace it detaches.
Kill(s) ==
  /\ MayRun /\ phase[s] = "open"
  /\ phase' = [phase EXCEPT ![s] = "closing"]
  /\ sockets' = IF active_ns[s] = {} THEN sockets \ {s} ELSE sockets
  /\ UNCHANGED <<made, active_ns, opened, receiving, rooms, client_queue, loop, events>>

\* detach(), in the kill() of a socket that is no longer connected.
Detach(s) ==
  /\ MayRun /\ phase[s] = "closing" /\ s \in sockets
  /\ sockets' = sockets \ {s}
  /\ UNCHANGED <<made, lifeVars, rooms, client_queue, loop, events>>

-----------------------------------------------------------------------------
(* The mixins.  The code of a Namespace may run on after it was left. *)

\* RoomsMixin.join()
Join(s, e, r) ==
  /\ MayRun /\ e \in opened[s]
  /\ rooms' = [rooms EXCEPT ![s] = @ \union {RoomName(e, r)}]
  /\ UNCHANGED <<made, sockets, lifeVars, client_queue, loop, events>>

\* RoomsMixin.leave() of a room that the session is in.
Leave(s, e, r) ==
  /\ MayRun /\ e \in opened[s] /\ RoomName(e, r) \in rooms[s]
  /\ rooms' = [rooms EXCEPT ![s] = @ \ {RoomName(e, r)}]
  /\ UNCHANGED <<made, sockets, lifeVars, client_queue, loop, events>>

\* RoomsMixin.leave() of another room, in a handler: KeyError ends the receiver loop.
LeaveRaises(s, e, r) ==
  /\ MayRun /\ receiving[s] /\ e \in active_ns[s] /\ RoomName(e, r) \notin rooms[s]
  /\ receiving' = [receiving EXCEPT ![s] = FALSE]
  /\ UNCHANGED <<made, sockets, phase, active_ns, opened, rooms, client_queue, loop, events>>

\* A loop over server.sockets starts.
Start(s, e, to, r) ==
  /\ MayRun /\ e \in opened[s] /\ events < MaxEvents /\ sockets # {}
  /\ events' = events + 1
  /\ loop' = [loop EXCEPT ![s] = [event |-> Event(s, e, to, r, events + 1),
                                  todo |-> sockets]]
  /\ UNCHANGED <<made, sockets, lifeVars, rooms, client_queue>>

EmitToRoom(s, e, r)       == Start(s, e, "room", r)
BroadcastEvent(s, e)      == Start(s, e, "all", <<>>)
BroadcastEventNotMe(s, e) == Start(s, e, "others", <<>>)

\* Whether the loop puts the event into the queue of session t.
SendsTo(event, t) ==
  CASE event.to = "room" ->
         /\ rooms[t] # NoRooms
         /\ RoomName(event.endpoint, event.room) \in rooms[t] /\ t # event.from
    [] event.to = "all"    -> TRUE
    [] event.to = "others" -> t # event.from

\* One turn of the loop that s is in.
Turn(s, t) ==
  /\ t \in loop[s].todo
  /\ client_queue' = IF SendsTo(loop[s].event, t)
                     THEN [client_queue EXCEPT ![t] = Append(@, loop[s].event.number)]
                     ELSE client_queue
  /\ loop' = [loop EXCEPT ![s] = IF loop[s].todo = {t} THEN Idle
                                ELSE [loop[s] EXCEPT !.todo = @ \ {t}]]
  /\ UNCHANGED <<made, sockets, lifeVars, rooms, events>>

-----------------------------------------------------------------------------
Next ==
  \E s \in Sessions :
    \/ Handshake(s) \/ Connect(s) \/ Kill(s) \/ Detach(s)
    \/ \E t \in Sessions : Turn(s, t)
    \/ \E e \in Endpoints :
         \/ OpenNamespace(s, e) \/ LeaveNamespace(s, e)
         \/ BroadcastEvent(s, e) \/ BroadcastEventNotMe(s, e)
         \/ \E r \in RoomNames :
              Join(s, e, r) \/ Leave(s, e, r) \/ LeaveRaises(s, e, r) \/ EmitToRoom(s, e, r)

Spec == Init /\ [][Next]_vars

-----------------------------------------------------------------------------
(* Properties *)

\* The type of every variable.  A Namespace is active only when it was made, the
\* server knows only sessions that it made, and rooms are there with the first Namespace.
TypeOK ==
  /\ made \subseteq Sessions /\ sockets \subseteq made
  /\ phase \in [Sessions -> {"opening", "open", "closing"}]
  /\ opened \in [Sessions -> SUBSET Endpoints]
  /\ active_ns \in [Sessions -> SUBSET Endpoints]
  /\ receiving \in [Sessions -> BOOLEAN]
  /\ client_queue \in [Sessions -> Seq(1 .. MaxEvents)]
  /\ events \in 0 .. MaxEvents
  /\ \A s \in Sessions :
       /\ active_ns[s] \subseteq opened[s]
       /\ IF opened[s] = {} THEN rooms[s] = NoRooms
          ELSE rooms[s] # NoRooms /\ rooms[s] \in SUBSET Names
       /\ loop[s] = Idle \/ loop[s] \in [event : Events, todo : SUBSET Sessions]

\* Two sessions see the events that both of them get in the same order, whoever sends
\* them and through whichever room.
SameOrder ==
  \A s, t \in Sessions :
    \A i, j \in DOMAIN client_queue[s] :
      \A k, l \in DOMAIN client_queue[t] :
        /\ client_queue[s][i] = client_queue[t][k]
        /\ client_queue[s][j] = client_queue[t][l]
        /\ i < j
        => k < l

\* The sessions and their rooms are a RoomService: whoever is in a room when an event
\* is sent to it gets it once, and nobody else; a session is in a room from its join()
\* to its leave(), whatever Namespaces it leaves and opens meanwhile.
InRoom(e, r) == {s \in sockets : rooms[s] # NoRooms /\ RoomName(e, r) \in rooms[s]}

Due(t) == {s \in Sessions : t \in loop[s].todo /\ SendsTo(loop[s].event, t)}

Service ==
  INSTANCE RoomService WITH
    present <- sockets,
    members <- [room \in Endpoints \X RoomNames |-> InRoom(room[1], room[2])],
    inbox   <- [t \in Sessions |->
                  IF Due(t) = {} THEN client_queue[t]
                  ELSE Append(client_queue[t], loop[CHOOSE s \in Due(t) : TRUE].event.number)]

KeepsRooms == Service!ServiceSpec

\* What the sessions of a server do together, each does as a SocketLifecycle.
Life(s) ==
  INSTANCE SocketLifecycle WITH
    phase     <- phase[s],
    reachable <- s \in sockets \/ s \notin made,
    members   <- active_ns[s]

KeepsLifecycles ==
  /\ \A s \in Sessions : Life(s)!LifeInit
  /\ [][\A s \in Sessions : Life(s)!LifeNext \/ UNCHANGED Life(s)!lifeVars]_vars

=============================================================================
