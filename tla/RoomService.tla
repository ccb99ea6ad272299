----------------------------- MODULE RoomService -----------------------------
(***************************************************************************)
(* What the mixins promise to the Namespaces that use them, whatever keeps *)
(* track of the rooms: a room of an endpoint has members, a session joins  *)
(* and leaves one room at a time and stays in its rooms until its own      *)
(* leave() or until the server forgets it, and what is sent to a room, to  *)
(* all or to all others reaches each of them in one step, so that no two   *)
(* sessions see two of these events in different orders.                   *)
(***************************************************************************)
EXTENDS Sequences

CONSTANTS Sessions, Endpoints, RoomNames,
  Events   \* what may be sent: [from, endpoint, to, room, number]

VARIABLES
  present,   \* the sessions that the server knows
  members,   \* of each room of each endpoint
  inbox      \* the numbers of the events that each session was sent

serviceVars == <<present, members, inbox>>

ServiceInit ==
  /\ present = {}
  /\ members = [room \in Endpoints \X RoomNames |-> {}]
  /\ inbox = [s \in Sessions |-> <<>>]

Enter(s) ==
  /\ s \notin present /\ present' = present \union {s}
  /\ UNCHANGED <<members, inbox>>

Vanish(s) ==
  /\ present' = present \ {s}
  /\ members' = [room \in DOMAIN members |-> members[room] \ {s}]
  /\ UNCHANGED inbox

JoinRoom(s, room) ==
  /\ s \in present
  /\ members' = [members EXCEPT ![room] = @ \union {s}]
  /\ UNCHANGED <<present, inbox>>

LeaveRoom(s, room) ==
  /\ members' = [members EXCEPT ![room] = @ \ {s}]
  /\ UNCHANGED <<present, inbox>>

\* Those to whom an event goes: the others in a room, all, or all others.
Addressees(event) ==
  CASE event.to = "room"   -> members[<<event.endpoint, event.room>>] \ {event.from}
    [] event.to = "all"    -> present
    [] event.to = "others" -> present \ {event.from}

\* An event reaches all of them at once.
Send(event) ==
  /\ inbox' = [s \in Sessions |->
                 IF s \in Addressees(event) THEN Append(inbox[s], event.number) ELSE inbox[s]]
  /\ UNCHANGED <<present, members>>

ServiceNext ==
  \/ \E s \in Sessions :
       \/ Enter(s) \/ Vanish(s)
       \/ \E room \in Endpoints \X RoomNames : JoinRoom(s, room) \/ LeaveRoom(s, room)
  \/ \E event \in Events : Send(event)

ServiceSpec == ServiceInit /\ [][ServiceNext]_serviceVars

=============================================================================
