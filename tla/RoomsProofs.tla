----------------------------- MODULE RoomsProofs -----------------------------
(***************************************************************************)
(* Proofs about Rooms, for every set of sessions, endpoints and rooms and  *)
(* every bound on the events.                                              *)
(***************************************************************************)
EXTENDS Rooms, SublistProofs, TLAPS

\* How far a session is: it is opened by the first request after its handshake, it
\* has Namespaces only then, and until it closes the server knows it.
Ages ==
  \A s \in Sessions :
    /\ s \notin made => phase[s] = "opening"
    /\ phase[s] = "opening" => opened[s] = {}
    /\ s \in made /\ phase[s] # "closing" => s \in sockets

\* At most one greenlet is in a loop, and it goes over the table as it is now, with the
\* event that was started last.
OneLoop ==
  \A s \in Sessions :
    loop[s].todo # {} =>
      /\ \A t \in Sessions : loop[t].todo # {} => t = s
      /\ loop[s].event \in Events /\ loop[s].event.number = events
      /\ loop[s].todo \subseteq sockets

\* The numbers in a queue rise, and a session that the loop has still to come to does
\* not have the event of the loop.
Rising ==
  \A t \in Sessions :
    /\ \A i, j \in DOMAIN client_queue[t] : i < j => client_queue[t][i] < client_queue[t][j]
    /\ \A i \in DOMAIN client_queue[t] : client_queue[t][i] <= events
    /\ \A s \in Sessions : t \in loop[s].todo =>
         \A i \in DOMAIN client_queue[t] : client_queue[t][i] < events

\* A greenlet that has nothing left to do is in no loop.
IdleOrBusy == \A s \in Sessions : loop[s] = Idle \/ loop[s].todo # {}

\* Which session has rooms and which loop, for those that have none too.
Shape ==
  /\ rooms \in [Sessions -> (SUBSET Names) \union {NoRooms}]
  /\ loop \in [Sessions -> [event : Events \union {<<>>}, todo : SUBSET Sessions]]

IInv == TypeOK /\ Shape /\ Ages /\ OneLoop /\ IdleOrBusy /\ Rising

\* The steps that have nothing to do with a loop: all are taken between two loops.
Between(s) ==
  \/ Handshake(s) \/ Connect(s) \/ Kill(s) \/ Detach(s)
  \/ \E e \in Endpoints :
       \/ OpenNamespace(s, e) \/ LeaveNamespace(s, e)
       \/ \E r \in RoomNames : Join(s, e, r) \/ Leave(s, e, r) \/ LeaveRaises(s, e, r)

\* The start of a loop: to a room, or without one.
Starts(s) ==
  \E e \in Endpoints :
    \/ \E r \in RoomNames : Start(s, e, "room", r)
    \/ \E to \in {"all", "others"} : Start(s, e, to, <<>>)

LEMMA NextCases ==
  ASSUME Next
  PROVE  \E s \in Sessions : Between(s) \/ Starts(s) \/ \E t \in Sessions : Turn(s, t)
<1> PICK s \in Sessions :
      \/ Handshake(s) \/ Connect(s) \/ Kill(s) \/ Detach(s)
      \/ \E t \in Sessions : Turn(s, t)
      \/ \E e \in Endpoints :
           \/ OpenNamespace(s, e) \/ LeaveNamespace(s, e)
           \/ BroadcastEvent(s, e) \/ BroadcastEventNotMe(s, e)
           \/ \E r \in RoomNames :
                Join(s, e, r) \/ Leave(s, e, r) \/ LeaveRaises(s, e, r) \/ EmitToRoom(s, e, r)
  BY DEF Next
<1> QED BY Zenon DEF Between, Starts, BroadcastEvent, BroadcastEventNotMe, EmitToRoom

LEMMA BetweenQuiet ==
  ASSUME NEW s \in Sessions, Between(s)
  PROVE  MayRun /\ UNCHANGED <<client_queue, loop, events>>
BY DEF Between, Handshake, Connect, Kill, Detach, OpenNamespace, LeaveNamespace, Join, Leave,
       LeaveRaises

\* An event is made of what its loop is started with.
LEMMA EventFacts ==
  ASSUME NEW s \in Sessions, NEW e \in Endpoints, NEW n \in 1 .. MaxEvents
  PROVE  /\ \A r \in RoomNames : Event(s, e, "room", r, n) \in Events
         /\ \A to \in {"all", "others"} : Event(s, e, to, <<>>, n) \in Events
         /\ \A to, r : /\ Event(s, e, to, r, n).number = n
                       /\ Event(s, e, to, r, n).from = s
                       /\ Event(s, e, to, r, n).endpoint = e
                       /\ Event(s, e, to, r, n).to = to
                       /\ Event(s, e, to, r, n).room = r
<1>1. \A r \in RoomNames : Event(s, e, "room", r, n) \in Events
  BY DEF Events
<1>2. \A to \in {"all", "others"} : Event(s, e, to, <<>>, n) \in Events
  BY DEF Events
<1>3. \A to, r : /\ Event(s, e, to, r, n).number = n
                 /\ Event(s, e, to, r, n).from = s
                 /\ Event(s, e, to, r, n).endpoint = e
                 /\ Event(s, e, to, r, n).to = to
                 /\ Event(s, e, to, r, n).room = r
  BY DEF Event
<1> QED BY <1>1, <1>2, <1>3

\* What the start of a loop does: the loop goes over all sessions, with a new event.
LEMMA StartFacts ==
  ASSUME IInv, NEW s \in Sessions, Starts(s)
  PROVE  /\ MayRun /\ events' = events + 1 /\ events + 1 \in 1 .. MaxEvents
         /\ UNCHANGED <<made, sockets, lifeVars, rooms, client_queue>>
         /\ loop' = [loop EXCEPT ![s] = loop'[s]]
         /\ loop'[s].event \in Events /\ loop'[s].event.number = events'
         /\ loop'[s].todo = sockets /\ sockets # {}
         /\ loop'[s] \in [event : Events, todo : SUBSET Sessions]
<1>1. ASSUME NEW e \in Endpoints, NEW to, NEW r, Start(s, e, to, r),
             \/ to = "room" /\ r \in RoomNames
             \/ to \in {"all", "others"} /\ r = <<>>
      PROVE  /\ MayRun /\ events' = events + 1 /\ events + 1 \in 1 .. MaxEvents
             /\ UNCHANGED <<made, sockets, lifeVars, rooms, client_queue>>
             /\ loop' = [loop EXCEPT ![s] = loop'[s]]
             /\ loop'[s].event \in Events /\ loop'[s].event.number = events'
             /\ loop'[s].todo = sockets /\ sockets # {}
             /\ loop'[s] \in [event : Events, todo : SUBSET Sessions]
  <2> DEFINE ev == Event(s, e, to, r, events + 1)
             l  == [event |-> ev, todo |-> sockets]
  <2>1. events' = events + 1 /\ events + 1 \in 1 .. MaxEvents
    BY <1>1, RoomsAssumption DEF Start, IInv, TypeOK
  <2>2. ev \in Events /\ ev.number = events'
    BY <1>1, <2>1, EventFacts
  <2>3. loop' = [loop EXCEPT ![s] = l] /\ loop \in [Sessions -> [event : Events \union {<<>>}, todo : SUBSET Sessions]]
    BY <1>1 DEF Start, IInv, Shape
  <2> HIDE DEF ev
  <2>4. loop'[s] = l
    BY <2>3
  <2>5. sockets \subseteq Sessions
    BY DEF IInv, TypeOK
  <2>6. l \in [event : Events, todo : SUBSET Sessions]
    BY <2>2, <2>5
  <2>7. l.event = ev /\ l.todo = sockets
    OBVIOUS
  <2>8. MayRun /\ sockets # {} /\ UNCHANGED <<made, sockets, lifeVars, rooms, client_queue>>
    BY <1>1 DEF Start
  <2> HIDE DEF l
  <2> QED BY <2>1, <2>2, <2>3, <2>4, <2>6, <2>7, <2>8
<1> QED BY <1>1 DEF Starts

\* What a turn of a loop does.
LEMMA TurnFacts ==
  ASSUME IInv, NEW s \in Sessions, NEW t \in Sessions, Turn(s, t)
  PROVE  /\ t \in loop[s].todo /\ t \in sockets
         /\ UNCHANGED <<made, sockets, lifeVars, rooms, events>>
         /\ client_queue' = IF SendsTo(loop[s].event, t)
                            THEN [client_queue EXCEPT ![t] = Append(@, events)]
                            ELSE client_queue
         /\ loop' = [loop EXCEPT ![s] = loop'[s]]
         /\ loop'[s].todo = loop[s].todo \ {t}
         /\ \/ loop'[s] = Idle
            \/ /\ loop'[s] \in [event : Events, todo : SUBSET Sessions]
               /\ loop'[s].todo # {}
               /\ loop'[s].event = loop[s].event
         /\ \A u \in Sessions : u # s => loop[u].todo = {}
<1>1. /\ t \in loop[s].todo /\ UNCHANGED <<made, sockets, lifeVars, rooms, events>>
  BY DEF Turn
<1>2. /\ loop[s].todo # {} /\ t \in sockets /\ loop[s].event.number = events
      /\ loop[s].event \in Events /\ \A u \in Sessions : u # s => loop[u].todo = {}
  BY <1>1 DEF IInv, OneLoop
<1>3. client_queue' = IF SendsTo(loop[s].event, t)
                      THEN [client_queue EXCEPT ![t] = Append(@, events)]
                      ELSE client_queue
  BY <1>2 DEF Turn
<1> DEFINE l == IF loop[s].todo = {t} THEN Idle ELSE [loop[s] EXCEPT !.todo = loop[s].todo \ {t}]
<1>4. /\ loop' = [loop EXCEPT ![s] = l] /\ s \in DOMAIN loop
      /\ loop[s] \in [event : Events \union {<<>>}, todo : SUBSET Sessions]
  <2>1. loop' = [loop EXCEPT ![s] = l]
    BY DEF Turn
  <2> QED BY <2>1 DEF IInv, Shape
<1>5. /\ l.todo = loop[s].todo \ {t}
      /\ \/ l = Idle
         \/ /\ l \in [event : Events, todo : SUBSET Sessions]
            /\ l.todo # {}
            /\ l.event = loop[s].event
  BY <1>1, <1>2, <1>4 DEF Idle
<1> HIDE DEF l
<1>6. loop'[s] = l /\ loop' = [loop EXCEPT ![s] = loop'[s]]
  BY <1>4
<1> QED BY <1>1, <1>2, <1>3, <1>5, <1>6

LEMMA InitInv == Init => IInv
<1> SUFFICES ASSUME Init PROVE IInv
  OBVIOUS
<1>1. TypeOK
  <2>1. \A s \in Sessions : loop[s] = Idle /\ opened[s] = {} /\ rooms[s] = NoRooms
                            /\ active_ns[s] = {}
    BY DEF Init
  <2>2. client_queue \in [Sessions -> Seq(1 .. MaxEvents)] /\ events \in 0 .. MaxEvents
    BY RoomsAssumption DEF Init
  <2> QED BY <2>1, <2>2 DEF Init, TypeOK
<1>2. Shape
  BY DEF Init, Shape, Idle
<1>3. Ages
  BY DEF Init, Ages
<1>4. OneLoop /\ IdleOrBusy
  BY DEF Init, OneLoop, IdleOrBusy, Idle
<1>5. Rising
  BY DEF Init, Rising, Idle
<1> QED BY <1>1, <1>2, <1>3, <1>4, <1>5 DEF IInv

-----------------------------------------------------------------------------
(* Types, and how far each session is. *)

\* The types but for the loops and the queues.
SessionTypes ==
  /\ made \subseteq Sessions /\ sockets \subseteq made
  /\ phase \in [Sessions -> {"opening", "open", "closing"}]
  /\ opened \in [Sessions -> SUBSET Endpoints]
  /\ active_ns \in [Sessions -> SUBSET Endpoints]
  /\ receiving \in [Sessions -> BOOLEAN]
  /\ rooms \in [Sessions -> (SUBSET Names) \union {NoRooms}]
  /\ \A s \in Sessions :
       /\ active_ns[s] \subseteq opened[s]
       /\ IF opened[s] = {} THEN rooms[s] = NoRooms
          ELSE rooms[s] # NoRooms /\ rooms[s] \in SUBSET Names

\* A set of names is no missing key, and a room has its name among them.
LEMMA NamesFacts ==
  /\ \A names \in SUBSET Names : names # NoRooms
  /\ \A e \in Endpoints, r \in RoomNames : RoomName(e, r) \in Names
BY RoomsAssumption DEF Names

LEMMA BetweenTypes ==
  ASSUME SessionTypes, Ages, NEW s \in Sessions, Between(s)
  PROVE  SessionTypes' /\ Ages'
<1>1. CASE Handshake(s)
  BY <1>1 DEF Handshake, lifeVars, SessionTypes, Ages
<1>2. CASE Connect(s)
  BY <1>2 DEF Connect, SessionTypes, Ages
<1>3. CASE Kill(s)
  BY <1>3 DEF Kill, SessionTypes, Ages
<1>4. CASE Detach(s)
  BY <1>4 DEF Detach, lifeVars, SessionTypes, Ages
<1>5. ASSUME NEW e \in Endpoints, OpenNamespace(s, e) PROVE SessionTypes' /\ Ages'
  <2>1. RoomsOfNew(s) \in SUBSET Names /\ RoomsOfNew(s) # NoRooms
    BY NamesFacts DEF RoomsOfNew, SessionTypes
  <2>2. /\ rooms' = [rooms EXCEPT ![s] = RoomsOfNew(s)]
        /\ active_ns' = [active_ns EXCEPT ![s] = active_ns[s] \union {e}]
        /\ opened' = [opened EXCEPT ![s] = opened[s] \union {e}]
        /\ receiving' = [receiving EXCEPT ![s] = phase[s] = "open"]
        /\ UNCHANGED <<made, sockets, phase>> /\ phase[s] # "opening"
    BY <1>5 DEF OpenNamespace
  <2> HIDE DEF RoomsOfNew
  <2>3. SessionTypes'
    BY <2>1, <2>2 DEF SessionTypes
  <2>4. Ages'
    BY <2>2 DEF Ages, SessionTypes
  <2> QED BY <2>3, <2>4
<1>6. ASSUME NEW e \in Endpoints, LeaveNamespace(s, e) PROVE SessionTypes' /\ Ages'
  BY <1>6 DEF LeaveNamespace, SessionTypes, Ages
<1>7. ASSUME NEW e \in Endpoints, NEW r \in RoomNames, Join(s, e, r)
      PROVE  SessionTypes' /\ Ages'
  <2>1. opened[s] # {} /\ rooms[s] \union {RoomName(e, r)} \in SUBSET Names
    BY <1>7, NamesFacts DEF Join, SessionTypes
  <2>2. rooms[s] \union {RoomName(e, r)} # NoRooms
    BY <2>1, NamesFacts
  <2> QED BY <1>7, <2>1, <2>2 DEF Join, lifeVars, SessionTypes, Ages
<1>8. ASSUME NEW e \in Endpoints, NEW r \in RoomNames, Leave(s, e, r)
      PROVE  SessionTypes' /\ Ages'
  <2>1. opened[s] # {} /\ rooms[s] \ {RoomName(e, r)} \in SUBSET Names
    BY <1>8 DEF Leave, SessionTypes
  <2>2. rooms[s] \ {RoomName(e, r)} # NoRooms
    BY <2>1, NamesFacts
  <2> QED BY <1>8, <2>1, <2>2 DEF Leave, lifeVars, SessionTypes, Ages
<1>9. ASSUME NEW e \in Endpoints, NEW r \in RoomNames, LeaveRaises(s, e, r)
      PROVE  SessionTypes' /\ Ages'
  BY <1>9 DEF LeaveRaises, SessionTypes, Ages
<1> QED BY <1>1, <1>2, <1>3, <1>4, <1>5, <1>6, <1>7, <1>8, <1>9 DEF Between

\* Every step keeps the types of the sessions, and how far each of them is.
LEMMA NextTypes ==
  ASSUME IInv, [Next]_vars
  PROVE  SessionTypes' /\ Ages'
<1>1. SessionTypes /\ Ages
  BY DEF IInv, TypeOK, Shape, SessionTypes
<1>2. ASSUME UNCHANGED <<made, sockets, lifeVars, rooms>> PROVE SessionTypes' /\ Ages'
  BY <1>1, <1>2 DEF lifeVars, SessionTypes, Ages
<1>3. ASSUME NEW s \in Sessions, Starts(s) PROVE SessionTypes' /\ Ages'
  BY <1>2, <1>3, StartFacts
<1>4. ASSUME NEW s \in Sessions, NEW t \in Sessions, Turn(s, t) PROVE SessionTypes' /\ Ages'
  BY <1>2, <1>4, TurnFacts
<1>5. ASSUME NEW s \in Sessions, Between(s) PROVE SessionTypes' /\ Ages'
  BY <1>1, <1>5, BetweenTypes
<1>6. CASE UNCHANGED vars
  BY <1>2, <1>6 DEF vars
<1> QED BY <1>3, <1>4, <1>5, <1>6, NextCases

-----------------------------------------------------------------------------
(* The loops and the queues. *)

\* What TypeOK and Shape say of the loops and the queues.
LoopTypes ==
  /\ loop \in [Sessions -> [event : Events \union {<<>>}, todo : SUBSET Sessions]]
  /\ client_queue \in [Sessions -> Seq(1 .. MaxEvents)]
  /\ events \in 0 .. MaxEvents

LEMMA LoopFacts ==
  IInv => /\ LoopTypes /\ SessionTypes /\ OneLoop /\ IdleOrBusy /\ Rising
          /\ sockets \subseteq Sessions
BY DEF IInv, TypeOK, Shape, SessionTypes, LoopTypes

LEMMA IInvFromParts ==
  SessionTypes /\ Ages /\ LoopTypes /\ OneLoop /\ IdleOrBusy /\ Rising => IInv
<1> SUFFICES ASSUME SessionTypes, Ages, LoopTypes, OneLoop, IdleOrBusy, Rising PROVE IInv
  OBVIOUS
<1>1. ASSUME NEW s \in Sessions
      PROVE  loop[s] = Idle \/ loop[s] \in [event : Events, todo : SUBSET Sessions]
  <2>1. CASE loop[s] = Idle
    BY <2>1
  <2>2. CASE loop[s].todo # {}
    BY <2>2 DEF OneLoop, LoopTypes
  <2> QED BY <2>1, <2>2 DEF IdleOrBusy
<1>2. TypeOK
  BY <1>1 DEF TypeOK, SessionTypes, LoopTypes
<1> QED BY <1>2 DEF IInv, Shape, SessionTypes, LoopTypes

\* An event goes to the end of a queue in which everything is older.
LEMMA AppendRises ==
  ASSUME NEW q \in Seq(Nat), NEW n \in Nat,
         \A i, j \in DOMAIN q : i < j => q[i] < q[j],
         \A i \in DOMAIN q : q[i] < n
  PROVE  LET p == Append(q, n)
         IN  /\ \A i, j \in DOMAIN p : i < j => p[i] < p[j]
             /\ \A i \in DOMAIN p : p[i] <= n
<1> DEFINE p == Append(q, n)
<1>1. /\ Len(q) \in Nat /\ DOMAIN q = 1 .. Len(q) /\ DOMAIN p = 1 .. (Len(q) + 1)
      /\ p[Len(q) + 1] = n /\ \A i \in 1 .. Len(q) : p[i] = q[i] /\ q[i] \in Nat
  OBVIOUS
<1>2. \A i \in DOMAIN p : i \in DOMAIN q \/ i = Len(q) + 1
  BY <1>1
<1> HIDE DEF p
<1>3. \A i \in DOMAIN p : p[i] <= n
  BY <1>1, <1>2
<1>4. ASSUME NEW i \in DOMAIN p, NEW j \in DOMAIN p, i < j PROVE p[i] < p[j]
  <2>1. i \in DOMAIN q
    BY <1>1, <1>2, <1>4
  <2>2. CASE j \in DOMAIN q
    BY <1>1, <1>4, <2>1, <2>2
  <2>3. CASE j = Len(q) + 1
    BY <1>1, <2>1, <2>3
  <2> QED BY <1>2, <2>2, <2>3
<1> QED BY <1>3, <1>4 DEF p

LEMMA NextLoops ==
  ASSUME IInv, [Next]_vars
  PROVE  LoopTypes' /\ OneLoop' /\ IdleOrBusy' /\ Rising'
<1> DEFINE P == LoopTypes' /\ OneLoop' /\ IdleOrBusy' /\ Rising'
<1>0. LoopTypes /\ SessionTypes /\ OneLoop /\ IdleOrBusy /\ Rising /\ sockets \subseteq Sessions
  BY LoopFacts
<1>e. Events' = Events
  BY DEF Events, Event
<1>a. ASSUME UNCHANGED <<client_queue, loop, events>>,
             MayRun \/ UNCHANGED sockets
      PROVE  P
  <2>1. LoopTypes' /\ IdleOrBusy' /\ Rising'
    BY <1>0, <1>a DEF LoopTypes, IdleOrBusy, Rising, Idle
  <2>2. OneLoop'
    BY <1>0, <1>a DEF OneLoop, MayRun, Events
  <2> QED BY <2>1, <2>2
<1>1. ASSUME NEW s \in Sessions, Between(s) PROVE P
  BY <1>a, <1>1, BetweenQuiet
<1>2. ASSUME NEW s \in Sessions, Starts(s) PROVE P
  <2>0. /\ MayRun /\ events' = events + 1 /\ events + 1 \in 1 .. MaxEvents
        /\ UNCHANGED <<made, sockets, lifeVars, rooms, client_queue>>
        /\ loop' = [loop EXCEPT ![s] = loop'[s]]
        /\ loop'[s].event \in Events /\ loop'[s].event.number = events'
        /\ loop'[s].todo = sockets /\ sockets # {}
        /\ loop'[s] \in [event : Events, todo : SUBSET Sessions]
    BY <1>2, StartFacts
  <2>1. LoopTypes'
    <3>1. events' \in 0 .. MaxEvents
      BY <2>0
    <3>2. loop'[s] \in [event : Events \union {<<>>}, todo : SUBSET Sessions]
      BY <2>0
    <3>3. loop' \in [Sessions -> [event : Events \union {<<>>}, todo : SUBSET Sessions]]
      BY <1>0, <2>0, <3>2 DEF LoopTypes
    <3> QED BY <1>0, <1>e, <2>0, <3>1, <3>3 DEF LoopTypes
  <2>2. \A t \in Sessions : t # s => loop'[t] = loop[t] /\ loop[t].todo = {}
    BY <1>0, <2>0 DEF MayRun, LoopTypes
  <2>3. IdleOrBusy'
    BY <1>0, <2>0, <2>2 DEF IdleOrBusy, Idle
  <2>4. OneLoop'
    BY <2>0, <2>2 DEF OneLoop, Events
  <2>5. Rising'
    <3>1. \A t \in Sessions : client_queue[t] \in Seq(1 .. MaxEvents)
      BY <1>0 DEF LoopTypes
    <3>2. \A t \in Sessions : \A i \in DOMAIN client_queue[t] :
             client_queue[t][i] \in Nat /\ client_queue[t][i] <= events
      <4>1. \A n \in 1 .. MaxEvents : n \in Nat
        OBVIOUS
      <4>2. \A t \in Sessions : \A i \in DOMAIN client_queue[t] :
               client_queue[t][i] \in 1 .. MaxEvents
        BY <3>1, ElementOf
      <4> QED BY <1>0, <4>1, <4>2 DEF Rising
    <3>3. events \in Nat /\ client_queue' = client_queue
      BY <1>0, <2>0 DEF LoopTypes
    <3>4. \A t \in Sessions : \A i \in DOMAIN client_queue[t] : client_queue[t][i] < events'
      BY <2>0, <3>2, <3>3
    <3> QED BY <1>0, <2>0, <3>2, <3>3, <3>4 DEF Rising
  <2> QED BY <2>1, <2>3, <2>4, <2>5
<1>3. ASSUME NEW s \in Sessions, NEW t \in Sessions, Turn(s, t) PROVE P
  <2>0. /\ t \in loop[s].todo /\ t \in sockets
        /\ UNCHANGED <<made, sockets, lifeVars, rooms, events>>
        /\ client_queue' = IF SendsTo(loop[s].event, t)
                           THEN [client_queue EXCEPT ![t] = Append(@, events)]
                           ELSE client_queue
        /\ loop' = [loop EXCEPT ![s] = loop'[s]]
        /\ loop'[s].todo = loop[s].todo \ {t}
        /\ \/ loop'[s] = Idle
           \/ /\ loop'[s] \in [event : Events, todo : SUBSET Sessions]
              /\ loop'[s].todo # {}
              /\ loop'[s].event = loop[s].event
        /\ \A u \in Sessions : u # s => loop[u].todo = {}
    BY <1>3, TurnFacts
  <2>1. events \in 1 .. MaxEvents
    <3>1. loop[s].event.number = events /\ loop[s].event \in Events
      BY <1>0, <2>0 DEF OneLoop
    <3>2. \A ev \in Events : ev.number \in 1 .. MaxEvents
      BY DEF Events, Event
    <3> QED BY <3>1, <3>2
  <2>2. LoopTypes'
    <3>1. client_queue' \in [Sessions -> Seq(1 .. MaxEvents)]
      BY <1>0, <2>0, <2>1 DEF LoopTypes
    <3>2. Idle \in [event : Events \union {<<>>}, todo : SUBSET Sessions]
      BY DEF Idle
    <3>3. loop' \in [Sessions -> [event : Events \union {<<>>}, todo : SUBSET Sessions]]
      <4>1. loop'[s] \in [event : Events \union {<<>>}, todo : SUBSET Sessions]
        <5>1. CASE loop'[s] = Idle
          BY <3>2, <5>1
        <5>2. CASE loop'[s] \in [event : Events, todo : SUBSET Sessions]
          BY <5>2
        <5> QED BY <2>0, <5>1, <5>2
      <4> QED BY <1>0, <2>0, <4>1 DEF LoopTypes
    <3> QED BY <1>0, <1>e, <2>0, <3>1, <3>3 DEF LoopTypes
  <2>3. \A u \in Sessions : u # s => loop'[u] = loop[u]
    BY <1>0, <2>0 DEF LoopTypes
  <2>4. IdleOrBusy'
    BY <1>0, <2>0, <2>3 DEF IdleOrBusy, Idle
  <2>5. OneLoop'
    BY <1>0, <2>0, <2>3 DEF OneLoop, Idle, Events
  <2>6. Rising'
    <3>1. \A u \in Sessions : u # t => client_queue'[u] = client_queue[u]
      BY <1>0, <2>0 DEF LoopTypes
    <3>2. client_queue'[t] = Append(client_queue[t], events)
            \/ client_queue'[t] = client_queue[t]
      BY <1>0, <2>0 DEF LoopTypes
    <3>3. /\ \A i, j \in DOMAIN client_queue[t] :
                i < j => client_queue[t][i] < client_queue[t][j]
          /\ \A i \in DOMAIN client_queue[t] : client_queue[t][i] < events
      BY <1>0, <2>0 DEF Rising
    <3>4. client_queue[t] \in Seq(Nat) /\ events \in Nat
      <4>1. client_queue[t] \in Seq(1 .. MaxEvents) /\ 1 .. MaxEvents \subseteq Nat
        BY <1>0 DEF LoopTypes
      <4> QED BY <2>1, <4>1, SeqMono
    <3>5. /\ \A i, j \in DOMAIN client_queue'[t] :
                i < j => client_queue'[t][i] < client_queue'[t][j]
          /\ \A i \in DOMAIN client_queue'[t] : client_queue'[t][i] <= events
      <4>1. CASE client_queue'[t] = Append(client_queue[t], events)
        BY <3>3, <3>4, <4>1, AppendRises, Zenon
      <4>2. CASE client_queue'[t] = client_queue[t]
        BY <1>0, <4>2 DEF Rising
      <4> QED BY <3>2, <4>1, <4>2
    <3>6. \A u, v \in Sessions : v \in loop'[u].todo => u = s /\ v # t /\ v \in loop[s].todo
      BY <2>0, <2>3
    <3> QED BY <1>0, <2>0, <3>1, <3>5, <3>6 DEF Rising
  <2> QED BY <2>2, <2>4, <2>5, <2>6
<1>4. CASE UNCHANGED vars
  BY <1>a, <1>4 DEF vars
<1> QED BY <1>1, <1>2, <1>3, <1>4, NextCases

THEOREM Invariance == Spec => []IInv
<1>1. IInv /\ [Next]_vars => IInv'
  <2> SUFFICES ASSUME IInv, [Next]_vars PROVE IInv'
    OBVIOUS
  <2>1. SessionTypes' /\ Ages' /\ LoopTypes' /\ OneLoop' /\ IdleOrBusy' /\ Rising'
    BY NextTypes, NextLoops
  <2> QED BY <2>1, IInvFromParts, PTL
<1> QED BY InitInv, <1>1, PTL DEF Spec

-----------------------------------------------------------------------------
(* The invariants that the runs check. *)

\* The type of every variable, and what a session has from when on.
THEOREM TypeCorrect == Spec => []TypeOK
BY Invariance, PTL DEF IInv

\* Any two sessions get the events that both of them get in one order: in each queue the
\* numbers rise, so that both have them in the order in which the loops were started.
THEOREM OneOrder == Spec => []SameOrder
<1>1. IInv => SameOrder
  <2> SUFFICES ASSUME IInv,
                      NEW s \in Sessions, NEW t \in Sessions,
                      NEW i \in DOMAIN client_queue[s], NEW j \in DOMAIN client_queue[s],
                      NEW k \in DOMAIN client_queue[t], NEW l \in DOMAIN client_queue[t],
                      client_queue[s][i] = client_queue[t][k],
                      client_queue[s][j] = client_queue[t][l],
                      i < j
               PROVE  k < l
    BY DEF SameOrder
  <2>1. client_queue[s][i] < client_queue[s][j]
    BY DEF IInv, Rising
  <2>2. /\ client_queue[t][k] \in 1 .. MaxEvents /\ client_queue[t][l] \in 1 .. MaxEvents
        /\ k \in Nat /\ l \in Nat
    <3>1. client_queue[t] \in Seq(1 .. MaxEvents)
      BY DEF IInv, TypeOK
    <3>2. DOMAIN client_queue[t] \subseteq Nat
      BY <3>1
    <3> QED BY <3>1, <3>2, ElementOf
  <2>3. CASE k = l
    BY <2>1, <2>2, <2>3
  <2>4. CASE l < k
    <3>1. client_queue[t][l] < client_queue[t][k]
      BY <2>4 DEF IInv, Rising
    <3> QED BY <2>1, <2>2, <3>1
  <2> QED BY <2>2, <2>3, <2>4
<1> QED BY Invariance, <1>1, PTL

-----------------------------------------------------------------------------
(* Each session is a SocketLifecycle. *)

\* The steps between two loops are about one session.
LEMMA OthersUntouched ==
  ASSUME SessionTypes, NEW s \in Sessions, Between(s), NEW u \in Sessions, u # s
  PROVE  /\ phase'[u] = phase[u] /\ active_ns'[u] = active_ns[u] /\ rooms'[u] = rooms[u]
         /\ (u \in sockets') <=> (u \in sockets)
         /\ (u \in made') <=> (u \in made)
BY DEF Between, Handshake, Connect, Kill, Detach, OpenNamespace, LeaveNamespace, Join, Leave,
       LeaveRaises, lifeVars, SessionTypes

LEMMA LifeStep ==
  ASSUME IInv, [Next]_vars, NEW u \in Sessions
  PROVE  Life(u)!LifeNext \/ UNCHANGED Life(u)!lifeVars
<1> DEFINE Reach  == u \in sockets \/ u \notin made
           Stutter == phase'[u] = phase[u] /\ active_ns'[u] = active_ns[u] /\ Reach' = Reach
<1>0. SessionTypes /\ Ages
  BY LoopFacts DEF IInv
<1>s. ASSUME Stutter PROVE UNCHANGED Life(u)!lifeVars
  BY <1>s DEF Life!lifeVars
<1>1. ASSUME NEW s \in Sessions, Between(s), s # u PROVE Stutter
  BY <1>0, <1>1, OthersUntouched
<1>2. ASSUME Between(u) PROVE Life(u)!LifeNext \/ Stutter
  <2>1. CASE Handshake(u) \/ \E e \in Endpoints, r \in RoomNames :
                               Join(u, e, r) \/ Leave(u, e, r) \/ LeaveRaises(u, e, r)
    <3>1. /\ phase'[u] = phase[u] /\ active_ns'[u] = active_ns[u]
          /\ Reach' = Reach
      BY <1>0, <2>1 DEF Handshake, Join, Leave, LeaveRaises, lifeVars
    <3> QED BY <3>1
  <2>2. CASE Connect(u)
    <3>1. Life(u)!Open
      BY <1>0, <2>2 DEF Connect, SessionTypes, Life!Open
    <3> QED BY <3>1 DEF Life!LifeNext
  <2>3. CASE Kill(u)
    <3>1. Life(u)!Close
      BY <1>0, <2>3 DEF Kill, SessionTypes, Ages, Life!Close
    <3> QED BY <3>1 DEF Life!LifeNext
  <2>4. CASE Detach(u)
    <3>1. Life(u)!Forget
      BY <1>0, <2>4 DEF Detach, SessionTypes, Ages, lifeVars, Life!Forget
    <3> QED BY <3>1 DEF Life!LifeNext
  <2>5. ASSUME NEW e \in Endpoints, OpenNamespace(u, e) PROVE Life(u)!LifeNext
    <3>1. Life(u)!Join(e)
      BY <1>0, <2>5 DEF OpenNamespace, SessionTypes, Life!Join
    <3> QED BY <3>1 DEF Life!LifeNext
  <2>6. ASSUME NEW e \in Endpoints, LeaveNamespace(u, e) PROVE Life(u)!LifeNext
    <3>0. phase[u] # "opening" /\ active_ns'[u] = active_ns[u] \ {e}
      BY <1>0, <2>6 DEF LeaveNamespace, SessionTypes, Ages
    <3>1. CASE phase[u] = "open" /\ active_ns[u] \subseteq {e}
      <4>1. phase'[u] = "closing" /\ u \notin sockets' /\ u \in made'
        BY <1>0, <2>6, <3>1 DEF LeaveNamespace, SessionTypes, Ages
      <4>2. Life(u)!LeaveLast(e)
        BY <3>0, <3>1, <4>1 DEF Life!LeaveLast
      <4> QED BY <4>2 DEF Life!LifeNext
    <3>2. CASE ~(phase[u] = "open" /\ active_ns[u] \subseteq {e})
      <4>1. UNCHANGED <<phase, sockets, made>>
        BY <2>6, <3>2 DEF LeaveNamespace
      <4>2. Life(u)!Leave(e)
        BY <3>0, <3>2, <4>1 DEF Life!Leave
      <4> QED BY <4>2 DEF Life!LifeNext
    <3> QED BY <3>1, <3>2
  <2> QED BY <1>2, <2>1, <2>2, <2>3, <2>4, <2>5, <2>6 DEF Between
<1>3. ASSUME NEW s \in Sessions, Starts(s) PROVE Stutter
  BY <1>3, StartFacts DEF lifeVars
<1>4. ASSUME NEW s \in Sessions, NEW t \in Sessions, Turn(s, t) PROVE Stutter
  BY <1>4, TurnFacts DEF lifeVars
<1>5. CASE UNCHANGED vars
  BY <1>s, <1>5 DEF vars, lifeVars
<1> HIDE DEF Stutter
<1>6. ASSUME Next PROVE Stutter \/ Life(u)!LifeNext
  <2>1. PICK s \in Sessions : Between(s) \/ Starts(s) \/ \E t \in Sessions : Turn(s, t)
    BY <1>6, NextCases
  <2> QED BY <1>1, <1>2, <1>3, <1>4, <2>1
<1> QED BY <1>s, <1>5, <1>6

\* What a session goes through among the others is what SocketLifecycle says of it: it
\* opens once and closes once, the server finds it until it closes, and the Namespace
\* that leaves it empty closes it.
THEOREM AllLive == Spec => KeepsLifecycles
<1>1. Init => \A s \in Sessions : Life(s)!LifeInit
  BY DEF Init, Life!LifeInit
<1>2. IInv /\ [Next]_vars =>
        [\A s \in Sessions : Life(s)!LifeNext \/ UNCHANGED Life(s)!lifeVars]_vars
  BY LifeStep
<1> QED BY Invariance, <1>1, <1>2, PTL DEF Spec, KeepsLifecycles

-----------------------------------------------------------------------------
(* The sessions and their rooms are a RoomService. *)

Members == [room \in Endpoints \X RoomNames |-> InRoom(room[1], room[2])]

Inbox ==
  [t \in Sessions |->
     IF Due(t) = {} THEN client_queue[t]
     ELSE Append(client_queue[t], loop[CHOOSE s \in Due(t) : TRUE].event.number)]

\* Two rooms have two names.
LEMMA RoomsDiffer ==
  ASSUME NEW room \in Endpoints \X RoomNames, NEW e \in Endpoints, NEW r \in RoomNames,
         RoomName(room[1], room[2]) = RoomName(e, r)
  PROVE  room = <<e, r>>
<1>1. /\ <<e, r>> \in Endpoints \X RoomNames
      /\ <<e, r>>[1] = e /\ <<e, r>>[2] = r
  OBVIOUS
<1> QED BY <1>1, RoomsAssumption

\* Who is in a room, and that a session without rooms is in none.
LEMMA MemberOf ==
  /\ \A room \in Endpoints \X RoomNames :
       /\ room[1] \in Endpoints /\ room[2] \in RoomNames
       /\ Members[room] = {u \in sockets : /\ rooms[u] # NoRooms
                                           /\ RoomName(room[1], room[2]) \in rooms[u]}
  /\ Members = [room \in Endpoints \X RoomNames |-> Members[room]]
BY DEF Members, InRoom

\* Between two loops nothing is on its way.
LEMMA NoneDue == LoopTypes /\ MayRun => Inbox = client_queue
<1> SUFFICES ASSUME LoopTypes, MayRun PROVE Inbox = client_queue
  OBVIOUS
<1>1. \A t \in Sessions : Due(t) = {}
  BY DEF MayRun, Due
<1> QED BY <1>1 DEF Inbox, LoopTypes

LEMMA NoneComes ==
  ASSUME IInv, IInv', NEW s \in Sessions, Between(s)
  PROVE  Inbox' = Inbox
<1>1. LoopTypes /\ LoopTypes'
  BY LoopFacts, PTL
<1>2. MayRun /\ MayRun' /\ UNCHANGED client_queue
  BY BetweenQuiet DEF MayRun
<1>3. Inbox = client_queue /\ (Inbox = client_queue)'
  BY <1>1, <1>2, NoneDue, PTL
<1> QED BY <1>2, <1>3

\* Whom a step between two loops takes into a room or out of it.
LEMMA BetweenService ==
  ASSUME IInv, NEW s \in Sessions, Between(s)
  PROVE  \/ sockets' = sockets /\ Members' = Members
         \/ s \notin sockets /\ sockets' = sockets \union {s} /\ Members' = Members
         \/ /\ sockets' = sockets \ {s}
            /\ Members' = [room \in Endpoints \X RoomNames |-> Members[room] \ {s}]
         \/ /\ sockets' = sockets
            /\ \E room \in Endpoints \X RoomNames :
                 \/ s \in sockets /\ Members' = [Members EXCEPT ![room] = @ \union {s}]
                 \/ Members' = [Members EXCEPT ![room] = @ \ {s}]
<1> DEFINE All == Endpoints \X RoomNames
<1>0. SessionTypes /\ Ages
  BY LoopFacts DEF IInv
<1>m. /\ Members' = [room \in All |-> {u \in sockets' : /\ rooms'[u] # NoRooms
                                           /\ RoomName(room[1], room[2]) \in rooms'[u]}]
      /\ Members = [room \in All |-> {u \in sockets : /\ rooms[u] # NoRooms
                                           /\ RoomName(room[1], room[2]) \in rooms[u]}]
  BY DEF Members, InRoom
<1>a. ASSUME sockets' = sockets \ {s}, rooms' = rooms
      PROVE  Members' = [room \in All |-> Members[room] \ {s}]
  <2>1. \A room \in All : Members'[room] = Members[room] \ {s}
    BY <1>a, <1>m
  <2> QED BY <1>m, <2>1
<1>1. CASE Handshake(s)
  <2>1. s \notin sockets /\ sockets' = sockets \union {s} /\ rooms' = rooms /\ rooms[s] = NoRooms
    BY <1>0, <1>1 DEF Handshake, SessionTypes, Ages
  <2>2. Members' = Members
    BY <1>m, <2>1
  <2> QED BY <2>1, <2>2
<1>2. ASSUME sockets' = sockets, rooms' = rooms PROVE Members' = Members
  BY <1>2, <1>m
<1>3. CASE Kill(s)
  BY <1>3, <1>a, <1>2 DEF Kill
<1>4. CASE Detach(s)
  BY <1>4, <1>a DEF Detach
<1>5. ASSUME NEW e \in Endpoints, OpenNamespace(s, e)
      PROVE  sockets' = sockets /\ Members' = Members
  <2>1. sockets' = sockets /\ rooms' = [rooms EXCEPT ![s] = RoomsOfNew(s)]
    BY <1>5 DEF OpenNamespace
  <2>2. rooms'[s] = RoomsOfNew(s) /\ \A u \in Sessions : u # s => rooms'[u] = rooms[u]
    BY <1>0, <2>1 DEF SessionTypes
  <2>3. \A n : (rooms'[s] # NoRooms /\ n \in rooms'[s])
               <=> (rooms[s] # NoRooms /\ n \in rooms[s])
    BY <2>2, NamesFacts DEF RoomsOfNew
  <2>4. \A u \in sockets : \A n : (rooms'[u] # NoRooms /\ n \in rooms'[u])
                                  <=> (rooms[u] # NoRooms /\ n \in rooms[u])
    BY <1>0, <2>2, <2>3 DEF SessionTypes
  <2> QED BY <1>m, <2>1, <2>4
<1>6. ASSUME NEW e \in Endpoints, LeaveNamespace(s, e)
      PROVE  /\ rooms' = rooms
             /\ sockets' = sockets \/ sockets' = sockets \ {s}
  BY <1>6 DEF LeaveNamespace
<1>7. ASSUME NEW e \in Endpoints, NEW r \in RoomNames, Join(s, e, r)
      PROVE  /\ sockets' = sockets
             /\ \/ Members' = Members
                \/ s \in sockets /\ Members' = [Members EXCEPT ![<<e, r>>] = @ \union {s}]
  <2>1. /\ sockets' = sockets /\ rooms'[s] = rooms[s] \union {RoomName(e, r)}
        /\ \A u \in Sessions : u # s => rooms'[u] = rooms[u]
    BY <1>0, <1>7 DEF Join, SessionTypes
  <2>2. rooms[s] # NoRooms /\ rooms'[s] # NoRooms
    <3>1. opened[s] # {}
      BY <1>7 DEF Join
    <3>2. rooms[s] \union {RoomName(e, r)} \in SUBSET Names
      BY <1>0, <3>1, NamesFacts DEF SessionTypes
    <3> QED BY <1>0, <2>1, <3>1, <3>2, NamesFacts DEF SessionTypes
  <2>3. ASSUME s \in sockets, NEW room \in All
        PROVE  Members'[room] = IF room = <<e, r>> THEN Members[room] \union {s}
                                ELSE Members[room]
    <3>1. \A u \in sockets : u # s => u \in Sessions /\ rooms'[u] = rooms[u]
      BY <1>0, <2>1 DEF SessionTypes
    <3>2. CASE room = <<e, r>>
      <4>1. RoomName(room[1], room[2]) = RoomName(e, r)
        BY <3>2
      <4> QED BY <1>m, <2>1, <2>2, <2>3, <3>1, <3>2, <4>1
    <3>3. CASE room # <<e, r>>
      <4>1. RoomName(room[1], room[2]) # RoomName(e, r)
        BY <3>3, RoomsDiffer
      <4> QED BY <1>m, <2>1, <2>2, <3>1, <3>3, <4>1
    <3> QED BY <3>2, <3>3
  <2>4. CASE s \in sockets
    <3>1. \A room \in All : Members'[room] = [Members EXCEPT ![<<e, r>>] = @ \union {s}][room]
      BY <1>m, <2>3, <2>4
    <3>2. Members' = [Members EXCEPT ![<<e, r>>] = @ \union {s}]
      BY <1>m, <3>1
    <3> QED BY <2>1, <2>4, <3>2
  <2>5. CASE s \notin sockets
    <3>1. \A u \in sockets : rooms'[u] = rooms[u]
      BY <1>0, <2>1, <2>5 DEF SessionTypes
    <3> QED BY <1>m, <2>1, <3>1
  <2> QED BY <2>4, <2>5
<1>8. ASSUME NEW e \in Endpoints, NEW r \in RoomNames, Leave(s, e, r)
      PROVE  sockets' = sockets /\ Members' = [Members EXCEPT ![<<e, r>>] = @ \ {s}]
  <2>1. /\ sockets' = sockets /\ rooms'[s] = rooms[s] \ {RoomName(e, r)}
        /\ \A u \in Sessions : u # s => rooms'[u] = rooms[u]
    BY <1>0, <1>8 DEF Leave, SessionTypes
  <2>2. rooms[s] # NoRooms /\ rooms'[s] # NoRooms
    <3>1. opened[s] # {}
      BY <1>8 DEF Leave
    <3>2. rooms[s] \ {RoomName(e, r)} \in SUBSET Names
      BY <1>0, <3>1 DEF SessionTypes
    <3> QED BY <1>0, <2>1, <3>1, <3>2, NamesFacts DEF SessionTypes
  <2>3. ASSUME NEW room \in All
        PROVE  Members'[room] = IF room = <<e, r>> THEN Members[room] \ {s}
                                ELSE Members[room]
    <3>1. \A u \in sockets : u # s => u \in Sessions /\ rooms'[u] = rooms[u]
      BY <1>0, <2>1 DEF SessionTypes
    <3>2. CASE room = <<e, r>>
      <4>1. RoomName(room[1], room[2]) = RoomName(e, r)
        BY <3>2
      <4> QED BY <1>m, <2>1, <2>2, <3>1, <3>2, <4>1
    <3>3. CASE room # <<e, r>>
      <4>1. RoomName(room[1], room[2]) # RoomName(e, r)
        BY <3>3, RoomsDiffer
      <4> QED BY <1>m, <2>1, <2>2, <3>1, <3>3, <4>1
    <3> QED BY <3>2, <3>3
  <2> QED BY <1>m, <2>1, <2>3
<1>9. ASSUME \/ Connect(s)
             \/ \E e \in Endpoints, r \in RoomNames : LeaveRaises(s, e, r)
      PROVE  sockets' = sockets /\ rooms' = rooms
  BY <1>9 DEF Connect, LeaveRaises
<1>10. \A e \in Endpoints, r \in RoomNames : <<e, r>> \in All
  OBVIOUS
<1> QED BY <1>a, <1>1, <1>2, <1>3, <1>4, <1>5, <1>6, <1>7, <1>8, <1>9, <1>10 DEF Between

\* To whom the mixins send, as RoomService has it.
LEMMA SendsAddressees ==
  ASSUME SessionTypes, NEW event \in Events
  PROVE  Service!Addressees(event) = {t \in sockets : SendsTo(event, t)}
<1>1. CASE event.to = "room"
  BY <1>1 DEF Service!Addressees, SendsTo, InRoom, Events, Event
<1>2. CASE event.to = "all"
  BY <1>2 DEF Service!Addressees, SendsTo
<1>3. CASE event.to = "others"
  BY <1>3 DEF Service!Addressees, SendsTo
<1>4. event.to \in {"room", "all", "others"}
  BY DEF Events, Event
<1> QED BY <1>1, <1>2, <1>3, <1>4

\* No other session is in a loop.
Alone(s) == \A u \in Sessions : u # s => loop[u].todo = {}

\* What session t will have once the loop of s is through.
InboxThrough(s, t) ==
  IF t \in loop[s].todo /\ SendsTo(loop[s].event, t)
  THEN Append(client_queue[t], loop[s].event.number)
  ELSE client_queue[t]

Ahead == \A s \in Sessions : Alone(s) => Inbox = [t \in Sessions |-> InboxThrough(s, t)]

LEMMA DueFacts == Ahead
<1> SUFFICES ASSUME NEW s \in Sessions, Alone(s), NEW t \in Sessions
             PROVE  Inbox[t] = InboxThrough(s, t)
  BY DEF Ahead, Inbox
<1>1. Due(t) = IF t \in loop[s].todo /\ SendsTo(loop[s].event, t) THEN {s} ELSE {}
  BY DEF Due, Alone
<1>2. Due(t) = {s} => (CHOOSE u \in Due(t) : TRUE) = s
  OBVIOUS
<1> QED BY <1>1, <1>2 DEF Inbox, InboxThrough

\* The start of a loop is the Send() of RoomService: it fixes to whom the event goes.
LEMMA StartService ==
  ASSUME IInv, IInv', NEW s \in Sessions, Starts(s)
  PROVE  \E event \in Events : Service!Send(event)
<1>0. SessionTypes /\ LoopTypes
  BY LoopFacts
<1> PICK event \in Events : event = loop'[s].event
  BY StartFacts
<1>1. /\ MayRun /\ UNCHANGED <<sockets, rooms, client_queue>>
      /\ loop' = [loop EXCEPT ![s] = loop'[s]] /\ loop'[s].todo = sockets
  BY StartFacts
<1>2. Inbox = client_queue
  BY <1>0, <1>1, NoneDue
<1>3. Alone(s)'
  BY <1>0, <1>1 DEF Alone, MayRun, LoopTypes
<1>4. Inbox' = [t \in Sessions |-> InboxThrough(s, t)']
  <2>1. Ahead'
    BY DueFacts, PTL
  <2> QED BY <1>3, <2>1 DEF Ahead
<1>5. ASSUME NEW t \in Sessions
      PROVE  InboxThrough(s, t)' = IF t \in {u \in sockets : SendsTo(event, u)}
                                   THEN Append(Inbox[t], event.number) ELSE Inbox[t]
  <2>1. SendsTo(loop[s].event, t)' <=> SendsTo(event, t)
    BY <1>1 DEF SendsTo
  <2> QED BY <1>1, <1>2, <2>1 DEF InboxThrough
<1>6. Members' = Members
  BY <1>1 DEF Members, InRoom
<1>7. Inbox' = [t \in Sessions |-> IF t \in Service!Addressees(event)
                                   THEN Append(Inbox[t], event.number) ELSE Inbox[t]]
  BY <1>0, <1>1, <1>4, <1>5, SendsAddressees
<1>8. Service!Send(event)
  BY <1>1, <1>6, <1>7 DEF Service!Send, Members, Inbox
<1> QED BY <1>8

\* A turn of the loop changes nothing for those who have to wait for it.
LEMMA TurnService ==
  ASSUME IInv, IInv', NEW s \in Sessions, NEW t \in Sessions, Turn(s, t)
  PROVE  Inbox' = Inbox
<1>0. SessionTypes /\ LoopTypes /\ OneLoop
  BY LoopFacts
<1>1. /\ t \in loop[s].todo /\ UNCHANGED rooms
      /\ client_queue' = IF SendsTo(loop[s].event, t)
                         THEN [client_queue EXCEPT ![t] = Append(@, events)]
                         ELSE client_queue
      /\ loop' = [loop EXCEPT ![s] = loop'[s]]
      /\ loop'[s].todo = loop[s].todo \ {t}
      /\ loop'[s] = Idle \/ loop'[s].event = loop[s].event
      /\ Alone(s) /\ loop[s].event.number = events
  BY <1>0, TurnFacts DEF Alone, OneLoop
<1>2. Alone(s)'
  BY <1>0, <1>1 DEF Alone, LoopTypes
<1>3. Inbox = [u \in Sessions |-> InboxThrough(s, u)]
  BY <1>1, DueFacts DEF Ahead
<1>4. Inbox' = [u \in Sessions |-> InboxThrough(s, u)']
  <2>1. Ahead'
    BY DueFacts, PTL
  <2> QED BY <1>2, <2>1 DEF Ahead
<1>5. ASSUME NEW u \in Sessions PROVE InboxThrough(s, u)' = InboxThrough(s, u)
  <2>1. loop'[s].todo # {} => loop'[s].event = loop[s].event
    BY <1>1 DEF Idle
  <2>2. loop'[s].todo # {} => (SendsTo(loop[s].event, u)' <=> SendsTo(loop[s].event, u))
    BY <1>1, <2>1 DEF SendsTo
  <2>3. CASE u = t
    <3>1. client_queue'[t] = IF SendsTo(loop[s].event, t)
                             THEN Append(client_queue[t], events) ELSE client_queue[t]
      BY <1>0, <1>1 DEF LoopTypes
    <3> QED BY <1>1, <2>3, <3>1 DEF InboxThrough
  <2>4. CASE u # t
    <3>1. client_queue'[u] = client_queue[u] /\ (u \in loop'[s].todo <=> u \in loop[s].todo)
      BY <1>0, <1>1, <2>4 DEF LoopTypes
    <3> QED BY <2>1, <2>2, <3>1 DEF InboxThrough
  <2> QED BY <2>3, <2>4
<1> QED BY <1>3, <1>4, <1>5

\* Every step of the sessions is one of RoomService, or changes nothing there.
LEMMA ServiceStep ==
  ASSUME IInv, IInv', [Next]_vars
  PROVE  [Service!ServiceNext]_(Service!serviceVars)
<1> DEFINE Maps == [Service!ServiceNext]_(Service!serviceVars)
<1>1. ASSUME UNCHANGED sockets, Members' = Members, Inbox' = Inbox PROVE Maps
  BY <1>1 DEF Members, Inbox, Service!serviceVars
<1>2. ASSUME NEW s \in Sessions, Between(s) PROVE Maps
  <2>1. Inbox' = Inbox
    BY <1>2, NoneComes
  <2>2. CASE sockets' = sockets /\ Members' = Members
    BY <1>1, <2>1, <2>2
  <2>3. CASE s \notin sockets /\ sockets' = sockets \union {s} /\ Members' = Members
    <3>1. Service!Enter(s)
      BY <2>1, <2>3 DEF Service!Enter, Members, Inbox
    <3> QED BY <3>1 DEF Service!ServiceNext
  <2>4. CASE /\ sockets' = sockets \ {s}
             /\ Members' = [room \in Endpoints \X RoomNames |-> Members[room] \ {s}]
    <3>1. Service!Vanish(s)
      BY <2>1, <2>4 DEF Service!Vanish, Members, Inbox
    <3> QED BY <3>1 DEF Service!ServiceNext
  <2>5. CASE /\ sockets' = sockets
             /\ \E room \in Endpoints \X RoomNames :
                  \/ s \in sockets /\ Members' = [Members EXCEPT ![room] = @ \union {s}]
                  \/ Members' = [Members EXCEPT ![room] = @ \ {s}]
    <3>1. PICK room \in Endpoints \X RoomNames :
            \/ s \in sockets /\ Members' = [Members EXCEPT ![room] = @ \union {s}]
            \/ Members' = [Members EXCEPT ![room] = @ \ {s}]
      BY <2>5
    <3>2. Service!JoinRoom(s, room) \/ Service!LeaveRoom(s, room)
      BY <2>1, <2>5, <3>1 DEF Service!JoinRoom, Service!LeaveRoom, Members, Inbox
    <3> QED BY <3>2 DEF Service!ServiceNext
  <2> QED BY <1>2, <2>2, <2>3, <2>4, <2>5, BetweenService
<1>3. ASSUME NEW s \in Sessions, Starts(s) PROVE Maps
  BY <1>3, StartService DEF Service!ServiceNext
<1>4. ASSUME NEW s \in Sessions, NEW t \in Sessions, Turn(s, t) PROVE Maps
  <2>1. UNCHANGED <<sockets, rooms>>
    BY <1>4, TurnFacts
  <2>2. Members' = Members
    BY <2>1 DEF Members, InRoom
  <2> QED BY <1>1, <1>4, <2>1, <2>2, TurnService
<1>5. CASE UNCHANGED vars
  <2>1. UNCHANGED <<sockets, rooms, client_queue, loop>>
    BY <1>5 DEF vars
  <2>2. Members' = Members
    BY <2>1 DEF Members, InRoom
  <2>3. Inbox' = Inbox
    BY <2>1 DEF Inbox, Due, SendsTo
  <2> QED BY <1>1, <2>1, <2>2, <2>3
<1> QED BY <1>2, <1>3, <1>4, <1>5, NextCases

\* What the mixins do over server.sockets is what RoomService promises: a session is in
\* a room from its join() to its leave(), and whoever is in it when an event is sent
\* gets the event, once, as if all of them got it in one step.
THEOREM RoomsImplement == Spec => KeepsRooms
<1>1. Init => Service!ServiceInit
  <2> SUFFICES ASSUME Init PROVE Service!ServiceInit
    OBVIOUS
  <2>1. sockets = {} /\ \A t \in Sessions : Due(t) = {} /\ client_queue[t] = <<>>
    BY DEF Init, Idle, Due
  <2> QED BY <2>1 DEF Service!ServiceInit, InRoom
<1>2. IInv /\ IInv' /\ [Next]_vars => [Service!ServiceNext]_(Service!serviceVars)
  BY ServiceStep
<1> QED BY Invariance, <1>1, <1>2, PTL DEF Spec, KeepsRooms, Service!ServiceSpec

=============================================================================
