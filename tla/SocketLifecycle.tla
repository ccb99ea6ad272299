-------------------------- MODULE SocketLifecycle --------------------------
(***************************************************************************)
(* What a virtual Socket promises to those who use it, whatever greenlets  *)
(* carry it out: it opens once and closes once, its session can be reached *)
(* as long as it is open, endpoints join and leave it one at a time, and   *)
(* the one that leaves an open socket empty closes it in the same step.    *)
(***************************************************************************)
CONSTANT Endpoints

VARIABLES
  phase,      \* "opening", "open", "closing"
  reachable,  \* requests find the session
  members     \* the endpoints with an active Namespace

lifeVars == <<phase, reachable, members>>

LifeInit == phase = "opening" /\ reachable = TRUE /\ members = {}

Open ==
  /\ phase = "opening" /\ phase' = "open"
  /\ UNCHANGED <<reachable, members>>

\* A packet for an endpoint that is served makes its Namespace, even while the
\* socket closes.
Join(n) ==
  /\ phase # "opening"
  /\ members' = members \union {n}
  /\ UNCHANGED <<phase, reachable>>

\* A Namespace leaves; others stay, or the socket is closing already.
Leave(n) ==
  /\ phase # "opening"
  /\ phase = "open" => members \ {n} # {}
  /\ members' = members \ {n}
  /\ UNCHANGED <<phase, reachable>>

\* The last one leaves an open socket, which closes and can no longer be found.
LeaveLast(n) ==
  /\ phase = "open" /\ members \subseteq {n}
  /\ phase' = "closing" /\ reachable' = FALSE /\ members' = {}

\* The socket closes by itself: at once when it is empty, otherwise its
\* Namespaces leave first.
Close ==
  /\ phase = "open" /\ phase' = "closing"
  /\ reachable' = (reachable /\ members # {})
  /\ UNCHANGED members

Forget ==
  /\ phase = "closing" /\ reachable' = FALSE
  /\ UNCHANGED <<phase, members>>

LifeNext ==
  \/ Open \/ Close \/ Forget
  \/ \E n \in Endpoints : Join(n) \/ Leave(n) \/ LeaveLast(n)

LifeSpec == LifeInit /\ [][LifeNext]_lifeVars

=============================================================================
