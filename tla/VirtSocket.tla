----------------------------- MODULE VirtSocket -----------------------------
(***************************************************************************)
(* The life of one virtual Socket of gevent-socketio: the greenlets that   *)
(* serve it (receiver loop, heartbeat, heartbeat timeout, watcher, the     *)
(* HTTP requests of its session and the jobs its namespaces spawn), and    *)
(* the ways in which kill(), disconnect(), BaseNamespace.disconnect() and  *)
(* gevent.killall() cross each other.                                      *)
(*                                                                         *)
(* Greenlets switch only where they block: a Queue.get, a sleep, a write,  *)
(* a gevent.killall, or user code.  One action is one run of a greenlet    *)
(* between two such points.                                                *)
(*                                                                         *)
(* The client_queue and the ack_callbacks are left out, and with them the  *)
(* heartbeat greenlet, which only writes the client_queue: put_nowait on   *)
(* an unbounded queue never blocks, and no control of this module reads    *)
(* either of them.                                                         *)
(***************************************************************************)
EXTENDS Naturals, Sequences, FiniteSets

CONSTANTS
  Names,         \* the endpoints given to socketio_manage
  GLOBAL_NS,     \* the endpoint '', which stands for the whole connection
  MaxInstances,  \* bound: Namespace objects made for one endpoint
  MaxJobs,       \* bound: jobs spawned on one Namespace object
  Requests,      \* HTTP request greenlets of the session
  Payloads,      \* the message sequences a POST may carry
  MaxSent,       \* bound: messages the client sends in all
  Raises         \* whether the recv_disconnect() that users write may raise

Roles == {"receiver", "heartbeat_timeout", "watcher", "app"}

PacketTypes == {"event", "disconnect", "heartbeat", "invalid"}

Packets == [type : PacketTypes, endpoint : Names \union {GLOBAL_NS}]

\* What kill() puts in the queue to wake up the receiver loop.
None == [type |-> "None", endpoint |-> GLOBAL_NS]

ASSUME VirtSocketAssumption ==
  /\ MaxInstances \in Nat
  /\ MaxJobs \in Nat
  /\ MaxSent \in Nat
  /\ Raises \in BOOLEAN
  /\ Payloads \subseteq Seq(Packets)
  /\ Names \intersect Roles = {}
  /\ Requests \intersect (Roles \union Names) = {}

\* Namespace objects: the k-th one made for an endpoint.  The jobs they spawn.
Inst      == Names \X (1 .. MaxInstances)
NsJob     == Names \X (1 .. MaxInstances) \X (1 .. MaxJobs)
Owner(j)  == <<j[1], j[2]>>

Reqs      == Requests \X {0}
Recv      == <<"receiver", 0>>
Hbt       == <<"heartbeat_timeout", 0>>
Watch     == <<"watcher", 0>>
App       == <<"app", 0>>
Greenlets == {Recv, Hbt, Watch, App} \union Reqs \union NsJob

VARIABLES
  state,                   \* Socket.state
  connection_established,
  attached,                \* sessid in server.sockets
  jobs,                    \* Socket.jobs
  active_ns,               \* the Namespace objects in Socket.active_ns
  born,                    \* the Namespace objects ever made
  listed,                  \* the jobs that the jobs list of their Namespace holds
  server_queue,
  timeout,                 \* the flag of the Event Socket.timeout
  pc,                      \* where each greenlet stands
  cur,                     \* the packet and Namespace the receiver works on
  frame,                   \* what each greenlet holds on its stack (NoFrame)
  callbacks,               \* gevent's scheduled killall callbacks
  sent                     \* messages sent by the client so far

sockVars == <<state, connection_established, attached, jobs>>
nsVars   == <<active_ns, born, listed>>
inVars   == <<server_queue, timeout, sent>>
ctlVars  == <<frame, callbacks>>
vars     == <<sockVars, nsVars, inVars, ctlVars, pc, cur>>

\* Where a greenlet blocked in gevent.killall stands: in the kill() that
\* remove_namespace() called ("kill"), in kill_local_jobs() ("local"), in
\* kill_local_jobs() with a GreenletExit on its way out ("exit"), or in the
\* killall that ends kill() or the watcher ("end").
Blocked == {"kill", "local", "exit", "end"}

Pcs == {"none", "idle", "body", "exchange", "start", "get", "init", "handler",
        "run", "arm", "wait", "dying", "disc", "dead"} \union Blocked

Resumes == {"idle", "handler", "init", "run"}

NoNs == <<GLOBAL_NS, 0>>

\* The locals of a teardown: the Namespace whose disconnect() runs, those left
\* in a disconnect() loop, what follows the loop, and the greenlets a blocked
\* killall waits for.
NoFrame == [ns |-> NoNs, todo |-> {}, after |-> "idle", wait |-> {}]
Frames  == [ns : Inst \union {NoNs}, todo : SUBSET Inst,
            after : Resumes \union {"detach", "reap"}, wait : SUBSET Greenlets]
NoPacket == [type |-> "None", ns |-> NoNs]

Dead(g)    == pc[g] = "dead"
Alive(g)   == pc[g] \notin {"none", "dead"}
Connected  == state = "CONNECTED"
Name(o)    == o[1]
NsJobs(o)  == {j \in listed : Owner(j) = o}

\* The _killall3 callback that g schedules and blocks on.
Callback(g, victims, at) == [victims |-> victims, by |-> g, at |-> at]

\* g's callback has run and every greenlet it threw GreenletExit into is dead.
Resumable(g) ==
  /\ ~ \E c \in callbacks : c.by = g /\ c.at = pc[g]
  /\ \A v \in frame[g].wait : Dead(v)

Init ==
  /\ state = "NEW"
  /\ connection_established = FALSE
  /\ attached = TRUE
  /\ jobs = {}
  /\ active_ns = {} /\ born = {} /\ listed = {}
  /\ server_queue = <<>>
  /\ timeout = FALSE
  /\ sent = 0
  /\ pc = [g \in Greenlets |-> IF g \in Reqs THEN "idle" ELSE "none"]
  /\ cur = NoPacket
  /\ frame = [g \in Greenlets |-> NoFrame]
  /\ callbacks = {}

-----------------------------------------------------------------------------
(* gevent.killall and the teardown paths, as greenlet g runs them. *)

\* gevent.killall(victims) with block=True, called by g, whose stack is f.
KillAll(g, victims, at, f) ==
  /\ callbacks' = callbacks \union {Callback(g, victims, at)}
  /\ frame' = [frame EXCEPT ![g] = [f EXCEPT !.wait = victims]]
  /\ pc' = [pc EXCEPT ![g] = at]

\* Slip: gevent.joinall instead of killall.
KillLocalJobsJoin(g, f) ==
  IF NsJobs(f.ns) = {}
  THEN /\ pc' = [pc EXCEPT ![g] = "disc"]
       /\ frame' = [frame EXCEPT ![g] = [f EXCEPT !.ns = NoNs, !.wait = {}]]
       /\ UNCHANGED callbacks
  ELSE /\ pc' = [pc EXCEPT ![g] = "local"]
       /\ frame' = [frame EXCEPT ![g] = [f EXCEPT !.wait = NsJobs(f.ns)]]
       /\ UNCHANGED callbacks

\* BaseNamespace.kill_local_jobs() of f.ns, called by g: killall on an empty
\* list returns at once.
KillLocalJobs(g, f) ==
  IF NsJobs(f.ns) = {}
  THEN /\ pc' = [pc EXCEPT ![g] = "disc"]
       /\ frame' = [frame EXCEPT ![g] = [f EXCEPT !.ns = NoNs, !.wait = {}]]
       /\ UNCHANGED callbacks
  ELSE KillAll(g, NsJobs(f.ns), "local", f)

\* The loop of Socket.disconnect() or of the watcher over a snapshot of
\* active_ns, then what `aft' says.  It calls recv_disconnect(), which users
\* override and which may then block: other greenlets run between two turns.
StartLoop(g, aft) ==
  /\ frame' = [frame EXCEPT ![g] = [NoFrame EXCEPT !.todo = active_ns, !.after = aft]]
  /\ pc' = [pc EXCEPT ![g] = "disc"]
  /\ UNCHANGED callbacks

\* What is left when remove_namespace() takes the endpoint of o out of active_ns,
\* whichever Namespace object is there for it.
Others(o) == {i \in active_ns : Name(i) # Name(o)}

\* Slips in remove_namespace(): it detaches an emptied socket and leaves it
\* connected, it kills it without detach=True.
NsDisconnectDetaching(g, f) ==
  LET left == Others(f.ns)
  IN  /\ active_ns' = left
      /\ attached' = (attached /\ ~(left = {} /\ Connected))
      /\ KillLocalJobs(g, f)
      /\ UNCHANGED <<state, connection_established, jobs, born, listed, inVars, cur>>

NsDisconnectNoDetach(g, f) ==
  LET left == Others(f.ns)
  IN  /\ active_ns' = left
      /\ IF left = {} /\ Connected
         THEN /\ state' = "DISCONNECTING"
              /\ server_queue' = Append(server_queue, None)
              /\ KillAll(g, jobs, "kill", f)
         ELSE /\ KillLocalJobs(g, f)
              /\ UNCHANGED <<state, server_queue>>
      /\ UNCHANGED <<attached, connection_established, jobs, born, listed, timeout, sent, cur>>

\* BaseNamespace.disconnect() of f.ns: remove_namespace(), which kills the
\* socket when it removes the last Namespace of a connected one, then (finally)
\* kill_local_jobs().
NsDisconnect(g, f) ==
  LET left == Others(f.ns)
  IN  /\ active_ns' = left
      /\ IF left = {} /\ Connected
         THEN /\ state' = "DISCONNECTING"
              /\ server_queue' = Append(server_queue, None)
              /\ attached' = FALSE
              /\ KillAll(g, jobs, "kill", f)
         ELSE /\ KillLocalJobs(g, f)
              /\ UNCHANGED <<state, server_queue, attached>>
      /\ UNCHANGED <<connection_established, jobs, born, listed, timeout, sent, cur>>

\* The end of kill(detach=True): detach(), then killall(self.jobs).
DetachAndKillJobs(g) ==
  /\ attached' = FALSE
  /\ KillAll(g, jobs, "end", NoFrame)

\* Slip: kill() changes the state once the Namespaces are disconnected.
KillStateLast(g) ==
  /\ server_queue' = IF g = Recv /\ pc[g] = "get" THEN Tail(server_queue) ELSE server_queue
  /\ IF Connected /\ active_ns # {}
     THEN StartLoop(g, "detach") /\ UNCHANGED <<state, attached>>
     ELSE state' = "DISCONNECTING" /\ DetachAndKillJobs(g)
  /\ UNCHANGED <<connection_established, jobs, nsVars, timeout, sent, cur>>

\* Socket.kill(detach=True) called at the top of greenlet g.
Kill(g) ==
  /\ IF Connected
     THEN /\ state' = "DISCONNECTING"
          /\ server_queue' = Append(IF g = Recv /\ pc[g] = "get" THEN Tail(server_queue)
                                                                  ELSE server_queue, None)
          /\ IF active_ns # {}
             THEN StartLoop(g, "detach") /\ UNCHANGED attached
             ELSE DetachAndKillJobs(g)
     ELSE /\ server_queue' = IF g = Recv /\ pc[g] = "get" THEN Tail(server_queue)
                                                           ELSE server_queue
          /\ DetachAndKillJobs(g)
          /\ UNCHANGED state
  /\ UNCHANGED <<connection_established, jobs, nsVars, timeout, sent, cur>>

-----------------------------------------------------------------------------
(* The HTTP requests of the session. *)

\* get_socket() finds the session and do_exchange() sees that it is the first
\* request: it writes "1::", and the write may let other greenlets run.
ReqConnect(r) ==
  /\ pc[r] = "idle" /\ attached /\ ~connection_established
  /\ pc' = [pc EXCEPT ![r] = "exchange"]
  /\ UNCHANGED <<sockVars, nsVars, inVars, ctlVars, cur>>

\* Slips in handle_one_response(): what was read before do_exchange() is not read
\* again, and the watcher is spawned as one of the socket's jobs.
ReqEstablishStale(r) ==
  /\ pc[r] = "exchange"
  /\ connection_established' = TRUE
  /\ state' = "CONNECTED"
  /\ jobs' = jobs \union {Hbt}
  /\ pc' = [pc EXCEPT ![r] = "idle", ![Hbt] = "arm", ![Watch] = "run", ![App] = "start"]
  /\ UNCHANGED <<attached, nsVars, inVars, ctlVars, cur>>

ReqEstablishTracked(r) ==
  /\ pc[r] = "exchange" /\ ~connection_established
  /\ connection_established' = TRUE
  /\ state' = "CONNECTED"
  /\ jobs' = jobs \union {Hbt, Watch}
  /\ pc' = [pc EXCEPT ![r] = "idle", ![Hbt] = "arm", ![Watch] = "run", ![App] = "start"]
  /\ UNCHANGED <<attached, nsVars, inVars, ctlVars, cur>>

\* What follows do_exchange() in handle_one_response(): connection_established
\* is read again.
ReqEstablish(r) ==
  /\ pc[r] = "exchange"
  /\ IF connection_established
     THEN /\ pc' = [pc EXCEPT ![r] = "idle"]
          /\ UNCHANGED sockVars
     ELSE /\ connection_established' = TRUE
          /\ state' = "CONNECTED"
          /\ jobs' = jobs \union {Hbt}
          /\ pc' = [pc EXCEPT ![r] = "idle", ![Hbt] = "arm", ![Watch] = "run",
                              ![App] = "start"]
          /\ UNCHANGED attached
  /\ UNCHANGED <<nsVars, inVars, ctlVars, cur>>

\* A POST: its session is found, then its body is read, which may block.
ReqPost(r) ==
  /\ pc[r] = "idle" /\ attached /\ connection_established
  /\ pc' = [pc EXCEPT ![r] = "body"]
  /\ UNCHANGED <<sockVars, nsVars, inVars, ctlVars, cur>>

\* post(): put_server_msg() for every message of the body.
ReqDeliver(r, msgs) ==
  /\ pc[r] = "body"
  /\ sent + Len(msgs) <= MaxSent
  /\ sent' = sent + Len(msgs)
  /\ server_queue' = server_queue \o msgs
  /\ timeout' = TRUE
  /\ pc' = [pc EXCEPT ![r] = "idle"]
  /\ UNCHANGED <<sockVars, nsVars, ctlVars, cur>>

\* get(): a poll counts as a heartbeat.
ReqPoll(r) ==
  /\ pc[r] = "idle" /\ attached /\ connection_established
  /\ timeout' = TRUE
  /\ UNCHANGED <<sockVars, nsVars, server_queue, sent, ctlVars, pc, cur>>

\* A request with the query string "disconnect".
ReqDisconnect(r) ==
  /\ pc[r] = "idle" /\ attached
  /\ StartLoop(r, "idle")
  /\ UNCHANGED <<sockVars, nsVars, inVars, cur>>

-----------------------------------------------------------------------------
(* The WSGI application and the receiver loop. *)

\* socketio_manage(): spawns the receiver loop, and joins it to the end.
AppManage ==
  /\ pc[App] = "start"
  /\ jobs' = jobs \union {Recv}
  /\ pc' = [pc EXCEPT ![App] = "dead", ![Recv] = "get"]
  /\ UNCHANGED <<state, connection_established, attached, nsVars, inVars, ctlVars, cur>>

Receiving(m) == pc[Recv] = "get" /\ server_queue # <<>> /\ m = Head(server_queue)

\* Nothing to do: the None of kill(), a heartbeat, an endpoint nobody serves, and,
\* when users gave an error_handler that returns, a packet that does not decode.
RecvSkip ==
  \E m \in Packets \union {None} :
    /\ Receiving(m)
    /\ \/ m.type \in {"None", "heartbeat", "invalid"}
       \/ m.endpoint \notin Names /\ <<m.type, m.endpoint>> # <<"disconnect", GLOBAL_NS>>
    /\ server_queue' = Tail(server_queue)
    /\ UNCHANGED <<sockVars, nsVars, timeout, sent, ctlVars, pc, cur>>

\* packet.decode() raises.  The event of default_error_handler() has the endpoint
\* None, which encode() cannot write: that raises too, and nothing catches it.
RecvInvalid ==
  /\ \E m \in Packets : Receiving(m) /\ m.type = "invalid"
  /\ server_queue' = Tail(server_queue)
  /\ pc' = [pc EXCEPT ![Recv] = "dead"]
  /\ UNCHANGED <<sockVars, nsVars, timeout, sent, ctlVars, cur>>

RecvKill ==
  /\ \E m \in Packets : Receiving(m) /\ m.type = "disconnect" /\ m.endpoint = GLOBAL_NS
  /\ Kill(Recv)

\* process_packet(), for user code that takes the packet or for a disconnect
\* packet that the ACL lets through to recv_disconnect().
Process(o, type) ==
  /\ cur' = [type |-> type, ns |-> o]
  /\ \/ /\ pc' = [pc EXCEPT ![Recv] = "handler"]
        /\ UNCHANGED frame
     \/ /\ type = "disconnect"
        /\ pc' = [pc EXCEPT ![Recv] = "disc"]
        /\ frame' = [frame EXCEPT ![Recv] = [NoFrame EXCEPT !.todo = {o}, !.after = "handler"]]
  /\ UNCHANGED callbacks

Routed(m) ==
  /\ Receiving(m)
  /\ m.type \in {"event", "disconnect"}
  /\ m.endpoint \in Names
  /\ <<m.type, m.endpoint>> # <<"disconnect", GLOBAL_NS>>
  /\ server_queue' = Tail(server_queue)

RecvDispatch ==
  /\ \E m \in Packets, o \in active_ns :
       Routed(m) /\ Name(o) = m.endpoint /\ Process(o, m.type)
  /\ UNCHANGED <<sockVars, nsVars, timeout, sent>>

\* The endpoint has no active Namespace: one is made, and initialize() runs.
RecvInit ==
  /\ \E m \in Packets, k \in 1 .. MaxInstances :
       LET o == <<m.endpoint, k>>
       IN  /\ Routed(m)
           /\ ~ \E i \in active_ns : Name(i) = m.endpoint
           /\ {i \in born : Name(i) = m.endpoint} = {<<m.endpoint, j>> : j \in 1 .. k - 1}
           /\ born' = born \union {o}
           /\ cur' = [type |-> m.type, ns |-> o]
  /\ pc' = [pc EXCEPT ![Recv] = "init"]
  /\ UNCHANGED <<sockVars, active_ns, listed, timeout, sent, ctlVars>>

\* initialize() is done: the Namespace is registered and gets its packet.
RecvRegister ==
  /\ pc[Recv] = "init"
  /\ active_ns' = Others(cur.ns) \union {cur.ns}
  /\ Process(cur.ns, cur.type)
  /\ UNCHANGED <<sockVars, born, listed, inVars>>

\* The handler returned: are we still connected?
HandlerReturn ==
  /\ pc[Recv] = "handler"
  /\ IF Connected
     THEN /\ pc' = [pc EXCEPT ![Recv] = "get"]
          /\ cur' = NoPacket
          /\ UNCHANGED <<sockVars, nsVars, inVars, ctlVars>>
     ELSE Kill(Recv)

\* initialize() or a handler raises: nothing catches it in _receiver_loop().
HandlerRaise ==
  /\ pc[Recv] \in {"init", "handler"}
  /\ pc' = [pc EXCEPT ![Recv] = "dead"]
  /\ cur' = NoPacket
  /\ UNCHANGED <<sockVars, nsVars, inVars, ctlVars>>

-----------------------------------------------------------------------------
(* What user code may call: in initialize() or in a handler, for the current *)
(* Namespace, and in a job, for the Namespace that spawned it.               *)

RunsFor(g, o) ==
  \/ g = Recv /\ pc[g] \in {"init", "handler"} /\ o = cur.ns
  \/ g \in NsJob /\ Owner(g) = o /\ pc[g] = "run"

\* BaseNamespace.spawn(): j is the next job of o.
UserSpawn(g, o, j) ==
  /\ RunsFor(g, o) /\ Owner(j) = o
  /\ pc[j] = "none"
  /\ \A i \in NsJob : Owner(i) = o /\ i[3] < j[3] => pc[i] # "none"
  /\ pc' = [pc EXCEPT ![j] = "run"]
  /\ listed' = listed \union {j}
  /\ UNCHANGED <<sockVars, active_ns, born, inVars, ctlVars, cur>>

\* BaseNamespace.disconnect()
UserDisconnect(g, o) == RunsFor(g, o) /\ NsDisconnect(g, [NoFrame EXCEPT !.ns = o, !.after = pc[g]])

\* Socket.disconnect(), called by a handler.
UserDisconnectAll ==
  /\ pc[Recv] = "handler"
  /\ StartLoop(Recv, "handler")
  /\ UNCHANGED <<sockVars, nsVars, inVars, cur>>

JobEnd(j) ==
  /\ pc[j] = "run"
  /\ pc' = [pc EXCEPT ![j] = "dead"]
  /\ UNCHANGED <<sockVars, nsVars, inVars, ctlVars, cur>>

\* The clean-up of a job that was thrown GreenletExit is done.
JobDie(j) ==
  /\ pc[j] = "dying"
  /\ pc' = [pc EXCEPT ![j] = "dead"]
  /\ UNCHANGED <<sockVars, nsVars, inVars, ctlVars, cur>>

-----------------------------------------------------------------------------
(* The disconnect() loop and the greenlets blocked in killall. *)

\* recv_disconnect() of the next Namespace of the snapshot.
DisconnectNext(g) ==
  /\ pc[g] = "disc"
  /\ \E o \in frame[g].todo :
       NsDisconnect(g, [frame[g] EXCEPT !.ns = o, !.todo = @ \ {o}])

\* A recv_disconnect() that users wrote raises: nothing catches it in the loop, in
\* kill() or in the watcher, and their greenlet ends; pywsgi serves on.
DisconnectRaise(g) ==
  /\ Raises /\ pc[g] = "disc"
  /\ pc' = [pc EXCEPT ![g] = IF g \in Reqs THEN "idle" ELSE "dead"]
  /\ frame' = [frame EXCEPT ![g] = NoFrame]
  /\ cur' = IF g = Recv THEN NoPacket ELSE cur
  /\ UNCHANGED <<sockVars, nsVars, inVars, callbacks>>

FinishLoop(g) ==
  /\ pc[g] = "disc" /\ frame[g].todo = {}
  /\ \/ /\ frame[g].after \in Resumes
        /\ pc' = [pc EXCEPT ![g] = frame[g].after]
        /\ frame' = [frame EXCEPT ![g] = NoFrame]
        /\ UNCHANGED <<attached, callbacks>>
     \/ frame[g].after = "detach" /\ DetachAndKillJobs(g)
     \/ /\ frame[g].after = "reap"
        /\ KillAll(g, jobs, "end", NoFrame)
        /\ UNCHANGED attached
  /\ UNCHANGED <<state, connection_established, jobs, nsVars, inVars, cur>>

\* remove_namespace() is back from kill(): kill_local_jobs() is next.
ResumeKill(g) ==
  /\ pc[g] = "kill" /\ Resumable(g)
  /\ KillLocalJobs(g, frame[g])
  /\ UNCHANGED <<sockVars, nsVars, inVars, cur>>

\* kill_local_jobs() is back from killall: it empties its list of jobs.
ResumeLocal(g) ==
  /\ pc[g] \in {"local", "exit"} /\ Resumable(g)
  /\ listed' = listed \ NsJobs(frame[g].ns)
  /\ \/ /\ pc[g] = "local"
        /\ pc' = [pc EXCEPT ![g] = "disc"]
        /\ frame' = [frame EXCEPT ![g] = [@ EXCEPT !.ns = NoNs, !.wait = {}]]
     \/ /\ pc[g] = "exit"
        /\ pc' = [pc EXCEPT ![g] = "dead"]
        /\ frame' = [frame EXCEPT ![g] = NoFrame]
  /\ UNCHANGED <<sockVars, active_ns, born, inVars, callbacks, cur>>

EndKill(g) ==
  /\ pc[g] = "end" /\ Resumable(g)
  /\ pc' = [pc EXCEPT ![g] = "dead"]
  /\ frame' = [frame EXCEPT ![g] = NoFrame]
  /\ UNCHANGED <<sockVars, nsVars, inVars, callbacks, cur>>

\* Slip: the kill_local_jobs() of disconnect() is not in a finally.
RunCallbackNoFinally(c) ==
  LET alive == {v \in c.victims : ~Dead(v)}
  IN  \E slow \in SUBSET {v \in alive \intersect NsJob : pc[v] = "run"} :
        /\ pc' = [g \in Greenlets |->
                     IF g \in slow THEN "dying" ELSE IF g \in alive THEN "dead" ELSE pc[g]]
        /\ frame' = [g \in Greenlets |-> IF g \in alive THEN NoFrame ELSE frame[g]]
        /\ callbacks' = callbacks \ {c}
        /\ cur' = IF Recv \in alive THEN NoPacket ELSE cur
        /\ UNCHANGED <<sockVars, nsVars, inVars>>

\* The hub runs _killall3: GreenletExit is thrown into every victim.  One that
\* waits in remove_namespace() still runs kill_local_jobs() (the finally of
\* disconnect()), a running job may take time to clean up, the others die.
RunCallback(c) ==
  LET alive    == {v \in c.victims : ~Dead(v)}
      Left(v)  == NsJobs(frame[v].ns)
      exiting  == {v \in alive : pc[v] = "kill" /\ Left(v) # {}}
  IN  \E slow \in SUBSET {v \in alive \intersect NsJob : pc[v] = "run"} :
        /\ pc' = [g \in Greenlets |->
                     CASE g \notin alive  -> pc[g]
                       [] g \in exiting   -> "exit"
                       [] g \in slow      -> "dying"
                       [] OTHER           -> "dead"]
        /\ frame' = [g \in Greenlets |->
                     CASE g \notin alive  -> frame[g]
                       [] g \in exiting   -> [frame[g] EXCEPT !.wait = Left(g)]
                       [] OTHER           -> NoFrame]
        /\ callbacks' = (callbacks \ {c}) \union
                          {Callback(v, Left(v), "exit") : v \in exiting}
        /\ cur' = IF Recv \in alive THEN NoPacket ELSE cur
        /\ UNCHANGED <<sockVars, nsVars, inVars>>

-----------------------------------------------------------------------------
(* The heartbeat timeout and the watcher. *)

\* The greenlet starts: timeout.clear(), then the sleep and the wait.
HbtArm ==
  /\ pc[Hbt] = "arm"
  /\ timeout' = FALSE
  /\ pc' = [pc EXCEPT ![Hbt] = "wait"]
  /\ UNCHANGED <<sockVars, nsVars, server_queue, sent, ctlVars, cur>>

\* The wait returns True, and the loop clears the flag for the next one.
HbtWake ==
  /\ pc[Hbt] = "wait" /\ timeout
  /\ timeout' = FALSE
  /\ UNCHANGED <<sockVars, nsVars, server_queue, sent, ctlVars, pc, cur>>

\* Slip: the greenlet returns without kill().
HbtExpireQuiet ==
  /\ pc[Hbt] = "wait" /\ ~timeout
  /\ pc' = [pc EXCEPT ![Hbt] = "dead"]
  /\ UNCHANGED <<sockVars, nsVars, inVars, ctlVars, cur>>

\* The wait timed out.
HbtExpire ==
  /\ pc[Hbt] = "wait" /\ ~timeout
  /\ IF Connected
     THEN Kill(Hbt)
     ELSE /\ pc' = [pc EXCEPT ![Hbt] = "dead"]
          /\ UNCHANGED <<sockVars, nsVars, inVars, ctlVars, cur>>

\* Slips in the watcher: it does not look at the state, it does not disconnect
\* the Namespaces, it kills the jobs only when Namespaces are left.
WatchWakeAlways ==
  /\ pc[Watch] = "run"
  /\ StartLoop(Watch, "reap")
  /\ UNCHANGED <<sockVars, nsVars, inVars, cur>>

WatchWakeNoLoop ==
  /\ pc[Watch] = "run" /\ ~Connected
  /\ KillAll(Watch, jobs, "end", NoFrame)
  /\ UNCHANGED <<sockVars, nsVars, inVars, cur>>

WatchWakeNoKill ==
  /\ pc[Watch] = "run" /\ ~Connected
  /\ IF active_ns # {}
     THEN StartLoop(Watch, "reap")
     ELSE KillAll(Watch, {}, "end", NoFrame)
  /\ UNCHANGED <<sockVars, nsVars, inVars, cur>>

\* _watcher(): a sleep ends, and the socket is no longer connected.
WatchWake ==
  /\ pc[Watch] = "run" /\ ~Connected
  /\ IF active_ns # {}
     THEN StartLoop(Watch, "reap")
     ELSE KillAll(Watch, jobs, "end", NoFrame)
  /\ UNCHANGED <<sockVars, nsVars, inVars, cur>>

-----------------------------------------------------------------------------
Client ==
  \E r \in Reqs :
    \/ ReqConnect(r) \/ ReqPost(r) \/ ReqPoll(r) \/ ReqDisconnect(r)
    \/ \E msgs \in Payloads : ReqDeliver(r, msgs)

User ==
  \/ HandlerRaise \/ UserDisconnectAll
  \/ \E j \in NsJob : JobEnd(j)
  \/ \E g \in {Recv} \union NsJob :
       \E o \in Inst : UserDisconnect(g, o) \/ \E j \in NsJob : UserSpawn(g, o, j)
  \/ \E g \in Greenlets : DisconnectRaise(g)

Receive ==
  \/ RecvSkip \/ RecvInvalid \/ RecvKill \/ RecvDispatch \/ RecvInit \/ RecvRegister
  \/ HandlerReturn

Heart == HbtArm \/ HbtWake \/ HbtExpire

Hub == \E c \in callbacks : RunCallback(c)

Teardown(g) ==
  DisconnectNext(g) \/ FinishLoop(g) \/ ResumeKill(g) \/ ResumeLocal(g) \/ EndKill(g)

System ==
  \/ \E r \in Reqs : ReqEstablish(r)
  \/ AppManage \/ Receive \/ Heart \/ WatchWake \/ Hub
  \/ \E j \in NsJob : JobDie(j)
  \/ \E g \in Greenlets : Teardown(g)

Next == Client \/ User \/ System

Spec == Init /\ [][Next]_vars

\* gevent's loop runs every greenlet and callback that is ready and lets every
\* timer expire; nothing makes a client send, or user code spawn, raise,
\* disconnect or end a job.  Handlers are taken to return.
Fairness ==
  /\ \A r \in Reqs : WF_vars(ReqEstablish(r))
  /\ WF_vars(AppManage) /\ WF_vars(Receive)
  /\ WF_vars(Heart) /\ WF_vars(WatchWake) /\ WF_vars(Hub)
  /\ \A j \in NsJob : WF_vars(JobDie(j))
  /\ \A g \in Greenlets : WF_vars(Teardown(g))

FairSpec == Spec /\ Fairness

-----------------------------------------------------------------------------
(* Properties *)

\* The type of every variable: what the control of the greenlets and each field
\* of the Socket may hold.
ControlOK ==
  /\ pc \in [Greenlets -> Pcs]
  /\ frame \in [Greenlets -> Frames]
  /\ callbacks \subseteq [victims : SUBSET Greenlets, by : Greenlets, at : Blocked]

TypeOK ==
  /\ state \in {"NEW", "CONNECTED", "DISCONNECTING"}
  /\ connection_established \in BOOLEAN
  /\ attached \in BOOLEAN
  /\ jobs \subseteq {Recv, Hbt}
  /\ active_ns \subseteq Inst
  /\ born \subseteq Inst
  /\ listed \subseteq NsJob
  /\ server_queue \in Seq(Packets \union {None})
  /\ timeout \in BOOLEAN
  /\ sent \in Nat
  /\ cur \in [type : PacketTypes \union {"None"}, ns : Inst \union {NoNs}]
  /\ ControlOK

\* Two first requests may both be in do_exchange(), and the socket may be killed
\* before the second one returns: a socket that was torn down never becomes
\* CONNECTED again (handler.py reads connection_established anew).
NoResurrection ==
  [][/\ state = "DISCONNECTING" => state' = "DISCONNECTING"
     /\ state = "CONNECTED" => state' # "NEW"]_vars

\* Whoever runs kill(), a socket that still says connected is one its client's
\* requests can reach: detach() never comes before the change of state.
ConnectedAttached == Connected => attached

\* A connected socket is watched: its heartbeat timeout and its watcher wait, so
\* some greenlet notices a silent client, and another one the disconnect.
Monitored == Connected => pc[Hbt] \in {"arm", "wait"} /\ pc[Watch] = "run"

\* kill() disconnects a connected socket's Namespaces once: two teardown paths
\* (a timeout, a packet, a request, user code) never both pass its test of
\* `connected'.
Killers ==
  {g \in Greenlets :
     pc[g] = "kill" \/ (pc[g] \in {"disc", "local"} /\ frame[g].after = "detach")}

OneKiller == \A g, h \in Killers : g = h

\* What makes the invariants above inductive.  A socket is new exactly until its
\* first request returns, and nothing but requests runs before that; only the
\* teardown of a socket that is going down blocks in kill() or in the watcher's
\* killall, comes after a loop to detach, or throws into the socket's own
\* greenlets; and the receiver resumes user code with a Namespace at hand.
Established == connection_established <=> state # "NEW"

Fresh ==
  state = "NEW" =>
    /\ attached
    /\ active_ns = {} /\ listed = {} /\ callbacks = {}
    /\ \A g \in Greenlets \ Reqs : pc[g] = "none"

Closing ==
  \A g \in Greenlets :
    pc[g] \in {"kill", "exit", "end"} \/ frame[g].after \in {"detach", "reap"}
      => state = "DISCONNECTING"

ThrownInto ==
  \A c \in callbacks :
    /\ c.victims \subseteq {Recv, Hbt} \union NsJob
    /\ c.victims \subseteq NsJob \/ state = "DISCONNECTING"

InUserCode ==
  (\/ pc[Recv] \in {"init", "handler"}
   \/ pc[Recv] \in {"disc", "kill", "local"} /\ frame[Recv].after \in {"init", "handler"})
  => cur.ns \in Inst

IInv ==
  /\ TypeOK /\ Established /\ Fresh /\ Closing /\ ThrownInto /\ InUserCode
  /\ ConnectedAttached /\ Monitored /\ OneKiller

\* Every greenlet blocked in gevent.killall, on itself, on another killer or on
\* a job that takes time to die, goes on: teardown paths never wait for each
\* other in a circle.
KillersUnblock == \A g \in Greenlets : (pc[g] \in Blocked) ~> (pc[g] \notin Blocked)

\* A client that falls silent for good is dropped by _heartbeat_timeout().
SilentClientDropped == (<>[]~timeout) => (Connected ~> ~Connected)

\* A Namespace active when the socket goes down, with the watcher yet to wake,
\* is removed, even if the greenlet that runs kill() dies half-way.
NamespacesCleared ==
  \A o \in Inst : (o \in active_ns /\ state = "DISCONNECTING" /\ pc[Watch] = "run")
                    ~> (o \notin active_ns)

\* Likewise every socket-level greenlet of a socket that goes down dies.
SocketJobsDie ==
  \A j \in {Recv, Hbt} :
    (j \in jobs /\ state = "DISCONNECTING" /\ pc[Watch] = "run") ~> Dead(j)

\* BaseNamespace.disconnect() kills the jobs of its Namespace, although its greenlet is
\* killed half-way by the killall of the kill() that it called itself, or by another
\* one: the finally runs kill_local_jobs() all the same.  A job that is spawned while
\* another greenlet already is in kill_local_jobs() is the exception: `self.jobs = []'
\* drops it alive.
InKillLocalJobs(o) == {g \in Greenlets : pc[g] \in {"local", "exit"} /\ frame[g].ns = o}

LocalJobsDie ==
  \A j \in NsJob :
    (/\ j \in listed /\ ~Dead(j)
     /\ \E g \in Greenlets : pc[g] = "kill" /\ frame[g].ns = Owner(j)
     /\ \A g \in InKillLocalJobs(Owner(j)) : j \in frame[g].wait)
      ~> Dead(j)

\* The socket, seen as its state, its place in server.sockets and the endpoints
\* of its active Namespaces, implements SocketLifecycle.
Phase ==
  CASE state = "NEW" -> "opening" [] state = "CONNECTED" -> "open" [] OTHER -> "closing"

Lifecycle ==
  INSTANCE SocketLifecycle WITH
    Endpoints <- Names, phase <- Phase, reachable <- attached,
    members <- {Name(o) : o \in active_ns}

KeepsLifecycle == Lifecycle!LifeSpec

-----------------------------------------------------------------------------
(* What the documentation says and the code does not do *)

\* detach(), docstring: "once all the jobs are dead, detach the socket for garbage
\* collection": a socket none of whose greenlets is left is no longer in
\* server.sockets.
DeadIsDetached ==
  attached /\ state = "DISCONNECTING" => \E g \in Greenlets \ Reqs : Alive(g)

\* BaseNamespace.spawn(), docstring: "If the socket disconnects, all these
\* greenlets are going to be killed".
QuietMeansKilled ==
  (/\ state = "DISCONNECTING" /\ callbacks = {}
   /\ \A g \in Greenlets \ NsJob : g \in Reqs \/ Dead(g))
  => \A j \in NsJob : pc[j] # "run"

=============================================================================
