-------------------------- MODULE VirtSocketProofs --------------------------
(***************************************************************************)
(* Proofs about VirtSocket, for every set of endpoints, requests and       *)
(* payloads and every bound.                                               *)
(***************************************************************************)
EXTENDS VirtSocket, TLAPS

\* The greenlets of the socket, its requests and the jobs are all different.
LEMMA Distinct ==
  /\ Recv \notin Reqs \union NsJob
  /\ Hbt \notin Reqs \union NsJob
  /\ Watch \notin Reqs \union NsJob
  /\ App \notin Reqs \union NsJob
  /\ Reqs \intersect NsJob = {}
  /\ Recv # Hbt /\ Recv # Watch /\ Recv # App
  /\ Hbt # Watch /\ Hbt # App /\ Watch # App
<1>1. /\ Recv \notin Reqs /\ Hbt \notin Reqs
      /\ Watch \notin Reqs /\ App \notin Reqs
  BY VirtSocketAssumption DEF Recv, Hbt, Watch, App, Reqs, Roles
<1>2. /\ Recv \notin NsJob /\ Hbt \notin NsJob
      /\ Watch \notin NsJob /\ App \notin NsJob
  BY VirtSocketAssumption DEF Recv, Hbt, Watch, App, NsJob, Roles
<1>3. Reqs \intersect NsJob = {}
  BY VirtSocketAssumption DEF Reqs, NsJob
<1>4. /\ Recv # Hbt /\ Recv # Watch /\ Recv # App
      /\ Hbt # Watch /\ Hbt # App /\ Watch # App
  BY DEF Recv, Hbt, Watch, App
<1> QED BY <1>1, <1>2, <1>3, <1>4

\* What the teardown helpers do to the control state of a greenlet.
LEMMA KillAllType ==
  ASSUME ControlOK, NEW g \in Greenlets, NEW victims \in SUBSET Greenlets,
         NEW at \in Blocked, NEW f \in Frames, KillAll(g, victims, at, f)
  PROVE  ControlOK'
<1>1. pc' \in [Greenlets -> Pcs]
  BY DEF ControlOK, KillAll, Blocked, Pcs
<1>2. [f EXCEPT !.wait = victims] \in Frames
  BY DEF Frames
<1>3. frame' \in [Greenlets -> Frames]
  BY <1>2 DEF ControlOK, KillAll
<1>4. callbacks' \subseteq [victims : SUBSET Greenlets, by : Greenlets, at : Blocked]
  BY DEF ControlOK, KillAll, Callback
<1> QED BY <1>1, <1>3, <1>4 DEF ControlOK

\* The stacks that the actions build are stacks, and what follows their loop.
LEMMA FramesFacts ==
  /\ NoFrame \in Frames /\ NoFrame.after = "idle"
  /\ \A todo \in SUBSET Inst, aft \in Resumes \union {"detach", "reap"} :
       LET f == [NoFrame EXCEPT !.todo = todo, !.after = aft]
       IN  f \in Frames /\ f.after = aft
  /\ \A o \in Inst, aft \in Resumes :
       LET f == [NoFrame EXCEPT !.ns = o, !.after = aft]
       IN  f \in Frames /\ f.after = aft
  /\ \A f \in Frames, victims \in SUBSET Greenlets :
       LET h == [f EXCEPT !.wait = victims]
       IN  h \in Frames /\ h.after = f.after
  /\ \A f \in Frames :
       LET h == [f EXCEPT !.ns = NoNs, !.wait = {}]
       IN  h \in Frames /\ h.after = f.after
  /\ \A f \in Frames, o \in Inst :
       LET h == [f EXCEPT !.ns = o, !.todo = @ \ {o}]
       IN  h \in Frames /\ h.after = f.after
BY DEF NoFrame, Frames, Resumes

\* StartLoop, the first step of a disconnect() loop, keeps the control well typed.
LEMMA StartLoopType ==
  ASSUME ControlOK, active_ns \subseteq Inst, NEW g \in Greenlets,
         NEW aft \in Resumes \union {"detach", "reap"}, StartLoop(g, aft)
  PROVE  ControlOK'
BY FramesFacts DEF ControlOK, StartLoop, Pcs

\* kill_local_jobs() keeps the control well typed.
LEMMA KillLocalJobsType ==
  ASSUME ControlOK, listed \subseteq NsJob, NEW g \in Greenlets,
         NEW f \in Frames, KillLocalJobs(g, f)
  PROVE  ControlOK'
<1>1. CASE NsJobs(f.ns) = {}
  BY <1>1, FramesFacts DEF ControlOK, KillLocalJobs, Pcs
<1>2. CASE NsJobs(f.ns) # {}
  <2>1. NsJobs(f.ns) \in SUBSET Greenlets /\ "local" \in Blocked
    BY DEF NsJobs, Greenlets, Blocked
  <2>2. KillAll(g, NsJobs(f.ns), "local", f)
    BY <1>2 DEF KillLocalJobs
  <2> QED BY <2>1, <2>2, KillAllType
<1> QED BY <1>1, <1>2

\* BaseNamespace.disconnect() keeps every type.
LEMMA NsDisconnectType ==
  ASSUME TypeOK, NEW g \in Greenlets, NEW f \in Frames, NsDisconnect(g, f)
  PROVE  TypeOK'
<1>1. /\ active_ns' \subseteq Inst
      /\ UNCHANGED <<connection_established, jobs, born, listed, timeout, sent, cur>>
  BY DEF NsDisconnect, TypeOK, Others
<1>2. CASE active_ns' = {} /\ Connected
  <2>1. KillAll(g, jobs, "kill", f)
    BY <1>2 DEF NsDisconnect
  <2>2. ControlOK'
    BY <2>1, KillAllType DEF TypeOK, Greenlets, Blocked
  <2>3. state' = "DISCONNECTING" /\ server_queue' = Append(server_queue, None)
        /\ attached' = FALSE
    BY <1>2 DEF NsDisconnect
  <2>4. server_queue' \in Seq(Packets \union {None})
    BY <2>3 DEF TypeOK
  <2> QED BY <1>1, <2>2, <2>3, <2>4 DEF TypeOK
<1>3. CASE ~(active_ns' = {} /\ Connected)
  <2>1. KillLocalJobs(g, f) /\ UNCHANGED <<state, server_queue, attached>>
    BY <1>3 DEF NsDisconnect
  <2>2. ControlOK'
    BY <2>1, KillLocalJobsType DEF TypeOK
  <2> QED BY <1>1, <2>1, <2>2 DEF TypeOK
<1> QED BY <1>2, <1>3

\* The end of kill() keeps the control well typed.
LEMMA DetachAndKillJobsType ==
  ASSUME ControlOK, jobs \subseteq {Recv, Hbt}, NEW g \in Greenlets, DetachAndKillJobs(g)
  PROVE  ControlOK' /\ attached' \in BOOLEAN
<1>1. jobs \in SUBSET Greenlets /\ "end" \in Blocked
  BY DEF Greenlets, Blocked
<1> QED BY <1>1, KillAllType, FramesFacts DEF DetachAndKillJobs

\* kill() keeps every type.
LEMMA KillType ==
  ASSUME TypeOK, NEW g \in Greenlets, Kill(g),
         g = Recv /\ pc[g] = "get" => server_queue # <<>>
  PROVE  TypeOK'
<1>1. UNCHANGED <<connection_established, jobs, nsVars, timeout, sent, cur>>
  BY DEF Kill
<1>2. /\ state' \in {"NEW", "CONNECTED", "DISCONNECTING"}
      /\ server_queue' \in Seq(Packets \union {None})
  BY DEF Kill, TypeOK
<1>3. ControlOK' /\ attached' \in BOOLEAN
  <2>1. CASE DetachAndKillJobs(g)
    BY <2>1, DetachAndKillJobsType DEF TypeOK
  <2>2. CASE StartLoop(g, "detach") /\ UNCHANGED attached
    BY <2>2, StartLoopType DEF TypeOK
  <2> QED BY <2>1, <2>2 DEF Kill
<1> QED BY <1>1, <1>2, <1>3 DEF TypeOK, nsVars

\* process_packet() keeps the types of the control and of the current packet.
LEMMA ProcessType ==
  ASSUME ControlOK, NEW o \in Inst, NEW type \in PacketTypes \union {"None"}, Process(o, type)
  PROVE  ControlOK' /\ cur' \in [type : PacketTypes \union {"None"}, ns : Inst \union {NoNs}]
<1>1. [NoFrame EXCEPT !.todo = {o}, !.after = "handler"] \in Frames
  BY FramesFacts DEF Resumes
<1>2. cur' \in [type : PacketTypes \union {"None"}, ns : Inst \union {NoNs}]
  BY DEF Process
<1> QED BY <1>1, <1>2 DEF Process, ControlOK, Pcs

\* Every step keeps every type.
LEMMA TypeStep == TypeOK /\ InUserCode /\ [Next]_vars => TypeOK'
<1> SUFFICES ASSUME TypeOK, InUserCode, [Next]_vars PROVE TypeOK'
  OBVIOUS
<1>u. CASE UNCHANGED vars
  BY <1>u DEF TypeOK, ControlOK, vars, sockVars, nsVars, inVars, ctlVars
<1>1. ASSUME NEW r \in Reqs, ReqConnect(r) PROVE TypeOK'
  BY Distinct, <1>1 DEF ReqConnect, TypeOK, ControlOK, Greenlets, Pcs, sockVars, nsVars, inVars, ctlVars
<1>2. ASSUME NEW r \in Reqs, ReqEstablish(r) PROVE TypeOK'
  <2>1. CASE connection_established
    BY <1>2, <2>1, Distinct DEF ReqEstablish, TypeOK, ControlOK, Greenlets, Pcs, sockVars, nsVars, inVars, ctlVars
  <2>2. CASE ~connection_established
    <3>1. pc' \in [Greenlets -> Pcs]
      BY <1>2, <2>2 DEF ReqEstablish, TypeOK, ControlOK, Pcs
    <3>2. UNCHANGED <<frame, callbacks>> /\ ControlOK'
      BY <1>2, <3>1 DEF ReqEstablish, TypeOK, ControlOK, ctlVars
    <3> QED BY <1>2, <2>2, <3>2 DEF ReqEstablish, TypeOK, nsVars, inVars
  <2> QED BY <2>1, <2>2
<1>3. ASSUME NEW r \in Reqs, ReqPost(r) PROVE TypeOK'
  BY Distinct, <1>3 DEF ReqPost, TypeOK, ControlOK, Greenlets, Pcs, sockVars, nsVars, inVars, ctlVars
<1>4. ASSUME NEW r \in Reqs, NEW msgs \in Payloads, ReqDeliver(r, msgs) PROVE TypeOK'
  BY Distinct, VirtSocketAssumption, <1>4 DEF ReqDeliver, TypeOK, ControlOK, Greenlets, Pcs, sockVars, nsVars, inVars, ctlVars
<1>5. ASSUME NEW r \in Reqs, ReqPoll(r) PROVE TypeOK'
  BY Distinct, <1>5 DEF ReqPoll, TypeOK, ControlOK, Greenlets, Pcs, sockVars, nsVars, inVars, ctlVars
<1>6. ASSUME NEW r \in Reqs, ReqDisconnect(r) PROVE TypeOK'
  BY <1>6, Distinct, StartLoopType DEF ReqDisconnect, TypeOK, Greenlets, Resumes, sockVars, nsVars, inVars
<1>7. ASSUME AppManage PROVE TypeOK'
  BY Distinct, <1>7 DEF AppManage, TypeOK, ControlOK, Greenlets, Pcs, sockVars, nsVars, inVars, ctlVars
<1>8. ASSUME RecvSkip PROVE TypeOK'
  BY Distinct, <1>8 DEF RecvSkip, Receiving, TypeOK, ControlOK, Greenlets, Pcs, sockVars, nsVars, inVars, ctlVars
<1>9. ASSUME RecvKill PROVE TypeOK'
  <2>1. server_queue # <<>>
    BY <1>9 DEF RecvKill, Receiving
  <2> QED BY <1>9, <2>1, KillType DEF RecvKill, Greenlets
<1>10. ASSUME RecvDispatch PROVE TypeOK'
  <2>1. PICK m \in Packets, o \in active_ns :
          Routed(m) /\ Name(o) = m.endpoint /\ Process(o, m.type)
    BY <1>10 DEF RecvDispatch
  <2>2. o \in Inst /\ m.type \in PacketTypes
    BY <2>1 DEF TypeOK, Packets
  <2>3. ControlOK' /\ cur' \in [type : PacketTypes \union {"None"}, ns : Inst \union {NoNs}]
    BY <2>1, <2>2, ProcessType DEF TypeOK
  <2>4. server_queue' \in Seq(Packets \union {None})
    BY <2>1 DEF Routed, Receiving, TypeOK
  <2> QED BY <1>10, <2>3, <2>4 DEF RecvDispatch, TypeOK, sockVars, nsVars
<1>11. ASSUME RecvInit PROVE TypeOK'
  <2>1. PICK m \in Packets, k \in 1 .. MaxInstances :
          /\ Routed(m)
          /\ born' = born \union {<<m.endpoint, k>>}
          /\ cur' = [type |-> m.type, ns |-> <<m.endpoint, k>>]
    BY <1>11 DEF RecvInit
  <2>2. <<m.endpoint, k>> \in Inst /\ m.type \in PacketTypes
    BY <2>1 DEF Routed, Inst, Packets
  <2>3. server_queue' \in Seq(Packets \union {None})
    BY <2>1 DEF Routed, Receiving, TypeOK
  <2>4. ControlOK'
    BY <1>11 DEF RecvInit, TypeOK, ControlOK, Pcs, ctlVars
  <2> QED BY <1>11, <2>1, <2>2, <2>3, <2>4 DEF RecvInit, TypeOK, sockVars
<1>12. ASSUME RecvRegister PROVE TypeOK'
  <2>1. cur.ns \in Inst /\ cur.type \in PacketTypes \union {"None"}
    BY <1>12 DEF RecvRegister, InUserCode, TypeOK
  <2>2. ControlOK' /\ cur' \in [type : PacketTypes \union {"None"}, ns : Inst \union {NoNs}]
    BY <1>12, <2>1, ProcessType DEF RecvRegister, TypeOK
  <2> QED BY <1>12, <2>1, <2>2 DEF RecvRegister, TypeOK, sockVars, inVars, Others
<1>13. ASSUME HandlerReturn PROVE TypeOK'
  <2>1. CASE Connected
    BY <1>13, <2>1, Distinct DEF HandlerReturn, TypeOK, ControlOK, NoPacket, Pcs, sockVars, nsVars, inVars, ctlVars
  <2>2. CASE ~Connected
    BY <1>13, <2>2, KillType DEF HandlerReturn, Greenlets
  <2> QED BY <2>1, <2>2
<1>14. ASSUME HandlerRaise PROVE TypeOK'
  BY <1>14, Distinct DEF HandlerRaise, TypeOK, ControlOK, NoPacket, Pcs, sockVars, nsVars, inVars, ctlVars
<1>30. ASSUME RecvInvalid PROVE TypeOK'
  BY <1>30, Distinct DEF RecvInvalid, Receiving, TypeOK, ControlOK, Pcs, Greenlets, sockVars, nsVars, inVars, ctlVars
<1>31. ASSUME NEW g \in Greenlets, DisconnectRaise(g) PROVE TypeOK'
  <2>1. NoFrame \in Frames /\ NoPacket \in [type : PacketTypes \union {"None"}, ns : Inst \union {NoNs}]
    BY FramesFacts DEF NoPacket
  <2> QED BY <1>31, <2>1 DEF DisconnectRaise, TypeOK, ControlOK, Pcs, sockVars, nsVars, inVars
<1>15. ASSUME NEW g \in {Recv} \union NsJob, NEW o \in Inst, NEW j \in NsJob, UserSpawn(g, o, j) PROVE TypeOK'
  BY Distinct, <1>15 DEF UserSpawn, TypeOK, ControlOK, Greenlets, Pcs, sockVars, nsVars, inVars, ctlVars
<1>16. ASSUME NEW g \in {Recv} \union NsJob, NEW o \in Inst, UserDisconnect(g, o) PROVE TypeOK'
  <2>1. g \in Greenlets /\ pc[g] \in Resumes
    BY <1>16 DEF UserDisconnect, RunsFor, Greenlets, Resumes
  <2>2. [NoFrame EXCEPT !.ns = o, !.after = pc[g]] \in Frames
    BY <2>1, FramesFacts
  <2> QED BY <1>16, <2>1, <2>2, NsDisconnectType DEF UserDisconnect
<1>17. ASSUME UserDisconnectAll PROVE TypeOK'
  BY <1>17, StartLoopType DEF UserDisconnectAll, TypeOK, Greenlets, Resumes, sockVars, nsVars, inVars
<1>18. ASSUME NEW j \in NsJob, JobEnd(j) PROVE TypeOK'
  BY Distinct, <1>18 DEF JobEnd, TypeOK, ControlOK, Greenlets, Pcs, sockVars, nsVars, inVars, ctlVars
<1>19. ASSUME NEW j \in NsJob, JobDie(j) PROVE TypeOK'
  BY Distinct, <1>19 DEF JobDie, TypeOK, ControlOK, Greenlets, Pcs, sockVars, nsVars, inVars, ctlVars
<1>20. ASSUME NEW g \in Greenlets, DisconnectNext(g) PROVE TypeOK'
  <2>1. PICK o \in frame[g].todo :
          NsDisconnect(g, [frame[g] EXCEPT !.ns = o, !.todo = @ \ {o}])
    BY <1>20 DEF DisconnectNext
  <2>2. frame[g] \in Frames /\ o \in Inst
    BY <1>20, <2>1 DEF TypeOK, ControlOK, Frames
  <2>3. [frame[g] EXCEPT !.ns = o, !.todo = @ \ {o}] \in Frames
    BY <2>2, FramesFacts
  <2> QED BY <1>20, <2>1, <2>3, NsDisconnectType
<1>21. ASSUME NEW g \in Greenlets, FinishLoop(g) PROVE TypeOK'
  <2>1. UNCHANGED <<state, connection_established, jobs, nsVars, inVars, cur>>
    BY <1>21 DEF FinishLoop
  <2>2. CASE frame[g].after \in Resumes /\ pc' = [pc EXCEPT ![g] = frame[g].after]
             /\ frame' = [frame EXCEPT ![g] = NoFrame] /\ UNCHANGED <<attached, callbacks>>
    BY <1>21, <2>1, <2>2, FramesFacts DEF TypeOK, ControlOK, Resumes, Pcs, nsVars, inVars
  <2>3. CASE DetachAndKillJobs(g)
    BY <1>21, <2>1, <2>3, DetachAndKillJobsType DEF TypeOK, nsVars, inVars
  <2>4. CASE KillAll(g, jobs, "end", NoFrame) /\ UNCHANGED attached
    <3>1. jobs \in SUBSET Greenlets /\ "end" \in Blocked
      BY DEF TypeOK, Greenlets, Blocked
    <3>2. ControlOK'
      BY <1>21, <2>4, <3>1, KillAllType, FramesFacts DEF TypeOK
    <3> QED BY <2>1, <2>4, <3>2 DEF TypeOK, nsVars, inVars
  <2> QED BY <1>21, <2>2, <2>3, <2>4 DEF FinishLoop
<1>22. ASSUME NEW g \in Greenlets, ResumeKill(g) PROVE TypeOK'
  <2>1. ControlOK'
    BY <1>22, KillLocalJobsType DEF ResumeKill, TypeOK, ControlOK
  <2> QED BY <1>22, <2>1 DEF ResumeKill, TypeOK, sockVars, nsVars, inVars
<1>23. ASSUME NEW g \in Greenlets, ResumeLocal(g) PROVE TypeOK'
  <2>1. pc' \in [Greenlets -> Pcs]
    BY <1>23 DEF ResumeLocal, TypeOK, ControlOK, Pcs
  <2>2. frame' \in [Greenlets -> Frames]
    <3>1. frame[g] \in Frames
      BY <1>23 DEF TypeOK, ControlOK
    <3>2. \/ frame' = [frame EXCEPT ![g] = [frame[g] EXCEPT !.ns = NoNs, !.wait = {}]]
          \/ frame' = [frame EXCEPT ![g] = NoFrame]
      BY <1>23 DEF ResumeLocal
    <3>3. [frame[g] EXCEPT !.ns = NoNs, !.wait = {}] \in Frames /\ NoFrame \in Frames
      BY <3>1, FramesFacts
    <3> QED BY <3>2, <3>3 DEF TypeOK, ControlOK
  <2> QED BY <1>23, <2>1, <2>2 DEF ResumeLocal, TypeOK, ControlOK, sockVars, inVars
<1>24. ASSUME NEW g \in Greenlets, EndKill(g) PROVE TypeOK'
  BY <1>24, FramesFacts DEF EndKill, TypeOK, ControlOK, Pcs, sockVars, nsVars, inVars
<1>25. ASSUME NEW c \in callbacks, RunCallback(c) PROVE TypeOK'
  <2> DEFINE alive == {v \in c.victims : ~Dead(v)}
             exiting == {v \in alive : pc[v] = "kill" /\ NsJobs(frame[v].ns) # {}}
  <2>1. c.victims \subseteq Greenlets /\ \A v \in Greenlets : NsJobs(frame[v].ns) \in SUBSET Greenlets
    BY <1>25 DEF TypeOK, ControlOK, NsJobs, Greenlets
  <2>2. pc' \in [Greenlets -> Pcs]
    <3>1. PICK slow : pc' = [g \in Greenlets |->
                     CASE g \notin alive  -> pc[g]
                       [] g \in exiting   -> "exit"
                       [] g \in slow      -> "dying"
                       [] OTHER           -> "dead"]
      BY <1>25 DEF RunCallback
    <3>2. \A g \in Greenlets : pc[g] \in Pcs
      BY DEF TypeOK, ControlOK
    <3>3. {"exit", "dying", "dead"} \subseteq Pcs
      BY DEF Pcs, Blocked
    <3> HIDE DEF alive, exiting
    <3> QED BY <3>1, <3>2, <3>3
  <2>3. frame' \in [Greenlets -> Frames]
    <3>1. frame' = [g \in Greenlets |->
                     CASE g \notin alive  -> frame[g]
                       [] g \in exiting   -> [frame[g] EXCEPT !.wait = NsJobs(frame[g].ns)]
                       [] OTHER           -> NoFrame]
      BY <1>25 DEF RunCallback
    <3>2. \A g \in Greenlets : frame[g] \in Frames
      BY DEF TypeOK, ControlOK
    <3>3. \A g \in Greenlets : [frame[g] EXCEPT !.wait = NsJobs(frame[g].ns)] \in Frames
      BY <2>1, <3>2, FramesFacts
    <3> HIDE DEF alive, exiting
    <3> QED BY <3>1, <3>2, <3>3, FramesFacts
  <2>4. callbacks' \subseteq [victims : SUBSET Greenlets, by : Greenlets, at : Blocked]
    BY <1>25, <2>1 DEF RunCallback, TypeOK, ControlOK, Callback, Blocked
  <2>5. cur' \in [type : PacketTypes \union {"None"}, ns : Inst \union {NoNs}]
    BY <1>25 DEF RunCallback, TypeOK, NoPacket
  <2> QED BY <1>25, <2>2, <2>3, <2>4, <2>5 DEF RunCallback, TypeOK, ControlOK, sockVars, nsVars, inVars
<1>26. ASSUME HbtArm PROVE TypeOK'
  BY Distinct, <1>26 DEF HbtArm, TypeOK, ControlOK, Greenlets, Pcs, sockVars, nsVars, inVars, ctlVars
<1>27. ASSUME HbtWake PROVE TypeOK'
  BY Distinct, <1>27 DEF HbtWake, TypeOK, ControlOK, Greenlets, Pcs, sockVars, nsVars, inVars, ctlVars
<1>28. ASSUME HbtExpire PROVE TypeOK'
  <2>1. CASE Connected
    BY <1>28, <2>1, KillType, Distinct DEF HbtExpire, Greenlets
  <2>2. CASE ~Connected
    BY <1>28, <2>2 DEF HbtExpire, TypeOK, ControlOK, Pcs, sockVars, nsVars, inVars, ctlVars
  <2> QED BY <2>1, <2>2
<1>29. ASSUME WatchWake PROVE TypeOK'
  <2>1. CASE StartLoop(Watch, "reap")
    BY <1>29, <2>1, StartLoopType DEF WatchWake, TypeOK, Greenlets, sockVars, nsVars, inVars
  <2>2. CASE KillAll(Watch, jobs, "end", NoFrame)
    <3>1. jobs \in SUBSET Greenlets /\ "end" \in Blocked
      BY DEF TypeOK, Greenlets, Blocked
    <3>2. ControlOK'
      BY <2>2, <3>1, KillAllType, FramesFacts DEF TypeOK, Greenlets
    <3> QED BY <1>29, <3>2 DEF WatchWake, TypeOK, sockVars, nsVars, inVars
  <2> QED BY <1>29, <2>1, <2>2 DEF WatchWake
<1> QED
  BY <1>u, <1>1, <1>2, <1>3, <1>4, <1>5, <1>6, <1>7, <1>8, <1>9, <1>10, <1>11, <1>12, <1>13, <1>14, <1>15, <1>16, <1>17, <1>18, <1>19, <1>20, <1>21, <1>22, <1>23, <1>24, <1>25, <1>26, <1>27, <1>28, <1>29, <1>30, <1>31
  DEF Next, Client, User, System, Receive, Heart, Hub, Teardown

-----------------------------------------------------------------------------
(* What a helper changes, as the invariants see it. *)

\* Only g's place and stack change.
OnlyMoves(g) == \A h \in Greenlets \ {g} : pc'[h] = pc[h] /\ frame'[h] = frame[h]

\* gevent.killall() parks its caller, on top of the stack it had.
LEMMA KillAllMoves ==
  ASSUME ControlOK, NEW g \in Greenlets, NEW victims \in SUBSET Greenlets,
         NEW at, NEW f \in Frames, KillAll(g, victims, at, f)
  PROVE  OnlyMoves(g) /\ pc'[g] = at /\ frame'[g].after = f.after
<1> DEFINE h == [f EXCEPT !.wait = victims]
<1>1. h.after = f.after
  BY FramesFacts
<1>2. pc' = [pc EXCEPT ![g] = at] /\ frame' = [frame EXCEPT ![g] = h]
  BY DEF KillAll
<1> HIDE DEF h
<1>3. frame'[g] = h
  BY <1>2 DEF ControlOK
<1> QED BY <1>1, <1>2, <1>3 DEF ControlOK, OnlyMoves

\* A disconnect() loop remembers what follows it.
LEMMA StartLoopMoves ==
  ASSUME TypeOK, NEW g \in Greenlets,
         NEW aft \in Resumes \union {"detach", "reap"}, StartLoop(g, aft)
  PROVE  OnlyMoves(g) /\ pc'[g] = "disc" /\ frame'[g].after = aft
<1> DEFINE h == [NoFrame EXCEPT !.todo = active_ns, !.after = aft]
<1>0. active_ns \in SUBSET Inst
  BY DEF TypeOK
<1>1. h.after = aft
  BY <1>0, FramesFacts
<1>2. pc' = [pc EXCEPT ![g] = "disc"] /\ frame' = [frame EXCEPT ![g] = h]
  BY DEF StartLoop
<1> HIDE DEF h
<1>3. frame'[g] = h
  BY <1>2 DEF TypeOK, ControlOK
<1> QED BY <1>1, <1>2, <1>3 DEF TypeOK, ControlOK, OnlyMoves

\* kill_local_jobs() returns into the loop, or blocks in killall.
LEMMA KillLocalJobsMoves ==
  ASSUME TypeOK, NEW g \in Greenlets, NEW f \in Frames, KillLocalJobs(g, f)
  PROVE  OnlyMoves(g) /\ pc'[g] \in {"disc", "local"} /\ frame'[g].after = f.after
<1> DEFINE h == [f EXCEPT !.ns = NoNs, !.wait = {}]
<1>1. h.after = f.after
  BY FramesFacts
<1>2. CASE NsJobs(f.ns) = {}
  <2>1. pc' = [pc EXCEPT ![g] = "disc"] /\ frame' = [frame EXCEPT ![g] = h]
    BY <1>2 DEF KillLocalJobs
  <2> HIDE DEF h
  <2>2. frame'[g] = h
    BY <2>1 DEF TypeOK, ControlOK
  <2> QED BY <1>1, <2>1, <2>2 DEF TypeOK, ControlOK, OnlyMoves
<1>3. CASE NsJobs(f.ns) # {}
  <2>1. KillAll(g, NsJobs(f.ns), "local", f)
    BY <1>3 DEF KillLocalJobs
  <2>2. NsJobs(f.ns) \in SUBSET Greenlets
    BY DEF NsJobs, Greenlets, TypeOK
  <2> HIDE DEF h
  <2> QED BY <2>1, <2>2, KillAllMoves DEF TypeOK
<1> QED BY <1>2, <1>3

\* process_packet() leads to user code of the Namespace that gets the packet.
LEMMA ProcessMoves ==
  ASSUME TypeOK, NEW o \in Inst, NEW type \in PacketTypes \union {"None"}, Process(o, type)
  PROVE  /\ OnlyMoves(Recv) /\ cur'.ns = o /\ UNCHANGED callbacks
         /\ \/ pc'[Recv] = "handler" /\ frame'[Recv] = frame[Recv]
            \/ pc'[Recv] = "disc" /\ frame'[Recv].after = "handler"
<1> DEFINE h == [NoFrame EXCEPT !.todo = {o}, !.after = "handler"]
<1>0. {o} \in SUBSET Inst /\ "handler" \in Resumes \union {"detach", "reap"}
  BY DEF Resumes
<1>1. h.after = "handler" /\ Recv \in Greenlets
  BY <1>0, FramesFacts DEF Greenlets
<1>2. cur' = [type |-> type, ns |-> o] /\ UNCHANGED callbacks
  BY DEF Process
<1>3. CASE pc' = [pc EXCEPT ![Recv] = "handler"] /\ UNCHANGED frame
  BY <1>1, <1>2, <1>3 DEF TypeOK, ControlOK, OnlyMoves
<1>4. CASE pc' = [pc EXCEPT ![Recv] = "disc"] /\ frame' = [frame EXCEPT ![Recv] = h]
  <2> HIDE DEF h
  <2>1. frame'[Recv] = h
    BY <1>1, <1>4 DEF TypeOK, ControlOK
  <2> QED BY <1>1, <1>2, <1>4, <2>1 DEF TypeOK, ControlOK, OnlyMoves
<1> QED BY <1>3, <1>4 DEF Process

-----------------------------------------------------------------------------
(* The invariant. *)

\* The part of IInv that is not about types.
Rest == /\ Established /\ Fresh /\ Closing /\ ThrownInto /\ InUserCode
        /\ ConnectedAttached /\ Monitored /\ OneKiller

\* kill_local_jobs() keeps the invariant when its caller may be tearing down.
LEMMA KillLocalJobsStep ==
  ASSUME TypeOK, Rest, NEW g \in Greenlets, pc[g] # "none", NEW f \in Frames,
         KillLocalJobs(g, f), UNCHANGED <<sockVars, listed, cur>>,
         active_ns' \subseteq active_ns,
         f.after \in {"detach", "reap"} => state = "DISCONNECTING",
         f.after = "detach" => g \in Killers,
         g \in {Hbt, Watch} => ~Connected,
         g = Recv /\ f.after \in {"init", "handler"} => cur.ns \in Inst
  PROVE  Rest'
<1>1. OnlyMoves(g) /\ pc'[g] \in {"disc", "local"} /\ frame'[g].after = f.after
  BY KillLocalJobsMoves
<1>2. \A c \in callbacks' : c \in callbacks \/ c.victims \subseteq NsJob
  BY DEF KillLocalJobs, KillAll, Callback, NsJobs, TypeOK
<1>3. /\ UNCHANGED <<state, connection_established, attached, cur>>
      /\ Established' /\ ConnectedAttached'
  BY DEF Rest, Established, ConnectedAttached, Connected, sockVars
<1>4. Fresh'
  <2>1. listed = {} => UNCHANGED callbacks
    BY DEF KillLocalJobs, NsJobs
  <2>2. active_ns = {} => active_ns' = {}
    OBVIOUS
  <2> QED BY <1>1, <1>3, <2>1, <2>2 DEF Rest, Fresh, OnlyMoves
<1>5. Closing'
  BY <1>1, <1>3 DEF Rest, Closing, OnlyMoves
<1>6. ThrownInto'
  BY <1>2, <1>3 DEF Rest, ThrownInto
<1>7. InUserCode'
  BY <1>1, <1>3 DEF Rest, InUserCode, Greenlets, OnlyMoves
<1>8. Monitored'
  BY <1>1, <1>3, Distinct DEF Rest, Monitored, Connected, Alive, Greenlets, OnlyMoves
<1>9. OneKiller'
  <2>1. Killers' \subseteq Killers
    BY <1>1 DEF Killers, OnlyMoves
  <2> QED BY <2>1 DEF Rest, OneKiller
<1> QED BY <1>3, <1>4, <1>5, <1>6, <1>7, <1>8, <1>9 DEF Rest


\* BaseNamespace.disconnect() keeps it, whether or not it kills the socket.
LEMMA NsDisconnectStep ==
  ASSUME TypeOK, Rest, NEW g \in Greenlets, pc[g] # "none", NEW f \in Frames,
         NsDisconnect(g, f),
         f.after \in {"detach", "reap"} => state = "DISCONNECTING",
         f.after = "detach" => g \in Killers,
         g \in {Hbt, Watch} => ~Connected,
         g = Recv /\ f.after \in {"init", "handler"} => cur.ns \in Inst
  PROVE  Rest'
<1>1. active_ns' \subseteq active_ns /\ UNCHANGED <<connection_established, jobs, listed, cur>>
  BY DEF NsDisconnect, Others
<1>2. CASE ~(active_ns' = {} /\ Connected)
  <2>1. KillLocalJobs(g, f) /\ UNCHANGED <<state, server_queue, attached>>
    BY <1>2 DEF NsDisconnect
  <2> QED BY <1>1, <2>1, KillLocalJobsStep DEF sockVars
<1>3. CASE active_ns' = {} /\ Connected
  <2>1. /\ state = "CONNECTED" /\ state' = "DISCONNECTING"
        /\ KillAll(g, jobs, "kill", f)
    BY <1>3 DEF NsDisconnect, Connected
  <2>2. OnlyMoves(g) /\ pc'[g] = "kill" /\ frame'[g].after = f.after
    BY <2>1, KillAllMoves DEF TypeOK, Greenlets
  <2>3. \A c \in callbacks' : c \in callbacks \/ c.victims = jobs
    BY <2>1 DEF KillAll, Callback
  <2>4. Established' /\ Fresh' /\ Closing' /\ ConnectedAttached' /\ Monitored'
    BY <1>1, <2>1 DEF Rest, Established, Fresh, Closing, ConnectedAttached, Monitored, Connected
  <2>5. ThrownInto'
    BY <2>1, <2>3 DEF Rest, ThrownInto, TypeOK
  <2>6. InUserCode'
    BY <1>1, <2>2 DEF Rest, InUserCode, Greenlets, OnlyMoves
  <2>7. OneKiller'
    <3>1. \A h \in Killers : state = "DISCONNECTING"
      BY DEF Rest, Closing, Killers
    <3>2. Killers' \subseteq {g}
      BY <2>1, <2>2, <3>1 DEF Killers, OnlyMoves
    <3> QED BY <3>2 DEF OneKiller
  <2> QED BY <2>4, <2>5, <2>6, <2>7 DEF Rest
<1> QED BY <1>2, <1>3

\* kill() keeps it, whether or not the socket is still connected.
LEMMA KillStep ==
  ASSUME TypeOK, Rest, NEW g \in {Recv, Hbt}, pc[g] # "none", Kill(g)
  PROVE  Rest'
<1>1. /\ UNCHANGED <<connection_established, jobs, active_ns, cur>>
      /\ state # "NEW" /\ state' = "DISCONNECTING"
  BY Distinct DEF Kill, Rest, Fresh, Greenlets, Connected, TypeOK, nsVars
<1>2. /\ OnlyMoves(g)
      /\ \/ pc'[g] = "disc" /\ frame'[g].after = "detach" /\ Connected
         \/ pc'[g] = "end"
  <2>1. jobs \in SUBSET Greenlets /\ g \in Greenlets
    BY DEF TypeOK, Greenlets
  <2>2. CASE Connected /\ StartLoop(g, "detach")
    BY <2>1, <2>2, StartLoopMoves
  <2>3. CASE DetachAndKillJobs(g)
    <3>1. KillAll(g, jobs, "end", NoFrame) /\ ControlOK /\ NoFrame \in Frames
      BY <2>3, FramesFacts DEF DetachAndKillJobs, TypeOK
    <3> QED BY <2>1, <3>1, KillAllMoves
  <2> QED BY <2>2, <2>3 DEF Kill
<1>3. \A c \in callbacks' : c \in callbacks \/ c.victims = jobs
  BY DEF Kill, StartLoop, DetachAndKillJobs, KillAll, Callback
<1>4. Established' /\ Fresh' /\ Closing' /\ ConnectedAttached' /\ Monitored'
  BY <1>1 DEF Rest, Established, Fresh, Closing, ConnectedAttached, Monitored, Connected
<1>5. ThrownInto'
  BY <1>1, <1>3 DEF Rest, ThrownInto, TypeOK
<1>6. InUserCode'
  BY <1>1, <1>2 DEF Rest, InUserCode, Greenlets, OnlyMoves
<1>7. OneKiller'
  <2>1. \A h \in Killers : state = "DISCONNECTING"
    BY DEF Rest, Closing, Killers
  <2>2. Killers' \subseteq Killers \/ (Killers = {} /\ Killers' \subseteq {g})
    BY <1>2, <2>1 DEF Killers, Connected, OnlyMoves
  <2> QED BY <2>2 DEF Rest, OneKiller
<1> QED BY <1>4, <1>5, <1>6, <1>7 DEF Rest

\* A loop that starts, for a request, a handler or the watcher.
LEMMA StartLoopStep ==
  ASSUME TypeOK, Rest, NEW g \in Greenlets, NEW aft \in Resumes \union {"reap"},
         StartLoop(g, aft), UNCHANGED <<sockVars, nsVars, cur>>,
         state = "NEW" => g \in Reqs,
         aft = "reap" => state = "DISCONNECTING",
         g \in {Hbt, Watch} => ~Connected,
         g = Recv /\ aft \in {"init", "handler"} => cur.ns \in Inst
  PROVE  Rest'
<1>1. OnlyMoves(g) /\ pc'[g] = "disc" /\ frame'[g].after = aft /\ aft # "detach"
  BY StartLoopMoves DEF Resumes
<1>2. UNCHANGED <<sockVars, nsVars, callbacks, cur>>
  BY DEF StartLoop
<1>3. Established' /\ ConnectedAttached' /\ ThrownInto'
  BY <1>2 DEF Rest, Established, ConnectedAttached, ThrownInto, Connected, sockVars
<1>4. Fresh'
  BY <1>1, <1>2 DEF Rest, Fresh, OnlyMoves, sockVars, nsVars
<1>5. Closing'
  BY <1>1, <1>2 DEF Rest, Closing, OnlyMoves, Resumes, sockVars
<1>6. InUserCode'
  BY <1>1, <1>2 DEF Rest, InUserCode, OnlyMoves, Greenlets
<1>7. Monitored'
  BY <1>1, <1>2 DEF Rest, Monitored, OnlyMoves, Alive, Connected, Greenlets, sockVars
<1>8. OneKiller'
  <2>1. Killers' \subseteq Killers
    BY <1>1 DEF Killers, OnlyMoves
  <2> QED BY <2>1 DEF Rest, OneKiller
<1> QED BY <1>3, <1>4, <1>5, <1>6, <1>7, <1>8 DEF Rest

\* The killall that ends kill() and the watcher.
LEMMA EndStep ==
  ASSUME TypeOK, Rest, NEW g \in Greenlets, KillAll(g, jobs, "end", NoFrame),
         state = "DISCONNECTING",
         UNCHANGED <<state, connection_established, active_ns, cur>>
  PROVE  Rest'
<1>0. jobs \in SUBSET Greenlets /\ ControlOK /\ NoFrame \in Frames /\ NoFrame.after = "idle"
  BY FramesFacts DEF TypeOK, Greenlets
<1>1. OnlyMoves(g) /\ pc'[g] = "end" /\ frame'[g].after = "idle"
  BY <1>0, KillAllMoves
<1>2. \A c \in callbacks' : c \in callbacks \/ c.victims = jobs
  BY DEF KillAll, Callback
<1>3. Established' /\ Fresh' /\ ConnectedAttached' /\ Closing' /\ Monitored'
  BY DEF Rest, Established, Fresh, ConnectedAttached, Closing, Monitored, Connected
<1>4. ThrownInto'
  BY <1>2 DEF Rest, ThrownInto, TypeOK
<1>5. InUserCode'
  BY <1>1 DEF Rest, InUserCode, OnlyMoves, Greenlets
<1>6. OneKiller'
  <2>1. Killers' \subseteq Killers
    BY <1>1 DEF Killers, OnlyMoves
  <2> QED BY <2>1 DEF Rest, OneKiller
<1> QED BY <1>3, <1>4, <1>5, <1>6 DEF Rest

\* A greenlet is back from kill_local_jobs().
LEMMA MoveStep ==
  ASSUME TypeOK, Rest, NEW g \in Greenlets, OnlyMoves(g),
         UNCHANGED <<sockVars, active_ns, callbacks, cur>>,
         listed' \subseteq listed,
         \/ pc[g] = "local" /\ pc'[g] = "disc" /\ frame'[g].after = frame[g].after
         \/ pc[g] = "exit" /\ pc'[g] = "dead" /\ frame'[g].after = "idle"
  PROVE  Rest'
<1>1. Established' /\ ConnectedAttached' /\ ThrownInto'
  BY DEF Rest, Established, ConnectedAttached, ThrownInto, Connected, sockVars
<1>2. Fresh'
  BY DEF Rest, Fresh, OnlyMoves, sockVars
<1>3. Closing'
  BY DEF Rest, Closing, OnlyMoves, sockVars
<1>4. InUserCode'
  BY DEF Rest, InUserCode, OnlyMoves, Greenlets
<1>5. Monitored'
  BY DEF Rest, Monitored, Closing, OnlyMoves, Alive, Connected, Greenlets, sockVars
<1>6. OneKiller'
  <2>1. Killers' \subseteq Killers
    BY DEF Killers, OnlyMoves
  <2> QED BY <2>1 DEF Rest, OneKiller
<1> QED BY <1>1, <1>2, <1>3, <1>4, <1>5, <1>6 DEF Rest

\* The receiver hands a packet to user code.
LEMMA ProcessStep ==
  ASSUME TypeOK, Rest, NEW o \in Inst, NEW type \in PacketTypes \union {"None"},
         Process(o, type), pc[Recv] \in {"get", "init"},
         UNCHANGED <<state, connection_established, attached>>
  PROVE  Rest'
<1>1. /\ OnlyMoves(Recv) /\ cur'.ns = o /\ UNCHANGED callbacks
      /\ \/ pc'[Recv] = "handler" /\ frame'[Recv] = frame[Recv]
         \/ pc'[Recv] = "disc" /\ frame'[Recv].after = "handler"
  BY ProcessMoves
<1>2. Recv \in Greenlets \ Reqs /\ Recv # Hbt /\ Recv # Watch /\ state # "NEW"
  BY Distinct DEF Rest, Fresh, Greenlets
<1>3. Established' /\ ConnectedAttached' /\ ThrownInto' /\ Fresh'
  BY <1>1, <1>2 DEF Rest, Established, ConnectedAttached, ThrownInto, Fresh, Connected
<1>4. Closing'
  BY <1>1, <1>2 DEF Rest, Closing, OnlyMoves
<1>5. InUserCode'
  BY <1>1 DEF InUserCode
<1>6. Monitored'
  BY <1>1, <1>2 DEF Rest, Monitored, OnlyMoves, Alive, Connected, Greenlets
<1>7. OneKiller'
  <2>1. Killers' \subseteq Killers
    BY <1>1 DEF Killers, OnlyMoves
  <2> QED BY <2>1 DEF Rest, OneKiller
<1> QED BY <1>3, <1>4, <1>5, <1>6, <1>7 DEF Rest

\* Every step keeps the part of the invariant that is not about types.
LEMMA RestStep == TypeOK /\ Rest /\ [Next]_vars => Rest'
<1> SUFFICES ASSUME TypeOK, Rest, [Next]_vars PROVE Rest'
  OBVIOUS
<1>u. CASE UNCHANGED vars
  BY <1>u DEF Rest, Established, Fresh, Closing, ThrownInto, InUserCode, ConnectedAttached,
     Monitored, OneKiller, Killers, Connected, Alive, vars, sockVars, nsVars, inVars, ctlVars
<1> USE DEF Rest, TypeOK, ControlOK, Greenlets, Established, Fresh, Closing, ThrownInto,
    InUserCode, ConnectedAttached, Monitored, OneKiller, Killers, Connected, Alive, Dead,
    NoFrame, Resumes, sockVars, nsVars, inVars, ctlVars
<1>1. ASSUME NEW r \in Reqs, ReqConnect(r) PROVE Rest'
  BY <1>1, Distinct DEF ReqConnect
<1>2. ASSUME NEW r \in Reqs, ReqEstablish(r) PROVE Rest'
  BY <1>2, Distinct DEF ReqEstablish
<1>3. ASSUME NEW r \in Reqs, ReqPost(r) PROVE Rest'
  BY <1>3, Distinct DEF ReqPost
<1>4. ASSUME NEW r \in Reqs, NEW msgs \in Payloads, ReqDeliver(r, msgs) PROVE Rest'
  BY <1>4, Distinct DEF ReqDeliver
<1>5. ASSUME NEW r \in Reqs, ReqPoll(r) PROVE Rest'
  BY <1>5, Distinct DEF ReqPoll
<1>6. ASSUME AppManage PROVE Rest'
  BY <1>6, Distinct DEF AppManage
<1>7. ASSUME RecvSkip PROVE Rest'
  BY <1>7, Distinct DEF RecvSkip, Receiving
<1>8. ASSUME HandlerRaise PROVE Rest'
  BY <1>8, Distinct DEF HandlerRaise
<1>30. ASSUME RecvInvalid PROVE Rest'
  BY <1>30, Distinct DEF RecvInvalid, Receiving
<1>31. ASSUME NEW g \in Greenlets, DisconnectRaise(g) PROVE Rest'
  BY <1>31, Distinct DEF DisconnectRaise
<1>9. ASSUME NEW g \in {Recv} \union NsJob, NEW o \in Inst, NEW j \in NsJob, UserSpawn(g, o, j) PROVE Rest'
  BY <1>9, Distinct DEF UserSpawn, RunsFor
<1>10. ASSUME NEW j \in NsJob, JobEnd(j) PROVE Rest'
  BY <1>10, Distinct DEF JobEnd
<1>11. ASSUME NEW j \in NsJob, JobDie(j) PROVE Rest'
  BY <1>11, Distinct DEF JobDie
<1>12. ASSUME NEW g \in Greenlets, EndKill(g) PROVE Rest'
  BY <1>12, Distinct DEF EndKill
<1>13. ASSUME HbtArm PROVE Rest'
  BY <1>13, Distinct DEF HbtArm
<1>14. ASSUME HbtWake PROVE Rest'
  BY <1>14, Distinct DEF HbtWake
<1> HIDE DEF Rest, TypeOK, ControlOK, Greenlets, Established, Fresh, Closing, ThrownInto,
    InUserCode, ConnectedAttached, Monitored, OneKiller, Killers, Connected, Alive, Dead,
    NoFrame, Resumes, sockVars, nsVars, inVars, ctlVars
<1>15. ASSUME NEW r \in Reqs, ReqDisconnect(r) PROVE Rest'
  <2>1. StartLoop(r, "idle") /\ UNCHANGED <<sockVars, nsVars, cur>> /\ r \in Greenlets /\ r \notin {Hbt, Watch, Recv}
    BY <1>15, Distinct DEF ReqDisconnect, Greenlets
  <2> QED BY <2>1, StartLoopStep DEF Resumes
<1>16. ASSUME RecvKill PROVE Rest'
  <2>1. Kill(Recv) /\ pc[Recv] # "none"
    BY <1>16 DEF RecvKill, Receiving
  <2> QED BY <2>1, KillStep
<1>17. ASSUME RecvDispatch PROVE Rest'
  <2>1. PICK m \in Packets, o \in active_ns : Routed(m) /\ Process(o, m.type)
    BY <1>17 DEF RecvDispatch
  <2>2. pc[Recv] = "get" /\ o \in Inst /\ m.type \in PacketTypes
    BY <2>1 DEF Routed, Receiving, Packets, TypeOK
  <2>3. UNCHANGED <<sockVars, nsVars>>
    BY <1>17 DEF RecvDispatch
  <2> QED BY <2>1, <2>2, <2>3, ProcessStep DEF sockVars, nsVars
<1>18. ASSUME RecvInit PROVE Rest'
  <2>1. PICK m \in Packets, k \in 1 .. MaxInstances :
          Routed(m) /\ cur' = [type |-> m.type, ns |-> <<m.endpoint, k>>]
    BY <1>18 DEF RecvInit
  <2>2. cur'.ns \in Inst
    BY <2>1 DEF Routed, Inst
  <2>3. pc[Recv] = "get" /\ pc' = [pc EXCEPT ![Recv] = "init"]
    BY <1>18, <2>1 DEF RecvInit, Routed, Receiving
  <2>4. UNCHANGED <<sockVars, active_ns, listed, ctlVars>>
    BY <1>18 DEF RecvInit
  <2> USE Distinct DEF Rest, TypeOK, ControlOK, Greenlets, Established, Fresh, Closing, ThrownInto,
          InUserCode, ConnectedAttached, Monitored, OneKiller, Killers, Connected, Alive, Dead,
          NoFrame, Resumes, sockVars, nsVars, inVars, ctlVars
  <2> QED BY <2>2, <2>3, <2>4
<1>19. ASSUME RecvRegister PROVE Rest'
  <2>1. cur.ns \in Inst /\ cur.type \in PacketTypes \union {"None"} /\ pc[Recv] = "init"
    BY <1>19 DEF RecvRegister, Rest, InUserCode, TypeOK
  <2>2. UNCHANGED sockVars /\ Process(cur.ns, cur.type)
    BY <1>19 DEF RecvRegister
  <2> QED BY <2>1, <2>2, ProcessStep DEF sockVars
<1>20. ASSUME HandlerReturn PROVE Rest'
  <2>1. CASE Connected
    <3> USE Distinct DEF Rest, TypeOK, ControlOK, Greenlets, Established, Fresh, Closing, ThrownInto,
            InUserCode, ConnectedAttached, Monitored, OneKiller, Killers, Connected, Alive, Dead,
            NoFrame, Resumes, sockVars, nsVars, inVars, ctlVars
    <3> QED BY <1>20, <2>1 DEF HandlerReturn, NoPacket
  <2>2. CASE ~Connected
    <3>1. Kill(Recv) /\ pc[Recv] # "none"
      BY <1>20, <2>2 DEF HandlerReturn
    <3> QED BY <3>1, KillStep
  <2> QED BY <2>1, <2>2
<1>21. ASSUME NEW g \in {Recv} \union NsJob, NEW o \in Inst, UserDisconnect(g, o) PROVE Rest'
  <2>1. /\ g \in Greenlets /\ g \notin {Hbt, Watch} /\ pc[g] \in Resumes \ {"idle"}
        /\ g = Recv => cur.ns \in Inst
    BY <1>21, Distinct DEF UserDisconnect, RunsFor, Greenlets, Resumes
  <2> DEFINE f == [NoFrame EXCEPT !.ns = o, !.after = pc[g]]
  <2>2. f \in Frames /\ f.after = pc[g]
    BY <2>1, FramesFacts
  <2>3. NsDisconnect(g, f)
    BY <1>21 DEF UserDisconnect
  <2> HIDE DEF f
  <2> QED BY <2>1, <2>2, <2>3, NsDisconnectStep DEF Resumes
<1>22. ASSUME UserDisconnectAll PROVE Rest'
  <2>1. StartLoop(Recv, "handler") /\ UNCHANGED <<sockVars, nsVars, cur>> /\ Recv \in Greenlets /\ Recv \notin {Hbt, Watch} /\ pc[Recv] = "handler"
    BY <1>22, Distinct DEF UserDisconnectAll, Greenlets
  <2>2. cur.ns \in Inst /\ state # "NEW"
    BY <2>1, Distinct DEF Rest, InUserCode, Fresh
  <2> QED BY <2>1, <2>2, StartLoopStep DEF Resumes
<1>23. ASSUME NEW g \in Greenlets, DisconnectNext(g) PROVE Rest'
  <2>1. PICK o \in frame[g].todo :
          NsDisconnect(g, [frame[g] EXCEPT !.ns = o, !.todo = @ \ {o}])
    BY <1>23 DEF DisconnectNext
  <2> DEFINE f == [frame[g] EXCEPT !.ns = o, !.todo = @ \ {o}]
  <2>2. frame[g] \in Frames /\ o \in Inst /\ pc[g] = "disc"
    BY <1>23, <2>1 DEF DisconnectNext, TypeOK, ControlOK, Frames
  <2>3. f \in Frames /\ f.after = frame[g].after /\ NsDisconnect(g, f)
    BY <2>1, <2>2, FramesFacts
  <2> HIDE DEF f
  <2>4. /\ f.after \in {"detach", "reap"} => state = "DISCONNECTING"
        /\ f.after = "detach" => g \in Killers
        /\ g \in {Hbt, Watch} => ~Connected
        /\ g = Recv /\ f.after \in {"init", "handler"} => cur.ns \in Inst
    BY <2>2, <2>3 DEF Rest, Closing, Killers, Monitored, InUserCode
  <2> QED BY <2>2, <2>3, <2>4, NsDisconnectStep
<1>24. ASSUME NEW g \in Greenlets, FinishLoop(g) PROVE Rest'
  <2>1. /\ pc[g] = "disc" /\ UNCHANGED <<state, connection_established, jobs, nsVars, cur>>
        /\ frame[g] \in Frames
    BY <1>24 DEF FinishLoop, TypeOK, ControlOK
  <2>2. CASE /\ frame[g].after \in Resumes /\ pc' = [pc EXCEPT ![g] = frame[g].after]
             /\ frame' = [frame EXCEPT ![g] = NoFrame] /\ UNCHANGED <<attached, callbacks>>
    <3> USE Distinct DEF Rest, TypeOK, ControlOK, Greenlets, Established, Fresh, Closing, ThrownInto,
            InUserCode, ConnectedAttached, Monitored, OneKiller, Killers, Connected, Alive, Dead,
            NoFrame, Resumes, sockVars, nsVars, inVars, ctlVars
    <3> QED BY <2>1, <2>2
  <2>3. CASE frame[g].after \in {"detach", "reap"} /\ KillAll(g, jobs, "end", NoFrame)
    <3>1. state = "DISCONNECTING"
      BY <2>3 DEF Rest, Closing
    <3> QED BY <2>1, <2>3, <3>1, EndStep DEF nsVars
  <2> QED BY <1>24, <2>2, <2>3 DEF FinishLoop, DetachAndKillJobs
<1>25. ASSUME NEW g \in Greenlets, ResumeKill(g) PROVE Rest'
  <2>1. KillLocalJobs(g, frame[g]) /\ UNCHANGED <<sockVars, nsVars, cur>> /\ pc[g] = "kill"
    BY <1>25 DEF ResumeKill
  <2>2. frame[g] \in Frames
    BY DEF TypeOK, ControlOK
  <2>3. /\ state = "DISCONNECTING"
        /\ g \in Killers
        /\ g \in {Hbt, Watch} => ~Connected
        /\ g = Recv /\ frame[g].after \in {"init", "handler"} => cur.ns \in Inst
    BY <2>1 DEF Rest, Closing, Killers, Connected, InUserCode
  <2> QED BY <2>1, <2>2, <2>3, KillLocalJobsStep DEF nsVars
<1>26. ASSUME NEW g \in Greenlets, ResumeLocal(g) PROVE Rest'
  <2> DEFINE f == [frame[g] EXCEPT !.ns = NoNs, !.wait = {}]
  <2>1. frame[g] \in Frames /\ f.after = frame[g].after
    BY FramesFacts DEF TypeOK, ControlOK
  <2>2. /\ listed' \subseteq listed /\ UNCHANGED <<sockVars, active_ns, callbacks, cur>>
        /\ \/ /\ pc[g] = "local" /\ pc' = [pc EXCEPT ![g] = "disc"]
              /\ frame' = [frame EXCEPT ![g] = f]
           \/ /\ pc[g] = "exit" /\ pc' = [pc EXCEPT ![g] = "dead"]
              /\ frame' = [frame EXCEPT ![g] = NoFrame]
    BY <1>26 DEF ResumeLocal
  <2> HIDE DEF f
  <2>3. /\ OnlyMoves(g)
        /\ \/ pc[g] = "local" /\ pc'[g] = "disc" /\ frame'[g].after = frame[g].after
           \/ pc[g] = "exit" /\ pc'[g] = "dead" /\ frame'[g].after = "idle"
    BY <2>1, <2>2, FramesFacts DEF OnlyMoves, TypeOK, ControlOK
  <2> QED BY <2>2, <2>3, MoveStep DEF sockVars
<1>27. ASSUME NEW c \in callbacks, RunCallback(c) PROVE Rest'
  <2> DEFINE alive == {v \in c.victims : ~Dead(v)}
             exiting == {v \in alive : pc[v] = "kill" /\ NsJobs(frame[v].ns) # {}}
             kept(v) == [frame[v] EXCEPT !.wait = NsJobs(frame[v].ns)]
  <2>1. PICK slow \in SUBSET {v \in alive \intersect NsJob : pc[v] = "run"} :
          /\ pc' = [g \in Greenlets |->
                       CASE g \notin alive  -> pc[g]
                         [] g \in exiting   -> "exit"
                         [] g \in slow      -> "dying"
                         [] OTHER           -> "dead"]
          /\ frame' = [g \in Greenlets |->
                       CASE g \notin alive  -> frame[g]
                         [] g \in exiting   -> kept(g)
                         [] OTHER           -> NoFrame]
    BY <1>27 DEF RunCallback
  <2>2. /\ UNCHANGED <<sockVars, nsVars>>
        /\ cur' = IF Recv \in alive THEN NoPacket ELSE cur
        /\ callbacks' = (callbacks \ {c}) \union {Callback(v, NsJobs(frame[v].ns), "exit") : v \in exiting}
    BY <1>27 DEF RunCallback
  <2>3. /\ alive \subseteq c.victims /\ c.victims \subseteq {Recv, Hbt} \union NsJob
        /\ alive \subseteq NsJob \/ state = "DISCONNECTING"
        /\ \A g \in exiting : pc[g] = "kill"
    BY DEF Rest, ThrownInto
  <2>4. \A v \in exiting : kept(v).after = frame[v].after
    <3>1. \A v \in Greenlets : frame[v] \in Frames /\ NsJobs(frame[v].ns) \in SUBSET Greenlets
      BY DEF TypeOK, ControlOK, NsJobs, Greenlets
    <3>2. exiting \subseteq Greenlets
      BY <2>3 DEF Greenlets
    <3> QED BY <3>1, <3>2, FramesFacts
  <2>5. \A k \in callbacks' : k \in callbacks \/ k.victims \subseteq NsJob
    BY <2>2 DEF Callback, NsJobs, TypeOK
  <2>14. exiting \subseteq alive /\ slow \intersect exiting = {}
    OBVIOUS
  <2> HIDE DEF alive, exiting, kept
  <2>6. \A g \in Greenlets :
          \/ g \notin alive /\ pc'[g] = pc[g] /\ frame'[g] = frame[g]
          \/ g \in alive /\ pc'[g] = "exit" /\ frame'[g].after = frame[g].after /\ pc[g] = "kill"
          \/ g \in alive /\ pc'[g] \in {"dying", "dead"} /\ frame'[g].after = "idle"
    <3>1. \A g \in Greenlets \ alive : pc'[g] = pc[g] /\ frame'[g] = frame[g]
      <4> TAKE g \in Greenlets \ alive
      <4>1. frame'[g] = CASE g \notin alive -> frame[g]
                          [] g \in exiting  -> kept(g)
                          [] OTHER          -> NoFrame
        BY <2>1
      <4>2. pc'[g] = pc[g]
        BY <2>1, <2>14
      <4> QED BY <4>1, <4>2, <2>14
    <3>2. \A g \in (alive \ exiting) \intersect Greenlets : frame'[g] = NoFrame
      <4> TAKE g \in (alive \ exiting) \intersect Greenlets
      <4>1. frame'[g] = CASE g \notin alive -> frame[g]
                          [] g \in exiting  -> kept(g)
                          [] OTHER          -> NoFrame
        BY <2>1
      <4> QED BY <4>1
    <3>5. \A g \in (alive \ exiting) \intersect Greenlets : pc'[g] \in {"dying", "dead"}
      <4> TAKE g \in (alive \ exiting) \intersect Greenlets
      <4>1. CASE g \in slow
        BY <2>1, <4>1
      <4>2. CASE g \notin slow
        BY <2>1, <4>2
      <4> QED BY <4>1, <4>2
    <3>3. \A g \in exiting \intersect Greenlets : g \in alive /\ pc'[g] = "exit" /\ pc[g] = "kill"
      BY <2>1, <2>3, <2>14
    <3>4. \A g \in exiting \intersect Greenlets : frame'[g].after = frame[g].after
      BY <2>1, <2>4, <3>3
    <3> QED BY <3>1, <3>2, <3>3, <3>4, <3>5, FramesFacts
  <2>7. Established' /\ ConnectedAttached'
    BY <2>2 DEF Rest, Established, ConnectedAttached, Connected, sockVars
  <2>8. Fresh'
    BY <1>27, <2>2 DEF Rest, Fresh, sockVars
  <2>9. Closing'
    BY <2>2, <2>6 DEF Rest, Closing, sockVars
  <2>10. ThrownInto'
    BY <2>2, <2>5 DEF Rest, ThrownInto, sockVars
  <2>11. InUserCode'
    BY <2>2, <2>6 DEF Rest, InUserCode, Greenlets
  <2>12. Monitored'
    BY <2>2, <2>3, <2>6, Distinct DEF Rest, Monitored, Alive, Connected, Greenlets, sockVars
  <2>13. OneKiller'
    <3>1. Killers' \subseteq Killers
      BY <2>6 DEF Killers
    <3> QED BY <3>1 DEF Rest, OneKiller
  <2> QED BY <2>7, <2>8, <2>9, <2>10, <2>11, <2>12, <2>13 DEF Rest
<1>28. ASSUME HbtExpire PROVE Rest'
  <2>1. CASE Connected
    <3>1. Kill(Hbt) /\ pc[Hbt] # "none"
      BY <1>28, <2>1 DEF HbtExpire
    <3> QED BY <3>1, KillStep
  <2>2. CASE ~Connected
    <3> USE Distinct DEF Rest, TypeOK, ControlOK, Greenlets, Established, Fresh, Closing, ThrownInto,
            InUserCode, ConnectedAttached, Monitored, OneKiller, Killers, Connected, Alive, Dead,
            NoFrame, Resumes, sockVars, nsVars, inVars, ctlVars
    <3> QED BY <1>28, <2>2 DEF HbtExpire
  <2> QED BY <2>1, <2>2
<1>29. ASSUME WatchWake PROVE Rest'
  <2>1. /\ pc[Watch] = "run" /\ state = "DISCONNECTING" /\ UNCHANGED <<sockVars, nsVars, cur>>
        /\ Watch \in Greenlets /\ Watch # Recv
    BY <1>29, Distinct DEF WatchWake, Rest, Fresh, Connected, TypeOK, Greenlets
  <2>2. CASE StartLoop(Watch, "reap")
    BY <2>1, <2>2, StartLoopStep DEF Connected
  <2>3. CASE KillAll(Watch, jobs, "end", NoFrame)
    BY <2>1, <2>3, EndStep DEF sockVars, nsVars
  <2> QED BY <1>29, <2>2, <2>3 DEF WatchWake
<1> QED
  BY <1>u, <1>1, <1>2, <1>3, <1>4, <1>5, <1>6, <1>7, <1>8, <1>9, <1>10, <1>11, <1>12, <1>13, <1>14, <1>15, <1>16, <1>17, <1>18, <1>19, <1>20, <1>21, <1>22, <1>23, <1>24, <1>25, <1>26, <1>27, <1>28, <1>29, <1>30, <1>31
  DEF Next, Client, User, System, Receive, Heart, Hub, Teardown

\* A Socket that Socket.__init__() has just made satisfies the invariant.
LEMMA InitIInv == Init => IInv
<1> SUFFICES ASSUME Init PROVE IInv
  OBVIOUS
<1>1. TypeOK
  <2>1. frame \in [Greenlets -> Frames]
    BY FramesFacts DEF Init
  <2>2. pc \in [Greenlets -> Pcs] /\ \A g \in Greenlets : pc[g] \in {"idle", "none"}
    BY DEF Init, Pcs
  <2>3. server_queue \in Seq(Packets \union {None}) /\ sent \in Nat
    BY DEF Init
  <2>4. cur \in [type : PacketTypes \union {"None"}, ns : Inst \union {NoNs}]
    BY DEF Init, NoPacket
  <2> QED BY <2>1, <2>2, <2>3, <2>4 DEF Init, TypeOK, ControlOK
<1>2. \A g \in Greenlets : /\ pc[g] = IF g \in Reqs THEN "idle" ELSE "none"
                           /\ frame[g].after = "idle"
  BY FramesFacts DEF Init
<1>3. Recv \in Greenlets
  BY DEF Greenlets
<1> QED BY <1>1, <1>2, <1>3 DEF Init, IInv, Established, Fresh, Closing, ThrownInto, InUserCode,
   ConnectedAttached, Monitored, OneKiller, Killers, Connected

\* The inductive invariant: whatever requests, packets, handlers, jobs, timeouts
\* and killalls do to a Socket, IInv holds at every switch of greenlets.
THEOREM Invariance == Spec => []IInv
<1>1. IInv /\ [Next]_vars => IInv'
  BY TypeStep, RestStep DEF IInv, Rest
<1> QED BY InitIInv, <1>1, PTL DEF Spec

\* The fields of a Socket and its greenlets' control keep their types.
THEOREM TypeCorrect == Spec => []TypeOK
<1>1. IInv => TypeOK
  BY DEF IInv
<1> QED BY Invariance, <1>1, PTL

\* handler.py finds the session of every connected Socket: kill() and
\* remove_namespace() never detach() it before they change its state.
THEOREM ReachableWhileConnected == Spec => []ConnectedAttached
<1>1. IInv => ConnectedAttached
  BY DEF IInv
<1> QED BY Invariance, <1>1, PTL

\* A connected Socket has its _heartbeat_timeout() and its _watcher(), which no
\* killall has thrown into: its end is noticed, and so is a silent client.
THEOREM MonitoredWhileConnected == Spec => []Monitored
<1>1. IInv => Monitored
  BY DEF IInv
<1> QED BY Invariance, <1>1, PTL

\* The test of `connected' in kill() and in remove_namespace() lets one teardown
\* through: no two greenlets run the rest of kill() on one Socket.
THEOREM KilledOnce == Spec => []OneKiller
<1>1. IInv => OneKiller
  BY DEF IInv
<1> QED BY Invariance, <1>1, PTL

-----------------------------------------------------------------------------
(* The refinement. *)

\* The endpoints that the abstract Socket has as its members.
Members == {Name(o) : o \in active_ns}

\* The state of the Socket and the abstract phase stand for each other.
LEMMA PhaseFacts ==
  /\ TypeOK  => /\ Phase = "opening" <=> state = "NEW"
                /\ Phase = "open" <=> state = "CONNECTED"
                /\ Phase = "closing" <=> state = "DISCONNECTING"
  /\ TypeOK' => /\ Phase' = "opening" <=> state' = "NEW"
                /\ Phase' = "open" <=> state' = "CONNECTED"
                /\ Phase' = "closing" <=> state' = "DISCONNECTING"
<1>1. /\ state = "NEW" => Phase = "opening"
      /\ state = "CONNECTED" => Phase = "open"
      /\ state = "DISCONNECTING" => Phase = "closing"
  BY DEF Phase
<1>2. /\ state' = "NEW" => Phase' = "opening"
      /\ state' = "CONNECTED" => Phase' = "open"
      /\ state' = "DISCONNECTING" => Phase' = "closing"
  BY DEF Phase
<1> QED BY <1>1, <1>2 DEF TypeOK

\* BaseNamespace.disconnect() is a Leave, or a LeaveLast.
LEMMA NsDisconnectLeaves ==
  ASSUME IInv, TypeOK', NEW g \in Greenlets, NEW f \in Frames, f.ns \in Inst, NsDisconnect(g, f)
  PROVE  [Lifecycle!LifeNext]_(Lifecycle!lifeVars)
<1> DEFINE n == Name(f.ns)
<1>1. n \in Names
  BY DEF Name, Inst
<1>2. active_ns' = {i \in active_ns : Name(i) # n}
  BY DEF NsDisconnect, Others
<1>3. Members' = Members \ {n}
  BY <1>2 DEF Members
<1>4. active_ns' = {} <=> Members' = {}
  BY DEF Members
<1> HIDE DEF n
<1>5. TypeOK
  BY DEF IInv
<1>6. CASE active_ns' = {} /\ Connected
  <2>1. state' = "DISCONNECTING" /\ attached' = FALSE
    BY <1>6 DEF NsDisconnect
  <2>2. Phase = "open" /\ Phase' = "closing"
    BY <1>5, <1>6, <2>1, PhaseFacts DEF Connected
  <2>3. Lifecycle!LeaveLast(n)
    BY <1>3, <1>4, <1>6, <2>1, <2>2 DEF Lifecycle!LeaveLast, Members
  <2> QED BY <1>1, <2>3 DEF Lifecycle!LifeNext
<1>7. CASE ~(active_ns' = {} /\ Connected)
  <2>1. UNCHANGED <<state, attached>>
    BY <1>7 DEF NsDisconnect
  <2>2. UNCHANGED Phase
    BY <2>1 DEF Phase
  <2>3. CASE state = "NEW"
    <3>1. active_ns = {} /\ active_ns' = {}
      BY <1>2, <2>3 DEF IInv, Fresh
    <3> QED BY <2>1, <2>2, <3>1 DEF Lifecycle!lifeVars
  <2>4. CASE state # "NEW"
    <3>1. Phase # "opening" /\ (Phase = "open" => Members' # {})
      BY <1>4, <1>5, <1>7, <2>4, PhaseFacts DEF Connected
    <3>2. Lifecycle!Leave(n)
      BY <1>3, <2>1, <2>2, <3>1 DEF Lifecycle!Leave, Members
    <3> QED BY <1>1, <3>2 DEF Lifecycle!LifeNext
  <2> QED BY <2>3, <2>4
<1> QED BY <1>6, <1>7

\* kill() is a Close when it takes a connected socket down, or a Forget.
LEMMA KillCloses ==
  ASSUME IInv, TypeOK', NEW g \in {Recv, Hbt}, pc[g] # "none", Kill(g)
  PROVE  [Lifecycle!LifeNext]_(Lifecycle!lifeVars)
<1>1. TypeOK /\ state # "NEW" /\ UNCHANGED active_ns
  BY Distinct DEF IInv, Fresh, Greenlets, Kill, nsVars
<1>2. UNCHANGED Members
  BY <1>1 DEF Members
<1>3. CASE Connected
  <2>1. state' = "DISCONNECTING" /\ attached
    BY <1>3 DEF Kill, IInv, ConnectedAttached
  <2>2. Phase = "open" /\ Phase' = "closing"
    BY <1>1, <1>3, <2>1, PhaseFacts DEF Connected
  <2>3. attached' = (attached /\ Members # {})
    <3>1. IF active_ns # {} THEN UNCHANGED attached ELSE attached' = FALSE
      BY <1>3 DEF Kill, DetachAndKillJobs
    <3>2. Members = {} <=> active_ns = {}
      BY DEF Members
    <3>3. attached = TRUE
      BY <1>1, <2>1 DEF TypeOK
    <3> QED BY <3>1, <3>2, <3>3
  <2>4. Lifecycle!Close
    BY <1>2, <2>2, <2>3 DEF Lifecycle!Close, Members
  <2> QED BY <2>4 DEF Lifecycle!LifeNext
<1>4. CASE ~Connected
  <2>1. UNCHANGED state /\ attached' = FALSE /\ Phase = "closing"
    BY <1>1, <1>4, PhaseFacts DEF Kill, DetachAndKillJobs, TypeOK, Connected
  <2>2. Lifecycle!Forget
    BY <1>2, <2>1 DEF Lifecycle!Forget, Phase, Members
  <2> QED BY <2>2 DEF Lifecycle!LifeNext
<1> QED BY <1>3, <1>4

\* Every step of the socket is one of SocketLifecycle, or changes nothing there.
LEMMA LifeStep ==
  IInv /\ TypeOK' /\ [Next]_vars => [Lifecycle!LifeNext]_(Lifecycle!lifeVars)
<1> SUFFICES ASSUME IInv, TypeOK', [Next]_vars
             PROVE  [Lifecycle!LifeNext]_(Lifecycle!lifeVars)
  OBVIOUS
<1> DEFINE Maps == [Lifecycle!LifeNext]_(Lifecycle!lifeVars)
<1>0. TypeOK
  BY DEF IInv
<1>s. ASSUME UNCHANGED <<state, attached, active_ns>> PROVE Maps
  BY <1>s DEF Lifecycle!lifeVars, Phase
<1>1. ASSUME UNCHANGED vars PROVE Maps
  BY <1>1, <1>s DEF vars, sockVars, nsVars
<1>2. ASSUME NEW r \in Reqs, ReqEstablish(r) PROVE Maps
  <2>1. CASE connection_established
    BY <1>2, <2>1, <1>s DEF ReqEstablish, sockVars, nsVars
  <2>2. CASE ~connection_established
    <3>1. /\ state = "NEW" /\ state' = "CONNECTED" /\ UNCHANGED <<attached, active_ns>>
      BY <1>2, <2>2 DEF ReqEstablish, IInv, Established, nsVars
    <3>2. Phase = "opening" /\ Phase' = "open"
      BY <1>0, <3>1, PhaseFacts DEF Connected
    <3>3. Lifecycle!Open
      BY <3>1, <3>2 DEF Lifecycle!Open
    <3> QED BY <3>3 DEF Lifecycle!LifeNext
  <2> QED BY <2>1, <2>2
<1>3. ASSUME RecvKill PROVE Maps
  <2>1. Kill(Recv) /\ pc[Recv] # "none"
    BY <1>3 DEF RecvKill, Receiving
  <2> QED BY <2>1, KillCloses
<1>4. ASSUME HandlerReturn PROVE Maps
  <2>1. CASE Connected
    BY <1>4, <2>1, <1>s DEF HandlerReturn, sockVars, nsVars
  <2>2. CASE ~Connected
    <3>1. Kill(Recv) /\ pc[Recv] # "none"
      BY <1>4, <2>2 DEF HandlerReturn
    <3> QED BY <3>1, KillCloses
  <2> QED BY <2>1, <2>2
<1>5. ASSUME HbtExpire PROVE Maps
  <2>1. CASE Connected
    <3>1. Kill(Hbt) /\ pc[Hbt] # "none"
      BY <1>5, <2>1 DEF HbtExpire
    <3> QED BY <3>1, KillCloses
  <2>2. CASE ~Connected
    BY <1>5, <2>2, <1>s DEF HbtExpire, sockVars, nsVars
  <2> QED BY <2>1, <2>2
<1>6. ASSUME RecvRegister PROVE Maps
  <2>1. cur.ns \in Inst /\ Name(cur.ns) \in Names /\ state # "NEW"
    BY <1>6, Distinct DEF RecvRegister, IInv, InUserCode, Fresh, Greenlets, Name, Inst
  <2>2. active_ns' = {i \in active_ns : Name(i) # Name(cur.ns)} \union {cur.ns}
    BY <1>6 DEF RecvRegister, Others
  <2>3. Members' = Members \union {Name(cur.ns)}
    BY <2>2 DEF Members
  <2>4. UNCHANGED <<state, attached>> /\ UNCHANGED Phase /\ Phase # "opening"
    BY <1>0, <1>6, <2>1, PhaseFacts DEF RecvRegister, sockVars, Phase
  <2>5. Lifecycle!Join(Name(cur.ns))
    BY <2>3, <2>4 DEF Lifecycle!Join, Members
  <2> QED BY <2>1, <2>5 DEF Lifecycle!LifeNext
<1>7. ASSUME NEW g \in {Recv} \union NsJob, NEW o \in Inst, UserDisconnect(g, o) PROVE Maps
  <2>1. g \in Greenlets /\ pc[g] \in Resumes
    BY <1>7 DEF UserDisconnect, RunsFor, Greenlets, Resumes
  <2> DEFINE f == [NoFrame EXCEPT !.ns = o, !.after = pc[g]]
  <2>2. f \in Frames /\ f.ns = o
    BY <2>1, FramesFacts DEF NoFrame
  <2>3. NsDisconnect(g, f)
    BY <1>7 DEF UserDisconnect
  <2> HIDE DEF f
  <2> QED BY <2>1, <2>2, <2>3, NsDisconnectLeaves
<1>8. ASSUME NEW g \in Greenlets, DisconnectNext(g) PROVE Maps
  <2>1. PICK o \in frame[g].todo :
          NsDisconnect(g, [frame[g] EXCEPT !.ns = o, !.todo = @ \ {o}])
    BY <1>8 DEF DisconnectNext
  <2> DEFINE f == [frame[g] EXCEPT !.ns = o, !.todo = @ \ {o}]
  <2>2. frame[g] \in Frames /\ o \in Inst
    BY <1>0, <2>1 DEF TypeOK, ControlOK, Frames
  <2>3. f \in Frames /\ f.ns = o /\ NsDisconnect(g, f)
    BY <2>1, <2>2, FramesFacts DEF Frames
  <2> HIDE DEF f
  <2> QED BY <2>2, <2>3, NsDisconnectLeaves
<1>9. ASSUME NEW g \in Greenlets, FinishLoop(g) PROVE Maps
  <2>1. UNCHANGED <<state, active_ns>>
    BY <1>9 DEF FinishLoop, nsVars
  <2>2. CASE UNCHANGED attached
    BY <2>1, <2>2, <1>s
  <2>3. CASE frame[g].after = "detach" /\ DetachAndKillJobs(g)
    <3>1. attached' = FALSE /\ state = "DISCONNECTING"
      BY <2>3 DEF DetachAndKillJobs, IInv, Closing
    <3>2. Phase = "closing" /\ Phase' = "closing"
      BY <1>0, <2>1, <3>1, PhaseFacts
    <3>3. Lifecycle!Forget
      BY <2>1, <3>1, <3>2 DEF Lifecycle!Forget
    <3> QED BY <3>3 DEF Lifecycle!LifeNext
  <2> QED BY <1>9, <2>2, <2>3 DEF FinishLoop
<1>10. ASSUME NEW r \in Reqs,
              \/ ReqConnect(r) \/ ReqPost(r) \/ ReqPoll(r) \/ ReqDisconnect(r)
              \/ \E msgs \in Payloads : ReqDeliver(r, msgs)
       PROVE  Maps
  BY <1>10, <1>s DEF ReqConnect, ReqPost, ReqPoll, ReqDisconnect, ReqDeliver, sockVars, nsVars
<1>11. ASSUME AppManage \/ RecvSkip \/ RecvInvalid \/ RecvDispatch \/ RecvInit PROVE Maps
  BY <1>11, <1>s DEF AppManage, RecvSkip, RecvInvalid, RecvDispatch, RecvInit, sockVars, nsVars
<1>12. ASSUME HandlerRaise \/ UserDisconnectAll \/ HbtArm \/ HbtWake \/ WatchWake PROVE Maps
  BY <1>12, <1>s DEF HandlerRaise, UserDisconnectAll, HbtArm, HbtWake, WatchWake, sockVars, nsVars
<1>21. ASSUME NEW g \in Greenlets, DisconnectRaise(g) PROVE Maps
  BY <1>21, <1>s DEF DisconnectRaise, sockVars, nsVars
<1>13. ASSUME NEW j \in NsJob, JobEnd(j) \/ JobDie(j) PROVE Maps
  BY <1>13, <1>s DEF JobEnd, JobDie, sockVars, nsVars
<1>14. ASSUME NEW g, NEW o, NEW j, UserSpawn(g, o, j) PROVE Maps
  BY <1>14, <1>s DEF UserSpawn, sockVars
<1>15. ASSUME NEW g \in Greenlets, ResumeKill(g) \/ ResumeLocal(g) \/ EndKill(g) PROVE Maps
  BY <1>15, <1>s DEF ResumeKill, ResumeLocal, EndKill, sockVars, nsVars
<1>16. ASSUME NEW c \in callbacks, RunCallback(c) PROVE Maps
  BY <1>16, <1>s DEF RunCallback, sockVars, nsVars
<1> HIDE DEF Maps
<1>17. ASSUME Client PROVE Maps
  BY <1>10, <1>17 DEF Client
<1>18. ASSUME User PROVE Maps
  BY <1>7, <1>12, <1>13, <1>14, <1>18, <1>21 DEF User
<1>19. ASSUME System PROVE Maps
  BY <1>2, <1>3, <1>4, <1>5, <1>6, <1>8, <1>9, <1>11, <1>12, <1>13, <1>15, <1>16, <1>19
  DEF System, Receive, Heart, Hub, Teardown
<1>20. Maps
  BY <1>1, <1>17, <1>18, <1>19 DEF Next
<1> QED BY <1>20 DEF Maps

\* The greenlets of virtsocket.py and namespace.py together do what
\* SocketLifecycle says of one Socket: it opens and closes once, is found while it
\* is open, and closes in the step in which its last Namespace leaves.
THEOREM Implements == Spec => KeepsLifecycle
<1>1. Init => Lifecycle!LifeInit
  BY DEF Init, Lifecycle!LifeInit, Phase
<1>2. IInv => TypeOK
  BY DEF IInv
<1> QED BY Invariance, LifeStep, <1>1, <1>2, PTL DEF Spec, KeepsLifecycle, Lifecycle!LifeSpec

\* handle_one_response() never makes a Socket that was killed CONNECTED again,
\* even when its first request is answered twice.
THEOREM NeverResurrected == Spec => NoResurrection
<1>1. IInv /\ IInv' /\ [Lifecycle!LifeNext]_(Lifecycle!lifeVars) /\ [Next]_vars
      => [/\ state = "DISCONNECTING" => state' = "DISCONNECTING"
          /\ state = "CONNECTED" => state' # "NEW"]_vars
  <2> SUFFICES ASSUME TypeOK, TypeOK', [Lifecycle!LifeNext]_(Lifecycle!lifeVars)
               PROVE  /\ state = "DISCONNECTING" => state' = "DISCONNECTING"
                      /\ state = "CONNECTED" => state' # "NEW"
    BY DEF IInv
  <2>1. /\ Phase = "closing" => Phase' = "closing"
        /\ Phase = "open" => Phase' # "opening"
    BY DEF Lifecycle!LifeNext, Lifecycle!lifeVars, Lifecycle!Open, Lifecycle!Close,
       Lifecycle!Forget, Lifecycle!Join, Lifecycle!Leave, Lifecycle!LeaveLast
  <2> QED BY <2>1, PhaseFacts DEF Connected
<1>2. IInv => TypeOK
  BY DEF IInv
<1> QED BY Invariance, LifeStep, <1>1, <1>2, PTL DEF Spec, NoResurrection

=============================================================================
