---------------------------- MODULE DispatchProofs ----------------------------
(***************************************************************************)
(* Proofs about Dispatch, for every set of endpoints, events and packets,  *)
(* every initial ACL and every bound.                                      *)
(***************************************************************************)
EXTENDS Dispatch, SublistProofs, TLAPS

OutPackets == [type : {"connect", "event", "ack"}, id : Nat]

\* The callbacks that wait on a killed socket were registered after kill().
Silenced ==
  ~connected => mark <= ack_counter /\ \A id \in ack_callbacks : id > mark

\* An ACL opens no more than the calls of the ACL methods leave open.
WithinGranted == \A e \in Endpoints : Allows(allowed[e]) \subseteq granted[e]

IInv == TypeOK /\ FiredOnce /\ Silenced /\ WithinGranted

\* What a packet of the client is made of.
LEMMA PacketFacts ==
  ASSUME NEW pkt \in Packets
  PROVE  /\ pkt # Nothing /\ pkt.endpoint \in Endpoints
         /\ pkt.id \in Nat /\ pkt.ackId \in Nat
<1>1. pkt \in PacketSet
  BY DispatchAssumption
<1>2. pkt.type # "none"
  BY <1>1 DEF PacketSet, RecvMethod
<1> QED BY <1>1, <1>2 DEF PacketSet, Nothing

\* Sequences of one element, and longer ones.
LEMMA SeqFacts ==
  ASSUME NEW S, NEW x \in S, NEW s \in Seq(S)
  PROVE  <<x>> \in Seq(S) /\ Append(s, x) \in Seq(S)
OBVIOUS

\* What is put in the client_queue has its type, one packet or none.
LEMMA PacketOutType ==
  /\ \A n \in Nat : /\ PacketOut("ack", n) \in Seq(OutPackets)
                    /\ PacketOut("event", n) \in Seq(OutPackets)
  /\ \A pkt : Echo(pkt) \in Seq(OutPackets)
<1>1. \A n \in Nat, t \in {"connect", "event", "ack"} :
         [type |-> t, id |-> n] \in OutPackets
  BY DEF OutPackets
<1>2. \A n \in Nat, t \in {"connect", "event", "ack"} : PacketOut(t, n) \in Seq(OutPackets)
  BY <1>1, SeqFacts, << >> \in Seq(OutPackets) DEF PacketOut
<1>3. << >> \in Seq(OutPackets)
  OBVIOUS
<1> QED BY <1>2, <1>3 DEF Echo

\* An ACL is of its type, and opens methods.
LEMMA AclFacts ==
  /\ \A acl \in Acls : acl.kind \in {"None", "list", "set"} /\ acl.methods \subseteq Methods
  /\ \A acl \in Acls : acl.kind = "None" => acl.methods = {}
  /\ \A acl \in Acls : Allows(acl) \subseteq Methods
  /\ \A ms \in SUBSET Methods, k \in {"list", "set"} : [kind |-> k, methods |-> ms] \in Acls
  /\ NoAcl \in Acls
BY DEF Acls, NoAcl, Allows

\* Finish, the end of every packet, keeps the types.
LEMMA FinishType ==
  ASSUME TypeOK, NEW pkt \in Packets, NEW puts \in Seq(OutPackets), Finish(pkt, puts),
         UNCHANGED <<connected, aclVars, ack_counter, fired, mark>>
  PROVE  TypeOK'
<1>1. out' \in Seq(OutPackets)
  <2>1. out \in Seq(OutPackets)
    BY DEF TypeOK, OutPackets
  <2>2. PacketOut("ack", pkt.id) \in Seq(OutPackets)
    BY PacketFacts, PacketOutType
  <2>3. (IF AckRequested(pkt) THEN PacketOut("ack", pkt.id) ELSE <<>>) \in Seq(OutPackets)
    BY <2>2
  <2> QED BY <2>1, <2>3 DEF Finish
<1>2. handled' \in Seq(Packets)
  BY DEF TypeOK, Finish
<1>3. /\ pc' \in {"get", "handler", "dead"}
      /\ cur' \in Packets \union {Nothing}
      /\ pc' = "handler" <=> cur' # Nothing
  BY DEF TypeOK, Finish
<1>4. ack_callbacks' \subseteq 1 .. ack_counter'
  BY DEF TypeOK, Finish
<1> QED BY <1>1, <1>2, <1>3, <1>4 DEF TypeOK, OutPackets, aclVars

LEMMA InitInv == Init => IInv
<1> SUFFICES ASSUME Init PROVE IInv
  OBVIOUS
<1>1. TypeOK
  <2>1. granted \in [Endpoints -> SUBSET Methods]
    BY DispatchAssumption, AclFacts DEF Init
  <2>2. /\ out \in Seq([type : {"connect", "event", "ack"}, id : Nat])
        /\ handled \in Seq(Packets) /\ fired \in Seq(1 .. ack_counter)
    BY DEF Init
  <2> QED BY <2>1, <2>2, DispatchAssumption DEF TypeOK, Init
<1>2. FiredOnce
  BY DEF Init, FiredOnce
<1>3. Silenced
  BY DEF Init, Silenced
<1>4. WithinGranted
  BY DEF Init, WithinGranted
<1> QED BY <1>1, <1>2, <1>3, <1>4 DEF IInv

\* Every action keeps the types.
LEMMA NextType ==
  ASSUME TypeOK, [Next]_vars
  PROVE  TypeOK'
<1>1. ASSUME NEW pkt \in Packets, RecvUnserved(pkt) PROVE TypeOK'
  <2>1. PacketOut("event", 0) \in Seq(OutPackets) /\ Echo(pkt) \in Seq(OutPackets)
    BY PacketOutType
  <2>2. (IF Outcome(pkt) = "error" THEN PacketOut("event", 0) ELSE <<>>) \in Seq(OutPackets)
    BY <2>1
  <2>3. Echo(pkt) \o (IF Outcome(pkt) = "error" THEN PacketOut("event", 0) ELSE <<>>)
          \in Seq(OutPackets)
    BY <2>1, <2>2
  <2> QED BY <1>1, <2>3, FinishType DEF RecvUnserved
<1>2. ASSUME NEW pkt \in Packets, RecvCall(pkt) PROVE TypeOK'
  <2>1. out' \in Seq(OutPackets)
    BY <1>2, PacketOutType DEF RecvCall, TypeOK, OutPackets
  <2> QED BY <1>2, <2>1, PacketFacts DEF RecvCall, TypeOK, OutPackets, aclVars, ackVars
<1>3. ASSUME NEW pkt \in Packets, RecvAck(pkt) PROVE TypeOK'
  <2>1. pkt.ackId \in ack_callbacks
    BY <1>3 DEF RecvAck, Outcome
  <2>2. fired' \in Seq(1 .. ack_counter')
    BY <1>3, <2>1, SeqFacts DEF RecvAck, TypeOK
  <2> QED BY <1>3, <2>2, PacketFacts DEF RecvAck, TypeOK, aclVars
<1>4. ASSUME NEW pkt \in Packets, RecvNameless(pkt) PROVE TypeOK'
  BY <1>4 DEF RecvNameless, Receiving, TypeOK, aclVars, ackVars
<1>5. ASSUME HandlerReturn PROVE TypeOK'
  <2>1. cur \in Packets /\ << >> \in Seq(OutPackets)
    BY <1>5 DEF HandlerReturn, TypeOK
  <2> QED BY <1>5, <2>1, FinishType DEF HandlerReturn
<1>6. ASSUME HandlerRaise PROVE TypeOK'
  BY <1>6 DEF HandlerRaise, TypeOK, aclVars, ackVars
<1>7. ASSUME Emit PROVE TypeOK'
  <2>1. ack_counter' = ack_counter + 1 /\ ack_counter' \in Nat
    BY <1>7 DEF Emit, TypeOK
  <2>2. ack_callbacks' \subseteq 1 .. ack_counter'
    BY <1>7, <2>1 DEF Emit, TypeOK
  <2>3. fired' \in Seq(1 .. ack_counter')
    <3>1. 1 .. ack_counter \subseteq 1 .. ack_counter'
      BY <2>1 DEF TypeOK
    <3>2. fired \in Seq(1 .. ack_counter')
      BY <3>1, SeqMono DEF TypeOK
    <3> QED BY <1>7, <3>2 DEF Emit
  <2>4. out' \in Seq(OutPackets)
    BY <1>7, <2>1, PacketOutType DEF Emit, TypeOK, OutPackets
  <2> QED BY <1>7, <2>1, <2>2, <2>3, <2>4 DEF Emit, TypeOK, OutPackets, aclVars
<1>8. ASSUME NEW id, UserError(id) PROVE TypeOK'
  <2>1. out' \in Seq(OutPackets)
    <3>1. PacketOut("event", 0) \in Seq(OutPackets) /\ out \in Seq(OutPackets)
      BY PacketOutType DEF TypeOK, OutPackets
    <3>2. out \o PacketOut("event", 0) \in Seq(OutPackets)
      BY <3>1
    <3> QED BY <1>8, <3>1, <3>2 DEF UserError
  <2> QED BY <1>8, <2>1 DEF UserError, TypeOK, OutPackets, aclVars, ackVars
<1>9. ASSUME NEW e \in Endpoints, NEW m \in AclMethods, AddAclMethod(e, m) PROVE TypeOK'
  <2> DEFINE ms == {m} \union IF allowed[e].kind = "set" THEN allowed[e].methods ELSE {}
  <2>1. m \in Methods /\ allowed[e] \in Acls
    BY DispatchAssumption DEF TypeOK
  <2>2. ms \in SUBSET Methods
    BY <2>1, AclFacts
  <2>3. [kind |-> "set", methods |-> ms] \in Acls
    BY <2>2, AclFacts
  <2>4. allowed' \in [Endpoints -> Acls]
    BY <1>9, <2>3 DEF AddAclMethod, TypeOK
  <2>5. granted' \in [Endpoints -> SUBSET Methods]
    BY <1>9, <2>1 DEF AddAclMethod, TypeOK
  <2> QED BY <1>9, <2>4, <2>5 DEF AddAclMethod, TypeOK, ackVars
<1>10. ASSUME NEW e \in Endpoints, NEW m \in AclMethods, DelAclMethod(e, m) PROVE TypeOK'
  <2>1. allowed[e] \in Acls /\ allowed[e].kind # "None"
    BY <1>10, AclFacts DEF DelAclMethod, TypeOK
  <2>2. [allowed[e] EXCEPT !.methods = @ \ {m}] \in Acls
    BY <2>1 DEF Acls, NoAcl
  <2>3. allowed' \in [Endpoints -> Acls]
    BY <1>10, <2>2 DEF DelAclMethod, TypeOK
  <2>4. granted' \in [Endpoints -> SUBSET Methods]
    BY <1>10 DEF DelAclMethod, TypeOK
  <2> QED BY <1>10, <2>3, <2>4 DEF DelAclMethod, TypeOK, ackVars
<1>11. ASSUME NEW e \in Endpoints, LiftAclRestrictions(e) PROVE TypeOK'
  BY <1>11, AclFacts DEF LiftAclRestrictions, TypeOK, ackVars
<1>12. ASSUME NEW e \in Endpoints, ResetAcl(e) PROVE TypeOK'
  <2>1. InitialAcl[e] \in Acls /\ Allows(InitialAcl[e]) \subseteq Methods
    BY DispatchAssumption, AclFacts
  <2> QED BY <1>12, <2>1 DEF ResetAcl, TypeOK, ackVars
<1>13. ASSUME Kill PROVE TypeOK'
  BY <1>13 DEF Kill, TypeOK, aclVars
<1>14. ASSUME ReceiverKilled PROVE TypeOK'
  BY <1>14 DEF ReceiverKilled, TypeOK, aclVars, ackVars
<1>15. ASSUME UNCHANGED vars PROVE TypeOK'
  BY <1>15 DEF vars, aclVars, ackVars, TypeOK
<1> QED BY <1>1, <1>2, <1>3, <1>4, <1>5, <1>6, <1>7, <1>8, <1>9, <1>10, <1>11, <1>12,
           <1>13, <1>14, <1>15 DEF Next, Receive, User

\* A callback runs for the ack that takes it out of those that wait.
LEMMA NextFired ==
  ASSUME IInv, [Next]_vars
  PROVE  FiredOnce' /\ Silenced'
<1>1. TypeOK /\ FiredOnce /\ Silenced /\ TypeOK'
  BY NextType DEF IInv
<1>2. ASSUME NEW pkt \in Packets, RecvAck(pkt) PROVE FiredOnce' /\ Silenced'
  <2>1. pkt.ackId \in ack_callbacks /\ fired' = Append(fired, pkt.ackId)
        /\ ack_callbacks' = ack_callbacks \ {pkt.ackId}
    BY <1>2 DEF RecvAck, Outcome
  <2>2. /\ Len(fired) \in Nat /\ Len(fired') = Len(fired) + 1
        /\ \A i \in 1 .. Len(fired) : fired'[i] = fired[i]
        /\ fired'[Len(fired) + 1] = pkt.ackId
    BY <1>1, <2>1 DEF TypeOK
  <2>3. \A i \in 1 .. Len(fired') : i \in 1 .. Len(fired) \/ i = Len(fired) + 1
    BY <2>2
  <2>4. FiredOnce'
    BY <1>1, <2>1, <2>2, <2>3 DEF FiredOnce
  <2>5. Silenced'
    BY <1>1, <1>2, <2>1 DEF Silenced, RecvAck
  <2> QED BY <2>4, <2>5
<1>3. ASSUME Emit PROVE FiredOnce' /\ Silenced'
  <2>1. /\ ack_counter' = ack_counter + 1 /\ fired' = fired
        /\ ack_callbacks' = ack_callbacks \union {ack_counter + 1}
    BY <1>3 DEF Emit
  <2>2. \A i \in 1 .. Len(fired) : fired[i] # ack_counter + 1
    <3>1. \A i \in 1 .. Len(fired) : fired[i] \in 1 .. ack_counter
      BY <1>1 DEF TypeOK
    <3> QED BY <1>1, <3>1 DEF TypeOK
  <2>3. FiredOnce'
    BY <1>1, <2>1, <2>2 DEF FiredOnce
  <2>4. Silenced'
    BY <1>1, <1>3, <2>1 DEF Silenced, Emit, TypeOK
  <2> QED BY <2>3, <2>4
<1>4. ASSUME Kill PROVE FiredOnce' /\ Silenced'
  BY <1>1, <1>4 DEF Kill, FiredOnce, Silenced, TypeOK
<1>5. ASSUME NEW pkt, NEW puts, Finish(pkt, puts),
             UNCHANGED <<connected, ack_counter, fired, mark>>
      PROVE  FiredOnce' /\ Silenced'
  BY <1>1, <1>5 DEF Finish, FiredOnce, Silenced
<1>6. ASSUME UNCHANGED <<connected, ackVars>> PROVE FiredOnce' /\ Silenced'
  BY <1>1, <1>6 DEF ackVars, FiredOnce, Silenced
<1>7. ASSUME NEW pkt \in Packets, RecvUnserved(pkt) PROVE FiredOnce' /\ Silenced'
  BY <1>5, <1>7 DEF RecvUnserved
<1>8. ASSUME HandlerReturn PROVE FiredOnce' /\ Silenced'
  BY <1>5, <1>8 DEF HandlerReturn
<1>9. ASSUME Receive PROVE FiredOnce' /\ Silenced'
  BY <1>2, <1>6, <1>7, <1>8, <1>9 DEF Receive, RecvCall, RecvNameless
<1>10. ASSUME User PROVE FiredOnce' /\ Silenced'
  BY <1>3, <1>6, <1>10 DEF User, HandlerRaise, UserError, AddAclMethod, DelAclMethod,
                           LiftAclRestrictions, ResetAcl
<1> QED BY <1>4, <1>6, <1>9, <1>10 DEF Next, ReceiverKilled, vars

\* No call of an ACL method opens more than it is documented to.
LEMMA NextGranted ==
  ASSUME IInv, [Next]_vars
  PROVE  WithinGranted'
<1>1. TypeOK /\ WithinGranted
  BY DEF IInv
<1>2. ASSUME UNCHANGED aclVars PROVE WithinGranted'
  BY <1>1, <1>2 DEF aclVars, WithinGranted, Allows
<1>3. ASSUME NEW e \in Endpoints, NEW m \in AclMethods, AddAclMethod(e, m)
      PROVE  WithinGranted'
  <2>1. Allows(allowed'[e]) \subseteq {m} \union Allows(allowed[e])
    BY <1>1, <1>3 DEF AddAclMethod, Allows, TypeOK
  <2>2. granted'[e] = granted[e] \union {m}
    BY <1>1, <1>3 DEF AddAclMethod, TypeOK
  <2>3. \A d \in Endpoints \ {e} : allowed'[d] = allowed[d] /\ granted'[d] = granted[d]
    BY <1>1, <1>3 DEF AddAclMethod, TypeOK
  <2> QED BY <1>1, <2>1, <2>2, <2>3 DEF WithinGranted, Allows
<1>4. ASSUME NEW e \in Endpoints, NEW m \in AclMethods, DelAclMethod(e, m)
      PROVE  WithinGranted'
  <2>1. allowed[e] \in Acls /\ allowed[e].kind # "None"
    BY <1>1, <1>4, AclFacts DEF DelAclMethod, TypeOK
  <2>2. allowed'[e].kind # "None" /\ allowed'[e].methods = allowed[e].methods \ {m}
    BY <1>1, <1>4, <2>1 DEF DelAclMethod, TypeOK, Acls, NoAcl
  <2>3. Allows(allowed'[e]) = Allows(allowed[e]) \ {m}
    BY <2>1, <2>2 DEF Allows
  <2>4. granted'[e] = granted[e] \ {m}
    BY <1>1, <1>4 DEF DelAclMethod, TypeOK
  <2>5. \A d \in Endpoints \ {e} : allowed'[d] = allowed[d] /\ granted'[d] = granted[d]
    BY <1>1, <1>4 DEF DelAclMethod, TypeOK
  <2> QED BY <1>1, <2>3, <2>4, <2>5 DEF WithinGranted, Allows
<1>5. ASSUME NEW e \in Endpoints, LiftAclRestrictions(e) PROVE WithinGranted'
  BY <1>1, <1>5, AclFacts DEF LiftAclRestrictions, WithinGranted, TypeOK, Allows
<1>6. ASSUME NEW e \in Endpoints, ResetAcl(e) PROVE WithinGranted'
  BY <1>1, <1>6 DEF ResetAcl, WithinGranted, TypeOK, Allows
<1>7. ASSUME Receive PROVE WithinGranted'
  BY <1>2, <1>7 DEF Receive, RecvUnserved, RecvCall, RecvAck, RecvNameless, HandlerReturn
<1>8. ASSUME User PROVE WithinGranted'
  BY <1>2, <1>3, <1>4, <1>5, <1>6, <1>8 DEF User, Emit, HandlerRaise, UserError
<1> QED BY <1>2, <1>7, <1>8 DEF Next, Kill, ReceiverKilled, vars

\* The inductive invariant holds: types, callbacks that run once, and ACLs that
\* open no more than the calls of their methods.
THEOREM DispatchInvariance == Spec => []IInv
<1>1. IInv /\ [Next]_vars => IInv'
  BY NextType, NextFired, NextGranted DEF IInv
<1> QED BY <1>1, InitInv, PTL DEF Spec

\* Every variable keeps its type, and an id waits only once it was given out.
THEOREM DispatchTypeCorrect == Spec => []TypeOK
BY DispatchInvariance, PTL DEF IInv

\* Whatever ids the client acks, in whatever order and however often, a callback
\* runs once at most (_pop_ack_callback).
THEOREM CallbacksFireOnce == Spec => []FiredOnce
BY DispatchInvariance, PTL DEF IInv

\* After kill() no callback runs that was registered before it.
THEOREM CallbacksForgotten == Spec => KilledCallbacksSilent
<1>1. IInv /\ [Next]_vars
        => [\A i \in 1 .. Len(fired') : i > Len(fired) /\ ~connected => fired'[i] > mark]_vars
  <2> SUFFICES ASSUME IInv, [Next]_vars, NEW i \in 1 .. Len(fired'),
                      i > Len(fired), ~connected
               PROVE  fired'[i] > mark
    OBVIOUS
  <2>1. Len(fired) \in Nat
    BY DEF IInv, TypeOK
  <2>2. fired' # fired
    BY <2>1
  <2>3. PICK pkt \in Packets : RecvAck(pkt)
    BY <2>2 DEF Next, Receive, User, RecvUnserved, RecvCall, RecvNameless, HandlerReturn,
      HandlerRaise, Emit, UserError, AddAclMethod, DelAclMethod, LiftAclRestrictions,
      ResetAcl, Kill, ReceiverKilled, vars, aclVars, ackVars
  <2>4. pkt.ackId \in ack_callbacks /\ fired' = Append(fired, pkt.ackId)
    BY <2>3 DEF RecvAck, Outcome
  <2>5. i = Len(fired) + 1 /\ fired'[i] = pkt.ackId
    BY <2>1, <2>4 DEF IInv, TypeOK
  <2> QED BY <2>4, <2>5 DEF IInv, Silenced
<1> QED BY <1>1, DispatchInvariance, PTL DEF Spec, KilledCallbacksSilent

\* Over any sequence of ACL calls, and from any initial ACL, a packet of the
\* client calls no method but those that the calls leave open.
THEOREM OnlyGrantedMethodsRun == Spec => OnlyGrantedRun
<1>1. IInv /\ [Next]_vars
        => [\A pkt \in Packets : RecvCall(pkt) => Method(pkt) \in granted[pkt.endpoint]]_vars
  <2> SUFFICES ASSUME IInv, NEW pkt \in Packets, RecvCall(pkt)
               PROVE  Method(pkt) \in granted[pkt.endpoint]
    OBVIOUS
  <2>1. CallMethodWithAcl(pkt)
    BY DEF RecvCall, Outcome
  <2>2. Method(pkt) \in Allows(allowed[pkt.endpoint])
    BY <2>1 DEF CallMethodWithAcl, IsMethodAllowed
  <2> QED BY <2>2, PacketFacts DEF IInv, WithinGranted
<1> QED BY <1>1, DispatchInvariance, PTL DEF Spec, OnlyGrantedRun

-----------------------------------------------------------------------------
(* The acks that are asked for. *)

Acks     == [type : {"ack"}, id : Nat]
Asking   == {pkt \in Packets : AckRequested(pkt)}
Replies  == Keep(out, Acks)
Requests == Keep(handled, Asking)

\* Each reply is there for the request that came in its place.
Matching(replies, requests) ==
  /\ Len(replies) = Len(requests)
  /\ \A i \in 1 .. Len(replies) : replies[i].id = requests[i].id

LEMMA MatchingIs == AcksMatchRequests <=> Matching(Replies, Requests)
BY DEF AcksMatchRequests, Matching, Replies, Requests, Acks, Asking

\* A reply and its request are added together.
LEMMA MatchingAppend ==
  ASSUME NEW S, NEW T, NEW s \in Seq(S), NEW t \in Seq(T), NEW x \in S, NEW y \in T,
         Matching(s, t), x.id = y.id
  PROVE  Matching(Append(s, x), Append(t, y))
<1>1. Len(Append(s, x)) = Len(s) + 1 /\ Len(Append(t, y)) = Len(s) + 1 /\ Len(s) \in Nat
  BY DEF Matching
<1>2. Append(s, x)[Len(s) + 1] = x /\ Append(t, y)[Len(s) + 1] = y
  BY DEF Matching
<1>3. \A i \in 1 .. Len(s) : Append(s, x)[i] = s[i] /\ Append(t, y)[i] = t[i]
  BY DEF Matching
<1>4. \A i \in 1 .. Len(s) + 1 : i \in 1 .. Len(s) \/ i = Len(s) + 1
  BY <1>1
<1> QED BY <1>1, <1>2, <1>3, <1>4 DEF Matching

LEMMA ConcatAssoc ==
  ASSUME NEW S, NEW a \in Seq(S), NEW b \in Seq(S), NEW c \in Seq(S)
  PROVE  /\ a \o (b \o c) = (a \o b) \o c
         /\ a \o b \in Seq(S) /\ b \o c \in Seq(S)
OBVIOUS

\* Only what PacketOut() makes of an ack is a reply.
LEMMA PutReplies ==
  ASSUME NEW s \in Seq(OutPackets)
  PROVE  /\ \A pkt : Keep(s \o Echo(pkt), Acks) = Keep(s, Acks)
         /\ \A n \in Nat : Keep(s \o PacketOut("event", n), Acks) = Keep(s, Acks)
         /\ \A n \in Nat : Keep(s \o PacketOut("ack", n), Acks)
                             = Append(Keep(s, Acks), [type |-> "ack", id |-> n])
<1>1. \A x : s \o <<x>> = Append(s, x)
  OBVIOUS
<1>2. s \o <<>> = s
  OBVIOUS
<1>3. \A n \in Nat, t \in {"connect", "event", "ack"} :
         /\ [type |-> t, id |-> n] \in OutPackets
         /\ [type |-> t, id |-> n] \in Acks <=> t = "ack"
  BY DEF OutPackets, Acks
<1>4. \A n \in Nat, t \in {"connect", "event", "ack"} :
         Keep(s \o PacketOut(t, n), Acks)
           = IF t = "ack" THEN Append(Keep(s, Acks), [type |-> t, id |-> n]) ELSE Keep(s, Acks)
  <2> SUFFICES ASSUME NEW n \in Nat, NEW t \in {"connect", "event", "ack"}
               PROVE  Keep(s \o PacketOut(t, n), Acks)
                        = IF t = "ack" THEN Append(Keep(s, Acks), [type |-> t, id |-> n])
                          ELSE Keep(s, Acks)
    OBVIOUS
  <2> DEFINE p == [type |-> t, id |-> n]
  <2>1. PacketOut(t, n) = <<p>> /\ p \in OutPackets /\ (p \in Acks <=> t = "ack")
    BY <1>3 DEF PacketOut
  <2> HIDE DEF p
  <2>2. Keep(s \o <<p>>, Acks) = IF p \in Acks THEN Append(Keep(s, Acks), p) ELSE Keep(s, Acks)
    BY <1>1, <2>1, KeepAppend
  <2> QED BY <2>1, <2>2 DEF p
<1>5. \A n \in Nat : /\ Keep(s \o PacketOut("connect", n), Acks) = Keep(s, Acks)
                     /\ Keep(s \o PacketOut("event", n), Acks) = Keep(s, Acks)
                     /\ Keep(s \o PacketOut("ack", n), Acks)
                          = Append(Keep(s, Acks), [type |-> "ack", id |-> n])
  BY <1>4
<1> QED BY <1>2, <1>5 DEF Echo

\* The end of a packet adds its request, and its reply if it is one.
LEMMA FinishMatches ==
  ASSUME TypeOK, NEW pkt \in Packets, NEW puts \in Seq(OutPackets),
         Finish(pkt, puts), Keep(out \o puts, Acks) = Replies,
         Matching(Replies, Requests)
  PROVE  Matching(Replies', Requests')
<1>1. out \o puts \in Seq(OutPackets) /\ handled \in Seq(Packets) /\ pkt.id \in Nat
  BY PacketFacts DEF TypeOK, OutPackets
<1>2. Requests' = IF AckRequested(pkt) THEN Append(Requests, pkt) ELSE Requests
  <2>1. handled' = Append(handled, pkt)
    BY DEF Finish
  <2>2. pkt \in Asking <=> AckRequested(pkt)
    BY DEF Asking
  <2>3. Keep(handled', Asking) = IF pkt \in Asking THEN Append(Requests, pkt) ELSE Requests
    BY <1>1, <2>1, KeepAppend DEF Requests
  <2> QED BY <2>2, <2>3 DEF Requests, Asking, AckRequested
<1>3. Replies' = IF AckRequested(pkt) THEN Append(Replies, [type |-> "ack", id |-> pkt.id])
                 ELSE Replies
  <2>1. out' = (out \o puts) \o (IF AckRequested(pkt) THEN PacketOut("ack", pkt.id) ELSE <<>>)
    BY DEF Finish
  <2>2. (out \o puts) \o <<>> = out \o puts
    BY <1>1
  <2>3. Keep(out', Acks) = IF AckRequested(pkt)
                           THEN Append(Replies, [type |-> "ack", id |-> pkt.id]) ELSE Replies
    BY <1>1, <2>1, <2>2, PutReplies
  <2> QED BY <2>3 DEF Replies, Acks
<1>4. Replies \in Seq(OutPackets) /\ Requests \in Seq(Packets)
  BY KeepType DEF TypeOK, OutPackets, Replies, Requests
<1>5. [type |-> "ack", id |-> pkt.id] \in OutPackets /\ [type |-> "ack", id |-> pkt.id].id = pkt.id
  BY <1>1 DEF OutPackets
<1> QED BY <1>2, <1>3, <1>4, <1>5, MatchingAppend

\* A request for an ack that is dealt with is answered, in its turn and with its id, by
\* whatever path process_packet() takes, however many packets there are.
THEOREM RequestsAnswered == Spec => []AcksMatchRequests
<1> DEFINE M == Matching(Replies, Requests)
<1>1. Init => M
  BY KeepEmpty DEF Init, Matching, Replies, Requests
<1>2. TypeOK /\ M /\ [Next]_vars => M'
  <2> SUFFICES ASSUME TypeOK, M, [Next]_vars PROVE M'
    OBVIOUS
  <2>0. out \in Seq(OutPackets) /\ handled \in Seq(Packets) /\ << >> \in Seq(OutPackets)
    BY DEF TypeOK, OutPackets
  <2>a. ASSUME Keep(out', Acks) = Keep(out, Acks), handled' = handled PROVE M'
    BY <2>a DEF Replies, Requests, Acks, Asking, AckRequested
  <2> HIDE DEF M
  <2>1. ASSUME NEW pkt \in Packets, RecvUnserved(pkt) PROVE M'
    <3> DEFINE err == IF Outcome(pkt) = "error" THEN PacketOut("event", 0) ELSE <<>>
    <3>1. Echo(pkt) \in Seq(OutPackets) /\ err \in Seq(OutPackets)
      BY <2>0, PacketOutType
    <3>2. out \o (Echo(pkt) \o err) = (out \o Echo(pkt)) \o err /\ out \o Echo(pkt) \in Seq(OutPackets)
          /\ Echo(pkt) \o err \in Seq(OutPackets)
      <4> HIDE DEF err
      <4> QED BY <2>0, <3>1, ConcatAssoc
    <3>3. Keep((out \o Echo(pkt)) \o err, Acks) = Keep(out \o Echo(pkt), Acks)
      <4>1. (out \o Echo(pkt)) \o <<>> = out \o Echo(pkt)
        BY <3>2
      <4> QED BY <3>2, <4>1, PutReplies
    <3>4. Keep(out \o (Echo(pkt) \o err), Acks) = Replies
      BY <2>0, <3>2, <3>3, PutReplies DEF Replies
    <3>5. Finish(pkt, Echo(pkt) \o err)
      BY <2>1 DEF RecvUnserved
    <3> QED BY <3>2, <3>4, <3>5, FinishMatches DEF M
  <2>2. ASSUME HandlerReturn PROVE M'
    <3>1. cur \in Packets /\ Finish(cur, <<>>)
      BY <2>2 DEF HandlerReturn, TypeOK
    <3>2. Keep(out \o <<>>, Acks) = Replies
      BY <2>0 DEF Replies
    <3> QED BY <2>0, <3>1, <3>2, FinishMatches DEF M
  <2>3. ASSUME NEW pkt \in Packets, RecvCall(pkt) PROVE M'
    BY <2>0, <2>3, <2>a, PutReplies DEF RecvCall
  <2>4. ASSUME Emit PROVE M'
    <3>1. ack_counter' \in Nat
      BY <2>4 DEF Emit, TypeOK
    <3> QED BY <2>0, <2>4, <2>a, <3>1, PutReplies DEF Emit
  <2>5. ASSUME NEW id, UserError(id) PROVE M'
    BY <2>0, <2>5, <2>a, PutReplies DEF UserError
  <2>6. ASSUME UNCHANGED <<out, handled>> PROVE M'
    BY <2>6, <2>a
  <2>7. ASSUME Receive PROVE M'
    BY <2>1, <2>2, <2>3, <2>6, <2>7 DEF Receive, RecvAck, RecvNameless
  <2>8. ASSUME User PROVE M'
    BY <2>4, <2>5, <2>6, <2>8 DEF User, HandlerRaise, AddAclMethod, DelAclMethod,
                                 LiftAclRestrictions, ResetAcl
  <2> QED BY <2>6, <2>7, <2>8 DEF Next, Kill, ReceiverKilled, vars
<1> HIDE DEF M
<1>3. M => AcksMatchRequests
  BY MatchingIs DEF M
<1> QED BY <1>1, <1>2, <1>3, DispatchTypeCorrect, PTL DEF Spec

=============================================================================
