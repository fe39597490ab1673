------------------------ MODULE FastPaxosRefinement ------------------------
(***************************************************************************)
(* Fast Paxos implements ReplicatedService: a client's steps ask or        *)
(* complete, a replica's step executes, and every step is one of these or  *)
(* leaves the service's variables alone.                                   *)
(***************************************************************************)
EXTENDS FastPaxosProofs

Asked == {m.req : m \in Sent("Request")}
Done == [r \in Replicas |-> rep[r].lastCommitted]
Answered == {[req |-> a.req, opnum |-> a.opnum] : a \in accepted}

\* Every request of the leader's log was sent by a client.
Origin == \A i \in 1 .. Len(rep[Leader].log) : rep[Leader].log[i] \in Asked

\* The requests sent change only with the Request messages.
LEMMA AskedKept ==
  ASSUME \A m : m.type = "Request" => (m \in msgs' <=> m \in msgs)
  PROVE  Asked' = Asked
<1>1. Sent("Request")' = Sent("Request")
  BY DEF Sent
<1> QED
  BY <1>1 DEF Asked

\* A replica's step: it executes more of the order, and only the leader makes
\* the order longer.
LEMMA ReplicaRefines ==
  ASSUME Inv, Origin, ReplicaNext
  PROVE  Origin' /\ Service!ServiceNext
<1> USE Constants
<1>1. PICK r \in Replicas : \E s : Fine(rep, r, s) /\ Step(r, s) /\ LogFrom(r, s)
  BY ReplicaStepFine
<1>2. PICK s : Fine(rep, r, s) /\ Step(r, s) /\ LogFrom(r, s)
  BY <1>1
<1>3. Inv' /\ Grows(rep, rep')
  BY ReplicaKeepsInv
<1> DEFINE t == [s EXCEPT !.out = {}]
<1>4. /\ rep \in States /\ rep' \in States /\ s \in State
      /\ rep' = [rep EXCEPT ![r] = t]
      /\ msgs' = msgs \cup {m \in s.out : m.type \notin Lost}
  BY <1>2, <1>3 DEF Step, Send, Fine, Inv, ReplicasOK
<1>5. t.log = s.log
  BY <1>4 DEF State
<1>6. \A m \in s.out : m.type # "Request"
  <2>1. Put(rep, r, s)[r] = s
    BY <1>4, PutFacts
  <2> QED
    BY <1>2, <2>1 DEF Fine, ReplicasOK, MessageTrue
<1>7. Asked' = Asked
  <2>1. \A m : m.type = "Request" => (m \in msgs' <=> m \in msgs)
    BY <1>4, <1>6
  <2> QED
    BY <2>1, AskedKept
<1>8. rep'[r] = t /\ \A p \in Replicas : p # r => rep'[p] = rep[p]
  BY <1>4 DEF States
<1> HIDE DEF t
<1>9. Origin'
  <2> DEFINE a == rep[Leader].log
             b == rep'[Leader].log
  <2>1. a \in Seq(Req) /\ \A i \in 1 .. Len(a) : a[i] \in Asked
    BY <1>4, StateFields DEF Origin, States
  <2>2. b = a \/ \E q \in Asked : b = Append(a, q)
    BY <1>2, <1>5, <1>8 DEF LogFrom, Asked
  <2> SUFFICES \A i \in 1 .. Len(b) : b[i] \in Asked
    BY <1>7 DEF Origin
  <2> HIDE DEF a, b, Asked
  <2>3. ASSUME NEW q \in Asked, b = Append(a, q), NEW i \in 1 .. Len(b)
        PROVE  b[i] \in Asked
    BY <2>1, <2>3
  <2> QED
    BY <2>1, <2>2, <2>3
<1> DEFINE x == rep[Leader].app
           y == rep'[Leader].app
<1>10. /\ x \in Seq(Req) /\ y \in Seq(Req)
       /\ Len(x) <= Len(y) /\ \A i \in 1 .. Len(x) : y[i] = x[i]
  BY <1>3, ExecutionsKept
<1>11. /\ rep'[Leader] \in State /\ LocalOK(rep'[Leader]) /\ LeaderOK(rep')
       /\ rep'[r] \in State /\ rep[r] \in State /\ rep[Leader] \in State
       /\ LocalOK(rep[Leader])
  BY <1>3, <1>4 DEF Inv, ReplicasOK, States
<1>12. rep'[r].lastCommitted \in rep[r].lastCommitted .. Len(y)
  <2>1. /\ rep[r].lastCommitted \in Nat /\ rep'[r].lastCommitted \in Nat
        /\ rep'[Leader].lastCommitted \in Nat
    BY <1>11, StateFields
  <2>2. Len(y) = rep'[Leader].lastCommitted
    BY <1>11, AppIsPrefix
  <2>3. rep'[r].lastCommitted <= rep'[Leader].lastCommitted
    <3>1. CASE r = Leader
      BY <2>1, <3>1
    <3>2. CASE r # Leader
      BY <1>3, <3>2 DEF Inv, ReplicasOK, FollowerOK
    <3> QED
      BY <3>1, <3>2
  <2>4. rep[r].lastCommitted <= rep'[r].lastCommitted
    BY <1>3 DEF Grows
  <2> QED
    BY <2>1, <2>2, <2>3, <2>4
<1>13. Done' = [Done EXCEPT ![r] = rep'[r].lastCommitted]
  BY <1>8 DEF Done
<1>14. y = x \/ rep'[r].lastCommitted = Len(y)
  <2>1. CASE r = Leader
    BY <1>11, <2>1, AppIsPrefix
  <2>2. CASE r # Leader
    BY <1>8, <2>2
  <2> QED
    BY <2>1, <2>2
<1>15. /\ \A i \in 1 .. Len(y) : y[i] \in Asked
       /\ \A i, j \in 1 .. Len(y) : y[i] = y[j] => i = j
  <2> DEFINE u == rep'[Leader]
  <2>1. u \in State /\ LocalOK(u) /\ y = u.app
    BY <1>11
  <2>2. /\ \A i \in 1 .. Len(u.log) : u.log[i] \in Asked
        /\ \A i, j \in 1 .. Len(u.log) : u.log[i] = u.log[j] => i = j
    BY <1>7, <1>9, <1>11 DEF Origin, LeaderOK
  <2> HIDE DEF u, y
  <2>3. /\ Len(y) = u.lastCommitted
        /\ \A i \in 1 .. u.lastCommitted : y[i] = u.log[i]
    BY <2>1, AppIsPrefix
  <2>4. /\ u.lastCommitted \in 0 .. Len(u.log) /\ Len(u.log) \in Nat
    BY <2>1, StateFields, Places
  <2>5. \A i \in 1 .. Len(y) : i \in 1 .. Len(u.log)
    BY <2>3, <2>4
  <2> QED
    BY <2>2, <2>3, <2>5
<1>16. Answered' = Answered
  BY DEF ReplicaNext, clientVars, Answered
<1> HIDE DEF x, y
<1>17. Service!Execute(r)
  BY <1>7, <1>10, <1>12, <1>13, <1>14, <1>15, <1>16
  DEF Service!Execute, x, y, Asked, Done, Answered
<1> QED
  BY <1>9, <1>17 DEF Service!ServiceNext

\* A client's step asks, completes with an answer that was executed, or is
\* about an unlogged request.
LEMMA ClientRefines ==
  ASSUME Inv, Origin, ClientNext
  PROVE  Origin' /\ (Service!ServiceNext \/ UNCHANGED Service!serviceVars)
<1> USE Constants
<1>1. rep' = rep /\ Inv'
  BY ClientKeepsInv DEF ClientNext
<1>2. Done' = Done
  BY <1>1 DEF Done
<1>3. PICK c \in Clients :
        \/ Invoke(c)
        \/ \E m \in Sent("Reply") : HandleReply(c, m)
        \/ \E r \in Replicas : InvokeUnlogged(c, r)
        \/ \E m \in Sent("UnloggedReply") : HandleUnloggedReply(c, m)
        \/ UnloggedRequestTimeoutCallback(c)
  BY DEF ClientNext
<1>4. Asked' = Asked => Origin'
  BY <1>1 DEF Origin
<1>5. lastReqId[c] \in Nat
  BY DEF Inv, ClientsOK
<1>6. CASE Invoke(c)
  <2>1. PICK q \in Req : q = [client |-> c, id |-> lastReqId[c] + 1]
    BY <1>5, <1>6 DEF Invoke, Req
  <2> DEFINE m == RequestMessage(q)
  <2>2. msgs' = msgs \cup {x \in {m} : x.type \notin Lost} /\ accepted' = accepted
    BY <1>6, <2>1 DEF Invoke, Send
  <2>3. m.type = "Request" /\ m.req = q
    BY DEF RequestMessage
  <2> HIDE DEF m
  <2>4. Answered' = Answered
    BY <2>2 DEF Answered
  <2>5. CASE "Request" \in Lost
    <3>1. msgs' = msgs
      BY <2>2, <2>3, <2>5
    <3>2. Asked' = Asked
      BY <3>1, AskedKept
    <3> QED
      BY <1>1, <1>2, <1>4, <2>4, <3>2
      DEF Service!serviceVars, Asked, Done, Answered
  <2>6. CASE "Request" \notin Lost
    <3>1. msgs' = msgs \cup {m}
      BY <2>2, <2>3, <2>6
    <3>2. Sent("Request")' = Sent("Request") \cup {m}
      BY <2>3, <3>1 DEF Sent
    <3>3. Asked' = Asked \cup {q}
      BY <2>3, <3>2 DEF Asked
    <3>4. Origin'
      BY <1>1, <3>3 DEF Origin
    <3>5. Service!Ask(q)
      BY <1>1, <1>2, <2>4, <3>3 DEF Service!Ask, Asked, Done, Answered
    <3> QED
      BY <3>4, <3>5 DEF Service!ServiceNext
  <2> QED
    BY <2>5, <2>6
<1>7. CASE \E m \in Sent("Reply") : HandleReply(c, m)
  <2>1. PICK m \in Sent("Reply") : HandleReply(c, m)
    BY <1>7
  <2>2. /\ accepted' = accepted \cup {m} /\ msgs' = msgs
    BY <2>1 DEF HandleReply
  <2>3. Asked' = Asked
    BY <2>2, AskedKept
  <2> DEFINE s == rep[Leader]
             i == m.opnum
  <2>4. Has(s.log, i, m.req) /\ i <= s.lastCommitted
    BY DEF Sent, Inv, MessageTrue
  <2>5. s \in State /\ LocalOK(s)
    BY DEF Inv, ReplicasOK, States
  <2> HIDE DEF s, i
  <2>6. /\ Len(s.app) = s.lastCommitted
        /\ \A k \in 1 .. s.lastCommitted : s.app[k] = s.log[k]
    BY <2>5, AppIsPrefix
  <2>7. i \in 1 .. s.lastCommitted
    BY <2>4, <2>5, StateFields DEF Has
  <2>8. i \in 1 .. Len(s.app) /\ s.app[i] = m.req
    BY <2>4, <2>6, <2>7 DEF Has
  <2>9. Answered' = Answered \cup {[req |-> s.app[i], opnum |-> i]}
    BY <2>2, <2>8 DEF Answered, i
  <2>10. Service!Answer(i)
    BY <1>1, <1>2, <2>3, <2>9 DEF Service!Answer, Asked, Done, Answered, s
  <2> QED
    BY <1>4, <2>3, <2>8, <2>10 DEF Service!ServiceNext, s
<1>8. CASE \/ \E r \in Replicas : InvokeUnlogged(c, r)
           \/ \E m \in Sent("UnloggedReply") : HandleUnloggedReply(c, m)
           \/ UnloggedRequestTimeoutCallback(c)
  <2>1. accepted' = accepted
    BY <1>8 DEF InvokeUnlogged, HandleUnloggedReply, UnloggedRequestTimeoutCallback
  <2>2. \A m : m.type = "Request" => (m \in msgs' <=> m \in msgs)
    BY <1>8 DEF InvokeUnlogged, HandleUnloggedReply, Send,
                UnloggedRequestTimeoutCallback, UnloggedRequestMessage
  <2>3. Asked' = Asked
    BY <2>2, AskedKept
  <2>4. Answered' = Answered
    BY <2>1 DEF Answered
  <2> QED
    BY <1>1, <1>2, <1>4, <2>3, <2>4 DEF Service!serviceVars, Asked, Done, Answered
<1> QED
  BY <1>3, <1>6, <1>7, <1>8

\* Every execution of Fast Paxos is one of the replicated service: one order
\* that only grows, of requests clients sent, each once, executed by every
\* replica from the start, with answers that name the request's place.
THEOREM Refinement == Spec => ImplementsService
<1>1. Init => Service!ServiceInit /\ Origin
  <2> SUFFICES ASSUME Init
               PROVE  Service!ServiceInit /\ Origin
    OBVIOUS
  <2>1. NewReplica.log = <<>> /\ NewReplica.app = <<>> /\ NewReplica.lastCommitted = 0
    BY DEF NewReplica
  <2>2. msgs = {} /\ accepted = {} /\ \A r \in Replicas : rep[r] = NewReplica
    BY DEF Init, ReplicaInit, ClientInit
  <2> QED
    BY <2>1, <2>2, Constants DEF Origin, Sent, Service!ServiceInit
<1>2. Inv /\ Origin /\ [Next]_vars
        => Origin' /\ [Service!ServiceNext]_(Service!serviceVars)
  <2> SUFFICES ASSUME Inv, Origin, [Next]_vars
               PROVE  Origin' /\ (Service!ServiceNext \/ UNCHANGED Service!serviceVars)
    OBVIOUS
  <2>1. CASE ClientNext
    BY <2>1, ClientRefines
  <2>2. CASE ReplicaNext
    BY <2>2, ReplicaRefines
  <2>3. CASE UNCHANGED vars
    BY <2>3 DEF vars, clientVars, Origin, Asked, Sent, Service!serviceVars
  <2> QED
    BY <2>1, <2>2, <2>3 DEF Next
<1> QED
  BY <1>1, <1>2, Invariance, PTL DEF Spec, ImplementsService, Service!ServiceSpec
=============================================================================
