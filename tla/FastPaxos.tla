------------------------------ MODULE FastPaxos ------------------------------
(***************************************************************************)
(* Fast Paxos (fastpaxos/): its clients and the replicas of                *)
(* FastPaxosReplica.                                                       *)
(***************************************************************************)
EXTENDS FastPaxosReplica

CONSTANTS
  UnloggedAt,    \* bound: the numbers a client may use for unlogged requests
  Correct        \* the replicas that keep running, the leader and F others

ASSUME CorrectAssumption ==
  /\ UnloggedAt \subseteq Nat
  /\ Correct \subseteq Replicas /\ Leader \in Correct
  /\ Cardinality(Correct) > F

VARIABLES
  lastReqId,     \* the id of the client's last request
  pending,       \* the id of pendingRequest, 0 without one
  unlogged,      \* the id of pendingUnloggedRequest, 0 without one
  accepted       \* history: the replies clients completed with

clientVars == <<lastReqId, pending, unlogged, accepted>>
vars == <<msgs, rep, clientVars>>

\* Clients are interchangeable, and so are followers.
Symmetry == Permutations(Clients) \cup Permutations(Followers)

ClientInit ==
  /\ lastReqId = [c \in Clients |-> 0]
  /\ pending = [c \in Clients |-> 0]
  /\ unlogged = [c \in Clients |-> 0]
  /\ accepted = {}

Init == ReplicaInit /\ ClientInit

\* Invoke and SendRequest: to every replica.  ResendRequest sends the same
\* message again.  Logged and unlogged requests share their numbers.
Invoke(c) ==
  LET id == lastReqId[c] + 1
  IN  /\ pending[c] = 0 /\ id <= MaxReq
      /\ lastReqId' = [lastReqId EXCEPT ![c] = id]
      /\ pending' = [pending EXCEPT ![c] = id]
      /\ Send({RequestMessage([client |-> c, id |-> id])})
      /\ UNCHANGED <<unlogged, accepted>>

\* HandleReply: the first reply to the pending request, from whichever replica.
HandleReply(c, m) ==
  /\ pending[c] > 0 /\ m.req = [client |-> c, id |-> pending[c]]
  /\ pending' = [pending EXCEPT ![c] = 0]
  /\ accepted' = accepted \cup {m}
  /\ UNCHANGED <<lastReqId, unlogged, msgs>>

\* InvokeUnlogged: to one replica, and not repeated.
InvokeUnlogged(c, r) ==
  LET id == lastReqId[c] + 1
  IN  /\ unlogged[c] = 0 /\ id \in UnloggedAt
      /\ lastReqId' = [lastReqId EXCEPT ![c] = id]
      /\ unlogged' = [unlogged EXCEPT ![c] = id]
      /\ Send({UnloggedRequestMessage([client |-> c, id |-> id], r)})
      /\ UNCHANGED <<pending, accepted>>

\* HandleUnloggedReply does not look at what the reply answers.
HandleUnloggedReply(c, m) ==
  /\ unlogged[c] > 0 /\ m.req.client = c
  /\ unlogged' = [unlogged EXCEPT ![c] = 0]
  /\ UNCHANGED <<lastReqId, pending, accepted, msgs>>

UnloggedRequestTimeoutCallback(c) ==
  /\ unlogged[c] > 0
  /\ unlogged' = [unlogged EXCEPT ![c] = 0]
  /\ UNCHANGED <<lastReqId, pending, accepted, msgs>>

ClientNext ==
  /\ UNCHANGED rep
  /\ \E c \in Clients :
       \/ Invoke(c)
       \/ \E m \in Sent("Reply") : HandleReply(c, m)
       \/ \E r \in Replicas : InvokeUnlogged(c, r)
       \/ \E m \in Sent("UnloggedReply") : HandleUnloggedReply(c, m)
       \/ UnloggedRequestTimeoutCallback(c)

Receive(r) ==
  \/ \E m \in Sent("Request") : HandleRequest(r, m)
  \/ \E m \in Sent("UnloggedRequest") : HandleUnloggedRequest(r, m)
  \/ \E m \in Sent("Prepare") : HandlePrepare(r, m)
  \/ \E m \in Sent("PrepareOK") : HandlePrepareOK(r, m)
  \/ \E m \in Sent("Commit") : HandleCommit(r, m)
  \/ \E m \in Sent("RequestStateTransfer") : HandleRequestStateTransfer(r, m)
  \/ \E m \in Sent("StateTransfer") : HandleStateTransfer(r, m)

ReplicaNext ==
  /\ UNCHANGED clientVars
  /\ \E r \in Replicas : Receive(r) \/ ResendPrepareTimeout(r)

Next == ClientNext \/ ReplicaNext

Spec == Init /\ [][Next]_vars

-----------------------------------------------------------------------------
\* Fairness.  A client repeats its request until it is answered, and the leader
\* its last Prepare until that is committed; whoever takes one of these sends
\* its own answer again.  So these messages reach a correct replica in the end.
\* Fast-path answers and Commits are sent once: nothing is assumed of them.
Fair(r) ==
  \/ ResendPrepareTimeout(r)
  \/ \E m \in Sent("Request") : HandleRequest(r, m)
  \/ \E m \in Sent("Prepare") : HandlePrepare(r, m)
  \/ \E m \in Sent("PrepareOK") : m.slowpath /\ HandlePrepareOK(r, m)
  \/ \E m \in Sent("RequestStateTransfer") : HandleRequestStateTransfer(r, m)
  \/ \E m \in Sent("StateTransfer") : HandleStateTransfer(r, m)

FairSpec ==
  /\ Spec
  /\ \A c \in Clients :
       WF_vars(UNCHANGED rep /\ \E m \in Sent("Reply") : HandleReply(c, m))
  /\ \A r \in Correct : WF_vars(UNCHANGED clientVars /\ Fair(r))

-----------------------------------------------------------------------------
\* The type invariant, with the order of the places a replica keeps.
TypeOK ==
  \A r \in Replicas :
    LET s == rep[r]
    IN  /\ s.log \in Seq(Req) /\ s.lastFast = Len(s.log)
        /\ s.lastSlow \in s.lastCommitted .. s.lastFast
        /\ s.app = SubSeq(s.log, 1, s.lastCommitted)
        /\ r = Leader => s.lastSlow = s.lastFast

\* Up to its lastSlowPath a replica has the leader's requests, whatever order
\* the clients' requests reached it in: what it acknowledges on the slow path
\* "is guaranteed to match ours" (HandlePrepareOK).
SlowPathMatches ==
  \A r \in Replicas :
    IsPrefix(SubSeq(rep[r].log, 1, rep[r].lastSlow), rep[Leader].log)

\* No replica executes something before the leader does, or in another order.
ExecutionsFollowLeader ==
  \A r \in Replicas : IsPrefix(rep[r].app, rep[Leader].app)

\* No request gets two places in the leader's log.
ExecutedOnce == IsInjective(rep[Leader].log)

\* The place the leader has executed last is held by a quorum, by fast-path or
\* slow-path answers.
LastInQuorum ==
  LET s == rep[Leader]
  IN  s.lastCommitted > 0 =>
        Cardinality({r \in Replicas :
                       /\ s.lastCommitted <= Len(rep[r].log)
                       /\ rep[r].log[s.lastCommitted] = s.log[s.lastCommitted]})
          >= F + 1

\* No assertion fails and no panic is reached.
NoAbort == \A r \in Replicas : rep[r].failed = ""

\* A client, which takes the first reply from any replica, completes with what
\* the leader executed for this very request, also when a replica answered a
\* repeated request from its client table.
RepliesRight ==
  \A a \in accepted : /\ a.opnum <= Len(rep[Leader].app)
                       /\ rep[Leader].app[a.opnum] = a.req

\* The group is one service to its clients: the leader's executions are the
\* order, every replica executes a prefix of it, and requests that were never
\* sent are not in it.
Service ==
  INSTANCE ReplicatedService WITH
    Nodes <- Replicas, Requests <- Req,
    asked <- {m.req : m \in Sent("Request")},
    order <- rep[Leader].app,
    done <- [r \in Replicas |-> rep[r].lastCommitted],
    answers <- {[req |-> a.req, opnum |-> a.opnum] : a \in accepted}

\* Fast Paxos implements that service, whatever the network loses, repeats or
\* reorders.
ImplementsService == Service!ServiceSpec

\* Every request is answered in the end, with F replicas down: whatever the
\* followers' logs hold, the slow path brings the leader's Prepare, its only
\* message that is repeated, and a state transfer what came before it.
ClientServed == \A c \in Clients : pending[c] > 0 ~> pending[c] = 0
=============================================================================
