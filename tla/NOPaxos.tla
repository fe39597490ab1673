------------------------------- MODULE NOPaxos -------------------------------
(***************************************************************************)
(* NOPaxos (nopaxos/): the replicas of NOPaxosReplica, the clients of      *)
(* NOPaxosClient, and the sequencer and network of NOPaxosNet.             *)
(***************************************************************************)
EXTENDS NOPaxosReplica, NOPaxosClient

vars == <<rep, lastReqId, pending, accepted, msgs, session, counter>>

Init == ReplicaInit /\ ClientInit /\ NetInit

ClientNext ==
  /\ UNCHANGED <<rep, session, counter>>
  /\ \E c \in Clients :
       Invoke(c) \/ HandleReply(c)

SequencerNext ==
  /\ UNCHANGED <<rep, clientVars>>
  /\ \/ \E m \in Sent("Ordered") : Stamp(m)
     \/ SessionChange

\* Normal operation, gap agreement and synchronization at replica r.
ReceiveNormal(r) ==
  \/ \E m \in Sent("Request") : HandleClientRequest(r, m)
  \/ \E m \in Addressed("GapRequest", r) : HandleGapRequest(r, m)
  \/ \E m \in Addressed("GapReply", r) : HandleGapReply(r, m)
  \/ \E m \in Broadcast("GapCommit", r) : HandleGapCommit(r, m)
  \/ \E m \in Addressed("GapCommitReply", r) : HandleGapCommitReply(r, m)
  \/ \E m \in Broadcast("SyncPrepare", r) : HandleSyncPrepare(r, m)
  \/ \E m \in Addressed("SyncPrepareReply", r) : HandleSyncPrepareReply(r, m)
  \/ \E m \in Broadcast("SyncCommit", r) : HandleSyncCommit(r, m)
  \/ \E m \in Addressed("SyncPrepareRequest", r) :
       HandleSyncPrepareRequest(r, m)

ReceiveTransfer(r) ==
  \/ \E m \in Addressed("StateTransferRequest", r) :
       HandleStateTransferRequest(r, m)
  \/ \E m \in Addressed("StateTransferReply", r) :
       HandleStateTransferReply(r, m)

ReceiveViewChange(r) ==
  \/ \E m \in Broadcast("ViewChangeRequest", r) : HandleViewChangeRequest(r, m)
  \/ \E m \in Addressed("ViewChange", r) : HandleViewChange(r, m)
  \/ \E m \in Broadcast("StartView", r) : HandleStartView(r, m)
  \/ \E m \in Addressed("StartViewReply", r) : HandleStartViewReply(r, m)

Timers(r) ==
  \/ StartGapRequestTimeout(r)
  \/ GapRequestTimeout(r)
  \/ SendSyncPrepare(r)
  \/ LeaderSyncHeardTimeout(r)

ReplicaNext ==
  /\ UNCHANGED <<clientVars, session, counter>>
  /\ \E r \in Replicas : \/ ReceiveNormal(r) \/ ReceiveTransfer(r)
                         \/ ReceiveViewChange(r) \/ Timers(r)

Next == ClientNext \/ SequencerNext \/ ReplicaNext

Spec == Init /\ [][Next]_vars

-----------------------------------------------------------------------------
\* The type invariant of the replicas' states, with the order of the places the
\* replica keeps in its log.
TypeOK ==
  /\ accepted \subseteq Sent("Reply")
  /\ \A r \in Replicas :
       LET s == rep[r]
       IN  /\ s.status \in {"normal", "gapcommit", "viewchange"}
           /\ s.sess \in 0 .. MaxSess /\ s.view \in 0 .. MaxView
           /\ s.nextMsgnum \in 1 .. (MaxMsg + 1)
           /\ \A op \in 1 .. Len(s.log) : s.log[op].req \in Req \cup {NoOp}
           /\ s.lastExecuted \in 0 .. s.lastOp
           /\ s.lastCommitted \in 0 .. s.lastOp
           /\ s.status = "gapcommit" => AmLeader(r, s)
           /\ \A q \in s.pending : q \in Sent("Request")

\* Replicas r and q work in the same view, q as its leader.
Follows(r, q) ==
  /\ rep[r].failed = NoFailure /\ rep[q].failed = NoFailure
  /\ rep[r].status # "viewchange" /\ rep[q].status # "viewchange"
  /\ rep[r].sess = rep[q].sess /\ rep[r].view = rep[q].view
  /\ AmLeader(q, rep[q])

Holds(r, op, q) == op <= Len(rep[r].log) /\ rep[r].log[op].req = q

\* In a view, a follower's log has nothing at a place where the leader has
\* something else, except a request the leader has declared a gap since; and it
\* has no gap the leader does not know of (the assumption stated in
\* HandleSyncPrepare and in SendGapCommit's wait for a quorum).
LogsFollowLeader ==
  \A r, q \in Replicas : Follows(r, q) =>
    \A op \in 1 .. Min({Len(rep[r].log), Len(rep[q].log)}) :
      \/ Holds(q, op, rep[r].log[op].req)
      \/ Holds(q, op, NoOp)

\* A leader that is past a gap agreement (HandleGapCommitReply), and past the
\* start of its view (HandleStartViewReply), has a quorum that holds each of its
\* gaps, so no later view change can bring a request back in its place.
GapInQuorum ==
  \A q \in Replicas :
    Follows(q, q) /\ rep[q].status = "normal" /\ ~rep[q].starting =>
    \A g \in rep[q].gaps :
      Cardinality({r \in Replicas : Holds(r, g, NoOp)}) >= QuorumSize

\* No replica executes a request twice, although a client that repeats it gets
\* several places in the log (the client table of ExecuteUptoOp).
ExecutedOnce == \A r \in Replicas : IsInjective(rep[r].app)

\* Committed operations are the same everywhere: no place is a gap at one
\* replica and a request, or another request, at another.
CommittedAgree ==
  \A r, q \in Replicas :
    \A op \in 1 .. Min({rep[r].lastCommitted, rep[q].lastCommitted}) :
      op <= Len(rep[r].log) => \/ Holds(q, op, rep[r].log[op].req)
                               \/ op > Len(rep[q].log)

\* What the leader has committed by a synchronization a quorum holds.
SyncInQuorum ==
  \A q \in Replicas : Follows(q, q) =>
    \A op \in 1 .. rep[q].lastCommitted :
      Cardinality({r \in Replicas : Holds(r, op, rep[q].log[op].req)})
        >= QuorumSize

\* A request that a client completed keeps its place: the leader of that view
\* and session and of every later one holds it there, and so does whoever has
\* committed that far.
AcceptedStays ==
  \A a \in accepted : \A r \in Replicas :
    LET s == rep[r]
        later == s.view >= a.view /\ s.sess >= a.sess /\ Follows(r, r)
    IN  /\ later => Holds(r, a.opnum, a.req)
        /\ s.lastCommitted >= a.opnum /\ a.opnum <= Len(s.log)
             => Holds(r, a.opnum, a.req)

\* No assertion fails, whatever the order in which gaps, synchronization and
\* state transfer reach a replica, but two: a follower that asks the leader for a
\* SyncPrepare makes it panic, as ReceiveMessage does not dispatch the message;
\* and a state transfer (HandleStateTransferReply) asserts that its next entry is
\* the next operation, after ProcessNextOperation has installed the gaps behind
\* the entry before it.
NoAbort ==
  \A r \in Replicas :
    rep[r].failed \in
      {NoFailure, "unexpected message type", "StateTransferReply"}

\* Bound (a state constraint): nothing is explored after the leader's panic.  It
\* changes nothing but failed, so what the others do afterwards they also do
\* while the leader runs and takes no step.
NobodyAsked == \A r \in Replicas : rep[r].failed # "unexpected message type"

\* Bound (a state constraint): of the followers, which do the same things in one
\* view, only replica 1 asks for operations it misses and acknowledges the first
\* of two synchronizations, and nothing happens after the leader's panic.
OneFollowerAsks ==
  /\ NobodyAsked
  /\ \A m \in Sent("SyncPrepareReply") : m.from = 2 => m.syncpoint = MaxMsg
  /\ \A m \in Sent("GapRequest") \cup Sent("StateTransferRequest") :
       m.from \in {0, 1}

\* Bound (a state constraint): a change of leader and one of session both happen
\* only while the last request is still to come, and replica 2 does not itself
\* ask the others to join the view of both.
BothChangesBound ==
  /\ \A m \in Sent("ViewChangeRequest") :
       m.sess > 0 /\ m.view > 0 => m.from \in {0, 1}
  /\ \/ session = 0
     \/ \A r \in Replicas : rep[r].view = 0
     \/ \A c \in Clients : lastReqId[c] < MaxReq

\* "All operations upto lastCommittedOp are guaranteed to be in the stable log."
CommittedInLog ==
  \A r \in Replicas :
    rep[r].failed = NoFailure => rep[r].lastCommitted <= Len(rep[r].log)
=============================================================================
