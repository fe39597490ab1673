-------------------------------- MODULE VR --------------------------------
(***************************************************************************)
(* Viewstamped Replication (vr/): the replicas of VRReplica, the clients   *)
(* of VRClient and the network of VRNet.                                   *)
(***************************************************************************)
EXTENDS VRReplica, VRClient

\* Clients are interchangeable.
ClientSymmetry == Permutations(Clients)

vars == <<rep, lastReqId, pending, msgs>>

Init == ReplicaInit /\ ClientInit /\ msgs = {}

ClientNext ==
  /\ UNCHANGED rep
  /\ \E c \in Clients :
       \/ Invoke(c)
       \/ \E m \in Sent("Reply") : HandleReply(c, m)

\* What replica r does with the messages it receives.
Receive(r) ==
  \/ \E m \in Sent("Request") : HandleRequest(r, m)
  \/ \E m \in Broadcast("Prepare", r) : HandlePrepare(r, m)
  \/ \E m \in Addressed("PrepareOK", r) : HandlePrepareOK(r, m)
  \/ \E m \in Broadcast("Commit", r) : HandleCommit(r, m)
  \/ \E m \in Broadcast("RequestStateTransfer", r) :
       HandleRequestStateTransfer(r, m)
  \/ \E m \in Addressed("StateTransfer", r) : HandleStateTransfer(r, m)

ReceiveViewChange(r) ==
  \/ \E m \in Broadcast("StartViewChange", r) : HandleStartViewChange(r, m)
  \/ \E m \in Addressed("DoViewChange", r) : HandleDoViewChange(r, m)
  \/ \E m \in Broadcast("StartView", r) : HandleStartView(r, m)

ReceiveRecovery(r) ==
  \/ \E m \in Broadcast("Recovery", r) : HandleRecovery(r, m)
  \/ \E m \in Addressed("RecoveryResponse", r) : HandleRecoveryResponse(r, m)

Timers(r) ==
  \/ CloseBatchTimeout(r)
  \/ SendNullCommit(r)
  \/ ViewChangeTimeout(r)
  \/ Restart(r)

ReplicaNext ==
  /\ UNCHANGED clientVars
  /\ \E r \in Replicas :
       Receive(r) \/ ReceiveViewChange(r) \/ ReceiveRecovery(r) \/ Timers(r)

Next == ClientNext \/ ReplicaNext

Spec == Init /\ [][Next]_vars

-----------------------------------------------------------------------------
\* The type invariant of the replicas' states.
TypeOK ==
  /\ \A c \in Clients : lastReqId[c] \in 0 .. MaxReq /\ pending[c] \in BOOLEAN
  /\ \A r \in Replicas :
       LET s == rep[r]
       IN  /\ s.status \in {"normal", "viewchange", "recovering"}
           /\ s.view \in 0 .. MaxView
           /\ s.log \in Seq(Entry) /\ s.app \in Seq(Req)
           /\ s.lastOp \in 0 .. Len(s.log)
           /\ s.failed = NoFailure => s.lastCommitted \in 0 .. s.lastOp
           /\ Len(s.app) = s.lastCommitted
           /\ \A c \in Clients : /\ s.table[c].id \in 0 .. MaxReq
                                 /\ s.table[c].reply >= NoReply
           /\ s.addrs \subseteq Clients /\ s.batchDone \in BOOLEAN
           /\ s.nonce \in 0 .. MaxRestart

\* Replicas execute the same requests in the same order (CommitUpTo).
ExecutionsAgree ==
  \A r, q \in Replicas :
    IsPrefix(rep[r].app, rep[q].app) \/ IsPrefix(rep[q].app, rep[r].app)

\* No replica executes a request twice (the client table of HandleRequest).
ExecutedOnce ==
  \A r \in Replicas : IsInjective(rep[r].app)

\* What some replica has executed is in the logs of a quorum.
ExecutedInQuorum ==
  \A r \in Replicas : \A op \in 1 .. Len(rep[r].app) :
    Cardinality({q \in Replicas : /\ op <= Len(rep[q].log)
                                  /\ rep[q].log[op].req = rep[r].app[op]})
      >= QuorumSize

\* A viewstamp names one request, and logs that share one agree up to it.
LogsMatch ==
  \A r, q \in Replicas :
    \A op \in 1 .. Min({Len(rep[r].log), Len(rep[q].log)}) :
      rep[r].log[op].view = rep[q].log[op].view
        => SubSeq(rep[r].log, 1, op) = SubSeq(rep[q].log, 1, op)

\* No ASSERT fails and no Panic is reached.
NoAbort == \A r \in Replicas : rep[r].failed = NoFailure

\* A replica holds, in a view, every operation it acknowledged in that view,
\* whatever it lost in a crash (HandlePrepare, SendPrepareOKs, Recover).
AcksHeld ==
  \A m \in Sent("PrepareOK") :
    LET s == rep[m.from]
    IN  s.status = "normal" /\ s.view = m.view => m.opnum <= s.lastOp

\* Entries a replica has executed stay in its log as long as it runs: no
\* RemoveAfter and no Install touches them.
CommittedStable ==
  [][\A r \in Replicas :
       rep'[r].nonce = rep[r].nonce =>
         IsPrefix(SubSeq(rep[r].log, 1, rep[r].lastCommitted), rep'[r].log)]_vars

-----------------------------------------------------------------------------
(* Bounds of the runs (state constraints).                                  *)

\* At most two batches: a single request and the batch that gathers behind it.
TwoBatches == Cardinality(Sent("Prepare")) <= 2

\* The followers of one view do the same things: replica 1 is the one that
\* misses operations and asks for them.
OneFollowerAsks ==
  \A m \in Sent("RequestStateTransfer") : m.from = 1

\* A second view change only after the first leader has failed for good, and
\* while the last request of the clients is still to come.
SecondChangeBound ==
  \/ \A r \in Replicas : rep[r].view <= 1
  \/ rep[0].view = 0 /\ \A c \in Clients : lastReqId[c] < MaxReq
=============================================================================
