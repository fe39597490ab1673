------------------------------- MODULE VRNet -------------------------------
(***************************************************************************)
(* The configuration of a Viewstamped Replication group, its messages      *)
(* (vr/vr-proto.proto) and the UDP network.                                *)
(*                                                                         *)
(* msgs is the set of all messages ever sent.  A handler may take one at   *)
(* any time and any number of times, or never: the network delays,         *)
(* reorders, duplicates and loses, and what a timer only sends again       *)
(* (ResendPrepare, ResendRequest, the repeated Recovery) adds nothing.     *)
(***************************************************************************)
EXTENDS Integers, Sequences, FiniteSets

CONSTANTS
  N,             \* configuration.n, the number of replicas
  F,             \* configuration.f, the failures tolerated
  Clients,       \* the client ids
  MaxReq,        \* bound: requests per client
  MaxView,       \* bound: the highest view a timeout may start
  MaxRestart,    \* bound: restarts per replica
  Lost           \* bound: the message types the network never delivers

ASSUME VRConfigAssumption == N \in Nat \ {0} /\ F \in Nat \ {0}
ASSUME VRBoundAssumption ==
  MaxReq \in Nat /\ MaxView \in Nat /\ MaxRestart \in Nat

VARIABLE msgs    \* the set of messages sent so far

Replicas == 0 .. (N - 1)
QuorumSize == F + 1
LeaderOf(v) == v % N

\* A request is named by clientid and clientreqid, its payload left out.
Req == [client : Clients, id : 1 .. MaxReq]

\* A log entry is the view of its viewstamp and its request; the opnum is its
\* place.
Entry == [view : Nat, req : Req]

\* The constructors, one per message.  A broadcast has the sender in from and
\* is not delivered to it; the others name their receiver in to.
RequestMessage(q) == [type |-> "Request", req |-> q]
ReplyMessage(q, op) == [type |-> "Reply", req |-> q, op |-> op]
PrepareMessage(v, start, reqs) ==
  [type |-> "Prepare", view |-> v, batchstart |-> start, reqs |-> reqs,
   opnum |-> start + Len(reqs) - 1, from |-> LeaderOf(v)]
PrepareOKMessage(v, op, r) ==
  [type |-> "PrepareOK", view |-> v, opnum |-> op, from |-> r,
   to |-> LeaderOf(v)]
CommitMessage(v, op) ==
  [type |-> "Commit", view |-> v, opnum |-> op, from |-> LeaderOf(v)]
RequestStateTransferMessage(v, op, r) ==
  [type |-> "RequestStateTransfer", view |-> v, opnum |-> op, from |-> r]
StateTransferMessage(v, op, es, r) ==
  [type |-> "StateTransfer", view |-> v, opnum |-> op, entries |-> es,
   to |-> r]
StartViewChangeMessage(v, committed, r) ==
  [type |-> "StartViewChange", view |-> v, lastcommitted |-> committed,
   from |-> r]
DoViewChangeMessage(v, normal, op, committed, es, r) ==
  [type |-> "DoViewChange", view |-> v, lastnormalview |-> normal,
   lastop |-> op, lastcommitted |-> committed, entries |-> es,
   from |-> r, to |-> LeaderOf(v)]
StartViewMessage(v, op, committed, es) ==
  [type |-> "StartView", view |-> v, lastop |-> op,
   lastcommitted |-> committed, entries |-> es, from |-> LeaderOf(v)]
RecoveryMessage(nonce, r) == [type |-> "Recovery", nonce |-> nonce, from |-> r]
RecoveryResponseMessage(v, nonce, op, committed, es, r, p) ==
  [type |-> "RecoveryResponse", view |-> v, nonce |-> nonce, lastop |-> op,
   lastcommitted |-> committed, entries |-> es, from |-> r, to |-> p]

\* The messages of one type that the network may deliver.
Sent(type) == {m \in msgs : m.type = type /\ type \notin Lost}

\* What reaches r: broadcasts of others, and what is addressed to r.
Broadcast(type, r) == {m \in Sent(type) : m.from # r}
Addressed(type, r) == {m \in Sent(type) : m.to = r}
=============================================================================
