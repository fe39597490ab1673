----------------------------- MODULE NOPaxosNet -----------------------------
(***************************************************************************)
(* The configuration of a NOPaxos group, its messages                      *)
(* (nopaxos/nopaxos-proto.proto), the sequencer that stamps the clients'   *)
(* requests (sequencer/sequencer.cc, SimulatedTransport::OrderedMulticast) *)
(* and the network.                                                        *)
(*                                                                         *)
(* msgs[t] holds all messages of type t ever sent.  A handler may take one *)
(* at any time and any number of times, or never: the network delays,      *)
(* reorders, duplicates and loses, and a timer that only sends a message   *)
(* again adds nothing.                                                     *)
(***************************************************************************)
EXTENDS Integers, Sequences, FiniteSets

CONSTANTS
  N,             \* configuration.n, the number of replicas
  F,             \* configuration.f, the failures tolerated
  Clients,       \* the client ids
  MaxReq,        \* bound: requests per client
  MaxMsg,        \* bound: requests the sequencer stamps in a session
  MaxSess,       \* bound: the last session of the sequencer
  MaxView,       \* bound: the highest view a timeout may start
  Lost           \* bound: the message types the network never delivers

ASSUME NOPaxosConfigAssumption == N \in Nat \ {0} /\ F \in Nat \ {0}
ASSUME NOPaxosBoundAssumption ==
  MaxReq \in Nat /\ MaxMsg \in Nat /\ MaxSess \in Nat /\ MaxView \in Nat

VARIABLES
  msgs,          \* the messages sent so far, by type
  session,       \* sequencer_id, the session the sequencer stamps with
  counter        \* counters[group], the last sequence number of the session

Replicas == 0 .. (N - 1)
QuorumSize == F + 1
Larger(a, b) == IF a > b THEN a ELSE b
LeaderOf(v) == v % N

\* A request is named by clientid and clientreqid, its payload left out.
Req == [client : Clients, id : 1 .. MaxReq]

\* The request of an entry in state LOG_STATE_NOOP.
NoOp == [client |-> "none", id |-> 0]

\* A log entry: its viewstamp without the opnum, which is its place, and its
\* request, NoOp for a gap.
Entry(v, se, n, q) == [view |-> v, sess |-> se, num |-> n, req |-> q]

\* The result of a reply: the request whose execution gave it (by clientreqid),
\* an empty string, or no result field at all.
EmptyResult == 0
NoResult == -1

\* The constructors, one per message.  Those of replicas carry the sender's
\* session and view (x) and name their sender; a broadcast is not delivered to
\* it, the others name their receiver in to.
OrderedMessage(q) == [type |-> "Ordered", req |-> q]
RequestMessage(se, n, q) ==
  [type |-> "Request", sess |-> se, num |-> n, req |-> q]
ReplyMessage(x, op, q, result, r) ==
  [type |-> "Reply", sess |-> x.sess, view |-> x.view, opnum |-> op,
   req |-> q, result |-> result, from |-> r]
GapRequestMessage(x, op, r, to) ==
  [type |-> "GapRequest", sess |-> x.sess, view |-> x.view, opnum |-> op,
   from |-> r, to |-> to]
GapReplyMessage(x, op, found, q, r, to) ==
  [type |-> "GapReply", sess |-> x.sess, view |-> x.view, opnum |-> op,
   isfound |-> found, req |-> q, from |-> r, to |-> to]
GapCommitMessage(x, r) ==
  [type |-> "GapCommit", sess |-> x.sess, view |-> x.view, opnum |-> x.lastOp,
   from |-> r]
GapCommitReplyMessage(x, op, r) ==
  [type |-> "GapCommitReply", sess |-> x.sess, view |-> x.view, opnum |-> op,
   from |-> r, to |-> LeaderOf(x.view)]
StateTransferRequestMessage(x, begin, end, r, to) ==
  [type |-> "StateTransferRequest", sess |-> x.sess, view |-> x.view,
   begin |-> begin, end |-> end, from |-> r, to |-> to]
StateTransferReplyMessage(x, begin, entries, to) ==
  [type |-> "StateTransferReply", sess |-> x.sess, view |-> x.view,
   begin |-> begin, entries |-> entries, to |-> to]
ViewChangeRequestMessage(x, r) ==
  [type |-> "ViewChangeRequest", sess |-> x.sess, view |-> x.view, from |-> r]
ViewChangeMessage(x, r) ==
  [type |-> "ViewChange", sess |-> x.sess, view |-> x.view,
   normal |-> x.lastNormal, lastop |-> x.lastOp, gaps |-> x.gaps,
   from |-> r, to |-> LeaderOf(x.view)]
StartViewMessage(x, r) ==
  [type |-> "StartView", sess |-> x.sess, view |-> x.view,
   normal |-> x.startView.normal, lastop |-> x.startView.lastop,
   gaps |-> x.startView.gaps, from |-> r]
StartViewReplyMessage(x, r) ==
  [type |-> "StartViewReply", sess |-> x.sess, view |-> x.view, from |-> r,
   to |-> LeaderOf(x.view)]
SyncPrepareMessage(x, r) ==
  [type |-> "SyncPrepare", sess |-> x.sess, view |-> x.view,
   lastop |-> x.lastOp, gaps |-> x.gaps, from |-> r]
SyncPrepareReplyMessage(x, point, r) ==
  [type |-> "SyncPrepareReply", sess |-> x.sess, view |-> x.view,
   syncpoint |-> point, from |-> r, to |-> LeaderOf(x.view)]
SyncCommitMessage(x, r) ==
  [type |-> "SyncCommit", sess |-> x.sess, view |-> x.view,
   syncpoint |-> x.lastCommitted, from |-> r]
SyncPrepareRequestMessage(x) ==
  [type |-> "SyncPrepareRequest", sess |-> x.sess, view |-> x.view,
   to |-> LeaderOf(x.view)]

MessageTypes ==
  {"Ordered", "Request", "Reply", "GapRequest", "GapReply", "GapCommit",
   "GapCommitReply", "StateTransferRequest", "StateTransferReply",
   "ViewChangeRequest", "ViewChange", "StartView", "StartViewReply",
   "SyncPrepare", "SyncPrepareReply", "SyncCommit", "SyncPrepareRequest"}

Sent(type) == msgs[type]

\* A message that is never delivered need not be remembered.
Send(out) ==
  msgs' = IF out = {} THEN msgs
          ELSE [t \in MessageTypes |->
                  msgs[t] \cup {m \in out : m.type = t /\ t \notin Lost}]

\* What reaches r: broadcasts of others, and what is addressed to r.
Broadcast(type, r) == {m \in Sent(type) : m.from # r}
Addressed(type, r) == {m \in Sent(type) : m.to = r}

-----------------------------------------------------------------------------
\* The sequencer.

sequencerVars == <<session, counter>>

NetInit == msgs = [t \in MessageTypes |-> {}] /\ session = 0 /\ counter = 0

\* ProcessPacket: a request is stamped with the session and the next sequence
\* number of the group, and multicast.  A resent or duplicated request gets a
\* number of its own.
Stamp(m) ==
  /\ counter < MaxMsg
  /\ counter' = counter + 1
  /\ Send({RequestMessage(session, counter', m.req)})
  /\ UNCHANGED session

\* SessionChange: another sequencer takes over, and starts again at 1.
SessionChange ==
  /\ session < MaxSess
  /\ session' = session + 1
  /\ counter' = 0
  /\ UNCHANGED msgs
=============================================================================
