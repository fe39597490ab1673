---------------------------- MODULE PaxosBusNet ----------------------------
(***************************************************************************)
(* The configuration of a PaxosBus group and the UDP network between its   *)
(* replicas and one client.                                                *)
(*                                                                         *)
(* Every handler of a replica touches only clients[client_id], so streams  *)
(* of different clients do not interact and one stream is modelled.  The   *)
(* view is always 0 (view_id_ is never assigned), so the leader is replica *)
(* GetLeaderIndex(0) = 0.                                                  *)
(*                                                                         *)
(* msgs is the set of all messages ever sent.  A handler may take a        *)
(* message of the set at any time and any number of times, or never: that  *)
(* is a UDP network that delays, reorders, duplicates and loses.           *)
(***************************************************************************)
EXTENDS Integers, FiniteSets

CONSTANTS
  N,             \* config.n, the number of replicas
  F,             \* config.f, the failures tolerated
  MaxSlot,       \* bound: seq_nums (= log slots) are 1..MaxSlot
  MaxReq         \* bound: app_req_ids are 1..MaxReq

ASSUME ConfigAssumption == N \in Nat \ {0} /\ F \in Nat
ASSUME BoundAssumption == MaxSlot \in Nat \ {0} /\ MaxReq \in Nat \ {0}

VARIABLE msgs    \* the set of messages sent so far

Replicas == 0 .. (N - 1)
Leader == 0
Followers == Replicas \ {Leader}
QuorumSize == F + 1

Slots == 1 .. MaxSlot
Reqs == 1 .. MaxReq

\* The record constructors, one per message of paxosbus-proto.proto.  The
\* payload of a Data message is represented by its app_req_id; timestamps and
\* the constant client_id and view_id are left out.
Sync              == [type |-> "Sync"]
Data(s, q)        == [type |-> "Data", seq |-> s, req |-> q]
DataReply(s, r)   == [type |-> "DataReply", seq |-> s, from |-> r]
GapRequest(s, r)  == [type |-> "GapRequest", seq |-> s, from |-> r]
GapReply(s, q, r) == [type |-> "GapReply", seq |-> s, req |-> q, to |-> r]
GapCommit(s, r)   == [type |-> "GapCommit", seq |-> s, to |-> r]
GapCommitReply(s, r) == [type |-> "GapCommitReply", seq |-> s, from |-> r]

Message ==
       {Sync}
  \cup {Data(s, q) : s \in Slots, q \in Reqs}
  \cup {DataReply(s, r) : s \in Slots, r \in Replicas}
  \cup {GapRequest(s, r) : s \in Slots, r \in Followers}
  \cup {GapReply(s, q, r) : s \in Slots, q \in Reqs, r \in Followers}
  \cup {GapCommit(s, r) : s \in Slots, r \in Followers}
  \cup {GapCommitReply(s, r) : s \in Slots, r \in Followers}

Send(ms) == msgs' = msgs \cup ms
=============================================================================
