---------------------------- MODULE NOPaxosClient ----------------------------
(***************************************************************************)
(* The clients of NOPaxos (nopaxos/client.cc).  A client has at most one   *)
(* request outstanding (Invoke panics otherwise, and is called only when   *)
(* there is none).  ResendRequest sends the same message to the sequencer, *)
(* which stamps it again.                                                  *)
(***************************************************************************)
EXTENDS NOPaxosNet, SequencesExt

VARIABLES
  lastReqId,     \* the id of the client's last request
  pending,       \* pendingRequest # NULL
  accepted       \* history: the replies the clients completed with

clientVars == <<lastReqId, pending, accepted>>

ClientInit ==
  /\ lastReqId = [c \in Clients |-> 0]
  /\ pending = [c \in Clients |-> FALSE]
  /\ accepted = {}

Invoke(c) ==
  /\ ~pending[c] /\ lastReqId[c] < MaxReq
  /\ lastReqId' = [lastReqId EXCEPT ![c] = @ + 1]
  /\ pending' = [pending EXCEPT ![c] = TRUE]
  /\ Send({OrderedMessage([client |-> c, id |-> lastReqId[c] + 1])})
  /\ UNCHANGED accepted

\* The search for the leader's reply of the latest view, over the replies in
\* the order of the replicas.  A later session does not discard the leader
\* found so far.
LeaderReply(rs) ==
  LET Scan(acc, x) ==
        LET view == Larger(acc.view, x.view)
            sess == Larger(acc.sess, x.sess)
        IN  [view |-> view, sess |-> sess,
             lead |-> IF /\ LeaderOf(x.view) = x.from
                         /\ x.view = view /\ x.sess = sess
                      THEN {x}
                      ELSE IF x.view > acc.view THEN {} ELSE acc.lead]
      after[n \in 0 .. N] ==  \* once the replies of the first n are scanned
        IF n = 0 THEN [view |-> 0, sess |-> 0, lead |-> {}]
        ELSE LET of == {x \in rs : x.from = n - 1}
             IN  IF of = {} THEN after[n - 1]
                 ELSE Scan(after[n - 1], CHOOSE x \in of : TRUE)
  IN  after[N].lead

Matching(rs, lead) ==
  {x \in rs : x.view = lead.view /\ x.sess = lead.sess /\ x.opnum = lead.opnum}

\* replyQuorum holds the latest reply to the pending request that came from
\* each of some replicas.  As the network loses, delays and repeats, that is
\* any choice among the replies sent.
Quorums(c) ==
  LET rs == {m \in Sent("Reply") : m.req = [client |-> c, id |-> lastReqId[c]]}
  IN  {q \in SUBSET rs : /\ Cardinality(q) >= QuorumSize
                         /\ \A x, y \in q : x.from = y.from => x = y}

\* HandleReply: with a quorum of replies, among them the leader's, that name
\* the same place in the log the operation is complete.
HandleReply(c) ==
  /\ pending[c]
  /\ \E q \in Quorums(c) : \E lead \in LeaderReply(q) :
       /\ Cardinality(Matching(q, lead)) >= QuorumSize
       /\ accepted' = accepted \cup {lead}
  /\ pending' = [pending EXCEPT ![c] = FALSE]
  /\ UNCHANGED <<lastReqId, msgs>>
=============================================================================
