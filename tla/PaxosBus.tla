------------------------------ MODULE PaxosBus -----------------------------
(***************************************************************************)
(* A PaxosBus deployment: one client, N replicas and the network between   *)
(* them.  Each process is a single-threaded event loop, so a handler or a  *)
(* timer callback is one atomic step and the steps of the processes        *)
(* interleave.                                                             *)
(***************************************************************************)
EXTENDS PaxosBusClient, PaxosBusReplica

vars == <<msgs, clientVars, replicaVars>>

Init ==
  /\ msgs = {}
  /\ ClientInit
  /\ ReplicaInit

Next ==
  \/ ClientNext /\ UNCHANGED replicaVars
  \/ ReplicaNext /\ UNCHANGED clientVars

Spec == Init /\ [][Next]_vars

-----------------------------------------------------------------------------
\* The state of the client, of the replicas and of the network has its type.
TypeOK == msgs \subseteq Message /\ ClientTypeOK /\ ReplicaTypeOK

\* Only the leader decides a NoOp (OnGapTimeout): a follower holds a NoOp in a
\* slot only if the leader does, so a slot the leader RECEIVED is never
\* overwritten anywhere by HandleGapCommit.
NoOpComesFromLeader ==
  \A r \in Replicas, s \in Slots :
    log[r][s] = NOOP => log[Leader][s] = NOOP

\* Two replicas that hold data in a slot hold the same data, whether it came
\* from the client (HandleData) or from the leader (HandleGapReply).
LogsAgree ==
  \A r, p \in Replicas, s \in Slots :
    log[r][s] \in Reqs /\ log[p][s] \in Reqs => log[r][s] = log[p][s]

\* What HandleDataReply counted is really there: a committed request is in the
\* log of each of the f + 1 replicas that replied, the leader among them, unless
\* the leader had decided a NoOp for its slot.
CommitDurable ==
  GapEnabled =>
    \A c \in committed :
      /\ Cardinality(c.by) >= QuorumSize
      /\ log[Leader][c.seq] = NOOP \/ \A r \in c.by \cup {Leader} : log[r][c.seq] = c.req

\* NOOP-DURABLE is reported only when f + 1 replicas hold the NoOp
\* (HandleGapCommitReply counts each follower once, and the leader).
NoOpDurable ==
  \A s \in durable :
    Cardinality({r \in Replicas : log[r][s] = NOOP}) >= QuorumSize

\* A logical request is reported COMMITTED at most once, in one slot, however
\* its resends race with the late replies of the slots it abandoned.
CommitOnce ==
  \A c, d \in committed : c.req = d.req => c = d

\* No hole is left behind the frontier, where the gap scan of OnGapTimeout
\* would never look again.
NoHoleBehindFrontier ==
  \A r \in Replicas, s \in Slots :
    s < nextExpected[r] => log[r][s] # EMPTY

\* A NoOp is final at the replica that holds it, and data is only ever
\* replaced by a NoOp.
LogIsStable ==
  [][\A r \in Replicas, s \in Slots :
        /\ log[r][s] = NOOP => log'[r][s] = NOOP
        /\ log[r][s] \in Reqs => log'[r][s] \in {log[r][s], NOOP}]_vars

\* Bound (a state constraint): of the followers, which do the same things, only
\* replica 1 asks the leader for a slot; the others wait for what they miss.
OneFollowerAsks == \A s \in Slots : \A r \in Followers \ {1} : GapRequest(s, r) \notin msgs

\* Bound (a state constraint): nor does a second Sync reach the followers other
\* than replica 1 once they hold data.
OneFollowerSyncsAgain ==
  \A r \in Followers \ {1} :
    maxSeqSeen[r] = 0 => \A s \in Slots : log[r][s] \notin Reqs

-----------------------------------------------------------------------------
(* The inductive invariant behind the properties above.                     *)

\* What was sent is still true of the logs, which only grow towards NoOp.
MessagesTrue ==
  \A s \in Slots :
    /\ \A q \in Reqs : Data(s, q) \in msgs => s <= seqNum
    /\ \A q, p \in Reqs : Data(s, q) \in msgs /\ Data(s, p) \in msgs => q = p
    /\ \A q \in Reqs, r \in Replicas :
         GapReply(s, q, r) \in msgs => Data(s, q) \in msgs
    /\ \A r \in Replicas :
         /\ GapCommit(s, r) \in msgs => log[Leader][s] = NOOP
         /\ GapCommitReply(s, r) \in msgs => log[r][s] = NOOP
         /\ GapEnabled /\ DataReply(s, r) \in msgs => log[r][s] # EMPTY

\* A log holds only what the client sent; the leader counts only real acks.
LogsTrue ==
  \A s \in Slots :
    /\ \A r \in Replicas : log[r][s] \in Reqs => Data(s, log[r][s]) \in msgs
    /\ \A r \in acks[s] : GapCommitReply(s, r) \in msgs

\* A request is in flight in at most one slot, and no longer once committed.
ClientTrue ==
  /\ \A s \in Slots : InFlight(s) =>
       /\ Data(s, inflight[s].req) \in msgs
       /\ inflight[s].req <= appReqId
       /\ \A r \in inflight[s].replicaMask : DataReply(s, r) \in msgs
       /\ \A t \in Slots : inflight[t].req = inflight[s].req => t = s
  /\ \A c \in committed :
       /\ Data(c.seq, c.req) \in msgs
       /\ c.req <= appReqId
       /\ HasQuorum(c.by)
       /\ \A r \in c.by : DataReply(c.seq, r) \in msgs
       /\ \A t \in Slots : inflight[t].req # c.req

\* Messages, logs and the client's table agree: the strengthening that makes
\* the properties of the handlers inductive.
IndInv ==
  /\ MessagesTrue
  /\ LogsTrue
  /\ ClientTrue
  /\ NoOpComesFromLeader
  /\ NoOpDurable
  /\ CommitOnce
  /\ NoHoleBehindFrontier

-----------------------------------------------------------------------------
(* PaxosBus in gap mode implements SlotLog: the requests offered are those  *)
(* in the Data messages sent, a copy is a row of a replica's log.           *)

Offered == {o \in [seq : Slots, req : Reqs] : Data(o.seq, o.req) \in msgs}

SL == INSTANCE SlotLog WITH Empty <- EMPTY, NoOp <- NOOP, offered <- Offered,
                            copy <- log, reported <- committed

\* Every step of the client and of the replicas is a step of the abstract slot
\* log or leaves it alone: the leader's slot is written once, only its NoOps
\* spread, and only a filled leader-inclusive quorum is reported, once.
ImplementsSlotLog == SL!SlotSpec

-----------------------------------------------------------------------------
(* A statement of the source that the code does not keep.                   *)

\* client.cc:179-181 asks for the leader's reply because "a quorum without it
\* could later be overwritten by a NoOp commit": a committed slot is no NoOp.
CommittedIsNotNoOp ==
  \A c \in committed : log[Leader][c.seq] # NOOP
=============================================================================
