-------------------------- MODULE PaxosBusReplica --------------------------
(***************************************************************************)
(* The PaxosBus replica (paxosbus/replica.cc): one log slot per seq_num    *)
(* of the client's stream, a gap detector that watches the lowest unfilled *)
(* slot, recovery of a follower's hole from the leader, and agreement on a *)
(* NoOp for a slot the leader itself is missing.                           *)
(*                                                                         *)
(* Time.  A slot is overdue when its predicted arrival plus Delta has      *)
(* passed.  The prediction is re-anchored at every arrival, so between two *)
(* firings of the gap timer any slot may become overdue, in slot order:    *)
(* OnGapTimeout takes an arbitrary cut-off slot.                           *)
(*                                                                         *)
(* The gap timer is one-shot.  ArmGapTimer cancels the pending timer and   *)
(* starts another, with an id of its own, so a timer only fires when       *)
(* nothing restarts it before its delay has passed.                        *)
(***************************************************************************)
EXTENDS PaxosBusNet

CONSTANTS
  GapEnabled,    \* gapEnabled
  DropMod,       \* dropMod, 0 = off
  NoopMod,       \* noopMod, 0 = off
  Later,         \* bound: slots beyond MaxSlot, numbered in turn, 0 = none
  Timers         \* bound: timer ids are 1..Timers, given out in turn

ASSUME ReplicaAssumption ==
  /\ GapEnabled \in BOOLEAN /\ DropMod \in Nat /\ NoopMod \in Nat
  /\ Later \in Nat /\ Timers \in Nat \ {0}

VARIABLES
  known,         \* clients has an entry for the client
  addr,          \* clientAddr has an entry for the client
  log,           \* the map log: EMPTY, NOOP, or the request RECEIVED
  nextExpected,  \* the contiguity frontier
  maxSeqSeen,    \* the highest seq_num seen
  gapTimerId,    \* the pending gap timer, 0 = none
  noopStart,     \* leader: the keys of noopStartNs
  acks,          \* leader: gapCommitAcks
  durable        \* output: the slots of the NOOP-DURABLE lines

replicaVars == <<known, addr, log, nextExpected, maxSeqSeen, gapTimerId,
                 noopStart, acks, durable>>

EMPTY == 0
NOOP == -1
LogEntry == Reqs \cup {EMPTY, NOOP}

ReplicaInit ==
  /\ known = [r \in Replicas |-> FALSE]
  /\ addr = [r \in Replicas |-> FALSE]
  /\ log = [r \in Replicas |-> [s \in Slots |-> EMPTY]]
  /\ nextExpected = [r \in Replicas |-> 1]
  /\ maxSeqSeen = [r \in Replicas |-> 0]
  /\ gapTimerId = [r \in Replicas |-> 0]
  /\ noopStart = {}
  /\ acks = [s \in Slots |-> {}]
  /\ durable = {}

Larger(a, b) == IF a >= b THEN a ELSE b

\* The simulated losses: noopMod at every replica, dropMod at followers only.
ShouldDrop(r, s) ==
  \/ NoopMod > 0 /\ s % NoopMod = 0
  \/ DropMod > 0 /\ r # Leader /\ (s + r) % DropMod = 0

\* ReplyToClient: nothing is sent while the client's address is unknown.
Replies(r, s, hasAddr) == IF hasAddr THEN {DataReply(s, r)} ELSE {}

\* Mutant of RecordReceived: late data overwrites a NoOp.
RecordOver(row, s, q) == [row EXCEPT ![s] = q]

\* RecordReceived, as the new value of a log row: a NoOp is final.
RecordReceived(row, s, q) ==
  IF row[s] = NOOP THEN row ELSE [row EXCEPT ![s] = q]

\* Mutant of IsFrontier: the walk jumps over holes.
IsFrontierJump(row, n, k) == k >= n /\ (k \in Slots => row[k] = EMPTY)

\* k is where the frontier n stops when it walks over the filled slots of row.
IsFrontier(row, n, k) ==
  /\ k >= n
  /\ \A s \in Slots : n <= s /\ s < k => row[s] # EMPTY
  /\ k \in Slots => row[k] = EMPTY

\* ArmGapTimer, as the id of the new timer: whatever timer was pending is
\* cancelled.
ArmGapTimer(id) == IF id < Timers THEN id + 1 ELSE 1

\* Move the frontier of r, whose log row becomes row, and restart its gap timer.
AdvanceContiguous(r, row) ==
  /\ log' = [log EXCEPT ![r] = row]
  /\ \E k \in 1 .. (MaxSlot + 1) :
       /\ IsFrontier(row, nextExpected[r], k)
       /\ nextExpected' = [nextExpected EXCEPT ![r] = k]
  /\ gapTimerId' = [gapTimerId EXCEPT ![r] = IF GapEnabled THEN ArmGapTimer(@)
                                                            ELSE @]

-----------------------------------------------------------------------------
\* A Sync opens the stream, or reopens it: the frontier and maxSeqSeen are
\* reset, the log and the gap bookkeeping are not.
HandleSync(r) ==
  /\ Sync \in msgs
  /\ known' = [known EXCEPT ![r] = TRUE]
  /\ addr' = [addr EXCEPT ![r] = TRUE]
  /\ nextExpected' = [nextExpected EXCEPT ![r] = 1]
  /\ maxSeqSeen' = [maxSeqSeen EXCEPT ![r] = 0]
  /\ UNCHANGED <<log, gapTimerId, noopStart, acks, durable, msgs>>

\* Data of a stream never opened is ignored.  Data the knobs drop only raises
\* maxSeqSeen.  The reply goes out whatever RecordReceived did.
HandleData(r, s, q) ==
  /\ Data(s, q) \in msgs
  /\ known[r]
  /\ addr' = [addr EXCEPT ![r] = TRUE]
  /\ maxSeqSeen' = [maxSeqSeen EXCEPT ![r] = Larger(maxSeqSeen[r], s)]
  /\ \/ /\ GapEnabled /\ ShouldDrop(r, s)
        /\ UNCHANGED <<log, nextExpected, gapTimerId, msgs>>
     \/ /\ ~(GapEnabled /\ ShouldDrop(r, s))
        /\ Send(Replies(r, s, TRUE))
        /\ IF GapEnabled
           THEN AdvanceContiguous(r, RecordReceived(log[r], s, q))
           ELSE UNCHANGED <<log, nextExpected, gapTimerId>>
  /\ UNCHANGED <<known, noopStart, acks, durable>>

\* The number of the next slot beyond MaxSlot.
LaterSlot(n) ==
  IF MaxSlot < n /\ n < MaxSlot + Later THEN n + 1 ELSE MaxSlot + 1

\* The stream does not end at MaxSlot: HandleData for a later slot, of which only
\* what it does to the slots up to MaxSlot is kept.  Whether the knobs drop it
\* depends on its number.
HandleLaterData(r) ==
  /\ Later > 0 /\ \E q \in Reqs : Data(MaxSlot, q) \in msgs
  /\ known[r]
  /\ addr' = [addr EXCEPT ![r] = TRUE]
  /\ maxSeqSeen' = [maxSeqSeen EXCEPT ![r] = LaterSlot(@)]
  /\ \/ /\ GapEnabled /\ NoopMod + DropMod > 0
        /\ UNCHANGED <<log, nextExpected, gapTimerId>>
     \/ IF GapEnabled THEN AdvanceContiguous(r, log[r])
                      ELSE UNCHANGED <<log, nextExpected, gapTimerId>>
  /\ UNCHANGED <<known, noopStart, acks, durable, msgs>>

\* Mutant of Overdue: the scan does not skip filled slots.
OverdueFilled(r, cut) ==
  {s \in Slots : /\ s <= Larger(maxSeqSeen[r], nextExpected[r])
                 /\ s <= cut}

\* The slots the scan of OnGapTimeout acts on when slots above cut are still
\* in their window.
Overdue(r, cut) ==
  {s \in Slots : /\ nextExpected[r] <= s
                 /\ s <= Larger(maxSeqSeen[r], nextExpected[r])
                 /\ s <= cut
                 /\ log[r][s] = EMPTY}

\* Mutant of StartGapAgreement: the broadcast reaches the leader too.
StartGapAgreementToAll(r, S) ==
  /\ r = Leader
  /\ AdvanceContiguous(r, [s \in Slots |-> IF s \in S THEN NOOP ELSE log[r][s]])
  /\ noopStart' = noopStart \cup S
  /\ acks' = [s \in Slots |-> IF s \in S THEN {} ELSE acks[s]]
  /\ Send({GapCommit(s, p) : s \in S, p \in Replicas})

\* StartGapAgreement for the slots of S: NoOp in the leader's log, and one
\* broadcast (which does not reach the sender itself).
StartGapAgreement(r, S) ==
  /\ r = Leader
  /\ AdvanceContiguous(r, [s \in Slots |-> IF s \in S THEN NOOP ELSE log[r][s]])
  /\ noopStart' = noopStart \cup S
  /\ acks' = [s \in Slots |-> IF s \in S THEN {} ELSE acks[s]]
  /\ Send({GapCommit(s, p) : s \in S, p \in Followers})

\* SendGapRequest for the slots of S.  gapRequestNs and gapLastReqNs only
\* space out the repetitions of a GapRequest; a repetition adds nothing to
\* msgs.
SendGapRequest(r, S) ==
  /\ r # Leader
  /\ Send({GapRequest(s, r) : s \in S})
  /\ AdvanceContiguous(r, log[r])
  /\ UNCHANGED <<noopStart, acks>>

OnGapTimeout(r, cut) ==
  /\ gapTimerId[r] # 0
  /\ \/ StartGapAgreement(r, Overdue(r, cut))
     \/ SendGapRequest(r, Overdue(r, cut))
  /\ UNCHANGED <<known, addr, maxSeqSeen, durable>>

\* Mutant of GapAnswer: a slot the leader lacks is escalated to a NoOp.
GapAnswerEscalate(row, s, p) ==
  IF row[s] \in Reqs THEN {GapReply(s, row[s], p)} ELSE {GapCommit(s, p)}

\* Mutant of GapAnswer: a NoOp is not repeated to the requester.
GapAnswerNoResend(row, s, p) ==
  IF row[s] \in Reqs THEN {GapReply(s, row[s], p)} ELSE {}

\* What a leader with log row answers p: it serves a slot it holds, repeats the
\* GapCommit of a NoOp, and is silent about a slot it does not have.
GapAnswer(row, s, p) ==
  CASE row[s] \in Reqs -> {GapReply(s, row[s], p)}
    [] row[s] = NOOP   -> {GapCommit(s, p)}
    [] row[s] = EMPTY  -> {}

\* The stream is created even when there is no answer.
HandleGapRequest(r, s, p) ==
  /\ GapRequest(s, p) \in msgs
  /\ r = Leader
  /\ known' = [known EXCEPT ![r] = TRUE]
  /\ Send(GapAnswer(log[r], s, p))
  /\ UNCHANGED <<addr, log, nextExpected, maxSeqSeen, gapTimerId, noopStart,
                 acks, durable>>

\* found is TRUE in every GapReply that is sent.
HandleGapReply(r, s, q) ==
  /\ GapReply(s, q, r) \in msgs
  /\ known' = [known EXCEPT ![r] = TRUE]
  /\ log[r][s] = EMPTY
  /\ maxSeqSeen' = [maxSeqSeen EXCEPT ![r] = Larger(maxSeqSeen[r], s)]
  /\ Send(Replies(r, s, addr[r]))
  /\ AdvanceContiguous(r, RecordReceived(log[r], s, q))
  /\ UNCHANGED <<addr, noopStart, acks, durable>>

\* Mutant of HandleGapCommit: data already held is not overwritten.
HandleGapCommitKeeps(r, s) ==
  /\ GapCommit(s, r) \in msgs
  /\ known' = [known EXCEPT ![r] = TRUE]
  /\ AdvanceContiguous(r, IF log[r][s] = EMPTY
                          THEN [log[r] EXCEPT ![s] = NOOP] ELSE log[r])
  /\ Send({GapCommitReply(s, r)})
  /\ UNCHANGED <<addr, maxSeqSeen, noopStart, acks, durable>>

\* The slot becomes a NoOp whatever the follower holds, and is acknowledged.
HandleGapCommit(r, s) ==
  /\ GapCommit(s, r) \in msgs
  /\ known' = [known EXCEPT ![r] = TRUE]
  /\ AdvanceContiguous(r, [log[r] EXCEPT ![s] = NOOP])
  /\ Send({GapCommitReply(s, r)})
  /\ UNCHANGED <<addr, maxSeqSeen, noopStart, acks, durable>>

\* The leader counts itself, so QuorumSize - 1 followers make f + 1.
HandleGapCommitReply(r, s, p) ==
  LET got == acks[s] \cup {p}
      enough == Cardinality(got) >= QuorumSize - 1
  IN  /\ GapCommitReply(s, p) \in msgs
      /\ r = Leader
      /\ s \in noopStart
      /\ \/ /\ ~enough
            /\ acks' = [acks EXCEPT ![s] = got]
            /\ UNCHANGED <<noopStart, durable>>
         \/ /\ enough
            /\ acks' = [acks EXCEPT ![s] = {}]
            /\ noopStart' = noopStart \ {s}
            /\ durable' = durable \cup {s}
      /\ known' = [known EXCEPT ![r] = TRUE]
      /\ UNCHANGED <<addr, log, nextExpected, maxSeqSeen, gapTimerId, msgs>>

ReplicaNext ==
  \E r \in Replicas :
    \/ HandleSync(r)
    \/ \E s \in Slots, q \in Reqs : HandleData(r, s, q)
    \/ HandleLaterData(r)
    \/ \E s \in Slots, p \in Replicas : HandleGapRequest(r, s, p)
    \/ \E s \in Slots, q \in Reqs : HandleGapReply(r, s, q)
    \/ \E s \in Slots : HandleGapCommit(r, s)
    \/ \E s \in Slots, p \in Replicas : HandleGapCommitReply(r, s, p)
    \/ \E cut \in 0 .. MaxSlot : OnGapTimeout(r, cut)

ReplicaTypeOK ==
  /\ known \in [Replicas -> BOOLEAN]
  /\ addr \in [Replicas -> BOOLEAN]
  /\ log \in [Replicas -> [Slots -> LogEntry]]
  /\ nextExpected \in [Replicas -> 1 .. (MaxSlot + 1)]
  /\ maxSeqSeen \in [Replicas -> 0 .. (MaxSlot + Later)]
  /\ gapTimerId \in [Replicas -> 0 .. Timers]
  /\ noopStart \subseteq Slots
  /\ acks \in [Slots -> SUBSET Followers]
  /\ durable \subseteq Slots
=============================================================================
