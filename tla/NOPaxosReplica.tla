--------------------------- MODULE NOPaxosReplica ---------------------------
(***************************************************************************)
(* The NOPaxos replica (nopaxos/replica.cc).                               *)
(*                                                                         *)
(* rep[r] is the state of replica r.  A function of the code that changes  *)
(* it is an operator that returns a Result: the new state and the messages *)
(* sent.  A handler is an action that applies one and then processes the   *)
(* pending requests, as ReceiveMessage does.  A failed ASSERT or a Panic   *)
(* aborts the process: failed then names the place, what follows in the    *)
(* handler is skipped and the replica takes no further step.               *)
(*                                                                         *)
(* Timers.  syncTimeout is active at a leader that is not in a view        *)
(* change, leaderSyncHeardTimeout at a follower that is not,               *)
(* gapCommitTimeout in status gapcommit.  Of the others only those whose   *)
(* activity the code consults have a field: startGap, gapRequest and       *)
(* starting (startViewTimeout).                                            *)
(***************************************************************************)
EXTENDS NOPaxosNet, SequencesExt

CONSTANTS
  MaxTransfer,   \* MAX_SYNC_TRANSFER_OPS
  SyncAt,        \* bound: the opnums at which syncTimeout may fire
  GapAt          \* bound: the opnums at which gapRequestTimeout may fire

ASSUME NOPaxosReplicaAssumption ==
  MaxTransfer \in Nat /\ SyncAt \subseteq Nat /\ GapAt \subseteq Nat

VARIABLE rep           \* the replicas' states

NoFailure == ""  \* failed at a process that has not aborted

\* The constructor.  gapReplies, gapCommits, viewChanges and startViews hold
\* the senders or messages of the one quorum that can be complete: they are
\* cleared when the operation or the view moves on.
NewReplica ==
  [status |-> "normal", sess |-> 0, view |-> 0,
   log |-> <<>>, lastOp |-> 0, nextMsgnum |-> 1,
   lastNormal |-> [sess |-> 0, view |-> 0],
   lastCommitted |-> 0, lastExecuted |-> 0, gaps |-> {}, pending |-> {},
   table |-> [c \in Clients |-> [id |-> 0, reply |-> EmptyResult]],
   addrs |-> {}, app |-> <<>>,
   gapReplies |-> {}, gapCommits |-> {}, viewChanges |-> {},
   startViews |-> {}, syncReplies |-> {},
   startGap |-> FALSE, gapRequest |-> FALSE, starting |-> FALSE,
   transferEnd |-> 0, syncPoint |-> 0, prepared |-> {}, committed |-> {},
   startView |-> [normal |-> [sess |-> 0, view |-> 0], lastop |-> 0,
                  gaps |-> {}],
   failed |-> NoFailure]

ReplicaInit == rep = [r \in Replicas |-> NewReplica]

AmLeader(r, s) == LeaderOf(s.view) = r

-----------------------------------------------------------------------------
\* Results and their composition.

Result(s, out) == [st |-> s, out |-> out]
Abort(s, where) == Result([s EXCEPT !.failed = where], {})

\* Continue with Op unless the process has aborted.
Then(res, Op(_)) ==
  IF res.st.failed # NoFailure THEN res
  ELSE LET next == Op(res.st)
       IN  Result(next.st, res.out \cup next.out)

\* Op for the numbers a .. b in order.
ForEach(a, b, Op(_, _), s) ==
  LET n == IF b < a THEN 0 ELSE b - a + 1
      after[i \in 0 .. n] ==
        IF i = 0 THEN Result(s, {})
        ELSE Then(after[i - 1], LAMBDA t : Op(t, a + i - 1))
  IN  after[n]

\* LastViewstamp, zero for the empty log.
LastViewstamp(log) ==
  IF log = <<>> THEN Entry(0, 0, 0, NoOp) ELSE log[Len(log)]

-----------------------------------------------------------------------------
\* Execution and commitment.

\* Mutant of ExecuteOp: a repeated request is executed again.
ExecuteOpAgain(r, s, op) ==
  LET q == s.log[op].req
      next == [s EXCEPT !.lastExecuted = op]
  IN  IF q = NoOp THEN Result(next, {})
      ELSE Result([next EXCEPT !.app = Append(@, q)], {})

\* ExecuteUptoOp for one operation.  A gap and a stale request only advance
\* lastExecutedOp; a duplicate is answered from the client table.  Only the
\* replica that leads now stores the reply (UpdateClientTable); only the one
\* that led the entry's view sends it.
ExecuteOp(r, s, op) ==
  LET e == s.log[op]
      old == s.table[e.req.client]
      next == [s EXCEPT !.lastExecuted = op]
      Answer(result) ==
        IF LeaderOf(e.view) = r /\ e.req.client \in s.addrs
        THEN {ReplyMessage(e, op, e.req, result, r)} ELSE {}
      ran == [next EXCEPT !.app = Append(@, e.req),
                          !.table[e.req.client] =
                             [id |-> e.req.id,
                              reply |-> IF AmLeader(r, s) THEN e.req.id
                                        ELSE old.reply]]
  IN  IF op > Len(s.log) THEN Abort(s, "ExecuteUptoOp")
      ELSE IF e.req = NoOp THEN Result(next, {})
      ELSE IF e.req.id < old.id THEN Result(next, {})
      ELSE IF e.req.id = old.id THEN Result(next, Answer(old.reply))
      ELSE Result(ran, Answer(e.req.id))

ExecuteUptoOp(r, s, opnum) ==
  IF opnum <= s.lastExecuted THEN Result(s, {})
  ELSE IF opnum > s.lastOp THEN Abort(s, "ExecuteUptoOp")
  ELSE ForEach(s.lastExecuted + 1, opnum,
               LAMBDA t, op : ExecuteOp(r, t, op), s)

CommitUptoOp(r, s, opnum) ==
  LET t == [s EXCEPT !.lastCommitted = opnum]
  IN  IF opnum <= s.lastCommitted THEN Result(s, {})
      ELSE IF opnum > s.lastOp THEN Abort(s, "CommitUptoOp")
      ELSE Then(Result(t, IF AmLeader(r, t) THEN {SyncCommitMessage(t, r)}
                          ELSE {}),
                LAMBDA u : ExecuteUptoOp(r, u, opnum))

\* A point that is committed is dropped from both sets.
Forget(s, point) ==
  Result([s EXCEPT !.prepared = @ \ {point}, !.committed = @ \ {point}], {})

\* ProcessSyncPrepare: the log is complete up to the point; commit it if the
\* SyncCommit has come already, else acknowledge it.
ProcessSyncPrepare(r, s, point) ==
  IF AmLeader(r, s) THEN Abort(s, "ProcessSyncPrepare")
  ELSE IF point \in s.committed
  THEN Then(CommitUptoOp(r, s, point), LAMBDA t : Forget(t, point))
  ELSE Result(s, {SyncPrepareReplyMessage(s, point, r)})

-----------------------------------------------------------------------------
\* Views.

\* A change of view or session ends everything that was under way.
ClearTimeoutAndQuorums(s) ==
  [s EXCEPT !.startGap = FALSE, !.gapRequest = FALSE, !.starting = FALSE,
            !.gapReplies = {}, !.gapCommits = {}, !.viewChanges = {},
            !.startViews = {}, !.syncReplies = {},
            !.prepared = {}, !.committed = {}, !.transferEnd = 0]

\* SendViewChange: a request to join to all, and the own state to the leader.
SendViewChange(r, s) ==
  Result(s, {ViewChangeRequestMessage(s, r)} \cup
            (IF AmLeader(r, s) THEN {} ELSE {ViewChangeMessage(s, r)}))

\* StartViewChange: session and view are raised, each on its own.  Committed
\* gaps beyond the log are dropped.
StartViewChange(r, s, se, v) ==
  LET t == [ClearTimeoutAndQuorums(s) EXCEPT
              !.sess = Larger(se, @), !.view = Larger(v, @),
              !.nextMsgnum = IF Larger(se, s.sess) > LastViewstamp(s.log).sess
                             THEN 1 ELSE @,
              !.status = "viewchange",
              !.gaps = {g \in @ : g <= s.lastOp}]
  IN  SendViewChange(r, t)

\* EnterView.  The new leader executes its whole log and announces the view; a
\* follower records the end of its log as a sync point and acknowledges.
EnterView(r, s, se, v) ==
  LET t == [ClearTimeoutAndQuorums(s) EXCEPT
              !.sess = se, !.view = v, !.status = "normal",
              !.lastNormal = [sess |-> se, view |-> v],
              !.nextMsgnum = IF se > LastViewstamp(s.log).sess THEN 1 ELSE @]
      Announce(u) ==
        IF u.syncPoint > u.lastOp THEN Abort(u, "EnterView")
        ELSE Result([u EXCEPT !.syncPoint = u.lastOp, !.starting = TRUE],
                    {StartViewMessage(u, r)})
  IN  IF AmLeader(r, t) THEN Then(ExecuteUptoOp(r, t, t.lastOp), Announce)
      ELSE Result([t EXCEPT !.prepared = {t.lastOp}],
                  {StartViewReplyMessage(t, r)})

\* CheckViewNumAndStatus: what it does before it answers no.  A message of a
\* later session or view makes the replica join it.
CheckViewNumAndStatus(r, s, m) ==
  IF /\ m.sess >= s.sess /\ m.view >= s.view
     /\ m.sess > s.sess \/ m.view > s.view
  THEN StartViewChange(r, s, m.sess, m.view)
  ELSE Result(s, {})

\* CheckViewNumAndStatus guarding the rest of a handler.
Checked(r, s, m, Op(_)) ==
  IF m.sess = s.sess /\ m.view = s.view /\ s.status # "viewchange" THEN Op(s)
  ELSE CheckViewNumAndStatus(r, s, m)

-----------------------------------------------------------------------------
\* The log.

\* A new request is executed by the leader of its view and answered by a
\* follower, which does not know the result.
ServeOp(r, s, v, op) ==
  LET e == s.log[op]
  IN  IF e.req = NoOp THEN Result(s, {})
      ELSE IF LeaderOf(v) = r THEN ExecuteUptoOp(r, s, op)
      ELSE Result(s, IF e.req.client \in s.addrs
                     THEN {ReplyMessage(e, op, e.req, NoResult, r)} ELSE {})

\* The state transfer that ends at op completes the view change or the
\* synchronization that asked for it.
CompleteTransfer(r, s, op) ==
  IF op # s.transferEnd THEN Result(s, {})
  ELSE IF s.status = "viewchange" THEN EnterView(r, s, s.sess, s.view)
  ELSE ProcessSyncPrepare(r, s, op - 1)

\* ProcessNextOperation without its recursion: append, stop the gap request,
\* serve the request, and complete the state transfer that ends here.
AppendOp(r, s, v, se, n, q) ==
  LET op == s.lastOp + 1
      gap == q = NoOp \/ op \in s.gaps
      t == [s EXCEPT !.lastOp = op, !.nextMsgnum = n + 1,
                     !.log = Append(@, Entry(v, se, n, IF gap THEN NoOp ELSE q)),
                     !.startGap = FALSE, !.gapRequest = FALSE,
                     !.gapReplies = IF s.gapRequest THEN {} ELSE @,
                     !.gaps = IF gap THEN @ \cup {op} ELSE @]
  IN  IF Len(s.log) # s.lastOp THEN Abort(s, "Append")
      ELSE Then(ServeOp(r, t, v, op), LAMBDA u : CompleteTransfer(r, u, op))

\* The committed gaps that directly follow opnum op.
GapsAfter(s, op) ==
  {g \in s.gaps : g > op /\ \A x \in (op + 1) .. g : x \in s.gaps}

\* ProcessNextOperation: the operation, then the gaps already committed after
\* it.
ProcessNextOperation(r, s, v, se, n, q) ==
  Then(AppendOp(r, s, v, se, n, q),
       LAMBDA t :
         ForEach(t.lastOp + 1, t.lastOp + Cardinality(GapsAfter(t, t.lastOp)),
                 LAMBDA u, op : AppendOp(r, u, v, se, u.nextMsgnum, NoOp), t))

\* InstallCommittedGaps for one gap: as the next operation of the log, over an
\* entry that is there, or remembered.
InstallGap(r, s, g) ==
  LET t == [s EXCEPT !.gaps = @ \cup {g}]
      vs == LastViewstamp(s.log)
      Overwrite(u) ==
        IF u.lastOp < g THEN Result(u, {})
        ELSE IF g > Len(u.log) THEN Abort(u, "InstallCommittedGaps")
        ELSE IF u.log[g].req = NoOp THEN Result(u, {})
        ELSE IF u.lastCommitted >= g THEN Abort(u, "InstallCommittedGaps")
        ELSE IF u.lastExecuted >= g THEN Abort(u, "Rollback")
        ELSE Result([u EXCEPT !.log[g].req = NoOp], {})
  IN  IF g \in s.gaps THEN Result(s, {})
      ELSE Then(IF s.lastOp + 1 = g
                THEN ProcessNextOperation(r, t, vs.view, vs.sess, t.nextMsgnum,
                                          NoOp)
                ELSE Result(t, {}),
                Overwrite)

InstallCommittedGaps(r, s, gaps) ==
  LET Install(t, g) ==
        IF g \in gaps THEN InstallGap(r, t, g) ELSE Result(t, {})
  IN  ForEach(1, Max(gaps \cup {0}), Install, s)

\* RewindLogToOpnum.  RemoveAfter(op) removes the entry at op too; below the
\* start of the log its assertion fails.
RewindLogToOpnum(s, op) ==
  LET log == IF op > Len(s.log) THEN s.log ELSE SubSeq(s.log, 1, op - 1)
  IN  IF op < s.lastCommitted THEN Abort(s, "RewindLogToOpnum")
      ELSE IF op < s.lastExecuted THEN Abort(s, "Rollback")
      ELSE IF op = 0 THEN Abort(s, "RemoveAfter")
      ELSE Result([s EXCEPT !.lastOp = op, !.log = log,
                            !.nextMsgnum = LastViewstamp(log).num + 1], {})

-----------------------------------------------------------------------------
\* Client requests.

\* Mutant of TryProcessClientRequest: a later session is not noticed.
TryProcessClientRequestAnySession(r, s, m) ==
  IF s.status = "normal" /\ m.num = s.nextMsgnum
  THEN [done |-> TRUE,
        res |-> ProcessNextOperation(r, s, s.view, m.sess, m.num, m.req)]
  ELSE [done |-> m.num < s.nextMsgnum, res |-> Result(s, {})]

\* TryProcessClientRequest: done tells whether the request was processed or
\* discarded.
TryProcessClientRequest(r, s, m) ==
  LET Tried(done, res) == [done |-> done, res |-> res]
  IN  IF s.status # "normal" THEN Tried(FALSE, Result(s, {}))
      ELSE IF m.sess < s.sess THEN Tried(TRUE, Result(s, {}))
      ELSE IF m.sess > s.sess
      THEN Tried(FALSE, StartViewChange(r, s, m.sess, s.view))
      ELSE IF m.num < s.nextMsgnum THEN Tried(TRUE, Result(s, {}))
      ELSE IF m.num > s.nextMsgnum
      THEN Tried(FALSE, Result([s EXCEPT !.startGap = @ \/ ~s.gapRequest], {}))
      ELSE Tried(TRUE, ProcessNextOperation(r, s, s.view, m.sess, m.num, m.req))

\* The comparator of pendingRequests is no order when a later session has the
\* smaller number: where such a request comes depends on the insertions.
BySession(x, y) == x.sess < y.sess \/ (x.sess = y.sess /\ x.num < y.num)
ByNumber(x, y) == x.num < y.num \/ (x.num = y.num /\ x.sess < y.sess)
PendingOrders(s) ==
  {o \in [1 .. Cardinality(s.pending) -> s.pending] :
     \/ \A i, j \in DOMAIN o : i < j => BySession(o[i], o[j])
     \/ \A i, j \in DOMAIN o : i < j => ByNumber(o[i], o[j])}

\* ProcessPendingRequests: in order, until one has to stay.
ProcessPendingRequests(r, s, order) ==
  LET Settle(res, m, try) ==
        LET left == [try.res.st EXCEPT !.pending = @ \ {m}]
        IN  [stop |-> ~try.done,
             res |-> Result(IF try.done THEN left ELSE try.res.st,
                            res.out \cup try.res.out)]
      after[i \in 0 .. Len(order)] ==
        IF i = 0 THEN [stop |-> FALSE, res |-> Result(s, {})]
        ELSE LET acc == after[i - 1]
             IN  IF acc.stop \/ acc.res.st.failed # NoFailure THEN acc
                 ELSE Settle(acc.res, order[i],
                             TryProcessClientRequest(r, acc.res.st, order[i]))
  IN  after[Len(order)].res

Running(r) == rep[r].failed = NoFailure

\* A timer's callback.
Step(r, res) ==
  /\ rep' = [rep EXCEPT ![r] = res.st]
  /\ Send(res.out)

\* ReceiveMessage: the handler's result, then the pending requests.
Receive(r, res) ==
  /\ Running(r)
  /\ IF res.st.pending = {} THEN Step(r, res)
     ELSE \E order \in PendingOrders(res.st) :
            Step(r, Then(res, LAMBDA t : ProcessPendingRequests(r, t, order)))

HandleClientRequest(r, m) ==
  LET s == [rep[r] EXCEPT !.addrs = @ \cup {m.req.client}]
      Keep(try) ==
        IF try.done THEN try.res
        ELSE Result([try.res.st EXCEPT !.pending = @ \cup {m}], try.res.out)
  IN  Receive(r, Keep(TryProcessClientRequest(r, s, m)))

-----------------------------------------------------------------------------
\* Gaps.

\* The leader asks everyone for the next operation, a follower the leader.
SendGapRequest(r, s) ==
  LET to == IF AmLeader(r, s) THEN Replicas \ {r} ELSE {LeaderOf(s.view)}
  IN  Result([s EXCEPT !.gapRequest = TRUE],
             {GapRequestMessage(s, s.lastOp + 1, r, q) : q \in to})

\* StartGapAgreement: the leader appends a NoOp and proposes it.
StartGapAgreement(r, s) ==
  LET t == [s EXCEPT !.startGap = FALSE, !.gapReplies = {},
                     !.gapRequest = FALSE, !.status = "gapcommit",
                     !.gapCommits = {}]
  IN  IF ~AmLeader(r, s) THEN Abort(s, "StartGapAgreement")
      ELSE Then(ProcessNextOperation(r, t, s.view, s.sess, s.nextMsgnum, NoOp),
                LAMBDA u : Result(u, {GapCommitMessage(u, r)}))

\* startGapRequestTimeout.
StartGapRequestTimeout(r) ==
  /\ Running(r) /\ rep[r].startGap
  /\ Step(r, SendGapRequest(r, [rep[r] EXCEPT !.startGap = FALSE]))

\* gapRequestTimeout at the leader; a follower's repeats its request.
GapRequestTimeout(r) ==
  /\ Running(r) /\ rep[r].gapRequest /\ AmLeader(r, rep[r])
  /\ rep[r].lastOp + 1 \in GapAt
  /\ Step(r, StartGapAgreement(r, rep[r]))

\* HandleGapRequest.  A missing operation is reported only by a replica that
\* itself asks for it.
HandleGapRequest(r, m) ==
  LET Answer(s) ==
        IF m.opnum <= Len(s.log)
        THEN Result(s, {GapReplyMessage(s, m.opnum, TRUE, s.log[m.opnum].req,
                                        r, m.from)})
        ELSE IF s.gapRequest /\ s.lastOp + 1 = m.opnum
        THEN Result(s, {GapReplyMessage(s, m.opnum, FALSE, NoOp, r, m.from)})
        ELSE Result(s, {})
  IN  Receive(r, Checked(r, rep[r], m, Answer))

\* Mutant of GapReplied: isfound is not looked at.
GapRepliedUnchecked(r, s, m) ==
  IF m.opnum # s.lastOp + 1 \/ s.status = "gapcommit" THEN Result(s, {})
  ELSE ProcessNextOperation(r, s, s.view, s.sess, s.nextMsgnum, m.req)

\* HandleGapReply: take the operation, or count who misses it.
GapReplied(r, s, m) ==
  LET t == [s EXCEPT !.gapReplies = @ \cup {m.from}]
  IN  IF m.opnum # s.lastOp + 1 THEN Result(s, {})
      ELSE IF s.status = "gapcommit"
      THEN IF AmLeader(r, s) THEN Result(s, {}) ELSE Abort(s, "GapReply")
      ELSE IF m.isfound
      THEN ProcessNextOperation(r, s, s.view, s.sess, s.nextMsgnum, m.req)
      ELSE IF ~AmLeader(r, s) THEN Result(s, {})
      ELSE IF Cardinality(t.gapReplies) >= N - 1 THEN StartGapAgreement(r, t)
      ELSE Result(t, {})

HandleGapReply(r, m) ==
  Receive(r, Checked(r, rep[r], m, LAMBDA s : GapReplied(r, s, m)))

\* Mutant of GapCommitted: an operation already received is kept.
GapCommittedKeep(r, s, m) ==
  IF s.lastOp + 1 < m.opnum
  THEN Result([s EXCEPT !.gaps = @ \cup {m.opnum}], {})
  ELSE Then(IF s.lastOp >= m.opnum THEN Result(s, {})
            ELSE ProcessNextOperation(r, s, s.view, s.sess, s.nextMsgnum, NoOp),
            LAMBDA t : Result(t, {GapCommitReplyMessage(t, m.opnum, r)}))

\* Mutant of GapCommitted: the message number moves on also when an entry is
\* overwritten.
GapCommittedSkip(r, s, m) ==
  IF s.lastOp < m.opnum
  THEN ProcessNextOperation(r, s, s.view, s.sess, s.nextMsgnum, NoOp)
  ELSE Result([s EXCEPT !.gaps = @ \cup {m.opnum},
                        !.log[m.opnum].req = NoOp, !.nextMsgnum = @ + 1],
              {GapCommitReplyMessage(s, m.opnum, r)})

\* Log::SetStatus with LOG_STATE_NOOP: nothing happens where there is no entry.
SetStatus(log, op) ==
  IF op <= Len(log) THEN [log EXCEPT ![op].req = NoOp] ELSE log

\* HandleGapCommit: remembered when operations before it are missing, else
\* written over the entry or appended, and acknowledged.
GapCommitted(r, s, m) ==
  LET t == [s EXCEPT !.gaps = @ \cup {m.opnum}]
      Write == IF s.lastOp < m.opnum
               THEN ProcessNextOperation(r, s, s.view, s.sess, s.nextMsgnum,
                                         NoOp)
               ELSE Result([t EXCEPT !.log = SetStatus(@, m.opnum)], {})
  IN  IF AmLeader(r, s) THEN Abort(s, "GapCommit")
      ELSE IF s.lastOp + 1 < m.opnum THEN Result(t, {})
      ELSE Then(Write,
                LAMBDA u : Result(u, {GapCommitReplyMessage(u, m.opnum, r)}))

HandleGapCommit(r, m) ==
  Receive(r, Checked(r, rep[r], m, LAMBDA s : GapCommitted(r, s, m)))

\* HandleGapCommitReply: with a quorum the leader goes on.
GapAcknowledged(r, s, m) ==
  LET t == [s EXCEPT !.gapCommits = @ \cup {m.from}]
  IN  IF s.status # "gapcommit" \/ ~AmLeader(r, s) \/ m.opnum # s.lastOp
      THEN Result(s, {})
      ELSE IF Cardinality(t.gapCommits) < F THEN Result(t, {})
      ELSE Result([t EXCEPT !.status = "normal", !.gapCommits = {}], {})

HandleGapCommitReply(r, m) ==
  Receive(r, Checked(r, rep[r], m, LAMBDA s : GapAcknowledged(r, s, m)))

-----------------------------------------------------------------------------
\* Synchronization and state transfer.

\* syncTimeout.
SendSyncPrepare(r) ==
  LET s == rep[r]
  IN  /\ Running(r) /\ AmLeader(r, s) /\ s.status # "viewchange"
      /\ s.lastOp \in SyncAt
      /\ Step(r, Result([s EXCEPT !.syncPoint = s.lastOp],
                        {SyncPrepareMessage(s, r)}))

\* HandleSyncPrepare: install the leader's gaps, then acknowledge the point, or
\* ask for the operations before it unless they are too many.
SyncPrepared(r, s, m) ==
  LET noted == [s EXCEPT !.prepared = @ \cup {m.lastop}]
      Fetch(t) ==
        IF t.lastOp >= m.lastop THEN ProcessSyncPrepare(r, t, m.lastop)
        ELSE Result([t EXCEPT !.transferEnd = m.lastop + 1],
                    IF m.lastop - t.lastOp > MaxTransfer THEN {}
                    ELSE {StateTransferRequestMessage(t, t.lastOp + 1,
                            m.lastop + 1, r, LeaderOf(m.view))})
  IN  IF s.lastCommitted >= m.lastop THEN Result(s, {})
      ELSE IF AmLeader(r, s) THEN Abort(s, "SyncPrepare")
      ELSE Then(InstallCommittedGaps(r, noted, m.gaps), Fetch)

HandleSyncPrepare(r, m) ==
  Receive(r, Checked(r, rep[r], m, LAMBDA s : SyncPrepared(r, s, m)))

\* Mutant of SyncAcknowledged: an answer for an earlier point is counted for the
\* latest.
SyncAcknowledgedAnyPoint(r, s, m) ==
  LET t == [s EXCEPT !.syncReplies =
              @ \cup {[point |-> s.syncPoint, from |-> m.from]}]
      count == Cardinality({x \in t.syncReplies : x.point = s.syncPoint})
  IN  IF ~AmLeader(r, s) THEN Abort(s, "SyncPrepareReply")
      ELSE IF s.lastCommitted >= s.syncPoint THEN Result(s, {})
      ELSE IF count < F THEN Result(t, {})
      ELSE CommitUptoOp(r, t, s.syncPoint)

\* HandleSyncPrepareReply: a quorum for the leader's latest point commits it.
SyncAcknowledged(r, s, m) ==
  LET t == [s EXCEPT !.syncReplies =
              @ \cup {[point |-> m.syncpoint, from |-> m.from]}]
      count == Cardinality({x \in t.syncReplies : x.point = m.syncpoint})
  IN  IF ~AmLeader(r, s) THEN Abort(s, "SyncPrepareReply")
      ELSE IF s.lastCommitted >= m.syncpoint \/ m.syncpoint # s.syncPoint
      THEN Result(s, {})
      ELSE IF count < F THEN Result(t, {})
      ELSE CommitUptoOp(r, t, m.syncpoint)

HandleSyncPrepareReply(r, m) ==
  Receive(r, Checked(r, rep[r], m, LAMBDA s : SyncAcknowledged(r, s, m)))

\* Mutant of SyncCommitted: the SyncPrepare, with its gaps, is not waited for.
SyncCommittedEarly(r, s, m) ==
  IF s.lastCommitted >= m.syncpoint \/ s.lastOp < m.syncpoint THEN Result(s, {})
  ELSE CommitUptoOp(r, s, m.syncpoint)

\* Mutant of SyncCommitted: the operations before the point are not waited for.
SyncCommittedShort(r, s, m) ==
  IF s.lastCommitted >= m.syncpoint THEN Result(s, {})
  ELSE CommitUptoOp(r, s, m.syncpoint)

\* HandleSyncCommit: commit a point whose SyncPrepare came and whose
\* operations are there; without the SyncPrepare, ask the leader for it.
SyncCommitted(r, s, m) ==
  LET p == m.syncpoint
      t == [s EXCEPT !.committed = @ \cup {p}]
  IN  IF AmLeader(r, s) THEN Abort(s, "SyncCommit")
      ELSE IF s.lastCommitted >= p THEN Result(s, {})
      ELSE IF p \notin s.prepared
      THEN Result(t, {SyncPrepareRequestMessage(t)})
      ELSE IF s.lastOp < p THEN Result(t, {})
      ELSE Then(CommitUptoOp(r, t, p), LAMBDA u : Forget(u, p))

HandleSyncCommit(r, m) ==
  Receive(r, Checked(r, rep[r], m, LAMBDA s : SyncCommitted(r, s, m)))

\* ReceiveMessage has no case for this message.
HandleSyncPrepareRequest(r, m) ==
  Receive(r, Abort(rep[r], "unexpected message type"))

HandleStateTransferRequest(r, m) ==
  LET s == rep[r]
      reply == StateTransferReplyMessage(s, m.begin,
                 SubSeq(s.log, m.begin, m.end - 1), m.from)
  IN  Receive(r,
        IF \/ m.sess # s.sess \/ m.view # s.view
           \/ m.begin > s.lastOp \/ m.end > s.lastOp + 1
        THEN Result(s, {})
        ELSE IF m.end > Len(s.log) + 1 THEN Abort(s, "Dump")
        ELSE Result(s, {reply}))

\* HandleStateTransferReply: the entries beyond the log, one by one.  A gap
\* committed beyond the log is installed with the entry before it, and the
\* entry received for it is then no longer the next.
StateTransferred(r, s, m) ==
  LET last == m.begin + Len(m.entries) - 1
      Install(t, op) ==
        LET e == m.entries[op - m.begin + 1]
        IN  IF op # t.lastOp + 1 THEN Abort(t, "StateTransferReply")
            ELSE ProcessNextOperation(r, t, e.view, e.sess, e.num, e.req)
  IN  IF m.sess # s.sess \/ m.view # s.view \/ last <= s.lastOp
      THEN Result(s, {})
      ELSE IF m.begin > s.lastOp + 1 THEN Abort(s, "StateTransferReply")
      ELSE ForEach(s.lastOp + 1, last, Install, s)

HandleStateTransferReply(r, m) == Receive(r, StateTransferred(r, rep[r], m))

-----------------------------------------------------------------------------
\* View changes.

\* leaderSyncHeardTimeout.
LeaderSyncHeardTimeout(r) ==
  LET s == rep[r]
  IN  /\ Running(r) /\ s.view < MaxView
      /\ ~AmLeader(r, s) /\ s.status # "viewchange"
      /\ Step(r, StartViewChange(r, s, s.sess, s.view + 1))

\* The joining step of HandleViewChangeRequest and HandleViewChange.
Join(r, s, m) ==
  IF m.sess > s.sess \/ m.view > s.view
  THEN StartViewChange(r, s, m.sess, m.view) ELSE Result(s, {})

HandleViewChangeRequest(r, m) == Receive(r, Join(r, rep[r], m))

\* own was last normal in an earlier session or view than other.
Behind(own, other) == own.sess < other.sess \/ own.view < other.view

\* Mutant of MergeLogs: the new leader starts the view with its own log.
MergeLogsOwn(r, s) ==
  LET view == [normal |-> s.lastNormal, lastop |-> s.lastOp, gaps |-> s.gaps]
  IN  EnterView(r, [s EXCEPT !.startView = view], s.sess, s.view)

\* MergeLogs, the body of HandleViewChange at a quorum.  The latest session and
\* the latest view are found separately; a leader behind either drops what it
\* has not committed.  The gaps of the logs of exactly that session and view
\* are installed, and the longest of these logs is fetched if it is longer than
\* the leader's.
MergeLogs(r, s) ==
  LET normals == {x.normal : x \in s.viewChanges} \cup {s.lastNormal}
      latest == [sess |-> Max({n.sess : n \in normals}),
                 view |-> Max({n.view : n \in normals})]
      behind == Behind(s.lastNormal, latest)
      xs == {x \in s.viewChanges : x.normal = latest}
      mine == IF behind THEN 0 ELSE s.lastOp
      top == Max({mine} \cup {x.lastop : x \in xs})
      longest == {x \in xs : x.lastop = top}
      Rewind == IF ~behind THEN Result(s, {})
                ELSE Then(RewindLogToOpnum(s, s.lastCommitted),
                          LAMBDA t : Result([t EXCEPT !.gaps = {}], {}))
      GapsOf(q) == UNION {x.gaps : x \in {y \in xs : y.from = q}}
      Gaps(t) == ForEach(0, N - 1,
                   LAMBDA u, q : InstallCommittedGaps(r, u, GapsOf(q)), t)
      Fetch(t) ==
        LET from == Min({x.from : x \in longest})
        IN  IF top <= t.lastOp THEN Abort(t, "latestOp > lastOp")
            ELSE Result([t EXCEPT !.transferEnd = top + 1],
                        {StateTransferRequestMessage(t, t.lastOp + 1, top + 1,
                                                     r, from)})
      Decide(t) ==
        LET u == [t EXCEPT !.startView = [normal |-> latest, lastop |-> top,
                                          gaps |-> t.gaps]]
        IN  IF \E g \in t.gaps : g > top THEN Abort(t, "HandleViewChange")
            ELSE IF top > mine THEN Fetch(u)
            ELSE IF top # t.lastOp THEN Abort(t, "HandleViewChange")
            ELSE EnterView(r, u, u.sess, u.view)
  IN  Then(Then(Rewind, Gaps), Decide)

\* HandleViewChange.  Once the view is entered, a late message only makes the
\* leader repeat its StartView.
ViewChanged(r, s, m) ==
  LET t == [s EXCEPT !.viewChanges = {x \in @ : x.from # m.from} \cup {m}]
  IN  IF m.sess < s.sess \/ m.view < s.view THEN Result(s, {})
      ELSE IF ~AmLeader(r, s) THEN Abort(s, "ViewChange")
      ELSE IF s.status # "viewchange" THEN Result(s, {StartViewMessage(s, r)})
      ELSE IF Cardinality(t.viewChanges) < F THEN Result(t, {})
      ELSE MergeLogs(r, t)

HandleViewChange(r, m) ==
  Receive(r, Then(Join(r, rep[r], m), LAMBDA s : ViewChanged(r, s, m)))

\* The rewinding of HandleStartView: a replica behind the merged log's view
\* drops what it has not committed, one with more operations than the merged
\* log drops these.
RewindForView(s, m) ==
  IF Behind(s.lastNormal, m.normal)
  THEN RewindLogToOpnum(s, s.lastCommitted)
  ELSE IF s.lastNormal # m.normal THEN Abort(s, "StartView")
  ELSE IF s.lastOp > m.lastop THEN RewindLogToOpnum(s, m.lastop)
  ELSE Result(s, {})

\* The last gap of the replica is not in the merged log, although others are:
\* it is dropped with what follows it.
RewindLastGap(s, m) ==
  IF /\ s.lastNormal = m.normal /\ s.gaps # {} /\ m.gaps # {}
     /\ Max(m.gaps) < Max(s.gaps)
  THEN RewindLogToOpnum(s, Max(s.gaps) - 1)
  ELSE Result(s, {})

\* The rest of HandleStartView: enter the view, or fetch what is missing.
AdoptView(r, s, m) ==
  LET t == [ClearTimeoutAndQuorums(s) EXCEPT
              !.sess = m.sess, !.view = m.view, !.status = "viewchange",
              !.transferEnd = m.lastop + 1]
  IN  IF s.lastOp >= m.lastop THEN EnterView(r, s, m.sess, m.view)
      ELSE Result(t, {StateTransferRequestMessage(t, s.lastOp + 1, m.lastop + 1,
                                                  r, LeaderOf(m.view))})

StartedView(r, s, m) ==
  LET Gaps(t) == InstallCommittedGaps(r, [t EXCEPT !.gaps = {}], m.gaps)
  IN  IF m.sess < s.sess \/ m.view < s.view THEN Result(s, {})
      ELSE IF m.sess = s.sess /\ m.view = s.view /\ s.status # "viewchange"
      THEN Result(s, {StartViewReplyMessage(s, r)})
      ELSE IF LeaderOf(m.view) = r THEN Abort(s, "StartView")
      ELSE Then(Then(Then(RewindForView(s, m),
                          LAMBDA t : RewindLastGap(t, m)), Gaps),
                LAMBDA t : AdoptView(r, t, m))

HandleStartView(r, m) == Receive(r, StartedView(r, rep[r], m))

\* HandleStartViewReply: a quorum commits the log the view started with.
StartViewAcknowledged(r, s, m) ==
  LET t == [s EXCEPT !.startViews = @ \cup {m.from}]
      Stop(u) == Result([u EXCEPT !.starting = FALSE, !.startViews = {}], {})
  IN  IF m.sess # s.sess \/ m.view # s.view THEN Result(s, {})
      ELSE IF s.status # "normal" \/ ~AmLeader(r, s)
      THEN Abort(s, "StartViewReply")
      ELSE IF ~s.starting THEN Result(s, {})
      ELSE IF Cardinality(t.startViews) < F THEN Result(t, {})
      ELSE Then(CommitUptoOp(r, t, s.startView.lastop), Stop)

HandleStartViewReply(r, m) == Receive(r, StartViewAcknowledged(r, rep[r], m))
=============================================================================
