----------------------------- MODULE VRReplica -----------------------------
(***************************************************************************)
(* The Viewstamped Replication replica (vr/replica.cc).                    *)
(*                                                                         *)
(* rep[r] is the state of replica r.  A function of the code that changes  *)
(* it is an operator that returns a Result: the new state and the messages *)
(* sent.  A handler is an action that applies one.  A failed ASSERT or a   *)
(* Panic aborts the process: failed then names the place, what follows in  *)
(* the handler is skipped and the replica takes no further step.           *)
(*                                                                         *)
(* Timers.  A timer may fire whenever it is active, and each is active in  *)
(* exactly the states its Start and Stop calls give, so no variable is     *)
(* needed: viewChangeTimeout in a view change and at a normal follower,    *)
(* nullCommitTimeout at a normal leader, closeBatchTimeout while a normal  *)
(* leader holds back an unsent batch.                                      *)
(***************************************************************************)
EXTENDS VRNet, VRLog, SequencesExt

CONSTANTS
  BatchSize,     \* batchSize
  Declined       \* the request ids the application's LeaderUpcall declines

ASSUME VRReplicaAssumption == BatchSize \in Nat /\ Declined \subseteq Nat

VARIABLE rep     \* the replicas' states

NoReply == -1    \* a client table entry with replied = false
NoFailure == ""  \* failed at a process that has not aborted

\* The constructor.  The quorum sets hold the messages of the current view
\* only (oks, svcs, dvcs) or nonce (recs): the others are never looked at.
NewReplica(status, nonce) ==
  [status |-> status, view |-> 0, log |-> <<>>, lastOp |-> 0,
   lastCommitted |-> 0,
   table |-> [c \in Clients |-> [id |-> 0, reply |-> NoReply]],
   addrs |-> {}, batchEnd |-> 0, batchDone |-> TRUE,
   oks |-> {}, svcs |-> {}, dvcs |-> {}, recs |-> {},
   nonce |-> nonce, pending |-> <<>>, app |-> <<>>, failed |-> NoFailure]

ReplicaInit == rep = [r \in Replicas |-> NewReplica("normal", 0)]

AmLeader(r, s) == LeaderOf(s.view) = r

-----------------------------------------------------------------------------
\* Results and their composition.

Result(s, out) == [st |-> s, out |-> out]
Abort(s, where) == Result([s EXCEPT !.failed = where], {})

\* Continue with Op unless the process has aborted.
Then(res, Op(_)) ==
  IF res.st.failed # NoFailure THEN res
  ELSE LET next == Op(res.st)
       IN  Result(next.st, res.out \cup next.out)

Step(r, res) ==
  /\ rep' = [rep EXCEPT ![r] = res.st]
  /\ msgs' = msgs \cup res.out

\* QuorumSet::AddAndCheckForQuorum: the latest message of every sender.
AddMessage(q, m) == {x \in q : x.from # m.from} \cup {m}

-----------------------------------------------------------------------------
\* The functions the handlers share.

\* The client table after the entries of S, in log order, were committed: the
\* latest reply to the highest request of every client.
CommittedTable(s, S) ==
  [c \in Clients |->
     LET ops == {op \in S : s.log[op].req.client = c}
         top == Max({s.table[c].id} \cup {s.log[op].req.id : op \in ops})
         last == {op \in ops : s.log[op].req.id = top}
     IN  IF last = {} THEN s.table[c] ELSE [id |-> top, reply |-> Max(last)]]

\* CommitUpTo: execute in order, store and send the replies; panics at an
\* operation that is not in the log.
CommitUpTo(s, upto) ==
  LET new == (s.lastCommitted + 1) .. Min({upto, Len(s.log)})
      done == [s EXCEPT !.lastCommitted = Max({@, Min({upto, Len(s.log)})}),
                        !.table = CommittedTable(s, new),
                        !.app = @ \o [i \in 1 .. Cardinality(new) |->
                                       s.log[s.lastCommitted + i].req]]
      out == {ReplyMessage(s.log[op].req, op) :
                op \in {op \in new : s.log[op].req.client \in s.addrs}}
  IN  IF upto > Len(s.log)
      THEN Result([done EXCEPT !.failed = "CommitUpTo"], out)
      ELSE Result(done, out)

\* UpdateClientTable for the entries of S: a higher request id is recorded
\* as not yet replied.
UpdatedTable(s, S) ==
  [c \in Clients |->
     LET ids == {s.log[op].req.id : op \in {o \in S : s.log[o].req.client = c}}
     IN  IF \A i \in ids : i <= s.table[c].id THEN s.table[c]
         ELSE [id |-> Max(ids), reply |-> NoReply]]

\* The entries of S at which the assertion of UpdateClientTable fails: the
\* table already holds a higher request id of the client.
StaleEntries(s, S) ==
  {op \in S : LET q == s.log[op].req
              IN  \/ s.table[q.client].id > q.id
                  \/ \E o \in S : /\ o < op
                                  /\ s.log[o].req.client = q.client
                                  /\ s.log[o].req.id > q.id}

\* Mutant of SendPrepareOKs: the loop runs one operation too far, and the log
\* is not looked at.
SendPrepareOKsAhead(r, s, oldLastOp) ==
  Result(s, {PrepareOKMessage(s.view, i, r) :
               i \in {i \in oldLastOp .. (s.lastOp + 1) : i > s.lastCommitted}})

\* SendPrepareOKs: for the uncommitted operations from oldLastOp on.
SendPrepareOKs(r, s, oldLastOp) ==
  LET ops == {i \in oldLastOp .. s.lastOp : i > s.lastCommitted}
      inLog == {i \in ops : i <= Len(s.log)}
      bad == (ops \ inLog) \cup StaleEntries(s, inLog)
      good == {i \in ops : \A b \in bad : i < b}
      out == {PrepareOKMessage(s.view, i, r) : i \in good}
      done == [s EXCEPT !.table = UpdatedTable(s, good)]
  IN  IF bad = {} THEN Result(done, out)
      ELSE Result([done EXCEPT !.failed = "SendPrepareOKs"], out)

\* RequestStateTransfer.  Its check for a request already made only suppresses
\* a repetition.
AskForState(r, s) ==
  {RequestStateTransferMessage(s.view, s.lastCommitted, r)}

\* EnterView.  The end of the last batch is taken from lastOp as it is now.
EnterView(s, v) ==
  [s EXCEPT !.view = v, !.status = "normal",
            !.batchEnd = s.lastOp, !.batchDone = TRUE,
            !.oks = {}, !.svcs = {}, !.dvcs = {}, !.recs = {}]

\* StartViewChange.
StartViewChange(r, s, v) ==
  Result([s EXCEPT !.view = v, !.status = "viewchange",
                   !.oks = {}, !.svcs = {}, !.dvcs = {}],
         {StartViewChangeMessage(v, s.lastCommitted, r)})

\* Mutant of CloseBatch: the entries are not checked.
CloseBatchUnchecked(s) ==
  LET reqs == [i \in 1 .. (s.lastOp - s.batchEnd) |->
                 s.log[s.batchEnd + i].req]
  IN  Result([s EXCEPT !.batchEnd = s.lastOp, !.batchDone = FALSE],
             {PrepareMessage(s.view, s.batchEnd + 1, reqs)})

\* CloseBatch: one Prepare for the operations after the last batch, which
\* must exist and be of this view.
CloseBatch(s) ==
  LET ops == (s.batchEnd + 1) .. s.lastOp
      reqs == [i \in 1 .. Cardinality(ops) |-> s.log[s.batchEnd + i].req]
  IN  IF \/ s.batchEnd >= s.lastOp
         \/ \E op \in ops : op > Len(s.log) \/ s.log[op].view # s.view
      THEN Abort(s, "CloseBatch")
      ELSE Result([s EXCEPT !.batchEnd = s.lastOp, !.batchDone = FALSE],
                  {PrepareMessage(s.view, s.batchEnd + 1, reqs)})

-----------------------------------------------------------------------------
\* Normal operation.

Running(r) == rep[r].failed = NoFailure

Normal(r) == Running(r) /\ rep[r].status = "normal"

\* The rest of HandleRequest for a request to be replicated: append it, and
\* send the batch when the last one is complete or this one is full.
Propose(s, q) ==
  LET new == [s EXCEPT !.lastOp = @ + 1,
                       !.log = Append(@, [view |-> s.view, req |-> q]),
                       !.table[q.client] = [id |-> q.id, reply |-> NoReply]]
  IN  IF Len(s.log) # s.lastOp THEN Abort(s, "Append")
      ELSE IF new.batchDone \/ new.lastOp - new.batchEnd + 1 > BatchSize
      THEN CloseBatch(new)
      ELSE Result(new, {})

\* A stale request is ignored; a duplicate gets the stored reply, if any; one
\* that LeaderUpcall declines is answered at once and not replicated.
HandleRequest(r, m) ==
  LET c == m.req.client
      old == rep[r].table[c]
      s == [rep[r] EXCEPT !.addrs = @ \cup {c}]
  IN  /\ Normal(r) /\ AmLeader(r, s)
      /\ \/ m.req.id < old.id /\ Step(r, Result(s, {}))
         \/ /\ m.req.id = old.id
            /\ Step(r, Result(s, IF old.reply = NoReply THEN {}
                                 ELSE {ReplyMessage(m.req, old.reply)}))
         \/ /\ m.req.id > old.id /\ m.req.id \in Declined
            /\ Step(r, Result([s EXCEPT !.table[c] = [id |-> m.req.id,
                                                      reply |-> 0]],
                              {ReplyMessage(m.req, 0)}))
         \/ /\ m.req.id > old.id /\ m.req.id \notin Declined
            /\ Step(r, Propose(s, m.req))

\* Mutant of CloseBatchTimeout: the timer is not stopped with the batch.
CloseBatchTimeoutLate(r) ==
  /\ Normal(r) /\ AmLeader(r, rep[r])
  /\ ~rep[r].batchDone
  /\ Step(r, CloseBatch(rep[r]))

\* closeBatchTimeout.
CloseBatchTimeout(r) ==
  /\ Normal(r) /\ AmLeader(r, rep[r])
  /\ ~rep[r].batchDone /\ rep[r].lastOp > rep[r].batchEnd
  /\ Step(r, CloseBatch(rep[r]))

\* nullCommitTimeout.
SendNullCommit(r) ==
  /\ Normal(r) /\ AmLeader(r, rep[r])
  /\ Step(r, Result(rep[r], {CommitMessage(rep[r].view, rep[r].lastCommitted)}))

\* A Prepare kept for later, with a request for the missing state.  A second
\* copy is not kept: handling it again repeats the first.
Postpone(r, s, m) ==
  Result([s EXCEPT !.pending = IF m \in Range(@) THEN @ ELSE Append(@, m)],
         AskForState(r, s))

\* Mutant of AppendBatch: only the first new entry reaches the log.
AppendBatchFirst(r, s, m) ==
  Result([s EXCEPT !.lastOp = m.opnum,
                   !.log = Append(@, [view |-> m.view,
                      req |-> m.reqs[s.lastOp + 2 - m.batchstart]])],
         {PrepareOKMessage(m.view, m.opnum, r)})

\* The entries of a Prepare that are new, appended to the log.
AppendBatch(r, s, m) ==
  LET ops == (s.lastOp + 1) .. m.opnum
      new == [s EXCEPT !.lastOp = m.opnum,
                       !.log = @ \o [i \in 1 .. Cardinality(ops) |->
                          [view |-> m.view,
                           req |-> m.reqs[s.lastOp + i - m.batchstart + 1]]]]
  IN  IF Len(s.log) # s.lastOp THEN Abort(s, "Append")
      ELSE IF StaleEntries(new, ops) # {} THEN Abort(new, "UpdateClientTable")
      ELSE Result([new EXCEPT !.table = UpdatedTable(new, ops)],
                  {PrepareOKMessage(m.view, m.opnum, r)})

\* Mutant of Prepared: a batch is appended whatever is missing before it.
PreparedAnywhere(r, s, m) ==
  IF s.status # "normal" \/ m.view < s.view THEN Result(s, {})
  ELSE IF m.opnum <= s.lastOp
  THEN Result(s, {PrepareOKMessage(m.view, m.opnum, r)})
  ELSE Result([s EXCEPT !.lastOp = @ + Len(m.reqs),
                        !.log = @ \o [i \in 1 .. Len(m.reqs) |->
                                       [view |-> m.view, req |-> m.reqs[i]]]],
              {PrepareOKMessage(m.view, m.opnum, r)})

\* Mutant of Prepared: a batch beyond the end of the log is acknowledged.
PreparedGap(r, s, m) ==
  IF s.status # "normal" \/ m.view < s.view THEN Result(s, {})
  ELSE IF m.view > s.view THEN Postpone(r, s, m)
  ELSE IF m.batchstart # s.lastOp + 1
  THEN Result(s, {PrepareOKMessage(m.view, m.opnum, r)})
  ELSE AppendBatch(r, s, m)

\* HandlePrepare as a function: postponed in an older view or when operations
\* are missing, acknowledged when it is old, else appended.  (Only the leader
\* of a view sends its Prepares, so the panic at the leader is unreachable.)
Prepared(r, s, m) ==
  IF s.status # "normal" \/ m.view < s.view THEN Result(s, {})
  ELSE IF m.view > s.view THEN Postpone(r, s, m)
  ELSE IF m.opnum <= s.lastOp
  THEN Result(s, {PrepareOKMessage(m.view, m.opnum, r)})
  ELSE IF m.batchstart > s.lastOp + 1 THEN Postpone(r, s, m)
  ELSE AppendBatch(r, s, m)

HandlePrepare(r, m) == Normal(r) /\ Step(r, Prepared(r, rep[r], m))

\* The F-th acknowledgement of others (or a repetition before a later one): the
\* operation commits, the Commit is sent, and the batch is complete if the
\* operation is its last.
QuorumReached(s, m) ==
  LET Announce(t) ==
        Result([t EXCEPT !.batchDone = @ \/ t.batchEnd = m.opnum],
               {CommitMessage(t.view, t.lastCommitted)})
      NextBatch(t) ==
        IF t.batchEnd = m.opnum /\ t.lastOp > t.batchEnd
        THEN CloseBatch(t) ELSE Result(t, {})
  IN  Then(Then(CommitUpTo(s, m.opnum), Announce), NextBatch)

HandlePrepareOK(r, m) ==
  LET s == [rep[r] EXCEPT !.oks = @ \cup {[opnum |-> m.opnum, from |-> m.from]}]
      count == Cardinality({x \in s.oks : x.opnum = m.opnum})
  IN  /\ Normal(r)
      /\ \/ /\ m.view > rep[r].view
            /\ Step(r, Result(rep[r], AskForState(r, rep[r])))
         \/ /\ m.view = rep[r].view /\ count < F
            /\ Step(r, Result(s, {}))
         \/ /\ m.view = rep[r].view /\ count = F
            /\ Step(r, QuorumReached(s, m))
         \/ /\ m.view = rep[r].view /\ count > F
            /\ Step(r, CommitUpTo(s, m.opnum))

\* A Commit of a newer view, or of operations not in the log, shows that state
\* is missing.
HandleCommit(r, m) ==
  LET s == rep[r]
  IN  /\ Normal(r)
      /\ \/ /\ m.view > s.view \/ (m.view = s.view /\ m.opnum > s.lastOp)
            /\ Step(r, Result(s, AskForState(r, s)))
         \/ /\ m.view = s.view
            /\ m.opnum > s.lastCommitted /\ m.opnum <= s.lastOp
            /\ Step(r, CommitUpTo(s, m.opnum))

-----------------------------------------------------------------------------
\* State transfer.

HandleRequestStateTransfer(r, m) ==
  LET s == rep[r]
  IN  /\ Normal(r)
      /\ \/ /\ m.view > s.view
            /\ Step(r, Result(s, AskForState(r, s)))
         \/ /\ m.view <= s.view
            /\ Step(r, Result(s, {StateTransferMessage(s.view, s.lastCommitted,
                                    Dump(s.log, m.opnum + 1), m.from)}))

\* Mutant of Merge: the received entries are appended, wherever they start.
MergeAppend(s, es) ==
  [from |-> s.lastOp,
   st |-> [s EXCEPT !.log = @ \o es.list, !.lastOp = @ + Len(es.list)]]

\* The loop of HandleStateTransfer over the received entries: committed ones
\* are skipped, the first uncommitted one of an older view and all after it
\* are replaced, new ones are appended.  from is the oldLastOp of the code.
Merge(s, es) ==
  LET D == {op \in Opnums(es) : /\ op > s.lastCommitted /\ op <= s.lastOp
                                /\ s.log[op].view # At(es, op).view}
      last == LastOf(es)
      Replaced(d) == [s EXCEPT !.log = Splice(s.log, es, d), !.lastOp = last]
      Extended == [s EXCEPT !.log = Splice(s.log, es, s.lastOp + 1),
                            !.lastOp = last]
  IN  IF D # {}
      THEN [from |-> Min(D),
            st |-> IF s.log[Min(D)].view > At(es, Min(D)).view
                   THEN [s EXCEPT !.failed = "StateTransfer"]
                   ELSE Replaced(Min(D))]
      ELSE [from |-> s.lastOp,
            st |-> IF es.list = <<>> \/ last <= s.lastOp THEN s
                   ELSE IF es.first > s.lastOp + 1 \/ Len(s.log) # s.lastOp
                   THEN [s EXCEPT !.failed = "StateTransfer"]
                   ELSE Extended]

\* The Prepares kept for later are handled again, in their order.
DrainPending(r, s) ==
  LET after[i \in 0 .. Len(s.pending)] ==
        IF i = 0 THEN Result([s EXCEPT !.pending = <<>>], {})
        ELSE Then(after[i - 1], LAMBDA t : Prepared(r, t, s.pending[i]))
  IN  after[Len(s.pending)]

\* The received entries are merged, and with them the replica enters the view
\* of the sender, executes, acknowledges and takes up what it kept for later.
InstallState(r, s, m) ==
  LET merged == Merge(s, m.entries)
      Enter(t) == Result(IF m.view > t.view THEN EnterView(t, m.view) ELSE t, {})
      Execute(t) == IF m.opnum > t.lastOp THEN Abort(t, "StateTransfer")
                    ELSE CommitUpTo(t, m.opnum)
      Acknowledge(t) == SendPrepareOKs(r, t, merged.from)
      Drain(t) == DrainPending(r, t)
  IN  Then(Then(Then(Then(Result(merged.st, {}), Enter), Execute),
                Acknowledge), Drain)

\* There is no check of status: a replica in a view change or in recovery
\* takes the state too.
HandleStateTransfer(r, m) ==
  /\ Running(r)
  /\ m.view >= rep[r].view
  /\ Step(r, InstallState(r, rep[r], m))

-----------------------------------------------------------------------------
\* View changes.

\* viewChangeTimeout.
ViewChangeTimeout(r) ==
  LET s == rep[r]
  IN  /\ Running(r) /\ s.view < MaxView
      /\ s.status = "viewchange" \/ (s.status = "normal" /\ ~AmLeader(r, s))
      /\ Step(r, StartViewChange(r, s, s.view + 1))

\* Mutant of Joins: the status is not looked at.
JoinsAgain(s, m) == m.view >= s.view

\* A message for a view change is for this view and this replica is in the
\* view change already, or it is for a later view.
Joins(s, m) == m.view > s.view \/ (m.view = s.view /\ s.status = "viewchange")

Join(r, s, m) ==
  IF m.view > s.view THEN StartViewChange(r, s, m.view) ELSE Result(s, {})

LastCommitteds(S) == {x.lastcommitted : x \in S}

\* The DoViewChange of s.  lastnormalview is the view of the last log entry.
DoViewChange(r, s) ==
  DoViewChangeMessage(s.view, LastView(s.log), s.lastOp, s.lastCommitted,
    Dump(s.log, Min(LastCommitteds(s.svcs) \cup {s.lastCommitted})), r)

HandleStartViewChange(r, m) ==
  LET Count(s) ==
        LET t == [s EXCEPT !.svcs = AddMessage(@, m)]
        IN  Result(t, IF Cardinality(t.svcs) >= F /\ ~AmLeader(r, t)
                      THEN {DoViewChange(r, t)} ELSE {})
  IN  /\ Running(r) /\ Joins(rep[r], m)
      /\ Step(r, Then(Join(r, rep[r], m), Count))

\* Mutant of Newer: a longer log of the same view is not newer.
NewerView(x, s) == x.lastnormalview > LastView(s.log)

\* x has a more recent log than the viewstamp of s's last entry.
Newer(x, s) ==
  \/ x.lastnormalview > LastView(s.log)
  \/ x.lastnormalview = LastView(s.log) /\ x.lastop > Len(s.log)

\* The message the new leader of state s installs, as a set that is empty if
\* its own log is the most recent: the first, by replica, of the greatest.
Latest(s) ==
  {x \in s.dvcs :
     /\ Newer(x, s)
     /\ \A y \in s.dvcs :
          \/ y.lastnormalview < x.lastnormalview
          \/ /\ y.lastnormalview = x.lastnormalview
             /\ y.lastop < x.lastop \/ (y.lastop = x.lastop /\ x.from <= y.from)}

\* The log of a DoViewChange or a StartView, sent with message m, in place of
\* the log of s.
TakeLog(s, m, es, lastop, where) ==
  LET kept == RemoveAfter(s.log, lastop + 1)
  IN  IF es.list = <<>>
      THEN IF m.lastcommitted = s.lastCommitted /\ m.lastop = m.lastcommitted
           THEN Result(s, {}) ELSE Abort(s, where)
      ELSE IF es.first > s.lastCommitted + 1 \/ ~CanInstall(kept, es)
      THEN Abort(s, where)
      ELSE Result([s EXCEPT !.log = Install(kept, es)], {})

\* The new leader, with F DoViewChanges, takes the most recent log, enters the
\* view and announces it with the log from opnum from on.  Two reads have no
\* defined result.  The smallest lastcommitted of the StartViewChanges is read
\* past the end of the map when there are none: g is what that gives.  And the
\* most recent message is read through a pointer to a destroyed copy: the copy
\* is still intact, or the process fails.
NewView(s, m, g, intact) ==
  LET latest == Latest(s)
      x == CHOOSE y \in latest : TRUE
      from == Min(LastCommitteds(s.svcs) \cup LastCommitteds(s.dvcs)
                  \cup {s.lastCommitted, g})
      op == IF latest = {} THEN Len(s.log) ELSE x.lastop
      Take(t) == IF latest = {} THEN Result(t, {})
                 ELSE IF ~intact THEN Abort(t, "latestMsg")
                 ELSE TakeLog(t, m, x.entries, x.lastop, "DoViewChange")
      Enter(t) == Result([EnterView(t, m.view) EXCEPT !.lastOp = op], {})
      Execute(t) == IF latest = {} THEN Result(t, {})
                    ELSE CommitUpTo(t, x.lastcommitted)
      Announce(t) ==
        Result(t, {StartViewMessage(t.view, t.lastOp, t.lastCommitted,
                                    Dump(t.log, from))})
  IN  Then(Then(Then(Take(s), Enter), Execute), Announce)

HandleDoViewChange(r, m) ==
  LET s == rep[r]
      noSVC == m.view > s.view \/ s.svcs = {}
      Count(t) == Result([t EXCEPT !.dvcs = AddMessage(@, m)], {})
  IN  /\ Running(r) /\ Joins(s, m)
      /\ \E g \in IF noSVC THEN 0 .. s.lastCommitted ELSE {s.lastCommitted},
            intact \in BOOLEAN :
           LET Finish(t) == IF Cardinality(t.dvcs) < F THEN Result(t, {})
                            ELSE NewView(t, m, g, intact)
           IN  Step(r, Then(Then(Join(r, s, m), Count), Finish))

HandleStartView(r, m) ==
  LET s == rep[r]
      Enter(t) == Result([EnterView(t, m.view) EXCEPT !.lastOp = m.lastop], {})
      Execute(t) == CommitUpTo(t, m.lastcommitted)
      Acknowledge(t) == SendPrepareOKs(r, t, s.lastOp)
  IN  /\ Running(r) /\ Joins(s, m)
      /\ Step(r, Then(Then(Then(TakeLog(s, m, m.entries, m.lastop, "StartView"),
                                Enter), Execute), Acknowledge))

-----------------------------------------------------------------------------
\* Recovery.  Nothing is persistent: a restarted replica knows nothing.

Restart(r) ==
  /\ rep[r].nonce < MaxRestart
  /\ Step(r, Result(NewReplica("recovering", rep[r].nonce + 1),
                    {RecoveryMessage(rep[r].nonce + 1, r)}))

\* Only the leader sends its log.
HandleRecovery(r, m) ==
  LET s == rep[r]
  IN  /\ Normal(r)
      /\ Step(r, Result(s, {IF AmLeader(r, s)
           THEN RecoveryResponseMessage(s.view, m.nonce, s.lastOp,
                  s.lastCommitted, Dump(s.log, 0), r, m.from)
           ELSE RecoveryResponseMessage(s.view, m.nonce, 0, 0,
                  [first |-> 1, list |-> <<>>], r, m.from)}))

\* Mutant of Recover: any response of the highest view will do.
RecoverAny(r, s) ==
  LET highest == Max({x.view : x \in s.recs})
      x == CHOOSE y \in s.recs : y.view = highest
      t == EnterView([s EXCEPT !.log = Install(@, x.entries)], highest)
  IN  IF Cardinality(s.recs) < QuorumSize THEN Result(s, {})
      ELSE CommitUpTo([t EXCEPT !.lastOp = x.lastop], x.lastcommitted)

\* With F + 1 responses the replica takes the log of the leader of their
\* highest view, once that leader's response is among them.
Recover(r, s) ==
  LET highest == Max({x.view : x \in s.recs})
      lead == {x \in s.recs : x.from = LeaderOf(highest) /\ x.view = highest}
      x == CHOOSE y \in lead : TRUE
      t == EnterView([s EXCEPT !.log = Install(@, x.entries)], highest)
  IN  IF Cardinality(s.recs) < QuorumSize THEN Result(s, {})
      ELSE IF LeaderOf(highest) = r THEN Abort(s, "RecoveryResponse")
      ELSE IF lead = {} THEN Result(s, {})
      ELSE CommitUpTo([t EXCEPT !.lastOp = x.lastop], x.lastcommitted)

HandleRecoveryResponse(r, m) ==
  /\ Running(r) /\ rep[r].status = "recovering"
  /\ m.nonce = rep[r].nonce
  /\ Step(r, Recover(r, [rep[r] EXCEPT !.recs = AddMessage(@, m)]))
=============================================================================
