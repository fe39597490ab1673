---------------------------- MODULE NOPaxosProofs ----------------------------
(***************************************************************************)
(* Proofs about NOPaxos for any number of replicas and clients, any F and  *)
(* any other bound: what holds as long as the sequencer has not been       *)
(* replaced and nobody has asked for a view change, whatever the network   *)
(* loses, repeats or reorders.  A handler is a composition of operators on *)
(* one replica's state, so the invariant is stated for states that stand   *)
(* for rep in the middle of a handler too, with Q for the requests that    *)
(* the sequencer has stamped.                                              *)
(***************************************************************************)
EXTENDS NOPaxos, DataLemmas

\* The first session and the first view.  (Requests to join a view must be
\* delivered: of a type in the bound Lost the network keeps no record.)
Undisturbed ==
  /\ session = 0 /\ Sent("ViewChangeRequest") = {}
  /\ "ViewChangeRequest" \notin Lost

Leader == 0
Followers == 1 .. (N - 1)

\* What a place in the log holds.
Item == Req \cup {NoOp}
LogEntry == [view : {0}, sess : {0}, num : Nat, req : Item]

\* The messages of the first view.
OrderedType == [type : {"Ordered"}, req : Req]
RequestType ==
  [type : {"Request"}, sess : {0}, num : 1 .. MaxMsg, req : Req]
ReplyType ==
  [type : {"Reply"}, sess : {0}, view : {0}, opnum : Nat, req : Req,
   result : Int, from : Replicas]
GapRequestType ==
  [type : {"GapRequest"}, sess : {0}, view : {0}, opnum : 1 .. (MaxMsg - 1),
   from : Replicas, to : Replicas]
GapReplyType ==
  [type : {"GapReply"}, sess : {0}, view : {0}, opnum : 1 .. (MaxMsg - 1),
   isfound : BOOLEAN, req : Item, from : Replicas, to : Replicas]
GapCommitType ==
  [type : {"GapCommit"}, sess : {0}, view : {0}, opnum : Nat, from : {Leader}]
GapCommitReplyType ==
  [type : {"GapCommitReply"}, sess : {0}, view : {0}, opnum : Nat,
   from : Followers, to : {Leader}]
AskType ==
  [type : {"StateTransferRequest"}, sess : {0}, view : {0},
   begin : Nat \ {0}, end : Nat, from : Followers, to : {Leader}]
TransferType ==
  [type : {"StateTransferReply"}, sess : {0}, view : {0},
   begin : Nat \ {0}, entries : Seq(LogEntry), to : Followers]
SyncPrepareType ==
  [type : {"SyncPrepare"}, sess : {0}, view : {0}, lastop : Nat,
   gaps : SUBSET Nat, from : {Leader}]
SyncPrepareReplyType ==
  [type : {"SyncPrepareReply"}, sess : {0}, view : {0}, syncpoint : Nat,
   from : Followers, to : {Leader}]
SyncCommitType ==
  [type : {"SyncCommit"}, sess : {0}, view : {0}, syncpoint : Nat,
   from : {Leader}]
SyncPrepareRequestType ==
  [type : {"SyncPrepareRequest"}, sess : {0}, view : {0}, to : {Leader}]

Message ==
  OrderedType \cup RequestType \cup ReplyType \cup GapRequestType
    \cup GapReplyType \cup GapCommitType \cup GapCommitReplyType
    \cup AskType \cup TransferType \cup SyncPrepareType
    \cup SyncPrepareReplyType \cup SyncCommitType \cup SyncPrepareRequestType

\* The aborts of the first view: an entry of a state transfer that comes after
\* a gap installed with the entry before it, and the panic of the leader that
\* a follower asks for a SyncPrepare.
Failures == {NoFailure, "StateTransferReply", "unexpected message type"}

Normal == [sess |-> 0, view |-> 0]
TableType == [Clients -> [id : 0 .. MaxReq, reply : 0 .. MaxReq]]

State ==
  [status : {"normal", "gapcommit"}, sess : {0}, view : {0},
   log : Seq(LogEntry), lastOp : Nat, nextMsgnum : Nat, lastNormal : {Normal},
   lastCommitted : Nat, lastExecuted : Nat, gaps : SUBSET Nat,
   pending : SUBSET RequestType, table : TableType, addrs : SUBSET Clients,
   app : Seq(Req), gapReplies : SUBSET Replicas, gapCommits : SUBSET Followers,
   viewChanges : {{}}, startViews : {{}},
   syncReplies : SUBSET [point : Nat, from : Followers],
   startGap : BOOLEAN, gapRequest : BOOLEAN, starting : {FALSE},
   transferEnd : Nat, syncPoint : Nat, prepared : SUBSET Nat,
   committed : SUBSET Nat,
   startView : {[normal |-> Normal, lastop |-> 0, gaps |-> {}]},
   failed : Failures]

States == [Replicas -> State]

\* No request is executed twice, and the client table knows the latest of each
\* client.
AppOK(s) ==
  /\ \A i, j \in 1 .. Len(s.app) : s.app[i] = s.app[j] => i = j
  /\ \A i \in 1 .. Len(s.app) : s.app[i].id <= s.table[s.app[i].client].id

\* A place in the log holds the request stamped with its number, or it is a gap.
PlaceOK(Q, s, op) ==
  /\ s.log[op].num = op
  /\ s.log[op].req = NoOp <=> op \in s.gaps
  /\ s.log[op].req # NoOp => RequestMessage(0, op, s.log[op].req) \in Q

\* What holds of any replica by itself.
LocalOK(Q, s) ==
  /\ s.lastOp = Len(s.log) /\ s.nextMsgnum = s.lastOp + 1
  /\ s.lastOp <= MaxMsg
  /\ s.lastExecuted <= s.lastOp /\ s.lastCommitted <= s.lastOp
  /\ \A op \in 1 .. s.lastOp : PlaceOK(Q, s, op)
  /\ s.pending \subseteq Q
  /\ s.startGap \/ s.gapRequest => s.lastOp + 1 < MaxMsg
  /\ AppOK(s)

\* A replica knows all gaps of the leader's log up to a place in it.
Caught(lead, s, p) ==
  p <= lead.lastOp /\ \A g \in lead.gaps : g <= p => g \in s.gaps

\* It also has the operations up to there: its log is the leader's so far.
Reached(lead, s, p) == Caught(lead, s, p) /\ p <= s.lastOp

\* A follower knows only gaps of the leader's log, and all of them up to what
\* it has committed or may commit once the operations are there.  X is the
\* point of a SyncPrepare whose gaps are being installed.
FollowerOK(lead, X, s) ==
  /\ s.status = "normal" /\ s.gaps \subseteq lead.gaps
  /\ s.lastExecuted <= s.lastCommitted
  /\ \A p \in s.prepared \ X : Caught(lead, s, p)
  /\ s.transferEnd > 0 => Caught(lead, s, s.transferEnd - 1)
  /\ Caught(lead, s, s.lastCommitted)

\* The followers that hold a gap, and those that have reached a place.
Holding(R, g) == {r \in Followers : g \in R[r].gaps /\ g <= R[r].lastOp}
Reaching(lead, R, p) == {r \in Followers : Reached(lead, R[r], p)}

\* The leader's gaps are places of its log, each but the one being agreed on
\* held by F followers; a counted answer says what is so; F followers have
\* reached what is committed.
LeaderOK(R, s) ==
  /\ s.gaps \subseteq 1 .. s.lastOp /\ s.transferEnd = 0
  /\ \A g \in s.gaps : \/ Cardinality(Holding(R, g)) >= F
                       \/ s.status = "gapcommit" /\ g = s.lastOp
  /\ s.status = "gapcommit" =>
       ~s.startGap /\ ~s.gapRequest /\ s.gapCommits \subseteq Holding(R, s.lastOp)
  /\ \A x \in s.syncReplies : x.from \in Reaching(s, R, x.point)
  /\ s.lastCommitted > 0 => Cardinality(Reaching(s, R, s.lastCommitted)) >= F

ReplicasOK(Q, R) ==
  /\ R \in States
  /\ \A r \in Replicas : LocalOK(Q, R[r])
  /\ \A r \in Followers : FollowerOK(R[Leader], {}, R[r])
  /\ LeaderOK(R, R[Leader])

\* A message says what is still so: lead is the leader's state and s its
\* sender's.
MessageTrue(Q, lead, s, m) ==
  /\ m.type = "Reply" /\ m.from = Leader =>
       m.opnum \in 1 .. lead.lastOp /\ lead.log[m.opnum].req = m.req
  /\ m.type = "GapReply" /\ m.isfound =>
       IF m.req = NoOp THEN m.opnum \in lead.gaps
       ELSE RequestMessage(0, m.opnum, m.req) \in Q
  /\ m.type = "GapCommit" => m.opnum \in lead.gaps
  /\ m.type = "GapCommitReply" => m.opnum \in s.gaps /\ m.opnum <= s.lastOp
  /\ m.type = "StateTransferReply" =>
       \A i \in 1 .. Len(m.entries) :
         /\ m.begin + i - 1 \in 1 .. lead.lastOp
         /\ m.entries[i] = lead.log[m.begin + i - 1]
  /\ m.type = "SyncPrepare" =>
       /\ m.lastop <= lead.lastOp
       /\ \A g \in lead.gaps : g <= m.lastop => g \in m.gaps
       /\ \A g \in m.gaps : g <= m.lastop /\ g \in lead.gaps
  /\ m.type = "SyncPrepareReply" => Reached(lead, s, m.syncpoint)

\* The sequencer gives no number twice.
SequencerOK ==
  /\ session \in Nat /\ counter \in 0 .. MaxMsg
  /\ \A m \in Sent("Request") : m.num <= counter
  /\ \A m, n \in Sent("Request") : m.num = n.num => m = n

ClientsOK ==
  /\ lastReqId \in [Clients -> 0 .. MaxReq] /\ pending \in [Clients -> BOOLEAN]
  /\ accepted \subseteq Sent("Reply") /\ \A a \in accepted : a.from = Leader

MessagesOK ==
  /\ msgs \in [MessageTypes -> SUBSET Message]
  /\ \A t \in MessageTypes : \A m \in msgs[t] :
       /\ m.type = t
       /\ MessageTrue(Sent("Request"), rep[Leader], rep[m.from], m)

Inv ==
  /\ ReplicasOK(Sent("Request"), rep)
  /\ MessagesOK /\ SequencerOK /\ ClientsOK

\* The inductive invariant.
FirstView == session \in Nat /\ (Undisturbed => Inv)

-----------------------------------------------------------------------------
(* Constants, types and a replica's fields.                                  *)

\* The configuration: replica 0 leads the first view, the others follow.
LEMMA Constants ==
  /\ N \in Nat /\ F \in Nat /\ F > 0 /\ MaxReq \in Nat /\ MaxMsg \in Nat
  /\ Leader \in Replicas /\ Leader \notin Followers
  /\ Followers \subseteq Replicas /\ IsFiniteSet(Followers)
  /\ \A r \in Replicas : r # Leader => r \in Followers
  /\ LeaderOf(0) = Leader
<1>1. /\ N \in Nat /\ N > 0 /\ F \in Nat /\ F > 0 /\ MaxReq \in Nat
      /\ MaxMsg \in Nat
  BY NOPaxosConfigAssumption, NOPaxosBoundAssumption
<1>2. /\ Leader \in Replicas /\ Leader \notin Followers
      /\ Followers \subseteq Replicas
      /\ \A r \in Replicas : r # Leader => r \in Followers
  BY <1>1 DEF Leader, Followers, Replicas
<1>3. IsFiniteSet(Followers)
  BY <1>1, FS_Interval, 1 \in Int, N - 1 \in Int DEF Followers
<1>4. LeaderOf(0) = Leader
  BY <1>1 DEF LeaderOf, Leader
<1> QED
  BY <1>1, <1>2, <1>3, <1>4

\* A gap is no request, and a place in the log holds a request or a gap.
LEMMA Items ==
  /\ NoOp \in Item /\ NoOp \notin Req
  /\ \A q \in Item : q # NoOp => q \in Req
  /\ \A q \in Req : q.client \in Clients /\ q.id \in 1 .. MaxReq
<1>1. NoOp \notin Req
  <2>1. NoOp.id = 0
    BY DEF NoOp
  <2>2. \A q \in Req : q.id # 0
    BY Constants DEF Req
  <2> QED
    BY <2>1, <2>2
<1>2. \A q \in Req : q.client \in Clients /\ q.id \in 1 .. MaxReq
  BY DEF Req
<1> QED
  BY <1>1, <1>2 DEF Item

\* The types of a replica's fields.
LEMMA StateFields ==
  ASSUME NEW s \in State
  PROVE  /\ s.status \in {"normal", "gapcommit"} /\ s.sess = 0 /\ s.view = 0
         /\ s.log \in Seq(LogEntry) /\ Len(s.log) \in Nat /\ s.lastOp \in Nat
         /\ s.nextMsgnum \in Nat /\ s.lastCommitted \in Nat
         /\ s.lastExecuted \in Nat /\ s.gaps \in SUBSET Nat
         /\ s.pending \in SUBSET RequestType /\ s.table \in TableType
         /\ s.addrs \in SUBSET Clients /\ s.app \in Seq(Req)
         /\ s.gapReplies \in SUBSET Replicas
         /\ s.gapCommits \in SUBSET Followers
         /\ s.syncReplies \in SUBSET [point : Nat, from : Followers]
         /\ s.startGap \in BOOLEAN /\ s.gapRequest \in BOOLEAN
         /\ s.starting = FALSE /\ s.transferEnd \in Nat /\ s.syncPoint \in Nat
         /\ s.prepared \in SUBSET Nat /\ s.committed \in SUBSET Nat
         /\ s.failed \in Failures
<1>1. /\ s.status \in {"normal", "gapcommit"} /\ s.sess = 0 /\ s.view = 0
      /\ s.log \in Seq(LogEntry) /\ s.lastOp \in Nat
      /\ s.nextMsgnum \in Nat /\ s.lastCommitted \in Nat
      /\ s.lastExecuted \in Nat /\ s.gaps \in SUBSET Nat
      /\ s.pending \in SUBSET RequestType /\ s.table \in TableType
      /\ s.addrs \in SUBSET Clients /\ s.app \in Seq(Req)
  BY DEF State
<1>2. /\ s.gapReplies \in SUBSET Replicas
      /\ s.gapCommits \in SUBSET Followers
      /\ s.syncReplies \in SUBSET [point : Nat, from : Followers]
      /\ s.startGap \in BOOLEAN /\ s.gapRequest \in BOOLEAN
      /\ s.starting = FALSE /\ s.transferEnd \in Nat /\ s.syncPoint \in Nat
      /\ s.prepared \in SUBSET Nat /\ s.committed \in SUBSET Nat
      /\ s.failed \in Failures
  BY DEF State
<1> QED
  BY <1>1, <1>2

Fields ==
  {"status", "sess", "view", "log", "lastOp", "nextMsgnum", "lastNormal",
   "lastCommitted", "lastExecuted", "gaps", "pending", "table", "addrs", "app",
   "gapReplies", "gapCommits", "viewChanges", "startViews", "syncReplies",
   "startGap", "gapRequest", "starting", "transferEnd", "syncPoint", "prepared",
   "committed", "startView", "failed"}

\* The fields by name, for updates of some of them.
LEMMA StateDomain ==
  ASSUME NEW s \in State
  PROVE  DOMAIN s = Fields
BY DEF State, Fields

\* The types of a log entry's and a table entry's fields.
LEMMA EntryFields ==
  ASSUME NEW s \in State
  PROVE  /\ \A op \in 1 .. Len(s.log) :
              /\ s.log[op] \in LogEntry /\ s.log[op].req \in Item
              /\ s.log[op].view = 0 /\ s.log[op].sess = 0
              /\ s.log[op].num \in Nat
         /\ \A c \in Clients :
              s.table[c].id \in 0 .. MaxReq /\ s.table[c].reply \in 0 .. MaxReq
<1>1. s.log \in Seq(LogEntry) /\ s.table \in TableType
  BY StateFields
<1>2. ASSUME NEW op \in 1 .. Len(s.log)
      PROVE  s.log[op] \in LogEntry
  BY <1>1
<1> QED
  BY <1>1, <1>2 DEF LogEntry, TableType

\* The aborts of the first view.
LEMMA FailureKinds ==
  /\ NoFailure \in Failures
  /\ "StateTransferReply" \in Failures /\ "unexpected message type" \in Failures
BY Zenon DEF Failures

Results == [st : State, out : SUBSET Message]

\* The parts of a result.
LEMMA ResultFields ==
  ASSUME NEW s, NEW out
  PROVE  /\ Result(s, out).st = s /\ Result(s, out).out = out
         /\ (s \in State /\ out \subseteq Message => Result(s, out) \in Results)
BY DEF Result, Results

\* A message's fields by its type.
LEMMA MessageKinds ==
  ASSUME NEW m \in Message
  PROVE  /\ m.type = "Ordered" => m \in OrderedType
         /\ m.type = "Request" => m \in RequestType
         /\ m.type = "Reply" => m \in ReplyType
         /\ m.type = "GapRequest" => m \in GapRequestType
         /\ m.type = "GapReply" => m \in GapReplyType
         /\ m.type = "GapCommit" => m \in GapCommitType
         /\ m.type = "GapCommitReply" => m \in GapCommitReplyType
         /\ m.type = "StateTransferRequest" => m \in AskType
         /\ m.type = "StateTransferReply" => m \in TransferType
         /\ m.type = "SyncPrepare" => m \in SyncPrepareType
         /\ m.type = "SyncPrepareReply" => m \in SyncPrepareReplyType
         /\ m.type = "SyncCommit" => m \in SyncCommitType
         /\ m.type = "SyncPrepareRequest" => m \in SyncPrepareRequestType
         /\ m.type \notin {"ViewChangeRequest", "ViewChange", "StartView",
                           "StartViewReply"}
<1> USE DEF OrderedType, RequestType, ReplyType, GapRequestType, GapReplyType,
            GapCommitType, GapCommitReplyType, AskType, TransferType,
            SyncPrepareType, SyncPrepareReplyType, SyncCommitType,
            SyncPrepareRequestType
<1>1. CASE m \in OrderedType
  BY <1>1
<1>2. CASE m \in RequestType
  BY <1>2
<1>3. CASE m \in ReplyType
  BY <1>3
<1>4. CASE m \in GapRequestType
  BY <1>4
<1>5. CASE m \in GapReplyType
  BY <1>5
<1>6. CASE m \in GapCommitType
  BY <1>6
<1>7. CASE m \in GapCommitReplyType
  BY <1>7
<1>8. CASE m \in AskType
  BY <1>8
<1>9. CASE m \in TransferType
  BY <1>9
<1>10. CASE m \in SyncPrepareType
  BY <1>10
<1>11. CASE m \in SyncPrepareReplyType
  BY <1>11
<1>12. CASE m \in SyncCommitType
  BY <1>12
<1>13. CASE m \in SyncPrepareRequestType
  BY <1>13
<1> HIDE DEF OrderedType, RequestType, ReplyType, GapRequestType, GapReplyType,
             GapCommitType, GapCommitReplyType, AskType, TransferType,
             SyncPrepareType, SyncPrepareReplyType, SyncCommitType,
             SyncPrepareRequestType
<1> QED
  BY <1>1, <1>2, <1>3, <1>4, <1>5, <1>6, <1>7, <1>8, <1>9, <1>10, <1>11,
     <1>12, <1>13 DEF Message

-----------------------------------------------------------------------------
(* Execution.                                                                *)

\* s with other execution state, and t is s with more executed.
Executing(s, k, a, tb) ==
  [s EXCEPT !.lastExecuted = k, !.app = a, !.table = tb]
Executed(s, t) == t = Executing(s, t.lastExecuted, t.app, t.table)

\* A reply of the leader names a request of its log.
LeaderReplies(s, m) ==
  /\ m \in ReplyType /\ m.from = Leader
  /\ m.opnum \in 1 .. s.lastOp /\ s.log[m.opnum].req = m.req

\* Execution up to a place changes only what is executed, and only the leader
\* sends replies.
Executes(Q, r, s, upto, res) ==
  /\ res.st \in State /\ LocalOK(Q, res.st) /\ Executed(s, res.st)
  /\ res.st.lastExecuted \in {s.lastExecuted} \cup 0 .. upto
  /\ \A m \in res.out : r = Leader /\ LeaderReplies(s, m)

\* What does not change when more is executed.
LEMMA ExecutedFields ==
  ASSUME NEW s \in State, NEW t, Executed(s, t)
  PROVE  /\ t.status = s.status /\ t.sess = s.sess /\ t.view = s.view
         /\ t.log = s.log /\ t.lastOp = s.lastOp /\ t.nextMsgnum = s.nextMsgnum
         /\ t.lastCommitted = s.lastCommitted /\ t.gaps = s.gaps
         /\ t.pending = s.pending /\ t.addrs = s.addrs
         /\ t.gapReplies = s.gapReplies /\ t.gapCommits = s.gapCommits
         /\ t.syncReplies = s.syncReplies /\ t.startGap = s.startGap
         /\ t.gapRequest = s.gapRequest /\ t.transferEnd = s.transferEnd
         /\ t.syncPoint = s.syncPoint /\ t.prepared = s.prepared
         /\ t.committed = s.committed /\ t.failed = s.failed
<1>1. /\ t.status = s.status /\ t.sess = s.sess /\ t.view = s.view
      /\ t.log = s.log /\ t.lastOp = s.lastOp /\ t.nextMsgnum = s.nextMsgnum
      /\ t.lastCommitted = s.lastCommitted /\ t.gaps = s.gaps
      /\ t.pending = s.pending /\ t.addrs = s.addrs
  BY StateDomain, ZenonT(40) DEF Executed, Executing, Fields
<1>2. /\ t.gapReplies = s.gapReplies /\ t.gapCommits = s.gapCommits
      /\ t.syncReplies = s.syncReplies /\ t.startGap = s.startGap
      /\ t.gapRequest = s.gapRequest /\ t.transferEnd = s.transferEnd
      /\ t.syncPoint = s.syncPoint /\ t.prepared = s.prepared
      /\ t.committed = s.committed /\ t.failed = s.failed
  BY StateDomain, ZenonT(40) DEF Executed, Executing, Fields
<1> QED
  BY <1>1, <1>2

\* Executing more keeps the type of a state.
LEMMA ExecutingFields ==
  ASSUME NEW s \in State, NEW k \in Nat, NEW a \in Seq(Req),
         NEW tb \in TableType
  PROVE  LET t == Executing(s, k, a, tb)
         IN  /\ t \in State /\ Executed(s, t)
             /\ t.lastExecuted = k /\ t.app = a /\ t.table = tb
<1> DEFINE t == Executing(s, k, a, tb)
<1>1. t \in State
  BY ZenonT(40) DEF Executing, State
<1>2. t.lastExecuted = k /\ t.app = a /\ t.table = tb
  BY StateDomain, ZenonT(40) DEF Executing, Fields
<1>3. Executed(s, t)
  BY <1>2 DEF Executed
<1> QED
  BY <1>1, <1>2, <1>3

\* A replica that has executed more is in order.
LEMMA ExecutedOK ==
  ASSUME NEW Q, NEW s \in State, LocalOK(Q, s),
         NEW t \in State, Executed(s, t), AppOK(t), t.lastExecuted <= s.lastOp
  PROVE  LocalOK(Q, t)
<1>1. /\ t.log = s.log /\ t.lastOp = s.lastOp /\ t.nextMsgnum = s.nextMsgnum
      /\ t.lastCommitted = s.lastCommitted /\ t.gaps = s.gaps
      /\ t.pending = s.pending /\ t.startGap = s.startGap
      /\ t.gapRequest = s.gapRequest
  BY ExecutedFields
<1>2. ASSUME NEW op \in 1 .. t.lastOp
      PROVE  PlaceOK(Q, t, op)
  BY <1>1 DEF LocalOK, PlaceOK
<1> QED
  BY <1>1, <1>2 DEF LocalOK

\* ExecuteUptoOp for one operation.
LEMMA ExecuteOpFields ==
  ASSUME NEW Q, NEW r \in Replicas, NEW s \in State, LocalOK(Q, s),
         NEW op \in 1 .. s.lastOp
  PROVE  Executes(Q, r, s, op, ExecuteOp(r, s, op))
<1> DEFINE e == s.log[op]
           q == e.req
           old == s.table[q.client]
           next == [s EXCEPT !.lastExecuted = op]
           Answer(result) == IF LeaderOf(e.view) = r /\ q.client \in s.addrs
                             THEN {ReplyMessage(e, op, q, result, r)} ELSE {}
           ran == [next EXCEPT
                     !.app = Append(@, q),
                     !.table[q.client] =
                        [id |-> q.id, reply |-> IF AmLeader(r, s) THEN q.id
                                                ELSE old.reply]]
<1>1. /\ op \in 1 .. Len(s.log) /\ ~(op > Len(s.log)) /\ op \in Nat
      /\ op <= s.lastOp
      /\ s.app \in Seq(Req) /\ s.table \in TableType /\ AppOK(s)
  <2>1. s.lastOp = Len(s.log) /\ AppOK(s)
    BY DEF LocalOK
  <2>2. s.lastOp \in Nat /\ s.app \in Seq(Req) /\ s.table \in TableType
    BY StateFields
  <2> QED
    BY <2>1, <2>2
<1>2. e \in LogEntry /\ q \in Item /\ e.view = 0 /\ e.sess = 0
  BY <1>1, EntryFields
<1>3. ExecuteOp(r, s, op) =
        IF q = NoOp THEN Result(next, {})
        ELSE IF q.id < old.id THEN Result(next, {})
        ELSE IF q.id = old.id THEN Result(next, Answer(old.reply))
        ELSE Result(ran, Answer(q.id))
  BY <1>1, Zenon DEF ExecuteOp
<1>4. /\ next \in State /\ LocalOK(Q, next) /\ Executed(s, next)
      /\ next.lastExecuted = op
  <2>1. next = Executing(s, op, s.app, s.table)
    BY StateDomain DEF Fields, Executing
  <2> HIDE DEF next
  <2>2. /\ next \in State /\ Executed(s, next) /\ next.lastExecuted = op
        /\ next.app = s.app /\ next.table = s.table
    BY <1>1, <2>1, ExecutingFields
  <2>3. AppOK(next)
    BY <1>1, <2>2 DEF AppOK
  <2> QED
    BY <1>1, <2>2, <2>3, ExecutedOK
<1>5. ASSUME q # NoOp
      PROVE  /\ q \in Req /\ q.client \in Clients /\ q.id \in 1 .. MaxReq
             /\ old.id \in 0 .. MaxReq /\ old.reply \in 0 .. MaxReq
             /\ \A result \in 0 .. MaxReq :
                  \A m \in Answer(result) : r = Leader /\ LeaderReplies(s, m)
  <2>1. q \in Req /\ q.client \in Clients /\ q.id \in 1 .. MaxReq
    BY <1>2, <1>5, Items
  <2>2. old.id \in 0 .. MaxReq /\ old.reply \in 0 .. MaxReq
    BY <2>1, EntryFields
  <2>3. ASSUME NEW result \in 0 .. MaxReq, NEW m \in Answer(result)
        PROVE  r = Leader /\ LeaderReplies(s, m)
    <3>1. m = ReplyMessage(e, op, q, result, r) /\ LeaderOf(e.view) = r
      OBVIOUS
    <3>2. r = Leader
      BY <1>2, <3>1, Constants
    <3> HIDE DEF q
    <3>3. /\ m = [type |-> "Reply", sess |-> 0, view |-> 0, opnum |-> op,
                  req |-> q, result |-> result, from |-> r]
      BY <1>2, <3>1 DEF ReplyMessage
    <3>4. m \in ReplyType /\ m.from = Leader
      BY <1>1, <2>1, <3>2, <3>3, Constants DEF ReplyType
    <3>5. m.opnum = op /\ m.req = q
      BY <3>3
    <3> QED
      BY <3>2, <3>4, <3>5 DEF LeaderReplies, q
  <2> QED
    BY <2>1, <2>2, <2>3
<1> HIDE DEF Answer, next
<1>6. ASSUME q # NoOp, ~(q.id < old.id), q.id # old.id
      PROVE  /\ ran \in State /\ LocalOK(Q, ran) /\ Executed(s, ran)
             /\ ran.lastExecuted = op
  <2>1. /\ q \in Req /\ q.client \in Clients /\ q.id \in 1 .. MaxReq
        /\ old.id \in 0 .. MaxReq /\ old.reply \in 0 .. MaxReq
        /\ q.id > old.id
    <3>1. /\ q \in Req /\ q.client \in Clients /\ q.id \in 1 .. MaxReq
          /\ old.id \in 0 .. MaxReq /\ old.reply \in 0 .. MaxReq
      BY <1>5, <1>6
    <3> HIDE DEF q, old
    <3> QED
      BY <1>6, <3>1, Constants
  <2> DEFINE a == Append(s.app, q)
             entry == [id |-> q.id, reply |-> IF AmLeader(r, s) THEN q.id
                                              ELSE old.reply]
             tb == [s.table EXCEPT ![q.client] = entry]
  <2>2. ran = Executing(s, op, a, tb)
    BY StateDomain DEF next, Fields, Executing
  <2>3. a \in Seq(Req)
    <3>1. s.app \in Seq(Req) /\ q \in Req
      BY <1>1, <2>1
    <3> HIDE DEF q
    <3> QED
      BY <3>1
  <2>4. /\ tb \in TableType /\ tb[q.client].id = q.id
        /\ \A c \in Clients : c # q.client => tb[c] = s.table[c]
    <3>1. entry \in [id : 0 .. MaxReq, reply : 0 .. MaxReq]
      <4> HIDE DEF q, old
      <4>1. q.id \in 0 .. MaxReq
        BY <2>1, Constants
      <4> QED
        BY <2>1, <4>1
    <3> QED
      BY <1>1, <2>1, <3>1 DEF TableType
  <2> HIDE DEF ran, q, old
  <2>5. /\ ran \in State /\ Executed(s, ran) /\ ran.lastExecuted = op
        /\ ran.app = a /\ ran.table = tb
    <3> HIDE DEF a, tb
    <3>1. op \in Nat /\ a \in Seq(Req) /\ tb \in TableType
      BY <1>1, <2>3, <2>4
    <3> QED
      BY <2>2, <3>1, ExecutingFields
  <2>6. AppOK(ran)
    <3> DEFINE n == Len(s.app)
    <3>1. /\ n \in Nat /\ Len(a) = n + 1 /\ a[n + 1] = q
          /\ \A i \in 1 .. n : a[i] = s.app[i]
      BY <1>1, <2>1
    <3>2. ASSUME NEW i \in 1 .. n
          PROVE  /\ a[i].client \in Clients /\ a[i].id \in 1 .. MaxReq
                 /\ a[i].id <= s.table[a[i].client].id
      <4>1. a[i] = s.app[i] /\ s.app[i] \in Req
        BY <1>1, <3>1
      <4> QED
        BY <1>1, <4>1, Items DEF AppOK
    <3> HIDE DEF a, tb
    <3>3. ASSUME NEW i \in 1 .. n
          PROVE  a[i] # q /\ a[i].id <= tb[a[i].client].id
      <4>1. CASE a[i].client = q.client
        <5>1. a[i].id <= old.id
          BY <3>2, <4>1 DEF old
        <5>2. a[i].id < q.id /\ a[i].id <= q.id
          BY <2>1, <3>2, <5>1, Constants
        <5> QED
          BY <2>1, <2>4, <4>1, <5>2, Constants
      <4>2. CASE a[i].client # q.client
        BY <2>4, <3>2, <4>2
      <4> QED
        BY <4>1, <4>2
    <3>4. \A i \in 1 .. Len(a) : i \in 1 .. n \/ i = n + 1
      BY <3>1
    <3>5. \A i \in 1 .. Len(a) : a[i].id <= tb[a[i].client].id
      BY <2>1, <2>4, <3>1, <3>3, <3>4, Constants
    <3>6. ASSUME NEW i \in 1 .. Len(a), NEW j \in 1 .. Len(a), a[i] = a[j]
          PROVE  i = j
      <4>1. CASE i \in 1 .. n /\ j \in 1 .. n
        BY <1>1, <3>1, <3>6, <4>1 DEF AppOK
      <4>2. CASE i = n + 1 \/ j = n + 1
        BY <3>1, <3>3, <3>4, <3>6, <4>2
      <4> QED
        BY <3>4, <4>1, <4>2
    <3> QED
      BY <2>5, <3>5, <3>6 DEF AppOK
  <2> QED
    BY <1>1, <2>5, <2>6, ExecutedOK
<1> HIDE DEF ran, q, old
<1>7. op \in 0 .. op
  BY <1>1, StateFields
<1>8. CASE q = NoOp \/ q.id < old.id
  <2>1. ExecuteOp(r, s, op) = Result(next, {})
    BY <1>3, <1>8
  <2> QED
    BY <1>4, <1>7, <2>1, ResultFields DEF Executes
<1>9. CASE q # NoOp /\ ~(q.id < old.id) /\ q.id = old.id
  <2>1. ExecuteOp(r, s, op) = Result(next, Answer(old.reply))
    BY <1>3, <1>9
  <2> QED
    BY <1>4, <1>5, <1>7, <1>9, <2>1, ResultFields DEF Executes
<1>10. CASE q # NoOp /\ ~(q.id < old.id) /\ q.id # old.id
  <2>1. ExecuteOp(r, s, op) = Result(ran, Answer(q.id))
    BY <1>3, <1>10
  <2>2. q.id \in 0 .. MaxReq
    BY <1>5, <1>10, Constants
  <2> QED
    BY <1>5, <1>6, <1>7, <1>10, <2>1, <2>2, ResultFields DEF Executes
<1> QED
  BY <1>8, <1>9, <1>10

-----------------------------------------------------------------------------
(* Steps of one replica's state within a handler.                            *)

\* The leader's state in the middle of a handler of r.
LeadOf(R, r, s) == IF r = Leader THEN s ELSE R[Leader]

\* The state s of r is in order, R being the states before the handler.
ReplicaOK(Q, R, X, r, s) ==
  /\ s \in State /\ LocalOK(Q, s)
  /\ IF r = Leader THEN LeaderOK(R, s) ELSE FollowerOK(R[Leader], X, s)

\* A log only gets longer, and replicas only learn of gaps; the leader's log
\* keeps what it has.
Grows(r, s, t) ==
  /\ s.lastOp <= t.lastOp /\ s.gaps \subseteq t.gaps
  /\ r = Leader => /\ \A op \in 1 .. s.lastOp : t.log[op] = s.log[op]
                   /\ \A g \in t.gaps : g <= s.lastOp => g \in s.gaps

AboutSender == {"GapCommitReply", "SyncPrepareReply"}

\* What r may send when it has reached the state t.
Says(Q, R, r, t, m) ==
  /\ m \in Message /\ m.type \notin {"Ordered", "Request"}
  /\ m.type \in AboutSender => m.from = r
  /\ MessageTrue(Q, LeadOf(R, r, t), t, m)

\* A result that leaves r in order, and aborts nothing.
Goes(Q, R, X, r, s, res) ==
  /\ ReplicaOK(Q, R, X, r, res.st) /\ Grows(r, s, res.st)
  /\ res.st.failed = s.failed
  /\ \A m \in res.out : Says(Q, R, r, res.st, m)

Context(Q, R) == Q \subseteq RequestType /\ IsFiniteSet(Q) /\ ReplicasOK(Q, R)

\* The context of a handler, field by field.
LEMMA ContextFields ==
  ASSUME NEW Q, NEW R, Context(Q, R)
  PROVE  /\ Q \subseteq RequestType /\ IsFiniteSet(Q) /\ R \in States
         /\ R[Leader] \in State /\ LocalOK(Q, R[Leader])
         /\ LeaderOK(R, R[Leader])
         /\ \A r \in Followers :
              R[r] \in State /\ LocalOK(Q, R[r]) /\ FollowerOK(R[Leader], {}, R[r])
<1>1. /\ Q \subseteq RequestType /\ IsFiniteSet(Q) /\ R \in States
      /\ LeaderOK(R, R[Leader])
      /\ \A r \in Replicas : LocalOK(Q, R[r])
      /\ \A r \in Followers : FollowerOK(R[Leader], {}, R[r])
  BY DEF Context, ReplicasOK
<1>2. \A r \in Replicas : R[r] \in State
  BY <1>1 DEF States
<1>3. Leader \in Replicas /\ Followers \subseteq Replicas
  BY Constants
<1>4. R[Leader] \in State /\ LocalOK(Q, R[Leader])
  BY <1>1, <1>2, <1>3
<1>5. ASSUME NEW r \in Followers
      PROVE  /\ R[r] \in State /\ LocalOK(Q, R[r])
             /\ FollowerOK(R[Leader], {}, R[r])
  BY <1>1, <1>2, <1>3
<1> QED
  BY <1>1, <1>4, <1>5

\* A replica that stands still grows.
LEMMA GrowsReflexive ==
  ASSUME NEW r, NEW s \in State
  PROVE  Grows(r, s, s)
<1>1. s.lastOp \in Nat
  BY StateFields
<1> QED
  BY <1>1 DEF Grows

\* Growing in two steps is growing.
LEMMA GrowsTransitive ==
  ASSUME NEW r, NEW s \in State, NEW t \in State, NEW u \in State,
         Grows(r, s, t), Grows(r, t, u)
  PROVE  Grows(r, s, u)
<1>1. s.lastOp \in Nat /\ t.lastOp \in Nat /\ u.lastOp \in Nat
  BY StateFields
<1>2. s.lastOp <= t.lastOp /\ t.lastOp <= u.lastOp /\ s.lastOp <= u.lastOp
  BY <1>1 DEF Grows
<1>3. s.gaps \subseteq u.gaps
  BY DEF Grows
<1>4. ASSUME r = Leader, NEW op \in 1 .. s.lastOp
      PROVE  u.log[op] = s.log[op]
  <2>1. op \in 1 .. t.lastOp
    BY <1>1, <1>2
  <2> QED
    BY <1>4, <2>1 DEF Grows
<1>5. ASSUME r = Leader, NEW g \in u.gaps, g <= s.lastOp
      PROVE  g \in s.gaps
  <2>1. g \in Nat
    BY StateFields
  <2>2. g <= t.lastOp
    BY <1>1, <1>2, <1>5, <2>1
  <2> QED
    BY <1>5, <2>2 DEF Grows
<1> QED
  BY <1>2, <1>3, <1>4, <1>5 DEF Grows

\* What a replica has caught up with or reached it keeps, whether it or the
\* leader goes on.
LEMMA CaughtStays ==
  ASSUME NEW lead \in State, NEW lead2 \in State, Grows(Leader, lead, lead2),
         NEW s \in State, NEW s2 \in State,
         s.lastOp <= s2.lastOp, s.gaps \subseteq s2.gaps, NEW p \in Nat
  PROVE  /\ Caught(lead, s, p) => Caught(lead2, s2, p)
         /\ Reached(lead, s, p) => Reached(lead2, s2, p)
<1>1. /\ lead.lastOp \in Nat /\ lead2.lastOp \in Nat /\ s.lastOp \in Nat
      /\ s2.lastOp \in Nat /\ lead2.gaps \in SUBSET Nat
      /\ lead.lastOp <= lead2.lastOp
  BY StateFields DEF Grows
<1>2. ASSUME Caught(lead, s, p)
      PROVE  Caught(lead2, s2, p)
  <2>1. p <= lead.lastOp /\ p <= lead2.lastOp
    BY <1>1, <1>2, AtMostTransitive DEF Caught
  <2>2. ASSUME NEW g \in lead2.gaps, g <= p
        PROVE  g \in s2.gaps
    <3>1. g <= lead.lastOp
      BY <1>1, <2>1, <2>2
    <3>2. g \in lead.gaps
      BY <3>1 DEF Grows
    <3> QED
      BY <1>2, <2>2, <3>2 DEF Caught
  <2> QED
    BY <2>1, <2>2 DEF Caught
<1>3. ASSUME Reached(lead, s, p)
      PROVE  Reached(lead2, s2, p)
  <2>1. p <= s2.lastOp
    BY <1>1, <1>3 DEF Reached
  <2> QED
    BY <1>2, <1>3, <2>1 DEF Reached
<1> QED
  BY <1>2, <1>3

\* What a message says stays so.
LEMMA MessageStays ==
  ASSUME NEW Q, NEW Q2, Q \subseteq Q2, NEW m \in Message,
         NEW lead \in State, NEW lead2 \in State, Grows(Leader, lead, lead2),
         NEW s, NEW s2,
         m.type \in AboutSender => /\ s \in State /\ s2 \in State
                                   /\ s.lastOp <= s2.lastOp
                                   /\ s.gaps \subseteq s2.gaps,
         MessageTrue(Q, lead, s, m)
  PROVE  MessageTrue(Q2, lead2, s2, m)
<1>1. /\ lead.lastOp \in Nat /\ lead2.lastOp \in Nat
      /\ lead.lastOp <= lead2.lastOp /\ lead.gaps \subseteq lead2.gaps
      /\ lead2.gaps \in SUBSET Nat
      /\ \A op \in 1 .. lead.lastOp : lead2.log[op] = lead.log[op]
      /\ \A g \in lead2.gaps : g <= lead.lastOp => g \in lead.gaps
  BY StateFields DEF Grows
<1>2. 1 .. lead.lastOp \subseteq 1 .. lead2.lastOp
  BY <1>1
<1>3. ASSUME m.type = "Reply", m.from = Leader
      PROVE  m.opnum \in 1 .. lead2.lastOp /\ lead2.log[m.opnum].req = m.req
  <2>1. m.opnum \in 1 .. lead.lastOp /\ lead.log[m.opnum].req = m.req
    BY <1>3 DEF MessageTrue
  <2> QED
    BY <1>1, <1>2, <2>1
<1>4. ASSUME m.type = "GapReply", m.isfound
      PROVE  IF m.req = NoOp THEN m.opnum \in lead2.gaps
             ELSE RequestMessage(0, m.opnum, m.req) \in Q2
  BY <1>1, <1>4 DEF MessageTrue
<1>5. m.type = "GapCommit" => m.opnum \in lead2.gaps
  BY <1>1 DEF MessageTrue
<1>6. ASSUME m.type = "GapCommitReply"
      PROVE  m.opnum \in s2.gaps /\ m.opnum <= s2.lastOp
  <2>1. /\ s \in State /\ s2 \in State
        /\ s.lastOp <= s2.lastOp /\ s.gaps \subseteq s2.gaps
    BY <1>6 DEF AboutSender
  <2>2. s.lastOp \in Nat /\ s2.lastOp \in Nat /\ s.gaps \in SUBSET Nat
    BY <2>1, StateFields
  <2>3. m.opnum \in s.gaps /\ m.opnum <= s.lastOp
    BY <1>6 DEF MessageTrue
  <2> QED
    BY <2>1, <2>2, <2>3
<1>7. ASSUME m.type = "StateTransferReply", NEW i \in 1 .. Len(m.entries)
      PROVE  /\ m.begin + i - 1 \in 1 .. lead2.lastOp
             /\ m.entries[i] = lead2.log[m.begin + i - 1]
  <2>1. /\ m.begin + i - 1 \in 1 .. lead.lastOp
        /\ m.entries[i] = lead.log[m.begin + i - 1]
    BY <1>7 DEF MessageTrue
  <2> QED
    BY <1>1, <1>2, <2>1
<1>8. ASSUME m.type = "SyncPrepare"
      PROVE  /\ m.lastop <= lead2.lastOp
             /\ \A g \in lead2.gaps : g <= m.lastop => g \in m.gaps
             /\ \A g \in m.gaps : g <= m.lastop /\ g \in lead2.gaps
  <2>1. /\ m.lastop <= lead.lastOp
        /\ \A g \in lead.gaps : g <= m.lastop => g \in m.gaps
        /\ \A g \in m.gaps : g <= m.lastop /\ g \in lead.gaps
    BY <1>8 DEF MessageTrue
  <2>2. m.lastop \in Nat
    BY <1>8, MessageKinds DEF SyncPrepareType
  <2>3. m.lastop <= lead2.lastOp
    BY <1>1, <2>1, <2>2
  <2>4. \A g \in lead2.gaps : g <= m.lastop => g <= lead.lastOp
    BY <1>1, <2>1, <2>2
  <2> QED
    BY <1>1, <2>1, <2>3, <2>4
<1>9. ASSUME m.type = "SyncPrepareReply"
      PROVE  Reached(lead2, s2, m.syncpoint)
  <2>1. /\ s \in State /\ s2 \in State
        /\ s.lastOp <= s2.lastOp /\ s.gaps \subseteq s2.gaps
    BY <1>9 DEF AboutSender
  <2>2. m.syncpoint \in Nat
    BY <1>9, MessageKinds DEF SyncPrepareReplyType
  <2>3. Reached(lead, s, m.syncpoint)
    BY <1>9 DEF MessageTrue
  <2> QED
    BY <2>1, <2>2, <2>3, CaughtStays
<1> QED
  BY <1>3, <1>4, <1>5, <1>6, <1>7, <1>8, <1>9 DEF MessageTrue

\* What r has said it may still say when it has gone on.
LEMMA SaysStays ==
  ASSUME NEW Q, NEW R, Context(Q, R), NEW r \in Replicas, NEW s \in State,
         NEW t \in State, Grows(r, s, t), NEW m, Says(Q, R, r, s, m)
  PROVE  Says(Q, R, r, t, m)
<1> DEFINE a == LeadOf(R, r, s)
           b == LeadOf(R, r, t)
<1>1. /\ m \in Message /\ MessageTrue(Q, a, s, m)
      /\ s.lastOp <= t.lastOp /\ s.gaps \subseteq t.gaps
  BY DEF Says, Grows
<1>2. a \in State /\ b \in State /\ Grows(Leader, a, b)
  <2>1. CASE r = Leader
    BY <2>1 DEF LeadOf
  <2>2. CASE r # Leader
    <3>1. a = R[Leader] /\ b = R[Leader] /\ R[Leader] \in State
      BY <2>2, ContextFields DEF LeadOf
    <3> QED
      BY <3>1, GrowsReflexive
  <2> QED
    BY <2>1, <2>2
<1> HIDE DEF a, b
<1>3. MessageTrue(Q, b, t, m)
  BY <1>1, <1>2, MessageStays
<1> QED
  BY <1>3 DEF Says, b

\* Two results in a row.
LEMMA GoesOn ==
  ASSUME NEW Q, NEW R, Context(Q, R), NEW X, NEW r \in Replicas,
         NEW s \in State, NEW a, Goes(Q, R, X, r, s, a),
         NEW b, Goes(Q, R, X, r, a.st, b)
  PROVE  Goes(Q, R, X, r, s, Result(b.st, a.out \cup b.out))
<1> DEFINE c == Result(b.st, a.out \cup b.out)
<1>1. c.st = b.st /\ c.out = a.out \cup b.out
  BY ResultFields
<1>2. /\ a.st \in State /\ b.st \in State /\ ReplicaOK(Q, R, X, r, b.st)
      /\ Grows(r, s, a.st) /\ Grows(r, a.st, b.st)
      /\ b.st.failed = s.failed
  BY DEF Goes, ReplicaOK
<1>3. Grows(r, s, b.st)
  BY <1>2, GrowsTransitive
<1>4. ASSUME NEW m \in a.out
      PROVE  Says(Q, R, r, b.st, m)
  BY <1>2, SaysStays DEF Goes
<1>5. ASSUME NEW m \in b.out
      PROVE  Says(Q, R, r, b.st, m)
  BY DEF Goes
<1> HIDE DEF c
<1>6. \A m \in c.out : Says(Q, R, r, c.st, m)
  BY <1>1, <1>4, <1>5
<1>7. Goes(Q, R, X, r, s, c)
  BY <1>1, <1>2, <1>3, <1>6 DEF Goes
<1> QED
  BY <1>7 DEF c

\* A result that changes nothing.
LEMMA GoesQuiet ==
  ASSUME NEW Q, NEW R, NEW X, NEW r, NEW s, ReplicaOK(Q, R, X, r, s)
  PROVE  Goes(Q, R, X, r, s, Result(s, {}))
BY ResultFields, GrowsReflexive DEF Goes, ReplicaOK

\* A result that sends, from a state in order.
LEMMA GoesSending ==
  ASSUME NEW Q, NEW R, NEW X, NEW r, NEW s, ReplicaOK(Q, R, X, r, s),
         NEW out, \A m \in out : Says(Q, R, r, s, m)
  PROVE  Goes(Q, R, X, r, s, Result(s, out))
BY ResultFields, GrowsReflexive DEF Goes, ReplicaOK

\* More followers that hold a gap or have reached a place.
LEMMA LeaderStays ==
  ASSUME NEW s \in State, NEW R, NEW R2, LeaderOK(R, s),
         \A g \in Nat : Holding(R, g) \subseteq Holding(R2, g),
         \A p \in Nat : Reaching(s, R, p) \subseteq Reaching(s, R2, p)
  PROVE  LeaderOK(R2, s)
<1>1. ASSUME NEW A, NEW B, A \subseteq B, B \subseteq Followers,
             Cardinality(A) >= F
      PROVE  Cardinality(B) >= F
  <2>1. IsFiniteSet(B)
    BY <1>1, FS_Subset, Constants
  <2>2. /\ Cardinality(A) <= Cardinality(B) /\ Cardinality(A) \in Nat
        /\ Cardinality(B) \in Nat
    BY <1>1, <2>1, FS_Subset, FS_CardinalityType
  <2> QED
    BY <1>1, <2>2, Constants
<1>2. /\ s.lastOp \in Nat /\ s.gaps \in SUBSET Nat /\ s.lastCommitted \in Nat
      /\ s.syncReplies \in SUBSET [point : Nat, from : Followers]
  BY StateFields
<1>3. \A g : Holding(R2, g) \subseteq Followers
  BY DEF Holding
<1>4. \A p : Reaching(s, R2, p) \subseteq Followers
  BY DEF Reaching
<1>5. ASSUME NEW g \in s.gaps
      PROVE  \/ Cardinality(Holding(R2, g)) >= F
             \/ s.status = "gapcommit" /\ g = s.lastOp
  <2>1. CASE s.status = "gapcommit" /\ g = s.lastOp
    BY <2>1
  <2>2. CASE Cardinality(Holding(R, g)) >= F
    <3>1. g \in Nat /\ Holding(R, g) \subseteq Holding(R2, g)
      BY <1>2
    <3> QED
      BY <1>1, <1>3, <2>2, <3>1
  <2> QED
    BY <2>1, <2>2 DEF LeaderOK
<1>6. ASSUME s.status = "gapcommit"
      PROVE  s.gapCommits \subseteq Holding(R2, s.lastOp)
  BY <1>2, <1>6 DEF LeaderOK
<1>7. ASSUME NEW x \in s.syncReplies
      PROVE  x.from \in Reaching(s, R2, x.point)
  <2>1. x.point \in Nat
    BY <1>2
  <2> QED
    BY <2>1 DEF LeaderOK
<1>8. ASSUME s.lastCommitted > 0
      PROVE  Cardinality(Reaching(s, R2, s.lastCommitted)) >= F
  <2>1. /\ Cardinality(Reaching(s, R, s.lastCommitted)) >= F
        /\ Reaching(s, R, s.lastCommitted) \subseteq Reaching(s, R2, s.lastCommitted)
    BY <1>2, <1>8 DEF LeaderOK
  <2> QED
    BY <1>1, <1>4, <2>1
<1> QED
  BY <1>5, <1>6, <1>7, <1>8 DEF LeaderOK

\* The states after a handler or a timer of r.
LEMMA ReplicasStay ==
  ASSUME NEW Q, NEW R, Context(Q, R), NEW r \in Replicas,
         NEW t, ReplicaOK(Q, R, {}, r, t), Grows(r, R[r], t)
  PROVE  /\ ReplicasOK(Q, [R EXCEPT ![r] = t])
         /\ Grows(Leader, R[Leader], [R EXCEPT ![r] = t][Leader])
         /\ \A q \in Replicas :
              /\ R[q].lastOp <= [R EXCEPT ![r] = t][q].lastOp
              /\ R[q].gaps \subseteq [R EXCEPT ![r] = t][q].gaps
<1> DEFINE R2 == [R EXCEPT ![r] = t]
           lead == R[Leader]
           lead2 == R2[Leader]
<1>1. /\ R \in States /\ t \in State /\ LocalOK(Q, t)
      /\ \A q \in Replicas : R[q] \in State /\ LocalOK(Q, R[q])
      /\ Leader \in Replicas
  BY Constants DEF Context, ReplicasOK, States, ReplicaOK
<1>2. /\ R2 \in States /\ R2[r] = t
      /\ \A q \in Replicas : q # r => R2[q] = R[q]
      /\ \A q \in Replicas : R2[q] \in State /\ LocalOK(Q, R2[q])
  BY <1>1 DEF States
<1> HIDE DEF R2
<1>3. ASSUME NEW q \in Replicas
      PROVE  /\ R[q].lastOp <= R2[q].lastOp
             /\ R[q].gaps \subseteq R2[q].gaps
  <2>1. CASE q = r
    BY <1>2, <2>1 DEF Grows
  <2>2. CASE q # r
    <3>1. R2[q] = R[q] /\ R[q].lastOp \in Nat
      BY <1>1, <1>2, <2>2, StateFields
    <3> QED
      BY <3>1
  <2> QED
    BY <2>1, <2>2
<1>4. lead \in State /\ lead2 \in State /\ Grows(Leader, lead, lead2)
  <2>1. CASE r = Leader
    BY <1>1, <1>2, <2>1
  <2>2. CASE r # Leader
    BY <1>1, <1>2, <2>2, GrowsReflexive
  <2> QED
    BY <2>1, <2>2
<1>5. ASSUME NEW q \in Followers, NEW p \in Nat
      PROVE  /\ Caught(lead, R[q], p) => Caught(lead2, R2[q], p)
             /\ Reached(lead, R[q], p) => Reached(lead2, R2[q], p)
  BY <1>1, <1>2, <1>3, <1>4, CaughtStays, Constants
<1>6. ASSUME NEW q \in Followers
      PROVE  FollowerOK(lead2, {}, R2[q])
  <2>1. CASE q = r
    <3>1. lead2 = lead /\ R2[q] = t
      BY <1>1, <1>2, <2>1, Constants
    <3> QED
      BY <2>1, <3>1, Constants DEF ReplicaOK
  <2>2. CASE q # r
    <3>1. R2[q] = R[q] /\ FollowerOK(lead, {}, R[q])
      BY <1>2, <2>2, ContextFields, Constants
    <3>2. lead.gaps \subseteq lead2.gaps
      BY <1>4 DEF Grows
    <3>3. ASSUME NEW p \in Nat, Caught(lead, R[q], p)
          PROVE  Caught(lead2, R[q], p)
      BY <1>5, <3>1, <3>3
    <3>4. /\ R[q].prepared \in SUBSET Nat /\ R[q].transferEnd \in Nat
          /\ R[q].lastCommitted \in Nat
      BY <1>1, StateFields, Constants
    <3>5. ASSUME R[q].transferEnd > 0
          PROVE  Caught(lead2, R[q], R[q].transferEnd - 1)
      <4>1. R[q].transferEnd - 1 \in Nat
        BY <3>4, <3>5
      <4> QED
        BY <3>1, <3>3, <3>5, <4>1 DEF FollowerOK
    <3>6. Caught(lead2, R[q], R[q].lastCommitted)
      BY <3>1, <3>3, <3>4 DEF FollowerOK
    <3>7. \A p \in R[q].prepared \ {} : Caught(lead2, R[q], p)
      BY <3>1, <3>3, <3>4 DEF FollowerOK
    <3> QED
      BY <3>1, <3>2, <3>5, <3>6, <3>7 DEF FollowerOK
  <2> QED
    BY <2>1, <2>2
<1>7. LeaderOK(R2, lead2)
  <2>1. CASE r = Leader
    <3>1. lead2 = t /\ LeaderOK(R, t)
      BY <1>2, <2>1 DEF ReplicaOK
    <3>2. \A q \in Followers : R2[q] = R[q]
      BY <1>2, <2>1, Constants
    <3>3. \A g \in Nat : Holding(R, g) \subseteq Holding(R2, g)
      BY <3>2 DEF Holding
    <3>4. \A p \in Nat : Reaching(t, R, p) \subseteq Reaching(t, R2, p)
      BY <3>2 DEF Reaching
    <3> QED
      BY <1>1, <3>1, <3>3, <3>4, LeaderStays
  <2>2. CASE r # Leader
    <3>1. lead2 = lead /\ LeaderOK(R, lead)
      BY <1>1, <1>2, <2>2, ContextFields
    <3>2. ASSUME NEW g \in Nat, NEW q \in Holding(R, g)
          PROVE  q \in Holding(R2, g)
      <4>1. q \in Followers /\ g \in R[q].gaps /\ g <= R[q].lastOp
        BY <3>2 DEF Holding
      <4>2. /\ g \in R2[q].gaps /\ R[q].lastOp <= R2[q].lastOp
            /\ R[q].lastOp \in Nat /\ R2[q].lastOp \in Nat
        BY <1>1, <1>2, <1>3, <4>1, StateFields, Constants
      <4>3. g <= R2[q].lastOp
        BY <4>1, <4>2
      <4> QED
        BY <4>1, <4>2, <4>3 DEF Holding
    <3>3. \A p \in Nat : Reaching(lead, R, p) \subseteq Reaching(lead, R2, p)
      BY <1>5, <3>1 DEF Reaching
    <3> QED
      BY <1>4, <3>1, <3>2, <3>3, LeaderStays
  <2> QED
    BY <2>1, <2>2
<1>8. ReplicasOK(Q, R2)
  BY <1>2, <1>6, <1>7 DEF ReplicasOK
<1> QED
  BY <1>3, <1>4, <1>8 DEF R2

-----------------------------------------------------------------------------
(* Execution and commitment up to a place.                                   *)

\* Executing nothing is an execution.
LEMMA ExecutedReflexive ==
  ASSUME NEW s \in State
  PROVE  Executed(s, s)
<1>1. DOMAIN s = Fields /\ s = [f \in Fields |-> s[f]]
  <2>1. s = [f \in DOMAIN s |-> s[f]]
    BY DEF State
  <2> QED
    BY <2>1, StateDomain
<1>2. s = Executing(s, s.lastExecuted, s.app, s.table)
  BY <1>1 DEF Executing, Fields
<1> QED
  BY <1>2, Zenon DEF Executed

\* Two executions in a row are one.
LEMMA ExecutedTransitive ==
  ASSUME NEW s \in State, NEW t \in State, NEW u \in State,
         Executed(s, t), Executed(t, u)
  PROVE  Executed(s, u)
<1>1. DOMAIN s = Fields
  BY StateDomain
<1>2. Executing(Executing(s, t.lastExecuted, t.app, t.table),
                u.lastExecuted, u.app, u.table)
        = Executing(s, u.lastExecuted, u.app, u.table)
  BY <1>1 DEF Executing, Fields
<1> QED
  BY <1>2, Zenon DEF Executed

\* One more operation of a longer execution.
LEMMA ExecutesOn ==
  ASSUME NEW Q, NEW r \in Replicas, NEW s \in State, NEW k \in Nat,
         k <= s.lastOp, NEW op \in 1 .. k, NEW a, Executes(Q, r, s, k, a),
         NEW b, b = ExecuteOp(r, a.st, op)
  PROVE  Executes(Q, r, s, k, Result(b.st, a.out \cup b.out))
<1> DEFINE t == a.st
           u == b.st
           c == Result(u, a.out \cup b.out)
<1>1. c.st = u /\ c.out = a.out \cup b.out
  BY ResultFields
<1>2. t \in State /\ LocalOK(Q, t) /\ Executed(s, t)
  BY DEF Executes
<1>3. t.log = s.log /\ t.lastOp = s.lastOp
  BY <1>2, ExecutedFields
<1>4. op \in 1 .. t.lastOp
  <2>1. s.lastOp \in Nat
    BY StateFields
  <2> HIDE DEF t
  <2> QED
    BY <1>3, <2>1
<1>5. Executes(Q, r, t, op, b)
  BY <1>2, <1>4, ExecuteOpFields
<1>6. u \in State /\ LocalOK(Q, u) /\ Executed(t, u)
  BY <1>5 DEF Executes
<1>7. Executed(s, u)
  BY <1>2, <1>6, ExecutedTransitive
<1>8. u.lastExecuted \in {s.lastExecuted} \cup 0 .. k
  <2>1. /\ u.lastExecuted \in {t.lastExecuted} \cup 0 .. op
        /\ t.lastExecuted \in {s.lastExecuted} \cup 0 .. k
    BY <1>5 DEF Executes
  <2>2. 0 .. op \subseteq 0 .. k
    OBVIOUS
  <2> QED
    BY <2>1, <2>2
<1>9. \A m \in a.out : r = Leader /\ LeaderReplies(s, m)
  BY DEF Executes
<1>10. \A m \in b.out : r = Leader /\ LeaderReplies(s, m)
  BY <1>3, <1>5 DEF Executes, LeaderReplies
<1> HIDE DEF c, t, u
<1>11. Executes(Q, r, s, k, c)
  BY <1>1, <1>6, <1>7, <1>8, <1>9, <1>10 DEF Executes
<1> QED
  BY <1>11 DEF c, u

\* ExecuteUptoOp.
LEMMA ExecuteUptoOpFields ==
  ASSUME NEW Q, NEW r \in Replicas, NEW s \in State, LocalOK(Q, s),
         NEW k \in Nat, k <= s.lastOp
  PROVE  Executes(Q, r, s, k, ExecuteUptoOp(r, s, k))
<1> DEFINE quiet == Result(s, {})
           first == s.lastExecuted + 1
           n == IF k < first THEN 0 ELSE k - first + 1
           Go(x, i) == Then(x, LAMBDA t : ExecuteOp(r, t, first + i - 1))
           after[i \in 0 .. n] == IF i = 0 THEN quiet ELSE Go(after[i - 1], i)
           run(f) == [i \in 0 .. n |-> IF i = 0 THEN quiet ELSE Go(f[i - 1], i)]
           D == {x \in Results : Executes(Q, r, s, k, x)}
           S == [i \in 0 .. n |-> D]
           g == [i \in 1 .. n |-> [x \in D |-> Go(x, i)]]
<1>1. s.lastExecuted \in Nat /\ s.lastOp \in Nat
  BY StateFields
<1>2. quiet \in D
  <2>1. quiet.st = s /\ quiet.out = {} /\ quiet \in Results
    BY ResultFields
  <2> HIDE DEF quiet
  <2> QED
    BY <2>1, ExecutedReflexive DEF Executes
<1>3. n \in Nat /\ \A i \in 1 .. n : first + i - 1 \in 1 .. k
  BY <1>1
<1>4. ASSUME NEW i \in 1 .. n, NEW x \in D
      PROVE  Go(x, i) \in D
  <2> DEFINE y == ExecuteOp(r, x.st, first + i - 1)
             z == Go(x, i)
  <2>1. z = IF x.st.failed # NoFailure THEN x
            ELSE Result(y.st, x.out \cup y.out)
    BY Zenon DEF Then
  <2>2. Executes(Q, r, s, k, Result(y.st, x.out \cup y.out))
    BY <1>3, ExecutesOn
  <2> HIDE DEF y, z, Go
  <2>3. Result(y.st, x.out \cup y.out) \in Results
    <3>1. y.st \in State /\ \A m \in x.out \cup y.out : m \in ReplyType
      BY <2>2, ResultFields DEF Executes, LeaderReplies
    <3>2. x.out \cup y.out \subseteq Message
      BY <3>1 DEF Message
    <3> QED
      BY <3>1, <3>2, ResultFields
  <2>4. z \in D
    BY <2>1, <2>2, <2>3
  <2> QED
    BY <2>4 DEF z
<1> HIDE DEF quiet, first, n, D, Go
<1>5. PICK f : IsRun(f, g, n, quiet) /\ \A i \in 0 .. n : f[i] \in S[i]
  <2>1. n \in Nat /\ quiet \in S[0] /\ IsLoop(g, n, S)
    BY <1>2, <1>3, <1>4 DEF IsLoop
  <2> HIDE DEF S, g
  <2> QED
    BY <2>1, LoopRuns
<1>6. f = run(f)
  <2> HIDE DEF g
  <2>1. ASSUME NEW i \in 0 .. n, i # 0
        PROVE  g[i][f[i - 1]] = Go(f[i - 1], i)
    <3>1. i \in 1 .. n /\ i - 1 \in 0 .. n
      BY <1>3, <2>1
    <3>2. f[i - 1] \in D
      BY <1>5, <3>1
    <3> QED
      BY <3>1, <3>2 DEF g
  <2> QED
    BY <1>5, <2>1 DEF IsRun
<1>7. after = CHOOSE h : h = run(h)
  BY Zenon DEF after
<1> HIDE DEF after
<1>8. after = run(after)
  <2> HIDE DEF run
  <2> QED
    BY <1>6, <1>7
<1>9. after[n] \in D
  <2>1. after[0] \in S[0]
    BY <1>2, <1>3, <1>8
  <2>2. ASSUME NEW i \in 1 .. n, after[i - 1] \in S[i - 1]
        PROVE  after[i] \in S[i]
    <3>1. i \in 0 .. n /\ i # 0 /\ i - 1 \in 0 .. n
      BY <1>3
    <3>2. after[i] = Go(after[i - 1], i)
      BY <1>8, <3>1
    <3> QED
      BY <1>4, <2>2, <3>1, <3>2
  <2>3. after[n] \in S[n]
    <3> HIDE DEF S
    <3> QED
      BY <1>3, <2>1, <2>2, LoopStays
  <2> QED
    BY <1>3, <2>3
<1>10. ForEach(first, k, LAMBDA t, op : ExecuteOp(r, t, op), s) = after[n]
  BY Zenon DEF ForEach, after, Go, n, quiet
<1>11. ExecuteUptoOp(r, s, k) = IF k <= s.lastExecuted THEN quiet ELSE after[n]
  <2>1. ~(k > s.lastOp)
    BY <1>1
  <2> QED
    BY <1>10, <2>1, Zenon DEF ExecuteUptoOp, quiet, first
<1> QED
  BY <1>2, <1>9, <1>11 DEF D

\* The places that followers have reached depend on the leader's log alone.
LEMMA ReachingSame ==
  ASSUME NEW s, NEW t, t.lastOp = s.lastOp, t.gaps = s.gaps, NEW R, NEW p
  PROVE  Reaching(t, R, p) = Reaching(s, R, p)
BY DEF Reaching, Reached, Caught

\* A reply of the leader for a place in its log may be sent, and so may any
\* reply of a follower.
LEMMA SaysReply ==
  ASSUME NEW Q, NEW R, NEW r, NEW s, NEW m \in ReplyType, m.from = r,
         r = Leader => LeaderReplies(s, m)
  PROVE  Says(Q, R, r, s, m)
<1>1. m.type = "Reply" /\ m \in Message
  BY DEF ReplyType, Message
<1>2. m.from = Leader =>
        /\ m.opnum \in 1 .. LeadOf(R, r, s).lastOp
        /\ LeadOf(R, r, s).log[m.opnum].req = m.req
  BY DEF LeaderReplies, LeadOf
<1>3. MessageTrue(Q, LeadOf(R, r, s), s, m)
  BY <1>1, <1>2 DEF MessageTrue
<1> QED
  BY <1>1, <1>3 DEF Says, AboutSender

\* A follower executes no further than it has committed.
LEMMA ExecutesGoes ==
  ASSUME NEW Q, NEW R, NEW X, NEW r \in Replicas, NEW s,
         ReplicaOK(Q, R, X, r, s), NEW k \in Nat,
         r # Leader => k <= s.lastCommitted,
         NEW res, Executes(Q, r, s, k, res)
  PROVE  /\ Goes(Q, R, X, r, s, res)
         /\ Executed(s, res.st)
<1> DEFINE t == res.st
<1>1. s \in State /\ t \in State /\ LocalOK(Q, t) /\ Executed(s, t)
  BY DEF ReplicaOK, Executes
<1> HIDE DEF t
<1>2. /\ t.status = s.status /\ t.lastOp = s.lastOp /\ t.gaps = s.gaps
      /\ t.log = s.log /\ t.lastCommitted = s.lastCommitted
      /\ t.gapCommits = s.gapCommits /\ t.syncReplies = s.syncReplies
      /\ t.startGap = s.startGap /\ t.gapRequest = s.gapRequest
      /\ t.transferEnd = s.transferEnd /\ t.prepared = s.prepared
      /\ t.failed = s.failed
  BY <1>1, ExecutedFields
<1>3. s.lastOp \in Nat /\ s.lastCommitted \in Nat /\ s.lastExecuted \in Nat
  BY <1>1, StateFields
<1>4. Grows(r, s, t)
  BY <1>2, <1>3 DEF Grows
<1>5. ReplicaOK(Q, R, X, r, t)
  <2>1. CASE r = Leader
    <3>1. LeaderOK(R, s)
      BY <2>1 DEF ReplicaOK
    <3>2. \A p : Reaching(t, R, p) = Reaching(s, R, p)
      BY <1>2, ReachingSame
    <3>3. LeaderOK(R, t)
      BY <1>2, <3>1, <3>2 DEF LeaderOK
    <3> QED
      BY <1>1, <2>1, <3>3 DEF ReplicaOK
  <2>2. CASE r # Leader
    <3>1. FollowerOK(R[Leader], X, s)
      BY <2>2 DEF ReplicaOK
    <3>2. t.lastExecuted <= t.lastCommitted
      <4>1. t.lastExecuted = s.lastExecuted \/ t.lastExecuted \in 0 .. k
        BY DEF Executes, t
      <4> QED
        BY <1>2, <1>3, <2>2, <3>1, <4>1 DEF FollowerOK
    <3>3. \A p : Caught(R[Leader], t, p) = Caught(R[Leader], s, p)
      BY <1>2 DEF Caught
    <3>4. FollowerOK(R[Leader], X, t)
      BY <1>2, <3>1, <3>2, <3>3 DEF FollowerOK
    <3> QED
      BY <1>1, <2>2, <3>4 DEF ReplicaOK
  <2> QED
    BY <2>1, <2>2
<1>6. ASSUME NEW m \in res.out
      PROVE  Says(Q, R, r, t, m)
  <2>1. r = Leader /\ LeaderReplies(s, m)
    BY DEF Executes
  <2>2. m \in ReplyType /\ m.from = r /\ LeaderReplies(t, m)
    BY <1>2, <2>1 DEF LeaderReplies
  <2> QED
    BY <2>2, SaysReply
<1> QED
  BY <1>1, <1>2, <1>4, <1>5, <1>6 DEF Goes, t

\* CommitUptoOp.  The leader commits what F followers have reached, and a
\* follower what it has caught up with.
LEMMA CommitUptoOpGoes ==
  ASSUME NEW Q, NEW R, Context(Q, R), NEW X, NEW r \in Replicas, NEW s,
         ReplicaOK(Q, R, X, r, s), s.failed = NoFailure,
         NEW k \in Nat, k <= s.lastOp,
         r = Leader /\ k > s.lastCommitted => Cardinality(Reaching(s, R, k)) >= F,
         r # Leader => Caught(R[Leader], s, k)
  PROVE  /\ Goes(Q, R, X, r, s, CommitUptoOp(r, s, k))
         /\ CommitUptoOp(r, s, k).st.lastOp = s.lastOp
<1> DEFINE res == CommitUptoOp(r, s, k)
           t == [s EXCEPT !.lastCommitted = k]
           out == IF AmLeader(r, t) THEN {SyncCommitMessage(t, r)} ELSE {}
           next == ExecuteUptoOp(r, t, k)
           first == Result(t, out)
<1>1. s \in State /\ s.lastOp \in Nat /\ s.lastCommitted \in Nat /\ LocalOK(Q, s)
  BY StateFields DEF ReplicaOK
<1>2. CASE k <= s.lastCommitted
  <2>1. res = Result(s, {})
    BY <1>2 DEF CommitUptoOp
  <2> HIDE DEF res
  <2>2. Goes(Q, R, X, r, s, res)
    BY <2>1, GoesQuiet
  <2>3. res.st = s
    BY <2>1, ResultFields
  <2> QED
    BY <2>2, <2>3 DEF res
<1>3. CASE k > s.lastCommitted
  <2>1. t \in State
    BY <1>1 DEF State
  <2>2. /\ t.status = s.status /\ t.log = s.log /\ t.lastOp = s.lastOp
        /\ t.nextMsgnum = s.nextMsgnum /\ t.gaps = s.gaps /\ t.failed = s.failed
        /\ t.lastExecuted = s.lastExecuted /\ t.app = s.app
        /\ t.table = s.table /\ t.pending = s.pending
        /\ t.gapCommits = s.gapCommits /\ t.syncReplies = s.syncReplies
        /\ t.startGap = s.startGap /\ t.gapRequest = s.gapRequest
        /\ t.transferEnd = s.transferEnd /\ t.prepared = s.prepared
        /\ t.lastCommitted = k
    BY <1>1, StateDomain, ZenonT(40) DEF Fields
  <2> HIDE DEF t
  <2>3. LocalOK(Q, t)
    BY <1>1, <2>2 DEF LocalOK, PlaceOK, AppOK
  <2>4. ReplicaOK(Q, R, X, r, t)
    <3>1. CASE r = Leader
      <4>1. LeaderOK(R, s) /\ Cardinality(Reaching(s, R, k)) >= F
        BY <1>3, <3>1 DEF ReplicaOK
      <4>2. \A p : Reaching(t, R, p) = Reaching(s, R, p)
        BY <2>2, ReachingSame
      <4>3. LeaderOK(R, t)
        BY <2>2, <4>1, <4>2 DEF LeaderOK
      <4> QED
        BY <2>1, <2>3, <3>1, <4>3 DEF ReplicaOK
    <3>2. CASE r # Leader
      <4>1. FollowerOK(R[Leader], X, s)
        BY <3>2 DEF ReplicaOK
      <4>2. \A p : Caught(R[Leader], t, p) = Caught(R[Leader], s, p)
        BY <2>2 DEF Caught
      <4>3. t.lastExecuted <= t.lastCommitted
        <5>1. s.lastExecuted \in Nat /\ s.lastExecuted <= s.lastCommitted
          BY <1>1, <4>1, StateFields DEF FollowerOK
        <5> QED
          BY <1>1, <1>3, <2>2, <5>1
      <4>4. FollowerOK(R[Leader], X, t)
        BY <2>2, <3>2, <4>1, <4>2, <4>3 DEF FollowerOK
      <4> QED
        BY <2>1, <2>3, <3>2, <4>4 DEF ReplicaOK
    <3> QED
      BY <3>1, <3>2
  <2>5. Goes(Q, R, X, r, s, first)
    <3>1. ASSUME NEW m \in out
          PROVE  Says(Q, R, r, t, m)
      <4>1. AmLeader(r, t) /\ m = SyncCommitMessage(t, r)
        BY <3>1
      <4>2. r = Leader
        BY <2>1, <4>1, StateFields, Constants DEF AmLeader
      <4>3. m = [type |-> "SyncCommit", sess |-> 0, view |-> 0,
                 syncpoint |-> k, from |-> Leader]
        BY <2>1, <2>2, <4>1, <4>2, StateFields DEF SyncCommitMessage
      <4>4. m \in SyncCommitType /\ m.type = "SyncCommit"
        BY <4>3 DEF SyncCommitType
      <4>5. MessageTrue(Q, LeadOf(R, r, t), t, m)
        BY <4>4 DEF MessageTrue
      <4> QED
        BY <4>4, <4>5 DEF Says, AboutSender, Message
    <3>2. Grows(r, s, t)
      BY <1>1, <2>2 DEF Grows
    <3>3. first.st = t /\ first.out = out
      BY ResultFields
    <3> HIDE DEF first, out
    <3> QED
      BY <2>2, <2>4, <3>1, <3>2, <3>3 DEF Goes
  <2>6. /\ Goes(Q, R, X, r, t, next) /\ next.st.lastOp = s.lastOp
    <3>1. Executes(Q, r, t, k, next)
      BY <2>1, <2>2, <2>3, ExecuteUptoOpFields
    <3> HIDE DEF next
    <3>2. Goes(Q, R, X, r, t, next) /\ Executed(t, next.st)
      BY <2>2, <2>4, <3>1, ExecutesGoes
    <3> QED
      BY <2>1, <2>2, <3>2, ExecutedFields
  <2>7. res = Result(next.st, first.out \cup next.out)
    <3>1. ~(k <= s.lastCommitted) /\ ~(k > s.lastOp)
      BY <1>1, <1>3
    <3>2. t.failed = NoFailure
      BY <2>2
    <3>3. first.st = t
      BY ResultFields
    <3>4. res = Then(first, LAMBDA u : ExecuteUptoOp(r, u, k))
      BY <3>1, Zenon DEF CommitUptoOp, t
    <3> HIDE DEF res, first
    <3> QED
      BY <3>2, <3>3, <3>4, Zenon DEF Then
  <2> HIDE DEF next, first, res
  <2>8. first.st = t
    BY ResultFields DEF first
  <2>9. Goes(Q, R, X, r, s, Result(next.st, first.out \cup next.out))
    BY <1>1, <2>5, <2>6, <2>8, GoesOn
  <2> QED
    BY <2>6, <2>7, <2>9, ResultFields DEF res
<1> QED
  BY <1>1, <1>2, <1>3

-----------------------------------------------------------------------------
(* Updates that leave the log alone, and results in a row.                   *)

SameCore(s, t) ==
  /\ t.log = s.log /\ t.lastOp = s.lastOp /\ t.nextMsgnum = s.nextMsgnum
  /\ t.gaps = s.gaps /\ t.lastCommitted = s.lastCommitted
  /\ t.lastExecuted = s.lastExecuted /\ t.app = s.app /\ t.table = s.table
  /\ t.failed = s.failed

\* What holds of a replica by itself depends on its core, what it
\* has pending and its timers only.
LEMMA LocalKept ==
  ASSUME NEW Q, NEW s \in State, LocalOK(Q, s), NEW t \in State, SameCore(s, t),
         t.pending \subseteq Q,
         t.startGap \/ t.gapRequest => s.lastOp + 1 < MaxMsg
  PROVE  LocalOK(Q, t)
<1>1. \A op : PlaceOK(Q, s, op) => PlaceOK(Q, t, op)
  BY DEF SameCore, PlaceOK
<1> QED
  BY <1>1 DEF SameCore, LocalOK, AppOK

\* A follower notes what is to be committed or fetched.
LEMMA FollowerKept ==
  ASSUME NEW Q, NEW R, NEW X, NEW Y, NEW r, r # Leader, NEW s,
         ReplicaOK(Q, R, X, r, s),
         NEW t \in State, SameCore(s, t), t.pending \subseteq Q,
         t.startGap \/ t.gapRequest => s.lastOp + 1 < MaxMsg,
         t.status = s.status,
         \A p \in t.prepared \ Y : Caught(R[Leader], s, p),
         t.transferEnd > 0 => Caught(R[Leader], s, t.transferEnd - 1)
  PROVE  ReplicaOK(Q, R, Y, r, t) /\ Grows(r, s, t)
<1>1. s \in State /\ LocalOK(Q, s) /\ FollowerOK(R[Leader], X, s)
  BY DEF ReplicaOK
<1>2. LocalOK(Q, t)
  BY <1>1, LocalKept
<1>3. \A p : Caught(R[Leader], s, p) => Caught(R[Leader], t, p)
  BY DEF Caught, SameCore
<1>4. FollowerOK(R[Leader], Y, t)
  BY <1>1, <1>3 DEF FollowerOK, SameCore
<1>5. Grows(r, s, t)
  <2>1. s.lastOp \in Nat
    BY <1>1, StateFields
  <2> QED
    BY <2>1 DEF Grows, SameCore
<1> QED
  BY <1>2, <1>4, <1>5 DEF ReplicaOK

\* The leader goes on with a gap agreement or with what it counts.
LEMMA LeaderKept ==
  ASSUME NEW Q, NEW R, NEW X, NEW Y, NEW s, ReplicaOK(Q, R, X, Leader, s),
         NEW t \in State, SameCore(s, t), t.pending \subseteq Q,
         t.startGap \/ t.gapRequest => s.lastOp + 1 < MaxMsg,
         t.transferEnd = 0,
         \A g \in s.gaps : \/ Cardinality(Holding(R, g)) >= F
                           \/ t.status = "gapcommit" /\ g = s.lastOp,
         t.status = "gapcommit" =>
           /\ ~t.startGap /\ ~t.gapRequest
           /\ t.gapCommits \subseteq Holding(R, s.lastOp),
         \A x \in t.syncReplies : x.from \in Reaching(s, R, x.point)
  PROVE  ReplicaOK(Q, R, Y, Leader, t) /\ Grows(Leader, s, t)
<1>1. s \in State /\ LocalOK(Q, s) /\ LeaderOK(R, s)
  BY DEF ReplicaOK
<1>2. LocalOK(Q, t)
  BY <1>1, LocalKept
<1>3. \A p : Reaching(t, R, p) = Reaching(s, R, p)
  BY ReachingSame DEF SameCore
<1>4. t.lastOp = s.lastOp /\ t.gaps = s.gaps /\ t.lastCommitted = s.lastCommitted
  BY DEF SameCore
<1>5. LeaderOK(R, t)
  <2>1. /\ s.gaps \subseteq 1 .. s.lastOp
        /\ s.lastCommitted > 0 =>
             Cardinality(Reaching(s, R, s.lastCommitted)) >= F
    BY <1>1 DEF LeaderOK
  <2> QED
    BY <1>3, <1>4, <2>1 DEF LeaderOK
<1>6. Grows(Leader, s, t)
  <2>1. s.lastOp \in Nat
    BY <1>1, StateFields
  <2> QED
    BY <2>1 DEF Grows, SameCore
<1> QED
  BY <1>2, <1>5, <1>6 DEF ReplicaOK

\* A result, seen from an earlier state.
LEMMA GoesFrom ==
  ASSUME NEW Q, NEW R, NEW X, NEW r, NEW s \in State, NEW t \in State,
         Grows(r, s, t), t.failed = s.failed, NEW res, Goes(Q, R, X, r, t, res)
  PROVE  Goes(Q, R, X, r, s, res)
<1>1. res.st \in State /\ Grows(r, t, res.st)
  BY DEF Goes, ReplicaOK
<1>2. Grows(r, s, res.st)
  BY <1>1, GrowsTransitive
<1> QED
  BY <1>2 DEF Goes

\* What Then makes of two results.
InRow(a, b) ==
  IF a.st.failed # NoFailure THEN a ELSE Result(b.st, a.out \cup b.out)

\* Results in a row of a process that has not aborted.
LEMMA GoesThen ==
  ASSUME NEW Q, NEW R, Context(Q, R), NEW X, NEW r \in Replicas,
         NEW s \in State, s.failed = NoFailure,
         NEW a, Goes(Q, R, X, r, s, a), NEW b, Goes(Q, R, X, r, a.st, b)
  PROVE  Goes(Q, R, X, r, s, InRow(a, b)) /\ InRow(a, b).st = b.st
<1>1. a.st.failed = NoFailure
  BY DEF Goes
<1>2. InRow(a, b) = Result(b.st, a.out \cup b.out)
  BY <1>1 DEF InRow
<1>3. Goes(Q, R, X, r, s, InRow(a, b))
  BY <1>2, GoesOn
<1> QED
  BY <1>2, <1>3, ResultFields

-----------------------------------------------------------------------------
(* The operators of the log.                                                 *)

\* A point that is committed is forgotten.
LEMMA Forgotten ==
  ASSUME NEW Q, NEW R, NEW X, NEW r, r # Leader, NEW s,
         ReplicaOK(Q, R, X, r, s), NEW p,
         NEW res, res = Forget(s, p)
  PROVE  Goes(Q, R, X, r, s, res) /\ res.st.lastOp = s.lastOp
<1> DEFINE t == [s EXCEPT !.prepared = @ \ {p}, !.committed = @ \ {p}]
<1>1. /\ s \in State /\ LocalOK(Q, s) /\ FollowerOK(R[Leader], X, s)
  BY DEF ReplicaOK
<1>2. t \in State
  <2>1. /\ s.prepared \ {p} \in SUBSET Nat
        /\ s.committed \ {p} \in SUBSET Nat
    BY <1>1, StateFields
  <2> QED
    BY <1>1, <2>1, ZenonT(40) DEF State
<1>3. /\ SameCore(s, t) /\ t.pending = s.pending /\ t.startGap = s.startGap
      /\ t.gapRequest = s.gapRequest /\ t.status = s.status
      /\ t.transferEnd = s.transferEnd /\ t.prepared = s.prepared \ {p}
      /\ t.lastOp = s.lastOp /\ t.failed = s.failed
  BY <1>1, StateDomain, ZenonT(40) DEF Fields, SameCore
<1>4. res.st = t /\ res.out = {}
  BY ResultFields DEF Forget
<1> HIDE DEF t
<1>5. /\ t.pending \subseteq Q
      /\ t.startGap \/ t.gapRequest => s.lastOp + 1 < MaxMsg
      /\ \A q \in t.prepared \ X : Caught(R[Leader], s, q)
      /\ t.transferEnd > 0 => Caught(R[Leader], s, t.transferEnd - 1)
  BY <1>1, <1>3 DEF LocalOK, FollowerOK
<1>6. ReplicaOK(Q, R, X, r, t) /\ Grows(r, s, t)
  BY <1>2, <1>3, <1>5, FollowerKept
<1> QED
  BY <1>3, <1>4, <1>6 DEF Goes

\* ProcessSyncPrepare, at a follower that has reached the point.
LEMMA ProcessSyncPrepareGoes ==
  ASSUME NEW Q, NEW R, Context(Q, R), NEW X, NEW r \in Replicas, r # Leader,
         NEW s, ReplicaOK(Q, R, X, r, s), s.failed = NoFailure,
         NEW p \in Nat, Reached(R[Leader], s, p)
  PROVE  /\ Goes(Q, R, X, r, s, ProcessSyncPrepare(r, s, p))
         /\ ProcessSyncPrepare(r, s, p).st.lastOp = s.lastOp
<1> DEFINE res == ProcessSyncPrepare(r, s, p)
           a == CommitUptoOp(r, s, p)
           t == a.st
           b == Forget(t, p)
           reply == SyncPrepareReplyMessage(s, p, r)
<1>1. s \in State /\ s.sess = 0 /\ s.view = 0 /\ s.lastOp \in Nat
  BY StateFields DEF ReplicaOK
<1>2. ~AmLeader(r, s) /\ r \in Followers /\ LeaderOf(0) = Leader
  BY <1>1, Constants DEF AmLeader
<1>3. p <= s.lastOp /\ Caught(R[Leader], s, p)
  BY DEF Reached
<1>4. CASE p \in s.committed
  <2>1. Goes(Q, R, X, r, s, a) /\ t.lastOp = s.lastOp
    BY <1>3, CommitUptoOpGoes
  <2>2. res = Then(a, LAMBDA u : Forget(u, p))
    BY <1>2, <1>4, Zenon DEF ProcessSyncPrepare
  <2> HIDE DEF a, res
  <2>3. res = InRow(a, b)
    BY <2>2, Zenon DEF Then, InRow
  <2>4. ReplicaOK(Q, R, X, r, t)
    BY <2>1 DEF Goes
  <2>5. Goes(Q, R, X, r, t, b) /\ b.st.lastOp = t.lastOp
    BY <2>4, Forgotten
  <2> HIDE DEF b
  <2>6. Goes(Q, R, X, r, s, res) /\ res.st = b.st
    BY <1>1, <2>1, <2>3, <2>5, GoesThen
  <2> QED
    BY <2>1, <2>5, <2>6 DEF res
<1>5. CASE p \notin s.committed
  <2>1. res = Result(s, {reply})
    BY <1>2, <1>5, Zenon DEF ProcessSyncPrepare
  <2>2. reply = [type |-> "SyncPrepareReply", sess |-> 0, view |-> 0,
                 syncpoint |-> p, from |-> r, to |-> Leader]
    BY <1>1, <1>2 DEF SyncPrepareReplyMessage
  <2> HIDE DEF reply, res
  <2>3. /\ reply \in SyncPrepareReplyType /\ reply.type = "SyncPrepareReply"
        /\ reply.from = r /\ reply.syncpoint = p
    BY <1>2, <2>2 DEF SyncPrepareReplyType
  <2>4. MessageTrue(Q, LeadOf(R, r, s), s, reply)
    BY <2>3 DEF MessageTrue, LeadOf
  <2>5. Says(Q, R, r, s, reply)
    BY <2>3, <2>4 DEF Says, Message, AboutSender
  <2>6. Goes(Q, R, X, r, s, res)
    BY <2>1, <2>5, GoesSending
  <2> QED
    BY <2>1, <2>6, ResultFields DEF res
<1> QED
  BY <1>4, <1>5

\* CompleteTransfer, for the last operation.
LEMMA CompleteTransferGoes ==
  ASSUME NEW Q, NEW R, Context(Q, R), NEW X, NEW r \in Replicas,
         NEW s, ReplicaOK(Q, R, X, r, s), s.failed = NoFailure,
         NEW op \in Nat, s.lastOp = op, op > 0
  PROVE  /\ Goes(Q, R, X, r, s, CompleteTransfer(r, s, op))
         /\ CompleteTransfer(r, s, op).st.lastOp = op
<1> DEFINE res == CompleteTransfer(r, s, op)
<1>1. s \in State /\ s.status # "viewchange"
  BY StateFields DEF ReplicaOK
<1>2. CASE op # s.transferEnd
  <2>1. res = Result(s, {})
    BY <1>2, Zenon DEF CompleteTransfer
  <2> HIDE DEF res
  <2>2. Goes(Q, R, X, r, s, res)
    BY <2>1, GoesQuiet
  <2> QED
    BY <2>1, <2>2, ResultFields DEF res
<1>3. CASE op = s.transferEnd
  <2>1. res = ProcessSyncPrepare(r, s, op - 1)
    BY <1>1, <1>3, Zenon DEF CompleteTransfer
  <2>2. r # Leader
    BY <1>3 DEF ReplicaOK, LeaderOK
  <2>3. Caught(R[Leader], s, op - 1)
    BY <1>3, <2>2 DEF ReplicaOK, FollowerOK
  <2>4. op - 1 \in Nat /\ Reached(R[Leader], s, op - 1)
    BY <2>3 DEF Reached
  <2> QED
    BY <2>1, <2>2, <2>4, ProcessSyncPrepareGoes
<1> QED
  BY <1>2, <1>3

\* ServeOp, for the last operation.
LEMMA ServeOpGoes ==
  ASSUME NEW Q, NEW R, Context(Q, R), NEW X, NEW r \in Replicas,
         NEW s, ReplicaOK(Q, R, X, r, s), NEW op \in Nat, s.lastOp = op, op > 0
  PROVE  /\ Goes(Q, R, X, r, s, ServeOp(r, s, 0, op))
         /\ ServeOp(r, s, 0, op).st.lastOp = op
<1> DEFINE e == s.log[op]
           out == IF e.req.client \in s.addrs
                  THEN {ReplyMessage(e, op, e.req, NoResult, r)} ELSE {}
           res == ServeOp(r, s, 0, op)
<1>1. s \in State /\ LocalOK(Q, s)
  BY DEF ReplicaOK
<1>2. op \in 1 .. Len(s.log)
  BY <1>1 DEF LocalOK
<1>3. e \in LogEntry /\ e.req \in Item /\ e.sess = 0 /\ e.view = 0
  BY <1>1, <1>2, EntryFields
<1>4. res = IF e.req = NoOp THEN Result(s, {})
            ELSE IF LeaderOf(0) = r THEN ExecuteUptoOp(r, s, op)
            ELSE Result(s, out)
  BY Zenon DEF ServeOp
<1> HIDE DEF res
<1>5. CASE e.req = NoOp
  <2>1. res = Result(s, {})
    BY <1>4, <1>5
  <2>2. Goes(Q, R, X, r, s, res)
    BY <2>1, GoesQuiet
  <2> QED
    BY <2>1, <2>2, ResultFields DEF res
<1>6. CASE e.req # NoOp /\ r = Leader
  <2>1. res = ExecuteUptoOp(r, s, op)
    BY <1>4, <1>6, Constants
  <2>2. Executes(Q, r, s, op, res)
    BY <1>1, <2>1, ExecuteUptoOpFields
  <2>3. Goes(Q, R, X, r, s, res) /\ Executed(s, res.st)
    BY <1>6, <2>2, ExecutesGoes
  <2> QED
    BY <1>1, <2>3, ExecutedFields DEF res
<1>7. CASE e.req # NoOp /\ r # Leader
  <2>1. res = Result(s, out)
    BY <1>4, <1>7, Constants
  <2>2. ASSUME NEW m \in out
        PROVE  Says(Q, R, r, s, m)
    <3>1. m = ReplyMessage(e, op, e.req, NoResult, r)
      OBVIOUS
    <3>2. e.req \in Req
      BY <1>3, <1>7, Items
    <3> HIDE DEF e
    <3>3. m = [type |-> "Reply", sess |-> 0, view |-> 0, opnum |-> op,
               req |-> e.req, result |-> -1, from |-> r]
      BY <1>3, <3>1 DEF ReplyMessage, NoResult
    <3>4. m \in ReplyType /\ m.from = r
      BY <3>2, <3>3 DEF ReplyType
    <3> QED
      BY <1>7, <3>4, SaysReply
  <2> HIDE DEF out
  <2>3. Goes(Q, R, X, r, s, res)
    BY <2>1, <2>2, GoesSending
  <2> QED
    BY <2>1, <2>3, ResultFields DEF res
<1> QED
  BY <1>5, <1>6, <1>7

\* What followers have reached of the leader's log they have reached of a
\* longer one.
LEMMA ReachingGrows ==
  ASSUME NEW R, NEW s \in State, NEW t \in State, Grows(Leader, s, t),
         NEW p \in Nat, p <= s.lastOp
  PROVE  Reaching(t, R, p) = Reaching(s, R, p)
<1>1. /\ s.lastOp \in Nat /\ t.lastOp \in Nat /\ s.lastOp <= t.lastOp
      /\ s.gaps \in SUBSET Nat /\ t.gaps \in SUBSET Nat
      /\ s.gaps \subseteq t.gaps
      /\ \A g \in t.gaps : g <= s.lastOp => g \in s.gaps
  BY StateFields DEF Grows
<1>2. p <= t.lastOp
  BY <1>1, AtMostTransitive
<1>3. \A g \in Nat : g <= p => g <= s.lastOp
  BY <1>1
<1>4. \A x : Caught(t, x, p) <=> Caught(s, x, p)
  BY <1>1, <1>2, <1>3 DEF Caught
<1> QED
  BY <1>4 DEF Reaching, Reached

\* What may be the next operation: a request with the next number, a gap the
\* leader has, or the gap the leader begins to agree on.
NextOK(R, Q, r, s, q) ==
  /\ q \in Item
  /\ q # NoOp => RequestMessage(0, s.lastOp + 1, q) \in Q
  /\ r # Leader /\ q = NoOp => s.lastOp + 1 \in R[Leader].gaps
  /\ r = Leader /\ q # NoOp => s.status = "normal"
  /\ r = Leader /\ q = NoOp =>
       /\ s.status = "gapcommit" /\ s.gapCommits = {} /\ s.lastOp + 1 <= MaxMsg
       /\ \A g \in s.gaps : Cardinality(Holding(R, g)) >= F

\* t is s with one more item in the log, perhaps a gap.
AppendedTo(s, t, gap, item) ==
  /\ t.log = Append(s.log, Entry(0, 0, s.nextMsgnum, item))
  /\ t.lastOp = s.lastOp + 1 /\ t.nextMsgnum = s.nextMsgnum + 1
  /\ t.gaps = IF gap THEN s.gaps \cup {s.lastOp + 1} ELSE s.gaps
  /\ ~t.startGap /\ ~t.gapRequest
  /\ t.status = s.status /\ t.lastCommitted = s.lastCommitted
  /\ t.lastExecuted = s.lastExecuted /\ t.app = s.app /\ t.table = s.table
  /\ t.pending = s.pending /\ t.gapCommits = s.gapCommits
  /\ t.syncReplies = s.syncReplies /\ t.transferEnd = s.transferEnd
  /\ t.prepared = s.prepared /\ t.failed = s.failed

\* The state after the next operation is appended.
LEMMA Appended ==
  ASSUME NEW Q, NEW R, Context(Q, R), NEW X, NEW r \in Replicas,
         NEW s, ReplicaOK(Q, R, X, r, s), NEW q, NextOK(R, Q, r, s, q),
         NEW t \in State, NEW gap \in BOOLEAN, NEW item,
         gap <=> q = NoOp \/ s.lastOp + 1 \in s.gaps,
         item = IF gap THEN NoOp ELSE q,
         AppendedTo(s, t, gap, item)
  PROVE  ReplicaOK(Q, R, X, r, t) /\ Grows(r, s, t)
<1> DEFINE op == s.lastOp + 1
<1>1. s \in State /\ LocalOK(Q, s)
  BY DEF ReplicaOK
<1>2. /\ s.lastOp \in Nat /\ s.log \in Seq(LogEntry) /\ s.gaps \in SUBSET Nat
      /\ op \in Nat /\ s.lastOp = Len(s.log) /\ s.nextMsgnum = op
      /\ op = s.lastOp + 1 /\ s.lastOp <= op /\ s.lastOp < op
      /\ s.lastExecuted \in Nat /\ s.lastCommitted \in Nat
      /\ s.lastExecuted <= s.lastOp /\ s.lastCommitted <= s.lastOp
  <2>1. /\ s.lastOp \in Nat /\ s.log \in Seq(LogEntry) /\ s.gaps \in SUBSET Nat
        /\ s.lastExecuted \in Nat /\ s.lastCommitted \in Nat
    BY <1>1, StateFields
  <2>2. /\ s.lastOp = Len(s.log) /\ s.nextMsgnum = s.lastOp + 1
        /\ s.lastExecuted <= s.lastOp /\ s.lastCommitted <= s.lastOp
    BY <1>1 DEF LocalOK
  <2> QED
    BY <2>1, <2>2
<1> HIDE DEF op
<1>3. /\ t.log = Append(s.log, Entry(0, 0, op, item))
      /\ t.lastOp = op /\ t.nextMsgnum = op + 1 /\ ~t.startGap /\ ~t.gapRequest
      /\ t.gaps = IF gap THEN s.gaps \cup {op} ELSE s.gaps
      /\ t.status = s.status /\ t.lastCommitted = s.lastCommitted
      /\ t.lastExecuted = s.lastExecuted /\ t.app = s.app
      /\ t.table = s.table /\ t.pending = s.pending
      /\ t.gapCommits = s.gapCommits /\ t.syncReplies = s.syncReplies
      /\ t.transferEnd = s.transferEnd /\ t.prepared = s.prepared
  BY <1>2 DEF AppendedTo, op
<1>4. /\ q \in Item
      /\ q # NoOp => RequestMessage(0, op, q) \in Q
      /\ r # Leader /\ q = NoOp => op \in R[Leader].gaps
      /\ r = Leader /\ q # NoOp => s.status = "normal"
      /\ r = Leader /\ q = NoOp =>
           /\ s.status = "gapcommit" /\ s.gapCommits = {} /\ op <= MaxMsg
           /\ \A g \in s.gaps : Cardinality(Holding(R, g)) >= F
  BY DEF NextOK, op
<1>5. item \in Item /\ (item = NoOp <=> op \in t.gaps)
  BY <1>2, <1>3, <1>4, Items DEF op
<1> DEFINE e == Entry(0, 0, op, item)
<1>6. e \in LogEntry /\ e.num = op /\ e.req = item
  BY <1>2, <1>5 DEF Entry, LogEntry
<1> HIDE DEF e
<1>7. /\ Len(t.log) = op /\ t.log[op] = e
      /\ \A i \in 1 .. s.lastOp : t.log[i] = s.log[i]
  <2>1. t.log = Append(s.log, e)
    BY <1>3 DEF e
  <2> QED
    BY <1>2, <1>6, <2>1
<1>8. \A g \in t.gaps : g <= s.lastOp => g \in s.gaps
  BY <1>2, <1>3
<1>9. Grows(r, s, t)
  BY <1>2, <1>3, <1>7, <1>8 DEF Grows
<1>10. op <= MaxMsg
  <2>1. CASE q # NoOp
    <3>1. RequestMessage(0, op, q) \in RequestType
      BY <1>4, <2>1, ContextFields
    <3> QED
      BY <3>1, Constants DEF RequestMessage, RequestType
  <2>2. CASE q = NoOp /\ r = Leader
    BY <1>4, <2>2
  <2>3. CASE q = NoOp /\ r # Leader
    <3>1. op \in R[Leader].gaps
      BY <1>4, <2>3
    <3>2. op \in 1 .. R[Leader].lastOp
      BY <3>1, ContextFields DEF LeaderOK
    <3>3. R[Leader].lastOp <= MaxMsg /\ R[Leader].lastOp \in Nat
      BY ContextFields, StateFields DEF LocalOK
    <3> QED
      BY <1>2, <3>2, <3>3, Constants
  <2> QED
    BY <2>1, <2>2, <2>3
<1>11. LocalOK(Q, t)
  <2>1. ASSUME NEW i \in 1 .. op
        PROVE  PlaceOK(Q, t, i)
    <3>1. CASE i = op
      <4>1. item # NoOp => RequestMessage(0, op, item) \in Q
        BY <1>4, <1>5
      <4> QED
        BY <1>5, <1>6, <1>7, <3>1, <4>1 DEF PlaceOK
    <3>2. CASE i # op
      <4>1. i \in 1 .. s.lastOp
        BY <1>2, <3>2
      <4>2. PlaceOK(Q, s, i) /\ t.log[i] = s.log[i]
        BY <1>1, <1>7, <4>1 DEF LocalOK
      <4>3. i \in t.gaps <=> i \in s.gaps
        BY <1>3, <3>2
      <4> QED
        BY <4>2, <4>3 DEF PlaceOK
    <3> QED
      BY <3>1, <3>2
  <2>2. t.lastExecuted <= op /\ t.lastCommitted <= op
    BY <1>2, <1>3
  <2>3. t.pending \subseteq Q /\ AppOK(t)
    BY <1>1, <1>3 DEF LocalOK, AppOK
  <2> QED
    BY <1>3, <1>7, <1>10, <2>1, <2>2, <2>3 DEF LocalOK
<1>12. ASSUME r # Leader
       PROVE  FollowerOK(R[Leader], X, t)
  <2>1. FollowerOK(R[Leader], X, s)
    BY <1>12 DEF ReplicaOK
  <2>2. op \in t.gaps => op \in R[Leader].gaps
    BY <1>3, <1>4, <1>12, <2>1 DEF FollowerOK, op
  <2>3. t.gaps \subseteq R[Leader].gaps /\ s.gaps \subseteq t.gaps
    BY <1>3, <2>1, <2>2 DEF FollowerOK
  <2>4. \A p : Caught(R[Leader], s, p) => Caught(R[Leader], t, p)
    BY <2>3 DEF Caught
  <2> QED
    BY <1>3, <2>1, <2>3, <2>4 DEF FollowerOK
<1>13. ASSUME r = Leader
       PROVE  LeaderOK(R, t)
  <2>1. LeaderOK(R, s)
    BY <1>13 DEF ReplicaOK
  <2>2. \A p \in Nat : p <= s.lastOp => Reaching(t, R, p) = Reaching(s, R, p)
    BY <1>1, <1>9, <1>13, ReachingGrows
  <2>3. t.gaps \subseteq 1 .. op
    <3>1. s.gaps \subseteq 1 .. s.lastOp
      BY <2>1 DEF LeaderOK
    <3> QED
      BY <1>2, <1>3, <3>1
  <2>4. ASSUME NEW g \in t.gaps
        PROVE  \/ Cardinality(Holding(R, g)) >= F
               \/ t.status = "gapcommit" /\ g = op
    <3>1. op \notin s.gaps
      BY <1>2, <2>1 DEF LeaderOK
    <3>2. CASE g = op
      <4>1. gap /\ q = NoOp
        BY <1>3, <2>4, <3>1, <3>2 DEF op
      <4> QED
        BY <1>3, <1>4, <1>13, <3>2, <4>1
    <3>3. CASE g # op
      <4>1. g \in s.gaps
        BY <1>3, <3>3
      <4>2. CASE q = NoOp
        BY <1>4, <1>13, <4>1, <4>2
      <4>3. CASE q # NoOp
        BY <1>4, <1>13, <2>1, <4>1, <4>3 DEF LeaderOK
      <4> QED
        BY <4>2, <4>3
    <3> QED
      BY <3>2, <3>3
  <2>5. t.status = "gapcommit" => t.gapCommits = {}
    BY <1>3, <1>4, <1>13
  <2>6. ASSUME NEW x \in t.syncReplies
        PROVE  x.from \in Reaching(t, R, x.point)
    <3>1. x.from \in Reaching(s, R, x.point)
      BY <1>3, <2>1 DEF LeaderOK
    <3>2. x.point \in Nat
      BY <1>1, <1>3, StateFields
    <3>3. x.point <= s.lastOp
      BY <3>1 DEF Reaching, Reached, Caught
    <3> QED
      BY <2>2, <3>1, <3>2, <3>3
  <2>7. t.lastCommitted > 0 =>
          Cardinality(Reaching(t, R, t.lastCommitted)) >= F
    BY <1>2, <1>3, <2>1, <2>2 DEF LeaderOK
  <2>8. t.transferEnd = 0
    BY <1>3, <2>1 DEF LeaderOK
  <2> QED
    BY <1>3, <2>3, <2>4, <2>5, <2>6, <2>7, <2>8 DEF LeaderOK
<1> QED
  BY <1>9, <1>11, <1>12, <1>13 DEF ReplicaOK

\* The update of AppendOp.
Appending(s, op, n, log, replies, gaps) ==
  [s EXCEPT !.lastOp = op, !.nextMsgnum = n, !.log = log, !.startGap = FALSE,
            !.gapRequest = FALSE, !.gapReplies = replies, !.gaps = gaps]

\* An append gives a state again.
LEMMA AppendingState ==
  ASSUME NEW s \in State, NEW op \in Nat, NEW n \in Nat,
         NEW log \in Seq(LogEntry), NEW replies \in SUBSET Replicas,
         NEW gaps \in SUBSET Nat
  PROVE  Appending(s, op, n, log, replies, gaps) \in State
BY ZenonT(40) DEF Appending, State

\* The fields an append leaves alone.
LEMMA AppendingFields ==
  ASSUME NEW s \in State, NEW op \in Nat, op = s.lastOp + 1, NEW n \in Nat,
         n = s.nextMsgnum + 1, NEW log \in Seq(LogEntry),
         NEW replies \in SUBSET Replicas, NEW gaps \in SUBSET Nat,
         NEW gap, gaps = IF gap THEN s.gaps \cup {op} ELSE s.gaps,
         NEW item, log = Append(s.log, Entry(0, 0, s.nextMsgnum, item))
  PROVE  /\ Appending(s, op, n, log, replies, gaps) \in State
         /\ AppendedTo(s, Appending(s, op, n, log, replies, gaps), gap, item)
<1> DEFINE t == Appending(s, op, n, log, replies, gaps)
<1>1. t \in State
  BY AppendingState
<1>2. /\ t.log = log /\ t.lastOp = op /\ t.nextMsgnum = n
      /\ t.startGap = FALSE /\ t.gapRequest = FALSE /\ t.gaps = gaps
      /\ t.status = s.status /\ t.lastCommitted = s.lastCommitted
      /\ t.lastExecuted = s.lastExecuted /\ t.app = s.app
      /\ t.table = s.table /\ t.pending = s.pending
      /\ t.gapCommits = s.gapCommits /\ t.syncReplies = s.syncReplies
      /\ t.transferEnd = s.transferEnd /\ t.prepared = s.prepared
      /\ t.failed = s.failed
  BY StateDomain, ZenonT(40) DEF Appending, Fields
<1> HIDE DEF t
<1>3. AppendedTo(s, t, gap, item)
  BY <1>2 DEF AppendedTo
<1> QED
  BY <1>1, <1>3 DEF t

\* AppendOp.
LEMMA AppendOpGoes ==
  ASSUME NEW Q, NEW R, Context(Q, R), NEW X, NEW r \in Replicas,
         NEW s, ReplicaOK(Q, R, X, r, s), s.failed = NoFailure,
         NEW q, NextOK(R, Q, r, s, q)
  PROVE  LET res == AppendOp(r, s, 0, 0, s.nextMsgnum, q)
         IN  /\ Goes(Q, R, X, r, s, res) /\ res.st.lastOp = s.lastOp + 1
             /\ q = NoOp => s.lastOp + 1 \in res.st.gaps
<1> DEFINE op == s.lastOp + 1
           n == s.nextMsgnum
           gap == q = NoOp \/ op \in s.gaps
           item == IF gap THEN NoOp ELSE q
           log == Append(s.log, Entry(0, 0, n, item))
           replies == IF s.gapRequest THEN {} ELSE s.gapReplies
           gaps == IF gap THEN s.gaps \cup {op} ELSE s.gaps
           t == Appending(s, op, n + 1, log, replies, gaps)
           a == ServeOp(r, t, 0, op)
           b == CompleteTransfer(r, a.st, op)
           res == AppendOp(r, s, 0, 0, n, q)
<1>1. /\ s \in State /\ s.lastOp \in Nat /\ n = s.lastOp + 1
      /\ Len(s.log) = s.lastOp /\ s.log \in Seq(LogEntry) /\ s.gaps \in SUBSET Nat
      /\ s.gapReplies \in SUBSET Replicas
  BY StateFields DEF ReplicaOK, LocalOK
<1>2. op \in Nat /\ op > 0 /\ n + 1 \in Nat /\ n + 1 = op + 1
  BY <1>1
<1>3. Append(s.log, Entry(0, 0, n, item)) \in Seq(LogEntry)
  <2>1. item \in Item /\ n \in Nat
    BY <1>1, Items DEF NextOK
  <2>2. Entry(0, 0, n, item) \in LogEntry
    BY <2>1 DEF Entry, LogEntry
  <2> QED
    BY <1>1, <2>2
<1>4. /\ replies \in SUBSET Replicas /\ gaps \in SUBSET Nat
      /\ log \in Seq(LogEntry)
  BY <1>1, <1>2, <1>3
<1>5. t \in State /\ AppendedTo(s, t, gap, item)
  <2>1. /\ log = Append(s.log, Entry(0, 0, n, item)) /\ n + 1 = op + 1
        /\ gaps = IF gap THEN s.gaps \cup {op} ELSE s.gaps
    BY <1>2
  <2> HIDE DEF log, replies, gaps, gap, item
  <2> QED
    BY <1>1, <1>2, <1>4, <2>1, AppendingFields
<1>6. t.lastOp = op /\ t.failed = s.failed /\ (q = NoOp => op \in t.gaps)
  BY <1>5 DEF AppendedTo
<1> HIDE DEF t
<1>7. ReplicaOK(Q, R, X, r, t) /\ Grows(r, s, t)
  <2>1. gap \in BOOLEAN /\ (gap <=> q = NoOp \/ s.lastOp + 1 \in s.gaps)
    OBVIOUS
  <2>2. item = IF gap THEN NoOp ELSE q
    OBVIOUS
  <2> HIDE DEF gap, item, op
  <2> QED
    BY <1>5, <2>1, <2>2, Appended
<1> HIDE DEF op, n
<1>8. /\ Goes(Q, R, X, r, t, a) /\ a.st.lastOp = op
  BY <1>2, <1>6, <1>7, ServeOpGoes
<1>9. Goes(Q, R, X, r, a.st, b) /\ b.st.lastOp = op
  <2>1. ReplicaOK(Q, R, X, r, a.st) /\ a.st.failed = NoFailure
    BY <1>6, <1>8 DEF Goes
  <2> HIDE DEF a
  <2> QED
    BY <1>2, <1>8, <2>1, CompleteTransferGoes
<1>10. res = InRow(a, b)
  <2>1. res = Then(a, LAMBDA u : CompleteTransfer(r, u, op))
    BY <1>1, Zenon DEF AppendOp, op, n, t, Appending
  <2> HIDE DEF a, res
  <2> QED
    BY <2>1, Zenon DEF Then, InRow
<1> HIDE DEF a, b, res
<1>11. Goes(Q, R, X, r, t, res) /\ res.st = b.st
  BY <1>5, <1>6, <1>8, <1>9, <1>10, GoesThen
<1>12. Goes(Q, R, X, r, s, res) /\ res.st.lastOp = op
  BY <1>1, <1>5, <1>6, <1>7, <1>9, <1>11, GoesFrom
<1>13. q = NoOp => op \in res.st.gaps
  <2>1. t.gaps \subseteq res.st.gaps
    BY <1>11 DEF Goes, Grows
  <2> QED
    BY <1>6, <2>1
<1> QED
  BY <1>12, <1>13 DEF res, op, n

\* As many gaps follow a place as are counted.
LEMMA GapsFollow ==
  ASSUME NEW G \in SUBSET Nat, IsFiniteSet(G), NEW L \in Nat,
         NEW A, A = {g \in G : g > L /\ \A x \in (L + 1) .. g : x \in G}
  PROVE  Cardinality(A) \in Nat /\ \A k \in 1 .. Cardinality(A) : L + k \in G
<1>1. IsFiniteSet(A) /\ Cardinality(A) \in Nat
  <2>1. A \subseteq G
    OBVIOUS
  <2> QED
    BY <2>1, FS_Subset, FS_CardinalityType
<1>2. ASSUME NEW k \in 1 .. Cardinality(A), L + k \notin G
      PROVE  FALSE
  <2>1. k \in Nat /\ k >= 1
    BY <1>1
  <2> DEFINE B == (L + 1) .. (L + k - 1)
  <2>2. ASSUME NEW g \in A
        PROVE  g \in B
    <3>1. g \in Nat /\ g > L /\ \A x \in (L + 1) .. g : x \in G
      OBVIOUS
    <3>2. ~(L + k <= g)
      BY <1>2, <2>1, <3>1
    <3> QED
      BY <2>1, <3>1, <3>2
  <2>3. IsFiniteSet(B) /\ Cardinality(B) = k - 1
    <3>1. L + 1 \in Int /\ L + k - 1 \in Int
      BY <2>1
    <3>2. /\ IsFiniteSet(B)
          /\ Cardinality(B) = IF L + 1 > L + k - 1 THEN 0
                              ELSE (L + k - 1) - (L + 1) + 1
      BY <3>1, FS_Interval
    <3> QED
      BY <2>1, <3>2
  <2> HIDE DEF B
  <2>4. Cardinality(A) <= Cardinality(B)
    <3>1. A \subseteq B
      BY <2>2
    <3> QED
      BY <2>3, <3>1, FS_Subset
  <2> QED
    BY <1>1, <1>2, <2>1, <2>3, <2>4
<1> QED
  BY <1>1, <1>2

\* A result for the loops: it also extends the log to a place.
GoesTo(Q, R, X, r, s, op, res) ==
  res \in Results /\ Goes(Q, R, X, r, s, res) /\ res.st.lastOp = op

\* The parts of a result that goes well.
LEMMA GoesResult ==
  ASSUME NEW Q, NEW R, NEW X, NEW r, NEW s, NEW st, NEW out,
         Goes(Q, R, X, r, s, Result(st, out))
  PROVE  Result(st, out) \in Results
<1> DEFINE res == Result(st, out)
<1>1. res.st = st /\ res.out = out
  BY ResultFields
<1> HIDE DEF res
<1>2. st \in State /\ \A m \in out : m \in Message
  BY <1>1 DEF Goes, ReplicaOK, Says, res
<1> QED
  BY <1>2, ResultFields

\* What ProcessNextOperation goes on with.
TrailingGaps(r, s) ==
  ForEach(s.lastOp + 1, s.lastOp + Cardinality(GapsAfter(s, s.lastOp)),
          LAMBDA u, op : AppendOp(r, u, 0, 0, u.nextMsgnum, NoOp), s)

\* The gaps already committed after the log.
LEMMA GapsAppended ==
  ASSUME NEW Q, NEW R, Context(Q, R), NEW X, NEW r \in Replicas,
         NEW s, ReplicaOK(Q, R, X, r, s), s.failed = NoFailure
  PROVE  /\ Goes(Q, R, X, r, s, TrailingGaps(r, s))
         /\ r = Leader => TrailingGaps(r, s).st.lastOp = s.lastOp
<1> DEFINE L == s.lastOp
           m == Cardinality(GapsAfter(s, L))
           first == L + 1
           last == L + m
           quiet == Result(s, {})
           n == IF last < first THEN 0 ELSE last - first + 1
           Op(t) == AppendOp(r, t, 0, 0, t.nextMsgnum, NoOp)
           Go(x, i) == Then(x, LAMBDA t : Op(t))
           after[i \in 0 .. n] == IF i = 0 THEN quiet ELSE Go(after[i - 1], i)
           run(f) == [i \in 0 .. n |-> IF i = 0 THEN quiet ELSE Go(f[i - 1], i)]
           S == [i \in 0 .. n |-> {x \in Results : GoesTo(Q, R, X, r, s, L + i, x)}]
           g == [i \in 1 .. n |-> [x \in S[i - 1] |-> Go(x, i)]]
<1>1. s \in State /\ L \in Nat /\ s.gaps \in SUBSET Nat
  BY StateFields DEF ReplicaOK
<1>2. /\ m \in Nat /\ \A k \in 1 .. m : L + k \in s.gaps
      /\ r = Leader => m = 0
  <2>1. IsFiniteSet(s.gaps)
    <3>1. s.gaps \subseteq LeadOf(R, r, s).gaps
      BY DEF ReplicaOK, FollowerOK, LeadOf
    <3>2. LeadOf(R, r, s).gaps \subseteq 1 .. LeadOf(R, r, s).lastOp
      BY ContextFields DEF ReplicaOK, LeaderOK, LeadOf
    <3>3. LeadOf(R, r, s).lastOp \in Nat
      BY <1>1, ContextFields, StateFields DEF LeadOf
    <3>4. IsFiniteSet(1 .. LeadOf(R, r, s).lastOp)
      <4> HIDE DEF LeadOf
      <4>1. 1 \in Int /\ LeadOf(R, r, s).lastOp \in Int
        BY <3>3
      <4> QED
        BY <4>1, FS_Interval
    <3> QED
      BY <3>1, <3>2, <3>4, FS_Subset
  <2>2. GapsAfter(s, L) = {x \in s.gaps : x > L /\ \A y \in (L + 1) .. x : y \in s.gaps}
    BY DEF GapsAfter
  <2>3. m \in Nat /\ \A k \in 1 .. m : L + k \in s.gaps
    <3> HIDE DEF L
    <3> QED
      BY <1>1, <2>1, <2>2, GapsFollow
  <2>4. ASSUME r = Leader
        PROVE  m = 0
    <3>1. s.gaps \subseteq 1 .. L
      BY <2>4 DEF ReplicaOK, LeaderOK
    <3> HIDE DEF L
    <3>2. GapsAfter(s, L) = {}
      BY <1>1, <2>2, <3>1
    <3> QED
      BY <3>2, FS_EmptySet
  <2> QED
    BY <2>3, <2>4
<1> HIDE DEF m
<1>3. n = m
  BY <1>1, <1>2
<1>4. n \in Nat /\ \A i \in 1 .. n : L + i \in s.gaps /\ r # Leader
  BY <1>2, <1>3
<1>5. quiet \in Results /\ GoesTo(Q, R, X, r, s, L, quiet)
  <2>1. Goes(Q, R, X, r, s, quiet)
    BY GoesQuiet
  <2>2. quiet.st = s /\ quiet \in Results
    BY <1>1, ResultFields
  <2> QED
    BY <2>1, <2>2 DEF GoesTo
<1> HIDE DEF quiet
<1>6. ASSUME NEW i \in 1 .. n, NEW x, GoesTo(Q, R, X, r, s, L + (i - 1), x)
      PROVE  GoesTo(Q, R, X, r, s, L + i, Go(x, i))
  <2> DEFINE t == x.st
             y == Op(t)
  <2>1. Go(x, i) = InRow(x, y)
    BY Zenon DEF Then, InRow
  <2>2. /\ Goes(Q, R, X, r, s, x) /\ ReplicaOK(Q, R, X, r, t)
        /\ t.failed = NoFailure /\ t.lastOp = L + (i - 1)
        /\ s.gaps \subseteq t.gaps
    BY <1>6 DEF GoesTo, Goes, Grows
  <2>3. t.lastOp + 1 = L + i
    <3>1. i \in Int
      OBVIOUS
    <3> HIDE DEF t, L
    <3> QED
      BY <1>1, <2>2, <3>1 DEF L
  <2>4. NextOK(R, Q, r, t, NoOp)
    <3>1. L + i \in R[Leader].gaps /\ r # Leader
      BY <1>4, <2>2 DEF ReplicaOK, FollowerOK
    <3> HIDE DEF t, L
    <3> QED
      BY <2>3, <3>1, Items DEF NextOK
  <2>5. Goes(Q, R, X, r, t, y) /\ y.st.lastOp = L + i
    <3> HIDE DEF t, L
    <3> QED
      BY <2>2, <2>3, <2>4, AppendOpGoes
  <2> HIDE DEF y, Go
  <2>6. Goes(Q, R, X, r, s, InRow(x, y)) /\ InRow(x, y).st = y.st
    <3>1. Goes(Q, R, X, r, s, x) /\ Goes(Q, R, X, r, x.st, y) /\ s \in State
      BY <1>1, <2>2, <2>5
    <3> QED
      BY <3>1, GoesThen
  <2>7. InRow(x, y) \in Results
    <3>1. InRow(x, y) = Result(y.st, x.out \cup y.out)
      BY <2>2 DEF InRow
    <3> QED
      BY <2>6, <3>1, GoesResult
  <2>8. GoesTo(Q, R, X, r, s, L + i, InRow(x, y))
    BY <2>5, <2>6, <2>7 DEF GoesTo
  <2> QED
    BY <2>1, <2>8
<1>7. GoesTo(Q, R, X, r, s, L + 0, quiet)
  <2>1. L + 0 = L
    BY <1>1
  <2> QED
    BY <1>5, <2>1
<1> HIDE DEF first, last, n, Go, L
<1>8. \A i \in 0 .. n : \A x : x \in S[i] <=> GoesTo(Q, R, X, r, s, L + i, x)
  BY Zenon DEF S, GoesTo
<1>9. 0 \in 0 .. n
  BY <1>4
<1>10. ASSUME NEW i \in 1 .. n
       PROVE  i \in 0 .. n /\ i # 0 /\ i - 1 \in 0 .. n
  BY <1>4
<1>11. ASSUME NEW i \in 1 .. n, NEW x \in S[i - 1]
       PROVE  Go(x, i) \in S[i]
  <2> HIDE DEF S
  <2> QED
    BY <1>6, <1>8, <1>10
<1> HIDE DEF S
<1>12. PICK f : IsRun(f, g, n, quiet) /\ \A i \in 0 .. n : f[i] \in S[i]
  <2>1. quiet \in S[0]
    BY <1>7, <1>8, <1>9
  <2>2. IsLoop(g, n, S)
    BY <1>11 DEF IsLoop
  <2> HIDE DEF g
  <2> QED
    BY <1>4, <2>1, <2>2, LoopRuns
<1>13. f = run(f)
  <2> HIDE DEF g
  <2>1. ASSUME NEW i \in 0 .. n, i # 0
        PROVE  g[i][f[i - 1]] = Go(f[i - 1], i)
    <3>1. i \in 1 .. n /\ i - 1 \in 0 .. n
      BY <1>4, <2>1
    <3>2. f[i - 1] \in S[i - 1]
      BY <1>12, <3>1
    <3> QED
      BY <3>1, <3>2 DEF g
  <2> QED
    BY <1>12, <2>1 DEF IsRun
<1>14. after = CHOOSE h : h = run(h)
  BY Zenon DEF after
<1> HIDE DEF after
<1>15. after = run(after)
  <2> HIDE DEF run
  <2> QED
    BY <1>13, <1>14
<1>16. after[n] \in S[n]
  <2>1. after[0] \in S[0]
    BY <1>7, <1>8, <1>9, <1>15
  <2>2. ASSUME NEW i \in 1 .. n, after[i - 1] \in S[i - 1]
        PROVE  after[i] \in S[i]
    <3>1. after[i] = Go(after[i - 1], i)
      BY <1>10, <1>15
    <3> QED
      BY <1>11, <2>2, <3>1
  <2> QED
    BY <1>4, <2>1, <2>2, LoopStays
<1>17. TrailingGaps(r, s) = after[n]
  BY Zenon DEF TrailingGaps, ForEach, after, Go, n, quiet, first, last, m, L
<1>18. GoesTo(Q, R, X, r, s, L + n, after[n])
  <2>1. n \in 0 .. n
    BY <1>4
  <2> QED
    BY <1>8, <1>16, <2>1
<1>19. /\ Goes(Q, R, X, r, s, after[n])
       /\ r = Leader => after[n].st.lastOp = L
  <2>1. r = Leader => L + n = L
    BY <1>1, <1>2, <1>3
  <2> QED
    BY <1>18, <2>1 DEF GoesTo
<1> QED
  BY <1>17, <1>19 DEF L

\* ProcessNextOperation.
LEMMA ProcessNextOperationGoes ==
  ASSUME NEW Q, NEW R, Context(Q, R), NEW X, NEW r \in Replicas,
         NEW s, ReplicaOK(Q, R, X, r, s), s.failed = NoFailure,
         NEW q, NextOK(R, Q, r, s, q), NEW num, num = s.nextMsgnum
  PROVE  LET res == ProcessNextOperation(r, s, 0, 0, num, q)
         IN  /\ Goes(Q, R, X, r, s, res) /\ s.lastOp + 1 <= res.st.lastOp
             /\ q = NoOp => s.lastOp + 1 \in res.st.gaps
             /\ r = Leader => res.st.lastOp = s.lastOp + 1
<1> DEFINE a == AppendOp(r, s, 0, 0, num, q)
           t == a.st
           b == TrailingGaps(r, t)
           res == ProcessNextOperation(r, s, 0, 0, num, q)
<1>1. s \in State
  BY DEF ReplicaOK
<1>2. /\ Goes(Q, R, X, r, s, a) /\ t.lastOp = s.lastOp + 1
      /\ q = NoOp => s.lastOp + 1 \in t.gaps
  BY AppendOpGoes
<1>3. res = InRow(a, b)
  BY Zenon DEF ProcessNextOperation, TrailingGaps, Then, InRow
<1> HIDE DEF a, res
<1>4. Goes(Q, R, X, r, t, b) /\ (r = Leader => b.st.lastOp = t.lastOp)
  <2>1. ReplicaOK(Q, R, X, r, t) /\ t.failed = NoFailure
    BY <1>2 DEF Goes
  <2> HIDE DEF t
  <2> QED
    BY <2>1, GapsAppended
<1> HIDE DEF b
<1>5. Goes(Q, R, X, r, s, res) /\ res.st = b.st
  BY <1>1, <1>2, <1>3, <1>4, GoesThen
<1>6. t.lastOp <= b.st.lastOp /\ t.gaps \subseteq b.st.gaps
  BY <1>4 DEF Goes, Grows
<1> QED
  BY <1>2, <1>4, <1>5, <1>6 DEF res

\* t is s with another log of the same length and other gaps.
WithGaps(s, log, gaps) == [s EXCEPT !.log = log, !.gaps = gaps]

RestSame(s, t) ==
  /\ t.lastOp = s.lastOp /\ t.nextMsgnum = s.nextMsgnum /\ t.status = s.status
  /\ t.lastCommitted = s.lastCommitted /\ t.lastExecuted = s.lastExecuted
  /\ t.app = s.app /\ t.table = s.table /\ t.pending = s.pending
  /\ t.startGap = s.startGap /\ t.gapRequest = s.gapRequest
  /\ t.transferEnd = s.transferEnd /\ t.prepared = s.prepared
  /\ t.failed = s.failed

\* The fields an installed gap leaves alone.
LEMMA WithGapsFields ==
  ASSUME NEW s \in State, NEW log \in Seq(LogEntry), NEW gaps \in SUBSET Nat
  PROVE  LET t == WithGaps(s, log, gaps)
         IN  t \in State /\ t.log = log /\ t.gaps = gaps /\ RestSame(s, t)
<1> DEFINE t == WithGaps(s, log, gaps)
<1>1. t \in State
  BY DEF WithGaps, State
<1>2. t.log = log /\ t.gaps = gaps /\ RestSame(s, t)
  BY StateDomain, ZenonT(40) DEF WithGaps, Fields, RestSame
<1> QED
  BY <1>1, <1>2

\* The log with a gap in the place of an entry.
LEMMA LogWithGap ==
  ASSUME NEW log \in Seq(LogEntry), NEW g \in 1 .. Len(log)
  PROVE  /\ [log EXCEPT ![g].req = NoOp] \in Seq(LogEntry)
         /\ Len([log EXCEPT ![g].req = NoOp]) = Len(log)
         /\ \A i \in 1 .. Len(log) :
              /\ i # g => [log EXCEPT ![g].req = NoOp][i] = log[i]
              /\ [log EXCEPT ![g].req = NoOp][i].num = log[i].num
         /\ [log EXCEPT ![g].req = NoOp][g].req = NoOp
<1> DEFINE e == [log[g] EXCEPT !.req = NoOp]
           new == [log EXCEPT ![g] = e]
<1>1. [log EXCEPT ![g].req = NoOp] = new
  OBVIOUS
<1>2. log[g] \in LogEntry
  OBVIOUS
<1>3. e \in LogEntry /\ e.num = log[g].num /\ e.req = NoOp
  BY <1>2, Items DEF LogEntry
<1> HIDE DEF e
<1>4. new \in Seq(LogEntry) /\ Len(new) = Len(log)
  BY <1>3
<1>5. \A i \in 1 .. Len(log) : new[i] = IF i = g THEN e ELSE log[i]
  OBVIOUS
<1> HIDE DEF new
<1>6. \A i \in 1 .. Len(log) :
        (i # g => new[i] = log[i]) /\ new[i].num = log[i].num
  BY <1>3, <1>5
<1>7. new[g].req = NoOp
  BY <1>3, <1>5
<1> QED
  BY <1>1, <1>4, <1>6, <1>7

\* The log of a replica that learns of the gap g.
GapLog(s, g) ==
  IF g <= s.lastOp THEN [s.log EXCEPT ![g].req = NoOp] ELSE s.log

\* A follower learns of a gap of the leader's log.
LEMMA GapLearned ==
  ASSUME NEW Q, NEW R, Context(Q, R), NEW X, NEW r \in Replicas, r # Leader,
         NEW s, ReplicaOK(Q, R, X, r, s), NEW g \in R[Leader].gaps,
         NEW t, t = WithGaps(s, GapLog(s, g), s.gaps \cup {g})
  PROVE  /\ ReplicaOK(Q, R, X, r, t) /\ Grows(r, s, t)
         /\ g \in t.gaps /\ t.lastOp = s.lastOp /\ t.failed = s.failed
<1> DEFINE log == GapLog(s, g)
<1>1. /\ s \in State /\ LocalOK(Q, s) /\ FollowerOK(R[Leader], X, s)
      /\ s.log \in Seq(LogEntry) /\ s.gaps \in SUBSET Nat /\ s.lastOp \in Nat
      /\ s.lastOp = Len(s.log)
  BY StateFields DEF ReplicaOK, LocalOK
<1>2. g \in Nat /\ g >= 1
  <2>1. /\ R[Leader].gaps \subseteq 1 .. R[Leader].lastOp
        /\ R[Leader].lastOp \in Nat
    BY ContextFields, StateFields DEF LeaderOK
  <2> QED
    BY <2>1
<1>3. /\ log \in Seq(LogEntry) /\ Len(log) = s.lastOp
      /\ \A i \in 1 .. s.lastOp : /\ i # g => log[i] = s.log[i]
                                  /\ log[i].num = s.log[i].num
      /\ g <= s.lastOp => log[g].req = NoOp
  <2>1. CASE g <= s.lastOp
    <3>1. g \in 1 .. Len(s.log)
      BY <1>1, <1>2, <2>1
    <3>2. log = [s.log EXCEPT ![g].req = NoOp]
      BY <2>1 DEF GapLog
    <3> QED
      BY <1>1, <3>1, <3>2, LogWithGap, SMTT(20)
  <2>2. CASE ~(g <= s.lastOp)
    BY <1>1, <2>2 DEF GapLog
  <2> QED
    BY <2>1, <2>2
<1> HIDE DEF log
<1>4. /\ t \in State /\ t.log = log /\ t.gaps = s.gaps \cup {g}
      /\ RestSame(s, t)
  <2>1. s.gaps \cup {g} \in SUBSET Nat
    BY <1>1, <1>2
  <2> QED
    BY <1>1, <1>3, <2>1, WithGapsFields, SMTT(20) DEF log
<1>5. LocalOK(Q, t)
  <2>1. ASSUME NEW op \in 1 .. s.lastOp
        PROVE  PlaceOK(Q, t, op)
    <3>1. PlaceOK(Q, s, op)
      BY <1>1 DEF LocalOK
    <3>2. CASE op = g
      <4>1. g <= s.lastOp
        BY <1>1, <3>2
      <4> QED
        BY <1>3, <1>4, <3>1, <3>2, <4>1 DEF PlaceOK
    <3>3. CASE op # g
      BY <1>3, <1>4, <3>1, <3>3 DEF PlaceOK
    <3> QED
      BY <3>2, <3>3
  <2> QED
    <3>1. /\ t.lastOp = s.lastOp /\ t.nextMsgnum = s.nextMsgnum
          /\ t.lastCommitted = s.lastCommitted
          /\ t.lastExecuted = s.lastExecuted /\ t.pending = s.pending
          /\ t.startGap = s.startGap /\ t.gapRequest = s.gapRequest
      BY <1>4 DEF RestSame
    <3>2. AppOK(t)
      <4>1. t.app = s.app /\ t.table = s.table /\ AppOK(s)
        BY <1>1, <1>4 DEF LocalOK, RestSame
      <4> QED
        BY <4>1 DEF AppOK
    <3> QED
      BY <1>1, <1>3, <1>4, <2>1, <3>1, <3>2 DEF LocalOK
<1>6. FollowerOK(R[Leader], X, t)
  <2>1. t.gaps \subseteq R[Leader].gaps
    BY <1>1, <1>4 DEF FollowerOK
  <2>2. \A p : Caught(R[Leader], s, p) => Caught(R[Leader], t, p)
    BY <1>4 DEF Caught
  <2> QED
    BY <1>1, <1>4, <2>1, <2>2 DEF FollowerOK, RestSame
<1>7. Grows(r, s, t)
  <2>1. t.lastOp = s.lastOp
    BY <1>4 DEF RestSame
  <2>2. s.lastOp \in Nat /\ t.gaps = s.gaps \cup {g}
    BY <1>1, <1>4
  <2>3. s.gaps \subseteq t.gaps
    BY <2>2
  <2>4. s.lastOp <= t.lastOp
    BY <2>1, <2>2
  <2> QED
    BY <2>3, <2>4 DEF Grows
<1> QED
  BY <1>4, <1>5, <1>6, <1>7 DEF ReplicaOK, RestSame

\* The viewstamp of the last entry, in the first view.
LEMMA LastViewstampFields ==
  ASSUME NEW Q, NEW s \in State, LocalOK(Q, s)
  PROVE  LastViewstamp(s.log).view = 0 /\ LastViewstamp(s.log).sess = 0
<1>1. CASE s.log = <<>>
  BY <1>1 DEF LastViewstamp, Entry
<1>2. CASE s.log # <<>>
  <2>1. s.log \in Seq(LogEntry)
    BY StateFields
  <2>2. Len(s.log) \in 1 .. Len(s.log)
    BY <1>2, <2>1
  <2> QED
    BY <1>2, <2>2, EntryFields DEF LastViewstamp
<1> QED
  BY <1>1, <1>2

\* InstallCommittedGaps for one gap of the leader's log.
LEMMA InstallGapGoes ==
  ASSUME NEW Q, NEW R, Context(Q, R), NEW X, NEW r \in Replicas, r # Leader,
         NEW s, ReplicaOK(Q, R, X, r, s), s.failed = NoFailure,
         NEW g \in R[Leader].gaps
  PROVE  /\ Goes(Q, R, X, r, s, InstallGap(r, s, g))
         /\ g \in InstallGap(r, s, g).st.gaps
<1> DEFINE t == [s EXCEPT !.gaps = @ \cup {g}]
           vs == LastViewstamp(s.log)
           a == IF s.lastOp + 1 = g
                THEN ProcessNextOperation(r, t, vs.view, vs.sess, t.nextMsgnum,
                                          NoOp)
                ELSE Result(t, {})
           Over(u) ==
             IF u.lastOp < g THEN Result(u, {})
             ELSE IF g > Len(u.log) THEN Abort(u, "InstallCommittedGaps")
             ELSE IF u.log[g].req = NoOp THEN Result(u, {})
             ELSE IF u.lastCommitted >= g THEN Abort(u, "InstallCommittedGaps")
             ELSE IF u.lastExecuted >= g THEN Abort(u, "Rollback")
             ELSE Result([u EXCEPT !.log[g].req = NoOp], {})
           res == InstallGap(r, s, g)
           w == WithGaps(s, GapLog(s, g), s.gaps \cup {g})
<1>1. /\ s \in State /\ LocalOK(Q, s) /\ FollowerOK(R[Leader], X, s)
      /\ s.lastOp \in Nat /\ s.lastOp = Len(s.log)
      /\ s.lastCommitted \in Nat /\ s.lastExecuted \in Nat
      /\ s.lastExecuted <= s.lastCommitted
  BY StateFields DEF ReplicaOK, LocalOK, FollowerOK
<1>2. g \in Nat /\ g >= 1
  <2>1. /\ R[Leader].gaps \subseteq 1 .. R[Leader].lastOp
        /\ R[Leader].lastOp \in Nat
    BY ContextFields, StateFields DEF LeaderOK
  <2> QED
    BY <2>1
<1>3. CASE g \in s.gaps
  <2>1. res = Result(s, {})
    BY <1>3, Zenon DEF InstallGap
  <2> HIDE DEF res
  <2>2. Goes(Q, R, X, r, s, res)
    BY <2>1, GoesQuiet
  <2> QED
    BY <1>3, <2>1, <2>2, ResultFields DEF res
<1>4. ASSUME g \notin s.gaps
      PROVE  res = InRow(a, Over(a.st))
  BY <1>4, Zenon DEF InstallGap, Then, InRow
<1>5. /\ ReplicaOK(Q, R, X, r, w) /\ Grows(r, s, w)
      /\ g \in w.gaps /\ w.lastOp = s.lastOp /\ w.failed = s.failed
  <2>1. w = WithGaps(s, GapLog(s, g), s.gaps \cup {g})
    OBVIOUS
  <2> HIDE DEF w
  <2> QED
    BY <2>1, GapLearned
<1>6. ASSUME ~(g <= s.lastOp)
      PROVE  t = w
  <2>1. GapLog(s, g) = s.log
    BY <1>6 DEF GapLog
  <2>2. t = WithGaps(s, s.log, s.gaps \cup {g})
    BY <1>1, StateDomain DEF WithGaps, Fields
  <2> QED
    BY <2>1, <2>2
<1> HIDE DEF res, w
<1>7. CASE g \notin s.gaps /\ s.lastOp + 1 = g
  <2> HIDE DEF t
  <2>1. t = w /\ ReplicaOK(Q, R, X, r, t)
    <3>1. s.lastOp \in Nat /\ s.lastOp + 1 = g
      BY <1>1, <1>7
    <3>2. ~(g <= s.lastOp)
      BY <3>1
    <3> QED
      BY <1>5, <1>6, <3>2
  <2>2. vs.view = 0 /\ vs.sess = 0
    BY <1>1, LastViewstampFields
  <2> HIDE DEF vs
  <2>3. a = ProcessNextOperation(r, t, 0, 0, t.nextMsgnum, NoOp)
    BY <1>7, <2>2
  <2> HIDE DEF a
  <2>4. NextOK(R, Q, r, t, NoOp)
    BY <1>5, <1>7, <2>1, Items DEF NextOK
  <2>5. /\ Goes(Q, R, X, r, t, a) /\ g <= a.st.lastOp
        /\ g \in a.st.gaps
    <3>1. t.failed = NoFailure /\ t.lastOp + 1 = g
      BY <1>5, <1>7, <2>1
    <3> QED
      BY <2>1, <2>3, <2>4, <3>1, ProcessNextOperationGoes
  <2>6. Over(a.st) = Result(a.st, {})
    <3>1. a.st \in State /\ LocalOK(Q, a.st)
      BY <2>5 DEF Goes, ReplicaOK
    <3>2. /\ a.st.lastOp \in Nat /\ Len(a.st.log) = a.st.lastOp
      BY <3>1, StateFields DEF LocalOK
    <3>3. g \in 1 .. a.st.lastOp /\ ~(a.st.lastOp < g) /\ ~(g > Len(a.st.log))
      BY <1>2, <2>5, <3>2
    <3>4. PlaceOK(Q, a.st, g)
      BY <3>1, <3>3 DEF LocalOK
    <3>5. a.st.log[g].req = NoOp
      BY <2>5, <3>4 DEF PlaceOK
    <3> QED
      BY <3>3, <3>5
  <2>7. Goes(Q, R, X, r, a.st, Over(a.st))
    <3>1. ReplicaOK(Q, R, X, r, a.st)
      BY <2>5 DEF Goes
    <3> HIDE DEF Over
    <3> QED
      BY <2>6, <3>1, GoesQuiet
  <2> HIDE DEF Over
  <2>8. /\ Goes(Q, R, X, r, t, res) /\ res.st = Over(a.st).st
    <3>1. t \in State /\ t.failed = NoFailure
      BY <1>5, <2>1 DEF ReplicaOK
    <3> QED
      BY <1>4, <1>7, <2>5, <2>7, <3>1, GoesThen
  <2>9. Goes(Q, R, X, r, s, res)
    <3>1. t \in State /\ Grows(r, s, t) /\ t.failed = s.failed
      BY <1>5, <2>1 DEF ReplicaOK
    <3> QED
      BY <1>1, <2>8, <3>1, GoesFrom
  <2> QED
    BY <2>5, <2>6, <2>8, <2>9, ResultFields DEF res
<1>8. CASE g \notin s.gaps /\ s.lastOp + 1 # g
  <2>1. /\ a = Result(t, {}) /\ a.st = t /\ a.out = {}
    BY <1>8, ResultFields
  <2>2. t.failed = NoFailure /\ t.lastOp = s.lastOp /\ t.log = s.log
        /\ t.lastCommitted = s.lastCommitted /\ t.lastExecuted = s.lastExecuted
    BY <1>1, StateDomain, ZenonT(40) DEF Fields
  <2> HIDE DEF a
  <2>3. Over(t) = Result(w, {})
    <3>1. CASE ~(g <= s.lastOp)
      <4>1. t = w /\ s.lastOp < g
        BY <1>1, <1>2, <1>6, <3>1
      <4> HIDE DEF t
      <4> QED
        BY <2>2, <4>1
    <3>2. CASE g <= s.lastOp
      <4>1. /\ ~(t.lastOp < g) /\ ~(g > Len(t.log))
        BY <1>1, <1>2, <2>2, <3>2
      <4>2. g \in 1 .. s.lastOp
        BY <1>1, <1>2, <3>2
      <4>3. s.log[g].req # NoOp
        BY <1>1, <1>8, <4>2 DEF LocalOK, PlaceOK
      <4>4. ~(s.lastCommitted >= g) /\ ~(s.lastExecuted >= g)
        <5>1. ~(g <= s.lastCommitted)
          BY <1>1, <1>8 DEF FollowerOK, Caught
        <5> QED
          BY <1>1, <1>2, <5>1
      <4>5. [t EXCEPT !.log[g].req = NoOp] = w
        BY <1>1, <3>2, StateDomain DEF w, WithGaps, GapLog, Fields
      <4>6. Over(t) = Result([t EXCEPT !.log[g].req = NoOp], {})
        <5> HIDE DEF t
        <5> QED
          BY <2>2, <4>1, <4>3, <4>4
      <4> QED
        BY <4>5, <4>6
    <3> QED
      BY <3>1, <3>2
  <2>4. res = Result(w, {} \cup {})
    <3> HIDE DEF Over, t
    <3>1. res = InRow(a, Over(t))
      BY <1>4, <1>8, <2>1
    <3>2. Over(t).st = w /\ Over(t).out = {}
      BY <2>3, ResultFields
    <3> QED
      BY <2>1, <2>2, <3>1, <3>2 DEF InRow
  <2>5. res.st = w /\ res.out = {}
    BY <2>4, ResultFields
  <2> QED
    BY <1>5, <2>5 DEF Goes, res
<1> QED
  BY <1>3, <1>7, <1>8

\* A result after which the gaps up to i are known.
Installed(Q, R, X, r, s, gaps, i, res) ==
  /\ res \in Results /\ Goes(Q, R, X, r, s, res)
  /\ \A g \in gaps : g <= i => g \in res.st.gaps

\* InstallCommittedGaps, for gaps of the leader's log.
LEMMA InstallCommittedGapsGoes ==
  ASSUME NEW Q, NEW R, Context(Q, R), NEW X, NEW r \in Replicas, r # Leader,
         NEW s, ReplicaOK(Q, R, X, r, s), s.failed = NoFailure,
         NEW gaps, gaps \subseteq R[Leader].gaps
  PROVE  /\ Goes(Q, R, X, r, s, InstallCommittedGaps(r, s, gaps))
         /\ gaps \subseteq InstallCommittedGaps(r, s, gaps).st.gaps
<1> DEFINE last == Max(gaps \cup {0})
           quiet == Result(s, {})
           n == IF last < 1 THEN 0 ELSE last - 1 + 1
           Install(t, g) == IF g \in gaps THEN InstallGap(r, t, g)
                            ELSE Result(t, {})
           Go(x, i) == Then(x, LAMBDA t : Install(t, 1 + i - 1))
           after[i \in 0 .. n] == IF i = 0 THEN quiet ELSE Go(after[i - 1], i)
           run(f) == [i \in 0 .. n |-> IF i = 0 THEN quiet ELSE Go(f[i - 1], i)]
           S == [i \in 0 .. n |->
                   {x \in Results : Installed(Q, R, X, r, s, gaps, i, x)}]
           h == [i \in 1 .. n |-> [x \in S[i - 1] |-> Go(x, i)]]
<1>1. s \in State
  BY DEF ReplicaOK
<1>2. /\ R[Leader].lastOp \in Nat
      /\ \A g \in gaps : g \in Nat /\ g >= 1 /\ g <= R[Leader].lastOp
  <2>1. /\ R[Leader].gaps \subseteq 1 .. R[Leader].lastOp
        /\ R[Leader].lastOp \in Nat
    BY ContextFields, StateFields DEF LeaderOK
  <2> QED
    BY <2>1
<1>3. last \in Nat /\ \A g \in gaps : g <= last
  <2> DEFINE B == gaps \cup {0}
  <2>1. B \in SUBSET Nat /\ B # {} /\ \A g \in B : g <= R[Leader].lastOp
    BY <1>2
  <2>2. gaps \subseteq B
    OBVIOUS
  <2> HIDE DEF B
  <2>3. Max(B) \in B /\ \A g \in B : g <= Max(B)
    BY <1>2, <2>1, MaxIsLargest
  <2>4. last = Max(B)
    BY DEF B
  <2> HIDE DEF last
  <2> QED
    BY <2>1, <2>2, <2>3, <2>4
<1> HIDE DEF last
<1>4. n \in Nat /\ n = last
  BY <1>3
<1>5. Installed(Q, R, X, r, s, gaps, 0, quiet)
  <2>1. Goes(Q, R, X, r, s, quiet)
    BY GoesQuiet
  <2>2. quiet \in Results
    BY <1>1, ResultFields
  <2>3. \A g \in gaps : ~(g <= 0)
    BY <1>2
  <2> QED
    BY <2>1, <2>2, <2>3 DEF Installed
<1> HIDE DEF quiet
<1>6. ASSUME NEW i \in 1 .. n, NEW x, Installed(Q, R, X, r, s, gaps, i - 1, x)
      PROVE  Installed(Q, R, X, r, s, gaps, i, Go(x, i))
  <2> DEFINE t == x.st
             y == Install(t, 1 + i - 1)
  <2>1. Go(x, i) = InRow(x, y)
    BY Zenon DEF Then, InRow
  <2>2. i \in Nat /\ 1 + i - 1 = i
    BY <1>4
  <2>3. y = IF i \in gaps THEN InstallGap(r, t, i) ELSE Result(t, {})
    BY <2>2
  <2>4. /\ Goes(Q, R, X, r, s, x) /\ ReplicaOK(Q, R, X, r, t)
        /\ t.failed = NoFailure /\ \A g \in gaps : g <= i - 1 => g \in t.gaps
    BY <1>6 DEF Installed, Goes
  <2> HIDE DEF y, Go, Install, t
  <2>5. Goes(Q, R, X, r, t, y) /\ (i \in gaps => i \in y.st.gaps)
    <3>1. CASE i \in gaps
      <4>1. i \in R[Leader].gaps /\ y = InstallGap(r, t, i)
        BY <2>3, <3>1
      <4> QED
        BY <2>4, <4>1, InstallGapGoes
    <3>2. CASE i \notin gaps
      <4>1. y = Result(t, {})
        BY <2>3, <3>2
      <4> QED
        BY <2>4, <3>2, <4>1, GoesQuiet
    <3> QED
      BY <3>1, <3>2
  <2>6. Goes(Q, R, X, r, s, InRow(x, y)) /\ InRow(x, y).st = y.st
    <3>1. Goes(Q, R, X, r, x.st, y)
      BY <2>5 DEF t
    <3> QED
      BY <1>1, <2>4, <3>1, GoesThen
  <2>7. InRow(x, y) \in Results
    <3>1. InRow(x, y) = Result(y.st, x.out \cup y.out)
      BY <2>4 DEF InRow, t
    <3> QED
      BY <2>6, <3>1, GoesResult
  <2>8. ASSUME NEW g \in gaps, g <= i
        PROVE  g \in y.st.gaps
    <3>1. t.gaps \subseteq y.st.gaps
      BY <2>5 DEF Goes, Grows
    <3>2. g = i \/ g <= i - 1
      BY <1>2, <2>2, <2>8
    <3> QED
      BY <2>4, <2>5, <3>1, <3>2
  <2>9. Installed(Q, R, X, r, s, gaps, i, InRow(x, y))
    BY <2>6, <2>7, <2>8 DEF Installed
  <2> QED
    BY <2>1, <2>9
<1> HIDE DEF n, Go
<1>7. \A i \in 0 .. n : \A x : x \in S[i] <=> Installed(Q, R, X, r, s, gaps, i, x)
  BY Zenon DEF S, Installed
<1>8. 0 \in 0 .. n /\ n \in 0 .. n
  BY <1>4
<1>9. ASSUME NEW i \in 1 .. n
      PROVE  i \in 0 .. n /\ i # 0 /\ i - 1 \in 0 .. n
  BY <1>4
<1>10. ASSUME NEW i \in 1 .. n, NEW x \in S[i - 1]
       PROVE  Go(x, i) \in S[i]
  <2> HIDE DEF S
  <2> QED
    BY <1>6, <1>7, <1>9
<1> HIDE DEF S
<1>11. PICK f : IsRun(f, h, n, quiet) /\ \A i \in 0 .. n : f[i] \in S[i]
  <2>1. quiet \in S[0]
    BY <1>5, <1>7, <1>8
  <2>2. IsLoop(h, n, S)
    BY <1>10 DEF IsLoop
  <2> HIDE DEF h
  <2> QED
    BY <1>4, <2>1, <2>2, LoopRuns
<1>12. f = run(f)
  <2> HIDE DEF h
  <2>1. ASSUME NEW i \in 0 .. n, i # 0
        PROVE  h[i][f[i - 1]] = Go(f[i - 1], i)
    <3>1. i \in 1 .. n /\ i - 1 \in 0 .. n
      BY <1>4, <2>1
    <3>2. f[i - 1] \in S[i - 1]
      BY <1>11, <3>1
    <3> QED
      BY <3>1, <3>2 DEF h
  <2> QED
    BY <1>11, <2>1 DEF IsRun
<1>13. after = CHOOSE k : k = run(k)
  BY Zenon DEF after
<1> HIDE DEF after
<1>14. after = run(after)
  <2> HIDE DEF run
  <2> QED
    BY <1>12, <1>13
<1>15. after[n] \in S[n]
  <2>1. after[0] \in S[0]
    BY <1>5, <1>7, <1>8, <1>14
  <2>2. ASSUME NEW i \in 1 .. n, after[i - 1] \in S[i - 1]
        PROVE  after[i] \in S[i]
    <3>1. after[i] = Go(after[i - 1], i)
      BY <1>9, <1>14
    <3> QED
      BY <1>10, <2>2, <3>1
  <2> QED
    BY <1>4, <2>1, <2>2, LoopStays
<1>16. InstallCommittedGaps(r, s, gaps) = after[n]
  BY Zenon DEF InstallCommittedGaps, ForEach, after, Go, n, last, quiet
<1>17. Installed(Q, R, X, r, s, gaps, n, after[n])
  BY <1>7, <1>8, <1>15
<1>18. \A g \in gaps : g <= n
  BY <1>3, <1>4
<1> QED
  BY <1>16, <1>17, <1>18 DEF Installed

-----------------------------------------------------------------------------
(* Client requests.                                                          *)

SameNotes(s, t) ==
  /\ t.status = s.status /\ t.prepared = s.prepared
  /\ t.transferEnd = s.transferEnd /\ t.gapCommits = s.gapCommits
  /\ t.syncReplies = s.syncReplies

\* A replica changes what it waits for.
LEMMA NotedKept ==
  ASSUME NEW Q, NEW R, NEW X, NEW r, NEW s, ReplicaOK(Q, R, X, r, s),
         NEW t \in State, SameCore(s, t), SameNotes(s, t), t.pending \subseteq Q,
         t.startGap \/ t.gapRequest => s.lastOp + 1 < MaxMsg,
         r = Leader /\ s.status = "gapcommit" => ~t.startGap /\ ~t.gapRequest
  PROVE  ReplicaOK(Q, R, X, r, t) /\ Grows(r, s, t)
<1>1. s \in State /\ LocalOK(Q, s)
  BY DEF ReplicaOK
<1>2. /\ t.status = s.status /\ t.prepared = s.prepared
      /\ t.transferEnd = s.transferEnd /\ t.gapCommits = s.gapCommits
      /\ t.syncReplies = s.syncReplies
  BY DEF SameNotes
<1>3. CASE r = Leader
  <2>1. LeaderOK(R, s)
    BY <1>3 DEF ReplicaOK
  <2>2. /\ t.transferEnd = 0
        /\ \A g \in s.gaps : \/ Cardinality(Holding(R, g)) >= F
                             \/ t.status = "gapcommit" /\ g = s.lastOp
        /\ t.status = "gapcommit" =>
             /\ ~t.startGap /\ ~t.gapRequest
             /\ t.gapCommits \subseteq Holding(R, s.lastOp)
        /\ \A x \in t.syncReplies : x.from \in Reaching(s, R, x.point)
    BY <1>2, <1>3, <2>1 DEF LeaderOK
  <2> QED
    BY <1>3, <2>2, LeaderKept
<1>4. CASE r # Leader
  <2>1. FollowerOK(R[Leader], X, s)
    BY <1>4 DEF ReplicaOK
  <2>2. /\ \A p \in t.prepared \ X : Caught(R[Leader], s, p)
        /\ t.transferEnd > 0 => Caught(R[Leader], s, t.transferEnd - 1)
    BY <1>2, <2>1 DEF FollowerOK
  <2> QED
    BY <1>2, <1>4, <2>2, FollowerKept
<1> QED
  BY <1>3, <1>4

\* The requests that wait.
Waiting(s, P) == [s EXCEPT !.pending = P]

\* A change of what is pending gives a state again.
LEMMA WaitingState ==
  ASSUME NEW s \in State, NEW P \in SUBSET RequestType
  PROVE  Waiting(s, P) \in State
BY ZenonT(40) DEF Waiting, State

\* Any stamped requests may be what is pending.
LEMMA PendingKept ==
  ASSUME NEW Q, NEW R, NEW X, NEW r, NEW s, ReplicaOK(Q, R, X, r, s),
         Q \subseteq RequestType, NEW P, P \subseteq Q,
         NEW t, t = Waiting(s, P)
  PROVE  Goes(Q, R, X, r, s, Result(t, {}))
<1>1. s \in State /\ LocalOK(Q, s)
  BY DEF ReplicaOK
<1>2. P \in SUBSET RequestType
  OBVIOUS
<1>3. t \in State
  BY <1>1, <1>2, WaitingState
<1>4. /\ SameCore(s, t) /\ SameNotes(s, t) /\ t.pending = P
      /\ t.startGap = s.startGap /\ t.gapRequest = s.gapRequest
      /\ t.failed = s.failed
  BY <1>1, StateDomain, ZenonT(40) DEF Waiting, Fields, SameCore, SameNotes
<1>5. /\ t.startGap \/ t.gapRequest => s.lastOp + 1 < MaxMsg
      /\ r = Leader /\ s.status = "gapcommit" => ~t.startGap /\ ~t.gapRequest
  BY <1>1, <1>4 DEF LocalOK, ReplicaOK, LeaderOK
<1>6. ReplicaOK(Q, R, X, r, t) /\ Grows(r, s, t)
  BY <1>3, <1>4, <1>5, NotedKept
<1>7. Result(t, {}).st = t /\ Result(t, {}).out = {}
  BY ResultFields
<1> QED
  BY <1>4, <1>6, <1>7 DEF Goes

\* The requests that wait, changed after a result.
LEMMA PendingAfter ==
  ASSUME NEW Q, NEW R, Context(Q, R), NEW X, NEW r \in Replicas,
         NEW s \in State, NEW b, Goes(Q, R, X, r, s, b), NEW P, P \subseteq Q
  PROVE  Goes(Q, R, X, r, s, Result(Waiting(b.st, P), b.out))
<1> DEFINE left == Waiting(b.st, P)
           d == Result(left, {})
<1>1. ReplicaOK(Q, R, X, r, b.st) /\ Q \subseteq RequestType
  BY ContextFields DEF Goes
<1> HIDE DEF left
<1>2. Goes(Q, R, X, r, b.st, d)
  BY <1>1, PendingKept DEF left
<1>3. d.st = left /\ b.out \cup d.out = b.out
  BY ResultFields
<1> HIDE DEF d
<1>4. Goes(Q, R, X, r, s, Result(d.st, b.out \cup d.out))
  BY <1>2, GoesOn
<1> QED
  BY <1>3, <1>4 DEF left

\* TryProcessClientRequest.
LEMMA TryProcessGoes ==
  ASSUME NEW Q, NEW R, Context(Q, R), NEW X, NEW r \in Replicas,
         NEW s, ReplicaOK(Q, R, X, r, s), s.failed = NoFailure, NEW m \in Q
  PROVE  /\ TryProcessClientRequest(r, s, m).done \in BOOLEAN
         /\ Goes(Q, R, X, r, s, TryProcessClientRequest(r, s, m).res)
<1> DEFINE try == TryProcessClientRequest(r, s, m)
           Tried(done, res) == [done |-> done, res |-> res]
           t == [s EXCEPT !.startGap = @ \/ ~s.gapRequest]
           p == ProcessNextOperation(r, s, s.view, m.sess, m.num, m.req)
<1>1. /\ s \in State /\ s.view = 0 /\ s.sess = 0 /\ s.lastOp \in Nat
      /\ s.nextMsgnum = s.lastOp + 1 /\ LocalOK(Q, s)
  BY StateFields DEF ReplicaOK, LocalOK
<1>2. m \in RequestType
  BY ContextFields
<1>3. /\ m.sess = 0 /\ m.num \in 1 .. MaxMsg /\ m.req \in Req
      /\ m = RequestMessage(0, m.num, m.req)
      /\ ~(m.sess < s.sess) /\ ~(m.sess > s.sess)
  BY <1>1, <1>2 DEF RequestType, RequestMessage
<1>4. /\ Goes(Q, R, X, r, s, Result(s, {}))
  BY GoesQuiet
<1>5. CASE s.status # "normal"
  <2>1. try = Tried(FALSE, Result(s, {}))
    BY <1>5 DEF TryProcessClientRequest
  <2> HIDE DEF try
  <2> QED
    BY <1>4, <2>1 DEF try
<1>6. CASE s.status = "normal" /\ m.num < s.nextMsgnum
  <2>1. try = Tried(TRUE, Result(s, {}))
    BY <1>1, <1>3, <1>6 DEF TryProcessClientRequest
  <2> HIDE DEF try
  <2> QED
    BY <1>4, <2>1 DEF try
<1>7. CASE s.status = "normal" /\ m.num > s.nextMsgnum
  <2>1. ~(m.num < s.nextMsgnum) /\ s.lastOp + 1 < MaxMsg
    BY <1>1, <1>3, <1>7, Constants
  <2>2. try = Tried(FALSE, Result(t, {}))
    BY <1>3, <1>7, <2>1, Zenon DEF TryProcessClientRequest
  <2> HIDE DEF try
  <2>3. t \in State
    <3>1. (s.startGap \/ ~s.gapRequest) \in BOOLEAN
      BY Zenon
    <3> QED
      BY <1>1, <3>1, ZenonT(40) DEF State
  <2>4. /\ SameCore(s, t) /\ SameNotes(s, t) /\ t.pending = s.pending
        /\ t.failed = s.failed
    BY <1>1, StateDomain, ZenonT(40) DEF Fields, SameCore, SameNotes
  <2> HIDE DEF t
  <2>5. t.pending \subseteq Q /\ s.status # "gapcommit"
    BY <1>1, <1>7, <2>4 DEF LocalOK
  <2>6. ReplicaOK(Q, R, X, r, t) /\ Grows(r, s, t)
    BY <2>1, <2>3, <2>4, <2>5, NotedKept
  <2>7. Result(t, {}).st = t /\ Result(t, {}).out = {}
    BY ResultFields
  <2>8. Goes(Q, R, X, r, s, Result(t, {}))
    BY <2>4, <2>6, <2>7 DEF Goes
  <2> QED
    BY <2>2, <2>8 DEF try
<1>8. CASE s.status = "normal" /\ m.num = s.nextMsgnum
  <2>1. ~(m.num < s.nextMsgnum) /\ ~(m.num > s.nextMsgnum)
    BY <1>1, <1>3, <1>8
  <2>2. try = Tried(TRUE, p)
    BY <1>3, <1>8, <2>1, Zenon DEF TryProcessClientRequest
  <2> HIDE DEF try
  <2>3. p = ProcessNextOperation(r, s, 0, 0, m.num, m.req)
    BY <1>1, <1>3
  <2> HIDE DEF p
  <2>4. m.req \in Item /\ m.req # NoOp
    BY <1>3, Items DEF Item
  <2>5. RequestMessage(0, s.lastOp + 1, m.req) \in Q
    BY <1>1, <1>3, <1>8
  <2>6. NextOK(R, Q, r, s, m.req)
    BY <1>8, <2>4, <2>5 DEF NextOK
  <2>7. Goes(Q, R, X, r, s, p)
    BY <1>8, <2>3, <2>6, ProcessNextOperationGoes
  <2> QED
    BY <2>2, <2>7 DEF try
<1>9. m.num < s.nextMsgnum \/ m.num > s.nextMsgnum \/ m.num = s.nextMsgnum
  BY <1>1, <1>3
<1> QED
  BY <1>5, <1>6, <1>7, <1>8, <1>9

\* A state of the loop of ProcessPendingRequests.
Accepting(Q, R, X, r, s, acc) ==
  /\ acc \in [stop : BOOLEAN, res : Results]
  /\ Goes(Q, R, X, r, s, acc.res)

\* One pending request more is tried.
LEMMA SettleGoes ==
  ASSUME NEW Q, NEW R, Context(Q, R), NEW X, NEW r \in Replicas,
         NEW s, ReplicaOK(Q, R, X, r, s), s.failed = NoFailure,
         NEW acc, Accepting(Q, R, X, r, s, acc), NEW m \in Q,
         NEW try, try = TryProcessClientRequest(r, acc.res.st, m),
         NEW left, left = Waiting(try.res.st, try.res.st.pending \ {m}),
         NEW res, res = Result(IF try.done THEN left ELSE try.res.st,
                               acc.res.out \cup try.res.out)
  PROVE  Accepting(Q, R, X, r, s, [stop |-> ~try.done, res |-> res])
<1> DEFINE a == acc.res
           b == try.res
           c == Result(b.st, a.out \cup b.out)
<1>1. /\ s \in State /\ Goes(Q, R, X, r, s, a) /\ ReplicaOK(Q, R, X, r, a.st)
      /\ a.st.failed = NoFailure
  BY DEF ReplicaOK, Accepting, Goes
<1>2. try.done \in BOOLEAN /\ Goes(Q, R, X, r, a.st, b)
  BY <1>1, TryProcessGoes
<1> HIDE DEF a, b
<1>3. Goes(Q, R, X, r, s, c)
  BY <1>1, <1>2, GoesOn
<1>4. c.st = b.st /\ c.out = a.out \cup b.out
  BY ResultFields
<1> HIDE DEF c
<1>5. ReplicaOK(Q, R, X, r, b.st) /\ b.st.pending \subseteq Q
  BY <1>2 DEF Goes, ReplicaOK, LocalOK
<1>6. b.st.pending \ {m} \subseteq Q /\ left = Waiting(c.st, b.st.pending \ {m})
  BY <1>4, <1>5 DEF b
<1>7. Goes(Q, R, X, r, s, Result(left, c.out))
  BY <1>1, <1>3, <1>6, PendingAfter
<1>8. Goes(Q, R, X, r, s, res)
  <2>1. res = Result(IF try.done THEN left ELSE b.st, c.out)
    BY <1>4 DEF a, b
  <2>2. c = Result(b.st, c.out)
    BY <1>4 DEF c
  <2>3. CASE try.done
    BY <1>7, <2>1, <2>3
  <2>4. CASE ~try.done
    BY <1>3, <2>1, <2>2, <2>4
  <2> QED
    BY <2>3, <2>4
<1>9. res \in Results
  BY <1>8, GoesResult
<1> QED
  BY <1>2, <1>8, <1>9 DEF Accepting

\* ProcessPendingRequests.
LEMMA ProcessPendingGoes ==
  ASSUME NEW Q, NEW R, Context(Q, R), NEW X, NEW r \in Replicas,
         NEW s, ReplicaOK(Q, R, X, r, s), s.failed = NoFailure,
         NEW order \in PendingOrders(s)
  PROVE  Goes(Q, R, X, r, s, ProcessPendingRequests(r, s, order))
<1> DEFINE n == Len(order)
           begin == [stop |-> FALSE, res |-> Result(s, {})]
           Settle(res, m, try) ==
             LET left == [try.res.st EXCEPT !.pending = @ \ {m}]
             IN  [stop |-> ~try.done,
                  res |-> Result(IF try.done THEN left ELSE try.res.st,
                                 res.out \cup try.res.out)]
           Go(acc, i) ==
             IF acc.stop \/ acc.res.st.failed # NoFailure THEN acc
             ELSE Settle(acc.res, order[i],
                         TryProcessClientRequest(r, acc.res.st, order[i]))
           after[i \in 0 .. n] == IF i = 0 THEN begin ELSE Go(after[i - 1], i)
           run(f) == [i \in 0 .. n |-> IF i = 0 THEN begin ELSE Go(f[i - 1], i)]
           D == {acc \in [stop : BOOLEAN, res : Results] :
                   Accepting(Q, R, X, r, s, acc)}
           S == [i \in 0 .. n |-> D]
           g == [i \in 1 .. n |-> [x \in D |-> Go(x, i)]]
<1>1. s \in State /\ s.pending \subseteq Q
  BY DEF ReplicaOK, LocalOK
<1>2. n \in Nat /\ \A i \in 1 .. n : order[i] \in Q
  <2> DEFINE k == Cardinality(s.pending)
  <2>1. k \in Nat
    BY <1>1, ContextFields, FS_Subset, FS_CardinalityType
  <2> HIDE DEF k
  <2>2. order \in [1 .. k -> s.pending]
    BY DEF PendingOrders, k
  <2>3. order \in Seq(s.pending)
    BY <2>1, <2>2
  <2>4. n \in Nat /\ DOMAIN order = 1 .. n
    BY <2>3, LenProperties
  <2> QED
    BY <1>1, <2>2, <2>4
<1> HIDE DEF n
<1>3. begin \in D
  <2>1. Goes(Q, R, X, r, s, Result(s, {})) /\ Result(s, {}) \in Results
    BY <1>1, GoesQuiet, ResultFields
  <2> QED
    BY <2>1 DEF Accepting
<1>4. ASSUME NEW i \in 1 .. n, NEW x \in D
      PROVE  Go(x, i) \in D
  <2> DEFINE m == order[i]
             try == TryProcessClientRequest(r, x.res.st, m)
             left == Waiting(try.res.st, try.res.st.pending \ {m})
             res == Result(IF try.done THEN left ELSE try.res.st,
                           x.res.out \cup try.res.out)
  <2>1. Go(x, i) = IF x.stop \/ x.res.st.failed # NoFailure THEN x
                   ELSE [stop |-> ~try.done, res |-> res]
    BY Zenon DEF Waiting
  <2>2. m \in Q
    BY <1>2
  <2> HIDE DEF Go, res, left, try, m
  <2>3. Accepting(Q, R, X, r, s, [stop |-> ~try.done, res |-> res])
    BY <2>2, SettleGoes DEF res, left, try
  <2> QED
    BY <2>1, <2>3 DEF Accepting
<1> HIDE DEF begin, D, Go
<1>5. PICK f : IsRun(f, g, n, begin) /\ \A i \in 0 .. n : f[i] \in S[i]
  <2>1. n \in Nat /\ begin \in S[0] /\ IsLoop(g, n, S)
    BY <1>2, <1>3, <1>4 DEF IsLoop
  <2> HIDE DEF S, g
  <2> QED
    BY <2>1, LoopRuns
<1>6. f = run(f)
  <2> HIDE DEF g
  <2>1. ASSUME NEW i \in 0 .. n, i # 0
        PROVE  g[i][f[i - 1]] = Go(f[i - 1], i)
    <3>1. i \in 1 .. n /\ i - 1 \in 0 .. n
      BY <1>2, <2>1
    <3>2. f[i - 1] \in D
      BY <1>5, <3>1
    <3> QED
      BY <3>1, <3>2 DEF g
  <2> QED
    BY <1>5, <2>1 DEF IsRun
<1>7. after = CHOOSE h : h = run(h)
  BY Zenon DEF after
<1> HIDE DEF after
<1>8. after = run(after)
  <2> HIDE DEF run
  <2> QED
    BY <1>6, <1>7
<1>9. after[n] \in D
  <2>1. after[0] \in S[0]
    BY <1>2, <1>3, <1>8
  <2>2. ASSUME NEW i \in 1 .. n, after[i - 1] \in S[i - 1]
        PROVE  after[i] \in S[i]
    <3>1. i \in 0 .. n /\ i # 0 /\ i - 1 \in 0 .. n
      BY <1>2
    <3>2. after[i] = Go(after[i - 1], i)
      BY <1>8, <3>1
    <3> QED
      BY <1>4, <2>2, <3>1, <3>2
  <2>3. after[n] \in S[n]
    <3> HIDE DEF S
    <3> QED
      BY <1>2, <2>1, <2>2, LoopStays
  <2> QED
    BY <1>2, <2>3
<1>10. ProcessPendingRequests(r, s, order) = after[n].res
  BY Zenon DEF ProcessPendingRequests, after, Go, n, begin
<1> QED
  BY <1>9, <1>10 DEF D, Accepting

-----------------------------------------------------------------------------
(* The handlers.  R are the replicas' states before one.                     *)

\* A result that leaves r in order, and may abort it.
Ends(Q, R, r, s, res) ==
  /\ ReplicaOK(Q, R, {}, r, res.st) /\ Grows(r, s, res.st)
  /\ \A m \in res.out : Says(Q, R, r, res.st, m)

\* A handler that has gone well so far may end there.
LEMMA GoesEnds ==
  ASSUME NEW Q, NEW R, NEW r, NEW s, NEW res, Goes(Q, R, {}, r, s, res)
  PROVE  Ends(Q, R, r, s, res)
BY DEF Goes, Ends

\* A result, and one that does not abort, in a row.
LEMMA EndsOn ==
  ASSUME NEW Q, NEW R, Context(Q, R), NEW r \in Replicas,
         NEW s \in State, NEW a, Ends(Q, R, r, s, a),
         NEW b, a.st.failed = NoFailure => Ends(Q, R, r, a.st, b)
  PROVE  Ends(Q, R, r, s, InRow(a, b))
<1>1. CASE a.st.failed # NoFailure
  BY <1>1 DEF InRow
<1>2. CASE a.st.failed = NoFailure
  <2> DEFINE c == Result(b.st, a.out \cup b.out)
  <2>1. InRow(a, b) = c /\ c.st = b.st /\ c.out = a.out \cup b.out
    BY <1>2, ResultFields DEF InRow
  <2>2. /\ a.st \in State /\ b.st \in State /\ ReplicaOK(Q, R, {}, r, b.st)
        /\ Grows(r, s, a.st) /\ Grows(r, a.st, b.st)
    BY <1>2 DEF Ends, ReplicaOK
  <2>3. Grows(r, s, b.st)
    BY <2>2, GrowsTransitive
  <2>4. ASSUME NEW m \in a.out
        PROVE  Says(Q, R, r, b.st, m)
    BY <2>2, SaysStays DEF Ends
  <2>5. ASSUME NEW m \in b.out
        PROVE  Says(Q, R, r, b.st, m)
    BY <1>2 DEF Ends
  <2> HIDE DEF c
  <2>6. \A m \in c.out : Says(Q, R, r, c.st, m)
    BY <2>1, <2>4, <2>5
  <2> QED
    BY <2>1, <2>2, <2>3, <2>6 DEF Ends
<1> QED
  BY <1>1, <1>2

\* The pending requests after a handler.
Resumed(r, res, order) ==
  Then(res, LAMBDA t : ProcessPendingRequests(r, t, order))

\* ProcessPendingRequests ends a handler well.
LEMMA PendingEnds ==
  ASSUME NEW Q, NEW R, Context(Q, R), NEW r \in Replicas,
         NEW s \in State, NEW a, Ends(Q, R, r, s, a),
         NEW order \in PendingOrders(a.st)
  PROVE  Ends(Q, R, r, s, Resumed(r, a, order))
<1> DEFINE b == ProcessPendingRequests(r, a.st, order)
<1>1. Resumed(r, a, order) = InRow(a, b)
  BY Zenon DEF Resumed, Then, InRow
<1>2. ASSUME a.st.failed = NoFailure
      PROVE  Ends(Q, R, r, a.st, b)
  <2>1. ReplicaOK(Q, R, {}, r, a.st)
    BY DEF Ends
  <2>2. Goes(Q, R, {}, r, a.st, b)
    BY <1>2, <2>1, ProcessPendingGoes
  <2> HIDE DEF b
  <2> QED
    BY <2>2, GoesEnds
<1> HIDE DEF b
<1>3. Ends(Q, R, r, s, InRow(a, b))
  BY <1>2, EndsOn
<1> QED
  BY <1>1, <1>3

\* A replica before a handler.
LEMMA Ready ==
  ASSUME NEW Q, NEW R, Context(Q, R), NEW r \in Replicas
  PROVE  /\ R[r] \in State /\ ReplicaOK(Q, R, {}, r, R[r])
         /\ LeadOf(R, r, R[r]) = R[Leader]
         /\ LocalOK(Q, R[r]) /\ R[r].sess = 0 /\ R[r].view = 0
         /\ R[r].lastOp \in Nat /\ R[r].lastOp = Len(R[r].log)
         /\ R[r].nextMsgnum = R[r].lastOp + 1
         /\ (AmLeader(r, R[r]) <=> r = Leader)
<1>1. /\ R[r] \in State /\ ReplicaOK(Q, R, {}, r, R[r])
      /\ LeadOf(R, r, R[r]) = R[Leader]
  <2>1. CASE r = Leader
    BY <2>1, ContextFields DEF ReplicaOK, LeadOf
  <2>2. CASE r # Leader
    <3>1. r \in Followers
      BY <2>2, Constants
    <3> QED
      BY <2>2, <3>1, ContextFields DEF ReplicaOK, LeadOf
  <2> QED
    BY <2>1, <2>2
<1>2. R[r] \in State /\ LocalOK(Q, R[r])
  BY <1>1 DEF ReplicaOK
<1>3. R[r].sess = 0 /\ R[r].view = 0 /\ R[r].lastOp \in Nat
  BY <1>2, StateFields
<1>4. R[r].lastOp = Len(R[r].log) /\ R[r].nextMsgnum = R[r].lastOp + 1
  BY <1>2 DEF LocalOK
<1>5. AmLeader(r, R[r]) <=> r = Leader
  BY <1>3, Constants DEF AmLeader
<1> QED
  BY <1>1, <1>2, <1>3, <1>4, <1>5

\* In the first view CheckViewNumAndStatus always lets a message through.
LEMMA CheckedPasses ==
  ASSUME NEW s \in State, NEW m, m.sess = 0, m.view = 0
  PROVE  m.sess = s.sess /\ m.view = s.view /\ s.status # "viewchange"
BY StateFields

\* HandleClientRequest before the pending requests.
Heard(r, s, m) ==
  LET t == [s EXCEPT !.addrs = @ \cup {m.req.client}]
      try == TryProcessClientRequest(r, t, m)
  IN  IF try.done THEN try.res
      ELSE Result(Waiting(try.res.st, try.res.st.pending \cup {m}), try.res.out)

\* A request that the sequencer stamped goes on well.
LEMMA HeardGoes ==
  ASSUME NEW Q, NEW R, Context(Q, R), NEW r \in Replicas,
         R[r].failed = NoFailure, NEW m \in Q
  PROVE  Goes(Q, R, {}, r, R[r], Heard(r, R[r], m))
<1> DEFINE s == R[r]
           t == [s EXCEPT !.addrs = @ \cup {m.req.client}]
           try == TryProcessClientRequest(r, t, m)
           b == try.res
           P == b.st.pending \cup {m}
<1>1. s \in State /\ ReplicaOK(Q, R, {}, r, s) /\ LocalOK(Q, s)
  BY Ready
<1>2. m.req.client \in Clients /\ Q \subseteq RequestType
  <2>1. m \in RequestType /\ Q \subseteq RequestType
    BY ContextFields
  <2> QED
    BY <2>1, Items DEF RequestType
<1> HIDE DEF s
<1>3. t \in State
  <2>1. s.addrs \cup {m.req.client} \in SUBSET Clients
    BY <1>1, <1>2, StateFields
  <2> QED
    BY <1>1, <2>1, ZenonT(40) DEF State
<1>4. /\ SameCore(s, t) /\ SameNotes(s, t) /\ t.pending = s.pending
      /\ t.startGap = s.startGap /\ t.gapRequest = s.gapRequest
      /\ t.failed = s.failed
  BY <1>1, StateDomain, ZenonT(40) DEF Fields, SameCore, SameNotes
<1> HIDE DEF t
<1>5. /\ t.pending \subseteq Q
      /\ t.startGap \/ t.gapRequest => s.lastOp + 1 < MaxMsg
      /\ r = Leader /\ s.status = "gapcommit" => ~t.startGap /\ ~t.gapRequest
  BY <1>1, <1>4 DEF LocalOK, ReplicaOK, LeaderOK
<1>6. ReplicaOK(Q, R, {}, r, t) /\ Grows(r, s, t)
  BY <1>1, <1>3, <1>4, <1>5, NotedKept
<1>7. t.failed = NoFailure
  BY <1>4 DEF s
<1>8. Goes(Q, R, {}, r, t, b)
  BY <1>6, <1>7, TryProcessGoes
<1> HIDE DEF b
<1>9. Goes(Q, R, {}, r, s, b)
  BY <1>1, <1>3, <1>4, <1>6, <1>8, GoesFrom
<1>10. P \subseteq Q
  BY <1>9 DEF Goes, ReplicaOK, LocalOK
<1> HIDE DEF P
<1>11. Goes(Q, R, {}, r, s, Result(Waiting(b.st, P), b.out))
  BY <1>1, <1>9, <1>10, PendingAfter
<1>12. Heard(r, s, m) = IF try.done THEN b ELSE Result(Waiting(b.st, P), b.out)
  BY Zenon DEF Heard, t, b, P
<1>13. Goes(Q, R, {}, r, s, Heard(r, s, m))
  <2> HIDE DEF try
  <2> QED
    BY <1>9, <1>11, <1>12
<1> QED
  BY <1>13 DEF s

-----------------------------------------------------------------------------
(* Gaps.                                                                     *)

\* The answer of HandleGapRequest.
Answered(r, s, m) ==
  IF m.opnum <= Len(s.log)
  THEN Result(s, {GapReplyMessage(s, m.opnum, TRUE, s.log[m.opnum].req, r,
                                  m.from)})
  ELSE IF s.gapRequest /\ s.lastOp + 1 = m.opnum
  THEN Result(s, {GapReplyMessage(s, m.opnum, FALSE, NoOp, r, m.from)})
  ELSE Result(s, {})

\* The answer to a GapRequest goes well.
LEMMA AnsweredGoes ==
  ASSUME NEW Q, NEW R, Context(Q, R), NEW r \in Replicas, NEW m \in GapRequestType
  PROVE  Goes(Q, R, {}, r, R[r], Answered(r, R[r], m))
<1> DEFINE s == R[r]
           op == m.opnum
           q == s.log[op].req
           yes == GapReplyMessage(s, op, TRUE, q, r, m.from)
           no == GapReplyMessage(s, op, FALSE, NoOp, r, m.from)
<1>1. /\ s \in State /\ ReplicaOK(Q, R, {}, r, s) /\ LocalOK(Q, s)
      /\ LeadOf(R, r, s) = R[Leader] /\ s.sess = 0 /\ s.view = 0
      /\ s.lastOp = Len(s.log) /\ s.lastOp \in Nat
  BY Ready
<1>2. op \in 1 .. (MaxMsg - 1) /\ m.from \in Replicas /\ op \in Nat
  BY Constants DEF GapRequestType
<1> HIDE DEF s, op
<1>3. CASE op <= Len(s.log)
  <2>1. op \in 1 .. s.lastOp
    BY <1>1, <1>2, <1>3, Constants
  <2>2. q \in Item /\ PlaceOK(Q, s, op)
    BY <1>1, <2>1, EntryFields DEF LocalOK
  <2> HIDE DEF q
  <2>3. yes = [type |-> "GapReply", sess |-> 0, view |-> 0, opnum |-> op,
               isfound |-> TRUE, req |-> q, from |-> r, to |-> m.from]
    BY <1>1 DEF GapReplyMessage
  <2> HIDE DEF yes
  <2>4. /\ yes \in GapReplyType /\ yes.type = "GapReply" /\ yes.opnum = op
        /\ yes.req = q
    BY <1>2, <2>2, <2>3 DEF GapReplyType
  <2>5. q = NoOp => op \in R[Leader].gaps
    <3>1. q = NoOp => op \in s.gaps
      BY <2>2 DEF PlaceOK, q
    <3>2. s.gaps \subseteq R[Leader].gaps
      <4>1. CASE r = Leader
        BY <4>1 DEF s
      <4>2. CASE r # Leader
        BY <1>1, <4>2 DEF ReplicaOK, FollowerOK
      <4> QED
        BY <4>1, <4>2
    <3> QED
      BY <3>1, <3>2
  <2>6. q # NoOp => RequestMessage(0, op, q) \in Q
    BY <2>2 DEF PlaceOK, q
  <2>7. MessageTrue(Q, R[Leader], s, yes)
    BY <2>4, <2>5, <2>6 DEF MessageTrue
  <2>8. Says(Q, R, r, s, yes)
    BY <1>1, <2>4, <2>7 DEF Says, AboutSender, Message
  <2>9. Answered(r, s, m) = Result(s, {yes})
    BY <1>3 DEF Answered, yes, q, op
  <2>10. Goes(Q, R, {}, r, s, Answered(r, s, m))
    BY <1>1, <2>8, <2>9, GoesSending
  <2> QED
    BY <2>10 DEF s
<1>4. CASE ~(op <= Len(s.log)) /\ s.gapRequest /\ s.lastOp + 1 = op
  <2>1. no = [type |-> "GapReply", sess |-> 0, view |-> 0, opnum |-> op,
              isfound |-> FALSE, req |-> NoOp, from |-> r, to |-> m.from]
    BY <1>1 DEF GapReplyMessage
  <2> HIDE DEF no
  <2>2. no \in GapReplyType /\ no.type = "GapReply" /\ no.isfound = FALSE
    BY <1>2, <2>1, Items DEF GapReplyType
  <2>3. MessageTrue(Q, R[Leader], s, no)
    BY <2>2 DEF MessageTrue
  <2>4. Says(Q, R, r, s, no)
    BY <1>1, <2>2, <2>3 DEF Says, AboutSender, Message
  <2>5. Answered(r, s, m) = Result(s, {no})
    BY <1>4 DEF Answered, no, op
  <2>6. Goes(Q, R, {}, r, s, Answered(r, s, m))
    BY <1>1, <2>4, <2>5, GoesSending
  <2> QED
    BY <2>6 DEF s
<1>5. CASE ~(op <= Len(s.log)) /\ ~(s.gapRequest /\ s.lastOp + 1 = op)
  <2>1. Answered(r, s, m) = Result(s, {})
    BY <1>5 DEF Answered, op
  <2>2. Goes(Q, R, {}, r, s, Answered(r, s, m))
    BY <1>1, <2>1, GoesQuiet
  <2> QED
    BY <2>2 DEF s
<1> QED
  BY <1>3, <1>4, <1>5

\* The state in which the leader proposes a gap.
Proposing(s) ==
  [s EXCEPT !.startGap = FALSE, !.gapReplies = {}, !.gapRequest = FALSE,
            !.status = "gapcommit", !.gapCommits = {}]

\* A proposal of a gap gives a state again.
LEMMA ProposingState ==
  ASSUME NEW s \in State
  PROVE  Proposing(s) \in State
BY ZenonT(40) DEF Proposing, State

\* The fields a proposal of a gap leaves alone.
LEMMA ProposingFields ==
  ASSUME NEW s \in State
  PROVE  /\ Proposing(s) \in State /\ SameCore(s, Proposing(s))
         /\ Proposing(s).pending = s.pending
         /\ ~Proposing(s).startGap /\ ~Proposing(s).gapRequest
         /\ Proposing(s).status = "gapcommit" /\ Proposing(s).gapCommits = {}
         /\ Proposing(s).syncReplies = s.syncReplies
         /\ Proposing(s).transferEnd = s.transferEnd
<1> DEFINE t == Proposing(s)
<1>1. t \in State
  BY ProposingState
<1>2. /\ SameCore(s, t) /\ t.pending = s.pending
      /\ t.startGap = FALSE /\ t.gapRequest = FALSE
      /\ t.status = "gapcommit" /\ t.gapCommits = {}
      /\ t.syncReplies = s.syncReplies /\ t.transferEnd = s.transferEnd
  BY StateDomain, ZenonT(40) DEF Proposing, Fields, SameCore
<1> QED
  BY <1>1, <1>2

\* StartGapAgreement, at a leader that agrees on no other gap.
LEMMA StartGapAgreementGoes ==
  ASSUME NEW Q, NEW R, Context(Q, R),
         NEW s, ReplicaOK(Q, R, {}, Leader, s), s.failed = NoFailure,
         s.status = "normal", s.lastOp + 1 <= MaxMsg
  PROVE  Goes(Q, R, {}, Leader, s, StartGapAgreement(Leader, s))
<1> DEFINE t == Proposing(s)
           a == ProcessNextOperation(Leader, t, s.view, s.sess, s.nextMsgnum,
                                     NoOp)
           u == a.st
           commit == GapCommitMessage(u, Leader)
           b == Result(u, {commit})
           res == StartGapAgreement(Leader, s)
<1>1. /\ s \in State /\ s.view = 0 /\ s.sess = 0 /\ LocalOK(Q, s)
      /\ LeaderOK(R, s) /\ s.lastOp \in Nat /\ Leader \in Replicas
  BY StateFields, Constants DEF ReplicaOK
<1>2. /\ t \in State /\ SameCore(s, t) /\ t.pending = s.pending
      /\ ~t.startGap /\ ~t.gapRequest /\ t.status = "gapcommit"
      /\ t.gapCommits = {} /\ t.syncReplies = s.syncReplies
      /\ t.transferEnd = s.transferEnd
  BY <1>1, ProposingFields
<1>3. AmLeader(Leader, s)
  BY <1>1, Constants DEF AmLeader
<1>4. res = InRow(a, b)
  BY <1>3, Zenon DEF StartGapAgreement, Proposing, Then, InRow
<1> HIDE DEF t, res
<1>5. /\ t.pending \subseteq Q /\ t.transferEnd = 0
      /\ \A g \in s.gaps : Cardinality(Holding(R, g)) >= F
      /\ \A x \in t.syncReplies : x.from \in Reaching(s, R, x.point)
  BY <1>1, <1>2 DEF LocalOK, LeaderOK
<1>6. ReplicaOK(Q, R, {}, Leader, t) /\ Grows(Leader, s, t)
  BY <1>2, <1>5, LeaderKept
<1>7. /\ t.failed = NoFailure /\ t.failed = s.failed /\ t.lastOp = s.lastOp
      /\ t.gaps = s.gaps /\ s.nextMsgnum = t.nextMsgnum
  BY <1>2 DEF SameCore
<1>8. NextOK(R, Q, Leader, t, NoOp)
  BY <1>2, <1>5, <1>7, Items DEF NextOK
<1>9. /\ Goes(Q, R, {}, Leader, t, a)
      /\ u.lastOp = t.lastOp + 1 /\ t.lastOp + 1 \in u.gaps
  <2>1. a = ProcessNextOperation(Leader, t, 0, 0, s.nextMsgnum, NoOp)
    BY <1>1
  <2> HIDE DEF a
  <2> QED
    BY <1>1, <1>6, <1>7, <1>8, <2>1, ProcessNextOperationGoes
<1> HIDE DEF a
<1>10. Says(Q, R, Leader, u, commit)
  <2>1. ReplicaOK(Q, R, {}, Leader, u) /\ u \in State
    BY <1>9 DEF Goes, ReplicaOK
  <2>2. u.sess = 0 /\ u.view = 0 /\ u.lastOp \in Nat
    BY <2>1, StateFields
  <2> HIDE DEF u
  <2>3. commit = [type |-> "GapCommit", sess |-> 0, view |-> 0,
                  opnum |-> u.lastOp, from |-> Leader]
    BY <2>2 DEF GapCommitMessage
  <2> HIDE DEF commit
  <2>4. /\ commit \in GapCommitType /\ commit.type = "GapCommit"
        /\ commit.opnum \in u.gaps
    BY <1>9, <2>2, <2>3 DEF GapCommitType
  <2>5. MessageTrue(Q, u, u, commit)
    BY <2>4 DEF MessageTrue
  <2> QED
    BY <2>4, <2>5 DEF Says, AboutSender, Message, LeadOf
<1>11. Goes(Q, R, {}, Leader, u, b)
  <2>1. ReplicaOK(Q, R, {}, Leader, u)
    BY <1>9 DEF Goes
  <2> HIDE DEF u, commit
  <2> QED
    BY <1>10, <2>1, GoesSending
<1> HIDE DEF b
<1>12. Goes(Q, R, {}, Leader, t, res)
  <2>1. Goes(Q, R, {}, Leader, t, InRow(a, b))
    BY <1>1, <1>2, <1>7, <1>9, <1>11, GoesThen
  <2> QED
    BY <1>4, <2>1
<1>13. Goes(Q, R, {}, Leader, s, res)
  BY <1>1, <1>2, <1>6, <1>7, <1>12, GoesFrom
<1> QED
  BY <1>13 DEF res

\* A replica that misses the next operation is counted.
Missed(s, from) == [s EXCEPT !.gapReplies = @ \cup {from}]

\* One more replica that misses the operation gives a state again.
LEMMA MissedState ==
  ASSUME NEW s \in State, NEW from \in Replicas
  PROVE  Missed(s, from) \in State
<1>1. s.gapReplies \cup {from} \in SUBSET Replicas
  BY StateFields
<1> QED
  BY <1>1 DEF Missed, State

\* HandleGapReply.
LEMMA GapRepliedGoes ==
  ASSUME NEW Q, NEW R, Context(Q, R), NEW r \in Replicas,
         R[r].failed = NoFailure, NEW m \in GapReplyType,
         MessageTrue(Q, R[Leader], R[m.from], m)
  PROVE  Goes(Q, R, {}, r, R[r], GapReplied(r, R[r], m))
<1> DEFINE s == R[r]
           q == m.req
           t == Missed(s, m.from)
           res == GapReplied(r, s, m)
           next == ProcessNextOperation(r, s, s.view, s.sess, s.nextMsgnum, q)
<1>1. /\ s \in State /\ ReplicaOK(Q, R, {}, r, s) /\ LocalOK(Q, s)
      /\ s.sess = 0 /\ s.view = 0 /\ s.lastOp \in Nat
      /\ (AmLeader(r, s) <=> r = Leader)
  BY Ready
<1>2. /\ m.opnum \in 1 .. (MaxMsg - 1) /\ m.from \in Replicas /\ q \in Item
      /\ m.type = "GapReply"
  BY DEF GapReplyType
<1>3. s.status = "gapcommit" => r = Leader
  BY <1>1 DEF ReplicaOK, FollowerOK
<1>4. s.status \in {"normal", "gapcommit"}
  BY <1>1, StateFields
<1>5. Goes(Q, R, {}, r, s, Result(s, {}))
  BY <1>1, GoesQuiet
<1>6. s.failed = NoFailure
  OBVIOUS
<1>7. s = R[r]
  OBVIOUS
<1> HIDE DEF s
<1>8. CASE m.opnum # s.lastOp + 1 \/ s.status = "gapcommit"
  <2>1. res = Result(s, {})
    BY <1>1, <1>3, <1>8 DEF GapReplied
  <2> QED
    BY <1>5, <1>7, <2>1
<1>9. CASE m.opnum = s.lastOp + 1 /\ s.status = "normal" /\ m.isfound
  <2>1. res = next
    BY <1>9 DEF GapReplied
  <2>2. q # NoOp => RequestMessage(0, s.lastOp + 1, q) \in Q
    BY <1>2, <1>9 DEF MessageTrue
  <2>3. q = NoOp => s.lastOp + 1 \in R[Leader].gaps
    BY <1>2, <1>9 DEF MessageTrue
  <2>4. r = Leader => q # NoOp
    <3>1. R[Leader].gaps \subseteq 1 .. R[Leader].lastOp
      BY ContextFields DEF LeaderOK
    <3>2. r = Leader => ~(s.lastOp + 1 \in 1 .. s.lastOp)
      BY <1>1
    <3> QED
      BY <1>7, <2>3, <3>1, <3>2
  <2>5. NextOK(R, Q, r, s, q)
    BY <1>2, <1>9, <2>2, <2>3, <2>4 DEF NextOK
  <2>6. next = ProcessNextOperation(r, s, 0, 0, s.nextMsgnum, q)
    BY <1>1
  <2> HIDE DEF next, q, res
  <2>7. Goes(Q, R, {}, r, s, next)
    BY <1>1, <1>6, <2>5, <2>6, ProcessNextOperationGoes
  <2>8. Goes(Q, R, {}, r, s, res)
    BY <2>1, <2>7
  <2> QED
    BY <1>7, <2>8 DEF res
<1>10. CASE /\ m.opnum = s.lastOp + 1 /\ s.status = "normal" /\ ~m.isfound
            /\ r # Leader
  <2>1. res = Result(s, {})
    BY <1>1, <1>10 DEF GapReplied
  <2> QED
    BY <1>5, <1>7, <2>1
<1>11. CASE /\ m.opnum = s.lastOp + 1 /\ s.status = "normal" /\ ~m.isfound
            /\ r = Leader
  <2>1. t \in State
    BY <1>1, <1>2, MissedState
  <2>2. /\ SameCore(s, t) /\ SameNotes(s, t) /\ t.pending = s.pending
        /\ t.startGap = s.startGap /\ t.gapRequest = s.gapRequest
    BY <1>1, StateDomain, ZenonT(40) DEF Missed, Fields, SameCore, SameNotes
  <2>3. res = IF Cardinality(t.gapReplies) >= N - 1
              THEN StartGapAgreement(Leader, t) ELSE Result(t, {})
    BY <1>1, <1>11 DEF GapReplied, Missed
  <2> HIDE DEF t, res
  <2>4. /\ t.pending \subseteq Q
        /\ t.startGap \/ t.gapRequest => s.lastOp + 1 < MaxMsg
    BY <1>1, <2>2 DEF LocalOK
  <2>5. s.status # "gapcommit"
    BY <1>11
  <2>6. ReplicaOK(Q, R, {}, r, t) /\ Grows(r, s, t)
    BY <1>1, <2>1, <2>2, <2>4, <2>5, NotedKept
  <2>7. /\ t.failed = NoFailure /\ t.failed = s.failed
        /\ t.status = "normal" /\ t.lastOp = s.lastOp
    BY <1>6, <1>11, <2>2 DEF SameCore, SameNotes
  <2>8. t.lastOp + 1 <= MaxMsg
    BY <1>1, <1>2, <1>11, <2>7, Constants
  <2>9. Goes(Q, R, {}, r, t, StartGapAgreement(Leader, t))
    BY <1>11, <2>6, <2>7, <2>8, StartGapAgreementGoes
  <2>10. Goes(Q, R, {}, r, t, Result(t, {}))
    BY <2>6, GoesQuiet
  <2>11. Goes(Q, R, {}, r, t, res)
    BY <2>3, <2>9, <2>10
  <2>12. Goes(Q, R, {}, r, s, res)
    BY <1>1, <2>1, <2>6, <2>7, <2>11, GoesFrom
  <2> QED
    BY <1>7, <2>12 DEF res
<1> QED
  BY <1>4, <1>8, <1>9, <1>10, <1>11

\* A follower acknowledges a gap that is in its log.
LEMMA GapAcknowledgement ==
  ASSUME NEW Q, NEW R, NEW r \in Replicas, r # Leader,
         NEW u, ReplicaOK(Q, R, {}, r, u), NEW g \in u.gaps, g <= u.lastOp
  PROVE  Goes(Q, R, {}, r, u, Result(u, {GapCommitReplyMessage(u, g, r)}))
<1> DEFINE m == GapCommitReplyMessage(u, g, r)
<1>1. u \in State /\ u.sess = 0 /\ u.view = 0 /\ g \in Nat /\ r \in Followers
  BY StateFields, Constants DEF ReplicaOK
<1>2. m = [type |-> "GapCommitReply", sess |-> 0, view |-> 0, opnum |-> g,
           from |-> r, to |-> Leader]
  BY <1>1, Constants DEF GapCommitReplyMessage
<1> HIDE DEF m
<1>3. /\ m \in GapCommitReplyType /\ m.type = "GapCommitReply" /\ m.opnum = g
      /\ m.from = r
  BY <1>1, <1>2 DEF GapCommitReplyType
<1>4. MessageTrue(Q, R[Leader], u, m)
  BY <1>3 DEF MessageTrue
<1>5. Says(Q, R, r, u, m)
  BY <1>3, <1>4 DEF Says, AboutSender, Message, LeadOf
<1> QED
  BY <1>5, GoesSending DEF m

\* HandleGapCommit.
LEMMA GapCommittedGoes ==
  ASSUME NEW Q, NEW R, Context(Q, R), NEW r \in Replicas, r # Leader,
         R[r].failed = NoFailure, NEW m \in GapCommitType,
         MessageTrue(Q, R[Leader], R[m.from], m)
  PROVE  Goes(Q, R, {}, r, R[r], GapCommitted(r, R[r], m))
<1> DEFINE s == R[r]
           g == m.opnum
           t == [s EXCEPT !.gaps = @ \cup {g}]
           w == WithGaps(s, GapLog(s, g), s.gaps \cup {g})
           res == GapCommitted(r, s, m)
           next == ProcessNextOperation(r, s, s.view, s.sess, s.nextMsgnum, NoOp)
           a == IF s.lastOp < g THEN next
                ELSE Result([t EXCEPT !.log = SetStatus(@, g)], {})
           b == Result(a.st, {GapCommitReplyMessage(a.st, g, r)})
<1>1. /\ s \in State /\ ReplicaOK(Q, R, {}, r, s) /\ LocalOK(Q, s)
      /\ s.sess = 0 /\ s.view = 0 /\ s.lastOp \in Nat /\ ~AmLeader(r, s)
      /\ s.lastOp = Len(s.log)
  BY Ready
<1>2. g \in R[Leader].gaps /\ g \in Nat /\ g >= 1
  <2>1. g \in R[Leader].gaps
    BY DEF GapCommitType, MessageTrue
  <2>2. /\ R[Leader].gaps \subseteq 1 .. R[Leader].lastOp
        /\ R[Leader].lastOp \in Nat
    BY ContextFields, StateFields DEF LeaderOK
  <2> QED
    BY <2>1, <2>2
<1>3. s.failed = NoFailure
  OBVIOUS
<1>4. s = R[r]
  OBVIOUS
<1> HIDE DEF s, g
<1>5. /\ ReplicaOK(Q, R, {}, r, w) /\ Grows(r, s, w)
      /\ g \in w.gaps /\ w.lastOp = s.lastOp /\ w.failed = s.failed
  <2>1. w = WithGaps(s, GapLog(s, g), s.gaps \cup {g})
    OBVIOUS
  <2> HIDE DEF w
  <2> QED
    BY <1>1, <1>2, <2>1, GapLearned
<1>6. ASSUME s.lastOp + 1 < g
      PROVE  Goes(Q, R, {}, r, s, res)
  <2>1. GapLog(s, g) = s.log
    BY <1>1, <1>2, <1>6 DEF GapLog
  <2>2. t = WithGaps(s, s.log, s.gaps \cup {g})
    BY <1>1, StateDomain DEF WithGaps, Fields
  <2>3. res = Result(t, {})
    BY <1>1, <1>6, Zenon DEF GapCommitted, g
  <2>4. t = w
    BY <2>1, <2>2
  <2> HIDE DEF t, w, res
  <2>5. res.st = w /\ res.out = {}
    BY <2>3, <2>4, ResultFields
  <2> QED
    BY <1>5, <2>5 DEF Goes
<1>7. ASSUME ~(s.lastOp + 1 < g)
      PROVE  Goes(Q, R, {}, r, s, res)
  <2>1. res = InRow(a, b)
    BY <1>1, <1>7, Zenon DEF GapCommitted, Then, InRow, g
  <2>2. Goes(Q, R, {}, r, s, a) /\ g \in a.st.gaps /\ g <= a.st.lastOp
    <3>1. CASE s.lastOp < g
      <4>1. g = s.lastOp + 1
        BY <1>1, <1>2, <1>7, <3>1
      <4>2. a = ProcessNextOperation(r, s, 0, 0, s.nextMsgnum, NoOp)
        BY <1>1, <3>1
      <4> HIDE DEF a
      <4>3. NextOK(R, Q, r, s, NoOp)
        BY <1>2, <4>1, Items DEF NextOK
      <4> QED
        BY <1>1, <1>3, <4>1, <4>2, <4>3, ProcessNextOperationGoes
    <3>2. CASE ~(s.lastOp < g)
      <4>1. g <= Len(s.log) /\ g <= s.lastOp
        BY <1>1, <1>2, <3>2
      <4>2. [t EXCEPT !.log = SetStatus(@, g)] = w
        BY <1>1, <4>1, StateDomain DEF WithGaps, GapLog, SetStatus, Fields
      <4>3. a = Result([t EXCEPT !.log = SetStatus(@, g)], {})
        <5> HIDE DEF t
        <5> QED
          BY <3>2, <4>1
      <4> HIDE DEF t, w, a
      <4>4. a.st = w /\ a.out = {}
        BY <4>2, <4>3, ResultFields
      <4> QED
        BY <1>5, <4>1, <4>4 DEF Goes
    <3> QED
      BY <3>1, <3>2
  <2> HIDE DEF a
  <2>3. ReplicaOK(Q, R, {}, r, a.st)
    BY <2>2 DEF Goes
  <2>4. Goes(Q, R, {}, r, a.st, b)
    BY <2>2, <2>3, GapAcknowledgement
  <2> HIDE DEF b, res
  <2> QED
    BY <1>1, <1>3, <2>1, <2>2, <2>4, GoesThen
<1> QED
  BY <1>4, <1>6, <1>7

\* The leader counts who acknowledges a gap, and goes on with a quorum.
Agreeing(s, status, commits) ==
  [s EXCEPT !.status = status, !.gapCommits = commits]

\* A step of a gap agreement gives a state again.
LEMMA AgreeingState ==
  ASSUME NEW s \in State, NEW status \in {"normal", "gapcommit"},
         NEW commits \in SUBSET Followers
  PROVE  Agreeing(s, status, commits) \in State
BY ZenonT(40) DEF Agreeing, State

\* The fields a step of a gap agreement leaves alone.
LEMMA AgreeingFields ==
  ASSUME NEW s \in State, NEW status \in {"normal", "gapcommit"},
         NEW commits \in SUBSET Followers
  PROVE  LET t == Agreeing(s, status, commits)
         IN  /\ t \in State /\ SameCore(s, t) /\ t.pending = s.pending
             /\ t.startGap = s.startGap /\ t.gapRequest = s.gapRequest
             /\ t.status = status /\ t.gapCommits = commits
             /\ t.syncReplies = s.syncReplies /\ t.transferEnd = s.transferEnd
<1> DEFINE t == Agreeing(s, status, commits)
<1>1. t \in State
  BY AgreeingState
<1>2. /\ SameCore(s, t) /\ t.pending = s.pending
      /\ t.startGap = s.startGap /\ t.gapRequest = s.gapRequest
      /\ t.status = status /\ t.gapCommits = commits
      /\ t.syncReplies = s.syncReplies /\ t.transferEnd = s.transferEnd
  BY StateDomain, ZenonT(40) DEF Agreeing, Fields, SameCore
<1> QED
  BY <1>1, <1>2

\* HandleGapCommitReply.
LEMMA GapAcknowledgedGoes ==
  ASSUME NEW Q, NEW R, Context(Q, R), NEW m \in GapCommitReplyType,
         MessageTrue(Q, R[Leader], R[m.from], m)
  PROVE  Goes(Q, R, {}, Leader, R[Leader], GapAcknowledged(Leader, R[Leader], m))
<1> DEFINE s == R[Leader]
           C == s.gapCommits \cup {m.from}
           t == Agreeing(s, "gapcommit", C)
           v == Agreeing(s, "normal", {})
           res == GapAcknowledged(Leader, s, m)
<1>1. /\ s \in State /\ ReplicaOK(Q, R, {}, Leader, s) /\ LocalOK(Q, s)
      /\ s.lastOp \in Nat /\ AmLeader(Leader, s) /\ LeaderOK(R, s)
  BY Ready, Constants, ContextFields
<1>2. /\ m.from \in Followers /\ m.from \in Replicas
      /\ m.opnum \in R[m.from].gaps /\ m.opnum <= R[m.from].lastOp
  BY Constants DEF GapCommitReplyType, MessageTrue
<1>3. s = R[Leader]
  OBVIOUS
<1> HIDE DEF s
<1>4. CASE s.status # "gapcommit" \/ m.opnum # s.lastOp
  <2>1. res = Result(s, {})
    BY <1>4 DEF GapAcknowledged
  <2>2. Goes(Q, R, {}, Leader, s, res)
    BY <1>1, <2>1, GoesQuiet
  <2> QED
    BY <1>3, <2>2
<1>5. CASE s.status = "gapcommit" /\ m.opnum = s.lastOp
  <2>1. C \subseteq Holding(R, s.lastOp) /\ C \subseteq Followers
    BY <1>1, <1>2, <1>5 DEF LeaderOK, Holding
  <2>2. res = IF Cardinality(C) < F THEN Result(t, {}) ELSE Result(v, {})
    <3>1. [s EXCEPT !.gapCommits = @ \cup {m.from}] = t
      BY <1>1, <1>5, StateDomain DEF Agreeing, Fields
    <3>2. [[s EXCEPT !.gapCommits = @ \cup {m.from}]
              EXCEPT !.status = "normal", !.gapCommits = {}] = v
      BY <1>1, StateDomain DEF Agreeing, Fields
    <3>3. t.gapCommits = C
      BY <1>1, StateDomain, ZenonT(40) DEF Agreeing, Fields
    <3> HIDE DEF t, v
    <3> QED
      BY <1>1, <1>5, <3>1, <3>2, <3>3, Zenon DEF GapAcknowledged
  <2>3. /\ ~s.startGap /\ ~s.gapRequest /\ s.pending \subseteq Q
        /\ s.transferEnd = 0 /\ s.gaps \subseteq 1 .. s.lastOp
        /\ \A x \in s.syncReplies : x.from \in Reaching(s, R, x.point)
    BY <1>1, <1>5 DEF LeaderOK, LocalOK
  <2>4. \A g \in s.gaps : \/ Cardinality(Holding(R, g)) >= F
                          \/ g = s.lastOp
    BY <1>1 DEF LeaderOK
  <2>5. ReplicaOK(Q, R, {}, Leader, t) /\ Grows(Leader, s, t) /\ t.failed = s.failed
    <3>1. /\ t \in State /\ SameCore(s, t) /\ t.pending = s.pending
          /\ t.startGap = s.startGap /\ t.gapRequest = s.gapRequest
          /\ t.status = "gapcommit" /\ t.gapCommits = C
          /\ t.syncReplies = s.syncReplies /\ t.transferEnd = s.transferEnd
      BY <1>1, <2>1, AgreeingFields
    <3> HIDE DEF t, C
    <3>2. ReplicaOK(Q, R, {}, Leader, t) /\ Grows(Leader, s, t)
      BY <1>1, <2>1, <2>3, <2>4, <3>1, LeaderKept
    <3> QED
      BY <3>1, <3>2 DEF SameCore
  <2>6. ASSUME ~(Cardinality(C) < F)
        PROVE  ReplicaOK(Q, R, {}, Leader, v) /\ Grows(Leader, s, v)
               /\ v.failed = s.failed
    <3>1. /\ v \in State /\ SameCore(s, v) /\ v.pending = s.pending
          /\ v.startGap = s.startGap /\ v.gapRequest = s.gapRequest
          /\ v.status = "normal"
          /\ v.syncReplies = s.syncReplies /\ v.transferEnd = s.transferEnd
      BY <1>1, AgreeingFields
    <3>2. Cardinality(Holding(R, s.lastOp)) >= F
      <4>1. Holding(R, s.lastOp) \subseteq Followers
        BY DEF Holding
      <4>2. IsFiniteSet(Holding(R, s.lastOp))
        BY <4>1, Constants, FS_Subset
      <4>3. /\ Cardinality(C) <= Cardinality(Holding(R, s.lastOp))
            /\ IsFiniteSet(C)
        BY <2>1, <4>2, FS_Subset
      <4>4. Cardinality(C) \in Nat /\ Cardinality(Holding(R, s.lastOp)) \in Nat
        BY <4>2, <4>3, FS_CardinalityType
      <4> HIDE DEF C
      <4> QED
        BY <2>6, <4>3, <4>4, Constants
    <3> HIDE DEF v
    <3>3. \A g \in s.gaps : \/ Cardinality(Holding(R, g)) >= F
                            \/ v.status = "gapcommit" /\ g = s.lastOp
      BY <2>4, <3>2
    <3>4. ReplicaOK(Q, R, {}, Leader, v) /\ Grows(Leader, s, v)
      BY <1>1, <2>3, <3>1, <3>3, LeaderKept
    <3> QED
      BY <3>1, <3>4 DEF SameCore
  <2> HIDE DEF t, v, C, res
  <2>7. Goes(Q, R, {}, Leader, s, res)
    <3>1. CASE Cardinality(C) < F
      <4>1. res.st = t /\ res.out = {}
        BY <2>2, <3>1, ResultFields
      <4> QED
        BY <2>5, <4>1 DEF Goes
    <3>2. CASE ~(Cardinality(C) < F)
      <4>1. res.st = v /\ res.out = {}
        BY <2>2, <3>2, ResultFields
      <4> QED
        BY <2>6, <3>2, <4>1 DEF Goes
    <3> QED
      BY <3>1, <3>2
  <2> QED
    BY <1>3, <2>7 DEF res
<1> QED
  BY <1>4, <1>5

-----------------------------------------------------------------------------
(* Synchronization and state transfer.                                       *)

\* A follower notes a point to be acknowledged, or the end of a transfer.
Preparing(s, points) == [s EXCEPT !.prepared = points]
Fetching(s, end) == [s EXCEPT !.transferEnd = end]

\* A noted point gives a state again.
LEMMA PreparingState ==
  ASSUME NEW s \in State, NEW points \in SUBSET Nat
  PROVE  Preparing(s, points) \in State
BY ZenonT(40) DEF Preparing, State

\* A noted end of a transfer gives a state again.
LEMMA FetchingState ==
  ASSUME NEW s \in State, NEW end \in Nat
  PROVE  Fetching(s, end) \in State
BY ZenonT(40) DEF Fetching, State

\* A SyncPrepare is noted before its gaps are installed.
LEMMA Prepared ==
  ASSUME NEW Q, NEW R, NEW r, r # Leader, NEW s, ReplicaOK(Q, R, {}, r, s),
         NEW p \in Nat, NEW t, t = Preparing(s, s.prepared \cup {p})
  PROVE  /\ ReplicaOK(Q, R, {p}, r, t) /\ Grows(r, s, t)
         /\ t.failed = s.failed
<1>1. /\ s \in State /\ LocalOK(Q, s) /\ FollowerOK(R[Leader], {}, s)
      /\ s.prepared \subseteq Nat
  BY StateFields DEF ReplicaOK
<1>2. t \in State
  BY <1>1, PreparingState
<1>3. /\ SameCore(s, t) /\ t.pending = s.pending /\ t.startGap = s.startGap
      /\ t.gapRequest = s.gapRequest /\ t.status = s.status
      /\ t.transferEnd = s.transferEnd /\ t.prepared = s.prepared \cup {p}
      /\ t.failed = s.failed
  BY <1>1, StateDomain, ZenonT(40) DEF Preparing, Fields, SameCore
<1>4. /\ t.pending \subseteq Q
      /\ t.startGap \/ t.gapRequest => s.lastOp + 1 < MaxMsg
  BY <1>1, <1>3 DEF LocalOK
<1>5. \A x \in t.prepared \ {p} : Caught(R[Leader], s, x)
  BY <1>1, <1>3 DEF FollowerOK
<1>6. t.transferEnd > 0 => Caught(R[Leader], s, t.transferEnd - 1)
  BY <1>1, <1>3 DEF FollowerOK
<1>7. t.status = s.status
  BY <1>3
<1>8. ReplicaOK(Q, R, {p}, r, t) /\ Grows(r, s, t)
  <2> DEFINE Y == {p}
  <2>1. \A x \in t.prepared \ Y : Caught(R[Leader], s, x)
    BY <1>5
  <2> HIDE DEF Y
  <2>2. SameCore(s, t)
    BY <1>3
  <2>3. ReplicaOK(Q, R, Y, r, t) /\ Grows(r, s, t)
    BY <1>2, <1>4, <2>1, <2>2, <1>6, <1>7, FollowerKept, SMTT(60)
  <2> QED
    BY <2>3 DEF Y
<1> QED
  BY <1>3, <1>8

\* Once they are installed, the point is one the follower has caught up with.
LEMMA PreparedDone ==
  ASSUME NEW Q, NEW R, NEW r, r # Leader, NEW p, NEW s,
         ReplicaOK(Q, R, {p}, r, s), Caught(R[Leader], s, p)
  PROVE  ReplicaOK(Q, R, {}, r, s)
<1>1. s \in State /\ LocalOK(Q, s) /\ FollowerOK(R[Leader], {p}, s)
  BY DEF ReplicaOK
<1>2. \A x \in s.prepared : Caught(R[Leader], s, x)
  BY <1>1 DEF FollowerOK
<1>3. FollowerOK(R[Leader], {}, s)
  BY <1>1, <1>2 DEF FollowerOK
<1> QED
  BY <1>1, <1>3 DEF ReplicaOK

\* A follower asks for the operations up to a point it has caught up with.
LEMMA FetchGoes ==
  ASSUME NEW Q, NEW R, NEW r \in Replicas, r # Leader, NEW s,
         ReplicaOK(Q, R, {}, r, s), NEW p \in Nat, Caught(R[Leader], s, p),
         NEW out, out \in SUBSET
           {StateTransferRequestMessage(s, s.lastOp + 1, p + 1, r, Leader)}
  PROVE  Goes(Q, R, {}, r, s, Result(Fetching(s, p + 1), out))
<1> DEFINE t == Fetching(s, p + 1)
           ask == StateTransferRequestMessage(s, s.lastOp + 1, p + 1, r, Leader)
<1>1. /\ s \in State /\ LocalOK(Q, s) /\ FollowerOK(R[Leader], {}, s)
      /\ s.lastOp \in Nat /\ r \in Followers
  BY StateFields, Constants DEF ReplicaOK
<1>2. t \in State
  BY <1>1, FetchingState
<1>3. /\ SameCore(s, t) /\ t.pending = s.pending /\ t.startGap = s.startGap
      /\ t.gapRequest = s.gapRequest /\ t.status = s.status
      /\ t.prepared = s.prepared /\ t.transferEnd = p + 1
      /\ t.failed = s.failed
  BY <1>1, StateDomain, ZenonT(40) DEF Fetching, Fields, SameCore
<1>4. out \subseteq {ask}
  OBVIOUS
<1> HIDE DEF t
<1>5. /\ t.pending \subseteq Q
      /\ t.startGap \/ t.gapRequest => s.lastOp + 1 < MaxMsg
  BY <1>1, <1>3 DEF LocalOK
<1>6. \A x \in t.prepared \ {} : Caught(R[Leader], s, x)
  BY <1>1, <1>3 DEF FollowerOK
<1>7. Caught(R[Leader], s, t.transferEnd - 1)
  <2>1. t.transferEnd - 1 = p
    BY <1>3
  <2> QED
    BY <2>1
<1>8. ReplicaOK(Q, R, {}, r, t) /\ Grows(r, s, t)
  BY <1>2, <1>3, <1>5, <1>6, <1>7, FollowerKept
<1>9. Says(Q, R, r, t, ask)
  <2>1. s.sess = 0 /\ s.view = 0
    BY <1>1, StateFields
  <2>2. ask = [type |-> "StateTransferRequest", sess |-> 0, view |-> 0,
               begin |-> s.lastOp + 1, end |-> p + 1, from |-> r,
               to |-> Leader]
    BY <2>1 DEF StateTransferRequestMessage
  <2> HIDE DEF ask
  <2>3. ask \in AskType /\ ask.type = "StateTransferRequest"
    BY <1>1, <2>2 DEF AskType
  <2>4. MessageTrue(Q, LeadOf(R, r, t), t, ask)
    BY <2>3 DEF MessageTrue
  <2> QED
    BY <2>3, <2>4 DEF Says, AboutSender, Message
<1> HIDE DEF ask
<1>10. \A m \in out : Says(Q, R, r, t, m)
  BY <1>4, <1>9
<1>11. Goes(Q, R, {}, r, t, Result(t, out))
  BY <1>8, <1>10, GoesSending
<1>12. Goes(Q, R, {}, r, s, Result(t, out))
  BY <1>1, <1>2, <1>3, <1>8, <1>11, GoesFrom
<1> QED
  BY <1>12 DEF t

\* HandleSyncPrepare.
LEMMA SyncPreparedGoes ==
  ASSUME NEW Q, NEW R, Context(Q, R), NEW r \in Replicas, r # Leader,
         R[r].failed = NoFailure, NEW m \in SyncPrepareType,
         MessageTrue(Q, R[Leader], R[m.from], m)
  PROVE  Goes(Q, R, {}, r, R[r], SyncPrepared(r, R[r], m))
<1> DEFINE s == R[r]
           p == m.lastop
           noted == Preparing(s, s.prepared \cup {p})
           a == InstallCommittedGaps(r, noted, m.gaps)
           t == a.st
           out == IF p - t.lastOp > MaxTransfer THEN {}
                  ELSE {StateTransferRequestMessage(t, t.lastOp + 1, p + 1, r, Leader)}
           b == IF t.lastOp >= p THEN ProcessSyncPrepare(r, t, p)
                ELSE Result(Fetching(t, p + 1), out)
           Fetch(u) ==
             IF u.lastOp >= m.lastop THEN ProcessSyncPrepare(r, u, m.lastop)
             ELSE Result([u EXCEPT !.transferEnd = m.lastop + 1],
                         IF m.lastop - u.lastOp > MaxTransfer THEN {}
                         ELSE {StateTransferRequestMessage(u, u.lastOp + 1,
                                 m.lastop + 1, r, LeaderOf(m.view))})
           res == SyncPrepared(r, s, m)
<1>1. /\ s \in State /\ ReplicaOK(Q, R, {}, r, s) /\ ~AmLeader(r, s)
  BY Ready
<1>2. /\ p \in Nat /\ LeaderOf(m.view) = Leader
      /\ p <= R[Leader].lastOp /\ m.gaps \subseteq R[Leader].gaps
      /\ \A g \in R[Leader].gaps : g <= p => g \in m.gaps
  BY Constants DEF SyncPrepareType, MessageTrue
<1>3. s.failed = NoFailure
  OBVIOUS
<1>4. s = R[r]
  OBVIOUS
<1> HIDE DEF s, p
<1>5. CASE s.lastCommitted >= p
  <2>1. res = Result(s, {})
    BY <1>5 DEF SyncPrepared, p
  <2>2. Goes(Q, R, {}, r, s, res)
    BY <1>1, <2>1, GoesQuiet
  <2> QED
    BY <1>4, <2>2
<1>6. CASE ~(s.lastCommitted >= p)
  <2>1. res = InRow(a, b)
    <3>1. res = InRow(a, Fetch(t))
      BY <1>1, <1>6, Zenon DEF SyncPrepared, Then, InRow, Preparing, p
    <3>2. Fetch(t) = b
      <4> HIDE DEF t
      <4> QED
        BY <1>2, Zenon DEF Fetching, p
    <3> QED
      BY <3>1, <3>2
  <2>2. /\ ReplicaOK(Q, R, {p}, r, noted) /\ Grows(r, s, noted)
        /\ noted.failed = s.failed /\ noted \in State
    <3>1. noted = Preparing(s, s.prepared \cup {p})
      OBVIOUS
    <3> HIDE DEF noted
    <3>2. /\ ReplicaOK(Q, R, {p}, r, noted) /\ Grows(r, s, noted)
          /\ noted.failed = s.failed
      BY <1>1, <1>2, <3>1, Prepared
    <3> QED
      BY <3>2 DEF ReplicaOK
  <2> HIDE DEF noted, res
  <2>3. Goes(Q, R, {p}, r, noted, a) /\ m.gaps \subseteq t.gaps
    BY <1>2, <1>3, <2>2, InstallCommittedGapsGoes
  <2> HIDE DEF a
  <2>4. Caught(R[Leader], t, p)
    BY <1>2, <2>3 DEF Caught
  <2>5. ReplicaOK(Q, R, {}, r, t) /\ t \in State
    <3>1. ReplicaOK(Q, R, {p}, r, t)
      BY <2>3 DEF Goes
    <3> QED
      BY <2>4, <3>1, PreparedDone DEF ReplicaOK
  <2>6. Goes(Q, R, {}, r, noted, a)
    BY <2>3, <2>5 DEF Goes
  <2>7. t.failed = NoFailure /\ t.lastOp \in Nat
    BY <1>3, <2>2, <2>3, <2>5, StateFields DEF Goes
  <2>8. Goes(Q, R, {}, r, t, b)
    <3> HIDE DEF t
    <3>1. CASE t.lastOp >= p
      <4>1. Reached(R[Leader], t, p)
        BY <1>2, <2>4, <2>7, <3>1 DEF Reached
      <4> QED
        BY <1>2, <2>5, <2>7, <3>1, <4>1, ProcessSyncPrepareGoes
    <3>2. CASE ~(t.lastOp >= p)
      <4>1. out \in SUBSET {StateTransferRequestMessage(t, t.lastOp + 1,
                                                      p + 1, r, Leader)}
        OBVIOUS
      <4> HIDE DEF out
      <4>2. Goes(Q, R, {}, r, t, Result(Fetching(t, p + 1), out))
        BY <1>2, <2>4, <2>5, <4>1, FetchGoes
      <4> QED
        BY <3>2, <4>2
    <3> QED
      BY <3>1, <3>2
  <2> HIDE DEF b
  <2>9. Goes(Q, R, {}, r, noted, InRow(a, b))
    BY <1>3, <2>2, <2>6, <2>8, GoesThen
  <2>10. Goes(Q, R, {}, r, s, res)
    BY <1>1, <2>1, <2>2, <2>9, GoesFrom
  <2> QED
    BY <1>4, <2>10 DEF res
<1> QED
  BY <1>5, <1>6

\* The leader counts who has reached a point.
Counting(s, replies) == [s EXCEPT !.syncReplies = replies]

\* A counted acknowledgement gives a state again.
LEMMA CountingState ==
  ASSUME NEW s \in State,
         NEW replies \in SUBSET [point : Nat, from : Followers]
  PROVE  Counting(s, replies) \in State
BY ZenonT(40) DEF Counting, State

\* No follower is counted twice for a point.
LEMMA CountedOnce ==
  ASSUME NEW replies \in SUBSET [point : Nat, from : Followers], NEW p \in Nat,
         NEW H \in SUBSET Followers, \A x \in replies : x.point = p => x.from \in H
  PROVE  LET C == {x \in replies : x.point = p}
         IN  Cardinality(C) \in Nat /\ Cardinality(C) <= Cardinality(H)
<1> DEFINE C == {x \in replies : x.point = p}
           f == [x \in C |-> x.from]
<1>1. IsFiniteSet(H)
  BY Constants, FS_Subset
<1>2. f \in [C -> H]
  OBVIOUS
<1>3. \A x, y \in C : f[x] = f[y] => x = y
  <2>1. ASSUME NEW x \in C, NEW y \in C, x.from = y.from
        PROVE  x = y
    <3>1. /\ x \in [point : Nat, from : Followers]
          /\ y \in [point : Nat, from : Followers]
          /\ x.point = p /\ y.point = p
      OBVIOUS
    <3> QED
      BY <2>1, <3>1
  <2> QED
    BY <2>1
<1>4. f \in Injection(C, H)
  BY <1>2, <1>3 DEF Injection, IsInjective
<1>5. IsFiniteSet(C) /\ Cardinality(C) <= Cardinality(H)
  BY <1>1, <1>4, FS_Injection
<1> QED
  BY <1>5, FS_CardinalityType

\* HandleSyncPrepareReply.
LEMMA SyncAcknowledgedGoes ==
  ASSUME NEW Q, NEW R, Context(Q, R), R[Leader].failed = NoFailure,
         NEW m \in SyncPrepareReplyType, MessageTrue(Q, R[Leader], R[m.from], m)
  PROVE  Goes(Q, R, {}, Leader, R[Leader],
              SyncAcknowledged(Leader, R[Leader], m))
<1> DEFINE s == R[Leader]
           p == m.syncpoint
           replies == s.syncReplies \cup {[point |-> p, from |-> m.from]}
           C == {x \in replies : x.point = p}
           t == Counting(s, replies)
           a == CommitUptoOp(Leader, t, p)
           res == SyncAcknowledged(Leader, s, m)
<1>1. /\ s \in State /\ ReplicaOK(Q, R, {}, Leader, s) /\ LocalOK(Q, s)
      /\ AmLeader(Leader, s) /\ LeaderOK(R, s) /\ s.lastOp \in Nat
      /\ Leader \in Replicas
  BY Ready, Constants, ContextFields
<1>2. /\ p \in Nat /\ m.from \in Followers /\ m.from \in Reaching(s, R, p)
      /\ p <= s.lastOp
  BY Constants DEF SyncPrepareReplyType, MessageTrue, Reaching, Reached, Caught
<1>3. s = R[Leader] /\ s.failed = NoFailure
  OBVIOUS
<1> HIDE DEF s, p
<1>4. Goes(Q, R, {}, Leader, s, Result(s, {}))
  BY <1>1, GoesQuiet
<1>5. /\ replies \in SUBSET [point : Nat, from : Followers]
      /\ \A x \in replies : x.from \in Reaching(s, R, x.point)
  <2>1. /\ s.syncReplies \in SUBSET [point : Nat, from : Followers]
        /\ \A x \in s.syncReplies : x.from \in Reaching(s, R, x.point)
    BY <1>1, StateFields DEF LeaderOK
  <2> QED
    BY <1>2, <2>1
<1>6. t.syncReplies = replies
  BY <1>1, StateDomain, ZenonT(40) DEF Counting, Fields
<1>7. res = IF s.lastCommitted >= p \/ p # s.syncPoint THEN Result(s, {})
            ELSE IF Cardinality(C) < F THEN Result(t, {}) ELSE a
  <2>1. t = [s EXCEPT !.syncReplies = @ \cup {[point |-> p, from |-> m.from]}]
    BY Zenon DEF Counting
  <2> HIDE DEF t, C
  <2>2. C = {x \in t.syncReplies : x.point = p}
    BY <1>6 DEF C
  <2> HIDE DEF replies
  <2> QED
    BY <1>1, <2>1, <2>2, Zenon DEF SyncAcknowledged, p
<1>8. t \in State
  BY <1>1, <1>5, CountingState
<1>9. /\ SameCore(s, t) /\ t.pending = s.pending /\ t.startGap = s.startGap
      /\ t.gapRequest = s.gapRequest /\ t.status = s.status
      /\ t.gapCommits = s.gapCommits /\ t.transferEnd = s.transferEnd
  BY <1>1, StateDomain, ZenonT(40) DEF Counting, Fields, SameCore
<1> HIDE DEF t, replies
<1>10. /\ t.pending \subseteq Q /\ t.transferEnd = 0
       /\ t.startGap \/ t.gapRequest => s.lastOp + 1 < MaxMsg
  BY <1>1, <1>9 DEF LocalOK, LeaderOK
<1>11. /\ \A g \in s.gaps : \/ Cardinality(Holding(R, g)) >= F
                            \/ t.status = "gapcommit" /\ g = s.lastOp
       /\ t.status = "gapcommit" =>
            /\ ~t.startGap /\ ~t.gapRequest
            /\ t.gapCommits \subseteq Holding(R, s.lastOp)
       /\ \A x \in t.syncReplies : x.from \in Reaching(s, R, x.point)
  BY <1>1, <1>5, <1>6, <1>9 DEF LeaderOK
<1>12. SameCore(s, t)
  BY <1>9
<1>13. ReplicaOK(Q, R, {}, Leader, t) /\ Grows(Leader, s, t)
  BY <1>1, <1>8, <1>10, <1>11, <1>12, LeaderKept
<1>14. t.failed = s.failed /\ t.lastOp = s.lastOp /\ t.gaps = s.gaps
  BY <1>12 DEF SameCore
<1>15. Goes(Q, R, {}, Leader, s, Result(t, {}))
  <2>1. Goes(Q, R, {}, Leader, t, Result(t, {}))
    BY <1>13, GoesQuiet
  <2> QED
    BY <1>1, <1>8, <1>13, <1>14, <2>1, GoesFrom
<1>16. ASSUME ~(Cardinality(C) < F)
       PROVE  Goes(Q, R, {}, Leader, s, a)
  <2>1. Cardinality(Reaching(t, R, p)) >= F
    <3> DEFINE H == Reaching(s, R, p)
    <3>1. H \in SUBSET Followers /\ IsFiniteSet(H)
      <4>1. H \subseteq Followers
        BY DEF Reaching
      <4> HIDE DEF H
      <4> QED
        BY <4>1, Constants, FS_Subset
    <3>2. \A x \in replies : x.point = p => x.from \in H
      BY <1>5
    <3>3. Reaching(t, R, p) = H
      BY <1>14, ReachingSame
    <3> HIDE DEF H
    <3>4. Cardinality(C) \in Nat /\ Cardinality(C) <= Cardinality(H)
      BY <1>2, <1>5, <3>1, <3>2, CountedOnce
    <3>5. Cardinality(H) \in Nat
      BY <3>1, FS_CardinalityType
    <3> HIDE DEF C
    <3> QED
      BY <1>16, <3>3, <3>4, <3>5, Constants
  <2>2. Goes(Q, R, {}, Leader, t, a)
    BY <1>1, <1>2, <1>3, <1>13, <1>14, <2>1, CommitUptoOpGoes
  <2> HIDE DEF a
  <2> QED
    BY <1>1, <1>8, <1>13, <1>14, <2>2, GoesFrom
<1> HIDE DEF a, res, C
<1>17. Goes(Q, R, {}, Leader, s, res)
  BY <1>4, <1>7, <1>15, <1>16
<1> QED
  BY <1>3, <1>17 DEF res

\* A follower notes a point to be committed.
Committing(s, points) == [s EXCEPT !.committed = points]

\* A noted SyncCommit gives a state again.
LEMMA CommittingState ==
  ASSUME NEW s \in State, NEW points \in SUBSET Nat
  PROVE  Committing(s, points) \in State
BY ZenonT(40) DEF Committing, State

\* A noted SyncCommit goes well.
LEMMA CommittingGoes ==
  ASSUME NEW Q, NEW R, NEW r, r # Leader, NEW s, ReplicaOK(Q, R, {}, r, s),
         NEW p \in Nat, NEW t, t = Committing(s, s.committed \cup {p})
  PROVE  /\ ReplicaOK(Q, R, {}, r, t) /\ Grows(r, s, t) /\ t \in State
         /\ t.failed = s.failed /\ t.lastOp = s.lastOp
<1>1. /\ s \in State /\ LocalOK(Q, s) /\ FollowerOK(R[Leader], {}, s)
      /\ s.committed \subseteq Nat
  BY StateFields DEF ReplicaOK
<1>2. t \in State
  BY <1>1, CommittingState
<1>3. /\ SameCore(s, t) /\ SameNotes(s, t) /\ t.pending = s.pending
      /\ t.startGap = s.startGap /\ t.gapRequest = s.gapRequest
  BY <1>1, StateDomain, ZenonT(40) DEF Committing, Fields, SameCore, SameNotes
<1>4. /\ t.pending \subseteq Q
      /\ t.startGap \/ t.gapRequest => s.lastOp + 1 < MaxMsg
  BY <1>1, <1>3 DEF LocalOK
<1>5. ReplicaOK(Q, R, {}, r, t) /\ Grows(r, s, t)
  BY <1>2, <1>3, <1>4, NotedKept
<1>6. t.failed = s.failed /\ t.lastOp = s.lastOp
  BY <1>3 DEF SameCore
<1> QED
  BY <1>2, <1>5, <1>6

\* HandleSyncCommit.
LEMMA SyncCommittedGoes ==
  ASSUME NEW Q, NEW R, Context(Q, R), NEW r \in Replicas, r # Leader,
         R[r].failed = NoFailure, NEW m \in SyncCommitType
  PROVE  Goes(Q, R, {}, r, R[r], SyncCommitted(r, R[r], m))
<1> DEFINE s == R[r]
           p == m.syncpoint
           t == Committing(s, s.committed \cup {p})
           ask == SyncPrepareRequestMessage(t)
           a == CommitUptoOp(r, t, p)
           b == Forget(a.st, p)
           res == SyncCommitted(r, s, m)
<1>1. /\ s \in State /\ ReplicaOK(Q, R, {}, r, s) /\ ~AmLeader(r, s)
      /\ FollowerOK(R[Leader], {}, s) /\ s.lastOp \in Nat
  <2>1. s \in State /\ ReplicaOK(Q, R, {}, r, s) /\ ~AmLeader(r, s)
        /\ s.lastOp \in Nat
    BY Ready
  <2> QED
    BY <2>1 DEF ReplicaOK
<1>2. p \in Nat
  BY DEF SyncCommitType
<1>3. s = R[r] /\ s.failed = NoFailure
  OBVIOUS
<1> HIDE DEF s, p
<1>4. Goes(Q, R, {}, r, s, Result(s, {}))
  BY <1>1, GoesQuiet
<1>5. res = IF s.lastCommitted >= p THEN Result(s, {})
            ELSE IF p \notin s.prepared THEN Result(t, {ask})
            ELSE IF s.lastOp < p THEN Result(t, {})
            ELSE InRow(a, b)
  BY <1>1, Zenon DEF SyncCommitted, Committing, Then, InRow, p
<1>6. t = Committing(s, s.committed \cup {p})
  OBVIOUS
<1> HIDE DEF t
<1>7. /\ ReplicaOK(Q, R, {}, r, t) /\ Grows(r, s, t) /\ t \in State
      /\ t.failed = s.failed /\ t.lastOp = s.lastOp
  BY <1>1, <1>2, <1>6, CommittingGoes
<1>8. Goes(Q, R, {}, r, s, Result(t, {ask}))
  <2>1. t.sess = 0 /\ t.view = 0
    BY <1>7, StateFields
  <2>2. ask = [type |-> "SyncPrepareRequest", sess |-> 0, view |-> 0,
               to |-> Leader]
    BY <2>1, Constants DEF SyncPrepareRequestMessage
  <2> HIDE DEF ask
  <2>3. ask \in SyncPrepareRequestType /\ ask.type = "SyncPrepareRequest"
    BY <2>2 DEF SyncPrepareRequestType
  <2>4. MessageTrue(Q, LeadOf(R, r, t), t, ask)
    BY <2>3 DEF MessageTrue
  <2>5. Says(Q, R, r, t, ask)
    BY <2>3, <2>4 DEF Says, AboutSender, Message
  <2>6. Goes(Q, R, {}, r, t, Result(t, {ask}))
    BY <1>7, <2>5, GoesSending
  <2> QED
    BY <1>1, <1>7, <2>6, GoesFrom
<1>9. Goes(Q, R, {}, r, s, Result(t, {}))
  <2>1. Goes(Q, R, {}, r, t, Result(t, {}))
    BY <1>7, GoesQuiet
  <2> QED
    BY <1>1, <1>7, <2>1, GoesFrom
<1>10. ASSUME p \in s.prepared, ~(s.lastOp < p)
       PROVE  Goes(Q, R, {}, r, s, InRow(a, b))
  <2>1. Caught(R[Leader], s, p) /\ p <= s.lastOp
    BY <1>1, <1>2, <1>10 DEF FollowerOK
  <2>2. Caught(R[Leader], t, p)
    BY <1>7, <2>1 DEF Caught, Grows
  <2>3. Goes(Q, R, {}, r, t, a)
    BY <1>2, <1>3, <1>7, <2>1, <2>2, CommitUptoOpGoes
  <2> HIDE DEF a
  <2>4. ReplicaOK(Q, R, {}, r, a.st)
    BY <2>3 DEF Goes
  <2>5. Goes(Q, R, {}, r, a.st, b)
    BY <2>4, Forgotten
  <2> HIDE DEF b
  <2>6. Goes(Q, R, {}, r, t, InRow(a, b))
    BY <1>3, <1>7, <2>3, <2>5, GoesThen
  <2> QED
    BY <1>1, <1>7, <2>6, GoesFrom
<1> HIDE DEF a, b, ask, res
<1>11. Goes(Q, R, {}, r, s, res)
  BY <1>4, <1>5, <1>8, <1>9, <1>10
<1> QED
  BY <1>3, <1>11 DEF res

\* A replica aborts.
Failing(s, where) == [s EXCEPT !.failed = where]

\* An abort gives a state again.
LEMMA FailingState ==
  ASSUME NEW s \in State, NEW where \in Failures
  PROVE  Failing(s, where) \in State
BY ZenonT(40) DEF Failing, State

\* An abort of the first view ends a handler well.
LEMMA AbortEnds ==
  ASSUME NEW Q, NEW R, NEW r, NEW s, ReplicaOK(Q, R, {}, r, s),
         NEW where \in Failures
  PROVE  Ends(Q, R, r, s, Abort(s, where))
<1> DEFINE t == Failing(s, where)
<1>1. /\ s \in State /\ LocalOK(Q, s)
      /\ IF r = Leader THEN LeaderOK(R, s) ELSE FollowerOK(R[Leader], {}, s)
  BY DEF ReplicaOK
<1>2. t \in State
  BY <1>1, FailingState
<1>3. /\ t.log = s.log /\ t.lastOp = s.lastOp /\ t.nextMsgnum = s.nextMsgnum
      /\ t.gaps = s.gaps /\ t.lastCommitted = s.lastCommitted
      /\ t.lastExecuted = s.lastExecuted /\ t.app = s.app /\ t.table = s.table
      /\ t.pending = s.pending /\ t.startGap = s.startGap
      /\ t.gapRequest = s.gapRequest /\ t.status = s.status
      /\ t.prepared = s.prepared /\ t.transferEnd = s.transferEnd
      /\ t.gapCommits = s.gapCommits /\ t.syncReplies = s.syncReplies
  BY <1>1, StateDomain, ZenonT(40) DEF Failing, Fields
<1>4. Abort(s, where) = Result(t, {})
  BY Zenon DEF Abort, Failing
<1> HIDE DEF t
<1>5. LocalOK(Q, t)
  <2>1. AppOK(t)
    BY <1>1, <1>3 DEF LocalOK, AppOK
  <2>2. \A op \in 1 .. t.lastOp : PlaceOK(Q, t, op)
    BY <1>1, <1>3 DEF LocalOK, PlaceOK
  <2> QED
    BY <1>1, <1>3, <2>1, <2>2 DEF LocalOK
<1>6. r = Leader => LeaderOK(R, t)
  <2>1. t.lastOp = s.lastOp /\ t.gaps = s.gaps
    BY <1>3
  <2>2. \A p : Reaching(t, R, p) = Reaching(s, R, p)
    BY <2>1, ReachingSame
  <2> QED
    BY <1>1, <1>3, <2>2 DEF LeaderOK
<1>7. r # Leader => FollowerOK(R[Leader], {}, t)
  BY <1>1, <1>3 DEF FollowerOK, Caught
<1>8. ReplicaOK(Q, R, {}, r, t)
  BY <1>2, <1>5, <1>6, <1>7 DEF ReplicaOK
<1>9. Grows(r, s, t)
  <2>1. s.lastOp \in Nat
    BY <1>1, StateFields
  <2>2. s.lastOp <= t.lastOp /\ t.log = s.log /\ t.gaps = s.gaps
    BY <1>3, <2>1
  <2> QED
    BY <2>2, Zenon DEF Grows
<1>10. Abort(s, where).st = t /\ Abort(s, where).out = {}
  BY <1>4, ResultFields
<1> QED
  BY <1>8, <1>9, <1>10 DEF Ends

\* The parts of a result that ends well.
LEMMA EndsResult ==
  ASSUME NEW Q, NEW R, NEW r, NEW s, NEW st, NEW out,
         Ends(Q, R, r, s, Result(st, out))
  PROVE  Result(st, out) \in Results
<1>1. Result(st, out).st = st /\ Result(st, out).out = out
  BY ResultFields
<1>2. st \in State
  BY <1>1 DEF Ends, ReplicaOK
<1>3. out \subseteq Message
  BY <1>1 DEF Ends, Says
<1> QED
  BY <1>2, <1>3, ResultFields

\* HandleStateTransferRequest before the pending requests.
Dumped(s, m) ==
  IF \/ m.sess # s.sess \/ m.view # s.view
     \/ m.begin > s.lastOp \/ m.end > s.lastOp + 1
  THEN Result(s, {})
  ELSE IF m.end > Len(s.log) + 1 THEN Abort(s, "Dump")
  ELSE Result(s, {StateTransferReplyMessage(s, m.begin,
                    SubSeq(s.log, m.begin, m.end - 1), m.from)})

\* The answer to a StateTransferRequest goes well.
LEMMA DumpedGoes ==
  ASSUME NEW Q, NEW R, Context(Q, R), NEW m \in AskType
  PROVE  Goes(Q, R, {}, Leader, R[Leader], Dumped(R[Leader], m))
<1> DEFINE s == R[Leader]
           es == SubSeq(s.log, m.begin, m.end - 1)
           reply == StateTransferReplyMessage(s, m.begin, es, m.from)
           res == Dumped(s, m)
<1>1. /\ s \in State /\ ReplicaOK(Q, R, {}, Leader, s) /\ s.sess = 0
      /\ s.view = 0 /\ s.lastOp = Len(s.log) /\ s.lastOp \in Nat
      /\ s.log \in Seq(LogEntry)
  BY Ready, Constants, StateFields
<1>2. /\ m.begin \in Nat /\ m.begin >= 1 /\ m.end \in Nat
      /\ m.from \in Followers /\ m.sess = 0 /\ m.view = 0
  BY DEF AskType
<1>3. s = R[Leader]
  OBVIOUS
<1> HIDE DEF s
<1>4. Goes(Q, R, {}, Leader, s, Result(s, {}))
  BY <1>1, GoesQuiet
<1>5. ASSUME ~(m.begin > s.lastOp), ~(m.end > s.lastOp + 1)
      PROVE  Says(Q, R, Leader, s, reply)
  <2>1. /\ es \in Seq(LogEntry)
        /\ \A i \in 1 .. Len(es) : /\ m.begin + i - 1 \in 1 .. s.lastOp
                                   /\ es[i] = s.log[m.begin + i - 1]
    <3> DEFINE k == m.end - 1
    <3>1. k \in Int /\ k <= s.lastOp /\ m.begin \in Int
      BY <1>1, <1>2, <1>5
    <3>2. es = SubSeq(s.log, m.begin, k)
      OBVIOUS
    <3> HIDE DEF k, es
    <3>3. \A i \in m.begin .. k : i \in 1 .. Len(s.log)
      BY <1>1, <1>2, <3>1
    <3>4. \A i \in m.begin .. k : s.log[i] \in LogEntry
      BY <1>1, <3>3
    <3>5. /\ es \in Seq(LogEntry)
          /\ Len(es) = IF m.begin <= k THEN k - m.begin + 1 ELSE 0
          /\ \A i \in 1 .. k - m.begin + 1 : es[i] = s.log[m.begin + i - 1]
      BY <3>1, <3>2, <3>4, SubSeqProperties
    <3>6. ASSUME NEW i \in 1 .. Len(es)
          PROVE  i \in 1 .. k - m.begin + 1 /\ m.begin + i - 1 \in 1 .. s.lastOp
      <4>1. Len(es) = IF m.begin <= k THEN k - m.begin + 1 ELSE 0
        BY <3>5
      <4>2. i \in 1 .. k - m.begin + 1
        BY <3>1, <4>1
      <4> QED
        BY <1>1, <1>2, <3>1, <4>2
    <3> QED
      BY <3>5, <3>6
  <2> HIDE DEF es
  <2>2. reply = [type |-> "StateTransferReply", sess |-> 0, view |-> 0,
                 begin |-> m.begin, entries |-> es, to |-> m.from]
    BY <1>1 DEF StateTransferReplyMessage
  <2> HIDE DEF reply
  <2>3. /\ reply \in TransferType /\ reply.type = "StateTransferReply"
        /\ reply.begin = m.begin /\ reply.entries = es
    BY <1>2, <2>1, <2>2 DEF TransferType
  <2>4. MessageTrue(Q, s, s, reply)
    BY <2>1, <2>3 DEF MessageTrue
  <2> QED
    BY <2>3, <2>4 DEF Says, AboutSender, Message, LeadOf
<1>6. res = IF m.begin > s.lastOp \/ m.end > s.lastOp + 1 THEN Result(s, {})
            ELSE Result(s, {reply})
  <2> HIDE DEF reply
  <2>1. CASE m.begin > s.lastOp \/ m.end > s.lastOp + 1
    BY <2>1 DEF Dumped
  <2>2. CASE ~(m.begin > s.lastOp) /\ ~(m.end > s.lastOp + 1)
    <3>1. ~(m.end > Len(s.log) + 1) /\ m.sess = s.sess /\ m.view = s.view
      BY <1>1, <1>2, <2>2
    <3> QED
      BY <2>2, <3>1, Zenon DEF Dumped, reply
  <2> QED
    BY <2>1, <2>2
<1>7. ASSUME ~(m.begin > s.lastOp), ~(m.end > s.lastOp + 1)
      PROVE  Goes(Q, R, {}, Leader, s, Result(s, {reply}))
  <2> HIDE DEF reply
  <2> QED
    BY <1>1, <1>5, <1>7, GoesSending
<1> HIDE DEF reply, res
<1>8. Goes(Q, R, {}, Leader, s, res)
  BY <1>4, <1>6, <1>7
<1> QED
  BY <1>3, <1>8 DEF res

\* One entry of a state transfer.
InstallEntry(r, t, m, op) ==
  LET e == m.entries[op - m.begin + 1]
  IN  IF op # t.lastOp + 1 THEN Abort(t, "StateTransferReply")
      ELSE ProcessNextOperation(r, t, e.view, e.sess, e.num, e.req)

\* An entry of a state transfer ends well.
LEMMA InstallEntryEnds ==
  ASSUME NEW Q, NEW R, Context(Q, R), NEW r \in Replicas, r # Leader,
         NEW s, ReplicaOK(Q, R, {}, r, s), s.failed = NoFailure,
         NEW m \in TransferType, MessageTrue(Q, R[Leader], R[m.from], m),
         NEW op \in m.begin .. (m.begin + Len(m.entries) - 1)
  PROVE  Ends(Q, R, r, s, InstallEntry(r, s, m, op))
<1> DEFINE lead == R[Leader]
           i == op - m.begin + 1
           e == m.entries[i]
           res == InstallEntry(r, s, m, op)
<1>1. s \in State /\ LocalOK(Q, s) /\ s.lastOp \in Nat
  BY StateFields DEF ReplicaOK
<1>2. /\ m.begin \in Nat /\ Len(m.entries) \in Nat
      /\ m.type = "StateTransferReply"
  BY DEF TransferType
<1>3. lead \in State /\ LocalOK(Q, lead) /\ lead.lastOp = Len(lead.log)
  BY ContextFields DEF LocalOK
<1>4. i \in 1 .. Len(m.entries) /\ m.begin + i - 1 = op
  BY <1>2
<1>5. op \in 1 .. lead.lastOp /\ e = lead.log[op]
  <2> HIDE DEF i
  <2> QED
    BY <1>2, <1>4 DEF MessageTrue
<1> HIDE DEF lead
<1>6. /\ e.view = 0 /\ e.sess = 0 /\ e.req \in Item /\ PlaceOK(Q, lead, op)
  BY <1>3, <1>5, EntryFields DEF LocalOK
<1>7. e.num = op /\ (e.req = NoOp => op \in lead.gaps)
      /\ (e.req # NoOp => RequestMessage(0, op, e.req) \in Q)
  BY <1>5, <1>6 DEF PlaceOK
<1>8. res = IF op # s.lastOp + 1 THEN Abort(s, "StateTransferReply")
            ELSE ProcessNextOperation(r, s, 0, 0, op, e.req)
  <2>1. res = IF op # s.lastOp + 1 THEN Abort(s, "StateTransferReply")
              ELSE ProcessNextOperation(r, s, e.view, e.sess, e.num, e.req)
    BY Zenon DEF InstallEntry
  <2> HIDE DEF e, res
  <2> QED
    BY <1>6, <1>7, <2>1
<1>9. Ends(Q, R, r, s, Abort(s, "StateTransferReply"))
  BY AbortEnds, FailureKinds
<1>10. ASSUME op = s.lastOp + 1
       PROVE  Ends(Q, R, r, s, ProcessNextOperation(r, s, 0, 0, op, e.req))
  <2> DEFINE q == e.req
             next == ProcessNextOperation(r, s, 0, 0, op, q)
  <2> HIDE DEF q
  <2>1. NextOK(R, Q, r, s, q)
    BY <1>6, <1>7, <1>10 DEF NextOK, q, lead
  <2>2. op = s.nextMsgnum
    BY <1>1, <1>10 DEF LocalOK
  <2>3. Goes(Q, R, {}, r, s, next)
    BY <2>1, <2>2, ProcessNextOperationGoes
  <2> HIDE DEF next
  <2>4. Ends(Q, R, r, s, next)
    BY <2>3, GoesEnds
  <2> QED
    BY <2>4 DEF next, q
<1> HIDE DEF e, res
<1>11. Ends(Q, R, r, s, res)
  BY <1>8, <1>9, <1>10
<1> QED
  BY <1>11 DEF res

\* HandleStateTransferReply.
LEMMA StateTransferredEnds ==
  ASSUME NEW Q, NEW R, Context(Q, R), NEW r \in Replicas, r # Leader,
         R[r].failed = NoFailure, NEW m \in TransferType, m.to = r,
         MessageTrue(Q, R[Leader], R[m.from], m)
  PROVE  Ends(Q, R, r, R[r], StateTransferred(r, R[r], m))
<1> DEFINE s == R[r]
           a == s.lastOp + 1
           last == m.begin + Len(m.entries) - 1
           quiet == Result(s, {})
           n == IF last < a THEN 0 ELSE last - a + 1
           Install(t, op) == InstallEntry(r, t, m, op)
           Go(x, i) == Then(x, LAMBDA t : Install(t, a + i - 1))
           after[i \in 0 .. n] == IF i = 0 THEN quiet ELSE Go(after[i - 1], i)
           run(f) == [i \in 0 .. n |-> IF i = 0 THEN quiet ELSE Go(f[i - 1], i)]
           D == {x \in Results : Ends(Q, R, r, s, x)}
           S == [i \in 0 .. n |-> D]
           h == [i \in 1 .. n |-> [x \in D |-> Go(x, i)]]
           res == StateTransferred(r, s, m)
<1>1. /\ s \in State /\ ReplicaOK(Q, R, {}, r, s) /\ s.lastOp \in Nat
      /\ s.sess = 0 /\ s.view = 0
  BY Ready
<1>2. m.begin \in Nat /\ Len(m.entries) \in Nat /\ m.sess = 0 /\ m.view = 0
  BY DEF TransferType
<1>3. s = R[r] /\ s.failed = NoFailure
  OBVIOUS
<1> HIDE DEF s
<1>4. n \in Nat /\ last \in Int /\ a \in Nat
  <2>1. a \in Nat /\ last \in Int
    BY <1>1, <1>2
  <2> HIDE DEF a, last
  <2> QED
    BY <2>1
<1>5. Ends(Q, R, r, s, quiet) /\ quiet \in D
  <2>1. Goes(Q, R, {}, r, s, quiet)
    BY <1>1, GoesQuiet
  <2>2. quiet \in Results
    BY <1>1, ResultFields
  <2>3. Ends(Q, R, r, s, quiet)
    BY <2>1, GoesEnds
  <2> QED
    BY <2>2, <2>3
<1>6. CASE last <= s.lastOp
  <2>1. res = quiet
    BY <1>6 DEF StateTransferred
  <2> HIDE DEF res, quiet
  <2>2. Ends(Q, R, r, s, res)
    BY <1>5, <2>1
  <2> QED
    BY <1>3, <2>2 DEF res
<1>7. CASE ~(last <= s.lastOp) /\ m.begin > s.lastOp + 1
  <2>1. res = Abort(s, "StateTransferReply")
    BY <1>1, <1>2, <1>7 DEF StateTransferred
  <2> HIDE DEF res
  <2>2. Ends(Q, R, r, s, res)
    BY <1>1, <2>1, AbortEnds, FailureKinds
  <2> QED
    BY <1>3, <2>2 DEF res
<1>8. CASE ~(last <= s.lastOp) /\ ~(m.begin > s.lastOp + 1)
  <2>1. \A i \in 1 .. n : a + i - 1 \in m.begin .. last
    <3>1. n = last - a + 1 /\ m.begin <= a
      BY <1>1, <1>2, <1>4, <1>8
    <3> HIDE DEF n, last, a
    <3> QED
      BY <1>2, <1>4, <3>1
  <2>2. res = after[n]
    <3>1. res = ForEach(a, last, Install, s)
      BY <1>1, <1>2, <1>8, Zenon DEF StateTransferred, InstallEntry
    <3> HIDE DEF res
    <3> QED
      BY <3>1, Zenon DEF ForEach, after, Go, n, quiet
  <2> HIDE DEF quiet, n, res
  <2>3. ASSUME NEW i \in 1 .. n, NEW x \in D
        PROVE  Go(x, i) \in D
    <3> DEFINE t == x.st
               y == Install(t, a + i - 1)
    <3>1. Go(x, i) = InRow(x, y)
      BY Zenon DEF Then, InRow
    <3>2. /\ x \in Results /\ Ends(Q, R, r, s, x)
          /\ ReplicaOK(Q, R, {}, r, t)
      BY <2>3 DEF Ends
    <3>3. t.failed = NoFailure => Ends(Q, R, r, t, y)
      <4>1. a + i - 1 \in m.begin .. (m.begin + Len(m.entries) - 1)
        BY <2>1
      <4> HIDE DEF t
      <4> QED
        BY <3>2, <4>1, InstallEntryEnds
    <3> HIDE DEF y, Go, Install, D
    <3>4. Ends(Q, R, r, s, InRow(x, y))
      BY <1>1, <3>2, <3>3, EndsOn
    <3>5. InRow(x, y) \in Results
      <4>1. CASE t.failed # NoFailure
        BY <3>2, <4>1 DEF InRow
      <4>2. CASE t.failed = NoFailure
        <5>1. InRow(x, y) = Result(y.st, x.out \cup y.out)
          BY <4>2 DEF InRow
        <5> QED
          BY <3>4, <5>1, EndsResult
      <4> QED
        BY <4>1, <4>2
    <3> QED
      BY <3>1, <3>4, <3>5 DEF D
  <2> HIDE DEF Go, D
  <2>4. \A i \in 0 .. n : S[i] = D
    OBVIOUS
  <2>5. 0 \in 0 .. n /\ n \in 0 .. n
    BY <1>4 DEF n
  <2>6. ASSUME NEW i \in 1 .. n
        PROVE  i \in 0 .. n /\ i # 0 /\ i - 1 \in 0 .. n
    BY <1>4
  <2> HIDE DEF S
  <2>7. PICK f : IsRun(f, h, n, quiet) /\ \A i \in 0 .. n : f[i] \in S[i]
    <3>1. quiet \in S[0]
      BY <1>5, <2>4, <2>5
    <3>2. IsLoop(h, n, S)
      BY <2>3, <2>4, <2>6 DEF IsLoop
    <3> HIDE DEF h
    <3> QED
      BY <1>4, <3>1, <3>2, LoopRuns
  <2>8. f = run(f)
    <3> HIDE DEF h
    <3>1. ASSUME NEW i \in 0 .. n, i # 0
          PROVE  h[i][f[i - 1]] = Go(f[i - 1], i)
      <4>1. i \in 1 .. n /\ i - 1 \in 0 .. n
        BY <1>4, <3>1
      <4>2. f[i - 1] \in D
        BY <2>4, <2>7, <4>1
      <4> QED
        BY <4>1, <4>2 DEF h
    <3> QED
      BY <2>7, <3>1 DEF IsRun
  <2>9. after = CHOOSE k : k = run(k)
    BY Zenon DEF after
  <2> HIDE DEF after
  <2>10. after = run(after)
    <3> HIDE DEF run
    <3> QED
      BY <2>8, <2>9
  <2>11. after[n] \in S[n]
    <3>1. after[0] \in S[0]
      BY <1>5, <2>4, <2>5, <2>10
    <3>2. ASSUME NEW i \in 1 .. n, after[i - 1] \in S[i - 1]
          PROVE  after[i] \in S[i]
      <4>1. after[i] = Go(after[i - 1], i)
        BY <2>6, <2>10
      <4>2. after[i - 1] \in D
        BY <2>4, <2>6, <3>2
      <4> QED
        BY <2>3, <2>4, <2>6, <4>1, <4>2
    <3> QED
      BY <1>4, <3>1, <3>2, LoopStays
  <2>12. after[n] \in D
    BY <2>4, <2>5, <2>11
  <2>13. Ends(Q, R, r, s, after[n])
    BY <2>12 DEF D
  <2> QED
    BY <1>3, <2>2, <2>13 DEF res
<1> QED
  BY <1>6, <1>7, <1>8

-----------------------------------------------------------------------------
(* The timers.                                                               *)

\* A replica asks for the next operation.
Asking(s) == [s EXCEPT !.startGap = FALSE, !.gapRequest = TRUE]

\* A request for an operation gives a state again.
LEMMA AskingState ==
  ASSUME NEW s \in State
  PROVE  Asking(s) \in State
BY ZenonT(40) DEF Asking, State

\* startGapRequestTimeout.
LEMMA SendGapRequestGoes ==
  ASSUME NEW Q, NEW R, Context(Q, R), NEW r \in Replicas, R[r].startGap
  PROVE  Goes(Q, R, {}, r, R[r],
              SendGapRequest(r, [R[r] EXCEPT !.startGap = FALSE]))
<1> DEFINE s == R[r]
           t0 == [s EXCEPT !.startGap = FALSE]
           t == Asking(s)
           to == IF AmLeader(r, t0) THEN Replicas \ {r} ELSE {LeaderOf(t0.view)}
           out == {GapRequestMessage(t0, t0.lastOp + 1, r, q) : q \in to}
           res == SendGapRequest(r, t0)
<1>1. /\ s \in State /\ ReplicaOK(Q, R, {}, r, s) /\ LocalOK(Q, s)
      /\ s.sess = 0 /\ s.view = 0 /\ s.lastOp \in Nat
  BY Ready
<1>2. s.startGap /\ s = R[r]
  OBVIOUS
<1> HIDE DEF s
<1>3. t \in State
  BY <1>1, AskingState
<1>4. /\ SameCore(s, t) /\ SameNotes(s, t) /\ t.pending = s.pending
      /\ t.startGap = FALSE /\ t.gapRequest = TRUE
  BY <1>1, StateDomain, ZenonT(40) DEF Asking, Fields, SameCore, SameNotes
<1>5. s.lastOp + 1 < MaxMsg /\ t.pending \subseteq Q
  BY <1>1, <1>2, <1>4 DEF LocalOK
<1>6. r = Leader => s.status # "gapcommit"
  BY <1>1, <1>2 DEF ReplicaOK, LeaderOK
<1>7. /\ t0.lastOp = s.lastOp /\ t0.sess = 0 /\ t0.view = 0
      /\ [t0 EXCEPT !.gapRequest = TRUE] = t
  <2>1. t0.lastOp = s.lastOp /\ t0.sess = s.sess /\ t0.view = s.view
    BY <1>1, StateDomain, ZenonT(40) DEF Fields
  <2>2. [t0 EXCEPT !.gapRequest = TRUE] = t
    BY <1>1, StateDomain DEF Asking, Fields
  <2> QED
    BY <1>1, <2>1, <2>2
<1>8. res = Result(t, out)
  <2>1. res = Result([t0 EXCEPT !.gapRequest = TRUE], out)
    BY Zenon DEF SendGapRequest
  <2> HIDE DEF t0, t, out, res
  <2> QED
    BY <1>7, <2>1
<1> HIDE DEF t, t0, res
<1>9. ReplicaOK(Q, R, {}, r, t) /\ Grows(r, s, t)
  <2>1. t.startGap \/ t.gapRequest => s.lastOp + 1 < MaxMsg
    BY <1>5
  <2>2. r = Leader /\ s.status = "gapcommit" => ~t.startGap /\ ~t.gapRequest
    BY <1>6
  <2> QED
    BY <1>1, <1>3, <1>4, <1>5, <2>1, <2>2, NotedKept
<1>10. to \subseteq Replicas
  BY <1>7, Constants
<1> HIDE DEF to
<1>11. ASSUME NEW m \in out
       PROVE  Says(Q, R, r, t, m)
  <2>1. PICK q \in to : m = GapRequestMessage(t0, t0.lastOp + 1, r, q)
    OBVIOUS
  <2>2. s.lastOp + 1 \in 1 .. (MaxMsg - 1) /\ q \in Replicas
    BY <1>1, <1>5, <1>10, Constants
  <2>3. m = [type |-> "GapRequest", sess |-> 0, view |-> 0,
             opnum |-> s.lastOp + 1, from |-> r, to |-> q]
    BY <1>7, <2>1 DEF GapRequestMessage
  <2>4. m \in GapRequestType /\ m.type = "GapRequest"
    BY <2>2, <2>3 DEF GapRequestType
  <2>5. MessageTrue(Q, LeadOf(R, r, t), t, m)
    BY <2>4 DEF MessageTrue
  <2> QED
    BY <2>4, <2>5 DEF Says, AboutSender, Message
<1> HIDE DEF out
<1>12. Goes(Q, R, {}, r, t, Result(t, out))
  BY <1>9, <1>11, GoesSending
<1>13. t.failed = s.failed
  BY <1>4 DEF SameCore
<1>14. Goes(Q, R, {}, r, s, res)
  BY <1>1, <1>3, <1>8, <1>9, <1>12, <1>13, GoesFrom
<1> QED
  BY <1>2, <1>14 DEF res, t0

\* gapRequestTimeout at the leader.
LEMMA GapRequestTimeoutGoes ==
  ASSUME NEW Q, NEW R, Context(Q, R), R[Leader].failed = NoFailure,
         R[Leader].gapRequest
  PROVE  Goes(Q, R, {}, Leader, R[Leader], StartGapAgreement(Leader, R[Leader]))
<1> DEFINE s == R[Leader]
<1>1. /\ s \in State /\ ReplicaOK(Q, R, {}, Leader, s) /\ LocalOK(Q, s)
      /\ LeaderOK(R, s) /\ s.lastOp \in Nat
  BY Ready, Constants, ContextFields
<1>2. s.gapRequest /\ s.failed = NoFailure
  OBVIOUS
<1> HIDE DEF s
<1>3. s.status \in {"normal", "gapcommit"}
  BY <1>1, StateFields
<1>4. s.status = "normal"
  BY <1>1, <1>2, <1>3 DEF LeaderOK
<1>5. s.lastOp + 1 < MaxMsg
  BY <1>1, <1>2 DEF LocalOK
<1>6. s.lastOp + 1 <= MaxMsg
  BY <1>1, <1>5, Constants
<1>7. Goes(Q, R, {}, Leader, s, StartGapAgreement(Leader, s))
  BY <1>1, <1>2, <1>4, <1>6, StartGapAgreementGoes
<1> QED
  BY <1>7 DEF s

\* syncTimeout.
Synchronizing(s) == [s EXCEPT !.syncPoint = s.lastOp]

\* The start of a synchronization gives a state again.
LEMMA SynchronizingState ==
  ASSUME NEW s \in State
  PROVE  Synchronizing(s) \in State
BY ZenonT(40) DEF Synchronizing, State

\* SendSyncPrepare goes well.
LEMMA SendSyncPrepareGoes ==
  ASSUME NEW Q, NEW R, Context(Q, R)
  PROVE  Goes(Q, R, {}, Leader, R[Leader],
              Result(Synchronizing(R[Leader]),
                     {SyncPrepareMessage(R[Leader], Leader)}))
<1> DEFINE s == R[Leader]
           t == Synchronizing(s)
           m == SyncPrepareMessage(s, Leader)
<1>1. /\ s \in State /\ ReplicaOK(Q, R, {}, Leader, s) /\ LocalOK(Q, s)
      /\ LeaderOK(R, s) /\ s.lastOp \in Nat /\ s.sess = 0 /\ s.view = 0
      /\ s.gaps \in SUBSET Nat
  BY Ready, Constants, ContextFields, StateFields
<1>2. s = R[Leader]
  OBVIOUS
<1> HIDE DEF s
<1>3. t \in State
  BY <1>1, SynchronizingState
<1>4. /\ SameCore(s, t) /\ SameNotes(s, t) /\ t.pending = s.pending
      /\ t.startGap = s.startGap /\ t.gapRequest = s.gapRequest
  BY <1>1, StateDomain, ZenonT(40) DEF Synchronizing, Fields, SameCore, SameNotes
<1> HIDE DEF t
<1>5. t.lastOp = s.lastOp /\ t.gaps = s.gaps /\ t.failed = s.failed
  BY <1>4 DEF SameCore
<1>6. ReplicaOK(Q, R, {}, Leader, t) /\ Grows(Leader, s, t)
  <2>1. /\ t.pending \subseteq Q
        /\ t.startGap \/ t.gapRequest => s.lastOp + 1 < MaxMsg
    BY <1>1, <1>4 DEF LocalOK
  <2>2. s.status = "gapcommit" => ~t.startGap /\ ~t.gapRequest
    BY <1>1, <1>4 DEF LeaderOK
  <2> QED
    BY <1>1, <1>3, <1>4, <2>1, <2>2, NotedKept
<1>7. Says(Q, R, Leader, t, m)
  <2>1. m = [type |-> "SyncPrepare", sess |-> 0, view |-> 0,
             lastop |-> s.lastOp, gaps |-> s.gaps, from |-> Leader]
    BY <1>1 DEF SyncPrepareMessage
  <2> HIDE DEF m
  <2>2. /\ m \in SyncPrepareType /\ m.type = "SyncPrepare"
        /\ m.lastop = s.lastOp /\ m.gaps = s.gaps
    BY <1>1, <2>1 DEF SyncPrepareType
  <2>3. s.gaps \subseteq 1 .. s.lastOp
    BY <1>1 DEF LeaderOK
  <2>4. /\ m.lastop <= t.lastOp
        /\ \A g \in t.gaps : g <= m.lastop => g \in m.gaps
        /\ \A g \in m.gaps : g <= m.lastop /\ g \in t.gaps
    BY <1>1, <1>5, <2>2, <2>3
  <2>5. MessageTrue(Q, t, t, m)
    BY <2>2, <2>4 DEF MessageTrue
  <2> QED
    BY <2>2, <2>5 DEF Says, AboutSender, Message, LeadOf
<1> HIDE DEF m
<1>8. Goes(Q, R, {}, Leader, t, Result(t, {m}))
  BY <1>6, <1>7, GoesSending
<1>9. Goes(Q, R, {}, Leader, s, Result(t, {m}))
  BY <1>1, <1>3, <1>5, <1>6, <1>8, GoesFrom
<1> QED
  BY <1>9 DEF t, m, s

-----------------------------------------------------------------------------
(* The steps of the system.                                                  *)

\* The types of messages are distinct names.
LEMMA TypeNames ==
  /\ "Ordered" \in MessageTypes /\ "Request" \in MessageTypes
  /\ "Reply" \in MessageTypes /\ "GapRequest" \in MessageTypes
  /\ "GapReply" \in MessageTypes /\ "GapCommit" \in MessageTypes
  /\ "GapCommitReply" \in MessageTypes
  /\ "StateTransferRequest" \in MessageTypes
  /\ "StateTransferReply" \in MessageTypes
  /\ "ViewChangeRequest" \in MessageTypes /\ "ViewChange" \in MessageTypes
  /\ "StartView" \in MessageTypes /\ "StartViewReply" \in MessageTypes
  /\ "SyncPrepare" \in MessageTypes /\ "SyncPrepareReply" \in MessageTypes
  /\ "SyncCommit" \in MessageTypes /\ "SyncPrepareRequest" \in MessageTypes
BY Zenon DEF MessageTypes

\* A message that was sent.
LEMMA SentFields ==
  ASSUME MessagesOK, NEW t \in MessageTypes, NEW m \in Sent(t)
  PROVE  /\ m \in Message /\ m.type = t
         /\ MessageTrue(Sent("Request"), rep[Leader], rep[m.from], m)
BY DEF MessagesOK, Sent

\* The requests are finitely many, as their numbers are.
LEMMA InvContext ==
  ASSUME Inv
  PROVE  Context(Sent("Request"), rep)
<1> DEFINE Q == Sent("Request")
           f == [m \in Q |-> m.num]
<1>1. MessagesOK /\ SequencerOK /\ ReplicasOK(Q, rep)
  BY DEF Inv
<1>2. ASSUME NEW m \in Q
      PROVE  m \in RequestType
  <2>1. m \in Message /\ m.type = "Request"
    BY <1>1, TypeNames, SentFields
  <2> QED
    BY <2>1, MessageKinds
<1>3. f \in Injection(Q, 1 .. MaxMsg)
  <2>1. \A m \in Q : m.num \in 1 .. MaxMsg
    BY <1>2 DEF RequestType
  <2>2. \A m, n \in Q : m.num = n.num => m = n
    BY <1>1 DEF SequencerOK
  <2> HIDE DEF Q
  <2> QED
    BY <2>1, <2>2 DEF Injection, IsInjective
<1>4. IsFiniteSet(1 .. MaxMsg)
  BY Constants, FS_Interval, 1 \in Int
<1> HIDE DEF f
<1>5. IsFiniteSet(Q)
  BY <1>3, <1>4, FS_Injection
<1> QED
  BY <1>1, <1>2, <1>5 DEF Context

\* Messages are only added, those in out.
LEMMA SendAdds ==
  ASSUME msgs \in [MessageTypes -> SUBSET Message], NEW out, Send(out),
         out \subseteq Message
  PROVE  /\ msgs' \in [MessageTypes -> SUBSET Message]
         /\ \A t \in MessageTypes :
              /\ Sent(t) \subseteq Sent(t)'
              /\ \A m \in Sent(t)' : m \in Sent(t) \/ (m \in out /\ m.type = t)
              /\ t \notin Lost => \A m \in out : m.type = t => m \in Sent(t)'
<1>1. CASE out = {}
  <2>1. msgs' = msgs
    BY <1>1 DEF Send
  <2> QED
    BY <1>1, <2>1 DEF Sent
<1>2. CASE out # {}
  <2>1. msgs' = [t \in MessageTypes |->
                   msgs[t] \cup {m \in out : m.type = t /\ t \notin Lost}]
    BY <1>2 DEF Send
  <2>2. msgs' \in [MessageTypes -> SUBSET Message]
    BY <2>1
  <2>3. \A t \in MessageTypes :
          msgs'[t] = msgs[t] \cup {m \in out : m.type = t /\ t \notin Lost}
    BY <2>1
  <2> QED
    BY <2>2, <2>3 DEF Sent
<1> QED
  BY <1>1, <1>2

\* A step that lets the replicas and what the requests are as they are, or
\* lets them go on, and sends what is so.
LEMMA MessagesStay ==
  ASSUME MessagesOK, NEW out, Send(out),
         rep \in States, rep' \in States,
         Grows(Leader, rep[Leader], rep'[Leader]),
         \A q \in Replicas : /\ rep[q].lastOp <= rep'[q].lastOp
                             /\ rep[q].gaps \subseteq rep'[q].gaps,
         Sent("Request") \subseteq Sent("Request")',
         \A m \in out : /\ m \in Message
                        /\ MessageTrue(Sent("Request")', rep'[Leader],
                                       rep'[m.from], m)
  PROVE  MessagesOK'
<1>1. msgs \in [MessageTypes -> SUBSET Message] /\ out \subseteq Message
  BY DEF MessagesOK
<1>2. /\ msgs' \in [MessageTypes -> SUBSET Message]
      /\ \A t \in MessageTypes :
           \A m \in Sent(t)' : m \in Sent(t) \/ (m \in out /\ m.type = t)
  BY <1>1, SendAdds
<1>3. ASSUME NEW t \in MessageTypes, NEW m \in Sent(t)'
      PROVE  /\ m.type = t
             /\ MessageTrue(Sent("Request")', rep'[Leader], rep'[m.from], m)
  <2>1. CASE m \in Sent(t)
    <3>1. /\ m \in Message /\ m.type = t
          /\ MessageTrue(Sent("Request"), rep[Leader], rep[m.from], m)
      BY <2>1, SentFields
    <3>2. rep[Leader] \in State /\ rep'[Leader] \in State
      BY Constants DEF States
    <3>3. m.type \in AboutSender => m.from \in Replicas
      BY <3>1, MessageKinds, Constants DEF AboutSender, GapCommitReplyType,
         SyncPrepareReplyType
    <3>4. m.type \in AboutSender =>
            /\ rep[m.from] \in State /\ rep'[m.from] \in State
            /\ rep[m.from].lastOp <= rep'[m.from].lastOp
            /\ rep[m.from].gaps \subseteq rep'[m.from].gaps
      BY <3>3 DEF States
    <3>5. MessageTrue(Sent("Request")', rep'[Leader], rep'[m.from], m)
      BY <3>1, <3>2, <3>4, MessageStays
    <3> QED
      BY <3>1, <3>5
  <2>2. CASE m \in out /\ m.type = t
    BY <2>2
  <2> QED
    BY <1>2, <2>1, <2>2
<1> QED
  BY <1>2, <1>3 DEF MessagesOK, Sent

\* A step after which the invariant holds, and the leader's log has only grown.
Advances == Inv' /\ Grows(Leader, rep[Leader], rep'[Leader])

\* A step of replica r that ends well.
LEMMA StepKeeps ==
  ASSUME Inv, UNCHANGED <<clientVars, session, counter>>, NEW r \in Replicas,
         NEW res, Ends(Sent("Request"), rep, r, rep[r], res), Step(r, res)
  PROVE  Advances
<1> DEFINE Q == Sent("Request")
           t == res.st
           out == res.out
<1>1. /\ ReplicasOK(Q, rep) /\ MessagesOK /\ SequencerOK /\ ClientsOK
      /\ Context(Q, rep) /\ rep \in States
  BY InvContext DEF Inv, ReplicasOK
<1>2. /\ ReplicaOK(Q, rep, {}, r, t) /\ Grows(r, rep[r], t) /\ t \in State
      /\ \A m \in out : Says(Q, rep, r, t, m)
  BY DEF Ends, ReplicaOK
<1>3. rep' = [rep EXCEPT ![r] = t] /\ Send(out)
  BY DEF Step
<1> HIDE DEF t, out
<1>4. \A m \in out : m \in Message /\ m.type \notin {"Ordered", "Request"}
  BY <1>2 DEF Says
<1>5. msgs \in [MessageTypes -> SUBSET Message] /\ out \subseteq Message
  BY <1>1, <1>4 DEF MessagesOK
<1>6. Q' = Q /\ Sent("Reply") \subseteq Sent("Reply")'
  <2>1. /\ \A m \in Sent("Request")' :
             m \in Sent("Request") \/ (m \in out /\ m.type = "Request")
        /\ Sent("Request") \subseteq Sent("Request")'
        /\ Sent("Reply") \subseteq Sent("Reply")'
    BY <1>3, <1>5, TypeNames, SendAdds
  <2> QED
    BY <1>4, <2>1
<1>7. /\ ReplicasOK(Q, rep') /\ Grows(Leader, rep[Leader], rep'[Leader])
      /\ \A q \in Replicas : /\ rep[q].lastOp <= rep'[q].lastOp
                             /\ rep[q].gaps \subseteq rep'[q].gaps
  BY <1>1, <1>2, <1>3, ReplicasStay
<1>8. rep' \in States
  BY <1>7 DEF ReplicasOK
<1>9. ASSUME NEW m \in out
      PROVE  /\ m \in Message
             /\ MessageTrue(Q', rep'[Leader], rep'[m.from], m)
  <2>1. /\ m \in Message /\ (m.type \in AboutSender => m.from = r)
        /\ MessageTrue(Q, LeadOf(rep, r, t), t, m)
    BY <1>2 DEF Says
  <2>2. LeadOf(rep, r, t) = rep'[Leader] /\ rep'[r] = t
    <3>1. DOMAIN rep = Replicas
      BY <1>1 DEF States
    <3> QED
      BY <1>3, <3>1, Constants DEF LeadOf
  <2>3. rep'[Leader] \in State
    BY <1>8, Constants DEF States
  <2>4. Grows(Leader, rep'[Leader], rep'[Leader])
    BY <2>3, GrowsReflexive
  <2>5. m.type \in AboutSender =>
          /\ t \in State /\ rep'[m.from] \in State
          /\ t.lastOp <= rep'[m.from].lastOp
          /\ t.gaps \subseteq rep'[m.from].gaps
    <3>1. t.lastOp \in Nat
      BY <1>2, StateFields
    <3> QED
      BY <1>2, <2>1, <2>2, <3>1
  <2>6. MessageTrue(Q, rep'[Leader], rep'[m.from], m)
    <3>1. MessageTrue(Q, rep'[Leader], t, m)
      BY <2>1, <2>2
    <3> QED
      BY <2>1, <2>3, <2>4, <2>5, <3>1, MessageStays
  <2> QED
    BY <1>6, <2>1, <2>6
<1>10. MessagesOK'
  BY <1>1, <1>3, <1>6, <1>7, <1>8, <1>9, MessagesStay
<1>11. SequencerOK' /\ ClientsOK'
  <2>1. SequencerOK'
    BY <1>1, <1>6 DEF SequencerOK
  <2>2. ClientsOK'
    BY <1>1, <1>6 DEF ClientsOK, clientVars
  <2> QED
    BY <2>1, <2>2
<1>12. ReplicasOK(Sent("Request")', rep')
  BY <1>6, <1>7
<1> QED
  BY <1>7, <1>10, <1>11, <1>12 DEF Inv, Advances

\* ReceiveMessage.
LEMMA ReceiveKeeps ==
  ASSUME Inv, UNCHANGED <<clientVars, session, counter>>, NEW r \in Replicas,
         NEW res, Receive(r, res), Ends(Sent("Request"), rep, r, rep[r], res)
  PROVE  Advances
<1>1. Context(Sent("Request"), rep) /\ rep[r] \in State
  BY InvContext, Ready
<1>2. CASE res.st.pending = {}
  <2>1. Step(r, res)
    BY <1>2, Zenon DEF Receive
  <2> QED
    BY <2>1, StepKeeps
<1>3. CASE res.st.pending # {}
  <2>1. PICK order \in PendingOrders(res.st) : Step(r, Resumed(r, res, order))
    BY <1>3, Zenon DEF Receive, Resumed
  <2>2. Ends(Sent("Request"), rep, r, rep[r], Resumed(r, res, order))
    BY <1>1, PendingEnds
  <2> QED
    BY <2>1, <2>2, StepKeeps
<1> QED
  BY <1>2, <1>3

\* HandleClientRequest.
LEMMA HandleClientRequestKeeps ==
  ASSUME Inv, UNCHANGED <<clientVars, session, counter>>, NEW r \in Replicas,
         NEW m \in Sent("Request"), HandleClientRequest(r, m)
  PROVE  Advances
<1> DEFINE Q == Sent("Request")
<1>1. Context(Q, rep)
  BY InvContext
<1>2. Receive(r, Heard(r, rep[r], m))
  BY Zenon DEF HandleClientRequest, Heard, Waiting
<1>3. rep[r].failed = NoFailure
  BY <1>2, Zenon DEF Receive, Running
<1>4. Goes(Q, rep, {}, r, rep[r], Heard(r, rep[r], m))
  BY <1>1, <1>3, HeardGoes
<1>5. Ends(Q, rep, r, rep[r], Heard(r, rep[r], m))
  BY <1>4, GoesEnds
<1> QED
  BY <1>2, <1>5, ReceiveKeeps

\* HandleGapRequest.
LEMMA HandleGapRequestKeeps ==
  ASSUME Inv, UNCHANGED <<clientVars, session, counter>>, NEW r \in Replicas,
         NEW m \in Addressed("GapRequest", r), HandleGapRequest(r, m)
  PROVE  Advances
<1> DEFINE Q == Sent("Request")
           res == Checked(r, rep[r], m, LAMBDA s : Answered(r, s, m))
<1>1. Context(Q, rep) /\ MessagesOK
  BY InvContext DEF Inv
<1>2. m \in Sent("GapRequest") /\ m.to = r
  BY DEF Addressed
<1>3. m \in GapRequestType /\ MessageTrue(Q, rep[Leader], rep[m.from], m)
  <2>1. /\ m \in Message /\ m.type = "GapRequest"
        /\ MessageTrue(Q, rep[Leader], rep[m.from], m)
    BY <1>1, <1>2, TypeNames, SentFields
  <2> QED
    BY <2>1, MessageKinds
<1>5. Receive(r, res)
  BY Zenon DEF HandleGapRequest, Answered
<1>6. res = Answered(r, rep[r], m)
  <2>1. m.sess = 0 /\ m.view = 0
    BY <1>3 DEF GapRequestType
  <2>2. rep[r] \in State
    BY <1>1, Ready
  <2>3. /\ m.sess = rep[r].sess /\ m.view = rep[r].view
        /\ rep[r].status # "viewchange"
    BY <2>1, <2>2, CheckedPasses
  <2> QED
    BY <2>3, Zenon DEF Checked
<1> HIDE DEF res
<1>7. rep[r].failed = NoFailure
  BY <1>5, Zenon DEF Receive, Running
<1>8. Goes(Q, rep, {}, r, rep[r], Answered(r, rep[r], m))
  BY <1>1, <1>3, <1>7, AnsweredGoes
<1>9. Ends(Q, rep, r, rep[r], res)
  BY <1>6, <1>8, GoesEnds
<1> QED
  BY <1>5, <1>9, ReceiveKeeps

\* HandleGapReply.
LEMMA HandleGapReplyKeeps ==
  ASSUME Inv, UNCHANGED <<clientVars, session, counter>>, NEW r \in Replicas,
         NEW m \in Addressed("GapReply", r), HandleGapReply(r, m)
  PROVE  Advances
<1> DEFINE Q == Sent("Request")
           res == Checked(r, rep[r], m, LAMBDA s : GapReplied(r, s, m))
<1>1. Context(Q, rep) /\ MessagesOK
  BY InvContext DEF Inv
<1>2. m \in Sent("GapReply") /\ m.to = r
  BY DEF Addressed
<1>3. m \in GapReplyType /\ MessageTrue(Q, rep[Leader], rep[m.from], m)
  <2>1. /\ m \in Message /\ m.type = "GapReply"
        /\ MessageTrue(Q, rep[Leader], rep[m.from], m)
    BY <1>1, <1>2, TypeNames, SentFields
  <2> QED
    BY <2>1, MessageKinds
<1>5. Receive(r, res)
  BY Zenon DEF HandleGapReply
<1>6. res = GapReplied(r, rep[r], m)
  <2>1. m.sess = 0 /\ m.view = 0
    BY <1>3 DEF GapReplyType
  <2>2. rep[r] \in State
    BY <1>1, Ready
  <2>3. /\ m.sess = rep[r].sess /\ m.view = rep[r].view
        /\ rep[r].status # "viewchange"
    BY <2>1, <2>2, CheckedPasses
  <2> QED
    BY <2>3, Zenon DEF Checked
<1> HIDE DEF res
<1>7. rep[r].failed = NoFailure
  BY <1>5, Zenon DEF Receive, Running
<1>8. Goes(Q, rep, {}, r, rep[r], GapReplied(r, rep[r], m))
  BY <1>1, <1>3, <1>7, GapRepliedGoes
<1>9. Ends(Q, rep, r, rep[r], res)
  BY <1>6, <1>8, GoesEnds
<1> QED
  BY <1>5, <1>9, ReceiveKeeps

\* HandleGapCommit.
LEMMA HandleGapCommitKeeps ==
  ASSUME Inv, UNCHANGED <<clientVars, session, counter>>, NEW r \in Replicas,
         NEW m \in Broadcast("GapCommit", r), HandleGapCommit(r, m)
  PROVE  Advances
<1> DEFINE Q == Sent("Request")
           res == Checked(r, rep[r], m, LAMBDA s : GapCommitted(r, s, m))
<1>1. Context(Q, rep) /\ MessagesOK
  BY InvContext DEF Inv
<1>2. m \in Sent("GapCommit") /\ m.from # r
  BY DEF Broadcast
<1>3. m \in GapCommitType /\ MessageTrue(Q, rep[Leader], rep[m.from], m)
  <2>1. /\ m \in Message /\ m.type = "GapCommit"
        /\ MessageTrue(Q, rep[Leader], rep[m.from], m)
    BY <1>1, <1>2, TypeNames, SentFields
  <2> QED
    BY <2>1, MessageKinds
<1>4. r # Leader
  BY <1>2, <1>3 DEF GapCommitType
<1>5. Receive(r, res)
  BY Zenon DEF HandleGapCommit
<1>6. res = GapCommitted(r, rep[r], m)
  <2>1. m.sess = 0 /\ m.view = 0
    BY <1>3 DEF GapCommitType
  <2>2. rep[r] \in State
    BY <1>1, Ready
  <2>3. /\ m.sess = rep[r].sess /\ m.view = rep[r].view
        /\ rep[r].status # "viewchange"
    BY <2>1, <2>2, CheckedPasses
  <2> QED
    BY <2>3, Zenon DEF Checked
<1> HIDE DEF res
<1>7. rep[r].failed = NoFailure
  BY <1>5, Zenon DEF Receive, Running
<1>8. Goes(Q, rep, {}, r, rep[r], GapCommitted(r, rep[r], m))
  BY <1>1, <1>3, <1>4, <1>7, GapCommittedGoes
<1>9. Ends(Q, rep, r, rep[r], res)
  BY <1>6, <1>8, GoesEnds
<1> QED
  BY <1>5, <1>9, ReceiveKeeps

\* HandleGapCommitReply.
LEMMA HandleGapCommitReplyKeeps ==
  ASSUME Inv, UNCHANGED <<clientVars, session, counter>>, NEW r \in Replicas,
         NEW m \in Addressed("GapCommitReply", r), HandleGapCommitReply(r, m)
  PROVE  Advances
<1> DEFINE Q == Sent("Request")
           res == Checked(r, rep[r], m, LAMBDA s : GapAcknowledged(r, s, m))
<1>1. Context(Q, rep) /\ MessagesOK
  BY InvContext DEF Inv
<1>2. m \in Sent("GapCommitReply") /\ m.to = r
  BY DEF Addressed
<1>3. m \in GapCommitReplyType /\ MessageTrue(Q, rep[Leader], rep[m.from], m)
  <2>1. /\ m \in Message /\ m.type = "GapCommitReply"
        /\ MessageTrue(Q, rep[Leader], rep[m.from], m)
    BY <1>1, <1>2, TypeNames, SentFields
  <2> QED
    BY <2>1, MessageKinds
<1>4. r = Leader
  BY <1>2, <1>3 DEF GapCommitReplyType
<1>5. Receive(r, res)
  BY Zenon DEF HandleGapCommitReply
<1>6. res = GapAcknowledged(r, rep[r], m)
  <2>1. m.sess = 0 /\ m.view = 0
    BY <1>3 DEF GapCommitReplyType
  <2>2. rep[r] \in State
    BY <1>1, Ready
  <2>3. /\ m.sess = rep[r].sess /\ m.view = rep[r].view
        /\ rep[r].status # "viewchange"
    BY <2>1, <2>2, CheckedPasses
  <2> QED
    BY <2>3, Zenon DEF Checked
<1> HIDE DEF res
<1>7. rep[r].failed = NoFailure
  BY <1>5, Zenon DEF Receive, Running
<1>8. Goes(Q, rep, {}, r, rep[r], GapAcknowledged(r, rep[r], m))
  BY <1>1, <1>3, <1>4, <1>7, GapAcknowledgedGoes
<1>9. Ends(Q, rep, r, rep[r], res)
  BY <1>6, <1>8, GoesEnds
<1> QED
  BY <1>5, <1>9, ReceiveKeeps

\* HandleSyncPrepare.
LEMMA HandleSyncPrepareKeeps ==
  ASSUME Inv, UNCHANGED <<clientVars, session, counter>>, NEW r \in Replicas,
         NEW m \in Broadcast("SyncPrepare", r), HandleSyncPrepare(r, m)
  PROVE  Advances
<1> DEFINE Q == Sent("Request")
           res == Checked(r, rep[r], m, LAMBDA s : SyncPrepared(r, s, m))
<1>1. Context(Q, rep) /\ MessagesOK
  BY InvContext DEF Inv
<1>2. m \in Sent("SyncPrepare") /\ m.from # r
  BY DEF Broadcast
<1>3. m \in SyncPrepareType /\ MessageTrue(Q, rep[Leader], rep[m.from], m)
  <2>1. /\ m \in Message /\ m.type = "SyncPrepare"
        /\ MessageTrue(Q, rep[Leader], rep[m.from], m)
    BY <1>1, <1>2, TypeNames, SentFields
  <2> QED
    BY <2>1, MessageKinds
<1>4. r # Leader
  BY <1>2, <1>3 DEF SyncPrepareType
<1>5. Receive(r, res)
  BY Zenon DEF HandleSyncPrepare
<1>6. res = SyncPrepared(r, rep[r], m)
  <2>1. m.sess = 0 /\ m.view = 0
    BY <1>3 DEF SyncPrepareType
  <2>2. rep[r] \in State
    BY <1>1, Ready
  <2>3. /\ m.sess = rep[r].sess /\ m.view = rep[r].view
        /\ rep[r].status # "viewchange"
    BY <2>1, <2>2, CheckedPasses
  <2> QED
    BY <2>3, Zenon DEF Checked
<1> HIDE DEF res
<1>7. rep[r].failed = NoFailure
  BY <1>5, Zenon DEF Receive, Running
<1>8. Goes(Q, rep, {}, r, rep[r], SyncPrepared(r, rep[r], m))
  BY <1>1, <1>3, <1>4, <1>7, SyncPreparedGoes
<1>9. Ends(Q, rep, r, rep[r], res)
  BY <1>6, <1>8, GoesEnds
<1> QED
  BY <1>5, <1>9, ReceiveKeeps

\* HandleSyncPrepareReply.
LEMMA HandleSyncPrepareReplyKeeps ==
  ASSUME Inv, UNCHANGED <<clientVars, session, counter>>, NEW r \in Replicas,
         NEW m \in Addressed("SyncPrepareReply", r), HandleSyncPrepareReply(r, m)
  PROVE  Advances
<1> DEFINE Q == Sent("Request")
           res == Checked(r, rep[r], m, LAMBDA s : SyncAcknowledged(r, s, m))
<1>1. Context(Q, rep) /\ MessagesOK
  BY InvContext DEF Inv
<1>2. m \in Sent("SyncPrepareReply") /\ m.to = r
  BY DEF Addressed
<1>3. m \in SyncPrepareReplyType /\ MessageTrue(Q, rep[Leader], rep[m.from], m)
  <2>1. /\ m \in Message /\ m.type = "SyncPrepareReply"
        /\ MessageTrue(Q, rep[Leader], rep[m.from], m)
    BY <1>1, <1>2, TypeNames, SentFields
  <2> QED
    BY <2>1, MessageKinds
<1>4. r = Leader
  BY <1>2, <1>3 DEF SyncPrepareReplyType
<1>5. Receive(r, res)
  BY Zenon DEF HandleSyncPrepareReply
<1>6. res = SyncAcknowledged(r, rep[r], m)
  <2>1. m.sess = 0 /\ m.view = 0
    BY <1>3 DEF SyncPrepareReplyType
  <2>2. rep[r] \in State
    BY <1>1, Ready
  <2>3. /\ m.sess = rep[r].sess /\ m.view = rep[r].view
        /\ rep[r].status # "viewchange"
    BY <2>1, <2>2, CheckedPasses
  <2> QED
    BY <2>3, Zenon DEF Checked
<1> HIDE DEF res
<1>7. rep[r].failed = NoFailure
  BY <1>5, Zenon DEF Receive, Running
<1>8. Goes(Q, rep, {}, r, rep[r], SyncAcknowledged(r, rep[r], m))
  BY <1>1, <1>3, <1>4, <1>7, SyncAcknowledgedGoes
<1>9. Ends(Q, rep, r, rep[r], res)
  BY <1>6, <1>8, GoesEnds
<1> QED
  BY <1>5, <1>9, ReceiveKeeps

\* HandleSyncCommit.
LEMMA HandleSyncCommitKeeps ==
  ASSUME Inv, UNCHANGED <<clientVars, session, counter>>, NEW r \in Replicas,
         NEW m \in Broadcast("SyncCommit", r), HandleSyncCommit(r, m)
  PROVE  Advances
<1> DEFINE Q == Sent("Request")
           res == Checked(r, rep[r], m, LAMBDA s : SyncCommitted(r, s, m))
<1>1. Context(Q, rep) /\ MessagesOK
  BY InvContext DEF Inv
<1>2. m \in Sent("SyncCommit") /\ m.from # r
  BY DEF Broadcast
<1>3. m \in SyncCommitType /\ MessageTrue(Q, rep[Leader], rep[m.from], m)
  <2>1. /\ m \in Message /\ m.type = "SyncCommit"
        /\ MessageTrue(Q, rep[Leader], rep[m.from], m)
    BY <1>1, <1>2, TypeNames, SentFields
  <2> QED
    BY <2>1, MessageKinds
<1>4. r # Leader
  BY <1>2, <1>3 DEF SyncCommitType
<1>5. Receive(r, res)
  BY Zenon DEF HandleSyncCommit
<1>6. res = SyncCommitted(r, rep[r], m)
  <2>1. m.sess = 0 /\ m.view = 0
    BY <1>3 DEF SyncCommitType
  <2>2. rep[r] \in State
    BY <1>1, Ready
  <2>3. /\ m.sess = rep[r].sess /\ m.view = rep[r].view
        /\ rep[r].status # "viewchange"
    BY <2>1, <2>2, CheckedPasses
  <2> QED
    BY <2>3, Zenon DEF Checked
<1> HIDE DEF res
<1>7. rep[r].failed = NoFailure
  BY <1>5, Zenon DEF Receive, Running
<1>8. Goes(Q, rep, {}, r, rep[r], SyncCommitted(r, rep[r], m))
  BY <1>1, <1>3, <1>4, <1>7, SyncCommittedGoes
<1>9. Ends(Q, rep, r, rep[r], res)
  BY <1>6, <1>8, GoesEnds
<1> QED
  BY <1>5, <1>9, ReceiveKeeps

\* HandleSyncPrepareRequest: the leader aborts.
LEMMA HandleSyncPrepareRequestKeeps ==
  ASSUME Inv, UNCHANGED <<clientVars, session, counter>>, NEW r \in Replicas,
         NEW m, HandleSyncPrepareRequest(r, m)
  PROVE  Advances
<1> DEFINE res == Abort(rep[r], "unexpected message type")
<1>1. Context(Sent("Request"), rep)
  BY InvContext
<1>2. Receive(r, res)
  BY DEF HandleSyncPrepareRequest
<1>3. Ends(Sent("Request"), rep, r, rep[r], res)
  BY <1>1, Ready, AbortEnds, FailureKinds
<1> QED
  BY <1>2, <1>3, ReceiveKeeps

\* HandleStateTransferRequest.
LEMMA HandleStateTransferRequestKeeps ==
  ASSUME Inv, UNCHANGED <<clientVars, session, counter>>, NEW r \in Replicas,
         NEW m \in Addressed("StateTransferRequest", r),
         HandleStateTransferRequest(r, m)
  PROVE  Advances
<1> DEFINE Q == Sent("Request")
<1>1. Context(Q, rep) /\ MessagesOK
  BY InvContext DEF Inv
<1>2. m \in Sent("StateTransferRequest") /\ m.to = r
  BY DEF Addressed
<1>3. m \in AskType /\ r = Leader
  <2>1. m \in Message /\ m.type = "StateTransferRequest"
    BY <1>1, <1>2, TypeNames, SentFields
  <2>2. m \in AskType
    BY <2>1, MessageKinds
  <2> QED
    BY <1>2, <2>2 DEF AskType
<1>4. Receive(r, Dumped(rep[r], m))
  BY Zenon DEF HandleStateTransferRequest, Dumped
<1>5. Goes(Q, rep, {}, r, rep[r], Dumped(rep[r], m))
  BY <1>1, <1>3, DumpedGoes
<1>6. Ends(Q, rep, r, rep[r], Dumped(rep[r], m))
  BY <1>5, GoesEnds
<1> QED
  BY <1>4, <1>6, ReceiveKeeps

\* HandleStateTransferReply.
LEMMA HandleStateTransferReplyKeeps ==
  ASSUME Inv, UNCHANGED <<clientVars, session, counter>>, NEW r \in Replicas,
         NEW m \in Addressed("StateTransferReply", r),
         HandleStateTransferReply(r, m)
  PROVE  Advances
<1> DEFINE Q == Sent("Request")
<1>1. Context(Q, rep) /\ MessagesOK
  BY InvContext DEF Inv
<1>2. m \in Sent("StateTransferReply") /\ m.to = r
  BY DEF Addressed
<1>3. m \in TransferType /\ MessageTrue(Q, rep[Leader], rep[m.from], m)
  <2>1. /\ m \in Message /\ m.type = "StateTransferReply"
        /\ MessageTrue(Q, rep[Leader], rep[m.from], m)
    BY <1>1, <1>2, TypeNames, SentFields
  <2> QED
    BY <2>1, MessageKinds
<1>4. r # Leader
  BY <1>2, <1>3, Constants DEF TransferType
<1>5. Receive(r, StateTransferred(r, rep[r], m))
  BY DEF HandleStateTransferReply
<1>6. rep[r].failed = NoFailure
  BY <1>5, Zenon DEF Receive, Running
<1>7. Ends(Q, rep, r, rep[r], StateTransferred(r, rep[r], m))
  BY <1>1, <1>2, <1>3, <1>4, <1>6, StateTransferredEnds
<1> QED
  BY <1>5, <1>7, ReceiveKeeps

\* Nobody has sent a message of a view change.
LEMMA NoViewChange ==
  ASSUME Inv, NEW r
  PROVE  ~ReceiveViewChange(r)
<1>1. MessagesOK
  BY DEF Inv
<1>2. ASSUME NEW t \in {"ViewChangeRequest", "ViewChange", "StartView",
                        "StartViewReply"}
      PROVE  Sent(t) = {}
  <2>1. t \in MessageTypes
    BY <1>2, Zenon DEF MessageTypes
  <2>2. ASSUME NEW m \in Sent(t)
        PROVE  FALSE
    <3>1. m \in Message /\ m.type = t
      BY <1>1, <2>1, SentFields
    <3> QED
      BY <1>2, <3>1, MessageKinds
  <2> QED
    BY <2>2
<1>3. /\ Sent("ViewChangeRequest") = {} /\ Sent("ViewChange") = {}
      /\ Sent("StartView") = {} /\ Sent("StartViewReply") = {}
  BY <1>2
<1> QED
  BY <1>3 DEF ReceiveViewChange, Broadcast, Addressed

\* startGapRequestTimeout, gapRequestTimeout and syncTimeout.
LEMMA TimersKeep ==
  ASSUME Inv, UNCHANGED <<clientVars, session, counter>>, NEW r \in Replicas,
         StartGapRequestTimeout(r) \/ GapRequestTimeout(r) \/ SendSyncPrepare(r)
  PROVE  Advances
<1> DEFINE Q == Sent("Request")
<1>1. Context(Q, rep)
  BY InvContext
<1>2. AmLeader(r, rep[r]) <=> r = Leader
  BY <1>1, Ready
<1>3. CASE StartGapRequestTimeout(r)
  <2> DEFINE res == SendGapRequest(r, [rep[r] EXCEPT !.startGap = FALSE])
  <2>1. rep[r].startGap /\ Step(r, res)
    BY <1>3 DEF StartGapRequestTimeout
  <2>2. Goes(Q, rep, {}, r, rep[r], res)
    BY <1>1, <2>1, SendGapRequestGoes
  <2> HIDE DEF res
  <2>3. Ends(Q, rep, r, rep[r], res)
    BY <2>2, GoesEnds
  <2> QED
    BY <2>1, <2>3, StepKeeps
<1>4. CASE GapRequestTimeout(r)
  <2>1. /\ rep[r].failed = NoFailure /\ rep[r].gapRequest /\ r = Leader
        /\ Step(r, StartGapAgreement(r, rep[r]))
    BY <1>2, <1>4 DEF GapRequestTimeout, Running
  <2>2. Goes(Q, rep, {}, r, rep[r], StartGapAgreement(r, rep[r]))
    BY <1>1, <2>1, GapRequestTimeoutGoes
  <2>3. Ends(Q, rep, r, rep[r], StartGapAgreement(r, rep[r]))
    BY <2>2, GoesEnds
  <2> QED
    BY <2>1, <2>3, StepKeeps
<1>5. CASE SendSyncPrepare(r)
  <2> DEFINE res == Result(Synchronizing(rep[r]),
                           {SyncPrepareMessage(rep[r], r)})
  <2>1. Step(r, res) /\ AmLeader(r, rep[r])
    BY <1>5, Zenon DEF SendSyncPrepare, Synchronizing
  <2>2. Goes(Q, rep, {}, r, rep[r], res)
    BY <1>1, <1>2, <2>1, SendSyncPrepareGoes
  <2> HIDE DEF res
  <2>3. Ends(Q, rep, r, rep[r], res)
    BY <2>2, GoesEnds
  <2> QED
    BY <2>1, <2>3, StepKeeps
<1> QED
  BY <1>3, <1>4, <1>5

\* A replica that asks for a view change disturbs the first view.
LEMMA ViewChangeDisturbs ==
  ASSUME Inv, NEW r \in Replicas, LeaderSyncHeardTimeout(r),
         "ViewChangeRequest" \notin Lost
  PROVE  Sent("ViewChangeRequest")' # {}
<1> DEFINE s == rep[r]
           res == StartViewChange(r, s, s.sess, s.view + 1)
<1>1. Step(r, res)
  BY DEF LeaderSyncHeardTimeout
<1>2. Send(res.out)
  BY <1>1 DEF Step
<1>3. PICK m \in res.out : m.type = "ViewChangeRequest"
  <2>1. \E x : ViewChangeRequestMessage(x, r) \in res.out
    BY ResultFields, Zenon DEF StartViewChange, SendViewChange, Result
  <2>2. \A x : ViewChangeRequestMessage(x, r).type = "ViewChangeRequest"
    BY DEF ViewChangeRequestMessage
  <2> HIDE DEF res
  <2> QED
    BY <2>1, <2>2
<1> HIDE DEF res
<1>4. msgs' = [t \in MessageTypes |->
                 msgs[t] \cup {x \in res.out : x.type = t /\ t \notin Lost}]
  BY <1>2, <1>3 DEF Send
<1>5. m \in Sent("ViewChangeRequest")'
  BY <1>3, <1>4, TypeNames DEF Sent
<1> QED
  BY <1>5

\* LeaderReply returns replies of the leader.
LEMMA LeaderReplyFromLeader ==
  ASSUME NEW rs \in SUBSET ReplyType
  PROVE  LeaderReply(rs) \subseteq {x \in rs : x.from = Leader}
<1> DEFINE W == {x \in rs : x.from = Leader}
           start == [view |-> 0, sess |-> 0, lead |-> {}]
           Scan(acc, x) ==
             LET view == Larger(acc.view, x.view)
                 sess == Larger(acc.sess, x.sess)
             IN  [view |-> view, sess |-> sess,
                  lead |-> IF /\ LeaderOf(x.view) = x.from
                              /\ x.view = view /\ x.sess = sess
                           THEN {x}
                           ELSE IF x.view > acc.view THEN {} ELSE acc.lead]
           Of(n) == {x \in rs : x.from = n - 1}
           Go(acc, n) == IF Of(n) = {} THEN acc
                         ELSE Scan(acc, CHOOSE x \in Of(n) : TRUE)
           after[n \in 0 .. N] == IF n = 0 THEN start ELSE Go(after[n - 1], n)
           run(f) == [n \in 0 .. N |-> IF n = 0 THEN start ELSE Go(f[n - 1], n)]
           D == [view : {0}, sess : {0}, lead : SUBSET W]
           S == [n \in 0 .. N |-> D]
           h == [n \in 1 .. N |-> [acc \in D |-> Go(acc, n)]]
<1>1. N \in Nat /\ start \in D /\ 0 \in 0 .. N /\ N \in 0 .. N
  BY Constants
<1>2. ASSUME NEW acc \in D, NEW x \in rs
      PROVE  Scan(acc, x) \in D
  <2>1. acc.view = 0 /\ acc.sess = 0 /\ acc.lead \subseteq W
    OBVIOUS
  <2>2. x.view = 0 /\ x.sess = 0
    BY DEF ReplyType
  <2>3. Larger(acc.view, x.view) = 0 /\ Larger(acc.sess, x.sess) = 0
    BY <2>1, <2>2 DEF Larger
  <2>4. LeaderOf(x.view) = x.from => {x} \subseteq W
    BY <2>2, Constants
  <2>5. Scan(acc, x) = [view |-> 0, sess |-> 0, lead |-> Scan(acc, x).lead]
    BY <2>3
  <2>6. \/ Scan(acc, x).lead = {x} /\ LeaderOf(x.view) = x.from
        \/ Scan(acc, x).lead = {}
        \/ Scan(acc, x).lead = acc.lead
    OBVIOUS
  <2> HIDE DEF Scan, W
  <2>7. Scan(acc, x).lead \subseteq W
    BY <2>1, <2>4, <2>6
  <2> QED
    BY <2>5, <2>7
<1> HIDE DEF D, Scan, start
<1>3. ASSUME NEW n \in 1 .. N, NEW acc \in D
      PROVE  Go(acc, n) \in D
  <2>1. CASE Of(n) = {}
    BY <2>1
  <2>2. CASE Of(n) # {}
    <3> DEFINE x == CHOOSE y \in Of(n) : TRUE
    <3>1. x \in Of(n)
      BY <2>2
    <3>2. x \in rs
      BY <3>1
    <3> HIDE DEF x
    <3>3. Scan(acc, x) \in D
      BY <1>2, <3>2
    <3> QED
      BY <2>2, <3>3 DEF x
  <2> QED
    BY <2>1, <2>2
<1>4. LeaderReply(rs) = after[N].lead
  BY Zenon DEF LeaderReply, after, start, Scan
<1> HIDE DEF Go
<1>5. \A n \in 0 .. N : S[n] = D
  OBVIOUS
<1>6. ASSUME NEW n \in 1 .. N
      PROVE  n \in 0 .. N /\ n # 0 /\ n - 1 \in 0 .. N
  BY <1>1
<1> HIDE DEF S
<1>7. PICK f : IsRun(f, h, N, start) /\ \A n \in 0 .. N : f[n] \in S[n]
  <2>1. start \in S[0]
    BY <1>1, <1>5
  <2>2. IsLoop(h, N, S)
    BY <1>3, <1>5, <1>6 DEF IsLoop
  <2> HIDE DEF h
  <2> QED
    BY <1>1, <2>1, <2>2, LoopRuns
<1>8. f = run(f)
  <2> HIDE DEF h
  <2>1. ASSUME NEW n \in 0 .. N, n # 0
        PROVE  h[n][f[n - 1]] = Go(f[n - 1], n)
    <3>1. n \in 1 .. N /\ n - 1 \in 0 .. N
      BY <1>1, <2>1
    <3>2. f[n - 1] \in D
      BY <1>5, <1>7, <3>1
    <3> QED
      BY <3>1, <3>2 DEF h
  <2> QED
    BY <1>7, <2>1 DEF IsRun
<1>9. after = CHOOSE k : k = run(k)
  BY Zenon DEF after
<1> HIDE DEF after
<1>10. after = run(after)
  <2> HIDE DEF run
  <2> QED
    BY <1>8, <1>9
<1>11. after[N] \in S[N]
  <2>1. after[0] \in S[0]
    BY <1>1, <1>5, <1>10
  <2>2. ASSUME NEW n \in 1 .. N, after[n - 1] \in S[n - 1]
        PROVE  after[n] \in S[n]
    <3>1. after[n] = Go(after[n - 1], n)
      BY <1>6, <1>10
    <3>2. after[n - 1] \in D
      BY <1>5, <1>6, <2>2
    <3> QED
      BY <1>3, <1>5, <1>6, <3>1, <3>2
  <2> QED
    BY <1>1, <2>1, <2>2, LoopStays
<1>12. after[N] \in D
  BY <1>1, <1>5, <1>11
<1> HIDE DEF W
<1>13. after[N].lead \subseteq W
  BY <1>12 DEF D
<1> QED
  BY <1>4, <1>13 DEF W

\* A step of a client or of the sequencer that sends.
LEMMA OthersSend ==
  ASSUME Inv, UNCHANGED rep, NEW out, Send(out),
         \A m \in out : m \in OrderedType \cup RequestType
  PROVE  /\ MessagesOK' /\ ReplicasOK(Sent("Request")', rep')
         /\ Sent("Request") \subseteq Sent("Request")'
         /\ Sent("Reply") \subseteq Sent("Reply")'
         /\ \A m \in Sent("Request")' :
              m \in Sent("Request") \/ (m \in out /\ m.type = "Request")
<1>1. /\ MessagesOK /\ ReplicasOK(Sent("Request"), rep)
      /\ msgs \in [MessageTypes -> SUBSET Message] /\ rep \in States
  BY DEF Inv, MessagesOK, ReplicasOK
<1>2. ASSUME NEW m \in out, NEW P, NEW lead, NEW s
      PROVE  m \in Message /\ MessageTrue(P, lead, s, m)
  <2>1. m.type \in {"Ordered", "Request"}
    BY DEF OrderedType, RequestType
  <2> QED
    BY <2>1 DEF Message, MessageTrue
<1>3. /\ Sent("Request") \subseteq Sent("Request")'
      /\ Sent("Reply") \subseteq Sent("Reply")'
      /\ \A m \in Sent("Request")' :
           m \in Sent("Request") \/ (m \in out /\ m.type = "Request")
  <2>1. out \subseteq Message
    BY <1>2
  <2> QED
    BY <1>1, <2>1, TypeNames, SendAdds
<1>4. /\ Grows(Leader, rep[Leader], rep'[Leader])
      /\ \A q \in Replicas : /\ rep[q].lastOp <= rep'[q].lastOp
                             /\ rep[q].gaps \subseteq rep'[q].gaps
  <2>1. \A q \in Replicas : rep[q] \in State
    BY <1>1 DEF States
  <2>2. \A q \in Replicas : rep[q].lastOp \in Nat
    BY <2>1, StateFields
  <2>3. Grows(Leader, rep[Leader], rep[Leader])
    BY <2>1, Constants, GrowsReflexive
  <2> QED
    BY <2>2, <2>3
<1>5. rep' \in States
  BY <1>1
<1>6. MessagesOK'
  BY <1>1, <1>2, <1>3, <1>4, <1>5, MessagesStay
<1>7. ASSUME NEW s, LocalOK(Sent("Request"), s)
      PROVE  LocalOK(Sent("Request")', s)
  <2> DEFINE Q == Sent("Request")
             P == Sent("Request")'
  <2>1. Q \subseteq P /\ LocalOK(Q, s)
    BY <1>3, <1>7
  <2> HIDE DEF Q, P
  <2>2. \A op \in 1 .. s.lastOp : PlaceOK(P, s, op)
    BY <2>1 DEF LocalOK, PlaceOK
  <2>3. LocalOK(P, s)
    BY <2>1, <2>2 DEF LocalOK
  <2> QED
    BY <2>3 DEF P
<1>8. ReplicasOK(Sent("Request")', rep)
  BY <1>1, <1>7 DEF ReplicasOK
<1> QED
  BY <1>3, <1>6, <1>8

\* The replicas do not move.
LEMMA StandsStill ==
  ASSUME Inv, UNCHANGED rep
  PROVE  Grows(Leader, rep[Leader], rep'[Leader])
<1>1. rep[Leader] \in State
  BY Constants DEF Inv, ReplicasOK, States
<1> QED
  BY <1>1, GrowsReflexive

\* The clients' steps.
LEMMA ClientsKeep ==
  ASSUME Inv, ClientNext
  PROVE  Advances
<1>1. /\ rep' = rep /\ session' = session /\ counter' = counter
      /\ MessagesOK /\ ReplicasOK(Sent("Request"), rep) /\ SequencerOK
      /\ ClientsOK
  BY DEF ClientNext, Inv
<1>2. ASSUME NEW c \in Clients, Invoke(c)
      PROVE  Inv'
  <2> DEFINE q == [client |-> c, id |-> lastReqId[c] + 1]
             out == {OrderedMessage(q)}
  <2>1. /\ lastReqId[c] < MaxReq /\ Send(out) /\ accepted' = accepted
        /\ lastReqId' = [lastReqId EXCEPT ![c] = @ + 1]
        /\ pending' = [pending EXCEPT ![c] = TRUE]
    BY <1>2 DEF Invoke
  <2>2. lastReqId[c] + 1 \in 1 .. MaxReq
    BY <1>1, <2>1, Constants DEF ClientsOK
  <2>3. q \in Req
    BY <2>2 DEF Req
  <2> HIDE DEF q
  <2>4. \A m \in out : m \in OrderedType
    BY <2>3 DEF OrderedMessage, OrderedType
  <2>5. \A m \in out : m.type # "Request"
    BY <2>4 DEF OrderedType
  <2> HIDE DEF out
  <2>6. /\ MessagesOK' /\ ReplicasOK(Sent("Request")', rep')
        /\ Sent("Request") \subseteq Sent("Request")'
        /\ Sent("Reply") \subseteq Sent("Reply")'
        /\ \A m \in Sent("Request")' :
             m \in Sent("Request") \/ (m \in out /\ m.type = "Request")
    BY <1>1, <2>1, <2>4, OthersSend
  <2>7. Sent("Request")' = Sent("Request")
    BY <2>5, <2>6
  <2>8. SequencerOK'
    BY <1>1, <2>7 DEF SequencerOK
  <2>9. ClientsOK'
    <3>1. lastReqId' \in [Clients -> 0 .. MaxReq]
      <4>1. lastReqId \in [Clients -> 0 .. MaxReq] /\ lastReqId[c] + 1 \in 0 .. MaxReq
        BY <1>1, <2>2 DEF ClientsOK
      <4> QED
        BY <2>1, <4>1
    <3>2. pending' \in [Clients -> BOOLEAN]
      BY <1>1, <2>1 DEF ClientsOK
    <3> QED
      BY <1>1, <2>1, <2>6, <3>1, <3>2 DEF ClientsOK
  <2> QED
    BY <2>6, <2>8, <2>9 DEF Inv
<1>3. ASSUME NEW c \in Clients, HandleReply(c)
      PROVE  Inv'
  <2>1. PICK q \in Quorums(c) : \E lead \in LeaderReply(q) :
               accepted' = accepted \cup {lead}
    BY <1>3 DEF HandleReply
  <2>2. PICK lead \in LeaderReply(q) : accepted' = accepted \cup {lead}
    BY <2>1
  <2>3. /\ pending' = [pending EXCEPT ![c] = FALSE]
        /\ lastReqId' = lastReqId /\ msgs' = msgs
    BY <1>3 DEF HandleReply
  <2>4. q \subseteq Sent("Reply")
    BY <2>1 DEF Quorums
  <2>5. \A x \in Sent("Reply") : x \in ReplyType
    BY <1>1, TypeNames, SentFields, MessageKinds
  <2>6. lead \in q /\ lead.from = Leader
    BY <2>2, <2>4, <2>5, LeaderReplyFromLeader
  <2>7. ClientsOK'
    <3>1. pending' \in [Clients -> BOOLEAN]
      BY <1>1, <2>3 DEF ClientsOK
    <3>2. accepted' \subseteq Sent("Reply") /\ \A a \in accepted' : a.from = Leader
      BY <1>1, <2>2, <2>4, <2>6 DEF ClientsOK
    <3>3. Sent("Reply")' = Sent("Reply")
      BY <2>3 DEF Sent
    <3> QED
      BY <1>1, <2>3, <3>1, <3>2, <3>3 DEF ClientsOK
  <2>8. MessagesOK' /\ SequencerOK' /\ ReplicasOK(Sent("Request"), rep)'
    BY <1>1, <2>3 DEF MessagesOK, SequencerOK, Sent
  <2> QED
    BY <2>7, <2>8 DEF Inv
<1>4. Inv'
  BY <1>2, <1>3 DEF ClientNext
<1>5. Grows(Leader, rep[Leader], rep'[Leader])
  BY <1>1, StandsStill
<1> QED
  BY <1>4, <1>5 DEF Advances

\* The sequencer stamps a request with the next number.
LEMMA StampKeeps ==
  ASSUME Inv, session = 0, UNCHANGED <<rep, clientVars>>,
         NEW m \in Sent("Ordered"), Stamp(m)
  PROVE  Advances
<1> DEFINE n == counter + 1
           x == RequestMessage(session, n, m.req)
           out == {x}
<1>1. /\ MessagesOK /\ ReplicasOK(Sent("Request"), rep) /\ SequencerOK
      /\ ClientsOK /\ rep' = rep
  BY DEF Inv
<1>2. /\ counter < MaxMsg /\ counter' = n /\ session' = session
      /\ Send({RequestMessage(session, counter', m.req)})
  BY DEF Stamp
<1>3. Send(out)
  BY <1>2
<1>4. n \in 1 .. MaxMsg
  BY <1>1, <1>2, Constants DEF SequencerOK
<1>5. m.req \in Req
  <2>1. m \in Message /\ m.type = "Ordered"
    BY <1>1, TypeNames, SentFields
  <2> QED
    BY <2>1, MessageKinds DEF OrderedType
<1>6. x \in RequestType /\ x.num = n
  BY <1>4, <1>5 DEF RequestMessage, RequestType
<1> HIDE DEF x
<1>7. \A y \in out : y \in OrderedType \cup RequestType
  BY <1>6
<1>8. /\ MessagesOK' /\ ReplicasOK(Sent("Request")', rep')
      /\ Sent("Request") \subseteq Sent("Request")'
      /\ Sent("Reply") \subseteq Sent("Reply")'
      /\ \A y \in Sent("Request")' : y \in Sent("Request") \/ y = x
  BY <1>1, <1>3, <1>7, OthersSend
<1>9. SequencerOK'
  <2>1. session' \in Nat /\ counter' \in 0 .. MaxMsg
    BY <1>1, <1>2, <1>4 DEF SequencerOK
  <2>2. \A y \in Sent("Request") : y.num \in Nat
    <3>1. \A y \in Sent("Request") : y \in RequestType
      BY <1>1, TypeNames, SentFields, MessageKinds
    <3> QED
      BY <3>1, Constants DEF RequestType
  <2>3. /\ \A y \in Sent("Request") : y.num <= counter
        /\ \A y, z \in Sent("Request") : y.num = z.num => y = z
        /\ counter \in Nat
    BY <1>1, Constants DEF SequencerOK
  <2>4. \A y \in Sent("Request")' : y.num <= counter'
    BY <1>2, <1>6, <1>8, <2>2, <2>3
  <2>5. \A y \in Sent("Request") : y.num # x.num
    BY <1>6, <2>2, <2>3
  <2>6. \A y, z \in Sent("Request")' : y.num = z.num => y = z
    BY <1>8, <2>3, <2>5
  <2> QED
    BY <2>1, <2>4, <2>6 DEF SequencerOK
<1>10. ClientsOK'
  BY <1>1, <1>8 DEF ClientsOK, clientVars
<1>11. Grows(Leader, rep[Leader], rep'[Leader])
  BY StandsStill
<1> QED
  BY <1>8, <1>9, <1>10, <1>11 DEF Inv, Advances

\* Every step advances if the session stays the first and nobody asks for
\* another view.
LEMMA NextAdvances ==
  ASSUME Inv, session = 0, Next, session' = 0,
         \A r \in Replicas : ~LeaderSyncHeardTimeout(r)
  PROVE  Advances
<1>1. CASE ClientNext
  BY <1>1, ClientsKeep
<1>2. CASE SequencerNext
  <2>1. CASE \E m \in Sent("Ordered") : Stamp(m)
    BY <1>2, <2>1, StampKeeps DEF SequencerNext
  <2>2. ~SessionChange
    BY DEF SessionChange
  <2> QED
    BY <1>2, <2>1, <2>2 DEF SequencerNext
<1>3. CASE ReplicaNext
  <2>1. UNCHANGED <<clientVars, session, counter>>
    BY <1>3 DEF ReplicaNext
  <2>2. ASSUME NEW r \in Replicas, ReceiveNormal(r)
        PROVE  Advances
    BY <2>1, <2>2, HandleClientRequestKeeps, HandleGapRequestKeeps,
       HandleGapReplyKeeps, HandleGapCommitKeeps, HandleGapCommitReplyKeeps,
       HandleSyncPrepareKeeps, HandleSyncPrepareReplyKeeps,
       HandleSyncCommitKeeps, HandleSyncPrepareRequestKeeps, Zenon
       DEF ReceiveNormal
  <2>3. ASSUME NEW r \in Replicas, ReceiveTransfer(r)
        PROVE  Advances
    BY <2>1, <2>3, HandleStateTransferRequestKeeps,
       HandleStateTransferReplyKeeps, Zenon DEF ReceiveTransfer
  <2>4. ASSUME NEW r \in Replicas
        PROVE  ~ReceiveViewChange(r)
    BY NoViewChange
  <2>5. ASSUME NEW r \in Replicas, Timers(r)
        PROVE  Advances
    <3>1. ~LeaderSyncHeardTimeout(r)
      OBVIOUS
    <3> QED
      BY <2>1, <2>5, <3>1, TimersKeep DEF Timers
  <2> QED
    BY <1>3, <2>2, <2>3, <2>4, <2>5, Zenon DEF ReplicaNext
<1> QED
  BY <1>1, <1>2, <1>3 DEF Next

\* A session or a request for a view change is never taken back.
LEMMA StaysDisturbed ==
  ASSUME session \in Nat, Next
  PROVE  /\ session' \in Nat /\ session <= session'
         /\ Sent("ViewChangeRequest") \subseteq Sent("ViewChangeRequest")'
<1>1. session' \in Nat /\ session <= session'
  <2>1. session' = session \/ session' = session + 1
    <3>1. ClientNext => session' = session
      BY Zenon DEF ClientNext
    <3>2. SequencerNext => session' = session \/ session' = session + 1
      BY Zenon DEF SequencerNext, Stamp, SessionChange
    <3>3. ReplicaNext => session' = session
      BY Zenon DEF ReplicaNext
    <3> QED
      BY <3>1, <3>2, <3>3, Zenon DEF Next
  <2> QED
    BY <2>1
<1>2. ASSUME NEW out, Send(out)
      PROVE  Sent("ViewChangeRequest") \subseteq Sent("ViewChangeRequest")'
  BY <1>2, TypeNames DEF Send, Sent
<1>3. \/ \E out : Send(out)
      \/ UNCHANGED msgs
  <2>1. CASE ClientNext
    BY <2>1, Zenon DEF ClientNext, Invoke, HandleReply
  <2>2. CASE SequencerNext
    BY <2>2, Zenon DEF SequencerNext, Stamp, SessionChange
  <2>3. CASE ReplicaNext
    <3>1. PICK r \in Replicas : \/ ReceiveNormal(r) \/ ReceiveTransfer(r)
                                \/ ReceiveViewChange(r) \/ Timers(r)
      BY <2>3 DEF ReplicaNext
    <3>2. ASSUME NEW res, Step(r, res)
          PROVE  \E out : Send(out)
      BY <3>2 DEF Step
    <3>3. ASSUME NEW res, Receive(r, res)
          PROVE  \E out : Send(out)
      BY <3>2, <3>3, Zenon DEF Receive
    <3>4. CASE ReceiveNormal(r)
      BY <3>3, <3>4, Zenon DEF ReceiveNormal, HandleClientRequest,
         HandleGapRequest, HandleGapReply, HandleGapCommit,
         HandleGapCommitReply, HandleSyncPrepare, HandleSyncPrepareReply,
         HandleSyncCommit, HandleSyncPrepareRequest
    <3>5. CASE ReceiveTransfer(r)
      BY <3>3, <3>5, Zenon DEF ReceiveTransfer, HandleStateTransferRequest,
         HandleStateTransferReply
    <3>6. CASE ReceiveViewChange(r)
      BY <3>3, <3>6, Zenon DEF ReceiveViewChange, HandleViewChangeRequest,
         HandleViewChange, HandleStartView, HandleStartViewReply
    <3>7. CASE Timers(r)
      BY <3>2, <3>7, Zenon DEF Timers, StartGapRequestTimeout,
         GapRequestTimeout, SendSyncPrepare, LeaderSyncHeardTimeout
    <3> QED
      BY <3>1, <3>4, <3>5, <3>6, <3>7
  <2> QED
    BY <2>1, <2>2, <2>3 DEF Next
<1>4. UNCHANGED msgs =>
        Sent("ViewChangeRequest") \subseteq Sent("ViewChangeRequest")'
  BY DEF Sent
<1> QED
  BY <1>1, <1>2, <1>3, <1>4

-----------------------------------------------------------------------------
(* The invariant.                                                            *)

\* A replica that has just been constructed.
LEMMA NewReplicaOK ==
  /\ NewReplica \in State
  /\ \A Q : LocalOK(Q, NewReplica)
  /\ FollowerOK(NewReplica, {}, NewReplica)
  /\ \A R : LeaderOK(R, NewReplica)
<1> DEFINE s == NewReplica
<1>1. /\ s.status = "normal" /\ s.sess = 0 /\ s.view = 0 /\ s.log = <<>>
      /\ s.lastOp = 0 /\ s.nextMsgnum = 1 /\ s.lastCommitted = 0
      /\ s.lastExecuted = 0 /\ s.gaps = {} /\ s.pending = {} /\ s.app = <<>>
      /\ s.syncReplies = {} /\ s.startGap = FALSE /\ s.gapRequest = FALSE
      /\ s.transferEnd = 0 /\ s.prepared = {}
  BY DEF NewReplica
<1>2. s \in State
  <2>1. [c \in Clients |-> [id |-> 0, reply |-> EmptyResult]] \in TableType
    BY Constants DEF TableType, EmptyResult
  <2>2. NoFailure \in Failures
    BY FailureKinds
  <2>3. <<>> \in Seq(LogEntry) /\ <<>> \in Seq(Req)
    OBVIOUS
  <2> QED
    BY <2>1, <2>2, <2>3 DEF NewReplica, State, Normal
<1> HIDE DEF s
<1>3. Len(s.log) = 0 /\ Len(s.app) = 0
  BY <1>1
<1>4. AppOK(s)
  BY <1>3 DEF AppOK
<1>5. ASSUME NEW Q
      PROVE  LocalOK(Q, s)
  BY <1>1, <1>3, <1>4, Constants DEF LocalOK
<1>6. FollowerOK(s, {}, s)
  BY <1>1 DEF FollowerOK, Caught
<1>7. ASSUME NEW R
      PROVE  LeaderOK(R, s)
  BY <1>1 DEF LeaderOK
<1> QED
  BY <1>2, <1>5, <1>6, <1>7 DEF s

\* The invariant holds at the start.
LEMMA InitHolds == Init => FirstView
<1> SUFFICES ASSUME Init
             PROVE  FirstView
  OBVIOUS
<1>1. /\ rep = [r \in Replicas |-> NewReplica]
      /\ msgs = [t \in MessageTypes |-> {}] /\ session = 0 /\ counter = 0
      /\ lastReqId = [c \in Clients |-> 0]
      /\ pending = [c \in Clients |-> FALSE] /\ accepted = {}
  BY DEF Init, ReplicaInit, ClientInit, NetInit
<1>2. \A r \in Replicas : rep[r] = NewReplica
  BY <1>1
<1>3. rep \in States
  BY <1>1, NewReplicaOK DEF States
<1>4. ReplicasOK(Sent("Request"), rep)
  BY <1>2, <1>3, NewReplicaOK, Constants DEF ReplicasOK
<1>5. MessagesOK
  BY <1>1 DEF MessagesOK
<1>6. Sent("Request") = {}
  BY <1>1, TypeNames DEF Sent
<1>7. SequencerOK
  BY <1>1, <1>6, Constants DEF SequencerOK
<1>8. ClientsOK
  BY <1>1, Constants DEF ClientsOK
<1> QED
  BY <1>1, <1>4, <1>5, <1>7, <1>8 DEF Inv, FirstView

\* A step that leaves the first view undisturbed started in it, and advances.
LEMMA UndisturbedAdvances ==
  ASSUME FirstView, Next, Undisturbed'
  PROVE  Undisturbed /\ Advances
<1>1. /\ session \in Nat /\ session' = 0
      /\ Sent("ViewChangeRequest")' = {} /\ "ViewChangeRequest" \notin Lost
  BY DEF FirstView, Undisturbed
<1>2. /\ session' \in Nat /\ session <= session'
      /\ Sent("ViewChangeRequest") \subseteq Sent("ViewChangeRequest")'
  BY <1>1, StaysDisturbed
<1>3. session = 0
  BY <1>1, <1>2
<1>4. Sent("ViewChangeRequest") = {}
  BY <1>1, <1>2
<1>5. Undisturbed
  BY <1>1, <1>3, <1>4 DEF Undisturbed
<1>6. Inv
  BY <1>5 DEF FirstView
<1>7. \A r \in Replicas : ~LeaderSyncHeardTimeout(r)
  BY <1>1, <1>6, ViewChangeDisturbs
<1> QED
  BY <1>1, <1>3, <1>5, <1>6, <1>7, NextAdvances

\* The invariant is inductive.
LEMMA StepHolds == FirstView /\ [Next]_vars => FirstView'
<1> SUFFICES ASSUME FirstView, [Next]_vars
             PROVE  FirstView'
  OBVIOUS
<1>1. CASE Next
  <2>1. session' \in Nat
    BY <1>1, StaysDisturbed DEF FirstView
  <2>2. Undisturbed' => Inv'
    BY <1>1, UndisturbedAdvances DEF Advances
  <2> QED
    BY <2>1, <2>2 DEF FirstView
<1>2. CASE UNCHANGED vars
  <2>1. Inv' = Inv
    BY <1>2 DEF vars, Inv, ReplicasOK, MessagesOK, SequencerOK, ClientsOK, Sent
  <2>2. Undisturbed' = Undisturbed /\ session' = session
    BY <1>2 DEF vars, Undisturbed, Sent
  <2> QED
    BY <2>1, <2>2 DEF FirstView
<1> QED
  BY <1>1, <1>2

\* The inductive invariant holds in every behaviour: while the first view is
\* undisturbed, the replicas, the messages in the network, the sequencer and
\* the clients are as Inv says.
THEOREM FirstViewHolds == Spec => []FirstView
BY InitHolds, StepHolds, PTL DEF Spec

-----------------------------------------------------------------------------
(* What the invariant says of the properties.                                *)

\* The parts of the invariant, for one replica.
LEMMA InvOfReplica ==
  ASSUME Inv, NEW r \in Replicas
  PROVE  /\ rep[r] \in State /\ LocalOK(Sent("Request"), rep[r])
         /\ r # Leader => FollowerOK(rep[Leader], {}, rep[r])
         /\ r = Leader => LeaderOK(rep, rep[r])
         /\ rep[r].lastOp = Len(rep[r].log)
BY Constants DEF Inv, ReplicasOK, States, LocalOK

\* In the first view nobody but replica 0 leads.
LEMMA OnlyLeaderLeads ==
  ASSUME Inv, NEW r \in Replicas
  PROVE  /\ AmLeader(r, rep[r]) <=> r = Leader
         /\ \A q \in Replicas : Follows(q, r) => r = Leader
<1>1. rep[r].view = 0
  BY InvOfReplica, StateFields
<1>2. AmLeader(r, rep[r]) <=> r = Leader
  BY <1>1, Constants DEF AmLeader
<1> QED
  BY <1>2 DEF Follows

\* At a place that two replicas have reached both hold the same, unless one of
\* them knows that it is a gap.
LEMMA SamePlace ==
  ASSUME Inv, NEW r \in Replicas, NEW q \in Replicas, NEW op \in Nat \ {0},
         op <= rep[r].lastOp, op <= rep[q].lastOp,
         op \in rep[r].gaps <=> op \in rep[q].gaps
  PROVE  rep[r].log[op].req = rep[q].log[op].req
<1> DEFINE Q == Sent("Request")
           a == rep[r].log[op].req
           b == rep[q].log[op].req
<1>1. /\ PlaceOK(Q, rep[r], op) /\ PlaceOK(Q, rep[q], op)
  <2>1. /\ LocalOK(Q, rep[r]) /\ LocalOK(Q, rep[q])
        /\ rep[r].lastOp \in Nat /\ rep[q].lastOp \in Nat
    BY InvOfReplica, StateFields
  <2>2. op \in 1 .. rep[r].lastOp /\ op \in 1 .. rep[q].lastOp
    BY <2>1
  <2> QED
    BY <2>1, <2>2 DEF LocalOK
<1>2. CASE op \in rep[r].gaps
  BY <1>1, <1>2 DEF PlaceOK
<1>3. CASE op \notin rep[r].gaps
  <2>1. /\ RequestMessage(0, op, a) \in Q /\ RequestMessage(0, op, b) \in Q
    BY <1>1, <1>3 DEF PlaceOK
  <2>2. RequestMessage(0, op, a) = RequestMessage(0, op, b)
    <3>1. /\ RequestMessage(0, op, a).num = op
          /\ RequestMessage(0, op, b).num = op
      BY DEF RequestMessage
    <3> HIDE DEF a, b
    <3> QED
      BY <2>1, <3>1 DEF Inv, SequencerOK
  <2>3. RequestMessage(0, op, a).req = a /\ RequestMessage(0, op, b).req = b
    BY DEF RequestMessage
  <2> HIDE DEF a, b
  <2>4. a = b
    BY <2>2, <2>3
  <2> QED
    BY <2>4 DEF a, b
<1> QED
  BY <1>2, <1>3

\* As far as a follower knows the leader's gaps, its log is the leader's.
LEMMA SameAsLeader ==
  ASSUME Inv, NEW r \in Replicas, NEW p \in Nat, NEW op \in 1 .. p,
         r = Leader \/ Caught(rep[Leader], rep[r], p),
         p <= rep[Leader].lastOp, op <= rep[r].lastOp
  PROVE  rep[r].log[op].req = rep[Leader].log[op].req
<1>1. CASE r = Leader
  BY <1>1
<1>2. CASE r # Leader
  <2>1. /\ rep[r].gaps \subseteq rep[Leader].gaps
        /\ \A g \in rep[Leader].gaps : g <= p => g \in rep[r].gaps
    BY <1>2, InvOfReplica DEF FollowerOK, Caught
  <2>2. op \in Nat \ {0} /\ op <= p /\ op <= rep[Leader].lastOp
    BY InvOfReplica, StateFields, Constants
  <2>3. op \in rep[r].gaps <=> op \in rep[Leader].gaps
    BY <2>1, <2>2
  <2> QED
    BY <2>2, <2>3, SamePlace, Constants
<1> QED
  BY <1>1, <1>2

\* The smaller of two numbers.
LEMMA MinOfTwo ==
  ASSUME NEW a \in Nat, NEW b \in Nat
  PROVE  /\ Min({a, b}) \in {a, b} /\ Min({a, b}) <= a /\ Min({a, b}) <= b
<1>1. \E x \in {a, b} : \A y \in {a, b} : x <= y
  OBVIOUS
<1> QED
  BY <1>1 DEF Min

\* F followers and the leader are a quorum.
LEMMA QuorumWithLeader ==
  ASSUME NEW A \in SUBSET Followers, Cardinality(A) >= F,
         NEW B \in SUBSET Replicas, A \subseteq B, Leader \in B
  PROVE  Cardinality(B) >= QuorumSize
<1>1. IsFiniteSet(A) /\ Leader \notin A
  BY Constants, FS_Subset
<1>2. /\ IsFiniteSet(A \cup {Leader})
      /\ Cardinality(A \cup {Leader}) = Cardinality(A) + 1
      /\ Cardinality(A) \in Nat
  BY <1>1, FS_AddElement, FS_CardinalityType
<1>3. IsFiniteSet(B)
  <2>1. Replicas = Followers \cup {Leader}
    BY Constants
  <2>2. IsFiniteSet(Followers \cup {Leader})
    BY Constants, FS_AddElement
  <2> QED
    BY <2>1, <2>2, FS_Subset
<1>4. /\ Cardinality(A \cup {Leader}) <= Cardinality(B)
      /\ Cardinality(B) \in Nat
  BY <1>3, FS_Subset, FS_CardinalityType
<1> QED
  BY <1>2, <1>4, Constants DEF QuorumSize

\* The places of the first view have the right form.
LEMMA InvTypeOK ==
  ASSUME Inv
  PROVE  TypeOK
<1>1. accepted \subseteq Sent("Reply")
  BY DEF Inv, ClientsOK
<1>2. ASSUME NEW r \in Replicas
      PROVE  LET s == rep[r]
             IN  /\ s.status \in {"normal", "gapcommit", "viewchange"}
                 /\ s.sess \in 0 .. MaxSess /\ s.view \in 0 .. MaxView
                 /\ s.nextMsgnum \in 1 .. (MaxMsg + 1)
                 /\ \A op \in 1 .. Len(s.log) : s.log[op].req \in Req \cup {NoOp}
                 /\ s.lastExecuted \in 0 .. s.lastOp
                 /\ s.lastCommitted \in 0 .. s.lastOp
                 /\ s.status = "gapcommit" => AmLeader(r, s)
                 /\ \A q \in s.pending : q \in Sent("Request")
  <2> DEFINE s == rep[r]
  <2>1. s \in State /\ LocalOK(Sent("Request"), s)
    BY InvOfReplica
  <2>2. s.status = "gapcommit" => AmLeader(r, s)
    BY InvOfReplica, OnlyLeaderLeads DEF FollowerOK
  <2> HIDE DEF s
  <2>3. /\ s.status \in {"normal", "gapcommit"} /\ s.sess = 0 /\ s.view = 0
        /\ s.nextMsgnum \in Nat /\ s.lastExecuted \in Nat
        /\ s.lastCommitted \in Nat /\ s.lastOp \in Nat
    BY <2>1, StateFields
  <2>4. /\ s.nextMsgnum = s.lastOp + 1 /\ s.lastOp <= MaxMsg
        /\ s.lastExecuted <= s.lastOp /\ s.lastCommitted <= s.lastOp
        /\ s.pending \subseteq Sent("Request")
    BY <2>1 DEF LocalOK
  <2>5. \A op \in 1 .. Len(s.log) : s.log[op].req \in Req \cup {NoOp}
    BY <2>1, EntryFields DEF Item
  <2>6. /\ s.nextMsgnum \in 1 .. (MaxMsg + 1)
        /\ s.lastExecuted \in 0 .. s.lastOp /\ s.lastCommitted \in 0 .. s.lastOp
    BY <2>3, <2>4, Constants
  <2>7. s.sess \in 0 .. MaxSess /\ s.view \in 0 .. MaxView
    BY <2>3, NOPaxosBoundAssumption
  <2> QED
    BY <2>2, <2>3, <2>4, <2>5, <2>6, <2>7 DEF s
<1> QED
  BY <1>1, <1>2 DEF TypeOK

\* The followers' logs are the leader's but for requests it has given up.
LEMMA InvLogsFollowLeader ==
  ASSUME Inv
  PROVE  LogsFollowLeader
<1> SUFFICES ASSUME NEW r \in Replicas, NEW q \in Replicas, Follows(r, q),
                    NEW op \in 1 .. Min({Len(rep[r].log), Len(rep[q].log)})
             PROVE  \/ Holds(q, op, rep[r].log[op].req)
                    \/ Holds(q, op, NoOp)
  BY DEF LogsFollowLeader
<1>1. /\ q = Leader /\ rep[r].lastOp = Len(rep[r].log)
      /\ rep[q].lastOp = Len(rep[q].log)
      /\ rep[r].lastOp \in Nat /\ rep[q].lastOp \in Nat
  BY OnlyLeaderLeads, InvOfReplica, StateFields
<1>2. op \in Nat \ {0} /\ op <= rep[r].lastOp /\ op <= rep[q].lastOp
  <2> DEFINE m == Min({Len(rep[r].log), Len(rep[q].log)})
  <2>1. m \in Nat /\ m <= rep[r].lastOp /\ m <= rep[q].lastOp
    BY <1>1, MinOfTwo
  <2> HIDE DEF m
  <2>2. op \in 1 .. m
    BY DEF m
  <2> QED
    BY <1>1, <2>1, <2>2
<1>3. CASE op \in rep[r].gaps <=> op \in rep[q].gaps
  BY <1>1, <1>2, <1>3, SamePlace DEF Holds
<1>4. CASE ~(op \in rep[r].gaps <=> op \in rep[q].gaps)
  <2>1. op \in rep[q].gaps
    BY <1>1, <1>4, InvOfReplica DEF FollowerOK
  <2>2. PlaceOK(Sent("Request"), rep[q], op)
    BY <1>1, <1>2, InvOfReplica DEF LocalOK
  <2> QED
    BY <1>1, <1>2, <2>1, <2>2 DEF PlaceOK, Holds
<1> QED
  BY <1>3, <1>4

\* Nothing is executed twice.
LEMMA InvExecutedOnce ==
  ASSUME Inv
  PROVE  ExecutedOnce
<1> SUFFICES ASSUME NEW r \in Replicas
             PROVE  IsInjective(rep[r].app)
  BY DEF ExecutedOnce
<1>1. rep[r].app \in Seq(Req) /\ AppOK(rep[r])
  BY InvOfReplica, StateFields DEF LocalOK
<1> QED
  BY <1>1 DEF AppOK, IsInjective

\* As far as a replica has committed its log is the leader's.
LEMMA CommittedAsLeader ==
  ASSUME Inv, NEW r \in Replicas, NEW op \in 1 .. rep[r].lastCommitted
  PROVE  /\ op \in Nat /\ op <= rep[r].lastOp
         /\ rep[r].log[op].req = rep[Leader].log[op].req
<1>1. /\ rep[r].lastCommitted \in Nat /\ rep[r].lastOp \in Nat
      /\ rep[r].lastCommitted <= rep[r].lastOp
  BY InvOfReplica, StateFields DEF LocalOK
<1>2. op \in Nat /\ op <= rep[r].lastOp
  BY <1>1
<1>3. /\ r = Leader \/ Caught(rep[Leader], rep[r], rep[r].lastCommitted)
      /\ rep[r].lastCommitted <= rep[Leader].lastOp
  BY <1>1, InvOfReplica DEF FollowerOK, Caught
<1> QED
  BY <1>1, <1>2, <1>3, SameAsLeader

\* Replicas agree on what they have committed.
LEMMA InvCommittedAgree ==
  ASSUME Inv
  PROVE  CommittedAgree
<1> SUFFICES ASSUME NEW r \in Replicas, NEW q \in Replicas,
                    NEW op \in 1 .. Min({rep[r].lastCommitted,
                                         rep[q].lastCommitted})
             PROVE  Holds(q, op, rep[r].log[op].req)
  BY DEF CommittedAgree
<1>1. op \in 1 .. rep[r].lastCommitted /\ op \in 1 .. rep[q].lastCommitted
  <2> DEFINE m == Min({rep[r].lastCommitted, rep[q].lastCommitted})
  <2>1. rep[r].lastCommitted \in Nat /\ rep[q].lastCommitted \in Nat
    BY InvOfReplica, StateFields
  <2>2. m \in Nat /\ m <= rep[r].lastCommitted /\ m <= rep[q].lastCommitted
    BY <2>1, MinOfTwo
  <2> HIDE DEF m
  <2>3. op \in 1 .. m
    BY DEF m
  <2> QED
    BY <2>1, <2>2, <2>3
<1>2. /\ op <= rep[q].lastOp
      /\ rep[r].log[op].req = rep[Leader].log[op].req
      /\ rep[q].log[op].req = rep[Leader].log[op].req
  BY <1>1, CommittedAsLeader
<1>3. rep[q].lastOp = Len(rep[q].log)
  BY InvOfReplica
<1> QED
  BY <1>2, <1>3 DEF Holds

\* A quorum holds each gap the leader is past agreeing on.
LEMMA InvGapInQuorum ==
  ASSUME Inv
  PROVE  GapInQuorum
<1> SUFFICES ASSUME NEW q \in Replicas, Follows(q, q),
                    rep[q].status = "normal", NEW g \in rep[q].gaps
             PROVE  Cardinality({r \in Replicas : Holds(r, g, NoOp)})
                      >= QuorumSize
  BY DEF GapInQuorum
<1> DEFINE A == Holding(rep, g)
           B == {r \in Replicas : Holds(r, g, NoOp)}
<1>1. q = Leader
  BY OnlyLeaderLeads
<1>2. /\ LeaderOK(rep, rep[q]) /\ rep[q].lastOp \in Nat
      /\ g \in 1 .. rep[q].lastOp
  BY <1>1, InvOfReplica, StateFields DEF LeaderOK
<1>3. Cardinality(A) >= F
  BY <1>2 DEF LeaderOK
<1>4. ASSUME NEW r \in Replicas, g \in rep[r].gaps, g <= rep[r].lastOp
      PROVE  r \in B
  <2>1. /\ LocalOK(Sent("Request"), rep[r]) /\ rep[r].lastOp \in Nat
        /\ rep[r].lastOp = Len(rep[r].log)
    BY InvOfReplica, StateFields
  <2>2. g \in 1 .. rep[r].lastOp
    BY <1>2, <1>4, <2>1
  <2>3. rep[r].log[g].req = NoOp
    BY <1>4, <2>1, <2>2 DEF LocalOK, PlaceOK
  <2> QED
    BY <1>4, <2>1, <2>3 DEF Holds
<1>5. A \subseteq B /\ A \subseteq Followers
  BY <1>4, Constants DEF Holding
<1>6. Leader \in B
  BY <1>1, <1>2, <1>4
<1> HIDE DEF A
<1> QED
  BY <1>3, <1>5, <1>6, QuorumWithLeader

\* A quorum holds what the leader has committed.
LEMMA InvSyncInQuorum ==
  ASSUME Inv
  PROVE  SyncInQuorum
<1> SUFFICES ASSUME NEW q \in Replicas, Follows(q, q),
                    NEW op \in 1 .. rep[q].lastCommitted
             PROVE  Cardinality({r \in Replicas :
                                   Holds(r, op, rep[q].log[op].req)})
                      >= QuorumSize
  BY DEF SyncInQuorum
<1> DEFINE p == rep[q].lastCommitted
           A == Reaching(rep[q], rep, p)
           B == {r \in Replicas : Holds(r, op, rep[q].log[op].req)}
<1>1. q = Leader
  BY OnlyLeaderLeads
<1>2. /\ LeaderOK(rep, rep[q]) /\ rep[q].lastOp \in Nat /\ p \in Nat
      /\ p <= rep[q].lastOp
  BY <1>1, InvOfReplica, StateFields DEF LocalOK
<1>3. Cardinality(A) >= F
  BY <1>2 DEF LeaderOK
<1>4. ASSUME NEW r \in Replicas,
             r = Leader \/ Caught(rep[Leader], rep[r], p), p <= rep[r].lastOp
      PROVE  r \in B
  <2>1. rep[r].lastOp \in Nat /\ rep[r].lastOp = Len(rep[r].log)
    BY InvOfReplica, StateFields
  <2>2. op <= rep[r].lastOp
    BY <1>2, <1>4, <2>1
  <2>3. rep[r].log[op].req = rep[q].log[op].req
    <3> HIDE DEF p
    <3>1. op \in 1 .. p
      BY DEF p
    <3> QED
      BY <1>1, <1>2, <1>4, <2>2, <3>1, SameAsLeader
  <2> QED
    BY <2>1, <2>2, <2>3 DEF Holds
<1>5. A \subseteq B /\ A \subseteq Followers
  BY <1>1, <1>4, Constants DEF Reaching, Reached
<1>6. Leader \in B
  BY <1>1, <1>2, <1>4
<1> HIDE DEF A
<1> QED
  BY <1>3, <1>5, <1>6, QuorumWithLeader

\* A completed request is where its client was told.
LEMMA InvAcceptedStays ==
  ASSUME Inv
  PROVE  AcceptedStays
<1> SUFFICES ASSUME NEW a \in accepted, NEW r \in Replicas,
                    \/ Follows(r, r)
                    \/ rep[r].lastCommitted >= a.opnum
             PROVE  Holds(r, a.opnum, a.req)
  BY Zenon DEF AcceptedStays
<1>1. a \in Sent("Reply") /\ a.from = Leader /\ MessagesOK
  BY DEF Inv, ClientsOK
<1>2. /\ a.type = "Reply"
      /\ MessageTrue(Sent("Request"), rep[Leader], rep[a.from], a)
  BY <1>1, TypeNames, SentFields
<1>3. /\ a.opnum \in 1 .. rep[Leader].lastOp
      /\ rep[Leader].log[a.opnum].req = a.req
  BY <1>1, <1>2 DEF MessageTrue
<1>4. /\ rep[r].lastOp = Len(rep[r].log) /\ rep[r].lastOp \in Nat
      /\ rep[r].lastCommitted \in Nat /\ rep[Leader].lastOp \in Nat
  BY InvOfReplica, StateFields, Constants
<1>5. CASE Follows(r, r)
  <2>1. r = Leader
    BY <1>5, OnlyLeaderLeads
  <2> QED
    BY <1>3, <1>4, <2>1 DEF Holds
<1>6. CASE rep[r].lastCommitted >= a.opnum
  <2>1. a.opnum \in 1 .. rep[r].lastCommitted
    BY <1>3, <1>4, <1>6
  <2>2. /\ a.opnum <= rep[r].lastOp
        /\ rep[r].log[a.opnum].req = rep[Leader].log[a.opnum].req
    BY <2>1, CommittedAsLeader
  <2> QED
    BY <1>3, <1>4, <2>2 DEF Holds
<1> QED
  BY <1>5, <1>6


-----------------------------------------------------------------------------
(* The theorems.                                                             *)

\* While the first view is undisturbed every replica keeps the order of the
\* places in its log (executed and committed within what it has), and what is
\* pending was stamped by the sequencer.
THEOREM FirstViewTypeOK == Spec => [](Undisturbed => TypeOK)
<1>1. FirstView => (Undisturbed => TypeOK)
  BY InvTypeOK DEF FirstView
<1> QED
  BY <1>1, FirstViewHolds, PTL

\* A follower has nothing in a place of its log where the leader has something
\* else, except a request the leader has given up since: what HandleSyncPrepare
\* assumes of the gaps.
THEOREM FirstViewLogsFollowLeader == Spec => [](Undisturbed => LogsFollowLeader)
<1>1. FirstView => (Undisturbed => LogsFollowLeader)
  BY InvLogsFollowLeader DEF FirstView
<1> QED
  BY <1>1, FirstViewHolds, PTL

\* No replica executes a request twice, however often the client repeats it and
\* the sequencer stamps it (the client table of ExecuteUptoOp).
THEOREM FirstViewExecutedOnce == Spec => [](Undisturbed => ExecutedOnce)
<1>1. FirstView => (Undisturbed => ExecutedOnce)
  BY InvExecutedOnce DEF FirstView
<1> QED
  BY <1>1, FirstViewHolds, PTL

\* Replicas that have committed a place agree on it: a gap agreement and a
\* synchronization never leave a request at one and a gap at another.
THEOREM FirstViewCommittedAgree == Spec => [](Undisturbed => CommittedAgree)
<1>1. FirstView => (Undisturbed => CommittedAgree)
  BY InvCommittedAgree DEF FirstView
<1> QED
  BY <1>1, FirstViewHolds, PTL

\* A leader that has answered a gap agreement (HandleGapCommitReply) has a quorum
\* that holds each of its gaps, however the answers were lost or repeated.
THEOREM FirstViewGapInQuorum == Spec => [](Undisturbed => GapInQuorum)
<1>1. FirstView => (Undisturbed => GapInQuorum)
  BY InvGapInQuorum DEF FirstView
<1> QED
  BY <1>1, FirstViewHolds, PTL

\* What HandleSyncPrepareReply commits is in the logs of a quorum.
THEOREM FirstViewSyncInQuorum == Spec => [](Undisturbed => SyncInQuorum)
<1>1. FirstView => (Undisturbed => SyncInQuorum)
  BY InvSyncInQuorum DEF FirstView
<1> QED
  BY <1>1, FirstViewHolds, PTL

\* A request that a client completed keeps its place at the leader, and at
\* whoever has committed that far.
THEOREM FirstViewAcceptedStays == Spec => [](Undisturbed => AcceptedStays)
<1>1. FirstView => (Undisturbed => AcceptedStays)
  BY InvAcceptedStays DEF FirstView
<1> QED
  BY <1>1, FirstViewHolds, PTL

\* "All operations upto lastCommittedOp are guaranteed to be in the stable log"
\* (nopaxos/replica.h) holds until a view change: only a rewind breaks it.
THEOREM FirstViewCommittedInLog == Spec => [](Undisturbed => CommittedInLog)
<1>1. Inv => CommittedInLog
  BY InvOfReplica DEF CommittedInLog, LocalOK
<1>2. FirstView => (Undisturbed => CommittedInLog)
  BY <1>1 DEF FirstView
<1> QED
  BY <1>2, FirstViewHolds, PTL

\* No ASSERT and no Panic of the code fails in the first view, whatever the
\* network does, but the two that NoAbort names.
THEOREM FirstViewAborts == Spec => [](Undisturbed => NoAbort)
<1>1. Inv => NoAbort
  BY InvOfReplica, StateFields DEF NoAbort, Failures
<1>2. FirstView => (Undisturbed => NoAbort)
  BY <1>1 DEF FirstView
<1> QED
  BY <1>2, FirstViewHolds, PTL

\* The leader's log only grows, entry by entry, and a place of it that was a
\* request is never declared a gap later, nor the reverse.
LeaderLogGrows ==
  LET s == rep[Leader]
      t == rep'[Leader]
  IN  /\ s.lastOp <= t.lastOp
      /\ \A op \in 1 .. s.lastOp :
           t.log[op] = s.log[op] /\ (op \in t.gaps <=> op \in s.gaps)

\* No step that leaves the first view undisturbed takes from the leader's log
\* or changes it: gaps are decided at its end only.
THEOREM FirstViewLeaderLogGrows ==
  Spec => [][Undisturbed' => LeaderLogGrows]_vars
<1>1. FirstView /\ [Next]_vars => [Undisturbed' => LeaderLogGrows]_vars
  <2> SUFFICES ASSUME FirstView, Next, Undisturbed'
               PROVE  LeaderLogGrows
    OBVIOUS
  <2> DEFINE s == rep[Leader]
             t == rep'[Leader]
  <2>1. Grows(Leader, s, t)
    BY UndisturbedAdvances DEF Advances
  <2>2. /\ s.lastOp <= t.lastOp /\ s.gaps \subseteq t.gaps
        /\ \A op \in 1 .. s.lastOp : t.log[op] = s.log[op]
        /\ \A g \in t.gaps : g <= s.lastOp => g \in s.gaps
    BY <2>1 DEF Grows
  <2>3. s.lastOp \in Nat
    <3>1. Inv
      BY UndisturbedAdvances DEF FirstView
    <3> QED
      BY <3>1, InvOfReplica, StateFields, Constants
  <2> HIDE DEF s, t
  <2>4. \A op \in 1 .. s.lastOp : op <= s.lastOp
    BY <2>3
  <2>5. \A op \in 1 .. s.lastOp : op \in t.gaps <=> op \in s.gaps
    BY <2>2, <2>4
  <2> QED
    BY <2>2, <2>5 DEF LeaderLogGrows, s, t
<1> QED
  BY <1>1, FirstViewHolds, PTL DEF Spec

\* If no timeout starts another view and no other sequencer takes over, the
\* first view is never disturbed: the handlers themselves never ask for a view
\* change.  All theorems above then hold of the whole specification.
THEOREM OneViewUndisturbed ==
  ASSUME MaxView = 0, MaxSess = 0, "ViewChangeRequest" \notin Lost
  PROVE  Spec => []Undisturbed
<1> DEFINE Ind == Undisturbed /\ Inv
<1>1. Init => Ind
  <2> SUFFICES ASSUME Init
               PROVE  Ind
    OBVIOUS
  <2>1. session = 0 /\ msgs = [t \in MessageTypes |-> {}]
    BY DEF Init, NetInit
  <2>2. Undisturbed
    BY <2>1, TypeNames DEF Undisturbed, Sent
  <2> QED
    BY <2>2, InitHolds DEF FirstView
<1>2. Ind /\ [Next]_vars => Ind'
  <2> SUFFICES ASSUME Undisturbed, Inv, [Next]_vars
               PROVE  Undisturbed' /\ Inv'
    OBVIOUS
  <2>1. CASE UNCHANGED vars
    <3>1. Inv' = Inv
      BY <2>1 DEF vars, Inv, ReplicasOK, MessagesOK, SequencerOK, ClientsOK,
                  Sent
    <3>2. Undisturbed' = Undisturbed
      BY <2>1 DEF vars, Undisturbed, Sent
    <3> QED
      BY <3>1, <3>2
  <2>2. CASE Next
    <3>1. session = 0
      BY DEF Undisturbed
    <3>2. \A r \in Replicas : ~LeaderSyncHeardTimeout(r)
      <4>1. \A r \in Replicas : rep[r].view = 0
        BY InvOfReplica, StateFields
      <4> QED
        BY <4>1 DEF LeaderSyncHeardTimeout
    <3>3. session' = 0
      <4>1. ~SessionChange
        BY <3>1 DEF SessionChange
      <4>2. ClientNext => session' = session
        BY Zenon DEF ClientNext
      <4>3. SequencerNext => session' = session
        BY <4>1, Zenon DEF SequencerNext, Stamp
      <4>4. ReplicaNext => session' = session
        BY Zenon DEF ReplicaNext
      <4> QED
        BY <2>2, <3>1, <4>2, <4>3, <4>4 DEF Next
    <3>4. Inv'
      BY <2>2, <3>1, <3>2, <3>3, NextAdvances DEF Advances
    <3>5. Sent("ViewChangeRequest")' = {}
      <4>1. \A m \in Message : m.type # "ViewChangeRequest"
        BY MessageKinds
      <4>2. /\ msgs' \in [MessageTypes -> SUBSET Message]
            /\ \A m \in msgs'["ViewChangeRequest"] :
                 m.type = "ViewChangeRequest"
        BY <3>4, TypeNames DEF Inv, MessagesOK
      <4>3. msgs'["ViewChangeRequest"] \subseteq Message
        BY <4>2, TypeNames
      <4> QED
        BY <4>1, <4>2, <4>3 DEF Sent
    <3> QED
      BY <3>3, <3>4, <3>5 DEF Undisturbed
  <2> QED
    BY <2>1, <2>2
<1>3. Ind => Undisturbed
  OBVIOUS
<1> HIDE DEF Ind
<1> QED
  BY <1>1, <1>2, <1>3, PTL DEF Spec
=============================================================================
