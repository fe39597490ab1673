-------------------------- MODULE FastPaxosReplica --------------------------
(***************************************************************************)
(* The Fast Paxos replica (fastpaxos/replica.cc), its messages             *)
(* (fastpaxos/fastpaxos-proto.proto) and the network.                      *)
(*                                                                         *)
(* A client sends its request to every replica.  A follower puts it at the *)
(* next place of its log and offers that place to the leader (fast path);  *)
(* enough offers that match the leader's log commit.  Otherwise the leader *)
(* sends what it has (slow path): entries up to lastSlowPath are the       *)
(* leader's, those after it only an offer.                                 *)
(*                                                                         *)
(* The view never changes: no code starts another one, so the branches for *)
(* a message of a later or earlier view are dead and replica 0 leads.      *)
(* msgs is the set of all messages ever sent; a message may be taken any   *)
(* number of times or never, so that what only repeats a message, or only  *)
(* spares a repetition (lastRequestStateTransferOpnum and its timer), is   *)
(* left out.  A failed ASSERT or a Panic sets failed, and the replica      *)
(* takes no further step.                                                  *)
(***************************************************************************)
EXTENDS Integers, SequencesExt

CONSTANTS
  Leader,        \* the replica with index 0
  Followers,     \* the other replicas of the configuration
  F,             \* configuration.f, the failures tolerated
  Clients,       \* the client ids
  MaxReq,        \* bound: requests per client
  TransferAt,    \* bound: the lastCommitted at which the leader transfers its log
  Lost           \* bound: the message types the network never delivers

ASSUME FastPaxosAssumption ==
  /\ Leader \notin Followers /\ IsFiniteSet(Followers)
  /\ F \in Nat /\ MaxReq \in Nat

VARIABLES
  msgs,          \* the set of messages sent so far
  rep            \* the replicas' states

Replicas == {Leader} \cup Followers

\* The PrepareOKs of others that make a quorum: QuorumSize() - 1 on the slow
\* path, FastQuorumSize() - 1 on the fast path.
SlowQuorum == F
FastQuorum == F + (F + 1) \div 2

\* A request is named by clientid and clientreqid; a reply's result by the
\* request and the place it was executed at.
Req == [client : Clients, id : 1 .. MaxReq]

RequestMessage(q) == [type |-> "Request", req |-> q]
ReplyMessage(op, q) == [type |-> "Reply", opnum |-> op, req |-> q]
PrepareMessage(op, q) == [type |-> "Prepare", opnum |-> op, req |-> q]
PrepareOKMessage(op, q, slow, r) ==
  [type |-> "PrepareOK", opnum |-> op, req |-> q, slowpath |-> slow,
   from |-> r]
CommitMessage(op, q) == [type |-> "Commit", opnum |-> op, req |-> q]
RequestStateTransferMessage(op, r) ==
  [type |-> "RequestStateTransfer", opnum |-> op, from |-> r]
StateTransferMessage(begin, entries, committed, to) ==
  [type |-> "StateTransfer", begin |-> begin, entries |-> entries,
   opnum |-> committed, to |-> to]
UnloggedRequestMessage(q, to) ==
  [type |-> "UnloggedRequest", req |-> q, to |-> to]
UnloggedReplyMessage(q) == [type |-> "UnloggedReply", req |-> q]

Sent(type) == {m \in msgs : m.type = type}
Send(out) == msgs' = msgs \cup {m \in out : m.type \notin Lost}

-----------------------------------------------------------------------------
\* The state of a replica.  table holds the id of the client's last request and
\* the place of its reply, 0 without one (replied); oks is
\* both quorum sets, without what was for committed places; app is the requests
\* executed; out collects what a handler sends.  pendingPrepares and
\* pendingOKs are sets: a second copy of a message in these lists does what a
\* second delivery of it does.
NewReplica ==
  [lastCommitted |-> 0, lastFast |-> 0, lastSlow |-> 0, log |-> <<>>,
   table |-> [c \in Clients |-> [id |-> 0, reply |-> 0]],
   addrs |-> {}, app |-> <<>>, oks |-> {},
   pendingPrepares |-> {}, pendingOKs |-> {}, lastPrepare |-> {},
   failed |-> "", out |-> {}]

ReplicaInit == msgs = {} /\ rep = [r \in Replicas |-> NewReplica]

Larger(a, b) == IF a > b THEN a ELSE b
Emit(s, out) == [s EXCEPT !.out = @ \cup out]
Abort(s, where) == [s EXCEPT !.failed = where]

\* Mutant of UpdateClientTable: the table is written at commit only.
UpdateClientTableLate(s, reqs) == s

\* Mutant of UpdateClientTable: the reply of the previous request stays.
UpdateClientTableKeep(s, reqs) ==
  [s EXCEPT !.table = [c \in Clients |->
     [@[c] EXCEPT !.id = Max({@} \cup {q.id : q \in {x \in reqs :
                                                    x.client = c}})]]]

\* UpdateClientTable for a set of requests.
UpdateClientTable(s, reqs) ==
  [s EXCEPT !.table =
     [c \in Clients |->
        LET ids == {q.id : q \in {x \in reqs : x.client = c}}
        IN  IF \E i \in ids : i > s.table[c].id
            THEN [id |-> Max(ids), reply |-> 0] ELSE s.table[c]]]

\* Mutant of CommitUpTo: a commit on the fast path leaves lastSlowPath behind.
CommitUpToFast(s, upto) ==
  IF upto <= s.lastCommitted THEN s
  ELSE [s EXCEPT !.lastCommitted = upto,
                 !.app = @ \o SubSeq(s.log, s.lastCommitted + 1, upto)]

\* CommitUpTo: execute in order, remember the latest reply of every client and
\* answer those whose address is known.
CommitUpTo(s, upto) ==
  LET ops == (s.lastCommitted + 1) .. upto
      Mine(c) == {op \in ops : s.log[op].client = c}
      Latest(c) == {op \in Mine(c) :
                      /\ s.log[op].id >= s.table[c].id
                      /\ \A o \in Mine(c) : s.log[o].id <= s.log[op].id}
      Entry(c) == LET op == Max(Latest(c))
                  IN  [id |-> s.log[op].id, reply |-> op]
  IN  IF upto <= s.lastCommitted THEN s
      ELSE IF upto > Len(s.log) \/ upto > s.lastFast
      THEN Abort(s, "CommitUpTo")
      ELSE Emit([s EXCEPT
                   !.lastCommitted = upto, !.lastSlow = Larger(@, upto),
                   !.oks = {x \in @ : x.opnum > upto},
                   !.app = @ \o SubSeq(s.log, s.lastCommitted + 1, upto),
                   !.table = [c \in Clients |-> IF Latest(c) = {} THEN @[c]
                                                ELSE Entry(c)]],
                {ReplyMessage(op, s.log[op]) :
                   op \in {o \in ops : s.log[o].client \in s.addrs}})

RequestStateTransfer(r, s) ==
  Emit(s, {RequestStateTransferMessage(s.lastCommitted, r)})

\* ResendPrepare: only the last Prepare, and only with something uncommitted.
ResendPrepare(s) ==
  IF s.lastSlow = s.lastCommitted THEN s ELSE Emit(s, s.lastPrepare)

Running(r) == rep[r].failed = ""

\* The end of every handler and timer.
Step(r, s) ==
  /\ rep' = [rep EXCEPT ![r] = [s EXCEPT !.out = {}]]
  /\ Send(s.out)

-----------------------------------------------------------------------------
\* Mutant of PreparedOK: a fast-path answer is not compared with the log.
PreparedOKBlind(s, m) ==
  LET t == [s EXCEPT !.oks = @ \cup {[opnum |-> m.opnum, from |-> m.from,
                                     slowpath |-> m.slowpath]}]
      count == Cardinality({x \in t.oks : x.opnum = m.opnum})
  IN  IF m.opnum <= s.lastCommitted \/ m.opnum > s.lastSlow THEN s
      ELSE IF count < FastQuorum THEN t ELSE CommitUpTo(t, m.opnum)

\* HandlePrepareOK at the leader.  An answer for a place the leader has not
\* filled waits; a fast-path answer with another request makes the leader send
\* its Prepare; a quorum of either kind commits the place and all before it.
PreparedOK(s, m) ==
  LET t == [s EXCEPT !.oks = @ \cup {[opnum |-> m.opnum, from |-> m.from,
                                     slowpath |-> m.slowpath]}]
      count == Cardinality({x \in t.oks : /\ x.opnum = m.opnum
                                          /\ x.slowpath = m.slowpath})
      need == IF m.slowpath THEN SlowQuorum ELSE FastQuorum
  IN  IF m.opnum <= s.lastCommitted THEN s
      ELSE IF m.opnum > s.lastSlow
      THEN [s EXCEPT !.pendingOKs = @ \cup {m}]
      ELSE IF ~m.slowpath /\ s.log[m.opnum] # m.req THEN ResendPrepare(s)
      ELSE IF count < need THEN t
      ELSE Emit(CommitUpTo(t, m.opnum),
                IF count > need THEN {}
                ELSE {CommitMessage(m.opnum, s.log[m.opnum])})

HandlePrepareOK(r, m) ==
  /\ r = Leader /\ Running(r)
  /\ Step(r, PreparedOK(rep[r], m))

\* Mutant of PreparedBy: an entry of the fast path is kept.
PreparedByKeep(r, s, m) ==
  IF m.opnum # s.lastSlow + 1 THEN s
  ELSE Emit([s EXCEPT !.log = IF m.opnum > s.lastFast THEN Append(@, m.req)
                              ELSE @,
                      !.lastFast = Larger(@, m.opnum), !.lastSlow = m.opnum],
            {PrepareOKMessage(m.opnum, m.req, TRUE, r)})

\* Mutant of PreparedBy: a Prepare beyond the next place is dropped.
PreparedByDrop(r, s, m) ==
  LET t == [UpdateClientTable(s, {m.req}) EXCEPT
              !.log = IF m.opnum > s.lastFast THEN Append(@, m.req)
                      ELSE [@ EXCEPT ![m.opnum] = m.req],
              !.lastFast = Larger(@, m.opnum), !.lastSlow = m.opnum]
  IN  IF m.opnum > s.lastSlow + 1 THEN s
      ELSE Emit(IF m.opnum <= s.lastSlow THEN s ELSE t,
                {PrepareOKMessage(m.opnum, m.req, TRUE, r)})

\* HandlePrepare: the leader's request for the place after the slow path
\* replaces what the replica has there.  With a place missing, the replica asks
\* for it and keeps the message.
PreparedBy(r, s, m) ==
  LET op == m.opnum
      ok == {PrepareOKMessage(op, m.req, TRUE, r)}
      t == [UpdateClientTable(s, {m.req}) EXCEPT
              !.log = IF op > s.lastFast THEN Append(@, m.req)
                      ELSE [@ EXCEPT ![op] = m.req],
              !.lastFast = Larger(@, op), !.lastSlow = op]
  IN  IF op <= s.lastSlow THEN Emit(s, ok)
      ELSE IF op > s.lastSlow + 1
      THEN [RequestStateTransfer(r, s) EXCEPT !.pendingPrepares = @ \cup {m}]
      ELSE Emit(t, ok)

HandlePrepare(r, m) ==
  /\ r # Leader /\ Running(r)
  /\ Step(r, PreparedBy(r, rep[r], m))

\* The messages kept in pendingPrepareOKs or pendingPrepares are handled again,
\* in the given order.
HandlePending(r, s, order) ==
  LET after[i \in 0 .. Len(order)] ==
        IF i = 0 THEN s
        ELSE IF order[i].type = "PrepareOK" THEN PreparedOK(after[i - 1], order[i])
        ELSE PreparedBy(r, after[i - 1], order[i])
  IN  after[Len(order)]

\* A request that is new to the replica: it gets the next place.  The leader
\* keeps the Prepare for later and takes up the answers that came first, in the
\* given order.
Assign(r, s, q, order) ==
  LET op == s.lastFast + 1
      t == [UpdateClientTable(s, {q}) EXCEPT
              !.log = Append(@, q), !.lastFast = op]
      led == [t EXCEPT !.lastSlow = op, !.lastPrepare = {PrepareMessage(op, q)},
                       !.pendingOKs = {}]
  IN  IF r # Leader THEN Emit(t, {PrepareOKMessage(op, q, FALSE, r)})
      ELSE IF s.lastFast # s.lastSlow THEN Abort(s, "HandleRequest")
      ELSE HandlePending(r, led, order)

\* HandleRequest: a stale request is ignored, a repeated one answered if there
\* is a reply.
HandleRequest(r, m) ==
  LET s == [rep[r] EXCEPT !.addrs = @ \cup {m.req.client}]
      known == s.table[m.req.client]
  IN  /\ Running(r)
      /\ \/ /\ m.req.id <= known.id
            /\ Step(r, IF m.req.id = known.id /\ known.reply > 0
                       THEN Emit(s, {ReplyMessage(known.reply, m.req)}) ELSE s)
         \/ /\ m.req.id > known.id
            /\ \E order \in SetToSeqs(s.pendingOKs) :
                 Step(r, Assign(r, s, m.req, order))

\* HandleUnloggedRequest: answered at once, without the log.
HandleUnloggedRequest(r, m) ==
  /\ Running(r) /\ m.to = r
  /\ Step(r, Emit(rep[r], {UnloggedReplyMessage(m.req)}))

\* resendPrepareTimeout.
ResendPrepareTimeout(r) ==
  /\ r = Leader /\ Running(r)
  /\ Step(r, ResendPrepare(rep[r]))

\* Mutant of Committed: a fast-path commit is taken out of order.
CommittedAny(r, s, m) ==
  IF m.opnum <= s.lastCommitted \/ m.opnum > s.lastFast THEN s
  ELSE CommitUpTo([s EXCEPT !.log[m.opnum] = m.req], m.opnum)

\* Mutant of Committed: the log may be shorter.
CommittedShort(r, s, m) ==
  IF m.opnum <= s.lastCommitted THEN s ELSE CommitUpTo(s, m.opnum)

\* HandleCommit carries the request: it may set the place after the slow path.
Committed(r, s, m) ==
  IF m.opnum <= s.lastCommitted THEN s
  ELSE IF m.opnum > s.lastFast THEN RequestStateTransfer(r, s)
  ELSE IF m.opnum > s.lastSlow + 1 THEN s
  ELSE CommitUpTo(IF m.opnum > s.lastSlow
                  THEN [s EXCEPT !.log[m.opnum] = m.req] ELSE s, m.opnum)

HandleCommit(r, m) ==
  /\ r # Leader /\ Running(r)
  /\ Step(r, Committed(r, rep[r], m))

\* HandleRequestStateTransfer: the log after the requester's committed part.
HandleRequestStateTransfer(r, m) ==
  LET s == rep[r]
  IN  /\ r = Leader /\ Running(r) /\ s.lastCommitted \in TransferAt
      /\ Step(r, IF s.lastSlow # s.lastFast
                 THEN Abort(s, "HandleRequestStateTransfer")
                 ELSE Emit(s, {StateTransferMessage(m.opnum,
                                 SubSeq(s.log, m.opnum + 1, Len(s.log)),
                                 s.lastCommitted, m.from)}))

\* HandleStateTransfer up to the assertions: entries after the slow path
\* replace the replica's or extend its log.
Install(s, m) ==
  LET last == m.begin + Len(m.entries)
      log == [op \in 1 .. Larger(Len(s.log), last) |->
                IF op > s.lastSlow /\ op <= last THEN m.entries[op - m.begin]
                ELSE s.log[op]]
  IN  IF m.begin > s.lastSlow THEN Abort(s, "HandleStateTransfer")
      ELSE [s EXCEPT !.log = log, !.lastSlow = Larger(@, last),
                     !.lastFast = Larger(@, last)]

\* SendPrepareOKs: the slow-path entries from opnum from on that are not
\* committed.
SendPrepareOKs(r, s, from) ==
  LET ops == {op \in from .. s.lastSlow : op > s.lastCommitted}
  IN  Emit(UpdateClientTable(s, {s.log[op] : op \in ops}),
           {PrepareOKMessage(op, s.log[op], TRUE, r) : op \in ops})

\* HandleStateTransfer: install, execute what the leader has, acknowledge, and
\* take up the Prepares kept, in the given order.
Transferred(r, s, m, order) ==
  LET t == Install(s, m)
      u == SendPrepareOKs(r, CommitUpTo(t, m.opnum), s.lastSlow)
  IN  IF t.failed # "" \/ m.opnum > t.lastSlow \/ t.lastSlow > t.lastFast
      THEN Abort(t, "HandleStateTransfer")
      ELSE HandlePending(r, [u EXCEPT !.pendingPrepares = {}], order)

HandleStateTransfer(r, m) ==
  /\ Running(r) /\ m.to = r
  /\ \E order \in SetToSeqs(rep[r].pendingPrepares) :
       Step(r, Transferred(r, rep[r], m, order))
=============================================================================
