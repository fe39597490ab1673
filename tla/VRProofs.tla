------------------------------ MODULE VRProofs ------------------------------
(***************************************************************************)
(* Proofs about VR for any number of replicas and clients, any F, any      *)
(* batch size and any other bound: what holds as long as no replica has    *)
(* started a view change or restarted, whatever the network loses, repeats *)
(* or reorders.  A handler is a composition of operators on one replica's  *)
(* state, so the invariant is stated for a function R of replicas' states  *)
(* that stands for rep in the middle of a handler too.                     *)
(***************************************************************************)
EXTENDS VR, DataLemmas

\* Nobody has left the first view, and nobody has restarted.
Undisturbed ==
  \A m \in msgs : m.type \notin {"StartViewChange", "Recovery"}

Leader == 0
Followers == 1 .. (N - 1)

\* The messages of the first view.
PrepareType ==
  [type : {"Prepare"}, view : {0}, batchstart : Nat, reqs : Seq(Req),
   opnum : Nat, from : {Leader}]
PrepareOKType ==
  [type : {"PrepareOK"}, view : {0}, opnum : Nat, from : Followers,
   to : {Leader}]
CommitType == [type : {"Commit"}, view : {0}, opnum : Nat, from : {Leader}]
AskType ==
  [type : {"RequestStateTransfer"}, view : {0}, opnum : Nat, from : Followers]
TransferType ==
  [type : {"StateTransfer"}, view : {0}, opnum : Nat,
   entries : [first : Nat, list : Seq(Entry)], to : Followers]
RequestType == [type : {"Request"}, req : Req]
ReplyType == [type : {"Reply"}, req : Req, op : Nat]

Message ==
  PrepareType \cup PrepareOKType \cup CommitType \cup AskType
    \cup TransferType \cup RequestType \cup ReplyType

OKType == [opnum : Nat, from : Followers]
TableType == [Clients -> [id : 0 .. MaxReq, reply : Nat \cup {NoReply}]]

State ==
  [status : {"normal"}, view : {0}, log : Seq(Entry), lastOp : Nat,
   lastCommitted : Nat, table : TableType, addrs : SUBSET Clients,
   batchEnd : Nat, batchDone : BOOLEAN, oks : SUBSET OKType,
   svcs : {{}}, dvcs : {{}}, recs : {{}}, nonce : {0},
   pending : Seq(PrepareType), app : Seq(Req), failed : {NoFailure}]

States == [Replicas -> State]

\* A Prepare carries requests of the leader's log.
PrepareTrue(lead, m) ==
  /\ m.batchstart >= 1 /\ m.opnum = m.batchstart + Len(m.reqs) - 1
  /\ m.opnum <= Len(lead.log)
  /\ \A i \in 1 .. Len(m.reqs) : lead.log[m.batchstart + i - 1].req = m.reqs[i]

\* A transfer starts after what the receiver has executed and carries entries
\* of the leader's log, up to what it says is committed.
TransferTrue(lead, s, m) ==
  LET es == m.entries
  IN  /\ es.first >= 1 /\ es.first - 1 <= s.lastCommitted
      /\ es.first + Len(es.list) - 1 <= Len(lead.log)
      /\ \A i \in 1 .. Len(es.list) : es.list[i] = lead.log[es.first + i - 1]
      /\ m.opnum <= lead.lastCommitted
      /\ m.opnum <= es.first + Len(es.list) - 1

\* A message says what is still so of the replicas' states.
MessageTrue(R, m) ==
  /\ m.type = "Prepare" => PrepareTrue(R[Leader], m)
  /\ m.type = "PrepareOK" => m.opnum <= Len(R[m.from].log)
  /\ m.type = "Commit" => m.opnum <= R[Leader].lastCommitted
  /\ m.type = "RequestStateTransfer" => m.opnum <= R[m.from].lastCommitted
  /\ m.type = "StateTransfer" => TransferTrue(R[Leader], R[m.to], m)

\* What holds of any replica by itself.
LocalOK(s) ==
  /\ s.lastOp = Len(s.log) /\ s.lastCommitted <= s.lastOp
  /\ s.batchEnd <= s.lastOp
  /\ \A i \in 1 .. Len(s.log) : s.log[i].view = 0
  /\ Len(s.app) = s.lastCommitted
  /\ \A i \in 1 .. s.lastCommitted : s.app[i] = s.log[i].req

\* The client table records no request but those of the first n entries.
TableUpTo(s, n) ==
  \A c \in Clients :
    \/ s.table[c].id = 0
    \/ \E i \in 1 .. n : s.log[i].req = [client |-> c, id |-> s.table[c].id]

\* A follower has a prefix of the leader's log and executes after it.
FollowerOK(lead, s) ==
  /\ Len(s.log) <= Len(lead.log)
  /\ \A i \in 1 .. Len(s.log) : s.log[i] = lead.log[i]
  /\ s.lastCommitted <= lead.lastCommitted
  /\ TableUpTo(s, Len(s.log))
  /\ \A i \in 1 .. Len(s.pending) : PrepareTrue(lead, s.pending[i])

\* A client's requests are in a log in the order of their ids.
Ordered(log) ==
  \A i, j \in 1 .. Len(log) :
    i < j /\ log[i].req.client = log[j].req.client
      => log[i].req.id < log[j].req.id

\* The followers that hold an operation.
Holding(R, op) == {r \in Followers : op <= Len(R[r].log)}

\* Who acknowledged an operation holds it.
OKsTrue(R, oks) == \A x \in oks : x.opnum <= Len(R[x.from].log)

\* The leader's client table knows every request of its log; a counted answer
\* is from a replica that holds the entry, and F followers hold all that is
\* executed.
LeaderOK(R, s) ==
  /\ Ordered(s.log)
  /\ \A i \in 1 .. Len(s.log) :
       s.log[i].req.id <= s.table[s.log[i].req.client].id
  /\ OKsTrue(R, s.oks)
  /\ s.lastCommitted > 0 => Cardinality(Holding(R, s.lastCommitted)) >= F

ReplicasOK(R) ==
  /\ R \in States
  /\ \A r \in Replicas : LocalOK(R[r])
  /\ \A r \in Followers : FollowerOK(R[Leader], R[r])
  /\ LeaderOK(R, R[Leader])

ClientsOK ==
  lastReqId \in [Clients -> 0 .. MaxReq] /\ pending \in [Clients -> BOOLEAN]

Inv ==
  /\ ReplicasOK(rep)
  /\ msgs \subseteq Message
  /\ \A m \in msgs : MessageTrue(rep, m)
  /\ ClientsOK

\* The inductive invariant.
FirstView == Undisturbed => Inv

-----------------------------------------------------------------------------
(* Constants, types and what a handler may do to the replicas' states.       *)

\* The configuration: replica 0 leads the first view, the others follow.
LEMMA Constants ==
  /\ N \in Nat /\ F \in Nat /\ F > 0 /\ MaxReq \in Nat
  /\ Leader \in Replicas /\ Leader \notin Followers
  /\ Followers \subseteq Replicas /\ IsFiniteSet(Followers)
  /\ \A r \in Replicas : r # Leader => r \in Followers
  /\ LeaderOf(0) = Leader
<1>1. /\ N \in Nat /\ N > 0 /\ F \in Nat /\ F > 0 /\ MaxReq \in Nat
  BY VRConfigAssumption, VRBoundAssumption
<1>2. /\ Leader \in Replicas /\ Leader \notin Followers
      /\ Followers \subseteq Replicas
      /\ \A r \in Replicas : r # Leader => r \in Followers
  BY <1>1 DEF Leader, Followers, Replicas
<1>3. IsFiniteSet(Followers)
  BY <1>1, FS_Interval, 1 \in Int, N - 1 \in Int DEF Followers
<1>4. LeaderOf(0) = Leader
  BY <1>1 DEF LeaderOf, Leader
<1> QED
  BY <1>1, <1>2, <1>3, <1>4

\* The types of a replica's fields.
LEMMA StateFields ==
  ASSUME NEW s \in State
  PROVE  /\ s.status = "normal" /\ s.view = 0 /\ s.log \in Seq(Entry)
         /\ Len(s.log) \in Nat /\ s.lastOp \in Nat /\ s.lastCommitted \in Nat
         /\ s.table \in TableType /\ s.addrs \in SUBSET Clients
         /\ s.batchEnd \in Nat /\ s.batchDone \in BOOLEAN
         /\ s.oks \in SUBSET OKType /\ s.pending \in Seq(PrepareType)
         /\ s.app \in Seq(Req) /\ s.failed = NoFailure
BY DEF State

\* The types of a log entry's and a table entry's fields.
LEMMA EntryFields ==
  ASSUME NEW s \in State
  PROVE  /\ \A i \in 1 .. Len(s.log) :
              /\ s.log[i] \in Entry /\ s.log[i].req \in Req
              /\ s.log[i].req.client \in Clients
              /\ s.log[i].req.id \in 1 .. MaxReq
              /\ s.log[i].req = [client |-> s.log[i].req.client,
                                 id |-> s.log[i].req.id]
         /\ \A c \in Clients :
              s.table[c] \in [id : 0 .. MaxReq, reply : Nat \cup {NoReply}]
<1>1. s.log \in Seq(Entry) /\ s.table \in TableType
  BY StateFields
<1>2. ASSUME NEW i \in 1 .. Len(s.log)
      PROVE  s.log[i] \in Entry /\ s.log[i].req \in Req
  <2>1. s.log[i] \in Entry
    BY <1>1
  <2> QED
    BY <2>1 DEF Entry
<1> QED
  BY <1>1, <1>2 DEF Req, TableType

\* What t holds and has executed includes what s holds and has executed.
Extends(s, t) ==
  /\ s.lastCommitted <= t.lastCommitted /\ Len(s.log) <= Len(t.log)
  /\ \A i \in 1 .. Len(s.log) : t.log[i] = s.log[i]

\* Logs are only extended.
LEMMA ExtendsTransitive ==
  ASSUME NEW s \in State, NEW t \in State, NEW u \in State,
         Extends(s, t), Extends(t, u)
  PROVE  Extends(s, u)
<1>1. /\ s.lastCommitted \in Nat /\ t.lastCommitted \in Nat
      /\ u.lastCommitted \in Nat /\ Len(s.log) \in Nat /\ Len(t.log) \in Nat
      /\ Len(u.log) \in Nat
  BY StateFields
<1> QED
  BY <1>1 DEF Extends

\* No log is shortened or changed by standing still.
LEMMA ExtendsItself ==
  ASSUME NEW s \in State, NEW t \in State,
         t.log = s.log, t.lastCommitted = s.lastCommitted
  PROVE  Extends(s, t)
BY StateFields DEF Extends

Grows(R, S) == \A r \in Replicas : Extends(R[r], S[r])

\* What a Prepare says stays so while the leader's log grows.
LEMMA PrepareStable ==
  ASSUME NEW s \in State, NEW t \in State, Extends(s, t),
         NEW m \in PrepareType, PrepareTrue(s, m)
  PROVE  PrepareTrue(t, m)
<1>1. /\ m.batchstart \in Nat /\ m.opnum \in Nat /\ Len(m.reqs) \in Nat
      /\ Len(s.log) \in Nat /\ Len(t.log) \in Nat
  BY StateFields DEF PrepareType
<1>2. /\ m.batchstart >= 1 /\ m.opnum = m.batchstart + Len(m.reqs) - 1
      /\ m.opnum <= Len(s.log) /\ Len(s.log) <= Len(t.log)
  BY DEF PrepareTrue, Extends
<1>3. m.opnum <= Len(t.log)
  BY <1>1, <1>2
<1>4. ASSUME NEW i \in 1 .. Len(m.reqs)
      PROVE  t.log[m.batchstart + i - 1].req = m.reqs[i]
  <2>1. m.batchstart + i - 1 \in 1 .. Len(s.log)
    BY <1>1, <1>2
  <2> QED
    BY <2>1 DEF PrepareTrue, Extends
<1> QED
  BY <1>2, <1>3, <1>4 DEF PrepareTrue

\* What any message says stays so while the logs grow.
LEMMA MessageStable ==
  ASSUME NEW R \in States, NEW S \in States, Grows(R, S),
         NEW m \in Message, MessageTrue(R, m)
  PROVE  MessageTrue(S, m)
<1> USE Constants
<1>1. \A r \in Replicas : /\ R[r] \in State /\ S[r] \in State
                          /\ Extends(R[r], S[r])
  BY DEF States, Grows
<1>2. \A r \in Replicas : /\ Len(R[r].log) \in Nat /\ Len(S[r].log) \in Nat
                          /\ R[r].lastCommitted \in Nat
                          /\ S[r].lastCommitted \in Nat
                          /\ Len(R[r].log) <= Len(S[r].log)
                          /\ R[r].lastCommitted <= S[r].lastCommitted
  BY <1>1, StateFields DEF Extends
<1>3. CASE m \in PrepareType
  <2>1. m.type = "Prepare"
    BY <1>3 DEF PrepareType
  <2>2. PrepareTrue(S[Leader], m)
    <3>1. PrepareTrue(R[Leader], m)
      BY <2>1 DEF MessageTrue
    <3> QED
      BY <1>1, <1>3, <3>1, PrepareStable
  <2> QED
    BY <2>1, <2>2 DEF MessageTrue
<1>4. CASE m \in PrepareOKType
  <2>1. m.type = "PrepareOK" /\ m.from \in Replicas /\ m.opnum \in Nat
    BY <1>4 DEF PrepareOKType
  <2>2. m.opnum <= Len(R[m.from].log)
    BY <2>1 DEF MessageTrue
  <2>3. m.opnum <= Len(S[m.from].log)
    BY <1>2, <2>1, <2>2
  <2> QED
    BY <2>1, <2>3 DEF MessageTrue
<1>5. CASE m \in CommitType
  <2>1. m.type = "Commit" /\ m.opnum \in Nat
    BY <1>5 DEF CommitType
  <2>2. m.opnum <= R[Leader].lastCommitted
    BY <2>1 DEF MessageTrue
  <2>3. m.opnum <= S[Leader].lastCommitted
    BY <1>2, <2>1, <2>2
  <2> QED
    BY <2>1, <2>3 DEF MessageTrue
<1>6. CASE m \in AskType
  <2>1. m.type = "RequestStateTransfer" /\ m.from \in Replicas /\ m.opnum \in Nat
    BY <1>6 DEF AskType
  <2>2. m.opnum <= R[m.from].lastCommitted
    BY <2>1 DEF MessageTrue
  <2>3. m.opnum <= S[m.from].lastCommitted
    BY <1>2, <2>1, <2>2
  <2> QED
    BY <2>1, <2>3 DEF MessageTrue
<1>7. CASE m \in TransferType
  <2>1. /\ m.type = "StateTransfer" /\ m.to \in Replicas /\ m.opnum \in Nat
        /\ m.entries.first \in Nat /\ Len(m.entries.list) \in Nat
    BY <1>7 DEF TransferType
  <2> DEFINE es == m.entries
  <2>2. /\ es.first >= 1 /\ es.first - 1 <= R[m.to].lastCommitted
        /\ es.first + Len(es.list) - 1 <= Len(R[Leader].log)
        /\ \A i \in 1 .. Len(es.list) :
             es.list[i] = R[Leader].log[es.first + i - 1]
        /\ m.opnum <= R[Leader].lastCommitted
        /\ m.opnum <= es.first + Len(es.list) - 1
    <3>1. TransferTrue(R[Leader], R[m.to], m)
      BY <2>1 DEF MessageTrue
    <3> QED
      BY <3>1 DEF TransferTrue
  <2> HIDE DEF es
  <2>3. es.first \in Nat /\ Len(es.list) \in Nat
    BY <2>1 DEF es
  <2>4. /\ es.first - 1 <= S[m.to].lastCommitted
        /\ es.first + Len(es.list) - 1 <= Len(S[Leader].log)
        /\ m.opnum <= S[Leader].lastCommitted
    <3>1. /\ R[m.to].lastCommitted \in Nat /\ S[m.to].lastCommitted \in Nat
          /\ R[m.to].lastCommitted <= S[m.to].lastCommitted
      BY <1>2, <2>1
    <3>2. /\ R[Leader].lastCommitted \in Nat /\ S[Leader].lastCommitted \in Nat
          /\ R[Leader].lastCommitted <= S[Leader].lastCommitted
          /\ Len(R[Leader].log) \in Nat /\ Len(S[Leader].log) \in Nat
          /\ Len(R[Leader].log) <= Len(S[Leader].log)
      BY <1>2
    <3>3. es.first - 1 <= S[m.to].lastCommitted
      BY <2>2, <2>3, <3>1
    <3>4. es.first + Len(es.list) - 1 <= Len(S[Leader].log)
      <4> DEFINE x == es.first + Len(es.list) - 1
      <4>1. x <= Len(R[Leader].log)
        BY <2>2
      <4>2. x \in Int
        BY <2>3
      <4> HIDE DEF x
      <4>3. x <= Len(S[Leader].log)
        BY <3>2, <4>1, <4>2, AtMostTransitive
      <4> QED
        BY <4>3 DEF x
    <3>5. m.opnum <= S[Leader].lastCommitted
      BY <2>1, <2>2, <3>2
    <3> QED
      BY <3>3, <3>4, <3>5
  <2>5. ASSUME NEW i \in 1 .. Len(es.list)
        PROVE  es.list[i] = S[Leader].log[es.first + i - 1]
    <3>1. es.first + i - 1 \in 1 .. Len(R[Leader].log)
      BY <1>2, <2>2, <2>3
    <3> QED
      BY <1>1, <2>2, <3>1 DEF Extends
  <2>6. TransferTrue(S[Leader], S[m.to], m)
    BY <2>2, <2>4, <2>5 DEF TransferTrue, es
  <2> QED
    BY <2>1, <2>6 DEF MessageTrue
<1>8. CASE m \in RequestType \cup ReplyType
  BY <1>8 DEF MessageTrue, RequestType, ReplyType
<1> QED
  BY <1>3, <1>4, <1>5, <1>6, <1>7, <1>8 DEF Message

-----------------------------------------------------------------------------
(* The operators handlers are made of.                                       *)

\* The smaller and the larger of two numbers.
LEMMA SmallerOfTwo ==
  ASSUME NEW a \in Int, NEW b \in Int, a <= b
  PROVE  Min({a, b}) = a /\ Max({b, a}) = b /\ Max({a, b}) = b
<1>1. \E x \in {a, b} : \A y \in {a, b} : x <= y
  OBVIOUS
<1>2. \E x \in {a, b} : \A y \in {a, b} : x >= y
  OBVIOUS
<1>3. Min({a, b}) \in {a, b} /\ \A y \in {a, b} : Min({a, b}) <= y
  BY <1>1 DEF Min
<1>4. Max({a, b}) \in {a, b} /\ \A y \in {a, b} : Max({a, b}) >= y
  BY <1>2 DEF Max
<1>5. {b, a} = {a, b}
  OBVIOUS
<1> QED
  BY <1>3, <1>4, <1>5

\* The number of operations after a and up to b.
LEMMA OpsBetween ==
  ASSUME NEW a \in Nat, NEW b \in Nat
  PROVE  /\ a <= b => Cardinality((a + 1) .. b) = b - a
         /\ b <= a => Cardinality((a + 1) .. b) = 0
<1>1. Cardinality((a + 1) .. b) = IF a + 1 > b THEN 0 ELSE b - (a + 1) + 1
  BY FS_Interval, a + 1 \in Int, b \in Int
<1> QED
  BY <1>1

\* The client table after a commit: no client goes back to an earlier request,
\* and a new entry is for a request just executed.
LEMMA CommittedTableFields ==
  ASSUME NEW s \in State, NEW S \in SUBSET (1 .. Len(s.log))
  PROVE  LET table == CommittedTable(s, S)
         IN  /\ table \in TableType
             /\ \A c \in Clients :
                  /\ table[c].id >= s.table[c].id
                  /\ \/ table[c] = s.table[c]
                     \/ \E i \in S :
                          s.log[i].req = [client |-> c, id |-> table[c].id]
<1> USE Constants
<1> DEFINE Ops(c) == {op \in S : s.log[op].req.client = c}
           Ids(c) == {s.table[c].id} \cup {s.log[op].req.id : op \in Ops(c)}
           Top(c) == Max(Ids(c))
           TopOps(c) == {op \in Ops(c) : s.log[op].req.id = Top(c)}
           New(c) == IF TopOps(c) = {} THEN s.table[c]
                     ELSE [id |-> Top(c), reply |-> Max(TopOps(c))]
           table == [c \in Clients |-> New(c)]
<1>1. CommittedTable(s, S) = table
  BY DEF CommittedTable
<1>2. Len(s.log) \in Nat
  BY StateFields
<1>3. ASSUME NEW c \in Clients
      PROVE  /\ New(c) \in [id : 0 .. MaxReq, reply : Nat \cup {NoReply}]
             /\ New(c).id >= s.table[c].id
             /\ \/ New(c) = s.table[c]
                \/ \E i \in S : s.log[i].req = [client |-> c, id |-> New(c).id]
  <2>1. s.table[c] \in [id : 0 .. MaxReq, reply : Nat \cup {NoReply}]
    BY EntryFields
  <2>2. \A op \in S : /\ op \in Nat /\ op <= Len(s.log)
                      /\ s.log[op].req.id \in 1 .. MaxReq
                      /\ s.log[op].req = [client |-> s.log[op].req.client,
                                          id |-> s.log[op].req.id]
    BY <1>2, EntryFields
  <2>3. /\ Ids(c) \in SUBSET Nat /\ Ids(c) # {} /\ \A x \in Ids(c) : x <= MaxReq
        /\ s.table[c].id \in Ids(c)
    <3>1. s.table[c].id \in 0 .. MaxReq
      BY <2>1
    <3>2. ASSUME NEW x \in Ids(c)
          PROVE  x \in 0 .. MaxReq
      <4>1. CASE x = s.table[c].id
        BY <3>1, <4>1
      <4>2. CASE x # s.table[c].id
        <5>1. PICK op \in Ops(c) : x = s.log[op].req.id
          BY <4>2
        <5>2. x \in 1 .. MaxReq
          BY <2>2, <5>1
        <5> QED
          BY <5>2
      <4> QED
        BY <4>1, <4>2
    <3>3. s.table[c].id \in Ids(c)
      OBVIOUS
    <3> HIDE DEF Ids
    <3> QED
      BY <3>2, <3>3
  <2>4. Top(c) \in 0 .. MaxReq /\ Top(c) >= s.table[c].id
    <3> HIDE DEF Ids
    <3>1. Max(Ids(c)) \in Ids(c) /\ \A y \in Ids(c) : y <= Max(Ids(c))
      BY <2>3, MaxIsLargest
    <3> QED
      BY <2>3, <3>1
  <2> HIDE DEF Top
  <2>5. CASE TopOps(c) = {}
    <3>1. New(c) = s.table[c]
      BY <2>5
    <3> HIDE DEF New
    <3> QED
      BY <2>1, <3>1
  <2>6. CASE TopOps(c) # {}
    <3>1. TopOps(c) \in SUBSET Nat /\ \A x \in TopOps(c) : x <= Len(s.log)
      BY <2>2
    <3>2. Max(TopOps(c)) \in TopOps(c)
      <4> HIDE DEF TopOps
      <4> QED
        BY <1>2, <2>6, <3>1, MaxIsLargest
    <3> DEFINE op == Max(TopOps(c))
    <3>3. New(c) = [id |-> Top(c), reply |-> op]
      BY <2>6
    <3> HIDE DEF op, New
    <3>4. /\ op \in S /\ s.log[op].req.client = c /\ s.log[op].req.id = Top(c)
          /\ op \in Nat
      BY <2>2, <3>2 DEF op
    <3>5. New(c).id = Top(c) /\ New(c).reply = op
      BY <3>3
    <3>6. s.log[op].req = [client |-> c, id |-> New(c).id]
      BY <2>2, <3>4, <3>5
    <3> QED
      BY <2>4, <3>3, <3>4, <3>5, <3>6
  <2> QED
    BY <2>5, <2>6
<1> HIDE DEF New
<1>4. table \in TableType
  BY <1>3 DEF TableType
<1> QED
  BY <1>1, <1>3, <1>4

\* CommitUpTo within the log executes what the log says, and sends replies.
LEMMA CommitUpToFields ==
  ASSUME NEW s \in State, LocalOK(s), NEW upto \in 0 .. Len(s.log)
  PROVE  LET res == CommitUpTo(s, upto)
             t == res.st
         IN  /\ t \in State /\ LocalOK(t) /\ Extends(s, t)
             /\ t.log = s.log /\ t.lastOp = s.lastOp /\ t.oks = s.oks
             /\ t.pending = s.pending /\ t.batchEnd = s.batchEnd
             /\ t.batchDone = s.batchDone
             /\ t.lastCommitted \in {s.lastCommitted, upto}
             /\ \A c \in Clients :
                  /\ t.table[c].id >= s.table[c].id
                  /\ \/ t.table[c] = s.table[c]
                     \/ \E i \in 1 .. t.lastCommitted :
                          s.log[i].req = [client |-> c, id |-> t.table[c].id]
             /\ res.out \in SUBSET ReplyType
<1> USE Constants
<1> DEFINE lc == s.lastCommitted
           new == (lc + 1) .. upto
           k == Cardinality(new)
           more == [i \in 1 .. k |-> s.log[lc + i].req]
           app == s.app \o more
           far == Max({lc, upto})
           table == CommittedTable(s, new)
           out == {ReplyMessage(s.log[op].req, op) :
                     op \in {op \in new : s.log[op].req.client \in s.addrs}}
           t == [s EXCEPT !.lastCommitted = far, !.table = table, !.app = app]
<1>1. /\ lc \in Nat /\ s.lastOp = Len(s.log) /\ lc <= Len(s.log)
      /\ Len(s.log) \in Nat /\ upto \in Nat /\ upto <= Len(s.log)
      /\ s.app \in Seq(Req) /\ Len(s.app) = lc
      /\ \A i \in 1 .. lc : s.app[i] = s.log[i].req
  BY StateFields DEF LocalOK
<1>2. Min({upto, Len(s.log)}) = upto
  <2> DEFINE len == Len(s.log)
  <2>1. len \in Int /\ upto \in Int /\ upto <= len
    BY <1>1
  <2> HIDE DEF len
  <2>2. Min({upto, len}) = upto
    BY <2>1, SmallerOfTwo
  <2> QED
    BY <2>2 DEF len
<1>3. CommitUpTo(s, upto) = Result(t, out)
  <2>1. ~(upto > Len(s.log))
    BY <1>1
  <2> QED
    BY <1>2, <2>1 DEF CommitUpTo
<1>4. new \in SUBSET (1 .. Len(s.log))
  BY <1>1
<1>5. /\ k \in Nat /\ (lc <= upto => k = upto - lc) /\ (upto <= lc => k = 0)
  <2> HIDE DEF lc
  <2> QED
    BY <1>1, OpsBetween
<1>6. far \in Nat /\ far = lc + k /\ far \in {lc, upto} /\ lc <= far
      /\ far <= Len(s.log) /\ \A op \in new : op <= far
  <2>0. lc \in Int /\ upto \in Int
    BY <1>1
  <2>1. CASE lc <= upto
    <3>1. far = upto
      <4> HIDE DEF lc
      <4> QED
        BY <2>0, <2>1, SmallerOfTwo
    <3> HIDE DEF far, lc, k
    <3> QED
      BY <1>1, <1>5, <2>1, <3>1
  <2>2. CASE upto <= lc
    <3>1. far = lc
      <4> HIDE DEF lc
      <4> QED
        BY <2>0, <2>2, SmallerOfTwo
    <3> HIDE DEF far, lc, k
    <3> QED
      BY <1>1, <1>5, <2>2, <3>1
  <2>3. lc <= upto \/ upto <= lc
    <3> HIDE DEF lc
    <3> QED
      BY <2>0
  <2> QED
    BY <2>1, <2>2, <2>3
<1> HIDE DEF far, k
<1>7. \A i \in 1 .. k : lc + i \in 1 .. Len(s.log)
  BY <1>1, <1>5, <1>6
<1>8. more \in Seq(Req) /\ Len(more) = k
  <2>1. \A i \in 1 .. k : s.log[lc + i].req \in Req
    BY <1>7, EntryFields
  <2> HIDE DEF lc
  <2>2. more \in [1 .. k -> Req]
    BY <2>1
  <2>3. more \in Seq(Req)
    BY <1>5, <2>2
  <2> QED
    BY <1>5, <2>3
<1>9. /\ app \in Seq(Req) /\ Len(app) = far
      /\ \A i \in 1 .. far : app[i] = s.log[i].req
  <2>1. \A i \in 1 .. k : more[i] = s.log[lc + i].req
    OBVIOUS
  <2> HIDE DEF more, lc
  <2>2. /\ app \in Seq(Req) /\ Len(app) = Len(s.app) + Len(more)
        /\ \A i \in 1 .. Len(s.app) + Len(more) :
             app[i] = IF i <= Len(s.app) THEN s.app[i]
                      ELSE more[i - Len(s.app)]
    <3> DEFINE a == s.app
    <3>1. a \in Seq(Req) /\ more \in Seq(Req)
      BY <1>1, <1>8
    <3> HIDE DEF a
    <3>2. /\ a \o more \in Seq(Req) /\ Len(a \o more) = Len(a) + Len(more)
          /\ \A i \in 1 .. Len(a) + Len(more) :
               (a \o more)[i] = IF i <= Len(a) THEN a[i] ELSE more[i - Len(a)]
      BY <3>1, ConcatProperties
    <3> QED
      BY <3>2 DEF a
  <2>3. ASSUME NEW i \in 1 .. far
        PROVE  app[i] = s.log[i].req
    <3>1. CASE i <= lc
      BY <1>1, <1>5, <1>6, <1>8, <2>2, <3>1
    <3>2. CASE ~(i <= lc)
      <4>1. i - lc \in 1 .. k /\ lc + (i - lc) = i
        BY <1>1, <1>5, <1>6, <3>2
      <4>2. app[i] = more[i - lc]
        BY <1>1, <1>5, <1>6, <1>8, <2>2, <3>2
      <4> QED
        BY <2>1, <4>1, <4>2
    <3> QED
      BY <3>1, <3>2
  <2> QED
    BY <1>1, <1>6, <1>8, <2>2, <2>3
<1>10. /\ table \in TableType
       /\ \A c \in Clients :
            /\ table[c].id >= s.table[c].id
            /\ \/ table[c] = s.table[c]
               \/ \E i \in new : s.log[i].req = [client |-> c, id |-> table[c].id]
  <2> HIDE DEF new
  <2> QED
    BY <1>4, CommittedTableFields
<1> HIDE DEF table, app
<1>11. /\ t \in State /\ t.log = s.log /\ t.lastOp = s.lastOp /\ t.oks = s.oks
       /\ t.pending = s.pending /\ t.batchEnd = s.batchEnd
       /\ t.batchDone = s.batchDone /\ t.lastCommitted = far
       /\ t.table = table /\ t.app = app
  BY <1>6, <1>9, <1>10 DEF State
<1> HIDE DEF t
<1>12. LocalOK(t)
  <2>1. /\ s.batchEnd <= s.lastOp /\ \A i \in 1 .. Len(s.log) : s.log[i].view = 0
    BY DEF LocalOK
  <2> QED
    BY <1>1, <1>6, <1>9, <1>11, <2>1 DEF LocalOK
<1>13. Extends(s, t)
  BY <1>1, <1>6, <1>11 DEF Extends
<1>14. ASSUME NEW m \in out
       PROVE  m \in ReplyType
  <2>1. PICK op \in new : m = ReplyMessage(s.log[op].req, op)
    OBVIOUS
  <2>2. op \in 1 .. Len(s.log)
    BY <1>4
  <2>3. op \in Nat /\ s.log[op].req \in Req
    <3>1. op \in Nat
      BY <1>1, <2>2
    <3>2. s.log[op].req \in Req
      BY <2>2, EntryFields
    <3> QED
      BY <3>1, <3>2
  <2> QED
    BY <2>1, <2>3 DEF ReplyMessage, ReplyType
<1>15. ASSUME NEW c \in Clients
       PROVE  /\ t.table[c].id >= s.table[c].id
              /\ \/ t.table[c] = s.table[c]
                 \/ \E i \in 1 .. t.lastCommitted :
                      s.log[i].req = [client |-> c, id |-> t.table[c].id]
  <2>1. \A i \in new : i \in 1 .. t.lastCommitted
    BY <1>1, <1>6, <1>11
  <2> HIDE DEF new
  <2> QED
    BY <1>10, <1>11, <2>1
<1> HIDE DEF out
<1>16. Result(t, out).st = t /\ Result(t, out).out = out
  BY DEF Result
<1> QED
  BY <1>3, <1>6, <1>11, <1>12, <1>13, <1>14, <1>15, <1>16

\* UpdateClientTable: a changed entry is for a request of S.
LEMMA UpdatedTableFields ==
  ASSUME NEW s \in State, NEW S \in SUBSET (1 .. Len(s.log))
  PROVE  LET table == UpdatedTable(s, S)
         IN  /\ table \in TableType
             /\ \A c \in Clients :
                  \/ table[c] = s.table[c]
                  \/ \E i \in S :
                       s.log[i].req = [client |-> c, id |-> table[c].id]
<1> USE Constants
<1> DEFINE Ids(c) == {s.log[op].req.id : op \in {o \in S : s.log[o].req.client = c}}
           New(c) == IF \A i \in Ids(c) : i <= s.table[c].id THEN s.table[c]
                     ELSE [id |-> Max(Ids(c)), reply |-> NoReply]
           table == [c \in Clients |-> New(c)]
<1>1. UpdatedTable(s, S) = table
  BY DEF UpdatedTable
<1>2. ASSUME NEW c \in Clients
      PROVE  /\ New(c) \in [id : 0 .. MaxReq, reply : Nat \cup {NoReply}]
             /\ \/ New(c) = s.table[c]
                \/ \E i \in S : s.log[i].req = [client |-> c, id |-> New(c).id]
  <2>1. s.table[c] \in [id : 0 .. MaxReq, reply : Nat \cup {NoReply}]
    BY EntryFields
  <2>2. ASSUME NEW x \in Ids(c)
        PROVE  /\ x \in 1 .. MaxReq
               /\ \E i \in S : s.log[i].req = [client |-> c, id |-> x]
    <3>1. PICK op \in S : s.log[op].req.client = c /\ x = s.log[op].req.id
      OBVIOUS
    <3>2. op \in 1 .. Len(s.log)
      OBVIOUS
    <3>3. /\ s.log[op].req.id \in 1 .. MaxReq
          /\ s.log[op].req = [client |-> s.log[op].req.client,
                              id |-> s.log[op].req.id]
      BY <3>2, EntryFields
    <3> QED
      BY <3>1, <3>3
  <2> HIDE DEF Ids
  <2>3. CASE \A i \in Ids(c) : i <= s.table[c].id
    <3>1. New(c) = s.table[c]
      BY <2>3
    <3> HIDE DEF New
    <3> QED
      BY <2>1, <3>1
  <2>4. CASE ~(\A i \in Ids(c) : i <= s.table[c].id)
    <3>1. Ids(c) # {} /\ Ids(c) \in SUBSET Nat /\ \A x \in Ids(c) : x <= MaxReq
      <4>1. ASSUME NEW x \in Ids(c)
            PROVE  x \in Nat /\ x <= MaxReq
        <5>1. x \in 1 .. MaxReq
          BY <2>2
        <5> QED
          BY <5>1
      <4>2. Ids(c) # {}
        BY <2>4
      <4> QED
        BY <4>1, <4>2
    <3>2. Max(Ids(c)) \in Ids(c)
      BY <3>1, MaxIsLargest
    <3>3. New(c) = [id |-> Max(Ids(c)), reply |-> NoReply]
      BY <2>4
    <3> DEFINE top == Max(Ids(c))
    <3>4. top \in 0 .. MaxReq /\ \E i \in S : s.log[i].req = [client |-> c, id |-> top]
      BY <2>2, <3>2
    <3>5. New(c) = [id |-> top, reply |-> NoReply]
      BY <3>3
    <3> HIDE DEF top, New
    <3> QED
      BY <3>4, <3>5
  <2> QED
    BY <2>3, <2>4
<1> HIDE DEF New
<1>3. table \in TableType
  BY <1>2 DEF TableType
<1> QED
  BY <1>1, <1>2, <1>3

\* The assertion of UpdateClientTable holds for entries that come after those
\* the table knows.
LEMMA NoStaleEntries ==
  ASSUME NEW s \in State, Ordered(s.log), NEW n \in 0 .. Len(s.log),
         TableUpTo(s, n), NEW S \in SUBSET (1 .. Len(s.log)),
         \A op \in S : op >= n
  PROVE  StaleEntries(s, S) = {}
<1>1. SUFFICES ASSUME NEW op \in S, op \in StaleEntries(s, S)
               PROVE  FALSE
  BY DEF StaleEntries
<1> DEFINE q == s.log[op].req
<1>2. /\ op \in 1 .. Len(s.log) /\ q \in Req /\ q.client \in Clients
      /\ q.id \in Nat /\ q.id >= 1
  <2>1. op \in 1 .. Len(s.log)
    OBVIOUS
  <2>2. q.id \in 1 .. MaxReq
    BY <2>1, EntryFields
  <2>3. q.id \in Nat /\ q.id >= 1
    BY <2>2, Constants
  <2> QED
    BY <2>1, <2>3, EntryFields
<1>3. \A i \in 1 .. Len(s.log) : s.log[i].req.id \in Nat
  <2>1. \A i \in 1 .. Len(s.log) : s.log[i].req.id \in 1 .. MaxReq
    BY EntryFields
  <2> QED
    BY <2>1, Constants
<1>4. ASSUME NEW i \in 1 .. Len(s.log), i <= op, s.log[i].req.client = q.client
      PROVE  s.log[i].req.id <= q.id
  <2>1. CASE i = op
    BY <1>2, <2>1
  <2>2. CASE i # op
    <3>1. i < op
      BY <1>2, <1>4, <2>2, StateFields
    <3>2. s.log[i].req.id < q.id
      BY <1>2, <1>4, <3>1 DEF Ordered
    <3> QED
      BY <1>2, <1>3, <3>2
  <2> QED
    BY <2>1, <2>2
<1>5. /\ \/ s.table[q.client].id > q.id
         \/ \E o \in S : /\ o < op /\ s.log[o].req.client = q.client
                         /\ s.log[o].req.id > q.id
  BY <1>1 DEF StaleEntries
<1>6. CASE s.table[q.client].id > q.id
  <2>1. s.table[q.client].id # 0
    BY <1>2, <1>6
  <2>2. PICK i \in 1 .. n : s.log[i].req = [client |-> q.client,
                                           id |-> s.table[q.client].id]
    BY <1>2, <2>1 DEF TableUpTo
  <2>3. i \in 1 .. Len(s.log) /\ i <= op
    BY <1>2, StateFields
  <2>4. s.log[i].req.id = s.table[q.client].id /\ s.log[i].req.client = q.client
    BY <2>2
  <2>5. s.table[q.client].id <= q.id
    BY <1>4, <2>3, <2>4
  <2>6. s.table[q.client].id \in Nat
    BY <1>3, <2>3, <2>4
  <2> HIDE DEF q
  <2> QED
    BY <1>2, <1>6, <2>5, <2>6
<1>7. CASE \E o \in S : /\ o < op /\ s.log[o].req.client = q.client
                        /\ s.log[o].req.id > q.id
  <2>1. PICK o \in S : /\ o < op /\ s.log[o].req.client = q.client
                       /\ s.log[o].req.id > q.id
    BY <1>7
  <2>2. o \in 1 .. Len(s.log) /\ o <= op
    BY <1>2, <2>1, StateFields
  <2>3. s.log[o].req.id <= q.id
    BY <1>4, <2>1, <2>2
  <2>4. s.log[o].req.id \in Nat
    BY <1>3, <2>2
  <2> HIDE DEF q
  <2> QED
    BY <1>2, <2>1, <2>3, <2>4
<1> QED
  BY <1>5, <1>6, <1>7

-----------------------------------------------------------------------------
(* What a follower does.  Nothing but the leader's state matters.            *)

\* lead may be the state of the leader.
Leads(lead) == lead \in State /\ LocalOK(lead) /\ Ordered(lead.log)

\* s may be the state of a follower.
Follows(lead, s) == s \in State /\ LocalOK(s) /\ FollowerOK(lead, s)

\* Follower r in state t may send m, but for a StateTransfer.
FollowerSays(r, t, m) ==
  \/ m \in PrepareOKType /\ m.from = r /\ m.opnum <= Len(t.log)
  \/ m \in AskType /\ m.from = r /\ m.opnum <= t.lastCommitted
  \/ m \in ReplyType

\* From state s, follower r may go on with the result res.
FollowerGoes(lead, r, s, res) ==
  /\ Follows(lead, res.st) /\ Extends(s, res.st)
  /\ \A m \in res.out : FollowerSays(r, res.st, m)

\* One thing after another.
LEMMA FollowerGoesOn ==
  ASSUME NEW lead, NEW r \in Followers, NEW s \in State, NEW a, NEW b,
         FollowerGoes(lead, r, s, a), FollowerGoes(lead, r, a.st, b)
  PROVE  FollowerGoes(lead, r, s, Result(b.st, a.out \cup b.out))
<1> DEFINE c == Result(b.st, a.out \cup b.out)
<1>1. c.st = b.st /\ c.out = a.out \cup b.out
  BY DEF Result
<1>2. a.st \in State /\ b.st \in State /\ Extends(s, a.st) /\ Extends(a.st, b.st)
      /\ Follows(lead, b.st)
  BY DEF FollowerGoes, Follows
<1>3. Extends(s, b.st)
  BY <1>2, ExtendsTransitive
<1>4. ASSUME NEW m \in a.out
      PROVE  FollowerSays(r, b.st, m)
  <2>1. FollowerSays(r, a.st, m)
    BY DEF FollowerGoes
  <2>2. /\ Len(a.st.log) <= Len(b.st.log) /\ a.st.lastCommitted <= b.st.lastCommitted
        /\ Len(a.st.log) \in Nat /\ Len(b.st.log) \in Nat
        /\ a.st.lastCommitted \in Nat /\ b.st.lastCommitted \in Nat
    BY <1>2, StateFields DEF Extends
  <2>3. CASE m \in PrepareOKType /\ m.from = r /\ m.opnum <= Len(a.st.log)
    <3>1. m.opnum \in Nat
      BY <2>3 DEF PrepareOKType
    <3>2. m.opnum <= Len(b.st.log)
      BY <2>2, <2>3, <3>1
    <3> QED
      BY <2>3, <3>2 DEF FollowerSays
  <2>4. CASE m \in AskType /\ m.from = r /\ m.opnum <= a.st.lastCommitted
    <3>1. m.opnum \in Nat
      BY <2>4 DEF AskType
    <3>2. m.opnum <= b.st.lastCommitted
      BY <2>2, <2>4, <3>1
    <3> QED
      BY <2>4, <3>2 DEF FollowerSays
  <2> QED
    BY <2>1, <2>3, <2>4 DEF FollowerSays
<1>5. \A m \in b.out : FollowerSays(r, b.st, m)
  BY DEF FollowerGoes
<1> HIDE DEF c
<1>6. FollowerGoes(lead, r, s, c)
  BY <1>1, <1>2, <1>3, <1>4, <1>5 DEF FollowerGoes
<1> QED
  BY <1>6 DEF c

\* Numbers about a follower's state.
LEMMA FollowerFields ==
  ASSUME NEW lead, Leads(lead), NEW s, Follows(lead, s)
  PROVE  /\ s \in State /\ lead \in State /\ LocalOK(s) /\ LocalOK(lead)
         /\ s.lastOp = Len(s.log) /\ s.lastCommitted \in 0 .. Len(s.log)
         /\ Len(s.log) \in Nat /\ Len(lead.log) \in Nat
         /\ lead.lastCommitted \in Nat /\ Len(s.log) <= Len(lead.log)
         /\ s.lastCommitted <= lead.lastCommitted
         /\ \A i \in 1 .. Len(s.log) : s.log[i] = lead.log[i]
         /\ TableUpTo(s, Len(s.log))
         /\ \A i \in 1 .. Len(s.pending) :
              s.pending[i] \in PrepareType /\ PrepareTrue(lead, s.pending[i])
         /\ Ordered(s.log)
<1>1. s \in State /\ lead \in State /\ LocalOK(s) /\ FollowerOK(lead, s)
      /\ LocalOK(lead) /\ Ordered(lead.log)
  BY DEF Leads, Follows
<1>2. /\ s.lastOp \in Nat /\ s.lastCommitted \in Nat /\ Len(s.log) \in Nat
      /\ Len(lead.log) \in Nat /\ lead.lastCommitted \in Nat
  BY <1>1, StateFields
<1>3. /\ s.lastOp = Len(s.log) /\ s.lastCommitted <= s.lastOp
  BY <1>1 DEF LocalOK
<1>4. /\ Len(s.log) <= Len(lead.log)
      /\ \A i \in 1 .. Len(s.log) : s.log[i] = lead.log[i]
      /\ s.lastCommitted <= lead.lastCommitted /\ TableUpTo(s, Len(s.log))
      /\ \A i \in 1 .. Len(s.pending) : PrepareTrue(lead, s.pending[i])
  BY <1>1 DEF FollowerOK
<1>5. \A i \in 1 .. Len(s.pending) : s.pending[i] \in PrepareType
  <2>1. s.pending \in Seq(PrepareType)
    BY <1>1, StateFields
  <2> QED
    BY <2>1
<1>6. Ordered(s.log)
  <2>1. \A i \in 1 .. Len(s.log) : i \in 1 .. Len(lead.log)
    BY <1>2, <1>4
  <2> QED
    BY <1>1, <1>4, <2>1 DEF Ordered
<1> QED
  BY <1>1, <1>2, <1>3, <1>4, <1>5, <1>6

\* A follower may ask for state whenever it likes.
LEMMA AskSays ==
  ASSUME NEW r \in Followers, NEW s \in State, NEW m \in AskForState(r, s)
  PROVE  FollowerSays(r, s, m)
<1>1. s.view = 0 /\ s.lastCommitted \in Nat
  BY StateFields
<1>2. m = RequestStateTransferMessage(0, s.lastCommitted, r)
  BY <1>1 DEF AskForState
<1> QED
  BY <1>1, <1>2 DEF FollowerSays, AskType, RequestStateTransferMessage

\* A follower may acknowledge what it holds.
LEMMA PrepareOKSays ==
  ASSUME NEW r \in Followers, NEW s \in State, NEW op \in 0 .. Len(s.log)
  PROVE  FollowerSays(r, s, PrepareOKMessage(0, op, r))
<1>1. op \in Nat /\ op <= Len(s.log) /\ LeaderOf(0) = Leader
  BY StateFields, Constants
<1> QED
  BY <1>1 DEF FollowerSays, PrepareOKType, PrepareOKMessage

\* Postpone.
LEMMA PostponeGoes ==
  ASSUME NEW lead, Leads(lead), NEW r \in Followers, NEW s, Follows(lead, s),
         NEW m \in PrepareType, PrepareTrue(lead, m)
  PROVE  FollowerGoes(lead, r, s, Postpone(r, s, m))
<1> DEFINE p == IF m \in Range(s.pending) THEN s.pending ELSE Append(s.pending, m)
           t == [s EXCEPT !.pending = p]
           res == Postpone(r, s, m)
<1>1. res.st = t /\ res.out = AskForState(r, s)
  BY DEF Postpone, Result
<1>2. s \in State /\ s.pending \in Seq(PrepareType) /\ LocalOK(s)
      /\ FollowerOK(lead, s)
  BY StateFields DEF Follows
<1>3. /\ p \in Seq(PrepareType)
      /\ \A i \in 1 .. Len(p) : PrepareTrue(lead, p[i])
  <2>1. \A i \in 1 .. Len(s.pending) : PrepareTrue(lead, s.pending[i])
    BY <1>2 DEF FollowerOK
  <2>2. CASE m \in Range(s.pending)
    BY <1>2, <2>1, <2>2
  <2>3. CASE m \notin Range(s.pending)
    <3>1. p = Append(s.pending, m)
      BY <2>3
    <3>2. /\ Append(s.pending, m) \in Seq(PrepareType)
          /\ Len(Append(s.pending, m)) = Len(s.pending) + 1
          /\ \A i \in 1 .. Len(s.pending) : Append(s.pending, m)[i] = s.pending[i]
          /\ Append(s.pending, m)[Len(s.pending) + 1] = m
      BY <1>2, AppendProperties
    <3>3. Len(s.pending) \in Nat
      BY <1>2
    <3> HIDE DEF p
    <3> QED
      BY <2>1, <3>1, <3>2, <3>3
  <2> QED
    BY <2>2, <2>3
<1> HIDE DEF p
<1>4. /\ t \in State /\ t.log = s.log /\ t.lastCommitted = s.lastCommitted
      /\ t.lastOp = s.lastOp /\ t.batchEnd = s.batchEnd /\ t.app = s.app
      /\ t.table = s.table /\ t.pending = p
  BY <1>2, <1>3 DEF State
<1> HIDE DEF t, res
<1>5. Extends(s, t)
  BY <1>2, <1>4, ExtendsItself
<1>6. LocalOK(t)
  BY <1>2, <1>4 DEF LocalOK
<1>7. TableUpTo(t, Len(t.log))
  BY <1>2, <1>4 DEF FollowerOK, TableUpTo
<1>8. FollowerOK(lead, t)
  BY <1>2, <1>3, <1>4, <1>7 DEF FollowerOK
<1>9. \A n \in res.out : FollowerSays(r, t, n)
  <2>1. AskForState(r, s) = AskForState(r, t)
    BY <1>2, <1>4, StateFields DEF AskForState
  <2> QED
    BY <1>1, <1>4, <2>1, AskSays
<1> QED
  BY <1>1, <1>4, <1>5, <1>6, <1>8, <1>9 DEF FollowerGoes, Follows, res

\* A log of entries of the leader's.
LeadersPrefix(lead, log) ==
  /\ Len(log) <= Len(lead.log)
  /\ \A i \in 1 .. Len(log) : log[i] = lead.log[i]

\* A follower whose log has been extended with more of the leader's entries is
\* still one; its client table knows none of the new ones yet.
LEMMA LongerLog ==
  ASSUME NEW lead, Leads(lead), NEW s, Follows(lead, s), NEW t \in State,
         LeadersPrefix(lead, t.log), Len(s.log) <= Len(t.log), t.lastOp = Len(t.log),
         t.lastCommitted = s.lastCommitted, t.batchEnd = s.batchEnd,
         t.app = s.app, t.table = s.table, t.pending = s.pending
  PROVE  Follows(lead, t) /\ Extends(s, t) /\ TableUpTo(t, Len(s.log))
<1> DEFINE log == t.log
           n == Len(log)
<1>1. /\ s \in State /\ lead \in State /\ LocalOK(s) /\ LocalOK(lead)
      /\ s.lastOp = Len(s.log) /\ s.lastCommitted \in 0 .. Len(s.log)
      /\ Len(s.log) \in Nat /\ Len(lead.log) \in Nat
      /\ s.lastCommitted <= lead.lastCommitted
      /\ \A i \in 1 .. Len(s.log) : s.log[i] = lead.log[i]
      /\ TableUpTo(s, Len(s.log))
      /\ \A i \in 1 .. Len(s.pending) : PrepareTrue(lead, s.pending[i])
  BY FollowerFields
<1>2. /\ n \in Nat /\ n >= Len(s.log) /\ n <= Len(lead.log)
      /\ \A i \in 1 .. n : log[i] = lead.log[i]
  BY <1>1, StateFields DEF LeadersPrefix
<1>3. /\ t \in State /\ t.log = log /\ t.lastOp = n
      /\ t.lastCommitted = s.lastCommitted /\ t.batchEnd = s.batchEnd
      /\ t.app = s.app /\ t.table = s.table /\ t.pending = s.pending
  OBVIOUS
<1> HIDE DEF log
<1>4. \A i \in 1 .. Len(s.log) : i \in 1 .. n /\ log[i] = s.log[i]
  BY <1>1, <1>2
<1> HIDE DEF n
<1>5. Extends(s, t)
  BY <1>1, <1>2, <1>3, <1>4 DEF Extends, n
<1>6. LocalOK(t)
  <2>1. t.lastOp = Len(t.log) /\ t.lastCommitted <= t.lastOp
    BY <1>1, <1>2, <1>3 DEF n
  <2>2. t.batchEnd <= t.lastOp
    <3>1. s.batchEnd <= s.lastOp /\ s.batchEnd \in Nat
      BY <1>1, StateFields DEF LocalOK
    <3> QED
      BY <1>1, <1>2, <1>3, <3>1
  <2>3. \A i \in 1 .. Len(t.log) : t.log[i].view = 0
    <3>1. \A i \in 1 .. Len(log) : i \in 1 .. Len(lead.log)
      BY <1>1, <1>2 DEF n
    <3>2. \A i \in 1 .. Len(lead.log) : lead.log[i].view = 0
      BY <1>1 DEF LocalOK
    <3> QED
      BY <1>2, <1>3, <3>1, <3>2 DEF n
  <2>4. \A i \in 1 .. t.lastCommitted : t.app[i] = t.log[i].req
    <3>1. \A i \in 1 .. s.lastCommitted : i \in 1 .. Len(s.log)
      BY <1>1
    <3>2. \A i \in 1 .. s.lastCommitted : s.app[i] = s.log[i].req
      BY <1>1 DEF LocalOK
    <3> QED
      BY <1>3, <1>4, <3>1, <3>2
  <2>5. Len(t.app) = t.lastCommitted
    BY <1>1, <1>3 DEF LocalOK
  <2> QED
    BY <2>1, <2>2, <2>3, <2>4, <2>5 DEF LocalOK
<1>7. TableUpTo(t, Len(s.log))
  BY <1>1, <1>3, <1>4 DEF TableUpTo
<1>8. TableUpTo(t, Len(t.log))
  <2>1. \A i \in 1 .. Len(s.log) : i \in 1 .. Len(t.log)
    BY <1>3, <1>4 DEF n
  <2> QED
    BY <1>7, <2>1 DEF TableUpTo
<1>9. FollowerOK(lead, t)
  BY <1>1, <1>2, <1>3, <1>8 DEF FollowerOK, n
<1> QED
  BY <1>3, <1>5, <1>6, <1>7, <1>9 DEF Follows

\* A follower's client table may hold any request of its log.
LEMMA NewTable ==
  ASSUME NEW lead, Leads(lead), NEW s, Follows(lead, s),
         NEW S \in SUBSET (1 .. Len(s.log))
  PROVE  LET t == [s EXCEPT !.table = UpdatedTable(s, S)]
         IN  Follows(lead, t) /\ Extends(s, t) /\ t.log = s.log
<1> DEFINE table == UpdatedTable(s, S)
           t == [s EXCEPT !.table = table]
<1>1. /\ s \in State /\ LocalOK(s) /\ FollowerOK(lead, s)
      /\ TableUpTo(s, Len(s.log))
  BY DEF Follows, FollowerOK
<1>2. /\ table \in TableType
      /\ \A c \in Clients :
           \/ table[c] = s.table[c]
           \/ \E i \in S : s.log[i].req = [client |-> c, id |-> table[c].id]
  BY <1>1, UpdatedTableFields
<1> HIDE DEF table
<1>3. /\ t \in State /\ t.log = s.log /\ t.lastOp = s.lastOp
      /\ t.lastCommitted = s.lastCommitted /\ t.batchEnd = s.batchEnd
      /\ t.app = s.app /\ t.table = table /\ t.pending = s.pending
  BY <1>1, <1>2 DEF State
<1> HIDE DEF t
<1>4. Extends(s, t)
  BY <1>1, <1>3, ExtendsItself
<1>5. LocalOK(t)
  BY <1>1, <1>3 DEF LocalOK
<1>6. TableUpTo(t, Len(t.log))
  BY <1>1, <1>2, <1>3 DEF TableUpTo
<1>7. FollowerOK(lead, t)
  BY <1>1, <1>3, <1>6 DEF FollowerOK
<1> QED
  BY <1>3, <1>4, <1>5, <1>7 DEF Follows, t, table

\* AppendBatch: the new entries are the leader's, and none is stale.
LEMMA AppendBatchGoes ==
  ASSUME NEW lead, Leads(lead), NEW r \in Followers, NEW s, Follows(lead, s),
         NEW m \in PrepareType, PrepareTrue(lead, m),
         m.opnum > s.lastOp, m.batchstart <= s.lastOp + 1
  PROVE  FollowerGoes(lead, r, s, AppendBatch(r, s, m))
<1> DEFINE len == Len(s.log)
           ops == (len + 1) .. m.opnum
           k == Cardinality(ops)
           more == [i \in 1 .. k |->
                      [view |-> m.view, req |-> m.reqs[len + i - m.batchstart + 1]]]
           log == s.log \o more
           t == [s EXCEPT !.lastOp = m.opnum, !.log = log]
           u == [t EXCEPT !.table = UpdatedTable(t, ops)]
           out == {PrepareOKMessage(m.view, m.opnum, r)}
<1>1. /\ s \in State /\ lead \in State /\ LocalOK(lead) /\ s.lastOp = len
      /\ len \in Nat /\ Len(lead.log) \in Nat
      /\ \A i \in 1 .. len : s.log[i] = lead.log[i]
      /\ s.log \in Seq(Entry)
  BY FollowerFields, StateFields
<1>2. /\ m.view = 0 /\ m.opnum \in Nat /\ m.batchstart \in Nat
      /\ Len(m.reqs) \in Nat /\ m.reqs \in Seq(Req)
  BY DEF PrepareType
<1>3. /\ m.batchstart >= 1 /\ m.opnum = m.batchstart + Len(m.reqs) - 1
      /\ m.opnum <= Len(lead.log)
      /\ \A i \in 1 .. Len(m.reqs) : lead.log[m.batchstart + i - 1].req = m.reqs[i]
  BY DEF PrepareTrue
<1> HIDE DEF len
<1>4. m.opnum > len /\ m.batchstart <= len + 1
  BY <1>1
<1>5. k \in Nat /\ k = m.opnum - len
  BY <1>1, <1>2, <1>4, OpsBetween
<1> HIDE DEF k
<1>6. ASSUME NEW i \in 1 .. k
      PROVE  more[i] = lead.log[len + i] /\ more[i] \in Entry
  <2> DEFINE j == len + i - m.batchstart + 1
  <2>1. /\ j \in 1 .. Len(m.reqs) /\ m.batchstart + j - 1 = len + i
        /\ len + i \in 1 .. Len(lead.log)
    <3> DEFINE first == m.batchstart
               count == Len(m.reqs)
               longer == Len(lead.log)
    <3>1. /\ first \in Nat /\ count \in Nat /\ longer \in Nat /\ len \in Nat
          /\ first >= 1 /\ first <= len + 1 /\ k = first + count - 1 - len
          /\ first + count - 1 <= longer /\ k \in Nat /\ i \in Int /\ 1 <= i /\ i <= k
      BY <1>1, <1>2, <1>3, <1>4, <1>5
    <3> HIDE DEF first, count, longer
    <3>2. /\ len + i - first + 1 \in 1 .. count
          /\ first + (len + i - first + 1) - 1 = len + i
          /\ len + i \in 1 .. longer
      BY <3>1
    <3> QED
      BY <3>2 DEF first, count, longer
  <2>2. more[i] = [view |-> m.view, req |-> m.reqs[j]]
    OBVIOUS
  <2> HIDE DEF j
  <2>3. m.reqs[j] = lead.log[len + i].req
    BY <1>3, <2>1
  <2>4. lead.log[len + i] \in Entry /\ lead.log[len + i].view = 0
    BY <1>1, <2>1, EntryFields DEF LocalOK
  <2> HIDE DEF more
  <2> QED
    BY <1>2, <2>2, <2>3, <2>4 DEF Entry
<1>7. more \in Seq(Entry) /\ Len(more) = k
  <2>1. more = [i \in 1 .. k |-> more[i]]
    OBVIOUS
  <2> HIDE DEF more
  <2>2. more \in [1 .. k -> Entry]
    BY <1>6, <2>1
  <2>3. more \in Seq(Entry)
    BY <1>5, <2>2
  <2> QED
    BY <1>5, <2>1, <2>3
<1> HIDE DEF more
<1>8. /\ log \in Seq(Entry) /\ Len(log) = m.opnum
      /\ \A i \in 1 .. m.opnum : log[i] = lead.log[i]
  <2> DEFINE L == s.log
  <2>1. L \in Seq(Entry) /\ Len(L) = len
    BY <1>1 DEF len
  <2> HIDE DEF L
  <2>2. /\ L \o more \in Seq(Entry) /\ Len(L \o more) = Len(L) + Len(more)
        /\ \A i \in 1 .. Len(L) + Len(more) :
             (L \o more)[i] = IF i <= Len(L) THEN L[i] ELSE more[i - Len(L)]
    BY <1>7, <2>1, ConcatProperties
  <2>3. Len(L \o more) = m.opnum
    BY <1>1, <1>2, <1>5, <1>7, <2>1, <2>2
  <2>4. ASSUME NEW i \in 1 .. m.opnum
        PROVE  (L \o more)[i] = lead.log[i]
    <3>1. CASE i <= len
      <4>1. (L \o more)[i] = L[i]
        BY <1>1, <1>2, <1>5, <1>7, <2>1, <2>2, <3>1
      <4>2. L[i] = lead.log[i]
        BY <1>1, <1>2, <3>1 DEF L
      <4> QED
        BY <4>1, <4>2
    <3>2. CASE ~(i <= len)
      <4>1. i - len \in 1 .. k /\ len + (i - len) = i
        BY <1>1, <1>2, <1>5, <3>2
      <4>2. (L \o more)[i] = more[i - len]
        <5>1. i \in 1 .. Len(L) + Len(more)
          BY <2>2, <2>3
        <5>2. ~(i <= Len(L))
          BY <2>1, <3>2
        <5> QED
          BY <2>1, <2>2, <5>1, <5>2
      <4> QED
        BY <1>6, <4>1, <4>2
    <3> QED
      BY <3>1, <3>2
  <2> QED
    BY <2>2, <2>3, <2>4 DEF L
<1> HIDE DEF log
<1>9. /\ Follows(lead, t) /\ Extends(s, t) /\ t.log = log /\ TableUpTo(t, len)
  <2>1. Len(s.log) <= Len(log) /\ LeadersPrefix(lead, log)
    BY <1>1, <1>2, <1>3, <1>4, <1>8 DEF len, LeadersPrefix
  <2>2. /\ log \in Seq(Entry) /\ t \in State /\ t.log = log /\ t.lastOp = Len(log)
        /\ t.lastCommitted = s.lastCommitted /\ t.batchEnd = s.batchEnd
        /\ t.app = s.app /\ t.table = s.table /\ t.pending = s.pending
    BY <1>1, <1>2, <1>8 DEF State
  <2> HIDE DEF t
  <2>3. Follows(lead, t) /\ Extends(s, t) /\ TableUpTo(t, Len(s.log))
    BY <2>1, <2>2, LongerLog
  <2> QED
    BY <2>2, <2>3 DEF len
<1>10. /\ ops \in SUBSET (1 .. Len(t.log)) /\ len \in 0 .. Len(t.log)
       /\ \A op \in ops : op >= len
  BY <1>1, <1>2, <1>4, <1>8, <1>9
<1> HIDE DEF t
<1>11. t \in State /\ Ordered(t.log)
  BY <1>9, FollowerFields
<1>12. StaleEntries(t, ops) = {}
  <2> HIDE DEF ops
  <2> QED
    BY <1>9, <1>10, <1>11, NoStaleEntries
<1>13. /\ Follows(lead, u) /\ Extends(t, u) /\ u.log = t.log
  <2> HIDE DEF ops
  <2> QED
    BY <1>9, <1>10, NewTable
<1>14. AppendBatch(r, s, m) = Result(u, out)
  <2>1. Len(s.log) = s.lastOp
    BY <1>1 DEF len
  <2>2. AppendBatch(r, s, m) =
          IF StaleEntries(t, ops) # {} THEN Abort(t, "UpdateClientTable")
          ELSE Result(u, out)
    BY <1>1, <2>1 DEF AppendBatch, t, log, more, k
  <2> QED
    BY <1>12, <2>2
<1> HIDE DEF u
<1>15. u \in State /\ Extends(s, u)
  BY <1>1, <1>9, <1>11, <1>13, ExtendsTransitive DEF Follows
<1>16. FollowerSays(r, u, PrepareOKMessage(0, m.opnum, r))
  <2>1. m.opnum \in 0 .. Len(u.log)
    BY <1>2, <1>8, <1>9, <1>13
  <2> QED
    BY <1>15, <2>1, PrepareOKSays
<1>17. \A x \in out : FollowerSays(r, u, x)
  BY <1>2, <1>16
<1> HIDE DEF out
<1>18. Result(u, out).st = u /\ Result(u, out).out = out
  BY DEF Result
<1> QED
  BY <1>13, <1>14, <1>15, <1>17, <1>18 DEF FollowerGoes

\* Doing nothing but sending.
LEMMA FollowerSends ==
  ASSUME NEW lead, NEW r \in Followers, NEW s, Follows(lead, s), NEW out,
         \A m \in out : FollowerSays(r, s, m)
  PROVE  FollowerGoes(lead, r, s, Result(s, out))
<1>1. Result(s, out).st = s /\ Result(s, out).out = out
  BY DEF Result
<1>2. Extends(s, s)
  BY ExtendsItself DEF Follows
<1> QED
  BY <1>1, <1>2 DEF FollowerGoes

\* HandlePrepare.
LEMMA PreparedGoes ==
  ASSUME NEW lead, Leads(lead), NEW r \in Followers, NEW s, Follows(lead, s),
         NEW m \in PrepareType, PrepareTrue(lead, m)
  PROVE  FollowerGoes(lead, r, s, Prepared(r, s, m))
<1>1. /\ s \in State /\ s.status = "normal" /\ s.view = 0 /\ m.view = 0
      /\ s.lastOp = Len(s.log) /\ Len(s.log) \in Nat /\ m.opnum \in Nat
      /\ m.batchstart \in Nat
  BY FollowerFields, StateFields DEF PrepareType
<1>2. ~(s.status # "normal" \/ m.view < s.view) /\ ~(m.view > s.view)
  BY <1>1
<1>3. CASE m.opnum <= s.lastOp
  <2> DEFINE out == {PrepareOKMessage(m.view, m.opnum, r)}
  <2>1. Prepared(r, s, m) = Result(s, out)
    BY <1>2, <1>3 DEF Prepared
  <2>2. FollowerSays(r, s, PrepareOKMessage(0, m.opnum, r))
    BY <1>1, <1>3, PrepareOKSays
  <2>3. \A x \in out : FollowerSays(r, s, x)
    BY <1>1, <2>2
  <2> HIDE DEF out
  <2> QED
    BY <2>1, <2>3, FollowerSends
<1>4. CASE ~(m.opnum <= s.lastOp) /\ m.batchstart > s.lastOp + 1
  <2>1. Prepared(r, s, m) = Postpone(r, s, m)
    BY <1>2, <1>4 DEF Prepared
  <2> QED
    BY <2>1, PostponeGoes
<1>5. CASE ~(m.opnum <= s.lastOp) /\ ~(m.batchstart > s.lastOp + 1)
  <2>1. Prepared(r, s, m) = AppendBatch(r, s, m)
    BY <1>2, <1>5 DEF Prepared
  <2>2. m.opnum > s.lastOp /\ m.batchstart <= s.lastOp + 1
    BY <1>1, <1>5
  <2> QED
    BY <2>1, <2>2, AppendBatchGoes
<1> QED
  BY <1>3, <1>4, <1>5

-----------------------------------------------------------------------------
(* State transfer.                                                           *)

\* Handling one more of the kept Prepares after prev.
DrainOne(r, prev, m) == Then(prev, LAMBDA t : Prepared(r, t, m))

\* f gives what has happened after each of the first n kept Prepares.
Drained(r, start, kept, n, f) ==
  f = [i \in 0 .. n |->
         IF i = 0 THEN start ELSE DrainOne(r, f[i - 1], kept[i])]

\* There are such results, by induction on n.
LEMMA DrainedExists ==
  ASSUME NEW r, NEW start, NEW kept
  PROVE  \A n \in Nat : \E f : Drained(r, start, kept, n, f)
<1> DEFINE A == {n \in Nat : \E f : Drained(r, start, kept, n, f)}
<1>1. 0 \in A
  <2> DEFINE f == [i \in 0 .. 0 |-> start]
  <2>1. f = [i \in 0 .. 0 |->
               IF i = 0 THEN start ELSE DrainOne(r, f[i - 1], kept[i])]
    OBVIOUS
  <2> QED
    BY <2>1 DEF Drained
<1>2. ASSUME NEW n \in Nat, n \in A
      PROVE  n + 1 \in A
  <2>1. PICK f : Drained(r, start, kept, n, f)
    BY <1>2
  <2>2. f = [i \in 0 .. n |->
               IF i = 0 THEN start ELSE DrainOne(r, f[i - 1], kept[i])]
    BY <2>1 DEF Drained
  <2> DEFINE g == [i \in 0 .. n + 1 |->
                     IF i = n + 1 THEN DrainOne(r, f[n], kept[n + 1]) ELSE f[i]]
             h == [i \in 0 .. n + 1 |->
                     IF i = 0 THEN start ELSE DrainOne(r, g[i - 1], kept[i])]
  <2>3. ASSUME NEW i \in 0 .. n + 1
        PROVE  g[i] = h[i]
    <3>1. CASE i = n + 1
      BY <3>1
    <3>2. CASE i # n + 1 /\ i = 0
      <4>1. f[0] = start
        BY <2>2
      <4> QED
        BY <3>2, <4>1
    <3>3. CASE i # n + 1 /\ i # 0
      <4>1. i \in 0 .. n /\ i - 1 \in 0 .. n /\ i - 1 # n + 1 /\ i - 1 \in 0 .. n + 1
        BY <3>3
      <4>2. f[i] = DrainOne(r, f[i - 1], kept[i])
        BY <2>2, <3>3, <4>1
      <4>3. g[i] = f[i] /\ g[i - 1] = f[i - 1]
        BY <3>3, <4>1
      <4> QED
        BY <3>3, <4>2, <4>3
    <3> QED
      BY <3>1, <3>2, <3>3
  <2>4. g = h
    <3>1. DOMAIN g = 0 .. n + 1 /\ DOMAIN h = 0 .. n + 1
      OBVIOUS
    <3> QED
      BY <2>3, <3>1
  <2>5. Drained(r, start, kept, n + 1, g)
    BY <2>4 DEF Drained
  <2> QED
    BY <2>5
<1> HIDE DEF A
<1>3. \A n \in Nat : n \in A
  BY <1>1, <1>2, NatSetInduction
<1> QED
  BY <1>3 DEF A

\* DrainPending gives the last of them.
LEMMA DrainPendingIsLast ==
  ASSUME NEW r, NEW s, Len(s.pending) \in Nat
  PROVE  \E f : /\ Drained(r, Result([s EXCEPT !.pending = <<>>], {}), s.pending,
                           Len(s.pending), f)
                /\ DrainPending(r, s) = f[Len(s.pending)]
<1> DEFINE n == Len(s.pending)
           start == Result([s EXCEPT !.pending = <<>>], {})
           after == CHOOSE f : Drained(r, start, s.pending, n, f)
<1>1. \E f : Drained(r, start, s.pending, n, f)
  BY DrainedExists
<1>2. Drained(r, start, s.pending, n, after)
  BY <1>1
<1>3. DrainPending(r, s) = after[n]
  BY DEF DrainPending, Drained, DrainOne
<1> QED
  BY <1>2, <1>3

\* The kept Prepares are handled one after the other.
LEMMA DrainPendingGoes ==
  ASSUME NEW lead, Leads(lead), NEW r \in Followers, NEW s, Follows(lead, s)
  PROVE  FollowerGoes(lead, r, s, DrainPending(r, s))
<1> DEFINE kept == s.pending
           n == Len(kept)
           t == [s EXCEPT !.pending = <<>>]
           start == Result(t, {})
<1>1. /\ s \in State /\ kept \in Seq(PrepareType) /\ n \in Nat
      /\ \A i \in 1 .. n : kept[i] \in PrepareType /\ PrepareTrue(lead, kept[i])
      /\ LocalOK(s) /\ FollowerOK(lead, s)
  BY FollowerFields, StateFields DEF Follows
<1>2. PICK f : Drained(r, start, kept, n, f) /\ DrainPending(r, s) = f[n]
  BY <1>1, DrainPendingIsLast
<1>3. f[0] = start /\ \A i \in 1 .. n : f[i] = DrainOne(r, f[i - 1], kept[i])
  <2> HIDE DEF start, kept, n
  <2>1. f = [i \in 0 .. n |->
               IF i = 0 THEN start ELSE DrainOne(r, f[i - 1], kept[i])]
    BY <1>2 DEF Drained
  <2>2. 0 \in 0 .. n
    BY <1>1
  <2>3. \A i \in 1 .. n : i \in 0 .. n /\ i # 0
    BY <1>1
  <2> QED
    BY <2>1, <2>2, <2>3
<1>4. FollowerGoes(lead, r, s, start)
  <2>1. /\ t \in State /\ t.log = s.log /\ t.lastCommitted = s.lastCommitted
        /\ t.lastOp = s.lastOp /\ t.batchEnd = s.batchEnd /\ t.app = s.app
        /\ t.table = s.table /\ t.pending = <<>>
    <3> DEFINE none == <<>>
    <3>1. none \in Seq(PrepareType) /\ t = [s EXCEPT !.pending = none]
      OBVIOUS
    <3> HIDE DEF none, t
    <3>2. /\ t \in State /\ t.log = s.log /\ t.lastCommitted = s.lastCommitted
          /\ t.lastOp = s.lastOp /\ t.batchEnd = s.batchEnd /\ t.app = s.app
          /\ t.table = s.table /\ t.pending = none
      BY <1>1, <3>1 DEF State
    <3> QED
      BY <3>2 DEF none
  <2> HIDE DEF t
  <2>2. Extends(s, t)
    BY <1>1, <2>1, ExtendsItself
  <2>3. LocalOK(t)
    BY <1>1, <2>1 DEF LocalOK
  <2>4. TableUpTo(t, Len(t.log))
    BY <1>1, <2>1 DEF FollowerOK, TableUpTo
  <2>5. FollowerOK(lead, t)
    BY <1>1, <2>1, <2>4 DEF FollowerOK
  <2>6. start.st = t /\ start.out = {}
    BY DEF Result
  <2> HIDE DEF start
  <2> QED
    BY <2>1, <2>2, <2>3, <2>5, <2>6 DEF FollowerGoes, Follows
<1> HIDE DEF start, kept, n
<1> DEFINE A == {k \in Nat : k <= n => FollowerGoes(lead, r, s, f[k])}
<1>5. 0 \in A
  BY <1>3, <1>4
<1>6. ASSUME NEW k \in Nat, k \in A
      PROVE  k + 1 \in A
  <2> SUFFICES ASSUME k + 1 <= n
               PROVE  FollowerGoes(lead, r, s, f[k + 1])
    OBVIOUS
  <2> DEFINE m == kept[k + 1]
             next == Prepared(r, f[k].st, m)
  <2>1. k <= n /\ k + 1 \in 1 .. n /\ (k + 1) - 1 = k
    BY <1>1
  <2>2. FollowerGoes(lead, r, s, f[k])
    BY <1>6, <2>1
  <2>3. Follows(lead, f[k].st) /\ f[k].st.failed = NoFailure
    BY <2>2, StateFields DEF FollowerGoes, Follows
  <2>4. m \in PrepareType /\ PrepareTrue(lead, m)
    BY <1>1, <2>1
  <2>5. f[k + 1] = DrainOne(r, f[k], m)
    BY <1>3, <2>1
  <2> HIDE DEF m
  <2>6. f[k + 1] = Result(next.st, f[k].out \cup next.out)
    BY <2>3, <2>5 DEF DrainOne, Then
  <2>7. FollowerGoes(lead, r, f[k].st, next)
    BY <2>3, <2>4, PreparedGoes
  <2> DEFINE prev == f[k]
  <2>8. FollowerGoes(lead, r, s, prev) /\ FollowerGoes(lead, r, prev.st, next)
    BY <2>2, <2>7
  <2> HIDE DEF next, prev
  <2>9. FollowerGoes(lead, r, s, Result(next.st, prev.out \cup next.out))
    BY <1>1, <2>8, FollowerGoesOn
  <2> QED
    BY <2>6, <2>9 DEF prev
<1> HIDE DEF A
<1>7. n \in A
  BY <1>1, <1>5, <1>6, NatSetInduction
<1> QED
  BY <1>1, <1>2, <1>7 DEF A

\* A follower executes what the leader has executed.
LEMMA FollowerCommits ==
  ASSUME NEW lead, Leads(lead), NEW r \in Followers, NEW s, Follows(lead, s),
         NEW upto \in 0 .. Len(s.log), upto <= lead.lastCommitted
  PROVE  LET res == CommitUpTo(s, upto)
         IN  /\ FollowerGoes(lead, r, s, res)
             /\ res.st.log = s.log
             /\ \A b \in 0 .. Len(s.log), d \in 0 .. Len(s.log) :
                  TableUpTo(s, b) /\ d >= b /\ d >= res.st.lastCommitted
                    => TableUpTo(res.st, d)
<1> DEFINE res == CommitUpTo(s, upto)
           t == res.st
<1>1. /\ s \in State /\ LocalOK(s) /\ FollowerOK(lead, s) /\ Len(s.log) \in Nat
      /\ s.lastCommitted \in 0 .. Len(s.log) /\ s.lastCommitted <= lead.lastCommitted
      /\ TableUpTo(s, Len(s.log))
  BY FollowerFields DEF Follows
<1>2. /\ t \in State /\ LocalOK(t) /\ Extends(s, t)
      /\ t.log = s.log /\ t.pending = s.pending
      /\ t.lastCommitted \in {s.lastCommitted, upto}
      /\ \A c \in Clients :
           \/ t.table[c] = s.table[c]
           \/ \E i \in 1 .. t.lastCommitted :
                s.log[i].req = [client |-> c, id |-> t.table[c].id]
      /\ res.out \in SUBSET ReplyType
  BY <1>1, CommitUpToFields
<1> HIDE DEF res
<1>3. t.lastCommitted \in 0 .. Len(s.log) /\ t.lastCommitted <= lead.lastCommitted
  BY <1>1, <1>2
<1>4. ASSUME NEW b \in 0 .. Len(s.log), NEW d \in 0 .. Len(s.log),
             TableUpTo(s, b), d >= b, d >= t.lastCommitted
      PROVE  TableUpTo(t, d)
  <2>1. \A i \in 1 .. b : i \in 1 .. d
    BY <1>1, <1>4
  <2>2. \A i \in 1 .. t.lastCommitted : i \in 1 .. d
    BY <1>1, <1>3, <1>4
  <2> QED
    BY <1>2, <1>4, <2>1, <2>2 DEF TableUpTo
<1>5. TableUpTo(t, Len(t.log))
  <2>1. Len(s.log) \in 0 .. Len(s.log) /\ Len(s.log) >= Len(s.log)
        /\ Len(s.log) >= t.lastCommitted
    BY <1>1, <1>3
  <2> QED
    BY <1>1, <1>2, <1>4, <2>1
<1>6. FollowerOK(lead, t)
  BY <1>1, <1>2, <1>3, <1>5 DEF FollowerOK
<1>7. \A m \in res.out : FollowerSays(r, t, m)
  BY <1>2 DEF FollowerSays
<1>8. FollowerGoes(lead, r, s, res)
  BY <1>2, <1>6, <1>7 DEF FollowerGoes, Follows
<1> QED
  BY <1>2, <1>4, <1>8 DEF res

\* SendPrepareOKs acknowledges what is not executed, and finds nothing stale.
LEMMA SendPrepareOKsGoes ==
  ASSUME NEW lead, Leads(lead), NEW r \in Followers, NEW s, Follows(lead, s),
         NEW from \in Nat, NEW b \in 0 .. Len(s.log), TableUpTo(s, b),
         b <= from \/ b <= s.lastCommitted
  PROVE  FollowerGoes(lead, r, s, SendPrepareOKs(r, s, from))
<1> DEFINE ops == {i \in from .. s.lastOp : i > s.lastCommitted}
           t == [s EXCEPT !.table = UpdatedTable(s, ops)]
           out == {PrepareOKMessage(s.view, i, r) : i \in ops}
<1>1. /\ s \in State /\ s.lastOp = Len(s.log) /\ Len(s.log) \in Nat
      /\ s.lastCommitted \in 0 .. Len(s.log) /\ Ordered(s.log) /\ s.view = 0
  BY FollowerFields, StateFields
<1>2. /\ ops \in SUBSET (1 .. Len(s.log)) /\ \A i \in ops : i >= b
  BY <1>1
<1>3. \A i \in ops : i <= Len(s.log)
  BY <1>1
<1> HIDE DEF ops
<1>4. StaleEntries(s, ops) = {}
  BY <1>1, <1>2, NoStaleEntries
<1>5. SendPrepareOKs(r, s, from) = Result(t, out)
  <2> DEFINE inLog == {i \in ops : i <= Len(s.log)}
             bad == (ops \ inLog) \cup StaleEntries(s, inLog)
             good == {i \in ops : \A x \in bad : i < x}
  <2>1. inLog = ops
    BY <1>3
  <2>2. bad = {}
    BY <1>4, <2>1
  <2>3. good = ops
    BY <2>2
  <2>4. SendPrepareOKs(r, s, from) =
          IF bad = {}
          THEN Result([s EXCEPT !.table = UpdatedTable(s, good)],
                      {PrepareOKMessage(s.view, i, r) : i \in good})
          ELSE Result([[s EXCEPT !.table = UpdatedTable(s, good)]
                         EXCEPT !.failed = "SendPrepareOKs"],
                      {PrepareOKMessage(s.view, i, r) : i \in good})
    BY DEF SendPrepareOKs, ops
  <2> HIDE DEF good, bad
  <2> QED
    BY <2>2, <2>3, <2>4
<1>6. Follows(lead, t) /\ Extends(s, t) /\ t.log = s.log
  BY <1>2, NewTable
<1>7. t \in State
  BY <1>6 DEF Follows
<1> HIDE DEF t
<1>8. ASSUME NEW m \in out
      PROVE  FollowerSays(r, t, m)
  <2>1. PICK i \in ops : m = PrepareOKMessage(s.view, i, r)
    OBVIOUS
  <2>2. i \in 0 .. Len(t.log)
    BY <1>1, <1>2, <1>6
  <2> QED
    BY <1>1, <1>7, <2>1, <2>2, PrepareOKSays
<1> HIDE DEF out
<1>9. Result(t, out).st = t /\ Result(t, out).out = out
  BY DEF Result
<1> QED
  BY <1>5, <1>6, <1>8, <1>9 DEF FollowerGoes

\* The loop of HandleStateTransfer adds the leader's entries to the log.
LEMMA MergeGoes ==
  ASSUME NEW lead, Leads(lead), NEW r \in Followers, NEW s, Follows(lead, s),
         NEW m \in TransferType, TransferTrue(lead, s, m)
  PROVE  LET merged == Merge(s, m.entries)
         IN  /\ merged.from = Len(s.log)
             /\ FollowerGoes(lead, r, s, Result(merged.st, {}))
             /\ m.opnum <= Len(merged.st.log) /\ TableUpTo(merged.st, Len(s.log))
<1> DEFINE es == m.entries
           list == es.list
           first == es.first
           merged == Merge(s, es)
           last == LastOf(es)
           len == Len(s.log)
           D == {op \in Opnums(es) : /\ op > s.lastCommitted /\ op <= s.lastOp
                                     /\ s.log[op].view # At(es, op).view}
           rest == SubSeq(list, len + 1 - first + 1, Len(list))
           log == s.log \o rest
           t == [s EXCEPT !.log = log, !.lastOp = last]
<1>1. /\ s \in State /\ lead \in State /\ LocalOK(s) /\ LocalOK(lead)
      /\ s.lastOp = len /\ s.lastCommitted \in 0 .. len
      /\ len \in Nat /\ Len(lead.log) \in Nat /\ len <= Len(lead.log)
      /\ \A i \in 1 .. len : s.log[i] = lead.log[i]
      /\ TableUpTo(s, len) /\ s.log \in Seq(Entry)
  BY FollowerFields, StateFields
<1>2. /\ m.opnum \in Nat /\ es \in [first : Nat, list : Seq(Entry)]
  BY DEF TransferType
<1>3. first \in Nat /\ list \in Seq(Entry) /\ Len(list) \in Nat
  BY <1>2
<1>4. /\ first >= 1 /\ first - 1 <= s.lastCommitted
      /\ first + Len(list) - 1 <= Len(lead.log)
      /\ \A i \in 1 .. Len(list) : list[i] = lead.log[first + i - 1]
      /\ m.opnum <= first + Len(list) - 1
  BY DEF TransferTrue
<1>5. last = first + Len(list) - 1
  BY DEF LastOf
<1> HIDE DEF last
<1>6. D = {}
  <2>1. SUFFICES ASSUME NEW op \in D
                 PROVE  FALSE
    OBVIOUS
  <2>2. /\ op \in first .. last /\ op > s.lastCommitted /\ op <= len
        /\ s.log[op].view # list[op - first + 1].view
    BY <1>1 DEF Opnums, At, last
  <2> HIDE DEF D, first, list, len
  <2>3. op \in 1 .. len /\ op - first + 1 \in 1 .. Len(list)
        /\ first + (op - first + 1) - 1 = op
    <3> DEFINE count == Len(list)
    <3>1. op \in Int /\ op >= first /\ op <= first + count - 1 /\ op <= len
      BY <1>3, <1>5, <2>2
    <3>2. /\ first \in Nat /\ first >= 1 /\ count \in Nat /\ len \in Nat
      BY <1>1, <1>3, <1>4
    <3> HIDE DEF count
    <3>3. /\ op \in 1 .. len /\ op - first + 1 \in 1 .. count
          /\ first + (op - first + 1) - 1 = op
      BY <3>1, <3>2
    <3> QED
      BY <3>3 DEF count
  <2>4. list[op - first + 1] = lead.log[op] /\ s.log[op] = lead.log[op]
    BY <1>1, <1>4, <2>3
  <2> QED
    BY <2>2, <2>4
<1>7. /\ merged.from = len
      /\ merged.st = IF list = <<>> \/ last <= len THEN s
                     ELSE IF first > len + 1 \/ Len(s.log) # s.lastOp
                     THEN [s EXCEPT !.failed = "StateTransfer"]
                     ELSE [s EXCEPT !.log = Splice(s.log, es, s.lastOp + 1),
                                    !.lastOp = last]
  <2>1. merged = [from |-> s.lastOp,
            st |-> IF list = <<>> \/ last <= s.lastOp THEN s
                   ELSE IF first > s.lastOp + 1 \/ Len(s.log) # s.lastOp
                   THEN [s EXCEPT !.failed = "StateTransfer"]
                   ELSE [s EXCEPT !.log = Splice(s.log, es, s.lastOp + 1),
                                  !.lastOp = last]]
    <3> HIDE DEF len
    <3> QED
      BY <1>6 DEF Merge, last
  <2> HIDE DEF merged, len
  <2> QED
    BY <1>1, <2>1
<1>8. CASE list = <<>> \/ last <= len
  <2>1. merged.st = s
    BY <1>7, <1>8
  <2>2. m.opnum <= len
    <3>1. CASE last <= len
      BY <1>1, <1>2, <1>3, <1>4, <1>5, <3>1
    <3>2. CASE list = <<>>
      <4>1. Len(list) = 0
        BY <3>2
      <4> HIDE DEF list, first, len
      <4> QED
        BY <1>1, <1>2, <1>3, <1>4, <4>1
    <3> QED
      BY <1>8, <3>1, <3>2
  <2>3. FollowerGoes(lead, r, s, Result(s, {}))
    BY FollowerSends
  <2> HIDE DEF merged
  <2> QED
    BY <1>1, <1>7, <2>1, <2>2, <2>3 DEF merged
<1>9. CASE ~(list = <<>> \/ last <= len)
  <2> HIDE DEF list, first
  <2> DEFINE a == len + 1 - first + 1
  <2>1. first <= len + 1 /\ a \in 1 .. Len(list) /\ last > len /\ last \in Nat
        /\ last - len = Len(list) - a + 1
    BY <1>1, <1>3, <1>4, <1>5, <1>9
  <2>2. /\ rest \in Seq(Entry) /\ Len(rest) = last - len
        /\ \A i \in 1 .. last - len : rest[i] = list[a + i - 1]
    <3>1. rest = SubSeq(list, a, Len(list)) /\ list \in Seq(Entry)
      BY <1>3
    <3> HIDE DEF a, list, rest
    <3>2. /\ rest \in Seq(Entry) /\ Len(rest) = Len(list) - a + 1
          /\ \A i \in 1 .. (Len(list) - a + 1) : rest[i] = list[a + i - 1]
      BY <2>1, <3>1, SuffixElements
    <3> QED
      BY <2>1, <3>2
  <2>3. Splice(s.log, es, s.lastOp + 1) = log
    <3> DEFINE op == s.lastOp + 1
    <3>1. op - 1 = Len(s.log) /\ op - es.first + 1 = a
      <4>1. len \in Nat /\ first \in Nat /\ op = len + 1
        BY <1>1, <1>3
      <4> HIDE DEF len, op
      <4>2. op - 1 = len /\ op - first + 1 = a
        BY <4>1
      <4> QED
        BY <4>2 DEF len, first
    <3>2. SubSeq(s.log, 1, Len(s.log)) = s.log
      BY <1>1, SubSeqFull
    <3> HIDE DEF op
    <3>3. s.log = SubSeq(s.log, 1, op - 1)
      BY <3>1, <3>2
    <3>4. rest = SubSeq(es.list, op - es.first + 1, Len(es.list))
      BY <3>1 DEF list
    <3> DEFINE x == s.log
               z == s.log
    <3>5. x = SubSeq(z, 1, op - 1)
      BY <3>3
    <3> HIDE DEF rest, es, x, z
    <3>6. Splice(z, es, op) = x \o rest
      BY <3>4, <3>5, Zenon DEF Splice
    <3> QED
      BY <3>6 DEF op, x, z
  <2>4. merged.st = t
    <3>1. ~(first > len + 1 \/ Len(s.log) # s.lastOp)
      BY <1>1, <1>3, <2>1
    <3> QED
      BY <1>7, <1>9, <2>3, <3>1
  <2>5. /\ log \in Seq(Entry) /\ Len(log) = last
        /\ \A i \in 1 .. last : log[i] = lead.log[i]
    <3> DEFINE L == s.log
    <3>1. L \in Seq(Entry) /\ Len(L) = len
      BY <1>1
    <3> HIDE DEF L, rest, len
    <3>2. /\ L \o rest \in Seq(Entry) /\ Len(L \o rest) = Len(L) + Len(rest)
          /\ \A i \in 1 .. Len(L) + Len(rest) :
               (L \o rest)[i] = IF i <= Len(L) THEN L[i] ELSE rest[i - Len(L)]
      BY <2>2, <3>1, ConcatProperties
    <3>3. Len(L \o rest) = last
      BY <1>1, <2>1, <2>2, <3>1, <3>2
    <3>4. ASSUME NEW i \in 1 .. last
          PROVE  (L \o rest)[i] = lead.log[i]
      <4>1. CASE i <= len
        <5>1. (L \o rest)[i] = L[i]
          BY <1>1, <2>1, <2>2, <3>1, <3>2, <4>1
        <5>2. L[i] = lead.log[i]
          BY <1>1, <2>1, <4>1 DEF L
        <5> QED
          BY <5>1, <5>2
      <4>2. CASE ~(i <= len)
        <5>1. i - len \in 1 .. last - len
          BY <1>1, <2>1, <4>2
        <5>2. (L \o rest)[i] = rest[i - len]
          <6>1. i \in 1 .. Len(L) + Len(rest) /\ ~(i <= Len(L))
            BY <1>1, <2>1, <2>2, <3>1, <4>2
          <6>2. (L \o rest)[i] = rest[i - Len(L)]
            BY <3>2, <6>1
          <6> QED
            BY <3>1, <6>2
        <5>3. /\ a + (i - len) - 1 \in 1 .. Len(list)
              /\ first + (a + (i - len) - 1) - 1 = i
          BY <1>1, <1>3, <1>5, <2>1, <5>1
        <5>4. rest[i - len] = list[a + (i - len) - 1]
          BY <2>2, <5>1
        <5>5. list[a + (i - len) - 1] = lead.log[i]
          BY <1>4, <5>3 DEF list, first
        <5> QED
          BY <5>2, <5>4, <5>5
      <4> QED
        BY <4>1, <4>2
    <3> QED
      BY <3>2, <3>3, <3>4 DEF L
  <2> HIDE DEF log, a
  <2>6. /\ t \in State /\ t.log = log /\ t.lastOp = Len(t.log)
        /\ t.lastCommitted = s.lastCommitted /\ t.batchEnd = s.batchEnd
        /\ t.app = s.app /\ t.table = s.table /\ t.pending = s.pending
    BY <1>1, <2>1, <2>5 DEF State
  <2>7. LeadersPrefix(lead, t.log) /\ Len(s.log) <= Len(t.log)
    BY <1>1, <1>4, <1>5, <2>1, <2>5, <2>6 DEF LeadersPrefix, first, list
  <2> HIDE DEF t
  <2>8. Follows(lead, t) /\ Extends(s, t) /\ TableUpTo(t, Len(s.log))
    BY <2>6, <2>7, LongerLog
  <2>9. FollowerGoes(lead, r, s, Result(t, {}))
    <3>1. Result(t, {}).st = t /\ Result(t, {}).out = {}
      BY DEF Result
    <3> QED
      BY <2>8, <3>1 DEF FollowerGoes
  <2>10. m.opnum <= Len(t.log)
    BY <1>4, <1>5, <2>5, <2>6 DEF first, list
  <2> HIDE DEF merged
  <2> QED
    BY <1>7, <2>4, <2>8, <2>9, <2>10 DEF merged
<1> QED
  BY <1>8, <1>9

\* HandleStateTransfer: a follower stays one, and no check of it fails.
LEMMA InstallStateGoes ==
  ASSUME NEW lead, Leads(lead), NEW r \in Followers, NEW s, Follows(lead, s),
         NEW m \in TransferType, TransferTrue(lead, s, m)
  PROVE  FollowerGoes(lead, r, s, InstallState(r, s, m))
<1> DEFINE merged == Merge(s, m.entries)
           a0 == Result(merged.st, {})
           T1 == Then(a0, LAMBDA t : Result(IF m.view > t.view
                                            THEN EnterView(t, m.view) ELSE t, {}))
           T2 == Then(T1, LAMBDA t : IF m.opnum > t.lastOp
                                     THEN Abort(t, "StateTransfer")
                                     ELSE CommitUpTo(t, m.opnum))
           T3 == Then(T2, LAMBDA t : SendPrepareOKs(r, t, merged.from))
           T4 == Then(T3, LAMBDA t : DrainPending(r, t))
           len == Len(s.log)
<1>1. /\ s \in State /\ len \in Nat /\ lead.lastCommitted \in Nat
      /\ s.lastCommitted \in 0 .. len /\ m.opnum \in Nat /\ m.view = 0
      /\ m.opnum <= lead.lastCommitted
  BY FollowerFields DEF TransferType, TransferTrue
<1>2. /\ merged.from = len /\ FollowerGoes(lead, r, s, a0)
      /\ m.opnum <= Len(merged.st.log) /\ TableUpTo(merged.st, len)
  BY MergeGoes
<1>3. InstallState(r, s, m) = T4
  BY DEF InstallState
<1> HIDE DEF merged
<1>4. a0.st = merged.st /\ a0.out = {} /\ Result(merged.st, {} \cup {}) = a0
  BY DEF Result
<1> HIDE DEF a0
<1>5. /\ Follows(lead, a0.st) /\ a0.st \in State /\ a0.st.failed = NoFailure
      /\ a0.st.view = 0 /\ a0.st.lastOp = Len(a0.st.log)
      /\ Len(a0.st.log) \in Nat
  BY <1>2, FollowerFields, StateFields DEF FollowerGoes
<1>6. T1 = a0
  <2>1. ~(m.view > a0.st.view)
    BY <1>1, <1>5
  <2>2. T1 = Result(Result(a0.st, {}).st, a0.out \cup Result(a0.st, {}).out)
    BY <1>5, <2>1 DEF Then
  <2>3. Result(a0.st, {}).st = a0.st /\ Result(a0.st, {}).out = {}
    BY DEF Result
  <2> QED
    BY <1>4, <2>2, <2>3
<1> HIDE DEF T1
<1> DEFINE c == CommitUpTo(a0.st, m.opnum)
           a2 == Result(c.st, a0.out \cup c.out)
<1>7. ~(m.opnum > a0.st.lastOp) /\ m.opnum \in 0 .. Len(a0.st.log)
  BY <1>1, <1>2, <1>4, <1>5
<1>8. T2 = a2
  BY <1>5, <1>6, <1>7 DEF Then
<1> HIDE DEF T2
<1>9. /\ FollowerGoes(lead, r, a0.st, c) /\ c.st.log = a0.st.log
      /\ \A b \in 0 .. Len(a0.st.log), d \in 0 .. Len(a0.st.log) :
           TableUpTo(a0.st, b) /\ d >= b /\ d >= c.st.lastCommitted
             => TableUpTo(c.st, d)
  <2> DEFINE u == a0.st
  <2>1. /\ Follows(lead, u) /\ m.opnum \in 0 .. Len(u.log)
        /\ m.opnum <= lead.lastCommitted
    BY <1>1, <1>5, <1>7
  <2> HIDE DEF u
  <2>2. LET res == CommitUpTo(u, m.opnum)
        IN  /\ FollowerGoes(lead, r, u, res) /\ res.st.log = u.log
            /\ \A b \in 0 .. Len(u.log), d \in 0 .. Len(u.log) :
                 TableUpTo(u, b) /\ d >= b /\ d >= res.st.lastCommitted
                   => TableUpTo(res.st, d)
    BY <2>1, FollowerCommits, SMTT(20)
  <2> QED
    BY <2>2 DEF u
<1> HIDE DEF c
<1>10. FollowerGoes(lead, r, s, a2) /\ a2.st = c.st
  <2>1. FollowerGoes(lead, r, s, a2)
    BY <1>1, <1>2, <1>9, FollowerGoesOn
  <2> QED
    BY <2>1 DEF Result
<1> HIDE DEF a2
<1>11. /\ Follows(lead, a2.st) /\ a2.st \in State /\ a2.st.failed = NoFailure
       /\ a2.st.lastCommitted \in 0 .. Len(a2.st.log)
  BY <1>10, FollowerFields, StateFields DEF FollowerGoes
<1> DEFINE k == SendPrepareOKs(r, a2.st, len)
           a3 == Result(k.st, a2.out \cup k.out)
<1>12. T3 = a3
  BY <1>2, <1>8, <1>11 DEF Then
<1> HIDE DEF T3
<1>13. FollowerGoes(lead, r, a2.st, k)
  <2> DEFINE lc == a2.st.lastCommitted
             n == Len(a2.st.log)
             b == IF lc <= len THEN len ELSE lc
  <2>1. n = Len(a0.st.log) /\ n \in Nat /\ lc \in 0 .. n /\ lc = c.st.lastCommitted
        /\ len <= n
    <3>1. len <= Len(a0.st.log)
      BY <1>2 DEF FollowerGoes, Extends
    <3> QED
      BY <1>5, <1>9, <1>10, <1>11, <3>1
  <2>2. len \in 0 .. Len(a0.st.log)
    BY <1>1, <2>1
  <2> HIDE DEF lc, n, len
  <2>3. b \in 0 .. n /\ b >= len /\ b >= lc /\ (b <= len \/ b <= lc)
    BY <1>1, <2>1
  <2> HIDE DEF b
  <2>4. TableUpTo(a2.st, b)
    BY <1>2, <1>4, <1>9, <1>10, <2>1, <2>2, <2>3
  <2>5. b \in 0 .. Len(a2.st.log) /\ (b <= len \/ b <= a2.st.lastCommitted)
    BY <2>3 DEF n, lc
  <2> QED
    BY <1>1, <1>11, <2>4, <2>5, SendPrepareOKsGoes
<1> HIDE DEF k
<1>14. FollowerGoes(lead, r, s, a3)
  BY <1>1, <1>10, <1>13, FollowerGoesOn
<1> HIDE DEF a3
<1>15. Follows(lead, a3.st) /\ a3.st \in State /\ a3.st.failed = NoFailure
  BY <1>14, StateFields DEF FollowerGoes, Follows
<1> DEFINE d == DrainPending(r, a3.st)
           a4 == Result(d.st, a3.out \cup d.out)
<1>16. T4 = a4
  BY <1>12, <1>15 DEF Then
<1> HIDE DEF T4
<1>17. FollowerGoes(lead, r, a3.st, d)
  BY <1>15, DrainPendingGoes
<1> HIDE DEF d
<1>18. FollowerGoes(lead, r, s, a4)
  BY <1>1, <1>14, <1>17, FollowerGoesOn
<1> QED
  BY <1>3, <1>16, <1>18

-----------------------------------------------------------------------------
(* What the leader does.  Of the followers only their logs matter.           *)

\* s may be the leader's state, with the followers as in R.
LeadsIn(R, s) == s \in State /\ LocalOK(s) /\ LeaderOK(R, s)

\* The leader in state t may send m, but for a StateTransfer.
LeaderSays(t, m) ==
  \/ m \in PrepareType /\ PrepareTrue(t, m)
  \/ m \in CommitType /\ m.opnum <= t.lastCommitted
  \/ m \in ReplyType

\* From state s, the leader may go on with the result res.
LeaderGoes(R, s, res) ==
  /\ LeadsIn(R, res.st) /\ Extends(s, res.st)
  /\ \A m \in res.out : LeaderSays(res.st, m)

\* Numbers about the leader's state.
LEMMA LeaderFields ==
  ASSUME NEW R, NEW s, LeadsIn(R, s)
  PROVE  /\ s \in State /\ LocalOK(s) /\ s.failed = NoFailure /\ s.view = 0
         /\ s.lastOp = Len(s.log) /\ Len(s.log) \in Nat /\ s.log \in Seq(Entry)
         /\ s.lastCommitted \in 0 .. Len(s.log) /\ s.batchEnd \in 0 .. Len(s.log)
         /\ \A i \in 1 .. Len(s.log) : s.log[i].view = 0
<1>1. s \in State /\ LocalOK(s)
  BY DEF LeadsIn
<1>2. /\ s.lastOp \in Nat /\ s.lastCommitted \in Nat /\ Len(s.log) \in Nat
      /\ s.batchEnd \in Nat /\ s.failed = NoFailure /\ s.view = 0
      /\ s.log \in Seq(Entry)
  BY <1>1, StateFields
<1>3. /\ s.lastOp = Len(s.log) /\ s.lastCommitted <= s.lastOp
      /\ s.batchEnd <= s.lastOp /\ \A i \in 1 .. Len(s.log) : s.log[i].view = 0
  BY <1>1 DEF LocalOK
<1> QED
  BY <1>1, <1>2, <1>3

\* One thing after another.
LEMMA LeaderGoesOn ==
  ASSUME NEW R, NEW s \in State, NEW a, NEW b,
         LeaderGoes(R, s, a), LeaderGoes(R, a.st, b)
  PROVE  LeaderGoes(R, s, Result(b.st, a.out \cup b.out))
<1> DEFINE c == Result(b.st, a.out \cup b.out)
<1>1. c.st = b.st /\ c.out = a.out \cup b.out
  BY DEF Result
<1>2. a.st \in State /\ b.st \in State /\ Extends(s, a.st) /\ Extends(a.st, b.st)
      /\ LeadsIn(R, b.st)
  BY DEF LeaderGoes, LeadsIn
<1>3. Extends(s, b.st)
  BY <1>2, ExtendsTransitive
<1>4. ASSUME NEW m \in a.out
      PROVE  LeaderSays(b.st, m)
  <2>1. LeaderSays(a.st, m)
    BY DEF LeaderGoes
  <2>2. CASE m \in PrepareType /\ PrepareTrue(a.st, m)
    BY <1>2, <2>2, PrepareStable DEF LeaderSays
  <2>3. CASE m \in CommitType /\ m.opnum <= a.st.lastCommitted
    <3>1. m.opnum \in Nat
      BY <2>3 DEF CommitType
    <3>2. /\ a.st.lastCommitted <= b.st.lastCommitted
          /\ a.st.lastCommitted \in Nat /\ b.st.lastCommitted \in Nat
      BY <1>2, StateFields DEF Extends
    <3>3. m.opnum <= b.st.lastCommitted
      BY <2>3, <3>1, <3>2
    <3> QED
      BY <2>3, <3>3 DEF LeaderSays
  <2> QED
    BY <2>1, <2>2, <2>3 DEF LeaderSays
<1>5. \A m \in b.out : LeaderSays(b.st, m)
  BY DEF LeaderGoes
<1> HIDE DEF c
<1>6. LeaderGoes(R, s, c)
  BY <1>1, <1>2, <1>3, <1>4, <1>5 DEF LeaderGoes
<1> QED
  BY <1>6 DEF c

\* t has the log and the executions of s.
SameLog(s, t) ==
  /\ t.log = s.log /\ t.lastOp = s.lastOp /\ t.lastCommitted = s.lastCommitted
  /\ t.app = s.app

\* The client table of t is not behind that of s.
TableGrows(s, t) == \A c \in Clients : t.table[c].id >= s.table[c].id

\* A step of the leader that leaves its log and what is executed alone.
LEMMA LeaderQuiet ==
  ASSUME NEW R, NEW s, LeadsIn(R, s), NEW t \in State, SameLog(s, t),
         t.batchEnd <= s.lastOp, TableGrows(s, t),
         OKsTrue(R, t.oks)
  PROVE  LeadsIn(R, t) /\ Extends(s, t)
<1>1. /\ s \in State /\ LocalOK(s) /\ LeaderOK(R, s)
      /\ t.log = s.log /\ t.lastOp = s.lastOp /\ t.app = s.app
      /\ t.lastCommitted = s.lastCommitted
  BY DEF LeadsIn, SameLog
<1>2. LocalOK(t)
  BY <1>1 DEF LocalOK
<1>3. ASSUME NEW i \in 1 .. Len(t.log)
      PROVE  t.log[i].req.id <= t.table[t.log[i].req.client].id
  <2> DEFINE c == t.log[i].req.client
  <2>1. c \in Clients /\ t.log[i].req.id \in 1 .. MaxReq
    BY EntryFields
  <2>2. s.table[c].id \in 0 .. MaxReq /\ t.table[c].id \in 0 .. MaxReq
    BY <1>1, <2>1, EntryFields
  <2>3. t.log[i].req.id <= s.table[c].id
    BY <1>1 DEF LeaderOK
  <2>4. t.table[c].id >= s.table[c].id
    BY <2>1 DEF TableGrows
  <2> DEFINE x == t.log[i].req.id
             y == s.table[c].id
             z == t.table[c].id
  <2>5. /\ x \in 1 .. MaxReq /\ y \in 0 .. MaxReq /\ z \in 0 .. MaxReq
        /\ x <= y /\ z >= y
    BY <2>1, <2>2, <2>3, <2>4
  <2> HIDE DEF x, y, z
  <2>6. x \in Int /\ y \in Int /\ z \in Int /\ x <= y /\ y <= z
    BY <2>5, Constants
  <2>7. x <= z
    BY <2>6, AtMostTransitive
  <2> QED
    BY <2>7 DEF c, x, z
<1>4. LeaderOK(R, t)
  BY <1>1, <1>3 DEF LeaderOK
<1>5. Extends(s, t)
  BY <1>1, ExtendsItself
<1> QED
  BY <1>2, <1>4, <1>5 DEF LeadsIn

\* CloseBatch sends what the log holds after the last batch.
LEMMA CloseBatchGoes ==
  ASSUME NEW R, NEW s, LeadsIn(R, s), s.lastOp > s.batchEnd
  PROVE  LeaderGoes(R, s, CloseBatch(s))
<1> DEFINE e == s.batchEnd
           len == Len(s.log)
           ops == (e + 1) .. s.lastOp
           k == Cardinality(ops)
           reqs == [i \in 1 .. k |-> s.log[e + i].req]
           p == PrepareMessage(s.view, e + 1, reqs)
           t == [s EXCEPT !.batchEnd = s.lastOp, !.batchDone = FALSE]
<1>1. /\ s \in State /\ s.view = 0 /\ s.lastOp = len /\ len \in Nat
      /\ e \in Nat /\ e < len /\ s.log \in Seq(Entry)
      /\ \A i \in 1 .. len : s.log[i].view = 0
  BY LeaderFields
<1>2. \A op \in ops : ~(op > len) /\ s.log[op].view = s.view
  BY <1>1
<1>3. CloseBatch(s) = Result(t, {p})
  <2>1. ~(s.batchEnd >= s.lastOp)
    BY <1>1
  <2> QED
    BY <1>2, <2>1 DEF CloseBatch
<1>4. k \in Nat /\ k = len - e
  <2> HIDE DEF e, len
  <2>1. e <= len
    BY <1>1
  <2> QED
    BY <1>1, <2>1, OpsBetween
<1> HIDE DEF k
<1>5. \A i \in 1 .. k : e + i \in 1 .. len
  BY <1>1, <1>4
<1>6. reqs \in Seq(Req) /\ Len(reqs) = k
  <2>1. \A i \in 1 .. k : s.log[e + i].req \in Req
    BY <1>1, <1>5, EntryFields
  <2> HIDE DEF e
  <2>2. reqs \in [1 .. k -> Req]
    BY <2>1
  <2>3. reqs \in Seq(Req)
    BY <1>4, <2>2
  <2> QED
    BY <1>4, <2>3
<1>7. \A i \in 1 .. k : reqs[i] = s.log[e + i].req
  OBVIOUS
<1> HIDE DEF reqs, e, len
<1>8. /\ p.type = "Prepare" /\ p.view = 0 /\ p.batchstart = e + 1
      /\ p.reqs = reqs /\ p.opnum = e + 1 + Len(reqs) - 1 /\ p.from = Leader
      /\ p \in PrepareType
  <2>1. p = [type |-> "Prepare", view |-> 0, batchstart |-> e + 1, reqs |-> reqs,
             opnum |-> e + 1 + Len(reqs) - 1, from |-> Leader]
    BY <1>1, Constants DEF PrepareMessage
  <2>2. e + 1 \in Nat /\ e + 1 + Len(reqs) - 1 \in Nat
    BY <1>1, <1>4, <1>6
  <2> QED
    BY <1>6, <2>1, <2>2 DEF PrepareType
<1> HIDE DEF p
<1>9. /\ t \in State /\ t.batchEnd = s.lastOp /\ t.oks = s.oks /\ t.table = s.table
      /\ SameLog(s, t)
  BY <1>1 DEF State, SameLog
<1> HIDE DEF t
<1>10. PrepareTrue(t, p)
  <2>1. p.batchstart >= 1 /\ p.opnum = len
    <3>1. e \in Nat /\ len \in Nat /\ Len(reqs) = len - e
      BY <1>1, <1>4, <1>6
    <3>2. p.batchstart = e + 1 /\ p.opnum = e + 1 + Len(reqs) - 1
      BY <1>8
    <3>3. e + 1 >= 1 /\ e + 1 + Len(reqs) - 1 = len
      BY <3>1
    <3> QED
      BY <3>2, <3>3
  <2>2. p.opnum = p.batchstart + Len(p.reqs) - 1
    BY <1>8
  <2>3. t.log = s.log /\ Len(t.log) = len
    BY <1>9 DEF SameLog, len
  <2>4. ASSUME NEW i \in 1 .. Len(p.reqs)
        PROVE  t.log[p.batchstart + i - 1].req = p.reqs[i]
    <3>1. p.batchstart + i - 1 = e + i /\ i \in 1 .. k
      BY <1>1, <1>6, <1>8
    <3> QED
      BY <1>7, <1>8, <2>3, <3>1
  <2>5. p.opnum <= Len(t.log)
    BY <1>1, <2>1, <2>3
  <2> QED
    BY <2>1, <2>2, <2>4, <2>5 DEF PrepareTrue
<1>11. LeadsIn(R, t) /\ Extends(s, t)
  <2>1. t.batchEnd <= s.lastOp
    BY <1>1, <1>9
  <2>2. TableGrows(s, t)
    <3>1. \A c \in Clients : s.table[c].id \in 0 .. MaxReq
      BY <1>1, EntryFields
    <3> QED
      BY <1>9, <3>1, Constants DEF TableGrows
  <2>3. OKsTrue(R, t.oks)
    BY <1>9 DEF LeadsIn, LeaderOK
  <2> QED
    BY <1>9, <2>1, <2>2, <2>3, LeaderQuiet
<1>12. \A m \in {p} : LeaderSays(t, m)
  BY <1>8, <1>10 DEF LeaderSays
<1>13. Result(t, {p}).st = t /\ Result(t, {p}).out = {p}
  BY DEF Result
<1> QED
  BY <1>3, <1>11, <1>12, <1>13 DEF LeaderGoes

\* The leader appends a request that is newer than the client's last.
LEMMA ProposeGoes ==
  ASSUME NEW R, NEW s, LeadsIn(R, s), NEW q \in Req,
         q.id > s.table[q.client].id
  PROVE  LeaderGoes(R, s, Propose(s, q))
<1> USE Constants
<1> DEFINE len == Len(s.log)
           e == [view |-> s.view, req |-> q]
           log == Append(s.log, e)
           entry == [id |-> q.id, reply |-> NoReply]
           t == [s EXCEPT !.lastOp = s.lastOp + 1, !.log = log,
                          !.table[q.client] = entry]
           table == [s.table EXCEPT ![q.client] = entry]
<1>1. /\ s \in State /\ LocalOK(s) /\ s.view = 0 /\ s.lastOp = len /\ len \in Nat
      /\ s.log \in Seq(Entry) /\ s.lastCommitted \in 0 .. len
      /\ s.batchEnd \in 0 .. len /\ LeaderOK(R, s)
      /\ \A i \in 1 .. len : s.log[i].view = 0
  BY LeaderFields DEF LeadsIn
<1>2. q.client \in Clients /\ q.id \in 1 .. MaxReq
  BY DEF Req
<1>3. s.table \in TableType /\ s.table[q.client].id \in 0 .. MaxReq
  BY <1>1, <1>2, StateFields, EntryFields
<1>4. entry \in [id : 0 .. MaxReq, reply : Nat \cup {NoReply}]
  BY <1>2
<1>5. /\ table \in TableType /\ table[q.client] = entry
      /\ \A c \in Clients : c # q.client => table[c] = s.table[c]
  BY <1>2, <1>3, <1>4 DEF TableType
<1>6. e \in Entry /\ e.view = 0 /\ e.req = q
  BY <1>1 DEF Entry
<1> HIDE DEF e, entry
<1>7. /\ log \in Seq(Entry) /\ Len(log) = len + 1 /\ log[len + 1] = e
      /\ \A i \in 1 .. len : log[i] = s.log[i]
  BY <1>1, <1>6, AppendProperties
<1> HIDE DEF log
<1>8. /\ t \in State /\ t.log = log /\ t.lastOp = len + 1 /\ t.table = table
      /\ t.lastCommitted = s.lastCommitted /\ t.app = s.app /\ t.oks = s.oks
      /\ t.batchEnd = s.batchEnd
  <2>1. t = [s EXCEPT !.lastOp = s.lastOp + 1, !.log = log, !.table = table]
    BY <1>1 DEF State
  <2> DEFINE n == s.lastOp + 1
  <2>2. n \in Nat /\ n = len + 1 /\ t = [s EXCEPT !.lastOp = n, !.log = log,
                                             !.table = table]
    BY <1>1, <2>1
  <2> HIDE DEF t, table, len, n
  <2> QED
    BY <1>1, <1>5, <1>7, <2>2 DEF State
<1> HIDE DEF t, table
<1>9. \A i \in 1 .. len + 1 : i # len + 1 => i \in 1 .. len
  BY <1>1
<1>10. LocalOK(t)
  <2>1. \A i \in 1 .. Len(t.log) : t.log[i].view = 0
    BY <1>1, <1>6, <1>7, <1>8, <1>9
  <2>2. Len(t.app) = t.lastCommitted
    BY <1>1, <1>8 DEF LocalOK
  <2>3. \A i \in 1 .. t.lastCommitted : t.app[i] = t.log[i].req
    <3>1. \A i \in 1 .. s.lastCommitted : i \in 1 .. len
      BY <1>1
    <3>2. \A i \in 1 .. s.lastCommitted : s.app[i] = s.log[i].req
      BY <1>1 DEF LocalOK
    <3> QED
      BY <1>7, <1>8, <3>1, <3>2
  <2>4. t.lastOp = Len(t.log) /\ t.lastCommitted <= t.lastOp /\ t.batchEnd <= t.lastOp
    BY <1>1, <1>7, <1>8
  <2> QED
    BY <2>1, <2>2, <2>3, <2>4 DEF LocalOK
<1>11. \A i \in 1 .. len : /\ s.log[i].req.id \in Nat
                           /\ s.log[i].req.client \in Clients
                           /\ s.table[s.log[i].req.client].id \in Nat
                           /\ s.log[i].req.id <= s.table[s.log[i].req.client].id
  <2> TAKE i \in 1 .. len
  <2>1. s.log[i].req.id \in 1 .. MaxReq /\ s.log[i].req.client \in Clients
    BY <1>1, EntryFields
  <2>2. s.table[s.log[i].req.client].id \in 0 .. MaxReq
    BY <1>1, <2>1, EntryFields
  <2>3. s.log[i].req.id <= s.table[s.log[i].req.client].id
    BY <1>1 DEF LeaderOK
  <2>4. /\ \A k \in 0 .. MaxReq : k \in Nat
        /\ \A k \in 1 .. MaxReq : k \in Nat
    BY Constants
  <2>5. s.log[i].req.id \in Nat
    BY <2>1, <2>4, Zenon
  <2>6. s.table[s.log[i].req.client].id \in Nat
    BY <2>2, <2>4, Zenon
  <2> QED
    BY <2>1, <2>3, <2>5, <2>6
<1>12. Ordered(t.log)
  <2> SUFFICES ASSUME NEW i \in 1 .. len + 1, NEW j \in 1 .. len + 1,
                      i < j, log[i].req.client = log[j].req.client
               PROVE  log[i].req.id < log[j].req.id
    BY <1>7, <1>8 DEF Ordered
  <2>1. i \in 1 .. len
    BY <1>1
  <2>2. CASE j = len + 1
    <3>1. log[j].req = q /\ log[i] = s.log[i]
      BY <1>6, <1>7, <2>1, <2>2
    <3>2. s.log[i].req.id <= s.table[q.client].id /\ s.log[i].req.id \in Nat
      BY <1>11, <2>1, <3>1
    <3>3. s.table[q.client].id \in Nat /\ q.id \in Nat
      BY <1>2, <1>3
    <3> QED
      BY <3>1, <3>2, <3>3
  <2>3. CASE j # len + 1
    BY <1>1, <1>7, <1>9, <2>1, <2>3 DEF LeaderOK, Ordered
  <2> QED
    BY <2>2, <2>3
<1>13. ASSUME NEW i \in 1 .. Len(t.log)
       PROVE  t.log[i].req.id <= t.table[t.log[i].req.client].id
  <2>1. CASE i = len + 1
    <3>1. t.log[i].req = q /\ t.table[q.client].id = q.id
      BY <1>5, <1>6, <1>7, <1>8, <2>1 DEF entry
    <3> QED
      BY <1>2, <3>1
  <2>2. CASE i # len + 1
    <3> DEFINE c == s.log[i].req.client
    <3>1. i \in 1 .. len /\ t.log[i] = s.log[i]
      BY <1>7, <1>8, <1>9, <2>2
    <3>2. c \in Clients /\ s.log[i].req.id <= s.table[c].id
          /\ s.log[i].req.id \in Nat /\ s.table[c].id \in Nat
      BY <1>11, <3>1
    <3>3. CASE c = q.client
      <4>1. t.table[c].id = q.id
        BY <1>5, <1>8, <3>3 DEF entry
      <4>2. q.id > s.table[c].id /\ q.id \in Nat
        BY <1>2, <3>3
      <4> HIDE DEF c
      <4>3. s.log[i].req.id <= t.table[c].id
        BY <3>2, <4>1, <4>2
      <4> QED
        BY <3>1, <4>3 DEF c
    <3>4. CASE c # q.client
      <4>1. t.table[c] = s.table[c]
        BY <1>5, <1>8, <3>2, <3>4
      <4> QED
        BY <3>1, <3>2, <4>1
    <3> QED
      BY <3>3, <3>4
  <2> QED
    BY <2>1, <2>2
<1>14. LeaderOK(R, t)
  BY <1>1, <1>8, <1>12, <1>13 DEF LeaderOK
<1>15. LeadsIn(R, t) /\ Extends(s, t)
  <2>1. s.lastCommitted <= t.lastCommitted /\ Len(s.log) <= Len(t.log)
    BY <1>1, <1>7, <1>8
  <2> QED
    BY <1>7, <1>8, <1>10, <1>14, <2>1 DEF LeadsIn, Extends
<1>16. \/ Propose(s, q) = CloseBatch(t)
       \/ Propose(s, q) = Result(t, {})
  <2>1. Len(s.log) = s.lastOp
    BY <1>1
  <2> DEFINE full == t.batchDone \/ t.lastOp - t.batchEnd + 1 > BatchSize
  <2>2. Propose(s, q) = IF full THEN CloseBatch(t) ELSE Result(t, {})
    BY <2>1 DEF Propose, t, log, e, entry
  <2> HIDE DEF full
  <2> QED
    BY <2>2
<1>17. CASE Propose(s, q) = Result(t, {})
  <2>1. Result(t, {}).st = t /\ Result(t, {}).out = {}
    BY DEF Result
  <2> QED
    BY <1>15, <1>17, <2>1 DEF LeaderGoes
<1>18. CASE Propose(s, q) = CloseBatch(t)
  <2>1. t.lastOp > t.batchEnd
    BY <1>1, <1>8
  <2>2. LeaderGoes(R, t, CloseBatch(t))
    BY <1>15, <2>1, CloseBatchGoes
  <2>3. Extends(s, CloseBatch(t).st)
    BY <1>1, <1>8, <1>15, <2>2, ExtendsTransitive DEF LeaderGoes, LeadsIn
  <2> QED
    BY <1>18, <2>2, <2>3 DEF LeaderGoes
<1> QED
  BY <1>16, <1>17, <1>18

\* The followers that hold an operation can be counted.
LEMMA HoldingFinite ==
  ASSUME NEW R, NEW op
  PROVE  IsFiniteSet(Holding(R, op)) /\ Cardinality(Holding(R, op)) \in Nat
<1>1. Holding(R, op) \in SUBSET Followers
  BY DEF Holding
<1>2. IsFiniteSet(Holding(R, op))
  BY <1>1, Constants, FS_Subset
<1> QED
  BY <1>2, FS_CardinalityType

\* F acknowledgements of one operation are from F followers that hold it: none
\* is counted twice.
LEMMA AnswersMakeQuorum ==
  ASSUME NEW R, NEW oks \in SUBSET OKType, OKsTrue(R, oks), NEW op,
         Cardinality({x \in oks : x.opnum = op}) >= F
  PROVE  Cardinality(Holding(R, op)) >= F
<1> USE Constants
<1> DEFINE X == {x \in oks : x.opnum = op}
           H == Holding(R, op)
           f == [x \in X |-> x.from]
<1>1. ASSUME NEW x \in X
      PROVE  x.from \in H
  <2>1. x.from \in Followers /\ x.opnum = op
    BY DEF OKType
  <2>2. op <= Len(R[x.from].log)
    BY <2>1 DEF OKsTrue
  <2> QED
    BY <2>1, <2>2 DEF Holding
<1>2. ASSUME NEW x \in X, NEW y \in X, x.from = y.from
      PROVE  x = y
  <2>1. x \in OKType /\ y \in OKType /\ x.opnum = y.opnum
    OBVIOUS
  <2> QED
    BY <1>2, <2>1 DEF OKType
<1> HIDE DEF X, H
<1>3. f \in Injection(X, H)
  BY <1>1, <1>2 DEF Injection, IsInjective
<1>4. IsFiniteSet(H) /\ Cardinality(H) \in Nat
  BY HoldingFinite DEF H
<1>5. IsFiniteSet(X) /\ Cardinality(X) <= Cardinality(H)
  BY <1>3, <1>4, FS_Injection
<1>6. Cardinality(X) \in Nat
  BY <1>5, FS_CardinalityType
<1>7. Cardinality(X) >= F
  BY DEF X
<1>8. Cardinality(H) >= F
  BY <1>4, <1>5, <1>6, <1>7
<1> QED
  BY <1>8 DEF H

\* The leader executes what F followers acknowledged.
LEMMA LeaderCommits ==
  ASSUME NEW R, NEW s, LeadsIn(R, s), NEW upto \in 0 .. Len(s.log),
         Cardinality(Holding(R, upto)) >= F
  PROVE  LET res == CommitUpTo(s, upto)
         IN  LeaderGoes(R, s, res)
<1> DEFINE res == CommitUpTo(s, upto)
           t == res.st
<1>1. s \in State /\ LocalOK(s) /\ LeaderOK(R, s)
  BY DEF LeadsIn
<1>2. /\ t \in State /\ LocalOK(t) /\ Extends(s, t)
      /\ t.log = s.log /\ t.oks = s.oks
      /\ t.lastCommitted \in {s.lastCommitted, upto}
      /\ \A c \in Clients : t.table[c].id >= s.table[c].id
      /\ res.out \in SUBSET ReplyType
  BY <1>1, CommitUpToFields
<1> HIDE DEF res
<1>3. ASSUME NEW i \in 1 .. Len(t.log)
      PROVE  t.log[i].req.id <= t.table[t.log[i].req.client].id
  <2> DEFINE c == t.log[i].req.client
  <2> HIDE DEF t
  <2>1. c \in Clients /\ t.log[i].req.id \in 1 .. MaxReq
    BY <1>2, EntryFields
  <2>2. s.table[c].id \in 0 .. MaxReq /\ t.table[c].id \in 0 .. MaxReq
    BY <1>1, <1>2, <2>1, EntryFields
  <2>3. t.log[i].req.id <= s.table[c].id
    BY <1>1, <1>2 DEF LeaderOK
  <2>4. t.table[c].id >= s.table[c].id
    BY <1>2, <2>1
  <2> DEFINE x == t.log[i].req.id
             y == s.table[c].id
             z == t.table[c].id
  <2>5. /\ x \in 1 .. MaxReq /\ y \in 0 .. MaxReq /\ z \in 0 .. MaxReq
        /\ x <= y /\ z >= y
    BY <2>1, <2>2, <2>3, <2>4
  <2> HIDE DEF x, y, z
  <2>6. x \in Int /\ y \in Int /\ z \in Int /\ x <= y /\ y <= z
    BY <2>5, Constants
  <2>7. x <= z
    BY <2>6, AtMostTransitive
  <2> QED
    BY <2>7 DEF c, x, z
<1>4. t.lastCommitted > 0 => Cardinality(Holding(R, t.lastCommitted)) >= F
  BY <1>1, <1>2 DEF LeaderOK
<1>5. LeaderOK(R, t)
  BY <1>1, <1>2, <1>3, <1>4 DEF LeaderOK
<1>6. \A m \in res.out : LeaderSays(t, m)
  BY <1>2 DEF LeaderSays
<1> QED
  BY <1>2, <1>5, <1>6 DEF LeaderGoes, LeadsIn, res

\* The whole of HandlePrepareOK at a quorum.
LEMMA QuorumReachedGoes ==
  ASSUME NEW R, NEW s, LeadsIn(R, s), NEW m \in PrepareOKType,
         m.opnum <= Len(s.log), Cardinality(Holding(R, m.opnum)) >= F
  PROVE  LeaderGoes(R, s, QuorumReached(s, m))
<1> DEFINE a0 == CommitUpTo(s, m.opnum)
           Announced(t) == [t EXCEPT !.batchDone = @ \/ t.batchEnd = m.opnum]
           T1 == Then(a0, LAMBDA t :
                        Result(Announced(t), {CommitMessage(t.view, t.lastCommitted)}))
           T2 == Then(T1, LAMBDA t :
                        IF t.batchEnd = m.opnum /\ t.lastOp > t.batchEnd
                        THEN CloseBatch(t) ELSE Result(t, {}))
<1>1. s \in State /\ m.opnum \in 0 .. Len(s.log)
  BY LeaderFields DEF PrepareOKType
<1>2. QuorumReached(s, m) = T2
  BY DEF QuorumReached
<1>3. LeaderGoes(R, s, a0)
  BY <1>1, LeaderCommits
<1> HIDE DEF a0
<1> DEFINE t0 == a0.st
           t1 == Announced(t0)
           k == CommitMessage(t0.view, t0.lastCommitted)
           b1 == Result(t1, {k})
           a1 == Result(b1.st, a0.out \cup b1.out)
<1>4. LeadsIn(R, t0) /\ t0.failed = NoFailure /\ t0 \in State /\ t0.view = 0
      /\ t0.lastCommitted \in Nat
  BY <1>3, LeaderFields DEF LeaderGoes
<1>5. T1 = a1
  BY <1>4 DEF Then
<1> HIDE DEF T1
<1>6. LeaderGoes(R, t0, b1)
  <2> HIDE DEF t0
  <2>1. /\ t1 \in State /\ t1.batchEnd = t0.batchEnd /\ t1.oks = t0.oks
        /\ t1.table = t0.table /\ SameLog(t0, t1)
    <3> DEFINE b == t0.batchDone \/ t0.batchEnd = m.opnum
    <3>1. b \in BOOLEAN /\ t1 = [t0 EXCEPT !.batchDone = b]
      OBVIOUS
    <3> HIDE DEF b, t1
    <3> QED
      BY <1>4, <3>1 DEF State, SameLog
  <2> HIDE DEF t1
  <2>2. t1.batchEnd <= t0.lastOp
    BY <1>4, <2>1, LeaderFields
  <2>3. TableGrows(t0, t1)
    <3>1. \A c \in Clients : t0.table[c].id \in 0 .. MaxReq
      BY <1>4, EntryFields
    <3> QED
      BY <2>1, <3>1, Constants DEF TableGrows
  <2>4. OKsTrue(R, t1.oks)
    BY <1>4, <2>1 DEF LeadsIn, LeaderOK
  <2>5. LeadsIn(R, t1) /\ Extends(t0, t1)
    BY <1>4, <2>1, <2>2, <2>3, <2>4, LeaderQuiet
  <2>6. k \in CommitType /\ k.opnum <= t1.lastCommitted
    <3>1. k = [type |-> "Commit", view |-> 0, opnum |-> t0.lastCommitted,
               from |-> Leader]
      BY <1>4, Constants DEF CommitMessage
    <3>2. t1.lastCommitted = t0.lastCommitted
      BY <2>1 DEF SameLog
    <3> QED
      BY <1>4, <3>1, <3>2 DEF CommitType
  <2> HIDE DEF k
  <2>7. b1.st = t1 /\ b1.out = {k}
    BY DEF Result
  <2> HIDE DEF b1
  <2> QED
    BY <2>5, <2>6, <2>7 DEF LeaderGoes, LeaderSays
<1> HIDE DEF b1
<1>7. LeaderGoes(R, s, a1)
  BY <1>1, <1>3, <1>6, LeaderGoesOn
<1> HIDE DEF a1
<1> DEFINE t2 == a1.st
           c == IF t2.batchEnd = m.opnum /\ t2.lastOp > t2.batchEnd
                THEN CloseBatch(t2) ELSE Result(t2, {})
           a2 == Result(c.st, a1.out \cup c.out)
<1>8. LeadsIn(R, t2) /\ t2.failed = NoFailure /\ t2 \in State
  BY <1>7, LeaderFields DEF LeaderGoes
<1>9. T2 = a2
  BY <1>5, <1>8 DEF Then
<1> HIDE DEF T2
<1>10. LeaderGoes(R, t2, c)
  <2> HIDE DEF t2
  <2>1. CASE t2.batchEnd = m.opnum /\ t2.lastOp > t2.batchEnd
    BY <1>8, <2>1, CloseBatchGoes
  <2>2. CASE ~(t2.batchEnd = m.opnum /\ t2.lastOp > t2.batchEnd)
    <3>1. c = Result(t2, {})
      BY <2>2
    <3>2. Result(t2, {}).st = t2 /\ Result(t2, {}).out = {}
      BY DEF Result
    <3>3. Extends(t2, t2)
      BY <1>8, ExtendsItself
    <3> HIDE DEF c
    <3> QED
      BY <1>8, <3>1, <3>2, <3>3 DEF LeaderGoes
  <2> QED
    BY <2>1, <2>2
<1> HIDE DEF c
<1>11. LeaderGoes(R, s, a2)
  BY <1>1, <1>7, <1>10, LeaderGoesOn
<1> QED
  BY <1>2, <1>9, <1>11

-----------------------------------------------------------------------------
(* From one replica's state to the group's.                                  *)

\* The states R with t in the place of r's.
Put(R, r, t) == [R EXCEPT ![r] = t]

\* Put changes one state.
LEMMA PutFacts ==
  ASSUME NEW R \in States, NEW r \in Replicas, NEW t \in State
  PROVE  /\ Put(R, r, t) \in States /\ Put(R, r, t)[r] = t
         /\ \A p \in Replicas : p # r => Put(R, r, t)[p] = R[p]
BY DEF Put, States

\* From the states R the group may go on to S, with the messages of out sent.
Advances(R, S, out) ==
  /\ ReplicasOK(S) /\ Grows(R, S)
  /\ \A m \in out : m \in Message /\ MessageTrue(S, m)

\* The states of the replicas are those of a leader and its followers.
LEMMA LeaderAndFollowers ==
  ASSUME NEW R, ReplicasOK(R)
  PROVE  /\ R \in States /\ Leads(R[Leader]) /\ LeadsIn(R, R[Leader])
         /\ \A r \in Followers : Follows(R[Leader], R[r])
         /\ \A r \in Replicas : R[r] \in State
<1> USE Constants
<1>1. R \in States /\ \A r \in Replicas : R[r] \in State
  BY DEF ReplicasOK, States
<1> QED
  BY <1>1 DEF ReplicasOK, Leads, LeadsIn, LeaderOK, Follows

\* Putting a later state in the place of one replica's lets the group grow.
LEMMA PutGrows ==
  ASSUME NEW R \in States, NEW r \in Replicas, NEW t \in State,
         Extends(R[r], t)
  PROVE  Grows(R, Put(R, r, t))
<1> DEFINE S == Put(R, r, t)
<1>1. S[r] = t /\ \A p \in Replicas : p # r => S[p] = R[p]
  BY PutFacts
<1>2. \A p \in Replicas : R[p] \in State
  BY DEF States
<1> HIDE DEF S
<1>3. ASSUME NEW p \in Replicas
      PROVE  Extends(R[p], S[p])
  <2>1. CASE p = r
    BY <1>1, <2>1
  <2>2. CASE p # r
    BY <1>1, <1>2, <2>2, ExtendsItself
  <2> QED
    BY <2>1, <2>2
<1> QED
  BY <1>3 DEF Grows, S

\* While the logs grow, who holds an operation goes on holding it.
LEMMA HoldingGrows ==
  ASSUME NEW R \in States, NEW S \in States, Grows(R, S), NEW op \in Nat
  PROVE  Holding(R, op) \subseteq Holding(S, op)
<1> USE Constants
<1>1. ASSUME NEW p \in Followers, op <= Len(R[p].log)
      PROVE  op <= Len(S[p].log)
  <2>1. R[p] \in State /\ S[p] \in State /\ Extends(R[p], S[p])
    BY DEF States, Grows
  <2>2. Len(R[p].log) \in Nat /\ Len(S[p].log) \in Nat
    BY <2>1, StateFields
  <2> QED
    BY <1>1, <2>1, <2>2 DEF Extends
<1> QED
  BY <1>1 DEF Holding

\* What the leader counts on stays so while the followers' logs grow.
LEMMA LeaderStable ==
  ASSUME NEW R \in States, NEW S \in States, Grows(R, S), NEW s,
         LeadsIn(R, s)
  PROVE  LeadsIn(S, s)
<1> USE Constants
<1>1. s \in State /\ s.lastCommitted \in Nat /\ s.oks \in SUBSET OKType
  BY StateFields DEF LeadsIn
<1>2. OKsTrue(S, s.oks)
  <2> SUFFICES ASSUME NEW x \in s.oks
               PROVE  x.opnum <= Len(S[x.from].log)
    BY DEF OKsTrue
  <2>1. x.from \in Followers /\ x.opnum \in Nat
    BY <1>1 DEF OKType
  <2>2. x.opnum <= Len(R[x.from].log)
    BY DEF LeadsIn, LeaderOK, OKsTrue
  <2>3. x.from \in Holding(R, x.opnum)
    BY <2>1, <2>2 DEF Holding
  <2>4. x.from \in Holding(S, x.opnum)
    BY <2>1, <2>3, HoldingGrows
  <2> QED
    BY <2>4 DEF Holding
<1>3. ASSUME s.lastCommitted > 0
      PROVE  Cardinality(Holding(S, s.lastCommitted)) >= F
  <2> DEFINE A == Holding(R, s.lastCommitted)
             B == Holding(S, s.lastCommitted)
  <2>1. Cardinality(A) >= F
    BY <1>3 DEF LeadsIn, LeaderOK
  <2>2. A \subseteq B
    BY <1>1, HoldingGrows
  <2>3. IsFiniteSet(B) /\ Cardinality(A) \in Nat /\ Cardinality(B) \in Nat
    BY HoldingFinite
  <2> HIDE DEF A, B
  <2>4. Cardinality(A) <= Cardinality(B)
    BY <2>2, <2>3, FS_Subset
  <2>5. Cardinality(B) >= F
    BY <2>1, <2>3, <2>4
  <2> QED
    BY <2>5 DEF B
<1> QED
  BY <1>2, <1>3 DEF LeadsIn, LeaderOK

\* A step of a follower.
LEMMA FollowerStep ==
  ASSUME NEW R, ReplicasOK(R), NEW r \in Followers, NEW res,
         FollowerGoes(R[Leader], r, R[r], res)
  PROVE  Advances(R, Put(R, r, res.st), res.out)
<1> USE Constants
<1> DEFINE t == res.st
           S == Put(R, r, t)
<1>1. R \in States /\ t \in State /\ LocalOK(t) /\ FollowerOK(R[Leader], t)
      /\ Extends(R[r], t)
  BY LeaderAndFollowers DEF FollowerGoes, Follows
<1> HIDE DEF t
<1>2. /\ S \in States /\ S[r] = t /\ S[Leader] = R[Leader]
      /\ \A p \in Replicas : p # r => S[p] = R[p]
  BY <1>1, PutFacts
<1>3. Grows(R, S)
  BY <1>1, PutGrows
<1> HIDE DEF S
<1>4. \A p \in Replicas : LocalOK(S[p])
  BY <1>1, <1>2 DEF ReplicasOK
<1>5. \A p \in Followers : FollowerOK(S[Leader], S[p])
  BY <1>1, <1>2 DEF ReplicasOK
<1>6. LeaderOK(S, S[Leader])
  BY <1>1, <1>2, <1>3, LeaderAndFollowers, LeaderStable DEF LeadsIn
<1>7. ASSUME NEW m \in res.out
      PROVE  m \in Message /\ MessageTrue(S, m)
  <2>1. FollowerSays(r, t, m)
    BY <1>7 DEF FollowerGoes, t
  <2>2. CASE m \in PrepareOKType /\ m.from = r /\ m.opnum <= Len(t.log)
    BY <1>2, <2>2 DEF PrepareOKType, Message, MessageTrue
  <2>3. CASE m \in AskType /\ m.from = r /\ m.opnum <= t.lastCommitted
    BY <1>2, <2>3 DEF AskType, Message, MessageTrue
  <2>4. CASE m \in ReplyType
    BY <2>4 DEF ReplyType, Message, MessageTrue
  <2> QED
    BY <2>1, <2>2, <2>3, <2>4 DEF FollowerSays
<1> QED
  BY <1>2, <1>3, <1>4, <1>5, <1>6, <1>7 DEF Advances, ReplicasOK, S, t

\* A follower remains one while the leader's log grows.
LEMMA FollowerStable ==
  ASSUME NEW lead \in State, NEW new \in State, Extends(lead, new),
         NEW s \in State, FollowerOK(lead, s)
  PROVE  FollowerOK(new, s)
<1>1. /\ Len(s.log) \in Nat /\ Len(lead.log) \in Nat /\ Len(new.log) \in Nat
      /\ s.lastCommitted \in Nat /\ lead.lastCommitted \in Nat
      /\ new.lastCommitted \in Nat /\ s.pending \in Seq(PrepareType)
  BY StateFields
<1>2. /\ Len(s.log) <= Len(lead.log) /\ Len(lead.log) <= Len(new.log)
      /\ s.lastCommitted <= lead.lastCommitted
      /\ lead.lastCommitted <= new.lastCommitted
      /\ \A i \in 1 .. Len(s.log) : s.log[i] = lead.log[i]
      /\ \A i \in 1 .. Len(lead.log) : new.log[i] = lead.log[i]
  BY DEF FollowerOK, Extends
<1>3. Len(s.log) <= Len(new.log) /\ s.lastCommitted <= new.lastCommitted
  BY <1>1, <1>2
<1>4. \A i \in 1 .. Len(s.log) : s.log[i] = new.log[i]
  <2>1. \A i \in 1 .. Len(s.log) : i \in 1 .. Len(lead.log)
    BY <1>1, <1>2
  <2> QED
    BY <1>2, <2>1
<1>5. \A i \in 1 .. Len(s.pending) : PrepareTrue(new, s.pending[i])
  <2> TAKE i \in 1 .. Len(s.pending)
  <2>1. s.pending[i] \in PrepareType
    BY <1>1
  <2>2. PrepareTrue(lead, s.pending[i])
    BY DEF FollowerOK
  <2> QED
    BY <2>1, <2>2, PrepareStable
<1> QED
  BY <1>3, <1>4, <1>5 DEF FollowerOK

\* A step of the leader.
LEMMA LeaderStep ==
  ASSUME NEW R, ReplicasOK(R), NEW res, LeaderGoes(R, R[Leader], res)
  PROVE  Advances(R, Put(R, Leader, res.st), res.out)
<1> USE Constants
<1> DEFINE t == res.st
           S == Put(R, Leader, t)
<1>1. R \in States /\ t \in State /\ LocalOK(t) /\ LeadsIn(R, t)
      /\ Extends(R[Leader], t) /\ \A p \in Replicas : R[p] \in State
  BY LeaderAndFollowers DEF LeaderGoes, LeadsIn
<1> HIDE DEF t
<1>2. /\ S \in States /\ S[Leader] = t
      /\ \A p \in Followers : S[p] = R[p]
  BY <1>1, PutFacts
<1>3. Grows(R, S)
  BY <1>1, PutGrows
<1> HIDE DEF S
<1>4. \A p \in Replicas : LocalOK(S[p])
  BY <1>1, <1>2 DEF ReplicasOK
<1>5. \A p \in Followers : FollowerOK(S[Leader], S[p])
  <2> TAKE p \in Followers
  <2>1. FollowerOK(R[Leader], R[p])
    BY DEF ReplicasOK
  <2>2. FollowerOK(t, R[p])
    BY <1>1, <2>1, FollowerStable
  <2> QED
    BY <1>2, <2>2
<1>6. LeaderOK(S, S[Leader])
  BY <1>1, <1>2, <1>3, LeaderStable DEF LeadsIn
<1>7. ASSUME NEW m \in res.out
      PROVE  m \in Message /\ MessageTrue(S, m)
  <2>1. LeaderSays(t, m)
    BY <1>7 DEF LeaderGoes, t
  <2>2. CASE m \in PrepareType /\ PrepareTrue(t, m)
    BY <1>2, <2>2 DEF PrepareType, Message, MessageTrue
  <2>3. CASE m \in CommitType /\ m.opnum <= t.lastCommitted
    BY <1>2, <2>3 DEF CommitType, Message, MessageTrue
  <2>4. CASE m \in ReplyType
    BY <2>4 DEF ReplyType, Message, MessageTrue
  <2> QED
    BY <2>1, <2>2, <2>3, <2>4 DEF LeaderSays
<1> QED
  BY <1>2, <1>3, <1>4, <1>5, <1>6, <1>7 DEF Advances, ReplicasOK, S, t

-----------------------------------------------------------------------------
(* The handlers.                                                             *)

\* A step that the group may take.
Advance == \E out : Advances(rep, rep', out) /\ msgs' = msgs \cup out

\* Step puts the new state in its place and sends the messages.
LEMMA StepAdvances ==
  ASSUME NEW r, NEW res, Advances(rep, Put(rep, r, res.st), res.out), Step(r, res)
  PROVE  Advance
BY DEF Step, Put, Advance

\* What a result holds.
LEMMA ResultFields ==
  ASSUME NEW s, NEW out
  PROVE  Result(s, out).st = s /\ Result(s, out).out = out
BY DEF Result

\* Only the leader leads.
LEMMA OnlyLeader ==
  ASSUME NEW r, NEW s \in State, AmLeader(r, s)
  PROVE  r = Leader
BY Constants, StateFields DEF AmLeader

\* A step of the leader that does nothing to the log and sends replies.
LEMMA LeaderReplies ==
  ASSUME NEW R, NEW s, LeadsIn(R, s), NEW t \in State, SameLog(s, t),
         t.batchEnd = s.batchEnd, TableGrows(s, t), t.oks = s.oks,
         NEW out \in SUBSET ReplyType
  PROVE  LeaderGoes(R, s, Result(t, out))
<1>1. t.batchEnd <= s.lastOp /\ OKsTrue(R, t.oks)
  BY LeaderFields DEF LeadsIn, LocalOK, LeaderOK
<1>2. LeadsIn(R, t) /\ Extends(s, t)
  BY <1>1, LeaderQuiet
<1> QED
  BY <1>2, ResultFields DEF LeaderGoes, LeaderSays

\* HandleRequest.
LEMMA HandleRequestAdvances ==
  ASSUME ReplicasOK(rep), NEW r \in Replicas, NEW m \in RequestType,
         HandleRequest(r, m)
  PROVE  Advance
<1> USE Constants
<1> DEFINE c == m.req.client
           old == rep[r].table[c]
           s == [rep[r] EXCEPT !.addrs = @ \cup {c}]
           hit == Result(s, IF old.reply = NoReply THEN {}
                            ELSE {ReplyMessage(m.req, old.reply)})
           entry == [id |-> m.req.id, reply |-> 0]
           d == [s EXCEPT !.table[c] = entry]
           declined == Result(d, {ReplyMessage(m.req, 0)})
<1>1. AmLeader(r, s)
      /\ \/ m.req.id < old.id /\ Step(r, Result(s, {}))
         \/ m.req.id = old.id /\ Step(r, hit)
         \/ m.req.id > old.id /\ Step(r, declined)
         \/ m.req.id > old.id /\ Step(r, Propose(s, m.req))
  BY DEF HandleRequest
<1>2. rep \in States /\ rep[r] \in State /\ LeadsIn(rep, rep[Leader])
  BY LeaderAndFollowers
<1>3. m.req \in Req /\ c \in Clients /\ m.req.id \in 1 .. MaxReq
  BY DEF RequestType, Req
<1>4. old \in [id : 0 .. MaxReq, reply : Nat \cup {NoReply}]
  BY <1>2, <1>3, EntryFields
<1>5. /\ s \in State /\ SameLog(rep[r], s) /\ s.batchEnd = rep[r].batchEnd
      /\ s.table = rep[r].table /\ s.oks = rep[r].oks /\ s.view = rep[r].view
  BY <1>2, <1>3 DEF State, SameLog
<1>6. r = Leader
  <2> HIDE DEF s
  <2> QED
    BY <1>1, <1>5, OnlyLeader
<1>7. TableGrows(rep[r], s)
  <2>1. \A x \in Clients : rep[r].table[x].id \in 0 .. MaxReq
    BY <1>2, EntryFields
  <2> HIDE DEF s
  <2> QED
    BY <1>5, <2>1 DEF TableGrows
<1>8. LeadsIn(rep, s) /\ Extends(rep[r], s)
  <2> HIDE DEF s
  <2>1. LeaderGoes(rep, rep[r], Result(s, {}))
    BY <1>2, <1>5, <1>6, <1>7, LeaderReplies
  <2> QED
    BY <2>1, ResultFields DEF LeaderGoes
<1>9. CASE Step(r, Result(s, {}))
  <2> HIDE DEF s
  <2>1. LeaderGoes(rep, rep[r], Result(s, {}))
    BY <1>2, <1>5, <1>6, <1>7, LeaderReplies
  <2> QED
    BY <1>6, <1>9, <2>1, LeaderStep, StepAdvances
<1>10. CASE Step(r, hit)
  <2> DEFINE out == IF old.reply = NoReply THEN {}
                    ELSE {ReplyMessage(m.req, old.reply)}
  <2>1. out \in SUBSET ReplyType
    BY <1>3, <1>4 DEF ReplyMessage, ReplyType
  <2> HIDE DEF s, out
  <2>2. LeaderGoes(rep, rep[r], Result(s, out))
    BY <1>2, <1>5, <1>6, <1>7, <2>1, LeaderReplies
  <2>3. Step(r, Result(s, out))
    BY <1>10 DEF out
  <2> QED
    BY <1>6, <2>2, <2>3, LeaderStep, StepAdvances
<1>11. CASE m.req.id > old.id /\ Step(r, declined)
  <2> DEFINE out == {ReplyMessage(m.req, 0)}
  <2>1. out \in SUBSET ReplyType
    BY <1>3 DEF ReplyMessage, ReplyType
  <2>2. entry \in [id : 0 .. MaxReq, reply : Nat \cup {NoReply}]
    BY <1>3
  <2> DEFINE table == [s.table EXCEPT ![c] = entry]
  <2>3. table \in TableType
    BY <1>3, <1>5, <2>2, StateFields DEF TableType
  <2>4. \A x \in Clients : table[x].id >= rep[r].table[x].id
    <3> TAKE x \in Clients
    <3>1. rep[r].table[x].id \in 0 .. MaxReq
      BY <1>2, EntryFields
    <3>2. s.table \in TableType
      BY <1>5, StateFields
    <3>3. CASE x = c
      BY <1>3, <1>11, <3>1, <3>2, <3>3, <1>5 DEF TableType
    <3>4. CASE x # c
      <4>1. table[x] = rep[r].table[x]
        BY <1>3, <1>5, <3>2, <3>4 DEF TableType
      <4> QED
        BY <3>1, <4>1
    <3> QED
      BY <3>3, <3>4
  <2>5. d = [s EXCEPT !.table = table]
    BY <1>5 DEF State
  <2> HIDE DEF table, d, s, out
  <2>6. /\ d \in State /\ SameLog(rep[r], d) /\ d.batchEnd = rep[r].batchEnd
        /\ d.table = table /\ d.oks = rep[r].oks
    BY <1>5, <2>3, <2>5 DEF State, SameLog
  <2>7. TableGrows(rep[r], d)
    BY <2>4, <2>6 DEF TableGrows
  <2>8. LeaderGoes(rep, rep[r], Result(d, out))
    BY <1>2, <1>6, <2>1, <2>6, <2>7, LeaderReplies
  <2>9. Step(r, Result(d, out))
    BY <1>11 DEF out
  <2> QED
    BY <1>6, <2>8, <2>9, LeaderStep, StepAdvances
<1>12. CASE m.req.id > old.id /\ Step(r, Propose(s, m.req))
  <2> DEFINE res == Propose(s, m.req)
  <2>1. m.req.id > s.table[m.req.client].id
    BY <1>5, <1>12
  <2> HIDE DEF s
  <2>2. LeaderGoes(rep, s, res)
    BY <1>3, <1>8, <2>1, ProposeGoes
  <2> HIDE DEF res
  <2>3. Extends(rep[r], res.st)
    BY <1>2, <1>5, <1>8, <2>2, ExtendsTransitive DEF LeaderGoes, LeadsIn
  <2>4. LeaderGoes(rep, rep[r], res)
    BY <2>2, <2>3 DEF LeaderGoes
  <2>5. Step(r, res)
    BY <1>12 DEF res
  <2> QED
    BY <1>6, <2>4, <2>5, LeaderStep, StepAdvances
<1> QED
  BY <1>1, <1>9, <1>10, <1>11, <1>12

\* HandlePrepare: it reaches followers only.
LEMMA HandlePrepareAdvances ==
  ASSUME ReplicasOK(rep), NEW r \in Followers, NEW m \in PrepareType,
         MessageTrue(rep, m), HandlePrepare(r, m)
  PROVE  Advance
<1>1. Leads(rep[Leader]) /\ Follows(rep[Leader], rep[r])
  BY LeaderAndFollowers
<1>2. PrepareTrue(rep[Leader], m)
  BY DEF MessageTrue, PrepareType
<1>3. FollowerGoes(rep[Leader], r, rep[r], Prepared(r, rep[r], m))
  BY <1>1, <1>2, PreparedGoes
<1> QED
  BY <1>3, FollowerStep, StepAdvances DEF HandlePrepare

\* HandlePrepareOK: it reaches the leader only.
LEMMA HandlePrepareOKAdvances ==
  ASSUME ReplicasOK(rep), NEW m \in PrepareOKType, MessageTrue(rep, m),
         HandlePrepareOK(Leader, m)
  PROVE  Advance
<1> USE Constants
<1> DEFINE l == rep[Leader]
           x == [opnum |-> m.opnum, from |-> m.from]
           s == [rep[Leader] EXCEPT !.oks = @ \cup {x}]
           count == Cardinality({y \in s.oks : y.opnum = m.opnum})
<1>1. \/ m.view > l.view
      \/ Step(Leader, Result(s, {}))
      \/ count = F /\ Step(Leader, QuorumReached(s, m))
      \/ count > F /\ Step(Leader, CommitUpTo(s, m.opnum))
  BY DEF HandlePrepareOK
<1>2. /\ m.view = 0 /\ m.from \in Followers /\ m.opnum \in Nat
      /\ m.opnum <= Len(rep[m.from].log)
  BY DEF PrepareOKType, MessageTrue
<1>3. /\ rep \in States /\ l \in State /\ LeadsIn(rep, l) /\ Leads(l)
      /\ Follows(l, rep[m.from]) /\ l.view = 0
  BY <1>2, LeaderAndFollowers, StateFields
<1>4. m.opnum <= Len(l.log) /\ Len(l.log) \in Nat
  <2> HIDE DEF l
  <2>1. /\ Len(rep[m.from].log) <= Len(l.log) /\ Len(l.log) \in Nat
        /\ Len(rep[m.from].log) \in Nat
    BY <1>3, FollowerFields
  <2> QED
    BY <1>2, <2>1
<1>5. l.oks \cup {x} \in SUBSET OKType
  BY <1>2, <1>3, StateFields DEF OKType
<1>6. /\ s \in State /\ SameLog(l, s) /\ s.batchEnd = l.batchEnd
      /\ s.table = l.table /\ s.oks = l.oks \cup {x}
  BY <1>3, <1>5 DEF State, SameLog
<1>7. OKsTrue(rep, s.oks)
  <2>1. OKsTrue(rep, l.oks)
    BY <1>3 DEF LeadsIn, LeaderOK
  <2> QED
    BY <1>2, <1>6, <2>1 DEF OKsTrue
<1>8. LeadsIn(rep, s) /\ Extends(l, s)
  <2> HIDE DEF s, l
  <2>1. s.batchEnd <= l.lastOp
    BY <1>3, <1>6 DEF LeadsIn, LocalOK
  <2>2. TableGrows(l, s)
    <3>1. \A c \in Clients : l.table[c].id \in 0 .. MaxReq
      BY <1>3, EntryFields
    <3> QED
      BY <1>6, <3>1 DEF TableGrows
  <2> QED
    BY <1>3, <1>6, <1>7, <2>1, <2>2, LeaderQuiet
<1>9. ASSUME NEW res, Step(Leader, res), LeaderGoes(rep, s, res)
      PROVE  Advance
  <2> HIDE DEF s, l
  <2>1. Extends(l, res.st)
    BY <1>3, <1>6, <1>8, <1>9, ExtendsTransitive DEF LeaderGoes, LeadsIn
  <2>2. LeaderGoes(rep, l, res)
    BY <1>9, <2>1 DEF LeaderGoes
  <2> QED
    BY <1>9, <2>2, LeaderStep, StepAdvances DEF l
<1>10. count >= F => Cardinality(Holding(rep, m.opnum)) >= F
  <2> DEFINE oks == s.oks
             op == m.opnum
  <2>1. oks \in SUBSET OKType /\ OKsTrue(rep, oks)
    BY <1>5, <1>6, <1>7
  <2> HIDE DEF oks, op
  <2>2. Cardinality({y \in oks : y.opnum = op}) >= F
          => Cardinality(Holding(rep, op)) >= F
    BY <2>1, AnswersMakeQuorum
  <2> QED
    BY <2>2 DEF oks, op
<1>11. m.opnum \in 0 .. Len(s.log) /\ m.opnum <= Len(s.log)
  BY <1>2, <1>4, <1>6 DEF SameLog
<1>12. CASE Step(Leader, Result(s, {}))
  <2> HIDE DEF s
  <2>1. LeaderGoes(rep, s, Result(s, {}))
    BY <1>6, <1>8, ExtendsItself, ResultFields DEF LeaderGoes
  <2> QED
    BY <1>9, <1>12, <2>1
<1>13. CASE count = F /\ Step(Leader, QuorumReached(s, m))
  <2>1. count >= F
    BY <1>13
  <2>2. Cardinality(Holding(rep, m.opnum)) >= F
    BY <1>10, <2>1
  <2> HIDE DEF s
  <2>3. LeaderGoes(rep, s, QuorumReached(s, m))
    BY <1>8, <1>11, <2>2, QuorumReachedGoes
  <2> QED
    BY <1>9, <1>13, <2>3
<1>14. CASE count > F /\ Step(Leader, CommitUpTo(s, m.opnum))
  <2>1. count >= F
    <3>1. count > F
      BY <1>14
    <3>2. count \in Nat
      <4>1. IsFiniteSet({y \in s.oks : y.opnum = m.opnum})
        <5> DEFINE X == {y \in s.oks : y.opnum = m.opnum}
                   f == [y \in X |-> y.from]
        <5>1. X \in SUBSET OKType /\ \A y \in X : y.opnum = m.opnum
          BY <1>5, <1>6
        <5> HIDE DEF X, s
        <5>2. f \in Injection(X, Followers)
          BY <5>1 DEF Injection, IsInjective, OKType
        <5>3. IsFiniteSet(X)
          BY <5>2, FS_Injection
        <5> QED
          BY <5>3 DEF X
      <4> QED
        BY <4>1, FS_CardinalityType
    <3> HIDE DEF count
    <3> QED
      BY <3>1, <3>2
  <2>2. Cardinality(Holding(rep, m.opnum)) >= F
    BY <1>10, <2>1
  <2> HIDE DEF s
  <2>3. LeaderGoes(rep, s, CommitUpTo(s, m.opnum))
    BY <1>8, <1>11, <2>2, LeaderCommits
  <2> QED
    BY <1>9, <1>14, <2>3
<1> QED
  BY <1>1, <1>2, <1>3, <1>12, <1>13, <1>14

\* HandleCommit: it reaches followers only.
LEMMA HandleCommitAdvances ==
  ASSUME ReplicasOK(rep), NEW r \in Followers, NEW m \in CommitType,
         MessageTrue(rep, m), HandleCommit(r, m)
  PROVE  Advance
<1> DEFINE l == rep[Leader]
           s == rep[r]
<1>1. Leads(l) /\ Follows(l, s) /\ s \in State
  BY LeaderAndFollowers DEF Follows
<1>2. m.opnum \in Nat /\ m.opnum <= l.lastCommitted
  BY DEF MessageTrue, CommitType
<1>3. \/ Step(r, Result(s, AskForState(r, s)))
      \/ m.opnum <= s.lastOp /\ Step(r, CommitUpTo(s, m.opnum))
  BY DEF HandleCommit
<1> HIDE DEF s, l
<1>4. CASE Step(r, Result(s, AskForState(r, s)))
  <2>1. FollowerGoes(l, r, s, Result(s, AskForState(r, s)))
    BY <1>1, AskSays, FollowerSends
  <2> QED
    BY <1>4, <2>1, FollowerStep, StepAdvances DEF s, l
<1>5. CASE m.opnum <= s.lastOp /\ Step(r, CommitUpTo(s, m.opnum))
  <2>1. m.opnum \in 0 .. Len(s.log)
    BY <1>1, <1>2, <1>5, FollowerFields
  <2>2. FollowerGoes(l, r, s, CommitUpTo(s, m.opnum))
    BY <1>1, <1>2, <2>1, FollowerCommits
  <2> QED
    BY <1>5, <2>2, FollowerStep, StepAdvances DEF s, l
<1> QED
  BY <1>3, <1>4, <1>5

\* HandleStateTransfer: only followers ask for state.
LEMMA HandleStateTransferAdvances ==
  ASSUME ReplicasOK(rep), NEW r \in Followers, NEW m \in TransferType, m.to = r,
         MessageTrue(rep, m), HandleStateTransfer(r, m)
  PROVE  Advance
<1>1. Leads(rep[Leader]) /\ Follows(rep[Leader], rep[r])
  BY LeaderAndFollowers
<1>2. TransferTrue(rep[Leader], rep[r], m)
  BY DEF MessageTrue, TransferType
<1>3. FollowerGoes(rep[Leader], r, rep[r], InstallState(r, rep[r], m))
  BY <1>1, <1>2, InstallStateGoes
<1> QED
  BY <1>3, FollowerStep, StepAdvances DEF HandleStateTransfer

\* The answer to a request for state is what a transfer should be, whoever
\* gives it: its sender may lag behind the one that asks.
LEMMA AnswerTrue ==
  ASSUME NEW lead, Leads(lead), NEW s \in State, LocalOK(s),
         LeadersPrefix(lead, s.log), s.lastCommitted <= lead.lastCommitted,
         NEW p \in Followers, NEW q, Follows(lead, q),
         NEW op \in Nat, op <= q.lastCommitted
  PROVE  LET m == StateTransferMessage(0, s.lastCommitted, Dump(s.log, op + 1), p)
         IN  m \in TransferType /\ m.to = p /\ TransferTrue(lead, q, m)
<1> DEFINE L == s.log
           list == SubSeq(L, op + 1, Len(L))
           es == [first |-> op + 1, list |-> list]
           m == [type |-> "StateTransfer", view |-> 0, opnum |-> s.lastCommitted,
                 entries |-> es, to |-> p]
<1>1. /\ L \in Seq(Entry) /\ Len(L) \in Nat /\ s.lastCommitted \in Nat
      /\ s.lastCommitted <= Len(L)
  BY StateFields DEF LocalOK
<1>2. /\ q.lastCommitted \in 0 .. Len(q.log) /\ Len(q.log) <= Len(lead.log)
      /\ Len(q.log) \in Nat /\ Len(lead.log) \in Nat /\ q.lastCommitted \in Nat
  BY FollowerFields
<1>3. Max({op + 1, 1}) = op + 1
  BY SmallerOfTwo, op + 1 \in Int, 1 \in Int, 1 <= op + 1
<1>4. StateTransferMessage(0, s.lastCommitted, Dump(s.log, op + 1), p) = m
  BY <1>3 DEF StateTransferMessage, Dump
<1>5. /\ Len(L) <= Len(lead.log)
      /\ \A i \in 1 .. Len(L) : L[i] = lead.log[i]
  BY DEF LeadersPrefix
<1> HIDE DEF L
<1>6. CASE op < Len(L)
  <2>1. /\ list \in Seq(Entry) /\ Len(list) = Len(L) - op
        /\ \A i \in 1 .. (Len(L) - op) : list[i] = L[op + i]
    <3> DEFINE a == op + 1
               b == Len(L)
    <3>1. a \in 1 .. Len(L) + 1 /\ b \in a - 1 .. Len(L) /\ b - a + 1 = Len(L) - op
      BY <1>1, <1>6
    <3> HIDE DEF a, b
    <3>2. /\ SubSeq(L, a, b) \in Seq(Entry) /\ Len(SubSeq(L, a, b)) = b - a + 1
          /\ \A i \in 1 .. b - a + 1 : SubSeq(L, a, b)[i] = L[a + i - 1]
      BY <1>1, <3>1, SubSeqProperties
    <3>3. \A i \in 1 .. (Len(L) - op) : a + i - 1 = op + i
      BY <1>1 DEF a
    <3> QED
      BY <3>1, <3>2, <3>3 DEF a, b
  <2> HIDE DEF list
  <2>2. \A i \in 1 .. Len(list) : list[i] = lead.log[op + 1 + i - 1]
    <3> TAKE i \in 1 .. Len(list)
    <3>1. i \in 1 .. (Len(L) - op) /\ op + i \in 1 .. Len(L) /\ op + 1 + i - 1 = op + i
      BY <1>1, <1>6, <2>1
    <3>2. list[i] = L[op + i] /\ L[op + i] = lead.log[op + i]
      BY <1>5, <2>1, <3>1
    <3> QED
      BY <3>1, <3>2
  <2>3. op + 1 + Len(list) - 1 = Len(L) /\ op + 1 >= 1 /\ (op + 1) - 1 = op
    BY <1>1, <2>1
  <2>4. es.first = op + 1 /\ es.list = list /\ es \in [first : Nat, list : Seq(Entry)]
    BY <2>1
  <2> HIDE DEF es
  <2>5. m \in TransferType /\ m.to = p /\ m.entries = es /\ m.opnum = s.lastCommitted
    BY <1>1, <2>4 DEF TransferType
  <2> HIDE DEF m
  <2>6. TransferTrue(lead, q, m)
    BY <1>1, <1>5, <2>2, <2>3, <2>4, <2>5 DEF TransferTrue
  <2> QED
    BY <1>4, <2>5, <2>6
<1>7. CASE ~(op < Len(L))
  <2>1. list = <<>>
    <3> DEFINE a == op + 1
               b == Len(L)
    <3>1. a \in Int /\ b \in Int /\ b < a
      BY <1>1, <1>7
    <3> HIDE DEF a, b
    <3>2. SubSeq(L, a, b) = <<>>
      BY <3>1, SubSeqEmpty
    <3> QED
      BY <3>2 DEF a, b
  <2> HIDE DEF list
  <2>2. list \in Seq(Entry) /\ Len(list) = 0
    BY <2>1
  <2>3. es.first = op + 1 /\ es.list = list /\ es \in [first : Nat, list : Seq(Entry)]
    BY <2>2
  <2> HIDE DEF es
  <2>4. m \in TransferType /\ m.to = p /\ m.entries = es /\ m.opnum = s.lastCommitted
    BY <1>1, <2>3 DEF TransferType
  <2> HIDE DEF m
  <2>5. op <= Len(lead.log) /\ s.lastCommitted <= op
    BY <1>1, <1>2, <1>7
  <2>6. op + 1 + Len(list) - 1 = op /\ op + 1 >= 1 /\ (op + 1) - 1 = op
    BY <2>2
  <2>7. \A i \in 1 .. Len(list) : FALSE
    BY <2>2
  <2>8. TransferTrue(lead, q, m)
    BY <2>3, <2>4, <2>5, <2>6, <2>7 DEF TransferTrue
  <2> QED
    BY <1>4, <2>4, <2>8
<1> QED
  BY <1>6, <1>7

\* HandleRequestStateTransfer, at any replica.
LEMMA HandleRequestStateTransferAdvances ==
  ASSUME ReplicasOK(rep), NEW r \in Replicas, NEW m \in AskType,
         MessageTrue(rep, m), HandleRequestStateTransfer(r, m)
  PROVE  Advance
<1> USE Constants
<1> DEFINE l == rep[Leader]
           s == rep[r]
           k == StateTransferMessage(0, s.lastCommitted,
                                     Dump(s.log, m.opnum + 1), m.from)
           res == Result(s, {k})
<1>1. /\ m.view = 0 /\ m.from \in Followers /\ m.opnum \in Nat
      /\ m.opnum <= rep[m.from].lastCommitted
  BY DEF AskType, MessageTrue
<1>2. /\ rep \in States /\ s \in State /\ LocalOK(s) /\ s.view = 0 /\ Leads(l)
      /\ Follows(l, rep[m.from])
  BY <1>1, LeaderAndFollowers, StateFields DEF ReplicasOK
<1>3. Step(r, res)
  BY <1>1, <1>2 DEF HandleRequestStateTransfer
<1>4. LeadersPrefix(l, s.log) /\ s.lastCommitted <= l.lastCommitted
  <2>1. CASE r = Leader
    BY <1>2, <2>1, StateFields DEF LeadersPrefix
  <2>2. CASE r # Leader
    <3>1. FollowerOK(l, s)
      BY <2>2 DEF ReplicasOK
    <3> QED
      BY <3>1 DEF FollowerOK, LeadersPrefix
  <2> QED
    BY <2>1, <2>2
<1>5. /\ k \in TransferType /\ k.to = m.from
      /\ TransferTrue(l, rep[m.from], k)
  <2> DEFINE from == m.from
             op == m.opnum
             q == rep[m.from]
  <2> HIDE DEF l, s, from, op, q
  <2>1. from \in Followers /\ Follows(l, q) /\ op \in Nat /\ op <= q.lastCommitted
    BY <1>1, <1>2 DEF from, op, q
  <2>2. LET n == StateTransferMessage(0, s.lastCommitted, Dump(s.log, op + 1), from)
        IN  n \in TransferType /\ n.to = from /\ TransferTrue(l, q, n)
    BY <1>2, <1>4, <2>1, AnswerTrue
  <2> QED
    BY <2>2 DEF from, op, q
<1> HIDE DEF k
<1>6. k \in Message /\ MessageTrue(rep, k)
  BY <1>5 DEF Message, MessageTrue, TransferType
<1>7. Grows(rep, rep)
  <2>1. \A p \in Replicas : rep[p] \in State
    BY <1>2 DEF States
  <2> QED
    BY <2>1, ExtendsItself DEF Grows
<1>8. rep' = rep /\ msgs' = msgs \cup {k}
  BY <1>2, <1>3 DEF Step, Result, States
<1>9. Advances(rep, rep, {k})
  BY <1>6, <1>7 DEF Advances
<1> QED
  BY <1>8, <1>9 DEF Advance

\* closeBatchTimeout.
LEMMA CloseBatchTimeoutAdvances ==
  ASSUME ReplicasOK(rep), NEW r \in Replicas, CloseBatchTimeout(r)
  PROVE  Advance
<1>1. rep[r] \in State /\ LeadsIn(rep, rep[Leader])
  BY LeaderAndFollowers
<1>2. /\ AmLeader(r, rep[r]) /\ rep[r].lastOp > rep[r].batchEnd
      /\ Step(r, CloseBatch(rep[r]))
  BY DEF CloseBatchTimeout
<1>3. r = Leader
  BY <1>1, <1>2, OnlyLeader
<1>4. LeaderGoes(rep, rep[r], CloseBatch(rep[r]))
  BY <1>1, <1>2, <1>3, CloseBatchGoes
<1> QED
  BY <1>2, <1>3, <1>4, LeaderStep, StepAdvances

\* nullCommitTimeout.
LEMMA SendNullCommitAdvances ==
  ASSUME ReplicasOK(rep), NEW r \in Replicas, SendNullCommit(r)
  PROVE  Advance
<1> DEFINE s == rep[r]
           k == CommitMessage(s.view, s.lastCommitted)
<1>1. rep[r] \in State /\ LeadsIn(rep, rep[Leader])
  BY LeaderAndFollowers
<1>2. AmLeader(r, rep[r]) /\ Step(r, Result(s, {k}))
  BY DEF SendNullCommit
<1>3. r = Leader
  BY <1>1, <1>2, OnlyLeader
<1>4. k \in CommitType /\ k.opnum <= s.lastCommitted
  <2>1. s.view = 0 /\ s.lastCommitted \in Nat
    BY <1>1, StateFields
  <2>2. k = [type |-> "Commit", view |-> 0, opnum |-> s.lastCommitted, from |-> Leader]
    BY <2>1, Constants DEF CommitMessage
  <2> QED
    BY <2>1, <2>2 DEF CommitType
<1> HIDE DEF k
<1>5. LeaderGoes(rep, s, Result(s, {k}))
  BY <1>1, <1>3, <1>4, ExtendsItself, ResultFields DEF LeaderGoes, LeaderSays
<1> QED
  BY <1>2, <1>3, <1>5, LeaderStep, StepAdvances

-----------------------------------------------------------------------------
(* The invariant.                                                            *)

\* Nothing has happened yet.
LEMMA InitInv == Init => Inv
<1> SUFFICES ASSUME Init
             PROVE  Inv
  OBVIOUS
<1> USE Constants
<1> DEFINE s == NewReplica("normal", 0)
<1>1. /\ \A r \in Replicas : rep[r] = s
      /\ rep = [r \in Replicas |-> s] /\ msgs = {} /\ ClientInit
  BY DEF Init, ReplicaInit
<1>2. s \in State
  <2>1. <<>> \in Seq(Entry) /\ <<>> \in Seq(PrepareType) /\ <<>> \in Seq(Req)
    OBVIOUS
  <2>2. [c \in Clients |-> [id |-> 0, reply |-> NoReply]] \in TableType
    BY DEF TableType
  <2> QED
    BY <2>1, <2>2 DEF NewReplica, State
<1>3. /\ s.log = <<>> /\ s.lastOp = 0 /\ s.lastCommitted = 0 /\ s.app = <<>>
      /\ s.oks = {} /\ s.batchEnd = 0 /\ s.pending = <<>>
      /\ \A c \in Clients : s.table[c].id = 0
  BY DEF NewReplica
<1> HIDE DEF s
<1>4. Len(s.log) = 0 /\ Len(s.app) = 0 /\ Len(s.pending) = 0
  BY <1>3
<1>5. LocalOK(s)
  BY <1>3, <1>4 DEF LocalOK
<1>6. FollowerOK(s, s)
  BY <1>3, <1>4 DEF FollowerOK, TableUpTo
<1>7. LeaderOK(rep, s)
  BY <1>3, <1>4 DEF LeaderOK, Ordered, OKsTrue
<1>8. rep \in States
  BY <1>1, <1>2 DEF States
<1>9. ReplicasOK(rep)
  BY <1>1, <1>5, <1>6, <1>7, <1>8 DEF ReplicasOK
<1>10. ClientsOK
  BY <1>1 DEF ClientInit, ClientsOK
<1> QED
  BY <1>1, <1>9, <1>10 DEF Inv

\* A step of the group keeps the invariant.
LEMMA AdvanceKeepsInv ==
  ASSUME Inv, Advance, ClientsOK'
  PROVE  Inv'
<1>1. PICK out : Advances(rep, rep', out) /\ msgs' = msgs \cup out
  BY DEF Advance
<1>2. /\ ReplicasOK(rep') /\ Grows(rep, rep')
      /\ \A m \in out : m \in Message /\ MessageTrue(rep', m)
  BY <1>1 DEF Advances
<1>3. rep \in States /\ rep' \in States
  BY <1>2 DEF Inv, ReplicasOK
<1>4. ASSUME NEW m \in msgs
      PROVE  m \in Message /\ MessageTrue(rep', m)
  BY <1>2, <1>3, MessageStable DEF Inv
<1>5. msgs' \subseteq Message /\ \A m \in msgs' : MessageTrue(rep', m)
  BY <1>1, <1>2, <1>4
<1> QED
  BY <1>2, <1>5 DEF Inv

\* The types of messages that are around.
LEMMA MessageKinds ==
  ASSUME NEW m \in Message
  PROVE  /\ m.type = "Prepare" => m \in PrepareType /\ m.from = Leader
         /\ m.type = "PrepareOK" => m \in PrepareOKType /\ m.to = Leader
         /\ m.type = "Commit" => m \in CommitType /\ m.from = Leader
         /\ m.type = "RequestStateTransfer" => m \in AskType
         /\ m.type = "StateTransfer" => m \in TransferType /\ m.to \in Followers
         /\ m.type = "Request" => m \in RequestType
         /\ m.type \notin {"StartViewChange", "DoViewChange", "StartView",
                           "Recovery", "RecoveryResponse"}
BY DEF Message, PrepareType, PrepareOKType, CommitType, AskType, TransferType,
       RequestType, ReplyType

\* A step of a replica that starts no view change and does not restart.
LEMMA ReplicaAdvances ==
  ASSUME Inv, Undisturbed', NEW r \in Replicas,
         Receive(r) \/ ReceiveViewChange(r) \/ ReceiveRecovery(r) \/ Timers(r)
  PROVE  Advance
<1> USE Constants
<1>1. ReplicasOK(rep) /\ \A m \in msgs : m \in Message /\ MessageTrue(rep, m)
  BY DEF Inv
<1>2. ASSUME NEW m \in Sent("Request"), HandleRequest(r, m)
      PROVE  Advance
  BY <1>1, <1>2, MessageKinds, HandleRequestAdvances DEF Sent
<1>3. ASSUME NEW m \in Broadcast("Prepare", r), HandlePrepare(r, m)
      PROVE  Advance
  BY <1>1, <1>3, MessageKinds, HandlePrepareAdvances DEF Broadcast, Sent
<1>4. ASSUME NEW m \in Addressed("PrepareOK", r), HandlePrepareOK(r, m)
      PROVE  Advance
  BY <1>1, <1>4, MessageKinds, HandlePrepareOKAdvances DEF Addressed, Sent
<1>5. ASSUME NEW m \in Broadcast("Commit", r), HandleCommit(r, m)
      PROVE  Advance
  BY <1>1, <1>5, MessageKinds, HandleCommitAdvances DEF Broadcast, Sent
<1>6. ASSUME NEW m \in Broadcast("RequestStateTransfer", r),
             HandleRequestStateTransfer(r, m)
      PROVE  Advance
  BY <1>1, <1>6, MessageKinds, HandleRequestStateTransferAdvances
     DEF Broadcast, Sent
<1>7. ASSUME NEW m \in Addressed("StateTransfer", r), HandleStateTransfer(r, m)
      PROVE  Advance
  BY <1>1, <1>7, MessageKinds, HandleStateTransferAdvances DEF Addressed, Sent
<1>8. CASE Receive(r)
  BY <1>2, <1>3, <1>4, <1>5, <1>6, <1>7, <1>8 DEF Receive
<1>9. ~ReceiveViewChange(r) /\ ~ReceiveRecovery(r)
  <2>1. \A m \in msgs : m.type \notin {"StartViewChange", "DoViewChange",
                                       "StartView", "Recovery",
                                       "RecoveryResponse"}
    BY <1>1, MessageKinds
  <2> QED
    BY <2>1 DEF ReceiveViewChange, ReceiveRecovery, Broadcast, Addressed, Sent
<1>10. ASSUME ViewChangeTimeout(r)
       PROVE  FALSE
  <2>1. PICK v, n : StartViewChangeMessage(v, n, r) \in msgs'
    BY <1>10 DEF ViewChangeTimeout, Step, StartViewChange, Result
  <2> QED
    BY <2>1 DEF Undisturbed, StartViewChangeMessage
<1>11. ASSUME Restart(r)
       PROVE  FALSE
  <2>1. PICK n : RecoveryMessage(n, r) \in msgs'
    BY <1>11 DEF Restart, Step, Result
  <2> QED
    BY <2>1 DEF Undisturbed, RecoveryMessage
<1>12. CASE Timers(r)
  BY <1>1, <1>10, <1>11, <1>12, CloseBatchTimeoutAdvances, SendNullCommitAdvances
     DEF Timers
<1> QED
  BY <1>8, <1>9, <1>12

\* A step of a client.
LEMMA ClientKeepsInv ==
  ASSUME Inv, ClientNext
  PROVE  Inv'
<1>1. /\ rep' = rep /\ rep \in States /\ ReplicasOK(rep)
      /\ lastReqId \in [Clients -> 0 .. MaxReq] /\ pending \in [Clients -> BOOLEAN]
  BY DEF ClientNext, Inv, ReplicasOK, ClientsOK
<1>2. Grows(rep, rep)
  <2>1. \A p \in Replicas : rep[p] \in State
    BY <1>1 DEF States
  <2> QED
    BY <2>1, ExtendsItself DEF Grows
<1>3. PICK c \in Clients : Invoke(c) \/ \E m \in Sent("Reply") : HandleReply(c, m)
  BY DEF ClientNext
<1>4. CASE Invoke(c)
  <2> DEFINE q == [client |-> c, id |-> lastReqId[c] + 1]
             k == RequestMessage(q)
  <2>1. /\ lastReqId[c] < MaxReq /\ lastReqId[c] \in 0 .. MaxReq
        /\ lastReqId' = [lastReqId EXCEPT ![c] = @ + 1]
        /\ pending' = [pending EXCEPT ![c] = TRUE]
        /\ msgs' = msgs \cup {k}
    BY <1>1, <1>4 DEF Invoke
  <2>2. lastReqId[c] + 1 \in 1 .. MaxReq /\ lastReqId[c] + 1 \in 0 .. MaxReq
    BY <2>1, Constants
  <2>3. ClientsOK'
    BY <1>1, <2>1, <2>2 DEF ClientsOK
  <2>4. k \in Message /\ MessageTrue(rep, k)
    BY <2>2 DEF RequestMessage, Req, RequestType, Message, MessageTrue
  <2> HIDE DEF k
  <2>5. Advances(rep, rep, {k})
    BY <1>1, <1>2, <2>4 DEF Advances
  <2>6. Advance
    BY <1>1, <2>1, <2>5 DEF Advance
  <2> QED
    BY <2>3, <2>6, AdvanceKeepsInv
<1>5. CASE \E m \in Sent("Reply") : HandleReply(c, m)
  <2>1. /\ pending' = [pending EXCEPT ![c] = FALSE] /\ lastReqId' = lastReqId
        /\ msgs' = msgs
    BY <1>5 DEF HandleReply
  <2>2. ClientsOK'
    BY <1>1, <2>1 DEF ClientsOK
  <2>3. Advances(rep, rep, {})
    BY <1>1, <1>2 DEF Advances
  <2>4. Advance
    BY <1>1, <2>1, <2>3 DEF Advance
  <2> QED
    BY <2>2, <2>4, AdvanceKeepsInv
<1> QED
  BY <1>3, <1>4, <1>5

\* Messages stay.
LEMMA MessagesStay == [Next]_vars => msgs \subseteq msgs'
<1>1. ASSUME NEW r, NEW res, Step(r, res)
      PROVE  msgs \subseteq msgs'
  BY <1>1 DEF Step
<1>2. ASSUME NEW r \in Replicas, Receive(r)
      PROVE  \E res : Step(r, res)
  BY <1>2 DEF Receive, HandleRequest, HandlePrepare, HandlePrepareOK, HandleCommit,
              HandleRequestStateTransfer, HandleStateTransfer
<1>3. ASSUME NEW r \in Replicas, ReceiveViewChange(r)
      PROVE  \E res : Step(r, res)
  BY <1>3 DEF ReceiveViewChange, HandleStartViewChange, HandleDoViewChange,
              HandleStartView
<1>4. ASSUME NEW r \in Replicas, ReceiveRecovery(r)
      PROVE  \E res : Step(r, res)
  BY <1>4 DEF ReceiveRecovery, HandleRecovery, HandleRecoveryResponse
<1>5. ASSUME NEW r \in Replicas, Timers(r)
      PROVE  \E res : Step(r, res)
  BY <1>5 DEF Timers, CloseBatchTimeout, SendNullCommit, ViewChangeTimeout, Restart
<1>6. ReplicaNext => msgs \subseteq msgs'
  BY <1>1, <1>2, <1>3, <1>4, <1>5 DEF ReplicaNext
<1>7. ClientNext => msgs \subseteq msgs'
  BY DEF ClientNext, Invoke, HandleReply
<1> QED
  BY <1>6, <1>7 DEF Next, vars

\* A step after which nobody has left the view is one the group may take.
LEMMA StepKeepsInv ==
  ASSUME Inv, [Next]_vars, Undisturbed'
  PROVE  Inv' /\ Grows(rep, rep')
<1>1. ASSUME UNCHANGED rep
      PROVE  Grows(rep, rep')
  <2>1. \A p \in Replicas : rep[p] \in State
    BY DEF Inv, ReplicasOK, States
  <2> QED
    BY <1>1, <2>1, ExtendsItself DEF Grows
<1>2. CASE ClientNext
  BY <1>1, <1>2, ClientKeepsInv DEF ClientNext
<1>3. CASE ReplicaNext
  <2>1. Advance
    BY <1>3, ReplicaAdvances DEF ReplicaNext
  <2>2. ClientsOK'
    BY <1>3 DEF ReplicaNext, clientVars, Inv, ClientsOK
  <2>3. Grows(rep, rep')
    BY <2>1 DEF Advance, Advances
  <2> QED
    BY <2>1, <2>2, <2>3, AdvanceKeepsInv
<1>4. CASE UNCHANGED vars
  BY <1>1, <1>4 DEF vars, Inv, ClientsOK
<1> QED
  BY <1>2, <1>3, <1>4 DEF Next

\* The inductive invariant: as long as no replica has started a view change or
\* restarted, Inv holds.
THEOREM Invariance == Spec => []FirstView
<1>1. Init => FirstView
  BY InitInv DEF FirstView
<1>2. FirstView /\ [Next]_vars => FirstView'
  <2> SUFFICES ASSUME FirstView, [Next]_vars, Undisturbed'
               PROVE  Inv'
    BY DEF FirstView
  <2>1. Undisturbed
    BY MessagesStay DEF Undisturbed
  <2> QED
    BY <2>1, StepKeepsInv DEF FirstView
<1> QED
  BY <1>1, <1>2, PTL DEF Spec

-----------------------------------------------------------------------------
(* What the invariant gives.                                                 *)

\* Every log is a prefix of the leader's, and what a replica has executed is
\* the beginning of it, no further than the leader has executed.
LEMMA AllFollow ==
  ASSUME Inv, NEW r \in Replicas
  PROVE  /\ rep[r] \in State /\ rep[Leader] \in State /\ LocalOK(rep[r])
         /\ LeadersPrefix(rep[Leader], rep[r].log)
         /\ rep[r].lastCommitted <= rep[Leader].lastCommitted
         /\ rep[r].lastCommitted \in 0 .. Len(rep[r].log)
         /\ Len(rep[r].log) \in Nat /\ rep[r].app \in Seq(Req)
         /\ Len(rep[r].app) = rep[r].lastCommitted
         /\ \A i \in 1 .. Len(rep[r].app) :
              /\ i \in 1 .. Len(rep[Leader].log)
              /\ rep[r].app[i] = rep[Leader].log[i].req
<1> USE Constants
<1> DEFINE s == rep[r]
           l == rep[Leader]
<1>1. s \in State /\ l \in State /\ LocalOK(s)
  BY LeaderAndFollowers DEF Inv, ReplicasOK
<1>2. LeadersPrefix(l, s.log) /\ s.lastCommitted <= l.lastCommitted
  <2>1. CASE r = Leader
    BY <1>1, <2>1, StateFields DEF LeadersPrefix
  <2>2. CASE r # Leader
    <3>1. FollowerOK(l, s)
      BY <2>2 DEF Inv, ReplicasOK
    <3> QED
      BY <3>1 DEF FollowerOK, LeadersPrefix
  <2> QED
    BY <2>1, <2>2
<1> HIDE DEF s, l
<1>3. /\ s.lastCommitted \in Nat /\ Len(s.log) \in Nat /\ Len(l.log) \in Nat
      /\ s.app \in Seq(Req)
  BY <1>1, StateFields
<1>4. /\ s.lastCommitted <= Len(s.log) /\ Len(s.app) = s.lastCommitted
      /\ \A i \in 1 .. s.lastCommitted : s.app[i] = s.log[i].req
  BY <1>1 DEF LocalOK
<1>5. /\ Len(s.log) <= Len(l.log)
      /\ \A i \in 1 .. Len(s.log) : s.log[i] = l.log[i]
  BY <1>2 DEF LeadersPrefix
<1>6. ASSUME NEW i \in 1 .. Len(s.app)
      PROVE  i \in 1 .. Len(l.log) /\ s.app[i] = l.log[i].req
  <2>1. i \in 1 .. s.lastCommitted /\ i \in 1 .. Len(s.log) /\ i \in 1 .. Len(l.log)
    BY <1>3, <1>4, <1>5
  <2> QED
    BY <1>4, <1>5, <2>1
<1> QED
  BY <1>1, <1>2, <1>3, <1>4, <1>6 DEF s, l

\* TypeOK in the first view.
LEMMA InvTypeOK == Inv => TypeOK
<1> SUFFICES ASSUME Inv
             PROVE  TypeOK
  OBVIOUS
<1> USE Constants, VRBoundAssumption
<1>1. \A c \in Clients : lastReqId[c] \in 0 .. MaxReq /\ pending[c] \in BOOLEAN
  BY DEF Inv, ClientsOK
<1>2. ASSUME NEW r \in Replicas
      PROVE  LET s == rep[r]
             IN  /\ s.status \in {"normal", "viewchange", "recovering"}
                 /\ s.view \in 0 .. MaxView
                 /\ s.log \in Seq(Entry) /\ s.app \in Seq(Req)
                 /\ s.lastOp \in 0 .. Len(s.log)
                 /\ s.failed = NoFailure => s.lastCommitted \in 0 .. s.lastOp
                 /\ Len(s.app) = s.lastCommitted
                 /\ \A c \in Clients : /\ s.table[c].id \in 0 .. MaxReq
                                       /\ s.table[c].reply >= NoReply
                 /\ s.addrs \subseteq Clients /\ s.batchDone \in BOOLEAN
                 /\ s.nonce \in 0 .. MaxRestart
  <2> DEFINE s == rep[r]
  <2>1. s \in State /\ LocalOK(s)
    BY AllFollow
  <2> HIDE DEF s
  <2>2. /\ s.status = "normal" /\ s.view = 0 /\ s.log \in Seq(Entry)
        /\ Len(s.log) \in Nat /\ s.lastCommitted \in Nat /\ s.app \in Seq(Req)
        /\ s.addrs \in SUBSET Clients /\ s.batchDone \in BOOLEAN
    BY <2>1, StateFields
  <2>3. s.nonce = 0
    BY <2>1 DEF State
  <2>4. s.lastOp = Len(s.log) /\ s.lastCommitted <= s.lastOp
        /\ Len(s.app) = s.lastCommitted
    BY <2>1 DEF LocalOK
  <2>5. s.lastOp \in 0 .. Len(s.log) /\ s.lastCommitted \in 0 .. s.lastOp
    BY <2>2, <2>4
  <2>6. ASSUME NEW c \in Clients
        PROVE  s.table[c].id \in 0 .. MaxReq /\ s.table[c].reply >= NoReply
    <3>1. s.table[c] \in [id : 0 .. MaxReq, reply : Nat \cup {NoReply}]
      BY <2>1, EntryFields
    <3> QED
      BY <3>1 DEF NoReply
  <2>7. s.view \in 0 .. MaxView /\ s.nonce \in 0 .. MaxRestart
    BY <2>2, <2>3
  <2> QED
    BY <2>2, <2>4, <2>5, <2>6, <2>7 DEF s
<1> QED
  BY <1>1, <1>2 DEF TypeOK

\* While nobody has started a view change or restarted, the states are typed:
\* the log ends at lastOp, and the application has executed lastCommitted
\* requests (CommitUpTo).
THEOREM FirstViewTyped == Spec => [](Undisturbed => TypeOK)
<1>1. FirstView => (Undisturbed => TypeOK)
  BY InvTypeOK DEF FirstView
<1> QED
  BY <1>1, Invariance, PTL

\* Any two replicas have executed prefixes of the leader's log.
LEMMA InvExecutionsAgree == Inv => ExecutionsAgree
<1> SUFFICES ASSUME Inv, NEW r \in Replicas, NEW q \in Replicas
             PROVE  IsPrefix(rep[r].app, rep[q].app) \/ IsPrefix(rep[q].app, rep[r].app)
  BY DEF ExecutionsAgree
<1> DEFINE a == rep[r].app
           b == rep[q].app
           l == rep[Leader].log
<1>1. a \in Seq(Req) /\ b \in Seq(Req) /\ Len(a) \in Nat /\ Len(b) \in Nat
  BY AllFollow
<1>2. /\ \A i \in 1 .. Len(a) : a[i] = l[i].req
      /\ \A i \in 1 .. Len(b) : b[i] = l[i].req
  BY AllFollow
<1> HIDE DEF a, b, l
<1>3. CASE Len(a) <= Len(b)
  <2>1. \A i \in 1 .. Len(a) : i \in 1 .. Len(b)
    BY <1>1, <1>3
  <2>2. \A i \in 1 .. Len(a) : a[i] = b[i]
    BY <1>2, <2>1
  <2> QED
    BY <1>1, <1>3, <2>2, PrefixByElements DEF a, b
<1>4. CASE Len(b) <= Len(a)
  <2>1. \A i \in 1 .. Len(b) : i \in 1 .. Len(a)
    BY <1>1, <1>4
  <2>2. \A i \in 1 .. Len(b) : b[i] = a[i]
    BY <1>2, <2>1
  <2> QED
    BY <1>1, <1>4, <2>2, PrefixByElements DEF a, b
<1> QED
  BY <1>1, <1>3, <1>4

\* While nobody has started a view change or restarted, replicas execute the
\* same requests in the same order (CommitUpTo).
THEOREM FirstViewAgreement == Spec => [](Undisturbed => ExecutionsAgree)
<1>1. FirstView => (Undisturbed => ExecutionsAgree)
  BY InvExecutionsAgree DEF FirstView
<1> QED
  BY <1>1, Invariance, PTL

\* A client's requests have increasing ids in the leader's log.
LEMMA InvExecutedOnce == Inv => ExecutedOnce
<1> SUFFICES ASSUME Inv, NEW r \in Replicas
             PROVE  IsInjective(rep[r].app)
  BY DEF ExecutedOnce
<1> DEFINE a == rep[r].app
           s == rep[Leader]
<1>1. a \in Seq(Req) /\ Len(a) \in Nat /\ s \in State
  BY AllFollow
<1>2. \A i \in 1 .. Len(a) : i \in 1 .. Len(s.log) /\ a[i] = s.log[i].req
  BY AllFollow
<1>3. Ordered(s.log)
  BY DEF Inv, ReplicasOK, LeaderOK
<1> HIDE DEF a, s
<1>4. ASSUME NEW i \in 1 .. Len(a), NEW j \in 1 .. Len(a), i < j
      PROVE  a[i] # a[j]
  <2>1. /\ i \in 1 .. Len(s.log) /\ j \in 1 .. Len(s.log)
        /\ a[i] = s.log[i].req /\ a[j] = s.log[j].req
    BY <1>2
  <2>2. s.log[i].req.id \in 1 .. MaxReq /\ s.log[j].req.id \in 1 .. MaxReq
    BY <1>1, <2>1, EntryFields
  <2>3. s.log[i].req.client = s.log[j].req.client => s.log[i].req.id < s.log[j].req.id
    BY <1>3, <1>4, <2>1 DEF Ordered
  <2> QED
    BY <2>1, <2>2, <2>3, Constants
<1>5. DOMAIN a = 1 .. Len(a)
  BY <1>1
<1>6. ASSUME NEW i \in DOMAIN a, NEW j \in DOMAIN a, a[i] = a[j]
      PROVE  i = j
  <2>1. i \in 1 .. Len(a) /\ j \in 1 .. Len(a)
    BY <1>5
  <2>2. ~(i < j) /\ ~(j < i)
    BY <1>4, <1>6, <2>1
  <2> QED
    BY <1>1, <2>1, <2>2
<1> QED
  BY <1>6 DEF IsInjective, a

\* While nobody has started a view change or restarted, no replica executes a
\* request twice (the client table of HandleRequest).
THEOREM FirstViewOnce == Spec => [](Undisturbed => ExecutedOnce)
<1>1. FirstView => (Undisturbed => ExecutedOnce)
  BY InvExecutedOnce DEF FirstView
<1> QED
  BY <1>1, Invariance, PTL

\* While nobody has started a view change or restarted, no ASSERT fails and no
\* Panic is reached, whatever the network does (CommitUpTo, CloseBatch,
\* HandlePrepare, HandleStateTransfer, SendPrepareOKs).
THEOREM FirstViewNeverAborts == Spec => [](Undisturbed => NoAbort)
<1>1. FirstView => (Undisturbed => NoAbort)
  <2> SUFFICES ASSUME Inv
               PROVE  NoAbort
    BY DEF FirstView
  <2>1. \A r \in Replicas : rep[r] \in State
    BY AllFollow
  <2> QED
    BY <2>1, StateFields DEF NoAbort
<1> QED
  BY <1>1, Invariance, PTL

\* The leader and F followers hold all that the leader has executed.
LEMMA InvExecutedInQuorum == Inv => ExecutedInQuorum
<1> USE Constants
<1> DEFINE Have(r, op) == {q \in Replicas : /\ op <= Len(rep[q].log)
                                            /\ rep[q].log[op].req = rep[r].app[op]}
<1> SUFFICES ASSUME Inv, NEW r \in Replicas, NEW op \in 1 .. Len(rep[r].app)
             PROVE  Cardinality(Have(r, op)) >= QuorumSize
  BY DEF ExecutedInQuorum
<1> DEFINE last == rep[Leader].lastCommitted
           H == Holding(rep, last)
           A == Have(r, op)
<1>1. /\ last \in Nat /\ rep[r].lastCommitted <= last
      /\ rep[r].lastCommitted \in Nat /\ Len(rep[r].app) = rep[r].lastCommitted
      /\ op \in 1 .. Len(rep[Leader].log) /\ rep[r].app[op] = rep[Leader].log[op].req
  BY AllFollow, StateFields
<1>2. op \in Nat /\ op <= last /\ last > 0
  BY <1>1
<1>3. Cardinality(H) >= F
  BY <1>2 DEF Inv, ReplicasOK, LeaderOK
<1>4. ASSUME NEW q \in Replicas, op <= Len(rep[q].log)
      PROVE  q \in A
  <2>1. op \in 1 .. Len(rep[q].log)
    BY <1>2, <1>4, AllFollow
  <2>2. rep[q].log[op] = rep[Leader].log[op]
    BY <2>1, AllFollow DEF LeadersPrefix
  <2> QED
    BY <1>1, <1>4, <2>2
<1>5. Leader \in A
  BY <1>1, <1>4
<1>6. ASSUME NEW q \in H
      PROVE  q \in A
  <2>1. q \in Replicas /\ last <= Len(rep[q].log) /\ Len(rep[q].log) \in Nat
    BY AllFollow DEF Holding
  <2> QED
    BY <1>1, <1>2, <1>4, <2>1
<1>7. IsFiniteSet(H) /\ Cardinality(H) \in Nat /\ Leader \notin H
  BY HoldingFinite DEF Holding
<1>8. IsFiniteSet(A)
  <2>1. IsFiniteSet(Replicas)
    BY FS_Interval, 0 \in Int, N - 1 \in Int DEF Replicas
  <2> QED
    BY <2>1, FS_Subset, A \subseteq Replicas
<1> HIDE DEF H, A
<1>9. IsFiniteSet(H \cup {Leader}) /\ Cardinality(H \cup {Leader}) = Cardinality(H) + 1
  BY <1>7, FS_AddElement
<1>10. Cardinality(H \cup {Leader}) <= Cardinality(A)
  BY <1>5, <1>6, <1>8, FS_Subset, H \cup {Leader} \subseteq A
<1>11. Cardinality(A) \in Nat
  BY <1>8, FS_CardinalityType
<1>12. Cardinality(A) >= QuorumSize
  BY <1>3, <1>7, <1>9, <1>10, <1>11 DEF QuorumSize
<1> QED
  BY <1>12 DEF A

\* While nobody has started a view change or restarted, what some replica has
\* executed is in the logs of F + 1 (the count of HandlePrepareOK), so that it
\* is there for a view change to find.
THEOREM FirstViewHeldByQuorum == Spec => [](Undisturbed => ExecutedInQuorum)
<1>1. FirstView => (Undisturbed => ExecutedInQuorum)
  BY InvExecutedInQuorum DEF FirstView
<1> QED
  BY <1>1, Invariance, PTL

\* All logs are prefixes of one.
LEMMA InvLogsMatch == Inv => LogsMatch
<1> USE Constants
<1> DEFINE n(r, q) == Min({Len(rep[r].log), Len(rep[q].log)})
<1> SUFFICES ASSUME Inv, NEW r \in Replicas, NEW q \in Replicas,
                    NEW op \in 1 .. n(r, q)
             PROVE  SubSeq(rep[r].log, 1, op) = SubSeq(rep[q].log, 1, op)
  BY DEF LogsMatch
<1> DEFINE a == rep[r].log
           b == rep[q].log
           l == rep[Leader].log
<1>1. /\ a \in Seq(Entry) /\ b \in Seq(Entry) /\ Len(a) \in Nat /\ Len(b) \in Nat
      /\ \A i \in 1 .. Len(a) : a[i] = l[i]
      /\ \A i \in 1 .. Len(b) : b[i] = l[i]
  BY AllFollow, StateFields DEF LeadersPrefix
<1>2. n(r, q) = Min({Len(a), Len(b)})
  OBVIOUS
<1> HIDE DEF a, b, l, n
<1>3. op \in Nat /\ op <= Len(a) /\ op <= Len(b)
  <2> DEFINE x == Len(a)
             y == Len(b)
  <2>1. x \in Nat /\ y \in Nat /\ n(r, q) = Min({x, y})
    BY <1>1, <1>2
  <2> HIDE DEF x, y
  <2>2. n(r, q) \in {x, y} /\ n(r, q) <= x /\ n(r, q) <= y
    <3>1. CASE x <= y
      <4>1. Min({x, y}) = x
        BY <2>1, <3>1, x \in Int, y \in Int, SmallerOfTwo
      <4> QED
        BY <2>1, <3>1, <4>1
    <3>2. CASE y <= x
      <4>1. Min({y, x}) = y /\ {y, x} = {x, y}
        BY <2>1, <3>2, x \in Int, y \in Int, SmallerOfTwo
      <4>2. Min({x, y}) = y
        BY <4>1
      <4> QED
        BY <2>1, <3>2, <4>2
    <3> QED
      BY <2>1, <3>1, <3>2
  <2>3. op \in Nat /\ op <= x /\ op <= y
    BY <2>1, <2>2
  <2> QED
    BY <2>3 DEF x, y
<1>4. \A i \in 1 .. op : a[i] = b[i]
  <2>1. \A i \in 1 .. op : i \in 1 .. Len(a) /\ i \in 1 .. Len(b)
    BY <1>1, <1>3
  <2> QED
    BY <1>1, <2>1
<1>5. SubSeq(a, 1, op) = SubSeq(b, 1, op)
  BY <1>1, <1>3, <1>4, SamePrefix
<1> QED
  BY <1>5 DEF a, b

\* While nobody has started a view change or restarted, logs that share a
\* viewstamp agree up to it (HandlePrepare, HandleStateTransfer).
THEOREM FirstViewLogsMatch == Spec => [](Undisturbed => LogsMatch)
<1>1. FirstView => (Undisturbed => LogsMatch)
  BY InvLogsMatch DEF FirstView
<1> QED
  BY <1>1, Invariance, PTL

\* While nobody has started a view change or restarted, a replica holds every
\* operation it acknowledged (HandlePrepare, SendPrepareOKs).
THEOREM FirstViewAcksHeld == Spec => [](Undisturbed => AcksHeld)
<1>1. FirstView => (Undisturbed => AcksHeld)
  <2> SUFFICES ASSUME Inv, NEW m \in Sent("PrepareOK")
               PROVE  m.opnum <= rep[m.from].lastOp
    BY DEF FirstView, AcksHeld
  <2>1. m \in Message /\ MessageTrue(rep, m) /\ m.type = "PrepareOK"
    BY DEF Inv, Sent
  <2>2. m.from \in Replicas
    BY <2>1, MessageKinds, Constants DEF PrepareOKType
  <2>3. m.opnum <= Len(rep[m.from].log)
    BY <2>1 DEF MessageTrue
  <2>4. rep[m.from].lastOp = Len(rep[m.from].log)
    BY <2>2, AllFollow DEF LocalOK
  <2> QED
    BY <2>3, <2>4
<1> QED
  BY <1>1, Invariance, PTL

\* No step of a replica takes an entry out of a log or an execution back, and
\* none changes one, unless it starts a view change or restarts: in the first
\* view HandleStateTransfer never reaches its RemoveAfter.
LogsOnlyGrow ==
  [][Undisturbed' =>
       \A r \in Replicas : /\ IsPrefix(rep[r].log, rep'[r].log)
                           /\ IsPrefix(rep[r].app, rep'[r].app)]_vars

\* The action property LogsOnlyGrow holds of every behaviour (AppendBatch,
\* Merge, CommitUpTo).
THEOREM FirstViewLogsGrow == Spec => LogsOnlyGrow
<1> DEFINE A(r) == /\ IsPrefix(rep[r].log, rep'[r].log)
                   /\ IsPrefix(rep[r].app, rep'[r].app)
<1>1. ASSUME FirstView, [Next]_vars, Undisturbed', NEW r \in Replicas
      PROVE  A(r)
  <2>1. Inv
    BY <1>1, MessagesStay DEF FirstView, Undisturbed
  <2>2. Inv' /\ Grows(rep, rep')
    BY <1>1, <2>1, StepKeepsInv
  <2> DEFINE s == rep[r]
             t == rep'[r]
  <2>3. s \in State /\ t \in State /\ LocalOK(s) /\ LocalOK(t) /\ Extends(s, t)
    BY <2>1, <2>2 DEF Inv, ReplicasOK, States, Grows
  <2> HIDE DEF s, t
  <2>4. /\ s.log \in Seq(Entry) /\ t.log \in Seq(Entry)
        /\ s.app \in Seq(Req) /\ t.app \in Seq(Req)
        /\ Len(s.log) \in Nat /\ s.lastCommitted \in Nat /\ t.lastCommitted \in Nat
    BY <2>3, StateFields
  <2>5. IsPrefix(s.log, t.log)
    <3>1. Len(s.log) <= Len(t.log) /\ \A i \in 1 .. Len(s.log) : s.log[i] = t.log[i]
      BY <2>3 DEF Extends
    <3> QED
      BY <2>4, <3>1, PrefixByElements
  <2>6. IsPrefix(s.app, t.app)
    <3>1. /\ Len(s.app) = s.lastCommitted /\ Len(t.app) = t.lastCommitted
          /\ s.lastCommitted <= t.lastCommitted /\ s.lastCommitted <= Len(s.log)
      BY <2>3 DEF LocalOK, Extends
    <3>2. ASSUME NEW i \in 1 .. Len(s.app)
          PROVE  s.app[i] = t.app[i]
      <4>1. /\ i \in 1 .. s.lastCommitted /\ i \in 1 .. t.lastCommitted
            /\ i \in 1 .. Len(s.log)
        BY <2>4, <3>1
      <4>2. s.app[i] = s.log[i].req /\ t.app[i] = t.log[i].req
        BY <2>3, <4>1 DEF LocalOK
      <4>3. t.log[i] = s.log[i]
        BY <2>3, <4>1 DEF Extends
      <4> QED
        BY <4>2, <4>3
    <3> QED
      BY <2>4, <3>1, <3>2, PrefixByElements
  <2> QED
    BY <2>5, <2>6 DEF s, t
<1>2. FirstView /\ [Next]_vars
        => [Undisturbed' => \A r \in Replicas : A(r)]_vars
  BY <1>1
<1> QED
  BY <1>2, Invariance, PTL DEF Spec, LogsOnlyGrow
=============================================================================
