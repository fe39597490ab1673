--------------------------- MODULE FastPaxosProofs ---------------------------
(***************************************************************************)
(* Proofs about FastPaxos for any number of followers and clients, any F   *)
(* and any bound.  A handler is a composition of operators on one          *)
(* replica's state, so the invariant is stated for a function R of         *)
(* replicas' states that stands for rep in the middle of a handler too.    *)
(***************************************************************************)
EXTENDS FastPaxos, DataLemmas

\* The messages a replica can hold or send.
PrepareType == [type : {"Prepare"}, opnum : Nat, req : Req]
PrepareOKType ==
  [type : {"PrepareOK"}, opnum : Nat, req : Req, slowpath : BOOLEAN,
   from : Followers]

Message ==
  PrepareType \cup PrepareOKType
    \cup [type : {"Request"}, req : Req]
    \cup [type : {"Reply", "Commit"}, opnum : Nat, req : Req]
    \cup [type : {"RequestStateTransfer"}, opnum : Nat, from : Followers]
    \cup [type : {"StateTransfer"}, begin : Nat, entries : Seq(Req),
          opnum : Nat, to : Followers]
    \cup [type : {"UnloggedRequest"}, req : [client : Clients, id : Nat],
          to : Replicas]
    \cup [type : {"UnloggedReply"}, req : [client : Clients, id : Nat]]

OKType == [opnum : Nat, from : Followers, slowpath : BOOLEAN]

\* Where a replica failed, "" if it did not.
Failure == {""} \cup STRING

State ==
  [lastCommitted : Nat, lastFast : Nat, lastSlow : Nat, log : Seq(Req),
   table : [Clients -> [id : Nat, reply : Nat]],
   addrs : SUBSET Clients, app : Seq(Req), oks : SUBSET OKType,
   pendingPrepares : SUBSET PrepareType, pendingOKs : SUBSET PrepareOKType,
   lastPrepare : SUBSET PrepareType, failed : Failure, out : SUBSET Message]

States == [Replicas -> State]

Has(log, op, q) == op \in 1 .. Len(log) /\ log[op] = q

\* What a replica sends says what is still so of the replicas' states, and is
\* not a request.
MessageTrue(R, m) ==
  LET lead == R[Leader]
  IN  /\ m.type # "Request"
      /\ m.type = "Prepare" => Has(lead.log, m.opnum, m.req)
      /\ m.type \in {"Commit", "Reply"} =>
           Has(lead.log, m.opnum, m.req) /\ m.opnum <= lead.lastCommitted
      /\ m.type = "PrepareOK" =>
           /\ m.opnum \in 1 .. Len(R[m.from].log)
           /\ \/ ~m.slowpath /\ R[m.from].log[m.opnum] = m.req
              \/ Has(lead.log, m.opnum, R[m.from].log[m.opnum])
      /\ m.type = "RequestStateTransfer" =>
           m.opnum <= R[m.from].lastCommitted
      /\ m.type = "StateTransfer" =>
           /\ m.begin <= R[m.to].lastCommitted
           /\ m.begin + Len(m.entries) <= Len(lead.log)
           /\ \A i \in 1 .. Len(m.entries) :
                m.entries[i] = lead.log[m.begin + i]
           /\ m.opnum <= lead.lastCommitted
           /\ m.opnum <= m.begin + Len(m.entries)

\* What holds of any replica by itself.  A reply of the client table is for
\* the request executed at its place, and what waits can be counted.
LocalOK(s) ==
  /\ s.lastFast = Len(s.log)
  /\ s.lastCommitted <= s.lastSlow /\ s.lastSlow <= s.lastFast
  /\ s.app = SubSeq(s.log, 1, s.lastCommitted)
  /\ s.failed = ""
  /\ IsFiniteSet(s.pendingPrepares) /\ IsFiniteSet(s.pendingOKs)
  /\ \A c \in Clients :
       s.table[c].reply > 0 =>
         /\ s.table[c].reply <= s.lastCommitted
         /\ s.log[s.table[c].reply] = [client |-> c, id |-> s.table[c].id]

\* A follower has the leader's entries up to lastSlow and executes after it.
FollowerOK(lead, s) ==
  /\ s.lastSlow <= Len(lead.log)
  /\ \A i \in 1 .. s.lastSlow : s.log[i] = lead.log[i]
  /\ s.lastCommitted <= lead.lastCommitted
  /\ \A p \in s.pendingPrepares : Has(lead.log, p.opnum, p.req)

\* The leader's client table knows every request of its log, and a counted
\* answer is from a replica that holds the leader's entry.
LeaderOK(R) ==
  LET s == R[Leader]
  IN  /\ s.lastSlow = s.lastFast
      /\ \A i \in 1 .. Len(s.log) : s.log[i].id <= s.table[s.log[i].client].id
      /\ \A i, j \in 1 .. Len(s.log) : s.log[i] = s.log[j] => i = j
      /\ \A p \in s.lastPrepare : Has(s.log, p.opnum, p.req)
      /\ \A m \in s.pendingOKs : MessageTrue(R, m)
      /\ \A x \in s.oks : /\ Has(R[x.from].log, x.opnum, s.log[x.opnum])
                          /\ x.opnum <= Len(s.log)

Holders(R, op) == {r \in Replicas : Has(R[r].log, op, R[Leader].log[op])}

QuorumOK(R) ==
  R[Leader].lastCommitted > 0 =>
    Cardinality(Holders(R, R[Leader].lastCommitted)) >= F + 1

ReplicasOK(R) ==
  /\ R \in States
  /\ \A r \in Replicas : LocalOK(R[r])
  /\ \A r \in Followers : FollowerOK(R[Leader], R[r])
  /\ LeaderOK(R)
  /\ QuorumOK(R)
  /\ \A r \in Replicas : \A m \in R[r].out : MessageTrue(R, m)

ClientsOK ==
  /\ lastReqId \in [Clients -> Nat]
  /\ accepted \subseteq Message
  /\ \A a \in accepted : a.type = "Reply" /\ MessageTrue(rep, a)

\* The inductive invariant.
Inv ==
  /\ ReplicasOK(rep)
  /\ \A r \in Replicas : rep[r].out = {}
  /\ msgs \subseteq Message
  /\ \A m \in msgs : m.type # "Request" => MessageTrue(rep, m)
  /\ ClientsOK

-----------------------------------------------------------------------------
(* What a handler may do to the replicas' states.                            *)

\* The leader's log only grows, nothing is unexecuted, and an entry of a
\* follower changes only to the leader's.
Grows(R, S) ==
  /\ \A i \in 1 .. Len(R[Leader].log) : Has(S[Leader].log, i, R[Leader].log[i])
  /\ Len(R[Leader].log) <= Len(S[Leader].log)
  /\ \A r \in Replicas :
       /\ R[r].lastCommitted <= S[r].lastCommitted
       /\ Len(R[r].log) <= Len(S[r].log)
       /\ \A i \in 1 .. Len(R[r].log) :
            S[r].log[i] = R[r].log[i] \/ Has(S[Leader].log, i, S[r].log[i])

\* The configuration: one leader, finitely many followers.
LEMMA Constants ==
  /\ Leader \notin Followers /\ IsFiniteSet(Followers)
  /\ F \in Nat /\ MaxReq \in Nat
  /\ Leader \in Replicas /\ Followers \subseteq Replicas
  /\ \A r \in Replicas : r # Leader => r \in Followers
BY FastPaxosAssumption DEF Replicas

\* The types of a replica's fields.
LEMMA StateFields ==
  ASSUME NEW s \in State
  PROVE  /\ s.lastCommitted \in Nat /\ s.lastFast \in Nat /\ s.lastSlow \in Nat
         /\ s.log \in Seq(Req) /\ s.app \in Seq(Req) /\ Len(s.log) \in Nat
         /\ s.table \in [Clients -> [id : Nat, reply : Nat]]
         /\ s.addrs \in SUBSET Clients /\ s.oks \in SUBSET OKType
         /\ s.pendingPrepares \in SUBSET PrepareType
         /\ s.pendingOKs \in SUBSET PrepareOKType
         /\ s.lastPrepare \in SUBSET PrepareType
         /\ s.failed \in Failure /\ s.out \in SUBSET Message
         /\ PrepareType \subseteq Message /\ PrepareOKType \subseteq Message
BY DEF State, Message

\* A replica's marks lie in its log, in this order: what is executed, what has
\* gone through the slow path, the end.
LEMMA Places ==
  ASSUME NEW s \in State, LocalOK(s)
  PROVE  /\ s.lastFast = Len(s.log) /\ s.lastSlow \in 0 .. Len(s.log)
         /\ s.lastCommitted \in 0 .. s.lastSlow
         /\ s.lastCommitted \in 0 .. Len(s.log)
<1>1. /\ s.lastFast = Len(s.log) /\ s.lastCommitted <= s.lastSlow
      /\ s.lastSlow <= s.lastFast
  BY DEF LocalOK
<1> QED
  BY <1>1, StateFields

\* Two steps by which the logs grow make one.
LEMMA GrowsTransitive ==
  ASSUME NEW R \in States, NEW S \in States, NEW T \in States,
         Grows(R, S), Grows(S, T)
  PROVE  Grows(R, T)
<1> USE Constants
<1>1. \A r \in Replicas : /\ R[r].log \in Seq(Req) /\ R[r].lastCommitted \in Nat
                         /\ S[r].log \in Seq(Req) /\ S[r].lastCommitted \in Nat
                         /\ T[r].log \in Seq(Req) /\ T[r].lastCommitted \in Nat
  BY DEF States, State
<1>2. ASSUME NEW i \in 1 .. Len(R[Leader].log)
      PROVE  Has(T[Leader].log, i, R[Leader].log[i])
  <2>1. Has(S[Leader].log, i, R[Leader].log[i])
    BY DEF Grows
  <2> QED
    BY <2>1 DEF Grows, Has
<1>3. Len(R[Leader].log) <= Len(T[Leader].log)
  BY <1>1 DEF Grows
<1>4. ASSUME NEW r \in Replicas
      PROVE  /\ R[r].lastCommitted <= T[r].lastCommitted
             /\ Len(R[r].log) <= Len(T[r].log)
  <2>1. /\ R[r].lastCommitted <= S[r].lastCommitted
        /\ S[r].lastCommitted <= T[r].lastCommitted
        /\ Len(R[r].log) <= Len(S[r].log) /\ Len(S[r].log) <= Len(T[r].log)
    BY DEF Grows
  <2>2. Len(R[r].log) \in Int /\ Len(S[r].log) \in Int /\ Len(T[r].log) \in Int
    BY <1>1
  <2>3. /\ R[r].lastCommitted \in Int /\ S[r].lastCommitted \in Int
        /\ T[r].lastCommitted \in Int
    BY <1>1
  <2>4. R[r].lastCommitted <= T[r].lastCommitted
    BY <2>1, <2>3, AtMostTransitive
  <2>5. Len(R[r].log) <= Len(T[r].log)
    BY <2>1, <2>2, AtMostTransitive
  <2> QED
    BY <2>4, <2>5
<1>5. ASSUME NEW r \in Replicas, NEW i \in 1 .. Len(R[r].log)
      PROVE  T[r].log[i] = R[r].log[i] \/ Has(T[Leader].log, i, T[r].log[i])
  <2>1. i \in 1 .. Len(S[r].log)
    BY <1>1 DEF Grows
  <2>2. CASE S[r].log[i] = R[r].log[i]
    BY <2>1, <2>2 DEF Grows
  <2>3. CASE Has(S[Leader].log, i, S[r].log[i])
    BY <2>1, <2>3 DEF Grows, Has
  <2> QED
    BY <2>2, <2>3 DEF Grows
<1> QED
  BY <1>2, <1>3, <1>4, <1>5 DEF Grows

\* What a message says stays so while the logs grow.
LEMMA MessageStable ==
  ASSUME NEW R \in States, NEW S \in States, Grows(R, S),
         NEW m \in Message, MessageTrue(R, m)
  PROVE  MessageTrue(S, m)
<1> USE Constants
<1>1. \A r \in Replicas : /\ R[r].log \in Seq(Req) /\ R[r].lastCommitted \in Nat
                         /\ S[r].log \in Seq(Req) /\ S[r].lastCommitted \in Nat
  BY DEF States, State
<1>2. CASE m \in PrepareOKType
  <2>1. m.type = "PrepareOK" /\ m.from \in Followers
    BY <1>2 DEF PrepareOKType
  <2>2. m.opnum \in 1 .. Len(R[m.from].log)
    BY <2>1 DEF MessageTrue
  <2>3. m.opnum \in 1 .. Len(S[m.from].log)
    BY <1>1, <2>1, <2>2 DEF Grows
  <2>4. \/ ~m.slowpath /\ S[m.from].log[m.opnum] = m.req
        \/ Has(S[Leader].log, m.opnum, S[m.from].log[m.opnum])
    <3>1. CASE Has(S[Leader].log, m.opnum, S[m.from].log[m.opnum])
      BY <3>1
    <3>2. CASE S[m.from].log[m.opnum] = R[m.from].log[m.opnum]
      BY <1>1, <2>1, <3>2 DEF MessageTrue, Grows, Has
    <3> QED
      BY <2>1, <2>2, <3>1, <3>2 DEF Grows
  <2> QED
    BY <2>1, <2>3, <2>4 DEF MessageTrue
<1>3. CASE m.type \in {"Prepare", "Commit", "Reply"}
  <2>1. m.opnum <= R[Leader].lastCommitted => m.opnum <= S[Leader].lastCommitted
    BY <1>1, <1>3 DEF Message, PrepareType, PrepareOKType, Grows
  <2> QED
    BY <1>3, <2>1 DEF MessageTrue, Grows, Has
<1>4. CASE m.type = "RequestStateTransfer"
  <2>1. m.opnum \in Nat /\ m.from \in Followers
    BY <1>4 DEF Message, PrepareType, PrepareOKType
  <2> QED
    BY <1>1, <1>4, <2>1 DEF MessageTrue, Grows
<1>5. CASE m.type = "StateTransfer"
  <2>1. /\ m.opnum \in Nat /\ m.begin \in Nat /\ m.entries \in Seq(Req)
        /\ m.to \in Followers
    BY <1>5 DEF Message, PrepareType, PrepareOKType
  <2>2. ASSUME NEW i \in 1 .. Len(m.entries)
        PROVE  m.entries[i] = S[Leader].log[m.begin + i]
    <3>1. m.begin + i \in 1 .. Len(R[Leader].log)
      <4>1. m.begin + Len(m.entries) <= Len(R[Leader].log)
        BY <1>5 DEF MessageTrue
      <4>2. Len(R[Leader].log) \in Nat /\ Len(m.entries) \in Nat
        BY <1>1, <2>1
      <4> QED
        BY <2>1, <4>1, <4>2
    <3> QED
      BY <1>5, <3>1 DEF MessageTrue, Grows, Has
  <2>3. /\ m.begin <= S[m.to].lastCommitted
        /\ m.begin + Len(m.entries) <= Len(S[Leader].log)
        /\ m.opnum <= S[Leader].lastCommitted
        /\ m.opnum <= m.begin + Len(m.entries)
    <3>1. /\ m.begin <= R[m.to].lastCommitted
          /\ m.begin + Len(m.entries) <= Len(R[Leader].log)
          /\ m.opnum <= R[Leader].lastCommitted
          /\ m.opnum <= m.begin + Len(m.entries)
      BY <1>5 DEF MessageTrue
    <3>2. /\ R[m.to].lastCommitted <= S[m.to].lastCommitted
          /\ R[Leader].lastCommitted <= S[Leader].lastCommitted
          /\ Len(R[Leader].log) <= Len(S[Leader].log)
      BY <1>1, <2>1 DEF Grows
    <3>3. /\ R[m.to].lastCommitted \in Int /\ S[m.to].lastCommitted \in Int
          /\ R[Leader].lastCommitted \in Int /\ S[Leader].lastCommitted \in Int
          /\ Len(R[Leader].log) \in Int /\ Len(S[Leader].log) \in Int
      BY <1>1, <2>1
    <3>4. m.begin \in Int /\ m.opnum \in Int /\ Len(m.entries) \in Nat
      BY <2>1
    <3> DEFINE last == m.begin + Len(m.entries)
    <3>5. last \in Int
      BY <3>4
    <3>6. last <= Len(R[Leader].log)
      BY <3>1
    <3> HIDE DEF last
    <3>7. last <= Len(S[Leader].log)
      BY <3>2, <3>3, <3>5, <3>6, AtMostTransitive
    <3>8. m.begin <= S[m.to].lastCommitted
      BY <3>1, <3>2, <3>3, <3>4, AtMostTransitive
    <3>9. m.opnum <= S[Leader].lastCommitted
      BY <3>1, <3>2, <3>3, <3>4, AtMostTransitive
    <3> QED
      BY <3>1, <3>7, <3>8, <3>9 DEF last
  <2> QED
    BY <1>5, <2>2, <2>3 DEF MessageTrue
<1>6. CASE m.type \in {"Request", "UnloggedRequest", "UnloggedReply"}
  BY <1>6 DEF MessageTrue
<1> QED
  BY <1>2, <1>3, <1>4, <1>5, <1>6 DEF Message, PrepareType

\* The replicas that hold an entry can be counted.
LEMMA HoldersFinite ==
  ASSUME NEW R, NEW op
  PROVE  IsFiniteSet(Holders(R, op)) /\ Cardinality(Holders(R, op)) \in Nat
<1>1. IsFiniteSet(Replicas)
  BY Constants, FS_Singleton, FS_Union DEF Replicas
<1>2. Holders(R, op) \in SUBSET Replicas
  BY DEF Holders
<1>3. IsFiniteSet(Holders(R, op))
  BY <1>1, <1>2, FS_Subset
<1> QED
  BY <1>3, FS_CardinalityType

\* While the logs grow, an entry of the leader's loses no holder.
LEMMA HoldersGrow ==
  ASSUME NEW R \in States, NEW S \in States, Grows(R, S),
         NEW op \in 1 .. Len(R[Leader].log)
  PROVE  Cardinality(Holders(R, op)) <= Cardinality(Holders(S, op))
<1> USE Constants
<1>1. \A r \in Replicas : R[r].log \in Seq(Req) /\ S[r].log \in Seq(Req)
  BY DEF States, State
<1>2. Has(S[Leader].log, op, R[Leader].log[op])
  BY DEF Grows
<1>3. ASSUME NEW r \in Holders(R, op)
      PROVE  r \in Holders(S, op)
  <2>1. r \in Replicas /\ Has(R[r].log, op, R[Leader].log[op])
    BY DEF Holders
  <2>2. op \in 1 .. Len(R[r].log) /\ op \in 1 .. Len(S[r].log)
    BY <1>1, <2>1 DEF Has, Grows
  <2>3. S[r].log[op] = S[Leader].log[op]
    BY <1>2, <2>1, <2>2 DEF Grows, Has
  <2> QED
    BY <2>1, <2>2, <2>3 DEF Holders, Has
<1>4. IsFiniteSet(Holders(S, op))
  BY HoldersFinite
<1> QED
  BY <1>3, <1>4, FS_Subset, Holders(R, op) \in SUBSET Holders(S, op)

\* The states R with t in the place of r's.
Put(R, r, t) == [R EXCEPT ![r] = t]

\* Put changes one state.
LEMMA PutFacts ==
  ASSUME NEW R \in States, NEW r \in Replicas, NEW t \in State
  PROVE  /\ Put(R, r, t) \in States /\ Put(R, r, t)[r] = t
         /\ \A p \in Replicas : p # r => Put(R, r, t)[p] = R[p]
BY DEF Put, States

\* The entries of t are those of s, longer or replaced by the leader's.
Keeps(lead, s, t) ==
  /\ s.lastCommitted <= t.lastCommitted /\ Len(s.log) <= Len(t.log)
  /\ \A i \in 1 .. Len(s.log) : t.log[i] = s.log[i] \/ Has(lead.log, i, t.log[i])

\* To show that a follower may go on to state t.
LEMMA FollowerStep ==
  ASSUME NEW R, ReplicasOK(R), NEW r \in Followers, NEW t \in State,
         LocalOK(t), FollowerOK(R[Leader], t), Keeps(R[Leader], R[r], t),
         \A m \in t.out : m \in R[r].out \/ MessageTrue(Put(R, r, t), m)
  PROVE  ReplicasOK(Put(R, r, t)) /\ Grows(R, Put(R, r, t))
<1> USE Constants
<1> DEFINE S == Put(R, r, t)
<1>1. R \in States /\ S \in States /\ S[r] = t /\ S[Leader] = R[Leader]
  BY PutFacts DEF ReplicasOK
<1>2. \A p \in Replicas : p # r => S[p] = R[p]
  BY PutFacts DEF ReplicasOK
<1>3. \A p \in Replicas : R[p] \in State /\ R[p].log \in Seq(Req)
                         /\ R[p].lastCommitted \in Nat /\ R[p].out \subseteq Message
  BY <1>1 DEF States, State
<1> HIDE DEF S
<1>4. Grows(R, S)
  <2>1. \A i \in 1 .. Len(R[Leader].log) : Has(R[Leader].log, i, R[Leader].log[i])
    BY DEF Has
  <2>2. ASSUME NEW p \in Replicas
        PROVE  /\ R[p].lastCommitted <= S[p].lastCommitted
               /\ Len(R[p].log) <= Len(S[p].log)
               /\ \A i \in 1 .. Len(R[p].log) :
                    S[p].log[i] = R[p].log[i] \/ Has(S[Leader].log, i, S[p].log[i])
    <3>1. CASE p = r
      BY <1>1, <3>1 DEF Keeps
    <3>2. CASE p # r
      BY <1>2, <1>3, <3>2
    <3> QED
      BY <3>1, <3>2
  <2> QED
    BY <1>1, <1>3, <2>1, <2>2 DEF Grows
<1>5. \A p \in Replicas : LocalOK(S[p])
  BY <1>1, <1>2 DEF ReplicasOK
<1>6. \A p \in Followers : FollowerOK(S[Leader], S[p])
  BY <1>1, <1>2 DEF ReplicasOK
<1>7. LeaderOK(S)
  <2>1. LeaderOK(R)
    BY DEF ReplicasOK
  <2>2. ASSUME NEW m \in S[Leader].pendingOKs
        PROVE  MessageTrue(S, m)
    <3>1. m \in Message
      BY <1>1, <1>3 DEF State, Message
    <3> QED
      BY <1>1, <1>4, <2>1, <3>1, MessageStable DEF LeaderOK
  <2>3. ASSUME NEW x \in S[Leader].oks
        PROVE  Has(S[x.from].log, x.opnum, S[Leader].log[x.opnum])
    <3>1. x.from \in Followers
      BY <1>1, <1>3 DEF State, OKType
    <3>2. Has(R[x.from].log, x.opnum, R[Leader].log[x.opnum])
      BY <1>1, <2>1 DEF LeaderOK
    <3>3. CASE x.from # r
      BY <1>1, <1>2, <3>1, <3>2, <3>3
    <3>4. CASE x.from = r
      <4>1. x.opnum \in 1 .. Len(R[r].log)
        BY <3>2, <3>4 DEF Has
      <4>2. x.opnum \in 1 .. Len(t.log)
        BY <1>3, <4>1 DEF Keeps, State
      <4> QED
        BY <1>1, <3>2, <3>4, <4>1, <4>2 DEF Keeps, Has
    <3> QED
      BY <3>3, <3>4
  <2> QED
    BY <1>1, <2>1, <2>2, <2>3 DEF LeaderOK
<1>8. QuorumOK(S)
  <2>1. CASE R[Leader].lastCommitted = 0
    BY <1>1, <2>1 DEF QuorumOK
  <2>2. CASE R[Leader].lastCommitted # 0
    <3> DEFINE op == R[Leader].lastCommitted
    <3>1. op \in 1 .. Len(R[Leader].log)
      BY <1>3, <2>2, Places DEF ReplicasOK
    <3>2. Cardinality(Holders(R, op)) <= Cardinality(Holders(S, op))
      BY <1>1, <1>4, <3>1, HoldersGrow
    <3>3. Cardinality(Holders(R, op)) >= F + 1
      BY <3>1 DEF ReplicasOK, QuorumOK
    <3>4. Cardinality(Holders(R, op)) \in Nat /\ Cardinality(Holders(S, op)) \in Nat
      BY HoldersFinite
    <3> QED
      BY <1>1, <3>2, <3>3, <3>4 DEF QuorumOK
  <2> QED
    BY <2>1, <2>2
<1>9. ASSUME NEW p \in Replicas, NEW m \in S[p].out
      PROVE  MessageTrue(S, m)
  <2>1. m \in R[p].out \/ MessageTrue(S, m)
    BY <1>1, <1>2 DEF S
  <2>2. m \in R[p].out => MessageTrue(R, m) /\ m \in Message
    BY <1>3 DEF ReplicasOK
  <2> QED
    BY <1>1, <1>4, <2>1, <2>2, MessageStable
<1> QED
  BY <1>1, <1>4, <1>5, <1>6, <1>7, <1>8, <1>9 DEF ReplicasOK, S
\* The entries of the leader stay.
Extends(s, t) ==
  /\ s.lastCommitted <= t.lastCommitted /\ Len(s.log) <= Len(t.log)
  /\ \A i \in 1 .. Len(s.log) : t.log[i] = s.log[i]

\* To show that the leader may go on to state t.
LEMMA LeaderStep ==
  ASSUME NEW R, ReplicasOK(R), NEW t \in State, LocalOK(t),
         Extends(R[Leader], t),
         LeaderOK(Put(R, Leader, t)), QuorumOK(Put(R, Leader, t)),
         \A m \in t.out : m \in R[Leader].out \/ MessageTrue(Put(R, Leader, t), m)
  PROVE  ReplicasOK(Put(R, Leader, t)) /\ Grows(R, Put(R, Leader, t))
<1> USE Constants
<1> DEFINE S == Put(R, Leader, t)
<1>1. R \in States /\ S \in States /\ S[Leader] = t
  BY PutFacts DEF ReplicasOK
<1>2. \A p \in Followers : S[p] = R[p]
  BY PutFacts DEF ReplicasOK
<1>3. \A p \in Replicas : R[p] \in State
  BY <1>1 DEF States
<1> HIDE DEF S
<1>4. Grows(R, S)
  <2>1. \A i \in 1 .. Len(R[Leader].log) : Has(S[Leader].log, i, R[Leader].log[i])
    BY <1>1, <1>3, StateFields DEF Has, Extends
  <2>2. ASSUME NEW p \in Replicas
        PROVE  /\ R[p].lastCommitted <= S[p].lastCommitted
               /\ Len(R[p].log) <= Len(S[p].log)
               /\ \A i \in 1 .. Len(R[p].log) : S[p].log[i] = R[p].log[i]
    <3>1. CASE p = Leader
      BY <1>1, <3>1 DEF Extends
    <3>2. CASE p # Leader
      BY <1>2, <1>3, <3>2, StateFields
    <3> QED
      BY <3>1, <3>2
  <2> QED
    BY <2>1, <2>2 DEF Grows
<1>5. \A p \in Replicas : LocalOK(S[p])
  BY <1>1, <1>2 DEF ReplicasOK
<1>6. ASSUME NEW p \in Followers
      PROVE  FollowerOK(S[Leader], S[p])
  <2>1. S[p] = R[p] /\ FollowerOK(R[Leader], R[p]) /\ R[p] \in State
    BY <1>2, <1>3 DEF ReplicasOK
  <2>2. R[p].lastSlow <= Len(t.log) /\ R[p].lastCommitted <= t.lastCommitted
    <3>1. /\ R[p].lastSlow <= Len(R[Leader].log) /\ Len(R[Leader].log) <= Len(t.log)
          /\ R[p].lastCommitted <= R[Leader].lastCommitted
          /\ R[Leader].lastCommitted <= t.lastCommitted
      BY <2>1 DEF FollowerOK, Extends
    <3> QED
      BY <1>3, <2>1, <3>1, StateFields
  <2>3. ASSUME NEW i \in 1 .. R[p].lastSlow
        PROVE  R[p].log[i] = t.log[i]
    <3>1. i \in 1 .. Len(R[Leader].log)
      BY <1>3, <2>1, StateFields DEF FollowerOK
    <3> QED
      BY <2>1, <3>1 DEF FollowerOK, Extends
  <2>4. ASSUME NEW q \in R[p].pendingPrepares
        PROVE  Has(t.log, q.opnum, q.req)
    <3>1. Has(R[Leader].log, q.opnum, q.req)
      BY <2>1 DEF FollowerOK
    <3> QED
      BY <1>1, <1>4, <3>1 DEF Has, Grows
  <2> QED
    BY <1>1, <2>1, <2>2, <2>3, <2>4 DEF FollowerOK
<1>7. ASSUME NEW p \in Replicas, NEW m \in S[p].out
      PROVE  MessageTrue(S, m)
  <2>1. m \in R[p].out \/ MessageTrue(S, m)
    BY <1>1, <1>2 DEF S
  <2>2. m \in R[p].out => MessageTrue(R, m) /\ m \in Message
    BY <1>3, StateFields DEF ReplicasOK
  <2> QED
    BY <1>1, <1>4, <2>1, <2>2, MessageStable
<1> QED
  BY <1>1, <1>4, <1>5, <1>6, <1>7 DEF ReplicasOK, S

\* Replica r may go on to state t.
Fine(R, r, t) ==
  t \in State /\ ReplicasOK(Put(R, r, t)) /\ Grows(R, Put(R, r, t))

\* Two parts of a handler, each of which may be taken, make one.
LEMMA FineThenFine ==
  ASSUME NEW R, ReplicasOK(R), NEW r \in Replicas, NEW t, NEW u,
         Fine(R, r, t), Fine(Put(R, r, t), r, u)
  PROVE  Fine(R, r, u)
<1>1. R \in States /\ Put(R, r, t) \in States
  BY DEF ReplicasOK, Fine
<1>2. Put(Put(R, r, t), r, u) = Put(R, r, u)
  BY <1>1 DEF Put, States
<1>3. Put(R, r, u) \in States
  BY <1>1, PutFacts DEF Fine
<1> QED
  BY <1>1, <1>2, <1>3, GrowsTransitive DEF Fine

\* Doing nothing may be done.
LEMMA FineToStay ==
  ASSUME NEW R, ReplicasOK(R), NEW r \in Replicas
  PROVE  Fine(R, r, R[r])
<1>1. R \in States /\ R[r] \in State
  BY DEF ReplicasOK, States
<1>2. Put(R, r, R[r]) = R
  BY <1>1 DEF Put, States
<1>3. \A p \in Replicas : R[p] \in State
  BY <1>1 DEF States
<1>4. Grows(R, R)
  BY <1>3, StateFields, Constants DEF Grows, Has
<1> QED
  BY <1>1, <1>2, <1>4 DEF Fine

\* A handler that leaves the log and what is executed alone.
LEMMA Quiet ==
  ASSUME NEW R, ReplicasOK(R), NEW r \in Replicas, NEW t \in State,
         t.log = R[r].log, t.lastCommitted = R[r].lastCommitted,
         t.lastFast = R[r].lastFast, t.lastSlow = R[r].lastSlow,
         t.app = R[r].app, t.failed = R[r].failed,
         \A c \in Clients : /\ t.table[c].id >= R[r].table[c].id
                            /\ t.table[c].reply > 0 => t.table[c] = R[r].table[c],
         \A x \in t.oks :
           x \in R[r].oks \/ /\ Has(R[x.from].log, x.opnum, R[Leader].log[x.opnum])
                             /\ x.opnum <= Len(R[Leader].log),
         IsFiniteSet(t.pendingPrepares), IsFiniteSet(t.pendingOKs),
         \A m \in t.pendingPrepares : m \in R[r].pendingPrepares \/ MessageTrue(R, m),
         \A m \in t.pendingOKs : m \in R[r].pendingOKs \/ MessageTrue(R, m),
         \A m \in t.lastPrepare : m \in R[r].lastPrepare \/ MessageTrue(R, m),
         \A m \in t.out : m \in R[r].out \/ MessageTrue(R, m)
  PROVE  Fine(R, r, t)
<1> USE Constants
<1> DEFINE S == Put(R, r, t)
<1>1. R \in States /\ S \in States /\ S[r] = t /\ R[r] \in State
  BY PutFacts DEF ReplicasOK, States
<1>2. \A p \in Replicas : p # r => S[p] = R[p]
  BY PutFacts DEF ReplicasOK
<1>3. \A p \in Replicas : R[p] \in State /\ S[p] \in State
  BY <1>1 DEF States
<1> HIDE DEF S
<1>4. \A p \in Replicas : /\ S[p].log = R[p].log
                          /\ S[p].lastCommitted = R[p].lastCommitted
  BY <1>1, <1>2
<1>5. Grows(R, S)
  BY <1>3, <1>4, StateFields DEF Grows, Has
<1>6. \A m \in Message : MessageTrue(R, m) => MessageTrue(S, m)
  BY <1>1, <1>5, MessageStable
<1>7. \A m \in t.out : m \in R[r].out \/ MessageTrue(S, m)
  BY <1>6, StateFields
<1>8. LocalOK(t)
  <2>1. LocalOK(R[r])
    BY DEF ReplicasOK
  <2> QED
    BY <2>1 DEF LocalOK
<1>9. CASE r \in Followers
  <2>1. FollowerOK(R[Leader], R[r])
    BY <1>9 DEF ReplicasOK
  <2>2. \A p \in t.pendingPrepares : Has(R[Leader].log, p.opnum, p.req)
    <3>1. \A p \in t.pendingPrepares : p.type = "Prepare"
      BY StateFields DEF PrepareType
    <3> QED
      BY <2>1, <3>1 DEF FollowerOK, MessageTrue
  <2>3. FollowerOK(R[Leader], t)
    BY <2>1, <2>2 DEF FollowerOK
  <2>4. Keeps(R[Leader], R[r], t)
    BY <1>1, StateFields DEF Keeps
  <2> QED
    BY <1>7, <1>8, <1>9, <2>3, <2>4, FollowerStep DEF Fine, S
<1>10. CASE r = Leader
  <2>1. LeaderOK(R)
    BY DEF ReplicasOK
  <2>2. Extends(R[Leader], t)
    BY <1>1, <1>10, StateFields DEF Extends
  <2>3. LeaderOK(S)
    <3>1. S[Leader] = t
      BY <1>1, <1>10
    <3>2. t.lastSlow = t.lastFast
      BY <1>10, <2>1 DEF LeaderOK
    <3>3. ASSUME NEW i \in 1 .. Len(t.log)
          PROVE  t.log[i].id <= t.table[t.log[i].client].id
      <4>1. t.log[i] \in Req
        BY StateFields
      <4>2. t.log[i].id \in Nat /\ t.log[i].client \in Clients
        BY <4>1 DEF Req
      <4>3. /\ t.table[t.log[i].client].id \in Nat
            /\ R[r].table[t.log[i].client].id \in Nat
        BY <1>1, <4>2, StateFields
      <4>4. t.log[i].id <= R[r].table[t.log[i].client].id
        BY <1>10, <2>1 DEF LeaderOK
      <4>5. t.table[t.log[i].client].id >= R[r].table[t.log[i].client].id
        BY <4>2
      <4> DEFINE x == t.log[i].id
                 y == R[r].table[t.log[i].client].id
                 z == t.table[t.log[i].client].id
      <4>6. x \in Nat /\ y \in Nat /\ z \in Nat
        BY <4>2, <4>3
      <4>7. x <= y /\ z >= y
        BY <4>4, <4>5, Zenon
      <4> HIDE DEF x, y, z
      <4>8. x <= z
        BY <4>6, <4>7
      <4> QED
        BY <4>8 DEF x, z
    <3>4. \A i, j \in 1 .. Len(t.log) : t.log[i] = t.log[j] => i = j
      BY <1>10, <2>1 DEF LeaderOK
    <3>5. ASSUME NEW p \in t.lastPrepare
          PROVE  Has(t.log, p.opnum, p.req)
      <4>1. p.type = "Prepare"
        BY StateFields DEF PrepareType
      <4> QED
        BY <1>10, <2>1, <4>1 DEF LeaderOK, MessageTrue
    <3>6. ASSUME NEW m \in t.pendingOKs
          PROVE  MessageTrue(S, m)
      <4>1. m \in Message
        BY StateFields
      <4> QED
        BY <1>6, <1>10, <2>1, <4>1 DEF LeaderOK
    <3>7. ASSUME NEW x \in t.oks
          PROVE  Has(S[x.from].log, x.opnum, t.log[x.opnum]) /\ x.opnum <= Len(t.log)
      <4>1. x.from \in Replicas
        BY StateFields DEF OKType
      <4> QED
        BY <1>4, <1>10, <2>1, <4>1 DEF LeaderOK
    <3> QED
      BY <3>1, <3>2, <3>3, <3>4, <3>5, <3>6, <3>7 DEF LeaderOK
  <2>4. QuorumOK(S)
    <3>1. S[Leader].lastCommitted = R[Leader].lastCommitted
      BY <1>4
    <3>2. Holders(S, R[Leader].lastCommitted) = Holders(R, R[Leader].lastCommitted)
      BY <1>4 DEF Holders
    <3> QED
      BY <3>1, <3>2 DEF ReplicasOK, QuorumOK
  <2> QED
    BY <1>7, <1>8, <1>10, <2>2, <2>3, <2>4, LeaderStep DEF Fine, S
<1> QED
  BY <1>9, <1>10

-----------------------------------------------------------------------------
(* The operators handlers are made of.                                       *)

\* Emit adds to the messages a handler sends and does nothing else.
LEMMA EmitFields ==
  ASSUME NEW s \in State, NEW out \in SUBSET Message
  PROVE  /\ Emit(s, out) \in State /\ Emit(s, out).out = s.out \cup out
         /\ \E o \in SUBSET Message : Emit(s, out) = [s EXCEPT !.out = o]
BY DEF Emit, State

\* Sending what is so.
LEMMA EmitFine ==
  ASSUME NEW R, ReplicasOK(R), NEW r \in Replicas, NEW out \in SUBSET Message,
         \A m \in out : MessageTrue(R, m)
  PROVE  Fine(R, r, Emit(R[r], out))
<1> DEFINE t == Emit(R[r], out)
<1>1. R[r] \in State
  BY DEF ReplicasOK, States
<1>2. t \in State
  BY <1>1, EmitFields
<1>3. /\ t.log = R[r].log /\ t.lastCommitted = R[r].lastCommitted
      /\ t.lastFast = R[r].lastFast /\ t.lastSlow = R[r].lastSlow
      /\ t.app = R[r].app /\ t.failed = R[r].failed /\ t.table = R[r].table
      /\ t.oks = R[r].oks /\ t.pendingPrepares = R[r].pendingPrepares
      /\ t.pendingOKs = R[r].pendingOKs /\ t.lastPrepare = R[r].lastPrepare
      /\ t.out = R[r].out \cup out
  BY <1>1 DEF Emit, State
<1>4. \A c \in Clients : t.table[c].id >= R[r].table[c].id
  <2>1. \A c \in Clients : R[r].table[c].id \in Nat
    BY <1>1, StateFields
  <2> QED
    BY <1>3, <2>1
<1> HIDE DEF t
<1>5. IsFiniteSet(t.pendingPrepares) /\ IsFiniteSet(t.pendingOKs)
  BY <1>3 DEF ReplicasOK, LocalOK
<1>6. Fine(R, r, t)
  BY <1>2, <1>3, <1>4, <1>5, Quiet
<1> QED
  BY <1>6 DEF t

\* UpdateClientTable writes the table only, never back to an earlier request,
\* and forgets the reply with the request it was for.
LEMMA UpdateClientTableFields ==
  ASSUME NEW s \in State, NEW reqs \in SUBSET Req
  PROVE  LET t == UpdateClientTable(s, reqs)
         IN  /\ t.table \in [Clients -> [id : Nat, reply : Nat]]
             /\ t = [s EXCEPT !.table = t.table]
             /\ \A c \in Clients :
                  /\ t.table[c].id >= s.table[c].id
                  /\ t.table[c].reply > 0 => t.table[c] = s.table[c]
             /\ \A q \in reqs : q.id <= t.table[q.client].id
<1> USE Constants
<1> DEFINE Ids(c) == {q.id : q \in {x \in reqs : x.client = c}}
           New(c) == IF \E i \in Ids(c) : i > s.table[c].id
                     THEN [id |-> Max(Ids(c)), reply |-> 0] ELSE s.table[c]
           table == [c \in Clients |-> New(c)]
           t == UpdateClientTable(s, reqs)
<1>1. t = [s EXCEPT !.table = table]
  BY DEF UpdateClientTable
<1>2. t.table = table /\ t = [s EXCEPT !.table = t.table]
  BY <1>1 DEF State
<1>3. \A c \in Clients : s.table[c] \in [id : Nat, reply : Nat]
  BY StateFields
<1>4. \A q \in reqs : q.id \in Nat /\ q.id <= MaxReq /\ q.client \in Clients
  BY DEF Req
<1>5. ASSUME NEW c \in Clients
      PROVE  /\ New(c) \in [id : Nat, reply : Nat]
             /\ New(c).id >= s.table[c].id
             /\ New(c).reply > 0 => New(c) = s.table[c]
             /\ \A i \in Ids(c) : i <= New(c).id
  <2>1. Ids(c) \in SUBSET Nat /\ \A i \in Ids(c) : i <= MaxReq
    BY <1>4
  <2> HIDE DEF Ids
  <2>2. CASE \E i \in Ids(c) : i > s.table[c].id
    <3>1. PICK i \in Ids(c) : i > s.table[c].id
      BY <2>2
    <3>2. Max(Ids(c)) \in Ids(c) /\ \A y \in Ids(c) : y <= Max(Ids(c))
      BY <2>1, <3>1, MaxIsLargest
    <3>3. New(c) = [id |-> Max(Ids(c)), reply |-> 0]
      BY <2>2
    <3>4. Max(Ids(c)) \in Nat /\ i \in Nat /\ i <= Max(Ids(c))
      BY <2>1, <3>1, <3>2
    <3> QED
      BY <1>3, <3>1, <3>2, <3>3, <3>4
  <2>3. CASE \A i \in Ids(c) : ~(i > s.table[c].id)
    <3>1. New(c) = s.table[c]
      BY <2>3
    <3> QED
      BY <1>3, <2>1, <2>3, <3>1
  <2> QED
    BY <2>2, <2>3
<1>6. ASSUME NEW q \in reqs
      PROVE  q.id <= t.table[q.client].id
  <2>1. q.client \in Clients /\ q.id \in Ids(q.client)
    BY <1>4
  <2> HIDE DEF Ids, New
  <2> QED
    BY <1>2, <1>5, <2>1
<1> HIDE DEF New, t
<1>7. t.table \in [Clients -> [id : Nat, reply : Nat]]
  BY <1>2, <1>5
<1>8. \A c \in Clients :
        /\ t.table[c].id >= s.table[c].id
        /\ t.table[c].reply > 0 => t.table[c] = s.table[c]
  BY <1>2, <1>5
<1> QED
  BY <1>2, <1>6, <1>7, <1>8 DEF t

\* CommitUpTo within the log: places move, the log and what waits do not, and
\* the replies are for what is executed.
LEMMA CommitUpToFields ==
  ASSUME NEW s \in State, LocalOK(s), NEW upto \in 0 .. Len(s.log)
  PROVE  LET t == CommitUpTo(s, upto)
         IN  /\ t \in State /\ LocalOK(t)
             /\ t.log = s.log /\ t.lastFast = s.lastFast /\ t.addrs = s.addrs
             /\ t.lastCommitted = Larger(s.lastCommitted, upto)
             /\ t.lastSlow = Larger(s.lastSlow, upto)
             /\ t.oks \subseteq s.oks /\ t.lastPrepare = s.lastPrepare
             /\ t.pendingPrepares = s.pendingPrepares
             /\ t.pendingOKs = s.pendingOKs
             /\ \A c \in Clients : t.table[c].id >= s.table[c].id
             /\ \A m \in t.out :
                  \/ m \in s.out
                  \/ /\ m.type = "Reply" /\ Has(s.log, m.opnum, m.req)
                     /\ m.opnum <= t.lastCommitted
<1>0. /\ s.lastCommitted \in Nat /\ s.lastFast \in Nat /\ s.lastSlow \in Nat
      /\ s.log \in Seq(Req) /\ Len(s.log) \in Nat
      /\ s.table \in [Clients -> [id : Nat, reply : Nat]]
      /\ s.lastFast = Len(s.log) /\ s.lastSlow \in 0 .. Len(s.log)
      /\ s.lastCommitted \in 0 .. s.lastSlow
      /\ s.lastCommitted \in 0 .. Len(s.log)
  BY StateFields, Places
<1> USE <1>0
<1> DEFINE ops == (s.lastCommitted + 1) .. upto
           Mine(c) == {op \in ops : s.log[op].client = c}
           Latest(c) == {op \in Mine(c) :
                           /\ s.log[op].id >= s.table[c].id
                           /\ \A o \in Mine(c) : s.log[o].id <= s.log[op].id}
           Entry(c) == LET op == Max(Latest(c))
                       IN  [id |-> s.log[op].id, reply |-> op]
           New(c) == IF Latest(c) = {} THEN s.table[c] ELSE Entry(c)
           table == [c \in Clients |-> New(c)]
           u == [s EXCEPT
                   !.lastCommitted = upto, !.lastSlow = Larger(@, upto),
                   !.oks = {x \in @ : x.opnum > upto},
                   !.app = @ \o SubSeq(s.log, s.lastCommitted + 1, upto),
                   !.table = table]
           replies == {ReplyMessage(op, s.log[op]) :
                         op \in {o \in ops : s.log[o].client \in s.addrs}}
<1>1. CASE upto <= s.lastCommitted
  <2>1. CommitUpTo(s, upto) = s
    BY <1>1 DEF CommitUpTo
  <2>2. Larger(s.lastCommitted, upto) = s.lastCommitted
    BY <1>1 DEF Larger
  <2>3. Larger(s.lastSlow, upto) = s.lastSlow
    BY <1>1 DEF Larger
  <2>4. \A c \in Clients : s.table[c].id \in Nat
    OBVIOUS
  <2> QED
    BY <2>1, <2>2, <2>3, <2>4
<1>2. CASE ~(upto <= s.lastCommitted)
  <2>1. CommitUpTo(s, upto) = Emit(u, replies)
    <3>1. ~(upto > Len(s.log) \/ upto > s.lastFast)
      OBVIOUS
    <3> QED
      BY <1>2, <3>1, Zenon DEF CommitUpTo
  <2>2. \A op \in ops : op \in 1 .. Len(s.log) /\ op \in Nat /\ op <= upto
    <3>1. /\ s.lastCommitted \in Nat /\ Len(s.log) \in Nat /\ upto \in Nat
          /\ upto <= Len(s.log)
      OBVIOUS
    <3>2. ops = (s.lastCommitted + 1) .. upto
      OBVIOUS
    <3> HIDE DEF ops
    <3> QED
      BY <3>1, <3>2
  <2>3. \A op \in ops : s.log[op] \in Req
    BY <2>2
  <2>4. ASSUME NEW c \in Clients
        PROVE  /\ New(c) \in [id : Nat, reply : Nat]
               /\ New(c).id >= s.table[c].id
               /\ New(c).reply > 0 =>
                    /\ New(c).reply <= upto
                    /\ s.log[New(c).reply] = [client |-> c, id |-> New(c).id]
    <3>1. s.table[c] \in [id : Nat, reply : Nat]
      OBVIOUS
    <3>2. CASE Latest(c) = {}
      <4>1. New(c) = s.table[c]
        BY <3>2
      <4>2. s.table[c].reply > 0 =>
              /\ s.table[c].reply <= s.lastCommitted
              /\ s.log[s.table[c].reply] = [client |-> c, id |-> s.table[c].id]
        BY DEF LocalOK
      <4> HIDE DEF New, Latest
      <4> QED
        BY <1>2, <3>1, <4>1, <4>2
    <3>3. CASE Latest(c) # {}
      <4> DEFINE op == Max(Latest(c))
      <4>1. Latest(c) \in SUBSET Nat /\ \A x \in Latest(c) : x <= upto
        BY <2>2
      <4>2. op \in Latest(c)
        <5> HIDE DEF Latest
        <5>1. upto \in Nat
          OBVIOUS
        <5> QED
          BY <3>3, <4>1, <5>1, MaxIsLargest
      <4>3. New(c) = [id |-> s.log[op].id, reply |-> op]
        BY <3>3
      <4> HIDE DEF op
      <4>4. /\ op \in ops /\ s.log[op] \in Req /\ s.log[op].client = c
            /\ s.log[op].id >= s.table[c].id /\ op \in Nat /\ op <= upto
        BY <2>2, <2>3, <4>2
      <4>5. s.log[op].id \in Nat /\ s.log[op] = [client |-> c, id |-> s.log[op].id]
        BY <4>4 DEF Req
      <4> HIDE DEF New, Latest, ops
      <4> QED
        BY <4>3, <4>4, <4>5
    <3> QED
      BY <3>2, <3>3
  <2> HIDE DEF New
  <2>5. table \in [Clients -> [id : Nat, reply : Nat]]
    BY <2>4
  <2>6. s.app \o SubSeq(s.log, s.lastCommitted + 1, upto) = SubSeq(s.log, 1, upto)
    <3>1. s.app = SubSeq(s.log, 1, s.lastCommitted)
      BY DEF LocalOK
    <3>2. /\ 1 \in 1 .. Len(s.log) + 1 /\ s.lastCommitted \in 1 - 1 .. Len(s.log)
          /\ upto \in s.lastCommitted .. Len(s.log)
      BY <1>2
    <3> QED
      BY <3>1, <3>2, ConcatAdjacentSubSeq
  <2>7. SubSeq(s.log, 1, upto) \in Seq(Req)
    <3>1. \A i \in 1 .. upto : s.log[i] \in Req
      OBVIOUS
    <3> QED
      BY <3>1, SubSeqProperties
  <2> HIDE DEF table
  <2>8. Larger(s.lastCommitted, upto) = upto /\ Larger(s.lastSlow, upto) \in Nat
    BY <1>2 DEF Larger
  <2>9. /\ u.lastCommitted = upto /\ u.lastSlow = Larger(s.lastSlow, upto)
        /\ u.lastFast = s.lastFast /\ u.log = s.log /\ u.addrs = s.addrs
        /\ u.app = SubSeq(s.log, 1, upto) /\ u.table = table
        /\ u.oks \subseteq s.oks /\ u.lastPrepare = s.lastPrepare
        /\ u.pendingPrepares = s.pendingPrepares
        /\ u.pendingOKs = s.pendingOKs /\ u.failed = s.failed /\ u.out = s.out
    BY <2>6 DEF State
  <2>10. u \in State
    <3> DEFINE oks == {x \in s.oks : x.opnum > upto}
               app == s.app \o SubSeq(s.log, s.lastCommitted + 1, upto)
    <3>1. oks \in SUBSET OKType /\ app \in Seq(Req) /\ upto \in Nat
      BY <2>6, <2>7, StateFields
    <3>2. u = [s EXCEPT !.lastCommitted = upto, !.lastSlow = Larger(@, upto),
                        !.oks = oks, !.app = app, !.table = table]
      OBVIOUS
    <3> HIDE DEF oks, app, u
    <3> QED
      BY <2>5, <2>8, <3>1, <3>2 DEF State
  <2> HIDE DEF u
  <2>11. ASSUME NEW m \in replies
         PROVE  /\ m \in Message /\ m.type = "Reply" /\ Has(s.log, m.opnum, m.req)
                /\ m.opnum <= upto
    <3>1. PICK op \in ops : m = ReplyMessage(op, s.log[op])
      OBVIOUS
    <3>2. op \in Nat /\ op \in 1 .. Len(s.log) /\ op <= upto /\ s.log[op] \in Req
      BY <2>2, <2>3, <3>1
    <3> HIDE DEF replies, ops
    <3> QED
      BY <3>1, <3>2 DEF ReplyMessage, Message, Has
  <2> HIDE DEF replies, ops
  <2> DEFINE t == Emit(u, replies)
  <2>12. /\ t \in State /\ t.out = s.out \cup replies
         /\ t.lastCommitted = upto /\ t.lastSlow = Larger(s.lastSlow, upto)
         /\ t.lastFast = s.lastFast /\ t.log = s.log /\ t.addrs = s.addrs
         /\ t.app = SubSeq(s.log, 1, upto) /\ t.table = table
         /\ t.oks \subseteq s.oks /\ t.lastPrepare = s.lastPrepare
         /\ t.pendingPrepares = s.pendingPrepares
         /\ t.pendingOKs = s.pendingOKs /\ t.failed = s.failed
    BY <2>9, <2>10, <2>11 DEF Emit, State
  <2> HIDE DEF t
  <2>13. LocalOK(t)
    <3>1. \A c \in Clients : t.table[c] = New(c)
      BY <2>12 DEF table
    <3>2. t.lastCommitted <= t.lastSlow /\ t.lastSlow <= t.lastFast
      BY <2>12 DEF Larger
    <3>3. /\ t.failed = "" /\ t.lastFast = Len(t.log)
          /\ IsFiniteSet(t.pendingPrepares) /\ IsFiniteSet(t.pendingOKs)
      BY <2>12 DEF LocalOK
    <3> QED
      BY <2>4, <2>12, <3>1, <3>2, <3>3 DEF LocalOK
  <2>14. \A c \in Clients : t.table[c].id >= s.table[c].id
    BY <2>4, <2>12 DEF table
  <2> QED
    BY <2>1, <2>8, <2>11, <2>12, <2>13, <2>14 DEF t
<1> QED
  BY <1>1, <1>2

\* The leader executes up to a place a quorum holds.
LEMMA LeaderCommits ==
  ASSUME NEW R, ReplicasOK(R), NEW upto \in 1 .. Len(R[Leader].log),
         Cardinality(Holders(R, upto)) >= F + 1
  PROVE  Fine(R, Leader, CommitUpTo(R[Leader], upto))
<1> USE Constants
<1> DEFINE s == R[Leader]
           t == CommitUpTo(s, upto)
           S == Put(R, Leader, t)
<1>1. R \in States /\ s \in State /\ LocalOK(s) /\ LeaderOK(R)
  BY DEF ReplicasOK, States
<1>2. /\ s.lastCommitted \in 0 .. Len(s.log) /\ Len(s.log) \in Nat
      /\ s.lastSlow = Len(s.log) /\ s.log \in Seq(Req)
  BY <1>1, StateFields, Places DEF LeaderOK
<1>3. upto \in 0 .. Len(s.log)
  BY <1>2
<1>4. /\ t \in State /\ LocalOK(t) /\ t.log = s.log /\ t.lastFast = s.lastFast
      /\ t.lastCommitted = Larger(s.lastCommitted, upto)
      /\ t.lastSlow = Larger(s.lastSlow, upto)
      /\ t.oks \subseteq s.oks /\ t.lastPrepare = s.lastPrepare
      /\ t.pendingOKs = s.pendingOKs
      /\ \A c \in Clients : t.table[c].id >= s.table[c].id
      /\ \A m \in t.out : \/ m \in s.out
                          \/ /\ m.type = "Reply" /\ Has(s.log, m.opnum, m.req)
                             /\ m.opnum <= t.lastCommitted
  BY <1>1, <1>3, CommitUpToFields
<1>5. s.lastCommitted <= t.lastCommitted /\ t.lastSlow = s.lastSlow
  BY <1>2, <1>4 DEF Larger
<1> HIDE DEF s, t
<1>6. S \in States /\ S[Leader] = t /\ \A p \in Replicas : p # Leader => S[p] = R[p]
  BY <1>1, <1>4, PutFacts DEF s
<1> HIDE DEF S
<1>7. \A p \in Replicas : S[p].log = R[p].log
  BY <1>4, <1>6 DEF s
<1>8. Extends(R[Leader], t)
  BY <1>2, <1>4, <1>5 DEF Extends, s
<1>9. LeaderOK(S)
  <2>1. t.lastSlow = t.lastFast
    BY <1>1, <1>4, <1>5 DEF LeaderOK, s
  <2>2. ASSUME NEW i \in 1 .. Len(t.log)
        PROVE  t.log[i].id <= t.table[t.log[i].client].id
    <3>1. t.log[i] \in Req
      BY <1>2, <1>4
    <3>2. t.log[i].id \in Nat /\ t.log[i].client \in Clients
      BY <3>1 DEF Req
    <3>3. t.table[t.log[i].client].id \in Nat /\ s.table[t.log[i].client].id \in Nat
      BY <1>1, <1>4, <3>2, StateFields
    <3>4. t.log[i].id <= s.table[t.log[i].client].id
      BY <1>1, <1>4 DEF LeaderOK, s
    <3>5. t.table[t.log[i].client].id >= s.table[t.log[i].client].id
      BY <1>4, <3>2
    <3> QED
      BY <3>2, <3>3, <3>4, <3>5
  <2>3. /\ \A i, j \in 1 .. Len(t.log) : t.log[i] = t.log[j] => i = j
        /\ \A p \in t.lastPrepare : Has(t.log, p.opnum, p.req)
    BY <1>1, <1>4 DEF LeaderOK, s
  <2>4. ASSUME NEW m \in t.pendingOKs
        PROVE  MessageTrue(S, m)
    <3>1. m.type = "PrepareOK" /\ m.from \in Replicas
      BY <1>4, StateFields DEF PrepareOKType
    <3>2. MessageTrue(R, m)
      BY <1>1, <1>4 DEF LeaderOK, s
    <3> QED
      BY <1>7, <3>1, <3>2 DEF MessageTrue
  <2>5. ASSUME NEW x \in t.oks
        PROVE  Has(S[x.from].log, x.opnum, t.log[x.opnum]) /\ x.opnum <= Len(t.log)
    <3>1. x.from \in Replicas
      BY <1>4, StateFields DEF OKType
    <3> QED
      BY <1>1, <1>4, <1>7, <3>1 DEF LeaderOK, s
  <2> QED
    BY <1>6, <2>1, <2>2, <2>3, <2>4, <2>5 DEF LeaderOK
<1>10. QuorumOK(S)
  <2>1. \A op : Holders(S, op) = Holders(R, op)
    BY <1>7 DEF Holders
  <2>2. CASE upto > s.lastCommitted
    <3>1. t.lastCommitted = upto
      BY <1>2, <1>4, <2>2 DEF Larger
    <3> QED
      BY <1>6, <2>1, <3>1 DEF QuorumOK
  <2>3. CASE ~(upto > s.lastCommitted)
    <3>1. t.lastCommitted = s.lastCommitted
      BY <1>2, <1>4, <2>3 DEF Larger
    <3> QED
      BY <1>6, <2>1, <3>1 DEF ReplicasOK, QuorumOK, s
  <2> QED
    BY <2>2, <2>3
<1>11. \A m \in t.out : m \in R[Leader].out \/ MessageTrue(S, m)
  BY <1>4, <1>6 DEF MessageTrue, s
<1>12. Fine(R, Leader, t)
  BY <1>4, <1>8, <1>9, <1>10, <1>11, LeaderStep DEF Fine, S
<1> QED
  BY <1>12 DEF t, s

\* A follower executes what the leader has executed and it holds itself.
LEMMA FollowerCommits ==
  ASSUME NEW R, ReplicasOK(R), NEW r \in Followers, NEW upto \in 0 .. Len(R[r].log),
         upto <= R[Leader].lastCommitted,
         \A i \in 1 .. upto : R[r].log[i] = R[Leader].log[i]
  PROVE  Fine(R, r, CommitUpTo(R[r], upto))
<1> USE Constants
<1> DEFINE s == R[r]
           t == CommitUpTo(s, upto)
           S == Put(R, r, t)
<1>1. R \in States /\ s \in State /\ LocalOK(s) /\ FollowerOK(R[Leader], s)
  BY DEF ReplicasOK, States
<1>2. /\ s.lastCommitted \in 0 .. Len(s.log) /\ Len(s.log) \in Nat
      /\ s.lastSlow \in Nat /\ s.log \in Seq(Req) /\ s.lastCommitted <= s.lastSlow
  BY <1>1, StateFields, Places
<1>3. upto \in 0 .. Len(s.log)
  BY <1>2
<1>4. /\ t \in State /\ LocalOK(t) /\ t.log = s.log /\ t.lastFast = s.lastFast
      /\ t.lastCommitted = Larger(s.lastCommitted, upto)
      /\ t.lastSlow = Larger(s.lastSlow, upto)
      /\ t.pendingPrepares = s.pendingPrepares
      /\ \A m \in t.out : \/ m \in s.out
                          \/ /\ m.type = "Reply" /\ Has(s.log, m.opnum, m.req)
                             /\ m.opnum <= t.lastCommitted
  BY <1>1, <1>3, CommitUpToFields
<1>5. /\ R[Leader] \in State /\ R[Leader].lastCommitted \in 0 .. Len(R[Leader].log)
      /\ Len(R[Leader].log) \in Nat
  BY <1>1, StateFields, Places DEF ReplicasOK, States
<1>6. /\ s.lastSlow <= Len(R[Leader].log) /\ s.lastCommitted <= R[Leader].lastCommitted
      /\ \A i \in 1 .. s.lastSlow : s.log[i] = R[Leader].log[i]
  BY <1>1 DEF FollowerOK
<1>7. /\ s.lastCommitted <= t.lastCommitted /\ t.lastSlow <= Len(R[Leader].log)
      /\ t.lastCommitted <= R[Leader].lastCommitted
      /\ t.lastCommitted \in Nat
  BY <1>2, <1>4, <1>5, <1>6 DEF Larger
<1>8. \A i \in 1 .. t.lastSlow : t.log[i] = R[Leader].log[i]
  BY <1>2, <1>4, <1>6 DEF Larger
<1>9. \A i \in 1 .. t.lastCommitted : t.log[i] = R[Leader].log[i]
  BY <1>2, <1>4, <1>6 DEF Larger
<1> HIDE DEF s, t
<1>10. S \in States /\ S[Leader] = R[Leader]
  BY <1>1, <1>4, PutFacts DEF s
<1> HIDE DEF S
<1>11. FollowerOK(R[Leader], t)
  BY <1>1, <1>4, <1>7, <1>8 DEF FollowerOK
<1>12. Keeps(R[Leader], R[r], t)
  BY <1>2, <1>4, <1>7 DEF Keeps, s
<1>13. ASSUME NEW m \in t.out, m \notin R[r].out
       PROVE  MessageTrue(S, m)
  <2>1. m.type = "Reply" /\ Has(t.log, m.opnum, m.req) /\ m.opnum <= t.lastCommitted
    BY <1>4, <1>13 DEF s
  <2>2. m.opnum \in 1 .. t.lastCommitted
    BY <1>7, <2>1 DEF Has
  <2>3. m.opnum \in 1 .. Len(R[Leader].log) /\ m.opnum <= R[Leader].lastCommitted
    BY <1>5, <1>7, <2>2
  <2> QED
    BY <1>9, <1>10, <2>1, <2>2, <2>3 DEF MessageTrue, Has
<1>14. Fine(R, r, t)
  BY <1>4, <1>11, <1>12, <1>13, FollowerStep DEF Fine, S
<1> QED
  BY <1>14 DEF t, s

\* Two answers of one kind for one place are from two replicas.
LEMMA SameAnswer ==
  ASSUME NEW x \in OKType, NEW y \in OKType, x.opnum = y.opnum,
         x.slowpath = y.slowpath, x.from = y.from
  PROVE  x = y
BY DEF OKType

\* The answers to one Prepare on one path can be counted: at most one of a
\* replica is kept.
LEMMA AnswersFinite ==
  ASSUME NEW R, ReplicasOK(R), NEW op, NEW b, NEW X \in SUBSET R[Leader].oks,
         \A x \in X : x.opnum = op /\ x.slowpath = b
  PROVE  IsFiniteSet(X)
<1> USE Constants
<1> DEFINE f == [x \in X |-> x.from]
<1>1. R[Leader] \in State
  BY DEF ReplicasOK, States
<1>2. \A x \in X : x \in OKType /\ x.from \in Followers
  BY <1>1, StateFields DEF OKType
<1>3. ASSUME NEW x \in X, NEW y \in X, x.from = y.from
      PROVE  x = y
  BY <1>2, <1>3, SameAnswer
<1>4. f \in Injection(X, Followers)
  BY <1>2, <1>3 DEF Injection, IsInjective
<1> QED
  BY <1>4, FS_Injection

\* resendPrepareTimeout, and HandlePrepareOK with another request.
LEMMA ResendFine ==
  ASSUME NEW R, ReplicasOK(R)
  PROVE  Fine(R, Leader, ResendPrepare(R[Leader]))
<1> USE Constants
<1>1. R[Leader] \in State
  BY DEF ReplicasOK, States
<1>2. R[Leader].lastPrepare \in SUBSET Message
  BY <1>1, StateFields
<1>3. ASSUME NEW p \in R[Leader].lastPrepare
      PROVE  MessageTrue(R, p)
  <2>1. p.type = "Prepare"
    BY <1>1, StateFields DEF PrepareType
  <2> QED
    BY <2>1 DEF MessageTrue, ReplicasOK, LeaderOK
<1>4. Fine(R, Leader, Emit(R[Leader], R[Leader].lastPrepare))
  BY <1>2, <1>3, EmitFine
<1> QED
  BY <1>4, FineToStay DEF ResendPrepare

\* Answers of F replicas for one place, of one kind, make a quorum with the
\* leader: no replica is counted twice.
LEMMA AnswersMakeQuorum ==
  ASSUME NEW R, ReplicasOK(R), NEW op \in 1 .. Len(R[Leader].log), NEW b,
         NEW X \in SUBSET R[Leader].oks,
         \A x \in X : x.opnum = op /\ x.slowpath = b,
         Cardinality(X) >= F
  PROVE  Cardinality(Holders(R, op)) >= F + 1
<1> USE Constants
<1> DEFINE H == Holders(R, op) \ {Leader}
           f == [x \in X |-> x.from]
<1>1. R[Leader] \in State
  BY DEF ReplicasOK, States
<1>2. \A x \in X : x \in OKType /\ x.from \in Followers
  BY <1>1, StateFields DEF OKType
<1>3. f \in [X -> H]
  <2>1. ASSUME NEW x \in X
        PROVE  x.from \in H
    <3>1. Has(R[x.from].log, x.opnum, R[Leader].log[x.opnum])
      BY DEF ReplicasOK, LeaderOK
    <3>2. x.opnum = op /\ x.from \in Followers
      BY <1>2
    <3> QED
      BY <3>1, <3>2 DEF Holders
  <2> QED
    BY <2>1
<1>4. f \in Injection(X, H)
  <2>1. ASSUME NEW x \in X, NEW y \in X, x.from = y.from
        PROVE  x = y
    BY <1>2, <2>1, SameAnswer
  <2> QED
    BY <1>3, <2>1 DEF Injection, IsInjective
<1>5. IsFiniteSet(Holders(R, op))
  BY HoldersFinite
<1>6. Leader \in Holders(R, op)
  BY DEF Holders, Has
<1>7. /\ IsFiniteSet(H)
      /\ Cardinality(H) = Cardinality(Holders(R, op)) - 1
  BY <1>5, <1>6, FS_RemoveElement
<1>8. IsFiniteSet(X) /\ Cardinality(X) <= Cardinality(H)
  BY <1>4, <1>7, FS_Injection
<1>9. /\ Cardinality(X) \in Nat /\ Cardinality(H) \in Nat
      /\ Cardinality(Holders(R, op)) \in Nat
  BY <1>5, <1>7, <1>8, FS_CardinalityType
<1> QED
  BY <1>7, <1>8, <1>9

\* HandlePrepareOK with an answer that is so.
LEMMA PreparedOKFine ==
  ASSUME NEW R, ReplicasOK(R), NEW m \in PrepareOKType, MessageTrue(R, m)
  PROVE  Fine(R, Leader, PreparedOK(R[Leader], m))
<1> USE Constants
<1> DEFINE s == R[Leader]
           ok == [opnum |-> m.opnum, from |-> m.from, slowpath |-> m.slowpath]
           t == [s EXCEPT !.oks = @ \cup {ok}]
           X == {x \in t.oks : x.opnum = m.opnum /\ x.slowpath = m.slowpath}
           need == IF m.slowpath THEN SlowQuorum ELSE FastQuorum
           commit == IF Cardinality(X) > need THEN {}
                     ELSE {CommitMessage(m.opnum, s.log[m.opnum])}
<1>1. s \in State /\ LocalOK(s) /\ LeaderOK(R) /\ R \in States
  BY DEF ReplicasOK, States
<1>2. /\ m.type = "PrepareOK" /\ m.opnum \in Nat /\ m.from \in Followers
      /\ m.slowpath \in BOOLEAN /\ ok \in OKType
  BY DEF PrepareOKType, OKType
<1>3. /\ Len(s.log) \in Nat /\ s.lastSlow = Len(s.log) /\ s.log \in Seq(Req)
      /\ \A c \in Clients : s.table[c].id \in Nat
  BY <1>1, StateFields, Places DEF LeaderOK
<1>4. IsFiniteSet(s.pendingPrepares) /\ IsFiniteSet(s.pendingOKs)
  BY <1>1 DEF LocalOK
<1>5. CASE m.opnum <= s.lastCommitted
  <2>1. PreparedOK(s, m) = s
    BY <1>5 DEF PreparedOK
  <2> QED
    BY <2>1, FineToStay
<1>6. CASE ~(m.opnum <= s.lastCommitted) /\ m.opnum > s.lastSlow
  <2> DEFINE u == [s EXCEPT !.pendingOKs = @ \cup {m}]
  <2>1. PreparedOK(s, m) = u
    BY <1>6 DEF PreparedOK
  <2>2. /\ u \in State /\ u.log = s.log /\ u.lastCommitted = s.lastCommitted
        /\ u.lastFast = s.lastFast /\ u.lastSlow = s.lastSlow
        /\ u.app = s.app /\ u.failed = s.failed /\ u.table = s.table
        /\ u.oks = s.oks /\ u.pendingPrepares = s.pendingPrepares
        /\ u.pendingOKs = s.pendingOKs \cup {m}
        /\ u.lastPrepare = s.lastPrepare /\ u.out = s.out
    BY <1>1 DEF State
  <2> HIDE DEF u
  <2>3. \A c \in Clients : u.table[c].id >= s.table[c].id
    BY <1>3, <2>2
  <2>4. IsFiniteSet(u.pendingPrepares) /\ IsFiniteSet(u.pendingOKs)
    BY <1>4, <2>2, FS_AddElement
  <2>5. Fine(R, Leader, u)
    BY <2>2, <2>3, <2>4, Quiet
  <2> QED
    BY <2>1, <2>5
<1>7. CASE /\ ~(m.opnum <= s.lastCommitted) /\ ~(m.opnum > s.lastSlow)
           /\ ~m.slowpath /\ s.log[m.opnum] # m.req
  <2>1. PreparedOK(s, m) = ResendPrepare(s)
    BY <1>7 DEF PreparedOK
  <2> QED
    BY <2>1, ResendFine
<1>8. CASE /\ ~(m.opnum <= s.lastCommitted) /\ ~(m.opnum > s.lastSlow)
           /\ ~(~m.slowpath /\ s.log[m.opnum] # m.req)
  <2>1. /\ m.opnum \in 1 .. Len(s.log)
        /\ Has(R[m.from].log, m.opnum, s.log[m.opnum])
    <3>1. m.opnum \in 1 .. Len(R[m.from].log)
      BY <1>2 DEF MessageTrue
    <3>2. m.opnum \in 1 .. Len(s.log)
      BY <1>2, <1>3, <1>8, <3>1
    <3> QED
      BY <1>2, <1>8, <3>1, <3>2 DEF MessageTrue, Has
  <2>2. /\ t \in State /\ t.log = s.log /\ t.lastCommitted = s.lastCommitted
        /\ t.lastFast = s.lastFast /\ t.lastSlow = s.lastSlow
        /\ t.app = s.app /\ t.failed = s.failed /\ t.table = s.table
        /\ t.oks = s.oks \cup {ok} /\ t.pendingPrepares = s.pendingPrepares
        /\ t.pendingOKs = s.pendingOKs
        /\ t.lastPrepare = s.lastPrepare /\ t.out = s.out
    BY <1>1, <1>2 DEF State
  <2>3. PreparedOK(s, m) = IF Cardinality(X) < need THEN t
                           ELSE Emit(CommitUpTo(t, m.opnum), commit)
    BY <1>8 DEF PreparedOK
  <2>4. ok.opnum = m.opnum /\ ok.from = m.from
    OBVIOUS
  <2> HIDE DEF t, ok
  <2>5. Fine(R, Leader, t)
    <3>1. \A c \in Clients : t.table[c].id >= s.table[c].id
      BY <1>3, <2>2
    <3>2. \A x \in t.oks :
            x \in s.oks \/ /\ Has(R[x.from].log, x.opnum, R[Leader].log[x.opnum])
                           /\ x.opnum <= Len(R[Leader].log)
      BY <1>3, <2>1, <2>2, <2>4
    <3> QED
      BY <1>4, <2>2, <3>1, <3>2, Quiet
  <2>6. CASE Cardinality(X) < need
    BY <2>3, <2>5, <2>6
  <2>7. CASE ~(Cardinality(X) < need)
    <3> DEFINE R1 == Put(R, Leader, t)
               u == CommitUpTo(t, m.opnum)
    <3>1. ReplicasOK(R1) /\ R1[Leader] = t
      BY <1>1, <2>2, <2>5, PutFacts DEF Fine
    <3> HIDE DEF R1
    <3>2. Cardinality(X) >= F
      <4>1. need \in Nat /\ need >= F
        BY DEF SlowQuorum, FastQuorum
      <4>2. IsFiniteSet(X)
        <5>1. /\ X \in SUBSET R1[Leader].oks
              /\ \A x \in X : x.opnum = m.opnum /\ x.slowpath = m.slowpath
          BY <3>1
        <5> HIDE DEF X
        <5> QED
          BY <3>1, <5>1, AnswersFinite, Zenon
      <4> HIDE DEF X, need
      <4>3. Cardinality(X) \in Nat
        BY <4>2, FS_CardinalityType
      <4> QED
        BY <2>7, <4>1, <4>3
    <3>3. Cardinality(Holders(R1, m.opnum)) >= F + 1
      <4>1. m.opnum \in 1 .. Len(R1[Leader].log) /\ X \in SUBSET R1[Leader].oks
        BY <2>1, <2>2, <3>1
      <4>2. \A x \in X : x.opnum = m.opnum /\ x.slowpath = m.slowpath
        OBVIOUS
      <4> HIDE DEF X
      <4> QED
        BY <3>1, <3>2, <4>1, <4>2, AnswersMakeQuorum
    <3>4. Fine(R1, Leader, u)
      BY <2>1, <2>2, <3>1, <3>3, LeaderCommits
    <3>5. Fine(R, Leader, u)
      BY <2>5, <3>4, FineThenFine DEF R1
    <3> DEFINE R2 == Put(R, Leader, u)
    <3>6. ReplicasOK(R2) /\ R2[Leader] = u
      BY <1>1, <3>5, PutFacts DEF Fine
    <3>7. u.log = s.log /\ m.opnum <= u.lastCommitted
      <4>1. t \in State /\ LocalOK(t) /\ m.opnum \in 0 .. Len(t.log)
        BY <1>3, <2>1, <2>2, <3>1 DEF ReplicasOK
      <4>2. u.log = t.log /\ u.lastCommitted = Larger(t.lastCommitted, m.opnum)
        BY <4>1, CommitUpToFields
      <4> QED
        BY <1>2, <2>2, <4>1, <4>2, StateFields DEF Larger
    <3>8. commit \in SUBSET Message /\ \A x \in commit : MessageTrue(R2, x)
      <4>1. s.log[m.opnum] \in Req
        BY <1>3, <2>1
      <4> HIDE DEF R2, u, need, X
      <4>2. CommitMessage(m.opnum, s.log[m.opnum]) \in Message
        BY <1>2, <4>1 DEF CommitMessage, Message
      <4>3. MessageTrue(R2, CommitMessage(m.opnum, s.log[m.opnum]))
        BY <2>1, <3>6, <3>7 DEF CommitMessage, MessageTrue, Has
      <4> QED
        BY <4>2, <4>3
    <3>9. Fine(R2, Leader, Emit(u, commit))
      <4> HIDE DEF R2, commit, u
      <4> QED
        BY <3>6, <3>8, EmitFine
    <3>10. Fine(R, Leader, Emit(u, commit))
      <4> HIDE DEF commit, u
      <4> QED
        BY <3>5, <3>9, FineThenFine
    <3> QED
      BY <2>3, <2>7, <3>10
  <2> QED
    BY <2>6, <2>7
<1> QED
  BY <1>5, <1>6, <1>7, <1>8

\* A follower takes over entries of the leader after lastSlow, or adds one of
\* its own at the end.
LEMMA EntriesFine ==
  ASSUME NEW R, ReplicasOK(R), NEW r \in Followers, NEW t \in State,
         Len(R[r].log) <= Len(t.log), t.lastFast = Len(t.log),
         R[r].lastSlow <= t.lastSlow, t.lastSlow <= Len(t.log),
         t.lastSlow <= Len(R[Leader].log),
         \A i \in 1 .. t.lastSlow : t.log[i] = R[Leader].log[i],
         \A i \in 1 .. Len(R[r].log) :
           t.log[i] = R[r].log[i] \/ Has(R[Leader].log, i, t.log[i]),
         \A c \in Clients : t.table[c].reply > 0 => t.table[c] = R[r].table[c],
         t.lastCommitted = R[r].lastCommitted, t.app = R[r].app,
         t.failed = R[r].failed, t.pendingPrepares = R[r].pendingPrepares,
         t.pendingOKs = R[r].pendingOKs, t.out = R[r].out
  PROVE  Fine(R, r, t)
<1> USE Constants
<1> DEFINE s == R[r]
           lead == R[Leader]
<1>1. s \in State /\ lead \in State /\ LocalOK(s) /\ FollowerOK(lead, s)
  BY DEF ReplicasOK, States
<1>2. /\ s.lastCommitted \in 0 .. s.lastSlow /\ s.lastSlow \in Nat
      /\ s.lastCommitted \in Nat /\ s.lastSlow <= Len(s.log)
      /\ s.log \in Seq(Req) /\ t.log \in Seq(Req) /\ t.lastSlow \in Nat
      /\ s.table \in [Clients -> [id : Nat, reply : Nat]]
      /\ Len(s.log) \in Nat /\ Len(t.log) \in Nat
  <2> HIDE DEF s, lead
  <2>1. /\ s.lastSlow \in 0 .. Len(s.log) /\ s.lastCommitted \in 0 .. s.lastSlow
    BY <1>1, Places
  <2>2. /\ s.lastSlow \in Nat /\ s.lastCommitted \in Nat /\ s.log \in Seq(Req)
        /\ s.table \in [Clients -> [id : Nat, reply : Nat]] /\ Len(s.log) \in Nat
    BY <1>1, StateFields
  <2>3. t.log \in Seq(Req) /\ t.lastSlow \in Nat /\ Len(t.log) \in Nat
    BY StateFields
  <2> QED
    BY <2>1, <2>2, <2>3
<1>3. \A i \in 1 .. s.lastCommitted : t.log[i] = s.log[i]
  <2>1. \A i \in 1 .. s.lastSlow : s.log[i] = lead.log[i]
    BY <1>1 DEF FollowerOK
  <2> QED
    BY <1>2, <2>1
<1>4. t.app = SubSeq(t.log, 1, t.lastCommitted)
  <2>1. s.app = SubSeq(s.log, 1, s.lastCommitted)
    BY <1>1 DEF LocalOK
  <2>2. s.lastCommitted <= Len(s.log) /\ s.lastCommitted <= Len(t.log)
    BY <1>2
  <2> QED
    BY <1>2, <1>3, <2>1, <2>2, SamePrefix
<1>5. ASSUME NEW c \in Clients, t.table[c].reply > 0
      PROVE  /\ t.table[c].reply <= t.lastCommitted
             /\ t.log[t.table[c].reply] = [client |-> c, id |-> t.table[c].id]
  <2>1. t.table[c] = s.table[c]
    BY <1>5
  <2>2. /\ s.table[c].reply <= s.lastCommitted
        /\ s.log[s.table[c].reply] = [client |-> c, id |-> s.table[c].id]
    BY <1>1, <1>5, <2>1 DEF LocalOK
  <2>3. s.table[c].reply \in 1 .. s.lastCommitted
    BY <1>2, <1>5, <2>1, <2>2
  <2> QED
    BY <1>3, <2>1, <2>2, <2>3
<1>6. LocalOK(t)
  <2>1. t.lastCommitted <= t.lastSlow /\ t.lastSlow <= t.lastFast
    BY <1>2
  <2>2. /\ t.failed = ""
        /\ IsFiniteSet(t.pendingPrepares) /\ IsFiniteSet(t.pendingOKs)
    BY <1>1 DEF LocalOK
  <2> QED
    BY <1>4, <1>5, <2>1, <2>2 DEF LocalOK
<1>7. FollowerOK(lead, t)
  BY <1>1 DEF FollowerOK
<1>8. Keeps(lead, s, t)
  BY <1>2 DEF Keeps
<1> QED
  BY <1>6, <1>7, <1>8, FollowerStep DEF Fine

\* HandlePrepare with what the leader has.
LEMMA PreparedByFine ==
  ASSUME NEW R, ReplicasOK(R), NEW r \in Followers, NEW m \in PrepareType,
         Has(R[Leader].log, m.opnum, m.req)
  PROVE  Fine(R, r, PreparedBy(r, R[r], m))
<1> USE Constants
<1> DEFINE s == R[r]
           lead == R[Leader]
           op == m.opnum
           ok == {PrepareOKMessage(op, m.req, TRUE, r)}
           reqs == {m.req}
           w == UpdateClientTable(s, reqs)
           log == IF op > s.lastFast THEN Append(s.log, m.req)
                  ELSE [s.log EXCEPT ![op] = m.req]
           t == [w EXCEPT !.log = IF op > s.lastFast THEN Append(@, m.req)
                                  ELSE [@ EXCEPT ![op] = m.req],
                          !.lastFast = Larger(@, op), !.lastSlow = op]
<1>1. /\ s \in State /\ lead \in State /\ LocalOK(s) /\ FollowerOK(lead, s)
      /\ R \in States
  BY DEF ReplicasOK, States
<1>2. op \in Nat /\ m.req \in Req /\ m.type = "Prepare" /\ op \in 1 .. Len(lead.log)
  BY DEF PrepareType, Has
<1>3. /\ s.lastSlow \in Nat /\ s.lastSlow <= Len(s.log) /\ s.lastFast = Len(s.log)
      /\ s.log \in Seq(Req) /\ Len(s.log) \in Nat /\ Len(lead.log) \in Nat
      /\ \A c \in Clients : s.table[c].id \in Nat
      /\ s.lastCommitted \in Nat
  BY <1>1, StateFields, Places
<1>4. ok \in SUBSET Message
  BY <1>2 DEF Message, PrepareOKType, PrepareOKMessage
<1>5. ASSUME NEW S, S[Leader] = lead, op \in 1 .. Len(S[r].log),
             S[r].log[op] = lead.log[op]
      PROVE  \A x \in ok : MessageTrue(S, x)
  BY <1>2, <1>5 DEF MessageTrue, PrepareOKMessage, Has
<1>6. CASE op <= s.lastSlow
  <2>1. PreparedBy(r, s, m) = Emit(s, ok)
    BY <1>6 DEF PreparedBy
  <2>2. op \in 1 .. Len(s.log) /\ s.log[op] = lead.log[op]
    BY <1>1, <1>2, <1>3, <1>6 DEF FollowerOK
  <2> QED
    BY <1>4, <1>5, <2>1, <2>2, EmitFine
<1>7. CASE ~(op <= s.lastSlow) /\ op > s.lastSlow + 1
  <2> DEFINE x == RequestStateTransferMessage(s.lastCommitted, r)
             u == [RequestStateTransfer(r, s) EXCEPT !.pendingPrepares = @ \cup {m}]
  <2>1. PreparedBy(r, s, m) = u
    BY <1>7 DEF PreparedBy
  <2>2. x \in Message
    BY <1>3 DEF Message, RequestStateTransferMessage
  <2>3. MessageTrue(R, x)
    BY <1>3 DEF MessageTrue, RequestStateTransferMessage
  <2>4. /\ u \in State /\ u.log = s.log /\ u.lastCommitted = s.lastCommitted
        /\ u.lastFast = s.lastFast /\ u.lastSlow = s.lastSlow
        /\ u.app = s.app /\ u.failed = s.failed /\ u.table = s.table
        /\ u.oks = s.oks /\ u.pendingPrepares = s.pendingPrepares \cup {m}
        /\ u.pendingOKs = s.pendingOKs
        /\ u.lastPrepare = s.lastPrepare /\ u.out = s.out \cup {x}
    BY <1>1, <2>2 DEF State, RequestStateTransfer, Emit
  <2>5. MessageTrue(R, m)
    BY <1>2 DEF MessageTrue
  <2> HIDE DEF u, x
  <2>6. \A c \in Clients : u.table[c].id >= s.table[c].id
    BY <1>3, <2>4
  <2>7. IsFiniteSet(u.pendingPrepares) /\ IsFiniteSet(u.pendingOKs)
    <3>1. IsFiniteSet(s.pendingPrepares) /\ IsFiniteSet(s.pendingOKs)
      BY <1>1 DEF LocalOK
    <3>2. IsFiniteSet(s.pendingPrepares \cup {m})
      BY <3>1, FS_AddElement
    <3> QED
      BY <2>4, <3>1, <3>2
  <2>8. Fine(R, r, u)
    BY <2>3, <2>4, <2>5, <2>6, <2>7, Quiet
  <2> QED
    BY <2>1, <2>8
<1>8. CASE op = s.lastSlow + 1
  <2>1. PreparedBy(r, s, m) = Emit(t, ok)
    BY <1>2, <1>3, <1>8 DEF PreparedBy
  <2>2. /\ w = [s EXCEPT !.table = w.table]
        /\ w.table \in [Clients -> [id : Nat, reply : Nat]]
        /\ \A c \in Clients : w.table[c].reply > 0 => w.table[c] = s.table[c]
    <3>1. reqs \in SUBSET Req
      BY <1>2
    <3> HIDE DEF reqs
    <3> QED
      BY <1>1, <3>1, UpdateClientTableFields
  <2> HIDE DEF w
  <2>3. /\ log \in Seq(Req) /\ Len(log) = Larger(s.lastFast, op) /\ op <= Len(log)
        /\ Larger(s.lastFast, op) \in Nat /\ Len(s.log) <= Len(log)
        /\ log[op] = m.req
        /\ \A i \in 1 .. Len(s.log) : i # op => log[i] = s.log[i]
    BY <1>2, <1>3, <1>8 DEF Larger
  <2>4. t = [s EXCEPT !.table = w.table, !.log = log,
                      !.lastFast = Larger(s.lastFast, op), !.lastSlow = op]
    BY <1>1, <2>2 DEF State
  <2> HIDE DEF t, log
  <2>5. /\ t \in State /\ t.log = log /\ t.lastCommitted = s.lastCommitted
        /\ t.lastFast = Len(log) /\ t.lastSlow = op /\ t.app = s.app
        /\ t.failed = s.failed /\ t.table = w.table
        /\ t.pendingPrepares = s.pendingPrepares
        /\ t.pendingOKs = s.pendingOKs /\ t.out = s.out
    BY <1>1, <1>2, <2>2, <2>3, <2>4 DEF State
  <2>6. \A i \in 1 .. op : log[i] = lead.log[i]
    <3>1. \A i \in 1 .. s.lastSlow : s.log[i] = lead.log[i]
      BY <1>1 DEF FollowerOK
    <3>2. log[op] = lead.log[op]
      BY <2>3 DEF Has
    <3>3. \A i \in 1 .. op : i = op \/ i \in 1 .. s.lastSlow
      BY <1>3, <1>8
    <3>4. \A i \in 1 .. s.lastSlow : i \in 1 .. Len(s.log) /\ i # op
      BY <1>3, <1>8
    <3> QED
      BY <2>3, <3>1, <3>2, <3>3, <3>4
  <2>7. \A i \in 1 .. Len(s.log) : log[i] = s.log[i] \/ Has(lead.log, i, log[i])
    BY <2>3
  <2>8. Fine(R, r, t)
    <3>1. s.lastSlow <= op /\ op <= Len(lead.log)
      BY <1>2, <1>3, <1>8
    <3> QED
      BY <2>2, <2>3, <2>5, <2>6, <2>7, <3>1, EntriesFine
  <2> DEFINE S == Put(R, r, t)
  <2>9. ReplicasOK(S) /\ S[r] = t /\ S[Leader] = lead
    BY <1>1, <2>5, <2>8, PutFacts DEF Fine
  <2> HIDE DEF S
  <2>10. op \in 1 .. Len(S[r].log) /\ S[r].log[op] = lead.log[op]
    BY <1>2, <2>3, <2>5, <2>6, <2>9
  <2>11. Fine(S, r, Emit(t, ok))
    BY <1>4, <1>5, <2>9, <2>10, EmitFine
  <2> QED
    BY <2>1, <2>8, <2>11, FineThenFine DEF S
<1> QED
  BY <1>2, <1>3, <1>6, <1>7, <1>8

-----------------------------------------------------------------------------
(* HandlePending: by induction over the messages handled so far.             *)

HandleOne(r, s, m) ==
  IF m.type = "PrepareOK" THEN PreparedOK(s, m) ELSE PreparedBy(r, s, m)

\* The states in between.
Between(r, s, order, n, f) ==
  f = [i \in 0 .. n |-> IF i = 0 THEN s ELSE HandleOne(r, f[i - 1], order[i])]

\* The states between the messages exist, by induction on their number.
LEMMA BetweenExists ==
  ASSUME NEW r, NEW s, NEW order
  PROVE  \A n \in Nat : \E f : Between(r, s, order, n, f)
<1> DEFINE A == {n \in Nat : \E f : Between(r, s, order, n, f)}
<1>1. 0 \in A
  <2> DEFINE f == [i \in 0 .. 0 |-> s]
  <2>1. f = [i \in 0 .. 0 |->
               IF i = 0 THEN s ELSE HandleOne(r, f[i - 1], order[i])]
    OBVIOUS
  <2> QED
    BY <2>1 DEF Between
<1>2. ASSUME NEW n \in Nat, n \in A
      PROVE  n + 1 \in A
  <2>1. PICK f : Between(r, s, order, n, f)
    BY <1>2
  <2>2. f = [i \in 0 .. n |->
               IF i = 0 THEN s ELSE HandleOne(r, f[i - 1], order[i])]
    BY <2>1 DEF Between
  <2> DEFINE g == [i \in 0 .. n + 1 |->
                     IF i = n + 1 THEN HandleOne(r, f[n], order[n + 1]) ELSE f[i]]
             h == [i \in 0 .. n + 1 |->
                     IF i = 0 THEN s ELSE HandleOne(r, g[i - 1], order[i])]
  <2>3. ASSUME NEW i \in 0 .. n + 1
        PROVE  g[i] = h[i]
    <3>1. CASE i = n + 1
      BY <3>1
    <3>2. CASE i # n + 1 /\ i = 0
      <4>1. f[0] = s
        BY <2>2
      <4> QED
        BY <3>2, <4>1
    <3>3. CASE i # n + 1 /\ i # 0
      <4>1. i \in 0 .. n /\ i - 1 \in 0 .. n /\ i - 1 # n + 1 /\ i - 1 \in 0 .. n + 1
        BY <3>3
      <4>2. f[i] = HandleOne(r, f[i - 1], order[i])
        BY <2>2, <3>3, <4>1
      <4>3. g[i] = f[i] /\ g[i - 1] = f[i - 1]
        BY <3>3, <4>1
      <4> QED
        BY <3>3, <4>2, <4>3
    <3> QED
      BY <3>1, <3>2, <3>3
  <2>4. g = h
    <3>1. DOMAIN g = 0 .. n + 1 /\ DOMAIN h = 0 .. n + 1
      OBVIOUS
    <3> QED
      BY <2>3, <3>1
  <2>5. Between(r, s, order, n + 1, g)
    BY <2>4 DEF Between
  <2> QED
    BY <2>5
<1> HIDE DEF A
<1>3. \A n \in Nat : n \in A
  BY <1>1, <1>2, NatSetInduction
<1> QED
  BY <1>3 DEF A

\* HandlePending gives the last of them.
LEMMA HandlePendingIsLast ==
  ASSUME NEW r, NEW s, NEW order, Len(order) \in Nat
  PROVE  \E f : /\ Between(r, s, order, Len(order), f)
                /\ HandlePending(r, s, order) = f[Len(order)]
<1> DEFINE n == Len(order)
           after == CHOOSE f : Between(r, s, order, n, f)
<1>1. \E f : Between(r, s, order, n, f)
  BY BetweenExists
<1>2. Between(r, s, order, n, after)
  BY <1>1
<1>3. HandlePending(r, s, order) = after[n]
  BY DEF HandlePending, Between, HandleOne
<1> QED
  BY <1>2, <1>3

\* Replica r can handle message m.
Handles(R, r, m) ==
  /\ MessageTrue(R, m)
  /\ \/ r = Leader /\ m \in PrepareOKType
     \/ r \in Followers /\ m \in PrepareType

\* Handling one of the kept messages may be done.
LEMMA HandleOneFine ==
  ASSUME NEW R, ReplicasOK(R), NEW r \in Replicas, NEW m, Handles(R, r, m)
  PROVE  Fine(R, r, HandleOne(r, R[r], m))
<1>1. CASE r = Leader /\ m \in PrepareOKType
  <2>1. m.type = "PrepareOK"
    BY <1>1 DEF PrepareOKType
  <2> QED
    BY <1>1, <2>1, PreparedOKFine DEF HandleOne, Handles
<1>2. CASE r \in Followers /\ m \in PrepareType
  <2>1. m.type = "Prepare"
    BY <1>2 DEF PrepareType
  <2>2. Has(R[Leader].log, m.opnum, m.req)
    BY <2>1 DEF Handles, MessageTrue
  <2> QED
    BY <1>2, <2>1, <2>2, PreparedByFine DEF HandleOne
<1> QED
  BY <1>1, <1>2 DEF Handles

\* Counting an answer does not touch the log.
LEMMA PreparedOKLog ==
  ASSUME NEW s \in State, NEW m \in PrepareOKType
  PROVE  PreparedOK(s, m).log = s.log
<1>1. ASSUME NEW t \in State, NEW n
      PROVE  CommitUpTo(t, n).log = t.log
  <2> DEFINE c == CommitUpTo(t, n)
  <2>1. CASE n <= t.lastCommitted
    BY <2>1 DEF CommitUpTo
  <2>2. CASE ~(n <= t.lastCommitted) /\ (n > Len(t.log) \/ n > t.lastFast)
    <3>1. c = Abort(t, "CommitUpTo")
      BY <2>2 DEF CommitUpTo
    <3> QED
      BY <3>1 DEF Abort, State
  <2>3. CASE ~(n <= t.lastCommitted) /\ ~(n > Len(t.log) \/ n > t.lastFast)
    BY <2>3 DEF CommitUpTo, Emit, State
  <2> QED
    BY <2>1, <2>2, <2>3
<1> DEFINE ok == [opnum |-> m.opnum, from |-> m.from, slowpath |-> m.slowpath]
           t == [s EXCEPT !.oks = @ \cup {ok}]
           u == CommitUpTo(t, m.opnum)
           z == [s EXCEPT !.pendingOKs = @ \cup {m}]
<1>2. t.log = s.log /\ t \in State
  <2>1. ok \in OKType
    BY DEF OKType, PrepareOKType
  <2> HIDE DEF ok
  <2> QED
    BY <2>1 DEF State
<1>3. z.log = s.log
  BY DEF State
<1>4. u.log = s.log
  <2> HIDE DEF t
  <2> QED
    BY <1>1, <1>2
<1>5. \A out : Emit(u, out).log = s.log
  <2>1. \A x, out : Emit(x, out).log = x.log
    BY DEF Emit
  <2> QED
    BY <1>4, <2>1
<1>6. ResendPrepare(s).log = s.log
  BY DEF ResendPrepare, Emit, State
<1>7. \/ PreparedOK(s, m) \in {s, z, t, ResendPrepare(s)}
      \/ \E out : PreparedOK(s, m) = Emit(u, out)
  <2> HIDE DEF u, z
  <2> QED
    BY DEF PreparedOK, u, z
<1> QED
  BY <1>2, <1>3, <1>5, <1>6, <1>7

\* Handling what was kept, in whatever order; the leader's log stays.
LEMMA HandlePendingFine ==
  ASSUME NEW R, ReplicasOK(R), NEW r \in Replicas, NEW order,
         Len(order) \in Nat, \A i \in 1 .. Len(order) : Handles(R, r, order[i])
  PROVE  /\ Fine(R, r, HandlePending(r, R[r], order))
         /\ r = Leader => HandlePending(r, R[r], order).log = R[r].log
<1> DEFINE n == Len(order)
<1>1. PICK f : /\ Between(r, R[r], order, n, f)
               /\ HandlePending(r, R[r], order) = f[n]
  BY HandlePendingIsLast
<1>2. f[0] = R[r]
  BY <1>1 DEF Between
<1>3. \A i \in 1 .. n : f[i] = HandleOne(r, f[i - 1], order[i])
  BY <1>1 DEF Between
<1> HIDE DEF n
<1> DEFINE A == {k \in Nat :
                   k <= n => /\ Fine(R, r, f[k])
                             /\ r = Leader => f[k].log = R[r].log}
<1>4. 0 \in A
  BY <1>2, FineToStay
<1>5. ASSUME NEW k \in Nat, k \in A
      PROVE  k + 1 \in A
  <2> SUFFICES ASSUME k + 1 <= n
               PROVE  /\ Fine(R, r, f[k + 1])
                      /\ r = Leader => f[k + 1].log = R[r].log
    OBVIOUS
  <2> DEFINE R1 == Put(R, r, f[k])
             m == order[k + 1]
  <2>1. k <= n /\ k + 1 \in 1 .. n /\ (k + 1) - 1 = k
    BY DEF n
  <2>2. Fine(R, r, f[k]) /\ (r = Leader => f[k].log = R[r].log)
    BY <1>5, <2>1
  <2>3. /\ R \in States /\ R1 \in States /\ ReplicasOK(R1) /\ Grows(R, R1)
        /\ R1[r] = f[k]
    BY <2>2, PutFacts DEF Fine, ReplicasOK
  <2>4. f[k + 1] = HandleOne(r, f[k], m)
    BY <1>3, <2>1
  <2>5. Handles(R, r, m)
    BY <2>1 DEF n
  <2>6. m \in Message
    BY <2>5 DEF Handles, Message
  <2> HIDE DEF R1, m
  <2>7. Handles(R1, r, m)
    BY <2>3, <2>5, <2>6, MessageStable DEF Handles
  <2>8. Fine(R1, r, f[k + 1])
    BY <2>3, <2>4, <2>7, HandleOneFine
  <2>9. ASSUME r = Leader
        PROVE  f[k + 1].log = R[r].log
    <3>1. m \in PrepareOKType /\ m.type = "PrepareOK"
      BY <2>5, <2>9, Constants DEF Handles, PrepareOKType
    <3>2. f[k] \in State
      BY <2>3 DEF States
    <3> QED
      BY <2>2, <2>4, <2>9, <3>1, <3>2, PreparedOKLog DEF HandleOne
  <2> QED
    BY <2>2, <2>8, <2>9, FineThenFine DEF R1
<1> HIDE DEF A
<1>6. n \in A
  BY <1>4, <1>5, NatSetInduction DEF n
<1> QED
  BY <1>1, <1>6 DEF A, n

-----------------------------------------------------------------------------
(* The handlers.                                                             *)

\* An order of the elements of a finite set is a sequence of them.
LEMMA OrderFacts ==
  ASSUME NEW S, IsFiniteSet(S), NEW order \in SetToSeqs(S)
  PROVE  Len(order) \in Nat /\ \A i \in 1 .. Len(order) : order[i] \in S
<1>1. Cardinality(S) \in Nat
  BY FS_CardinalityType
<1>2. order \in [1 .. Cardinality(S) -> S]
  BY DEF SetToSeqs
<1>3. Len(order) = Cardinality(S)
  BY <1>1, <1>2
<1> QED
  BY <1>1, <1>2, <1>3

\* A follower puts a new request at the end of its log.
LEMMA AssignFollowerFine ==
  ASSUME NEW R, ReplicasOK(R), NEW r \in Followers, NEW q \in Req, NEW order
  PROVE  Fine(R, r, Assign(r, R[r], q, order))
<1> USE Constants
<1> DEFINE s == R[r]
           op == s.lastFast + 1
           reqs == {q}
           w == UpdateClientTable(s, reqs)
           log == Append(s.log, q)
           t == [w EXCEPT !.log = Append(@, q), !.lastFast = op]
           ok == {PrepareOKMessage(op, q, FALSE, r)}
<1>1. /\ s \in State /\ LocalOK(s) /\ FollowerOK(R[Leader], s) /\ R \in States
      /\ R[Leader] \in State
  BY DEF ReplicasOK, States
<1>2. /\ s.lastSlow \in Nat /\ s.lastSlow <= Len(s.log) /\ s.lastFast = Len(s.log)
      /\ s.log \in Seq(Req) /\ Len(s.log) \in Nat
      /\ s.table \in [Clients -> [id : Nat, reply : Nat]]
  BY <1>1, StateFields, Places
<1>3. Assign(r, s, q, order) = Emit(t, ok)
  BY DEF Assign
<1>4. /\ w = [s EXCEPT !.table = w.table]
      /\ w.table \in [Clients -> [id : Nat, reply : Nat]]
      /\ \A c \in Clients : w.table[c].reply > 0 => w.table[c] = s.table[c]
  <2>1. reqs \in SUBSET Req
    OBVIOUS
  <2> HIDE DEF reqs
  <2> QED
    BY <1>1, <2>1, UpdateClientTableFields
<1> HIDE DEF w
<1>5. /\ log \in Seq(Req) /\ Len(log) = op /\ op \in Nat /\ log[op] = q
      /\ \A i \in 1 .. Len(s.log) : log[i] = s.log[i]
  BY <1>2
<1>6. t = [s EXCEPT !.table = w.table, !.log = log, !.lastFast = op]
  BY <1>1, <1>4 DEF State
<1> HIDE DEF t, log
<1>7. /\ t \in State /\ t.log = log /\ t.lastCommitted = s.lastCommitted
      /\ t.lastFast = op /\ t.lastSlow = s.lastSlow /\ t.app = s.app
      /\ t.failed = s.failed /\ t.table = w.table
      /\ t.pendingPrepares = s.pendingPrepares
      /\ t.pendingOKs = s.pendingOKs /\ t.out = s.out
  BY <1>1, <1>4, <1>5, <1>6 DEF State
<1>8. /\ s.lastSlow <= Len(R[Leader].log)
      /\ \A i \in 1 .. s.lastSlow : s.log[i] = R[Leader].log[i]
  BY <1>1 DEF FollowerOK
<1>9. \A i \in 1 .. t.lastSlow : t.log[i] = R[Leader].log[i]
  <2>1. \A i \in 1 .. s.lastSlow : i \in 1 .. Len(s.log)
    BY <1>2
  <2> QED
    BY <1>5, <1>7, <1>8, <2>1
<1>10. Fine(R, r, t)
  <2>1. /\ Len(s.log) <= Len(t.log) /\ t.lastFast = Len(t.log)
        /\ s.lastSlow <= t.lastSlow /\ t.lastSlow <= Len(t.log)
        /\ t.lastSlow <= Len(R[Leader].log)
    BY <1>2, <1>5, <1>7, <1>8
  <2>2. \A i \in 1 .. Len(s.log) : t.log[i] = s.log[i]
    BY <1>5, <1>7
  <2> QED
    BY <1>4, <1>7, <1>9, <2>1, <2>2, EntriesFine
<1> DEFINE S == Put(R, r, t)
<1>11. ReplicasOK(S) /\ S[r] = t
  BY <1>1, <1>7, <1>10, PutFacts DEF Fine
<1> HIDE DEF S
<1>12. ok \in SUBSET Message /\ \A m \in ok : MessageTrue(S, m)
  <2>1. PrepareOKMessage(op, q, FALSE, r) \in Message
    BY <1>5 DEF Message, PrepareOKType, PrepareOKMessage
  <2>2. op \in 1 .. Len(S[r].log) /\ S[r].log[op] = q
    BY <1>2, <1>5, <1>7, <1>11
  <2>3. MessageTrue(S, PrepareOKMessage(op, q, FALSE, r))
    BY <2>2 DEF MessageTrue, PrepareOKMessage
  <2> QED
    BY <2>1, <2>3
<1>13. Fine(S, r, Emit(t, ok))
  <2> HIDE DEF ok
  <2> QED
    BY <1>11, <1>12, EmitFine
<1> QED
  BY <1>3, <1>10, <1>13, FineThenFine DEF S

\* The leader gives a new request the next place, for good.
LEMMA AssignLeaderFine ==
  ASSUME NEW R, ReplicasOK(R), NEW q \in Req, NEW order,
         q.id > R[Leader].table[q.client].id,
         Len(order) \in Nat, \A i \in 1 .. Len(order) : Handles(R, Leader, order[i])
  PROVE  /\ Fine(R, Leader, Assign(Leader, R[Leader], q, order))
         /\ Assign(Leader, R[Leader], q, order).log = Append(R[Leader].log, q)
<1> USE Constants
<1> DEFINE s == R[Leader]
           op == s.lastFast + 1
           reqs == {q}
           w == UpdateClientTable(s, reqs)
           log == Append(s.log, q)
           prepare == {PrepareMessage(op, q)}
           t == [w EXCEPT !.log = Append(@, q), !.lastFast = op]
           led == [t EXCEPT !.lastSlow = op, !.lastPrepare = prepare,
                            !.pendingOKs = {}]
<1>1. s \in State /\ LocalOK(s) /\ LeaderOK(R) /\ R \in States
  BY DEF ReplicasOK, States
<1>2. /\ s.lastSlow = Len(s.log) /\ s.lastFast = Len(s.log)
      /\ s.log \in Seq(Req) /\ Len(s.log) \in Nat
      /\ s.lastCommitted \in 0 .. Len(s.log)
      /\ s.table \in [Clients -> [id : Nat, reply : Nat]]
  BY <1>1, StateFields, Places DEF LeaderOK
<1>3. Assign(Leader, s, q, order) = HandlePending(Leader, led, order)
  BY <1>2 DEF Assign
<1>4. /\ w = [s EXCEPT !.table = w.table]
      /\ w.table \in [Clients -> [id : Nat, reply : Nat]]
      /\ \A c \in Clients : /\ w.table[c].id >= s.table[c].id
                            /\ w.table[c].reply > 0 => w.table[c] = s.table[c]
      /\ \A x \in reqs : x.id <= w.table[x.client].id
  <2>1. reqs \in SUBSET Req
    OBVIOUS
  <2> HIDE DEF reqs
  <2> QED
    BY <1>1, <2>1, UpdateClientTableFields
<1> HIDE DEF w
<1>5. /\ log \in Seq(Req) /\ Len(log) = op /\ op \in Nat /\ log[op] = q
      /\ \A i \in 1 .. Len(s.log) : log[i] = s.log[i]
      /\ op = Len(s.log) + 1
  BY <1>2
<1>6. led = [s EXCEPT !.table = w.table, !.log = log, !.lastFast = op,
                      !.lastSlow = op, !.lastPrepare = prepare, !.pendingOKs = {}]
  BY <1>1, <1>4 DEF State
<1>7. prepare \in SUBSET PrepareType
  BY <1>5 DEF PrepareType, PrepareMessage
<1> HIDE DEF t, log, led, prepare, op, s
<1>8. /\ led \in State /\ led.log = log /\ led.lastCommitted = s.lastCommitted
      /\ led.lastFast = op /\ led.lastSlow = op /\ led.app = s.app
      /\ led.failed = s.failed /\ led.table = w.table /\ led.oks = s.oks
      /\ led.pendingPrepares = s.pendingPrepares /\ led.lastPrepare = prepare
      /\ led.pendingOKs = {} /\ led.out = s.out
  BY <1>1, <1>4, <1>5, <1>6, <1>7 DEF State
<1> DEFINE S == Put(R, Leader, led)
<1>9. S[Leader] = led /\ \A p \in Replicas : p # Leader => S[p] = R[p]
  BY <1>1, <1>8, PutFacts DEF s
<1> HIDE DEF S
<1>10. LocalOK(led)
  <2>1. led.app = SubSeq(led.log, 1, led.lastCommitted)
    <3>1. s.app = SubSeq(s.log, 1, s.lastCommitted)
      BY <1>1 DEF LocalOK
    <3>2. /\ s.lastCommitted \in Nat /\ s.lastCommitted <= Len(s.log)
          /\ s.lastCommitted <= Len(log)
          /\ \A i \in 1 .. s.lastCommitted : s.log[i] = log[i]
      BY <1>2, <1>5
    <3> QED
      BY <1>2, <1>5, <1>8, <3>1, <3>2, SamePrefix
  <2>2. ASSUME NEW c \in Clients, led.table[c].reply > 0
        PROVE  /\ led.table[c].reply <= led.lastCommitted
               /\ led.log[led.table[c].reply] = [client |-> c, id |-> led.table[c].id]
    <3>1. led.table[c] = s.table[c]
      BY <1>4, <1>8, <2>2
    <3>2. /\ s.table[c].reply <= s.lastCommitted
          /\ s.log[s.table[c].reply] = [client |-> c, id |-> s.table[c].id]
      BY <1>1, <2>2, <3>1 DEF LocalOK
    <3>3. s.table[c].reply \in 1 .. Len(s.log)
      BY <1>2, <2>2, <3>1, <3>2
    <3> QED
      BY <1>5, <1>8, <3>1, <3>2, <3>3
  <2>3. /\ led.lastFast = Len(led.log) /\ led.lastCommitted <= led.lastSlow
        /\ led.lastSlow <= led.lastFast
    BY <1>2, <1>5, <1>8
  <2>4. /\ led.failed = ""
        /\ IsFiniteSet(led.pendingPrepares) /\ IsFiniteSet(led.pendingOKs)
    BY <1>1, <1>8, FS_EmptySet DEF LocalOK
  <2> QED
    BY <2>1, <2>2, <2>3, <2>4 DEF LocalOK
<1>11. Extends(s, led)
  BY <1>2, <1>5, <1>8 DEF Extends
<1>12. LeaderOK(S)
  <2>1. \A i \in 1 .. op : i = op \/ i \in 1 .. Len(s.log)
    BY <1>2, <1>5
  <2>2. ASSUME NEW i \in 1 .. Len(s.log)
        PROVE  /\ log[i] = s.log[i] /\ log[i] # q
               /\ log[i].id <= led.table[log[i].client].id
    <3>1. log[i] = s.log[i] /\ log[i] \in Req
      BY <1>2, <1>5
    <3>2. log[i].id \in Nat /\ log[i].client \in Clients
      BY <3>1 DEF Req
    <3>3. led.table[log[i].client].id \in Nat /\ s.table[log[i].client].id \in Nat
      BY <1>2, <1>4, <1>8, <3>2
    <3>4. log[i].id <= s.table[log[i].client].id
      BY <1>1, <3>1 DEF LeaderOK, s
    <3>5. led.table[log[i].client].id >= s.table[log[i].client].id
      BY <1>4, <1>8, <3>2
    <3>6. q.id \in Nat /\ q.id > s.table[q.client].id
      BY DEF Req, s
    <3> QED
      BY <3>1, <3>2, <3>3, <3>4, <3>5, <3>6
  <2>3. ASSUME NEW i \in 1 .. Len(led.log)
        PROVE  led.log[i].id <= led.table[led.log[i].client].id
    <3>1. q.id <= led.table[q.client].id
      BY <1>4, <1>8
    <3> QED
      BY <1>5, <1>8, <2>1, <2>2, <3>1
  <2>4. ASSUME NEW i \in 1 .. Len(led.log), NEW j \in 1 .. Len(led.log),
               led.log[i] = led.log[j]
        PROVE  i = j
    <3>1. \A k, l \in 1 .. Len(s.log) : s.log[k] = s.log[l] => k = l
      BY <1>1 DEF LeaderOK, s
    <3> QED
      BY <1>5, <1>8, <2>1, <2>2, <2>4, <3>1
  <2>5. ASSUME NEW p \in led.lastPrepare
        PROVE  Has(led.log, p.opnum, p.req)
    <3>1. p.opnum = op /\ p.req = q
      BY <1>8 DEF prepare, PrepareMessage
    <3>2. op \in 1 .. Len(log)
      BY <1>2, <1>5
    <3> QED
      BY <1>5, <1>8, <3>1, <3>2 DEF Has
  <2>6. ASSUME NEW x \in led.oks
        PROVE  Has(S[x.from].log, x.opnum, led.log[x.opnum]) /\ x.opnum <= Len(led.log)
    <3>1. x.from \in Followers /\ x.opnum \in Nat
      BY <1>8, StateFields DEF OKType
    <3>2. Has(R[x.from].log, x.opnum, s.log[x.opnum]) /\ x.opnum <= Len(s.log)
      BY <1>1, <1>8 DEF LeaderOK, s
    <3>3. x.opnum \in 1 .. Len(s.log)
      BY <1>2, <3>1, <3>2 DEF Has
    <3>4. S[x.from] = R[x.from] /\ led.log[x.opnum] = s.log[x.opnum]
      BY <1>5, <1>8, <1>9, <3>1, <3>3
    <3>5. x.opnum <= Len(led.log)
      BY <1>2, <1>5, <1>8, <3>3
    <3> QED
      BY <3>2, <3>4, <3>5
  <2>7. led.lastSlow = led.lastFast
    BY <1>8
  <2>8. \A m \in led.pendingOKs : MessageTrue(S, m)
    BY <1>8
  <2> QED
    BY <1>9, <2>3, <2>4, <2>5, <2>6, <2>7, <2>8 DEF LeaderOK
<1>13. QuorumOK(S)
  <2>1. CASE s.lastCommitted = 0
    BY <1>8, <1>9, <2>1 DEF QuorumOK
  <2>2. CASE s.lastCommitted # 0
    <3> DEFINE lc == s.lastCommitted
    <3>1. lc \in 1 .. Len(s.log) /\ lc \in 1 .. Len(log) /\ log[lc] = s.log[lc]
      BY <1>2, <1>5, <2>2
    <3>2. ASSUME NEW p \in Replicas
          PROVE  Has(S[p].log, lc, S[Leader].log[lc]) <=> Has(R[p].log, lc, s.log[lc])
      BY <1>8, <1>9, <3>1 DEF Has, s
    <3>3. Holders(S, lc) = Holders(R, lc)
      BY <3>2 DEF Holders, s
    <3>4. S[Leader].lastCommitted = lc
      BY <1>8, <1>9
    <3> QED
      BY <3>3, <3>4 DEF ReplicasOK, QuorumOK, s
  <2> QED
    BY <2>1, <2>2
<1>14. Fine(R, Leader, led)
  BY <1>8, <1>10, <1>11, <1>12, <1>13, LeaderStep DEF Fine, S, s
<1>15. ReplicasOK(S) /\ Grows(R, S) /\ S \in States
  BY <1>14 DEF Fine, S, ReplicasOK
<1>16. ASSUME NEW i \in 1 .. Len(order)
       PROVE  Handles(S, Leader, order[i])
  <2>1. Handles(R, Leader, order[i])
    OBVIOUS
  <2>2. order[i] \in Message
    BY <2>1 DEF Handles, Message
  <2> QED
    BY <1>1, <1>15, <2>1, <2>2, MessageStable DEF Handles
<1>17. /\ Fine(S, Leader, HandlePending(Leader, led, order))
       /\ HandlePending(Leader, led, order).log = led.log
  BY <1>9, <1>15, <1>16, HandlePendingFine
<1>18. Assign(Leader, R[Leader], q, order).log = Append(R[Leader].log, q)
  BY <1>3, <1>8, <1>17 DEF s, log
<1> QED
  BY <1>3, <1>14, <1>17, <1>18, FineThenFine DEF S, s

\* A follower asks for the part of the log after what it has executed.
LEMMA AskFine ==
  ASSUME NEW R, ReplicasOK(R), NEW r \in Followers
  PROVE  Fine(R, r, RequestStateTransfer(r, R[r]))
<1> USE Constants
<1> DEFINE x == RequestStateTransferMessage(R[r].lastCommitted, r)
<1>1. R[r].lastCommitted \in Nat
  BY StateFields DEF ReplicasOK, States
<1>2. x \in Message
  BY <1>1 DEF Message, RequestStateTransferMessage
<1>3. MessageTrue(R, x)
  BY <1>1 DEF MessageTrue, RequestStateTransferMessage
<1> HIDE DEF x
<1>4. Fine(R, r, Emit(R[r], {x}))
  BY <1>2, <1>3, EmitFine
<1> QED
  BY <1>4 DEF RequestStateTransfer, x

\* HandleCommit with what the leader has executed.
LEMMA CommittedFine ==
  ASSUME NEW R, ReplicasOK(R), NEW r \in Followers,
         NEW m \in Message, m.type = "Commit", MessageTrue(R, m)
  PROVE  Fine(R, r, Committed(r, R[r], m))
<1> USE Constants
<1> DEFINE s == R[r]
           lead == R[Leader]
           op == m.opnum
           t == [s EXCEPT !.log[op] = m.req]
<1>1. /\ s \in State /\ lead \in State /\ LocalOK(s) /\ FollowerOK(lead, s)
      /\ R \in States
  BY DEF ReplicasOK, States
<1>2. op \in Nat /\ m.req \in Req
  BY DEF Message, PrepareType, PrepareOKType
<1>3. op \in 1 .. Len(lead.log) /\ lead.log[op] = m.req /\ op <= lead.lastCommitted
  BY DEF MessageTrue, Has
<1>4. /\ s.lastSlow \in Nat /\ s.lastSlow <= Len(s.log) /\ s.lastFast = Len(s.log)
      /\ s.log \in Seq(Req) /\ Len(s.log) \in Nat /\ Len(lead.log) \in Nat
  BY <1>1, StateFields, Places
<1>5. /\ s.lastSlow <= Len(lead.log)
      /\ \A i \in 1 .. s.lastSlow : s.log[i] = lead.log[i]
  BY <1>1 DEF FollowerOK
<1>6. CASE op <= s.lastCommitted \/ (op <= s.lastFast /\ op > s.lastSlow + 1)
  <2>1. Committed(r, s, m) = s
    BY <1>2, <1>4, <1>6 DEF Committed
  <2> QED
    BY <2>1, FineToStay
<1>7. CASE ~(op <= s.lastCommitted) /\ op > s.lastFast
  <2>1. Committed(r, s, m) = RequestStateTransfer(r, s)
    BY <1>7 DEF Committed
  <2> QED
    BY <2>1, AskFine
<1>8. CASE ~(op <= s.lastCommitted) /\ op <= s.lastFast /\ op <= s.lastSlow
  <2>1. Committed(r, s, m) = CommitUpTo(s, op)
    BY <1>2, <1>4, <1>8 DEF Committed
  <2>2. op \in 0 .. Len(s.log) /\ \A i \in 1 .. op : s.log[i] = lead.log[i]
    BY <1>2, <1>4, <1>5, <1>8
  <2> QED
    BY <1>3, <2>1, <2>2, FollowerCommits
<1>9. CASE ~(op <= s.lastCommitted) /\ op <= s.lastFast /\ op = s.lastSlow + 1
  <2>1. Committed(r, s, m) = CommitUpTo(t, op)
    BY <1>2, <1>4, <1>9 DEF Committed
  <2> DEFINE log == [s.log EXCEPT ![op] = m.req]
  <2>2. /\ log \in Seq(Req) /\ Len(log) = Len(s.log) /\ log[op] = m.req
        /\ \A i \in 1 .. Len(s.log) : i # op => log[i] = s.log[i]
    BY <1>2, <1>3, <1>4, <1>9
  <2>3. t = [s EXCEPT !.log = log]
    OBVIOUS
  <2> HIDE DEF log, t
  <2>4. /\ t \in State /\ t.log = log /\ t.lastCommitted = s.lastCommitted
        /\ t.lastFast = s.lastFast /\ t.lastSlow = s.lastSlow /\ t.app = s.app
        /\ t.failed = s.failed /\ t.table = s.table
        /\ t.pendingPrepares = s.pendingPrepares
        /\ t.pendingOKs = s.pendingOKs /\ t.out = s.out
    BY <1>1, <2>2, <2>3 DEF State
  <2>5. ASSUME NEW i \in 1 .. op
        PROVE  log[i] = lead.log[i]
    <3>1. CASE i = op
      BY <1>3, <2>2, <3>1
    <3>2. CASE i # op
      <4>1. i \in 1 .. s.lastSlow /\ i \in 1 .. Len(s.log)
        BY <1>4, <1>9, <3>2
      <4> QED
        BY <1>5, <2>2, <3>2, <4>1
    <3> QED
      BY <3>1, <3>2
  <2>6. \A i \in 1 .. s.lastSlow : t.log[i] = lead.log[i]
    BY <1>4, <1>9, <2>4, <2>5
  <2>7. \A i \in 1 .. Len(s.log) : t.log[i] = s.log[i] \/ Has(lead.log, i, t.log[i])
    BY <1>3, <2>2, <2>4 DEF Has
  <2>8. Fine(R, r, t)
    BY <1>4, <1>5, <2>2, <2>4, <2>6, <2>7, EntriesFine
  <2> DEFINE S == Put(R, r, t)
  <2>9. ReplicasOK(S) /\ S[r] = t /\ S[Leader] = lead
    BY <1>1, <2>4, <2>8, PutFacts DEF Fine
  <2> HIDE DEF S
  <2>10. op \in 0 .. Len(t.log) /\ \A i \in 1 .. op : t.log[i] = lead.log[i]
    BY <1>2, <1>4, <1>9, <2>2, <2>4, <2>5
  <2>11. Fine(S, r, CommitUpTo(t, op))
    BY <1>3, <2>9, <2>10, FollowerCommits
  <2> QED
    BY <2>1, <2>8, <2>11, FineThenFine DEF S
<1> QED
  BY <1>2, <1>4, <1>6, <1>7, <1>8, <1>9

\* SendPrepareOKs acknowledges entries that are the leader's.
LEMMA SendPrepareOKsFine ==
  ASSUME NEW R, ReplicasOK(R), NEW r \in Followers, NEW from \in Nat
  PROVE  Fine(R, r, SendPrepareOKs(r, R[r], from))
<1> USE Constants
<1> DEFINE s == R[r]
           ops == {op \in from .. s.lastSlow : op > s.lastCommitted}
           reqs == {s.log[op] : op \in ops}
           w == UpdateClientTable(s, reqs)
           out == {PrepareOKMessage(op, s.log[op], TRUE, r) : op \in ops}
<1>1. s \in State /\ LocalOK(s) /\ FollowerOK(R[Leader], s) /\ R \in States
  BY DEF ReplicasOK, States
<1>2. /\ s.lastSlow \in Nat /\ s.lastSlow <= Len(s.log) /\ s.lastCommitted \in Nat
      /\ s.log \in Seq(Req) /\ Len(s.log) \in Nat
      /\ R[Leader].log \in Seq(Req) /\ Len(R[Leader].log) \in Nat
  BY <1>1, StateFields, Places DEF ReplicasOK, States
<1>3. SendPrepareOKs(r, s, from) = Emit(w, out)
  BY DEF SendPrepareOKs
<1>4. ASSUME NEW op \in ops
      PROVE  /\ op \in Nat /\ op \in 1 .. Len(s.log) /\ s.log[op] \in Req
             /\ Has(R[Leader].log, op, s.log[op])
  <2>1. op \in 1 .. s.lastSlow /\ op \in 1 .. Len(s.log)
    BY <1>2
  <2>2. /\ s.lastSlow <= Len(R[Leader].log)
        /\ \A i \in 1 .. s.lastSlow : s.log[i] = R[Leader].log[i]
    BY <1>1 DEF FollowerOK
  <2>3. op \in 1 .. Len(R[Leader].log)
    BY <1>2, <2>1, <2>2
  <2> QED
    BY <1>2, <2>1, <2>2, <2>3 DEF Has
<1> HIDE DEF ops
<1>5. reqs \in SUBSET Req
  BY <1>4
<1> HIDE DEF reqs
<1>6. /\ w = [s EXCEPT !.table = w.table]
      /\ w.table \in [Clients -> [id : Nat, reply : Nat]]
      /\ \A c \in Clients : /\ w.table[c].id >= s.table[c].id
                            /\ w.table[c].reply > 0 => w.table[c] = s.table[c]
  BY <1>1, <1>5, UpdateClientTableFields
<1> HIDE DEF w
<1>7. /\ w \in State /\ w.log = s.log /\ w.lastCommitted = s.lastCommitted
      /\ w.lastFast = s.lastFast /\ w.lastSlow = s.lastSlow /\ w.app = s.app
      /\ w.failed = s.failed /\ w.oks = s.oks /\ w.lastPrepare = s.lastPrepare
      /\ w.pendingPrepares = s.pendingPrepares
      /\ w.pendingOKs = s.pendingOKs /\ w.out = s.out
  BY <1>1, <1>6 DEF State
<1>8. IsFiniteSet(w.pendingPrepares) /\ IsFiniteSet(w.pendingOKs)
  BY <1>1, <1>7 DEF LocalOK
<1>9. Fine(R, r, w)
  BY <1>6, <1>7, <1>8, Quiet
<1> DEFINE S == Put(R, r, w)
<1>10. ReplicasOK(S) /\ S[r] = w /\ S[Leader] = R[Leader]
  BY <1>1, <1>7, <1>9, PutFacts DEF Fine
<1> HIDE DEF S
<1>11. ASSUME NEW x \in out
       PROVE  x \in Message /\ MessageTrue(S, x)
  <2>1. PICK op \in ops : x = PrepareOKMessage(op, s.log[op], TRUE, r)
    OBVIOUS
  <2>2. /\ op \in Nat /\ op \in 1 .. Len(s.log) /\ s.log[op] \in Req
        /\ Has(R[Leader].log, op, s.log[op])
    BY <1>4, <2>1
  <2>3. x \in Message
    BY <2>1, <2>2 DEF Message, PrepareOKType, PrepareOKMessage
  <2>4. /\ x.type = "PrepareOK" /\ x.opnum = op /\ x.slowpath = TRUE /\ x.from = r
    BY <2>1 DEF PrepareOKMessage
  <2>5. MessageTrue(S, x)
    BY <1>7, <1>10, <2>2, <2>4 DEF MessageTrue
  <2> QED
    BY <2>3, <2>5
<1> HIDE DEF out
<1>12. Fine(S, r, Emit(w, out))
  BY <1>10, <1>11, EmitFine
<1> QED
  BY <1>3, <1>9, <1>12, FineThenFine DEF S

\* HandleStateTransfer with a part of the leader's log.
LEMMA InstallFine ==
  ASSUME NEW R, ReplicasOK(R), NEW r \in Followers, NEW m \in Message,
         m.type = "StateTransfer", m.to = r, MessageTrue(R, m)
  PROVE  LET t == Install(R[r], m)
         IN  /\ Fine(R, r, t) /\ m.opnum \in 0 .. t.lastSlow
             /\ t.failed = "" /\ t.lastSlow <= t.lastFast
             /\ t.pendingPrepares = R[r].pendingPrepares
<1> USE Constants
<1> DEFINE s == R[r]
           lead == R[Leader]
           last == m.begin + Len(m.entries)
           log == [op \in 1 .. Larger(Len(s.log), last) |->
                     IF op > s.lastSlow /\ op <= last THEN m.entries[op - m.begin]
                     ELSE s.log[op]]
           t == [s EXCEPT !.log = log, !.lastSlow = Larger(@, last),
                          !.lastFast = Larger(@, last)]
<1>1. /\ s \in State /\ lead \in State /\ LocalOK(s) /\ FollowerOK(lead, s)
      /\ R \in States
  BY DEF ReplicasOK, States
<1>2. m.begin \in Nat /\ m.entries \in Seq(Req) /\ m.opnum \in Nat
  BY DEF Message, PrepareType, PrepareOKType
<1>3. /\ m.begin <= s.lastCommitted /\ last <= Len(lead.log) /\ m.opnum <= last
      /\ \A i \in 1 .. Len(m.entries) : m.entries[i] = lead.log[m.begin + i]
  BY DEF MessageTrue
<1>4. /\ s.lastSlow \in Nat /\ s.lastSlow <= Len(s.log) /\ s.lastFast = Len(s.log)
      /\ s.log \in Seq(Req) /\ Len(s.log) \in Nat /\ Len(lead.log) \in Nat
      /\ s.lastCommitted \in Nat /\ s.lastCommitted <= s.lastSlow
      /\ s.table \in [Clients -> [id : Nat, reply : Nat]]
  BY <1>1, StateFields, Places
<1>5. last \in Nat /\ m.begin <= s.lastSlow /\ Len(m.entries) \in Nat
  BY <1>2, <1>3, <1>4
<1>6. Install(s, m) = t
  BY <1>2, <1>4, <1>5 DEF Install
<1> DEFINE n == Larger(Len(s.log), last)
           slow == Larger(s.lastSlow, last)
<1>7. /\ n \in Nat /\ slow \in Nat /\ Len(s.log) <= n /\ s.lastSlow <= slow
      /\ slow <= n /\ last <= slow /\ (slow = s.lastSlow \/ slow = last)
      /\ Larger(s.lastFast, last) = n
  BY <1>4, <1>5 DEF Larger
<1>8. ASSUME NEW i \in 1 .. n, i > s.lastSlow, i <= last
      PROVE  /\ m.entries[i - m.begin] = lead.log[i]
             /\ m.entries[i - m.begin] \in Req
             /\ i \in 1 .. Len(lead.log)
  <2>1. i - m.begin \in 1 .. Len(m.entries) /\ m.begin + (i - m.begin) = i
    BY <1>2, <1>4, <1>5, <1>7, <1>8
  <2>2. i \in 1 .. Len(lead.log)
    BY <1>3, <1>4, <1>5, <1>7, <1>8
  <2>3. m.entries[i - m.begin] \in Req
    BY <1>2, <2>1
  <2> QED
    BY <1>3, <2>1, <2>2, <2>3
<1> HIDE DEF n, slow, last
<1>9. ASSUME NEW i \in 1 .. n, ~(i > s.lastSlow /\ i <= last)
      PROVE  i \in 1 .. Len(s.log)
  BY <1>4, <1>5, <1>7, <1>9 DEF n, Larger
<1>10. /\ log \in Seq(Req) /\ Len(log) = n
       /\ \A i \in 1 .. n : log[i] = IF i > s.lastSlow /\ i <= last
                                     THEN m.entries[i - m.begin] ELSE s.log[i]
  <2>1. log = [i \in 1 .. n |-> IF i > s.lastSlow /\ i <= last
                                THEN m.entries[i - m.begin] ELSE s.log[i]]
    BY DEF n
  <2> HIDE DEF log
  <2>2. ASSUME NEW i \in 1 .. n
        PROVE  (IF i > s.lastSlow /\ i <= last
                THEN m.entries[i - m.begin] ELSE s.log[i]) \in Req
    <3>1. CASE i > s.lastSlow /\ i <= last
      BY <1>8, <3>1
    <3>2. CASE ~(i > s.lastSlow /\ i <= last)
      BY <1>4, <1>9, <3>2
    <3> QED
      BY <3>1, <3>2
  <2>3. log \in [1 .. n -> Req]
    BY <2>1, <2>2
  <2> QED
    BY <1>7, <2>1, <2>3
<1> HIDE DEF log
<1>11. t = [s EXCEPT !.log = log, !.lastSlow = slow, !.lastFast = n]
  BY <1>7 DEF slow
<1> HIDE DEF t
<1>12. /\ t \in State /\ t.log = log /\ t.lastCommitted = s.lastCommitted
       /\ t.lastFast = n /\ t.lastSlow = slow /\ t.app = s.app
       /\ t.failed = s.failed /\ t.table = s.table
       /\ t.pendingPrepares = s.pendingPrepares
       /\ t.pendingOKs = s.pendingOKs /\ t.out = s.out
  BY <1>1, <1>7, <1>10, <1>11 DEF State
<1>13. ASSUME NEW i \in 1 .. slow
       PROVE  t.log[i] = lead.log[i]
  <2>1. i \in 1 .. n
    BY <1>7
  <2>2. CASE i > s.lastSlow /\ i <= last
    BY <1>8, <1>10, <1>12, <2>1, <2>2
  <2>3. CASE ~(i > s.lastSlow /\ i <= last)
    <3>1. i \in 1 .. s.lastSlow
      BY <1>4, <1>5, <1>7, <2>3
    <3>2. s.log[i] = lead.log[i]
      BY <1>1, <3>1 DEF FollowerOK
    <3> QED
      BY <1>10, <1>12, <2>1, <2>3, <3>2
  <2> QED
    BY <2>2, <2>3
<1>14. ASSUME NEW i \in 1 .. Len(s.log)
       PROVE  t.log[i] = s.log[i] \/ Has(lead.log, i, t.log[i])
  <2>1. i \in 1 .. n
    BY <1>4, <1>7
  <2> QED
    BY <1>8, <1>10, <1>12, <2>1 DEF Has
<1>15. slow <= Len(lead.log)
  <2>1. s.lastSlow <= Len(lead.log)
    BY <1>1 DEF FollowerOK
  <2> QED
    BY <1>3, <1>7, <2>1 DEF last
<1>16. Fine(R, r, t)
  BY <1>7, <1>10, <1>12, <1>13, <1>14, <1>15, EntriesFine
<1>17. m.opnum \in 0 .. t.lastSlow
  BY <1>2, <1>3, <1>5, <1>7, <1>12 DEF last
<1>18. t.failed = "" /\ t.lastSlow <= t.lastFast
  BY <1>1, <1>7, <1>12 DEF LocalOK
<1> QED
  BY <1>6, <1>12, <1>16, <1>17, <1>18

\* The whole of HandleStateTransfer may be done: the entries are installed, the
\* committed ones executed and the kept Prepares handled.
LEMMA TransferredFine ==
  ASSUME NEW R, ReplicasOK(R), NEW r \in Followers, NEW m \in Message,
         m.type = "StateTransfer", m.to = r, MessageTrue(R, m),
         NEW order, Len(order) \in Nat,
         \A i \in 1 .. Len(order) : Handles(R, r, order[i])
  PROVE  Fine(R, r, Transferred(r, R[r], m, order))
<1> USE Constants
<1> DEFINE s == R[r]
           t == Install(s, m)
           v == CommitUpTo(t, m.opnum)
           u == SendPrepareOKs(r, v, s.lastSlow)
           w == [u EXCEPT !.pendingPrepares = {}]
<1>1. R \in States /\ s \in State /\ s.lastSlow \in Nat /\ m.opnum \in Nat
  BY StateFields DEF ReplicasOK, States, Message, PrepareType, PrepareOKType
<1>2. /\ Fine(R, r, t) /\ m.opnum \in 0 .. t.lastSlow
      /\ t.lastSlow <= t.lastFast
  BY InstallFine
<1> HIDE DEF t
<1> DEFINE R1 == Put(R, r, t)
<1>3. /\ t \in State /\ ReplicasOK(R1) /\ R1[r] = t /\ R1[Leader] = R[Leader]
      /\ t.lastSlow \in Nat /\ t.lastFast \in Nat /\ Len(t.log) \in Nat
  BY <1>1, <1>2, PutFacts, StateFields DEF Fine
<1> HIDE DEF s
<1>4. Transferred(r, s, m, order) = HandlePending(r, w, order)
  <2>1. t.failed = ""
    BY InstallFine DEF t, s
  <2>2. ~(m.opnum > t.lastSlow) /\ ~(t.lastSlow > t.lastFast)
    BY <1>1, <1>2, <1>3
  <2> QED
    BY <2>1, <2>2, Zenon DEF Transferred, t
<1> HIDE DEF R1
<1>5. Fine(R1, r, v)
  <2>1. LocalOK(t) /\ FollowerOK(R[Leader], t)
    BY <1>3 DEF ReplicasOK
  <2>2. m.opnum \in 0 .. Len(t.log)
    <3>1. t.lastSlow \in 0 .. Len(t.log)
      BY <1>3, <2>1, Places
    <3> QED
      BY <1>2, <1>3, <3>1
  <2>3. \A i \in 1 .. m.opnum : t.log[i] = R[Leader].log[i]
    <3>1. \A i \in 1 .. m.opnum : i \in 1 .. t.lastSlow
      BY <1>2, <1>3
    <3> QED
      BY <2>1, <3>1 DEF FollowerOK
  <2>4. m.opnum <= R[Leader].lastCommitted
    BY DEF MessageTrue
  <2> QED
    BY <1>3, <2>2, <2>3, <2>4, FollowerCommits
<1>6. Fine(R, r, v)
  BY <1>2, <1>5, FineThenFine DEF R1, s, t
<1> DEFINE R2 == Put(R, r, v)
<1>7. ReplicasOK(R2) /\ R2[r] = v
  BY <1>1, <1>6, PutFacts DEF Fine
<1> HIDE DEF v, R2
<1>8. Fine(R2, r, u)
  BY <1>1, <1>7, SendPrepareOKsFine
<1>9. Fine(R, r, u)
  BY <1>6, <1>8, FineThenFine DEF R2
<1> DEFINE R3 == Put(R, r, u)
<1>10. u \in State /\ ReplicasOK(R3) /\ R3[r] = u
  BY <1>1, <1>9, PutFacts DEF Fine
<1>11. /\ w \in State /\ w.log = u.log /\ w.lastCommitted = u.lastCommitted
       /\ w.lastFast = u.lastFast /\ w.lastSlow = u.lastSlow /\ w.app = u.app
       /\ w.failed = u.failed /\ w.oks = u.oks /\ w.lastPrepare = u.lastPrepare
       /\ w.table = u.table /\ w.pendingPrepares = {}
       /\ w.pendingOKs = u.pendingOKs /\ w.out = u.out
  <2> HIDE DEF u
  <2> QED
    BY <1>10 DEF State
<1> HIDE DEF u, w, R3
<1>12. Fine(R3, r, w)
  <2>1. IsFiniteSet(w.pendingPrepares) /\ IsFiniteSet(w.pendingOKs)
    BY <1>10, <1>11, FS_EmptySet DEF ReplicasOK, LocalOK
  <2>2. \A c \in Clients : w.table[c].id >= u.table[c].id
    BY <1>10, <1>11, StateFields
  <2> QED
    BY <1>10, <1>11, <2>1, <2>2, Quiet
<1>13. Fine(R, r, w)
  BY <1>9, <1>12, FineThenFine DEF R3
<1> DEFINE R4 == Put(R, r, w)
<1>14. ReplicasOK(R4) /\ R4[r] = w /\ Grows(R, R4) /\ R4 \in States
  BY <1>1, <1>13, PutFacts DEF Fine
<1> HIDE DEF R4
<1>15. ASSUME NEW i \in 1 .. Len(order)
       PROVE  Handles(R4, r, order[i])
  <2>1. Handles(R, r, order[i])
    OBVIOUS
  <2>2. order[i] \in Message
    BY <2>1 DEF Handles, Message
  <2> QED
    BY <1>1, <1>14, <2>1, <2>2, MessageStable DEF Handles
<1>16. Fine(R4, r, HandlePending(r, w, order))
  BY <1>14, <1>15, HandlePendingFine
<1> QED
  BY <1>4, <1>13, <1>16, FineThenFine DEF R4, s

-----------------------------------------------------------------------------
(* The inductive invariant.                                                  *)

\* No replica has anything at first.
LEMMA InitInv == Init => Inv
<1> USE Constants
<1> SUFFICES ASSUME Init
             PROVE  Inv
  OBVIOUS
<1>1. NewReplica \in State
  <2> DEFINE blank(f) ==
        [lastCommitted |-> 0, lastFast |-> 0, lastSlow |-> 0, log |-> <<>>,
         table |-> [c \in Clients |-> [id |-> 0, reply |-> 0]],
         addrs |-> {}, app |-> <<>>, oks |-> {},
         pendingPrepares |-> {}, pendingOKs |-> {}, lastPrepare |-> {},
         failed |-> f, out |-> {}]
  <2>1. \A f \in Failure : blank(f) \in State
    BY DEF State
  <2>2. "" \in Failure
    BY Zenon DEF Failure
  <2>3. NewReplica = blank("")
    BY Zenon DEF NewReplica
  <2> HIDE DEF blank
  <2> QED
    BY <2>1, <2>2, <2>3, Zenon
<1>2. rep \in States /\ \A r \in Replicas : rep[r] = NewReplica
  BY <1>1 DEF Init, ReplicaInit, States
<1>3. /\ NewReplica.log = <<>> /\ NewReplica.lastFast = 0
      /\ NewReplica.lastSlow = 0 /\ NewReplica.lastCommitted = 0
      /\ NewReplica.app = <<>> /\ NewReplica.out = {}
      /\ NewReplica.pendingPrepares = {} /\ NewReplica.pendingOKs = {}
      /\ NewReplica.oks = {} /\ NewReplica.lastPrepare = {}
      /\ \A c \in Clients : NewReplica.table[c].reply = 0
  BY DEF NewReplica
<1>4. LocalOK(NewReplica)
  <2>1. NewReplica.failed = ""
    BY Zenon DEF NewReplica
  <2>2. SubSeq(<<>>, 1, 0) = <<>>
    BY SubSeqEmpty
  <2>3. /\ IsFiniteSet(NewReplica.pendingPrepares)
        /\ IsFiniteSet(NewReplica.pendingOKs)
    BY <1>3, FS_EmptySet
  <2>4. /\ NewReplica.lastFast = Len(NewReplica.log)
        /\ NewReplica.lastCommitted <= NewReplica.lastSlow
        /\ NewReplica.lastSlow <= NewReplica.lastFast
        /\ NewReplica.app = SubSeq(NewReplica.log, 1, NewReplica.lastCommitted)
    BY <1>3, <2>2
  <2>5. \A c \in Clients : ~(NewReplica.table[c].reply > 0)
    BY <1>3
  <2> QED
    BY <2>1, <2>3, <2>4, <2>5, Zenon DEF LocalOK
<1>5. \A r \in Followers : FollowerOK(rep[Leader], rep[r])
  BY <1>2, <1>3 DEF FollowerOK
<1>6. LeaderOK(rep)
  BY <1>2, <1>3 DEF LeaderOK
<1>7. QuorumOK(rep)
  BY <1>2, <1>3 DEF QuorumOK
<1>8. ReplicasOK(rep)
  BY <1>2, <1>3, <1>4, <1>5, <1>6, <1>7 DEF ReplicasOK
<1>9. ClientsOK
  BY DEF Init, ClientInit, ClientsOK
<1> QED
  BY <1>2, <1>3, <1>8, <1>9 DEF Inv, Init, ReplicaInit

\* A handler that ends in a fine state keeps the invariant.
LEMMA StepKeepsInv ==
  ASSUME Inv, NEW r \in Replicas, NEW s, Fine(rep, r, s), Step(r, s),
         UNCHANGED clientVars
  PROVE  Inv' /\ Grows(rep, rep')
<1> USE Constants
<1> DEFINE S == Put(rep, r, s)
           t == [s EXCEPT !.out = {}]
<1>1. /\ rep \in States /\ s \in State /\ ReplicasOK(S) /\ Grows(rep, S)
      /\ S \in States /\ S[r] = s /\ \A p \in Replicas : p # r => S[p] = rep[p]
  BY PutFacts DEF Inv, ReplicasOK, Fine
<1>2. /\ t \in State /\ t.log = s.log /\ t.lastCommitted = s.lastCommitted
      /\ t.lastFast = s.lastFast /\ t.lastSlow = s.lastSlow /\ t.app = s.app
      /\ t.failed = s.failed /\ t.oks = s.oks /\ t.lastPrepare = s.lastPrepare
      /\ t.table = s.table /\ t.pendingPrepares = s.pendingPrepares
      /\ t.pendingOKs = s.pendingOKs /\ t.out = {}
  BY <1>1 DEF State
<1>3. rep' = [rep EXCEPT ![r] = t]
  BY DEF Step
<1>4. rep' = Put(S, r, t)
  BY <1>1, <1>3 DEF Put, States
<1> HIDE DEF S, t
<1>5. Fine(S, r, t)
  <2>1. IsFiniteSet(t.pendingPrepares) /\ IsFiniteSet(t.pendingOKs)
    BY <1>1, <1>2 DEF ReplicasOK, LocalOK
  <2>2. \A c \in Clients : t.table[c].id >= s.table[c].id
    BY <1>1, <1>2, StateFields
  <2> QED
    BY <1>1, <1>2, <2>1, <2>2, Quiet
<1>6. ReplicasOK(rep') /\ Grows(S, rep') /\ rep' \in States
  BY <1>4, <1>5 DEF Fine, ReplicasOK
<1>7. Grows(rep, rep')
  BY <1>1, <1>6, GrowsTransitive
<1>8. \A p \in Replicas : rep'[p].out = {}
  <2>1. \A p \in Replicas : rep[p].out = {}
    BY DEF Inv
  <2> QED
    BY <1>1, <1>2, <1>3, <2>1 DEF States
<1>9. /\ msgs' \subseteq Message
      /\ \A m \in msgs' : m.type # "Request" => MessageTrue(rep', m)
  <2>1. ASSUME NEW m \in msgs'
        PROVE  m \in Message /\ (m.type # "Request" => MessageTrue(rep', m))
    <3>1. m \in msgs \/ m \in s.out
      BY DEF Step, Send
    <3>2. CASE m \in msgs
      BY <1>1, <1>6, <1>7, <3>2, MessageStable DEF Inv
    <3>3. CASE m \in s.out
      <4>1. m \in Message
        BY <1>1, <3>3, StateFields
      <4>2. MessageTrue(S, m)
        BY <1>1, <3>3 DEF ReplicasOK
      <4> QED
        BY <1>1, <1>6, <4>1, <4>2, MessageStable
    <3> QED
      BY <3>1, <3>2, <3>3
  <2> QED
    BY <2>1
<1>10. ClientsOK'
  <2>1. \A a \in accepted : MessageTrue(rep', a)
    BY <1>1, <1>6, <1>7, MessageStable DEF Inv, ClientsOK
  <2> QED
    BY <2>1 DEF Inv, ClientsOK, clientVars
<1> QED
  BY <1>6, <1>7, <1>8, <1>9, <1>10 DEF Inv

\* A client's step keeps it: requests are new messages, and a completed reply
\* is one that was sent.
LEMMA ClientKeepsInv ==
  ASSUME Inv, ClientNext
  PROVE  Inv' /\ Grows(rep, rep')
<1> USE Constants
<1>1. rep' = rep /\ ReplicasOK(rep) /\ rep \in States
  BY DEF ClientNext, Inv, ReplicasOK
<1>2. Grows(rep, rep')
  <2>1. \A p \in Replicas : rep[p] \in State
    BY <1>1 DEF States
  <2> QED
    BY <1>1, <2>1, StateFields DEF Grows, Has
<1>3. PICK c \in Clients :
        \/ Invoke(c)
        \/ \E m \in Sent("Reply") : HandleReply(c, m)
        \/ \E r \in Replicas : InvokeUnlogged(c, r)
        \/ \E m \in Sent("UnloggedReply") : HandleUnloggedReply(c, m)
        \/ UnloggedRequestTimeoutCallback(c)
  BY DEF ClientNext
<1>4. lastReqId[c] \in Nat
  BY DEF Inv, ClientsOK
<1>5. CASE Invoke(c)
  <2> DEFINE m == RequestMessage([client |-> c, id |-> lastReqId[c] + 1])
  <2>1. lastReqId[c] + 1 \in 1 .. MaxReq
    BY <1>4, <1>5 DEF Invoke
  <2>2. m \in Message
    BY <2>1 DEF RequestMessage, Message, Req
  <2>3. m.type = "Request"
    BY DEF RequestMessage
  <2>4. msgs' \subseteq msgs \cup {m}
    BY <1>5 DEF Invoke, Send
  <2>5. lastReqId' \in [Clients -> Nat] /\ accepted' = accepted
    BY <1>4, <1>5 DEF Invoke, Inv, ClientsOK
  <2> HIDE DEF m
  <2> QED
    BY <1>1, <1>2, <2>2, <2>3, <2>4, <2>5 DEF Inv, ClientsOK
<1>6. CASE \E m \in Sent("Reply") : HandleReply(c, m)
  <2>1. PICK m \in Sent("Reply") : HandleReply(c, m)
    BY <1>6
  <2>2. m \in msgs /\ m.type = "Reply"
    BY DEF Sent
  <2>3. /\ accepted' = accepted \cup {m} /\ msgs' = msgs /\ lastReqId' = lastReqId
    BY <2>1 DEF HandleReply
  <2> QED
    BY <1>1, <1>2, <2>2, <2>3 DEF Inv, ClientsOK
<1>7. CASE \E r \in Replicas : InvokeUnlogged(c, r)
  <2>1. PICK r \in Replicas : InvokeUnlogged(c, r)
    BY <1>7
  <2> DEFINE m == UnloggedRequestMessage([client |-> c, id |-> lastReqId[c] + 1], r)
  <2>2. m \in Message
    BY <1>4 DEF UnloggedRequestMessage, Message
  <2>3. MessageTrue(rep, m)
    BY DEF MessageTrue, UnloggedRequestMessage
  <2>4. msgs' \subseteq msgs \cup {m}
    BY <2>1 DEF InvokeUnlogged, Send
  <2>5. lastReqId' \in [Clients -> Nat] /\ accepted' = accepted
    BY <1>4, <2>1 DEF InvokeUnlogged, Inv, ClientsOK
  <2> HIDE DEF m
  <2> QED
    BY <1>1, <1>2, <2>2, <2>3, <2>4, <2>5 DEF Inv, ClientsOK
<1>8. CASE \/ \E m \in Sent("UnloggedReply") : HandleUnloggedReply(c, m)
           \/ UnloggedRequestTimeoutCallback(c)
  <2>1. msgs' = msgs /\ lastReqId' = lastReqId /\ accepted' = accepted
    BY <1>8 DEF HandleUnloggedReply, UnloggedRequestTimeoutCallback
  <2> QED
    BY <1>1, <1>2, <2>1 DEF Inv, ClientsOK
<1> QED
  BY <1>3, <1>5, <1>6, <1>7, <1>8

\* HandleRequest: the client's address is learnt first; then nothing, the
\* answer from the client table, or a place for the request.
LEMMA HandleRequestFine ==
  ASSUME NEW R, ReplicasOK(R), NEW r \in Replicas, NEW q \in Req
  PROVE  LET s == [R[r] EXCEPT !.addrs = @ \cup {q.client}]
             known == s.table[q.client]
         IN  /\ Fine(R, r, s) /\ s.log = R[r].log
             /\ q.id = known.id /\ known.reply > 0 =>
                  Fine(R, r, Emit(s, {ReplyMessage(known.reply, q)}))
             /\ q.id > known.id =>
                  \A order \in SetToSeqs(s.pendingOKs) :
                    /\ Fine(R, r, Assign(r, s, q, order))
                    /\ r = Leader =>
                         Assign(r, s, q, order).log = Append(R[r].log, q)
<1> USE Constants
<1> DEFINE s == [R[r] EXCEPT !.addrs = @ \cup {q.client}]
           known == s.table[q.client]
           S == Put(R, r, s)
<1>1. R[r] \in State /\ R \in States /\ q.client \in Clients /\ q.id \in Nat
  BY DEF ReplicasOK, States, Req
<1>2. /\ s \in State /\ s.log = R[r].log /\ s.lastCommitted = R[r].lastCommitted
      /\ s.lastFast = R[r].lastFast /\ s.lastSlow = R[r].lastSlow
      /\ s.app = R[r].app /\ s.failed = R[r].failed /\ s.oks = R[r].oks
      /\ s.table = R[r].table /\ s.pendingPrepares = R[r].pendingPrepares
      /\ s.pendingOKs = R[r].pendingOKs /\ s.lastPrepare = R[r].lastPrepare
      /\ s.out = R[r].out
  BY <1>1 DEF State
<1> HIDE DEF s
<1>3. Fine(R, r, s)
  <2>1. IsFiniteSet(s.pendingPrepares) /\ IsFiniteSet(s.pendingOKs)
    BY <1>2 DEF ReplicasOK, LocalOK
  <2>2. \A c \in Clients : s.table[c].id >= R[r].table[c].id
    BY <1>1, <1>2, StateFields
  <2> QED
    BY <1>2, <2>1, <2>2, Quiet
<1>4. ReplicasOK(S) /\ S[r] = s /\ S \in States
  BY <1>1, <1>2, <1>3, PutFacts DEF Fine
<1> HIDE DEF S
<1>5. ASSUME q.id = known.id, known.reply > 0
      PROVE  Fine(R, r, Emit(s, {ReplyMessage(known.reply, q)}))
  <2> DEFINE m == ReplyMessage(known.reply, q)
             lead == S[Leader]
  <2>1. known.reply \in Nat /\ known.id \in Nat
    BY <1>1, <1>2, StateFields
  <2>2. known.reply <= s.lastCommitted
        /\ s.log[known.reply] = [client |-> q.client, id |-> known.id]
    BY <1>1, <1>4, <1>5 DEF ReplicasOK, LocalOK
  <2>3. q = [client |-> q.client, id |-> known.id]
    BY <1>5 DEF Req
  <2>4. lead \in State /\ LocalOK(lead) /\ LocalOK(s)
    BY <1>4 DEF ReplicasOK, States
  <2>5. /\ s.lastCommitted \in Nat /\ lead.lastCommitted \in Nat
        /\ Len(lead.log) \in Nat /\ lead.lastCommitted <= Len(lead.log)
        /\ s.lastCommitted <= s.lastSlow /\ s.lastSlow \in Nat
    <3> HIDE DEF lead
    <3>1. /\ s.lastCommitted \in Nat /\ s.lastSlow \in Nat
          /\ lead.lastCommitted \in Nat /\ Len(lead.log) \in Nat
      BY <1>2, <2>4, StateFields
    <3>2. s.lastCommitted \in 0 .. s.lastSlow
      BY <1>2, <2>4, Places
    <3>3. lead.lastCommitted \in 0 .. Len(lead.log)
      BY <2>4, Places
    <3> QED
      BY <3>1, <3>2, <3>3
  <2>6. /\ s.lastCommitted <= lead.lastCommitted
        /\ lead.log[known.reply] = s.log[known.reply]
    <3>1. CASE r = Leader
      BY <1>4, <2>5, <3>1
    <3>2. CASE r # Leader
      <4>1. FollowerOK(lead, s)
        BY <1>4, <3>2 DEF ReplicasOK
      <4>2. known.reply \in 1 .. s.lastSlow
        BY <1>5, <2>1, <2>2, <2>5
      <4> QED
        BY <4>1, <4>2 DEF FollowerOK
    <3> QED
      BY <3>1, <3>2
  <2>7. /\ known.reply \in 1 .. Len(lead.log) /\ known.reply <= lead.lastCommitted
    BY <1>5, <2>1, <2>2, <2>5, <2>6
  <2>8. m \in Message /\ m.type = "Reply" /\ m.opnum = known.reply /\ m.req = q
    BY <2>1 DEF ReplyMessage, Message
  <2>9. lead.log[known.reply] = q
    BY <2>2, <2>3, <2>6
  <2> HIDE DEF m, known
  <2>10. MessageTrue(S, m)
    BY <2>7, <2>8, <2>9 DEF MessageTrue, Has
  <2>11. Fine(S, r, Emit(S[r], {m}))
    BY <1>4, <2>8, <2>10, EmitFine
  <2> QED
    BY <1>3, <1>4, <2>11, FineThenFine DEF S, m, known
<1>6. ASSUME q.id > known.id, NEW order \in SetToSeqs(s.pendingOKs)
      PROVE  /\ Fine(R, r, Assign(r, s, q, order))
             /\ r = Leader => Assign(r, s, q, order).log = Append(R[r].log, q)
  <2>1. LocalOK(s) /\ LeaderOK(S)
    BY <1>4 DEF ReplicasOK
  <2>2. Len(order) \in Nat /\ \A i \in 1 .. Len(order) : order[i] \in s.pendingOKs
    BY <2>1, OrderFacts DEF LocalOK
  <2>3. /\ Fine(S, r, Assign(r, s, q, order))
        /\ r = Leader => Assign(r, s, q, order).log = Append(s.log, q)
    <3>1. CASE r = Leader
      <4>1. \A i \in 1 .. Len(order) : Handles(S, Leader, order[i])
        <5>1. \A i \in 1 .. Len(order) : order[i] \in PrepareOKType
          BY <1>2, <2>2, StateFields
        <5>2. \A i \in 1 .. Len(order) : MessageTrue(S, order[i])
          BY <1>4, <2>1, <2>2, <3>1 DEF LeaderOK
        <5> QED
          BY <5>1, <5>2 DEF Handles
      <4>2. q.id > S[Leader].table[q.client].id
        BY <1>4, <1>6, <3>1
      <4> QED
        BY <1>4, <2>2, <3>1, <4>1, <4>2, AssignLeaderFine
    <3>2. CASE r # Leader
      BY <1>4, <3>2, AssignFollowerFine
    <3> QED
      BY <3>1, <3>2
  <2> QED
    BY <1>2, <1>3, <2>3, FineThenFine DEF S
<1> HIDE DEF known
<1> QED
  BY <1>2, <1>3, <1>5, <1>6 DEF s, known

\* HandleRequestStateTransfer: the leader's log after the place asked for.
LEMMA SendTransferFine ==
  ASSUME NEW R, ReplicasOK(R), NEW m \in Message,
         m.type = "RequestStateTransfer", MessageTrue(R, m)
  PROVE  /\ R[Leader].lastSlow = R[Leader].lastFast
         /\ Fine(R, Leader, Emit(R[Leader],
              {StateTransferMessage(m.opnum,
                 SubSeq(R[Leader].log, m.opnum + 1, Len(R[Leader].log)),
                 R[Leader].lastCommitted, m.from)}))
<1> USE Constants
<1> DEFINE s == R[Leader]
           entries == SubSeq(s.log, m.opnum + 1, Len(s.log))
           x == StateTransferMessage(m.opnum, entries, s.lastCommitted, m.from)
<1>1. /\ m.opnum \in Nat /\ m.from \in Followers
  BY DEF Message, PrepareType, PrepareOKType
<1>2. /\ s \in State /\ LocalOK(s) /\ R[m.from] \in State /\ LeaderOK(R)
      /\ FollowerOK(s, R[m.from])
  BY <1>1 DEF ReplicasOK, States
<1>3. /\ s.lastCommitted \in Nat /\ s.log \in Seq(Req) /\ Len(s.log) \in Nat
      /\ R[m.from].lastCommitted \in Nat
  BY <1>2, StateFields
<1>4. s.lastCommitted <= Len(s.log)
  <2> HIDE DEF s
  <2>1. s.lastCommitted \in 0 .. Len(s.log)
    BY <1>2, Places
  <2> QED
    BY <1>3, <2>1
<1>5. m.opnum <= R[m.from].lastCommitted /\ m.opnum <= s.lastCommitted
  <2>1. m.opnum <= R[m.from].lastCommitted
    BY DEF MessageTrue
  <2>2. R[m.from].lastCommitted <= s.lastCommitted
    BY <1>2 DEF FollowerOK
  <2> QED
    BY <1>1, <1>3, <2>1, <2>2
<1>6. /\ entries \in Seq(Req) /\ Len(entries) = Len(s.log) - m.opnum
      /\ \A i \in 1 .. Len(entries) : entries[i] = s.log[m.opnum + i]
  <2>1. m.opnum <= Len(s.log)
    BY <1>1, <1>3, <1>4, <1>5
  <2> DEFINE a == m.opnum + 1
             b == Len(s.log)
             L == s.log
  <2>2. \A i \in a .. b : L[i] \in Req
    BY <1>1, <1>3
  <2>3. a \in Int /\ b \in Int /\ a <= b + 1 /\ b - a + 1 = b - m.opnum
    BY <1>1, <1>3, <2>1
  <2>4. \A i \in 1 .. b - a + 1 : a + i - 1 = m.opnum + i
    BY <1>1, <1>3
  <2> HIDE DEF a, b, L
  <2>5. /\ SubSeq(L, a, b) \in Seq(Req)
        /\ Len(SubSeq(L, a, b)) = IF a <= b THEN b - a + 1 ELSE 0
        /\ \A i \in 1 .. b - a + 1 : SubSeq(L, a, b)[i] = L[a + i - 1]
    BY <2>2, <2>3, SubSeqProperties
  <2>6. Len(SubSeq(L, a, b)) = b - a + 1
    BY <2>3, <2>5
  <2> QED
    BY <2>3, <2>4, <2>5, <2>6 DEF a, b, L
<1> HIDE DEF entries
<1>7. /\ x \in Message /\ x.type = "StateTransfer" /\ x.begin = m.opnum
      /\ x.entries = entries /\ x.opnum = s.lastCommitted /\ x.to = m.from
  BY <1>1, <1>3, <1>6 DEF StateTransferMessage, Message
<1>8. /\ x.begin + Len(x.entries) = Len(s.log)
  BY <1>1, <1>3, <1>6, <1>7
<1> HIDE DEF x
<1>9. MessageTrue(R, x)
  BY <1>3, <1>4, <1>5, <1>6, <1>7, <1>8 DEF MessageTrue
<1>10. Fine(R, Leader, Emit(R[Leader], {x}))
  BY <1>7, <1>9, EmitFine
<1> QED
  BY <1>2, <1>10 DEF LeaderOK, x, entries

\* The leader's log stays, or a request that was sent is appended.
LogFrom(r, s) ==
  r = Leader => \/ s.log = rep[r].log
                \/ \E m \in Sent("Request") : s.log = Append(rep[r].log, m.req)

\* Every handler and timer ends in such a state, one case for each.
LEMMA ReplicaStepFine ==
  ASSUME Inv, ReplicaNext
  PROVE  \E r \in Replicas : \E s : Fine(rep, r, s) /\ Step(r, s) /\ LogFrom(r, s)
<1> USE Constants
<1>1. ReplicasOK(rep) /\ UNCHANGED clientVars
  BY DEF Inv, ReplicaNext
<1>2. \A m \in msgs : m \in Message /\ (m.type # "Request" => MessageTrue(rep, m))
  BY DEF Inv
<1>3. PICK r \in Replicas : Receive(r) \/ ResendPrepareTimeout(r)
  BY DEF ReplicaNext
<1>4. rep[r] \in State /\ LocalOK(rep[r])
  BY <1>1 DEF ReplicasOK, States
<1> DEFINE Goal == \E s : Fine(rep, r, s) /\ Step(r, s) /\ LogFrom(r, s)
<1> SUFFICES Goal
  OBVIOUS
<1>0. \A x, out : Emit(x, out).log = x.log
  BY DEF Emit
<1>5. CASE ResendPrepareTimeout(r)
  <2>1. r = Leader /\ Step(r, ResendPrepare(rep[r]))
    BY <1>5 DEF ResendPrepareTimeout
  <2>2. ResendPrepare(rep[r]).log = rep[r].log
    BY <1>0 DEF ResendPrepare
  <2> QED
    BY <1>1, <2>1, <2>2, ResendFine DEF LogFrom
<1>6. ASSUME NEW m \in Sent("Request"), HandleRequest(r, m)
      PROVE  Goal
  <2> DEFINE q == m.req
             s == [rep[r] EXCEPT !.addrs = @ \cup {q.client}]
             known == s.table[q.client]
             t == Emit(s, {ReplyMessage(known.reply, q)})
  <2>1. q \in Req
    <3>1. m \in Message /\ m.type = "Request"
      BY <1>2 DEF Sent
    <3> QED
      BY <3>1 DEF Message, PrepareType, PrepareOKType
  <2> HIDE DEF q
  <2>2. /\ Fine(rep, r, s) /\ s.log = rep[r].log
        /\ q.id = known.id /\ known.reply > 0 => Fine(rep, r, t)
        /\ q.id > known.id =>
             \A order \in SetToSeqs(s.pendingOKs) :
               /\ Fine(rep, r, Assign(r, s, q, order))
               /\ r = Leader =>
                    Assign(r, s, q, order).log = Append(rep[r].log, q)
    BY <1>1, <2>1, HandleRequestFine
  <2>3. \/ Step(r, IF q.id = known.id /\ known.reply > 0 THEN t ELSE s)
        \/ /\ q.id > known.id
           /\ \E order \in SetToSeqs(s.pendingOKs) :
                Step(r, Assign(r, s, q, order))
    BY <1>6 DEF HandleRequest, q
  <2>3a. t.log = s.log
    BY <1>0
  <2> HIDE DEF s, known, t
  <2>4. CASE Step(r, IF q.id = known.id /\ known.reply > 0 THEN t ELSE s)
    <3>1. CASE q.id = known.id /\ known.reply > 0
      BY <2>2, <2>4, <2>3a, <3>1 DEF LogFrom
    <3>2. CASE ~(q.id = known.id /\ known.reply > 0)
      BY <2>2, <2>4, <3>2 DEF LogFrom
    <3> QED
      BY <3>1, <3>2
  <2>5. CASE /\ q.id > known.id
             /\ \E order \in SetToSeqs(s.pendingOKs) :
                  Step(r, Assign(r, s, q, order))
    <3>1. PICK order \in SetToSeqs(s.pendingOKs) :
                 Step(r, Assign(r, s, q, order))
      BY <2>5
    <3> QED
      BY <2>2, <2>5, <3>1 DEF LogFrom, q
  <2> QED
    BY <2>3, <2>4, <2>5
<1>7. ASSUME NEW m \in Sent("UnloggedRequest"), HandleUnloggedRequest(r, m)
      PROVE  Goal
  <2> DEFINE x == UnloggedReplyMessage(m.req)
  <2>1. m \in Message /\ m.type = "UnloggedRequest"
    BY <1>2 DEF Sent
  <2>2. m.req \in [client : Clients, id : Nat]
    BY <2>1 DEF Message, PrepareType, PrepareOKType
  <2>3. x \in Message /\ x.type = "UnloggedReply"
    BY <2>2 DEF UnloggedReplyMessage, Message
  <2>4. Step(r, Emit(rep[r], {x}))
    BY <1>7 DEF HandleUnloggedRequest
  <2> HIDE DEF x
  <2>5. MessageTrue(rep, x)
    BY <2>3 DEF MessageTrue
  <2>6. Fine(rep, r, Emit(rep[r], {x}))
    BY <1>1, <2>3, <2>5, EmitFine
  <2> QED
    BY <1>0, <2>4, <2>6 DEF LogFrom
<1>8. ASSUME NEW m \in Sent("Prepare"), HandlePrepare(r, m)
      PROVE  Goal
  <2>1. m \in Message /\ m.type = "Prepare" /\ MessageTrue(rep, m)
    BY <1>2 DEF Sent
  <2>2. m \in PrepareType
    BY <2>1 DEF Message, PrepareType, PrepareOKType
  <2>3. r \in Followers /\ Step(r, PreparedBy(r, rep[r], m))
    BY <1>8 DEF HandlePrepare
  <2>4. Has(rep[Leader].log, m.opnum, m.req)
    BY <2>1 DEF MessageTrue
  <2> QED
    BY <1>1, <2>2, <2>3, <2>4, PreparedByFine DEF LogFrom
<1>9. ASSUME NEW m \in Sent("PrepareOK"), HandlePrepareOK(r, m)
      PROVE  Goal
  <2>1. m \in Message /\ m.type = "PrepareOK" /\ MessageTrue(rep, m)
    BY <1>2 DEF Sent
  <2>2. m \in PrepareOKType
    BY <2>1 DEF Message, PrepareType, PrepareOKType
  <2>3. r = Leader /\ Step(r, PreparedOK(rep[r], m))
    BY <1>9 DEF HandlePrepareOK
  <2> QED
    BY <1>1, <1>4, <2>1, <2>2, <2>3, PreparedOKFine, PreparedOKLog DEF LogFrom
<1>10. ASSUME NEW m \in Sent("Commit"), HandleCommit(r, m)
       PROVE  Goal
  <2>1. m \in Message /\ m.type = "Commit" /\ MessageTrue(rep, m)
    BY <1>2 DEF Sent
  <2>2. r \in Followers /\ Step(r, Committed(r, rep[r], m))
    BY <1>10 DEF HandleCommit
  <2> QED
    BY <1>1, <2>1, <2>2, CommittedFine DEF LogFrom
<1>11. ASSUME NEW m \in Sent("RequestStateTransfer"),
              HandleRequestStateTransfer(r, m)
       PROVE  Goal
  <2> DEFINE x == StateTransferMessage(m.opnum,
                    SubSeq(rep[Leader].log, m.opnum + 1, Len(rep[Leader].log)),
                    rep[Leader].lastCommitted, m.from)
  <2>1. m \in Message /\ m.type = "RequestStateTransfer" /\ MessageTrue(rep, m)
    BY <1>2 DEF Sent
  <2>2. /\ r = Leader
        /\ Step(r, IF rep[Leader].lastSlow # rep[Leader].lastFast
                   THEN Abort(rep[Leader], "HandleRequestStateTransfer")
                   ELSE Emit(rep[Leader], {x}))
    BY <1>11 DEF HandleRequestStateTransfer
  <2>3. /\ rep[Leader].lastSlow = rep[Leader].lastFast
        /\ Fine(rep, Leader, Emit(rep[Leader], {x}))
    BY <1>1, <2>1, SendTransferFine
  <2> HIDE DEF x
  <2> QED
    BY <1>0, <2>2, <2>3 DEF LogFrom
<1>12. ASSUME NEW m \in Sent("StateTransfer"), HandleStateTransfer(r, m)
       PROVE  Goal
  <2>1. m \in Message /\ m.type = "StateTransfer" /\ MessageTrue(rep, m)
    BY <1>2 DEF Sent
  <2>2. m.to \in Followers
    BY <2>1 DEF Message, PrepareType, PrepareOKType
  <2>3. /\ m.to = r
        /\ \E order \in SetToSeqs(rep[r].pendingPrepares) :
             Step(r, Transferred(r, rep[r], m, order))
    BY <1>12 DEF HandleStateTransfer
  <2>4. PICK order \in SetToSeqs(rep[r].pendingPrepares) :
               Step(r, Transferred(r, rep[r], m, order))
    BY <2>3
  <2>5. /\ Len(order) \in Nat
        /\ \A i \in 1 .. Len(order) : order[i] \in rep[r].pendingPrepares
    BY <1>4, OrderFacts DEF LocalOK
  <2>6. ASSUME NEW p \in rep[r].pendingPrepares
        PROVE  Handles(rep, r, p)
    <3>1. p \in PrepareType
      BY <1>4, StateFields
    <3>2. p.type = "Prepare"
      BY <3>1 DEF PrepareType
    <3>3. Has(rep[Leader].log, p.opnum, p.req)
      BY <1>1, <2>2, <2>3 DEF ReplicasOK, FollowerOK
    <3> QED
      BY <2>2, <2>3, <3>1, <3>2, <3>3 DEF Handles, MessageTrue
  <2>7. \A i \in 1 .. Len(order) : Handles(rep, r, order[i])
    BY <2>5, <2>6
  <2>8. Fine(rep, r, Transferred(r, rep[r], m, order))
    BY <1>1, <2>1, <2>2, <2>3, <2>5, <2>7, TransferredFine
  <2> QED
    BY <2>2, <2>3, <2>4, <2>8 DEF LogFrom
<1> QED
  BY <1>3, <1>5, <1>6, <1>7, <1>8, <1>9, <1>10, <1>11, <1>12 DEF Receive

\* So a step of a replica keeps it.
LEMMA ReplicaKeepsInv ==
  ASSUME Inv, ReplicaNext
  PROVE  Inv' /\ Grows(rep, rep')
BY ReplicaStepFine, StepKeepsInv DEF ReplicaNext

\* The invariant holds in every state, and no step takes anything back.
LEMMA NextKeepsInv ==
  ASSUME Inv, [Next]_vars
  PROVE  Inv' /\ Grows(rep, rep')
<1>1. CASE Next
  BY <1>1, ClientKeepsInv, ReplicaKeepsInv DEF Next
<1>2. CASE UNCHANGED vars
  <2>1. Inv'
    BY <1>2 DEF vars, clientVars, Inv, ClientsOK
  <2>2. \A p \in Replicas : rep[p] \in State
    BY DEF Inv, ReplicasOK, States
  <2>3. rep' = rep
    BY <1>2 DEF vars
  <2> QED
    BY <2>1, <2>2, <2>3, StateFields, Constants DEF Grows, Has
<1> QED
  BY <1>1, <1>2

\* The inductive invariant holds of every behaviour: the leader's log decides,
\* every mark a follower has passed on the slow path is the leader's, and every
\* message still says what is so (HandleRequest, HandlePrepare, HandlePrepareOK,
\* CommitUpTo, HandleStateTransfer).
THEOREM Invariance == Spec => []Inv
<1>1. Inv /\ [Next]_vars => Inv'
  BY NextKeepsInv
<1> QED
  BY <1>1, InitInv, PTL DEF Spec

-----------------------------------------------------------------------------
(* What the invariant says.                                                  *)

\* A replica has executed its log up to lastCommitted.
LEMMA AppIsPrefix ==
  ASSUME NEW s \in State, LocalOK(s)
  PROVE  /\ s.app \in Seq(Req) /\ Len(s.app) = s.lastCommitted
         /\ \A i \in 1 .. s.lastCommitted : s.app[i] = s.log[i]
<1>1. s.app = SubSeq(s.log, 1, s.lastCommitted)
  BY DEF LocalOK
<1>2. /\ s.lastCommitted \in Nat /\ s.log \in Seq(Req) /\ Len(s.log) \in Nat
      /\ s.app \in Seq(Req)
  BY StateFields
<1>3. s.lastCommitted <= Len(s.log)
  <2>1. s.lastCommitted \in 0 .. Len(s.log)
    BY Places
  <2> QED
    BY <1>2, <2>1
<1> QED
  BY <1>1, <1>2, <1>3, SamePrefix

\* What the invariant says of a replica and the leader.
LEMMA BesideLeader ==
  ASSUME Inv, NEW r \in Replicas
  PROVE  /\ rep[r] \in State /\ LocalOK(rep[r])
         /\ rep[Leader] \in State /\ LocalOK(rep[Leader])
         /\ rep[r].lastCommitted <= rep[Leader].lastCommitted
         /\ rep[r].lastSlow <= Len(rep[Leader].log)
         /\ \A i \in 1 .. rep[r].lastSlow : rep[r].log[i] = rep[Leader].log[i]
<1> USE Constants
<1>1. /\ rep[r] \in State /\ LocalOK(rep[r])
      /\ rep[Leader] \in State /\ LocalOK(rep[Leader])
  BY DEF Inv, ReplicasOK, States
<1>2. CASE r = Leader
  <2>1. /\ rep[Leader].lastCommitted \in Nat
        /\ rep[Leader].lastSlow \in 0 .. Len(rep[Leader].log)
    BY <1>1, StateFields, Places
  <2> QED
    BY <1>1, <1>2, <2>1
<1>3. CASE r # Leader
  BY <1>1, <1>3 DEF Inv, ReplicasOK, FollowerOK
<1> QED
  BY <1>2, <1>3

\* Every replica's places keep their order and app is what it executed of its
\* log, also after a state transfer or a Commit that comes before its Prepare.
THEOREM TypeCorrect == Spec => []TypeOK
<1>1. Inv => TypeOK
  <2> SUFFICES ASSUME Inv, NEW r \in Replicas
               PROVE  /\ rep[r].log \in Seq(Req) /\ rep[r].lastFast = Len(rep[r].log)
                      /\ rep[r].lastSlow \in rep[r].lastCommitted .. rep[r].lastFast
                      /\ rep[r].app = SubSeq(rep[r].log, 1, rep[r].lastCommitted)
                      /\ r = Leader => rep[r].lastSlow = rep[r].lastFast
    BY DEF TypeOK
  <2>1. rep[r] \in State /\ LocalOK(rep[r]) /\ LeaderOK(rep)
    BY DEF Inv, ReplicasOK, States
  <2>2. /\ rep[r].log \in Seq(Req) /\ rep[r].lastSlow \in Nat
        /\ rep[r].lastCommitted \in Nat /\ rep[r].lastFast \in Nat
    BY <2>1, StateFields
  <2>3. /\ rep[r].lastFast = Len(rep[r].log)
        /\ rep[r].lastCommitted <= rep[r].lastSlow
        /\ rep[r].lastSlow <= rep[r].lastFast
        /\ rep[r].app = SubSeq(rep[r].log, 1, rep[r].lastCommitted)
    BY <2>1, Zenon DEF LocalOK
  <2>4. r = Leader => rep[r].lastSlow = rep[r].lastFast
    BY <2>1 DEF LeaderOK
  <2> QED
    BY <2>2, <2>3, <2>4
<1> QED
  BY <1>1, Invariance, PTL

\* The slow path of every replica holds the leader's requests, whatever
\* order requests, Prepares and transferred logs come in.
THEOREM SlowPathHolds == Spec => []SlowPathMatches
<1>1. Inv => SlowPathMatches
  <2> SUFFICES ASSUME Inv, NEW r \in Replicas
               PROVE  IsPrefix(SubSeq(rep[r].log, 1, rep[r].lastSlow),
                               rep[Leader].log)
    BY DEF SlowPathMatches
  <2> DEFINE n == rep[r].lastSlow
             a == rep[r].log
             b == rep[Leader].log
             p == SubSeq(a, 1, n)
  <2>1. /\ rep[r] \in State /\ LocalOK(rep[r]) /\ rep[Leader] \in State
        /\ n <= Len(b) /\ \A i \in 1 .. n : a[i] = b[i]
    BY BesideLeader
  <2>2. n \in Nat /\ a \in Seq(Req) /\ b \in Seq(Req) /\ Len(a) \in Nat
    BY <2>1, StateFields
  <2>3. n \in 0 .. Len(a)
    BY <2>1, Places
  <2> HIDE DEF n, a, b
  <2>4. n <= Len(a)
    BY <2>2, <2>3
  <2>5. p \in Seq(Req) /\ Len(p) = n /\ \A i \in 1 .. n : p[i] = a[i]
    BY <2>1, <2>2, <2>4, SamePrefix
  <2> HIDE DEF p
  <2>6. IsPrefix(p, b)
    BY <2>1, <2>2, <2>5, PrefixByElements
  <2> QED
    BY <2>6 DEF p, n, a, b
<1> QED
  BY <1>1, Invariance, PTL

\* State machine safety: no replica executes another request at a place than
\* the leader, nor before it.
THEOREM Agreement == Spec => []ExecutionsFollowLeader
<1>1. Inv => ExecutionsFollowLeader
  <2> SUFFICES ASSUME Inv, NEW r \in Replicas
               PROVE  IsPrefix(rep[r].app, rep[Leader].app)
    BY DEF ExecutionsFollowLeader
  <2> DEFINE s == rep[r]
             t == rep[Leader]
  <2>1. /\ s \in State /\ LocalOK(s) /\ t \in State /\ LocalOK(t)
        /\ s.lastCommitted <= t.lastCommitted
        /\ \A i \in 1 .. s.lastSlow : s.log[i] = t.log[i]
    BY BesideLeader
  <2> HIDE DEF s, t
  <2>2. /\ s.lastCommitted \in Nat /\ t.lastCommitted \in Nat
        /\ s.lastSlow \in Nat
    BY <2>1, StateFields
  <2>3. s.lastCommitted \in 0 .. s.lastSlow
    BY <2>1, Places
  <2>4. /\ s.app \in Seq(Req) /\ Len(s.app) = s.lastCommitted
        /\ \A i \in 1 .. s.lastCommitted : s.app[i] = s.log[i]
    BY <2>1, AppIsPrefix
  <2>5. /\ t.app \in Seq(Req) /\ Len(t.app) = t.lastCommitted
        /\ \A i \in 1 .. t.lastCommitted : t.app[i] = t.log[i]
    BY <2>1, AppIsPrefix
  <2>6. \A i \in 1 .. s.lastCommitted : s.app[i] = t.app[i]
    BY <2>1, <2>2, <2>3, <2>4, <2>5
  <2>7. IsPrefix(s.app, t.app)
    BY <2>1, <2>4, <2>5, <2>6, PrefixByElements
  <2> QED
    BY <2>7 DEF s, t
<1> QED
  BY <1>1, Invariance, PTL

\* However often a client's request is delivered, it has one place in the
\* leader's log.
THEOREM OncePerRequest == Spec => []ExecutedOnce
<1>1. Inv => ExecutedOnce
  <2> SUFFICES ASSUME Inv
               PROVE  IsInjective(rep[Leader].log)
    BY DEF ExecutedOnce
  <2>1. rep[Leader].log \in Seq(Req)
    BY Constants DEF Inv, ReplicasOK, States, State
  <2>2. \A i, j \in 1 .. Len(rep[Leader].log) :
          rep[Leader].log[i] = rep[Leader].log[j] => i = j
    BY DEF Inv, ReplicasOK, LeaderOK
  <2> QED
    BY <2>1, <2>2 DEF IsInjective
<1> QED
  BY <1>1, Invariance, PTL

\* A quorum of replicas holds the place executed last: no answer is counted
\* twice or for another request, on either path, pending answers included.
THEOREM HeldByQuorum == Spec => []LastInQuorum
<1>1. Inv => LastInQuorum
  <2> DEFINE n == rep[Leader].lastCommitted
             H == {r \in Replicas : /\ n <= Len(rep[r].log)
                                    /\ rep[r].log[n] = rep[Leader].log[n]}
  <2> SUFFICES ASSUME Inv, n > 0
               PROVE  Cardinality(H) >= F + 1
    BY DEF LastInQuorum
  <2>1. \A r \in Replicas : Len(rep[r].log) \in Nat
    BY DEF Inv, ReplicasOK, States, State
  <2>2. n \in Nat
    BY Constants DEF Inv, ReplicasOK, States, State
  <2>3. Holders(rep, n) = H
    BY <2>1, <2>2 DEF Holders, Has
  <2>4. Cardinality(Holders(rep, n)) >= F + 1
    BY DEF Inv, ReplicasOK, QuorumOK
  <2> QED
    BY <2>3, <2>4
<1> QED
  BY <1>1, Invariance, PTL

\* No ASSERT fails and no Panic is reached, the leader's in
\* HandleRequestStateTransfer and the log's in CommitUpTo included.
THEOREM NeverAborts == Spec => []NoAbort
<1>1. Inv => NoAbort
  BY Zenon DEF Inv, ReplicasOK, LocalOK, NoAbort
<1> QED
  BY <1>1, Invariance, PTL

\* A client completes only with the result of its own request as the leader
\* executed it.
THEOREM RightReplies == Spec => []RepliesRight
<1>1. Inv => RepliesRight
  <2> SUFFICES ASSUME Inv, NEW a \in accepted
               PROVE  /\ a.opnum <= Len(rep[Leader].app)
                      /\ rep[Leader].app[a.opnum] = a.req
    BY DEF RepliesRight
  <2> DEFINE t == rep[Leader]
  <2>1. t \in State /\ LocalOK(t)
    BY BesideLeader, Constants
  <2>2. Has(t.log, a.opnum, a.req) /\ a.opnum <= t.lastCommitted
    BY DEF Inv, ClientsOK, MessageTrue
  <2> HIDE DEF t
  <2>3. /\ Len(t.app) = t.lastCommitted
        /\ \A i \in 1 .. t.lastCommitted : t.app[i] = t.log[i]
    BY <2>1, AppIsPrefix
  <2>4. a.opnum \in 1 .. t.lastCommitted
    BY <2>1, <2>2, StateFields DEF Has
  <2> QED
    BY <2>2, <2>3, <2>4 DEF Has, t
<1> QED
  BY <1>1, Invariance, PTL

\* No replica takes back or changes what it has executed.
LEMMA ExecutionsKept ==
  ASSUME Inv, Inv', Grows(rep, rep'), NEW r \in Replicas
  PROVE  /\ rep[r].app \in Seq(Req) /\ rep'[r].app \in Seq(Req)
         /\ Len(rep[r].app) <= Len(rep'[r].app)
         /\ \A i \in 1 .. Len(rep[r].app) : rep'[r].app[i] = rep[r].app[i]
<1> USE Constants
<1> DEFINE s == rep[r]
           t == rep'[r]
           lead == rep[Leader]
           lead1 == rep'[Leader]
<1>1. /\ s \in State /\ LocalOK(s)
      /\ \A i \in 1 .. s.lastSlow : s.log[i] = lead.log[i]
      /\ s.lastSlow <= Len(lead.log) /\ lead \in State
  BY BesideLeader
<1>2. t \in State /\ LocalOK(t)
  BY DEF Inv, ReplicasOK, States
<1>3. /\ s.lastCommitted <= t.lastCommitted
      /\ \A i \in 1 .. Len(lead.log) : Has(lead1.log, i, lead.log[i])
      /\ \A i \in 1 .. Len(s.log) :
           t.log[i] = s.log[i] \/ Has(lead1.log, i, t.log[i])
  BY DEF Grows
<1> HIDE DEF s, t, lead, lead1
<1>4. /\ s.app \in Seq(Req) /\ Len(s.app) = s.lastCommitted
      /\ \A i \in 1 .. s.lastCommitted : s.app[i] = s.log[i]
  BY <1>1, AppIsPrefix
<1>5. /\ t.app \in Seq(Req) /\ Len(t.app) = t.lastCommitted
      /\ \A i \in 1 .. t.lastCommitted : t.app[i] = t.log[i]
  BY <1>2, AppIsPrefix
<1>6. /\ s.lastCommitted \in Nat /\ t.lastCommitted \in Nat /\ s.lastSlow \in Nat
      /\ Len(s.log) \in Nat /\ Len(lead.log) \in Nat
  BY <1>1, <1>2, StateFields
<1>7. s.lastCommitted \in 0 .. s.lastSlow /\ s.lastSlow \in 0 .. Len(s.log)
  BY <1>1, Places
<1>8. ASSUME NEW i \in 1 .. s.lastCommitted
      PROVE  t.log[i] = s.log[i]
  <2>1. i \in 1 .. s.lastSlow /\ i \in 1 .. Len(s.log) /\ i \in 1 .. Len(lead.log)
    BY <1>1, <1>6, <1>7
  <2> QED
    BY <1>1, <1>3, <2>1 DEF Has
<1>9. ASSUME NEW i \in 1 .. s.lastCommitted
      PROVE  t.app[i] = s.app[i]
  BY <1>3, <1>4, <1>5, <1>6, <1>8
<1> QED
  BY <1>3, <1>4, <1>5, <1>9 DEF s, t

\* An execution is final: a replica's executions only ever grow at their end.
ExecutionsStay == [][\A r \in Replicas : IsPrefix(rep[r].app, rep'[r].app)]_vars

\* No step of any replica, a state transfer that replaces its log included,
\* takes back or changes what it has executed.
THEOREM ExecutionsAreFinal == Spec => ExecutionsStay
<1>1. Inv /\ Inv' /\ [Next]_vars
        => [\A r \in Replicas : IsPrefix(rep[r].app, rep'[r].app)]_vars
  <2> SUFFICES ASSUME Inv, Inv', [Next]_vars, NEW r \in Replicas
               PROVE  IsPrefix(rep[r].app, rep'[r].app)
    OBVIOUS
  <2> DEFINE a == rep[r].app
             b == rep'[r].app
  <2>1. Grows(rep, rep')
    BY NextKeepsInv
  <2>2. /\ a \in Seq(Req) /\ b \in Seq(Req) /\ Len(a) <= Len(b)
        /\ \A i \in 1 .. Len(a) : b[i] = a[i]
    BY <2>1, ExecutionsKept
  <2> HIDE DEF a, b
  <2>3. IsPrefix(a, b)
    BY <2>2, PrefixByElements
  <2> QED
    BY <2>3 DEF a, b
<1> QED
  BY <1>1, Invariance, PTL DEF Spec, ExecutionsStay
=============================================================================
