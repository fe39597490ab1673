--------------------------- MODULE PaxosBusProofs --------------------------
(***************************************************************************)
(* Proofs about PaxosBus for any number of replicas, of tolerated          *)
(* failures, of slots and of requests.                                     *)
(***************************************************************************)
EXTENDS PaxosBus, FiniteSetTheorems, TLAPS

\* The assumptions on the constants, in the form the steps below use.
LEMMA ConstantTypes ==
  /\ N \in Nat /\ F \in Nat
  /\ MaxSlot \in Nat /\ MaxReq \in Nat
  /\ Leader \in Replicas
  /\ Followers \subseteq Replicas
  /\ Leader \notin Followers
BY ConfigAssumption, BoundAssumption DEF Replicas, Leader, Followers

\* Every constructor builds a message.
LEMMA Constructors ==
  /\ \A s \in Slots, q \in Reqs : Data(s, q) \in Message
  /\ \A s \in Slots, r \in Replicas : DataReply(s, r) \in Message
  /\ \A s \in Slots, r \in Followers :
       /\ GapRequest(s, r) \in Message
       /\ GapCommit(s, r) \in Message
       /\ GapCommitReply(s, r) \in Message
  /\ \A s \in Slots, q \in Reqs, r \in Followers :
       GapReply(s, q, r) \in Message
BY DEF Message

\* The three contents of a slot are different things.
LEMMA Contents ==
  /\ NOOP \notin Reqs /\ EMPTY \notin Reqs /\ NOOP # EMPTY
BY ConstantTypes DEF NOOP, EMPTY, Reqs

\* What a GapRequest is answered depends on the slot alone.
LEMMA Answers ==
  ASSUME TypeOK, NEW r \in Replicas, NEW s \in Slots, NEW p
  PROVE  \/ /\ log[r][s] \in Reqs
            /\ GapAnswer(log[r], s, p) = {GapReply(s, log[r][s], p)}
         \/ log[r][s] = NOOP /\ GapAnswer(log[r], s, p) = {GapCommit(s, p)}
         \/ log[r][s] = EMPTY /\ GapAnswer(log[r], s, p) = {}
<1>1. log[r][s] \in Reqs \/ log[r][s] = NOOP \/ log[r][s] = EMPTY
  BY DEF TypeOK, ReplicaTypeOK, LogEntry
<1> QED
  BY <1>1, Contents DEF GapAnswer

\* Gap messages are exchanged between the leader and followers only.
LEMMA GapPeers ==
  ASSUME NEW s, NEW q, NEW r
  PROVE  /\ GapRequest(s, r) \in Message => r \in Followers
         /\ GapReply(s, q, r) \in Message => r \in Followers
         /\ GapCommit(s, r) \in Message => r \in Followers
         /\ GapCommitReply(s, r) \in Message => r \in Followers
<1>1. ASSUME NEW m \in Message
      PROVE  /\ m.type \in {"GapRequest", "GapCommitReply"} => m.from \in Followers
             /\ m.type \in {"GapReply", "GapCommit"} => m.to \in Followers
  BY DEF Message, Sync, Data, DataReply, GapRequest, GapReply, GapCommit,
         GapCommitReply
<1>2. /\ GapRequest(s, r).type = "GapRequest" /\ GapRequest(s, r).from = r
      /\ GapReply(s, q, r).type = "GapReply" /\ GapReply(s, q, r).to = r
      /\ GapCommit(s, r).type = "GapCommit" /\ GapCommit(s, r).to = r
      /\ GapCommitReply(s, r).type = "GapCommitReply"
      /\ GapCommitReply(s, r).from = r
  BY DEF GapRequest, GapReply, GapCommit, GapCommitReply
<1> QED
  BY <1>1, <1>2

\* AdvanceContiguous keeps the types of what it assigns.
LEMMA AdvanceType ==
  ASSUME ReplicaTypeOK, NEW r \in Replicas, NEW row \in [Slots -> LogEntry],
         AdvanceContiguous(r, row)
  PROVE  /\ log' \in [Replicas -> [Slots -> LogEntry]]
         /\ nextExpected' \in [Replicas -> 1 .. (MaxSlot + 1)]
         /\ gapTimerId' \in [Replicas -> 0 .. Timers]
<1>1. log' \in [Replicas -> [Slots -> LogEntry]]
  BY DEF ReplicaTypeOK, AdvanceContiguous
<1>2. nextExpected' \in [Replicas -> 1 .. (MaxSlot + 1)]
  BY DEF ReplicaTypeOK, AdvanceContiguous
<1>3. gapTimerId' \in [Replicas -> 0 .. Timers]
  BY ReplicaAssumption DEF ReplicaTypeOK, AdvanceContiguous, ArmGapTimer
<1> QED
  BY <1>1, <1>2, <1>3

\* maxSeqSeen stays in its bounds when a slot is seen, and when a later one is.
LEMMA SeenType ==
  ASSUME NEW n \in 0 .. (MaxSlot + Later)
  PROVE  /\ \A s \in Slots : Larger(n, s) \in 0 .. (MaxSlot + Later)
         /\ Later > 0 => LaterSlot(n) \in 0 .. (MaxSlot + Later)
BY BoundAssumption, ReplicaAssumption DEF Larger, LaterSlot, Slots

\* The initial state has its type.
LEMMA InitTypeOK == Init => TypeOK
<1> SUFFICES ASSUME Init PROVE TypeOK
  OBVIOUS
<1>1. msgs \subseteq Message
  BY DEF Init
<1>2. ClientTypeOK
  BY ConstantTypes DEF Init, ClientInit, ClientTypeOK, Entry, NoEntry
<1>3. ReplicaTypeOK
  BY ConstantTypes, BoundAssumption, ReplicaAssumption
  DEF Init, ReplicaInit, ReplicaTypeOK, LogEntry, Slots
<1> QED
  BY <1>1, <1>2, <1>3 DEF TypeOK

-----------------------------------------------------------------------------
(* Type correctness, one lemma per process.                                 *)

\* The requests and slots of a burst stay in their bounds.
LEMMA SendNewType ==
  ASSUME TypeOK, NEW k \in 1 .. Burst, SendNew(k)
  PROVE  /\ msgs' \subseteq Message
         /\ seqNum' \in 0 .. MaxSlot
         /\ appReqId' \in 0 .. MaxReq
         /\ inflight' \in [Slots -> Entry]
<1> USE ConstantTypes, ClientAssumption
<1>1. seqNum' \in 0 .. MaxSlot /\ appReqId' \in 0 .. MaxReq
  BY DEF TypeOK, ClientTypeOK, SendNew
<1>2. ASSUME NEW s \in (seqNum + 1) .. (seqNum + k)
      PROVE  s \in Slots /\ appReqId + (s - seqNum) \in Reqs
  BY DEF TypeOK, ClientTypeOK, SendNew, Slots, Reqs
<1>3. msgs' \subseteq Message
  BY <1>2, Constructors DEF TypeOK, SendNew, Send
<1>4. inflight' \in [Slots -> Entry]
  BY <1>2 DEF TypeOK, ClientTypeOK, SendNew, Entry, Reqs
<1> QED
  BY <1>1, <1>3, <1>4

\* A step of the client keeps the types.
LEMMA ClientStepTypeOK ==
  ASSUME TypeOK, ClientNext, UNCHANGED replicaVars
  PROVE  TypeOK'
<1> USE ConstantTypes
<1>0. ReplicaTypeOK'
  BY DEF TypeOK, ReplicaTypeOK, replicaVars
<1>1. CASE Start
  <2>1. Sync \in Message
    BY DEF Message
  <2> QED
    BY <1>0, <1>1, <2>1 DEF Start, Send, TypeOK, ClientTypeOK
<1>2. CASE OnSyncWaitDone
  BY <1>0, <1>2, SendNewType DEF OnSyncWaitDone, SendNew, TypeOK, ClientTypeOK
<1>3. CASE SendTick
  BY <1>0, <1>3, SendNewType DEF SendTick, SendNew, TypeOK, ClientTypeOK
<1>4. CASE \E s \in Slots : OnResendTimeout(s)
  <2> PICK s \in Slots : OnResendTimeout(s)
    BY <1>4
  <2>1. inflight[s] \in Entry /\ inflight[s].req # 0 => inflight[s].req \in Reqs
    BY DEF TypeOK, ClientTypeOK, Entry, Reqs
  <2>2. seqNum + 1 \in Slots
    BY DEF OnResendTimeout, TypeOK, ClientTypeOK, Slots
  <2>3. inflight' \in [Slots -> Entry]
    BY <2>2 DEF OnResendTimeout, TypeOK, ClientTypeOK, Entry, NoEntry
  <2> QED
    BY <1>0, <2>1, <2>2, <2>3, Constructors
    DEF OnResendTimeout, InFlight, Send, TypeOK, ClientTypeOK, Slots
<1>5. CASE \E s \in Slots, r \in Replicas : HandleDataReply(s, r)
  <2> PICK s \in Slots, r \in Replicas : HandleDataReply(s, r)
    BY <1>5
  <2> QED
    BY <1>0 DEF HandleDataReply, InFlight, TypeOK, ClientTypeOK, Entry, NoEntry, Reqs
<1> QED
  BY <1>1, <1>2, <1>3, <1>4, <1>5 DEF ClientNext

\* A step of a replica keeps the types.
LEMMA ReplicaStepTypeOK ==
  ASSUME TypeOK, ReplicaNext, UNCHANGED clientVars
  PROVE  TypeOK'
<1> USE ConstantTypes
<1>0. ClientTypeOK'
  BY DEF TypeOK, ClientTypeOK, clientVars
<1> PICK r \in Replicas :
      \/ HandleSync(r)
      \/ \E s \in Slots, q \in Reqs : HandleData(r, s, q)
      \/ HandleLaterData(r)
      \/ \E s \in Slots, p \in Replicas : HandleGapRequest(r, s, p)
      \/ \E s \in Slots, q \in Reqs : HandleGapReply(r, s, q)
      \/ \E s \in Slots : HandleGapCommit(r, s)
      \/ \E s \in Slots, p \in Replicas : HandleGapCommitReply(r, s, p)
      \/ \E cut \in 0 .. MaxSlot : OnGapTimeout(r, cut)
  BY DEF ReplicaNext
<1>a. ASSUME NEW s \in Slots, NEW q \in Reqs
      PROVE  RecordReceived(log[r], s, q) \in [Slots -> LogEntry]
  BY DEF TypeOK, ReplicaTypeOK, RecordReceived, LogEntry
<1>b. ASSUME NEW s \in Slots
      PROVE  /\ Larger(maxSeqSeen[r], s) \in 0 .. (MaxSlot + Later)
             /\ \A a \in BOOLEAN : Replies(r, s, a) \subseteq Message
  <2>1. maxSeqSeen[r] \in 0 .. (MaxSlot + Later)
    BY DEF TypeOK, ReplicaTypeOK
  <2>2. {DataReply(s, r)} \subseteq Message
    BY Constructors
  <2> QED
    BY <2>1, <2>2, SeenType DEF Replies
<1>1. CASE HandleSync(r)
  BY <1>0, <1>1, BoundAssumption, ReplicaAssumption
  DEF HandleSync, TypeOK, ReplicaTypeOK
<1>2. CASE \E s \in Slots, q \in Reqs : HandleData(r, s, q)
  <2> PICK s \in Slots, q \in Reqs : HandleData(r, s, q)
    BY <1>2
  <2>1. /\ log' \in [Replicas -> [Slots -> LogEntry]]
        /\ nextExpected' \in [Replicas -> 1 .. (MaxSlot + 1)]
        /\ gapTimerId' \in [Replicas -> 0 .. Timers]
    BY <1>a, AdvanceType DEF HandleData, TypeOK, ReplicaTypeOK
  <2>2. msgs' \subseteq Message
    BY <1>b DEF HandleData, Send, TypeOK
  <2> QED
    BY <1>0, <1>b, <2>1, <2>2 DEF HandleData, TypeOK, ReplicaTypeOK
<1>3. CASE \E s \in Slots, p \in Replicas : HandleGapRequest(r, s, p)
  <2> PICK s \in Slots, p \in Replicas : HandleGapRequest(r, s, p)
    BY <1>3
  <2>0. p \in Followers
    BY GapPeers DEF HandleGapRequest, TypeOK
  <2>a. GapAnswer(log[r], s, p) \subseteq Message
    <3>1. CASE log[r][s] \in Reqs
      <4>1. GapAnswer(log[r], s, p) = {GapReply(s, log[r][s], p)}
        BY <3>1, Answers, Contents
      <4> QED
        BY <2>0, <3>1, <4>1, Constructors
    <3>2. CASE log[r][s] = NOOP
      <4>1. GapAnswer(log[r], s, p) = {GapCommit(s, p)}
        BY <3>2, Answers, Contents
      <4> QED
        BY <2>0, <4>1, Constructors
    <3> QED
      BY <3>1, <3>2, Answers
  <2>1. msgs' \subseteq Message
    BY <2>a DEF HandleGapRequest, Send, TypeOK
  <2> QED
    BY <1>0, <2>1 DEF HandleGapRequest, TypeOK, ReplicaTypeOK
<1>4. CASE \E s \in Slots, q \in Reqs : HandleGapReply(r, s, q)
  <2> PICK s \in Slots, q \in Reqs : HandleGapReply(r, s, q)
    BY <1>4
  <2>1. /\ log' \in [Replicas -> [Slots -> LogEntry]]
        /\ nextExpected' \in [Replicas -> 1 .. (MaxSlot + 1)]
        /\ gapTimerId' \in [Replicas -> 0 .. Timers]
    BY <1>a, AdvanceType DEF HandleGapReply, TypeOK
  <2>2. msgs' \subseteq Message
    BY <1>b DEF HandleGapReply, Send, TypeOK, ReplicaTypeOK
  <2> QED
    BY <1>0, <1>b, <2>1, <2>2 DEF HandleGapReply, TypeOK, ReplicaTypeOK
<1>5. CASE \E s \in Slots : HandleGapCommit(r, s)
  <2> PICK s \in Slots : HandleGapCommit(r, s)
    BY <1>5
  <2>1. [log[r] EXCEPT ![s] = NOOP] \in [Slots -> LogEntry]
    BY DEF TypeOK, ReplicaTypeOK, LogEntry
  <2>2. /\ log' \in [Replicas -> [Slots -> LogEntry]]
        /\ nextExpected' \in [Replicas -> 1 .. (MaxSlot + 1)]
        /\ gapTimerId' \in [Replicas -> 0 .. Timers]
    BY <2>1, AdvanceType DEF HandleGapCommit, TypeOK
  <2> QED
    BY <1>0, <2>2, Constructors, GapPeers
    DEF HandleGapCommit, Send, TypeOK, ReplicaTypeOK
<1>6. CASE \E s \in Slots, p \in Replicas : HandleGapCommitReply(r, s, p)
  <2> PICK s \in Slots, p \in Replicas : HandleGapCommitReply(r, s, p)
    BY <1>6
  <2>1. p \in Followers
    BY GapPeers DEF HandleGapCommitReply, TypeOK
  <2> QED
    BY <1>0, <2>1 DEF HandleGapCommitReply, TypeOK, ReplicaTypeOK
<1>7. CASE \E cut \in 0 .. MaxSlot : OnGapTimeout(r, cut)
  <2> PICK cut \in 0 .. MaxSlot : OnGapTimeout(r, cut)
    BY <1>7
  <2> DEFINE S == Overdue(r, cut)
  <2>0. S \subseteq Slots
    BY DEF Overdue
  <2>1. CASE StartGapAgreement(r, S)
    <3> DEFINE row == [s \in Slots |-> IF s \in S THEN NOOP ELSE log[r][s]]
    <3>1. row \in [Slots -> LogEntry]
      BY DEF TypeOK, ReplicaTypeOK, LogEntry
    <3>2. /\ log' \in [Replicas -> [Slots -> LogEntry]]
          /\ nextExpected' \in [Replicas -> 1 .. (MaxSlot + 1)]
          /\ gapTimerId' \in [Replicas -> 0 .. Timers]
      BY <2>1, <3>1, AdvanceType DEF StartGapAgreement, TypeOK
    <3>3. msgs' \subseteq Message
      BY <2>0, <2>1, Constructors DEF StartGapAgreement, Send, TypeOK
    <3> QED
      BY <1>0, <2>0, <2>1, <3>2, <3>3
      DEF OnGapTimeout, StartGapAgreement, TypeOK, ReplicaTypeOK
  <2>2. CASE SendGapRequest(r, S)
    <3>1. /\ log' \in [Replicas -> [Slots -> LogEntry]]
          /\ nextExpected' \in [Replicas -> 1 .. (MaxSlot + 1)]
          /\ gapTimerId' \in [Replicas -> 0 .. Timers]
      BY <2>2, AdvanceType DEF SendGapRequest, TypeOK, ReplicaTypeOK
    <3>2. msgs' \subseteq Message
      BY <2>0, <2>2, Constructors DEF SendGapRequest, Send, TypeOK, Followers
    <3> QED
      BY <1>0, <2>2, <3>1, <3>2
      DEF OnGapTimeout, SendGapRequest, TypeOK, ReplicaTypeOK
  <2> QED
    BY <2>1, <2>2 DEF OnGapTimeout
<1>8. CASE HandleLaterData(r)
  <2>1. log[r] \in [Slots -> LogEntry] /\ maxSeqSeen[r] \in 0 .. (MaxSlot + Later)
    BY DEF TypeOK, ReplicaTypeOK
  <2>2. maxSeqSeen' \in [Replicas -> 0 .. (MaxSlot + Later)]
    BY <1>8, <2>1, SeenType DEF HandleLaterData, TypeOK, ReplicaTypeOK
  <2>3. /\ log' \in [Replicas -> [Slots -> LogEntry]]
        /\ nextExpected' \in [Replicas -> 1 .. (MaxSlot + 1)]
        /\ gapTimerId' \in [Replicas -> 0 .. Timers]
    BY <1>8, <2>1, AdvanceType DEF HandleLaterData, TypeOK, ReplicaTypeOK
  <2> QED
    BY <1>0, <1>8, <2>2, <2>3 DEF HandleLaterData, TypeOK, ReplicaTypeOK
<1> QED
  BY <1>1, <1>2, <1>3, <1>4, <1>5, <1>6, <1>7, <1>8

\* The types hold in every reachable state, whatever the constants.
THEOREM TypeCorrect == Spec => []TypeOK
<1>1. TypeOK /\ [Next]_vars => TypeOK'
  <2> SUFFICES ASSUME TypeOK, [Next]_vars PROVE TypeOK'
    OBVIOUS
  <2>1. CASE ClientNext /\ UNCHANGED replicaVars
    BY <2>1, ClientStepTypeOK
  <2>2. CASE ReplicaNext /\ UNCHANGED clientVars
    BY <2>2, ReplicaStepTypeOK
  <2>3. CASE UNCHANGED vars
    BY <2>3 DEF vars, clientVars, replicaVars, TypeOK, ClientTypeOK,
                ReplicaTypeOK
  <2> QED
    BY <2>1, <2>2, <2>3 DEF Next
<1> QED
  BY <1>1, InitTypeOK, PTL DEF Spec

-----------------------------------------------------------------------------
(* The messages of the other types are untouched by a Send.                 *)

\* A Data message determines its slot and its request.
LEMMA DataInjective ==
  ASSUME NEW s, NEW q, NEW t, NEW p, Data(s, q) = Data(t, p)
  PROVE  s = t /\ q = p
BY DEF Data

\* Sending messages of one type leaves the messages of other types alone.
LEMMA OtherTypesUnsent ==
  ASSUME NEW ty, msgs \subseteq msgs', \A m \in msgs' : m \in msgs \/ m.type = ty
  PROVE  /\ ty # "Data" =>
              \A s, q : Data(s, q) \in msgs' <=> Data(s, q) \in msgs
         /\ ty # "DataReply" =>
              \A s, r : DataReply(s, r) \in msgs' <=> DataReply(s, r) \in msgs
         /\ ty # "GapReply" =>
              \A s, q, r : GapReply(s, q, r) \in msgs' <=> GapReply(s, q, r) \in msgs
         /\ ty # "GapCommit" =>
              \A s, r : GapCommit(s, r) \in msgs' <=> GapCommit(s, r) \in msgs
         /\ ty # "GapCommitReply" =>
              \A s, r : GapCommitReply(s, r) \in msgs' <=>
                       GapCommitReply(s, r) \in msgs
<1>1. \A s, q, r :
        /\ Data(s, q).type = "Data"
        /\ DataReply(s, r).type = "DataReply"
        /\ GapReply(s, q, r).type = "GapReply"
        /\ GapCommit(s, r).type = "GapCommit"
        /\ GapCommitReply(s, r).type = "GapCommitReply"
  BY DEF Data, DataReply, GapReply, GapCommit, GapCommitReply
<1> QED
  BY <1>1

-----------------------------------------------------------------------------
(* The client preserves the inductive invariant.                            *)

\* A burst puts new requests in new slots.
LEMMA SendNewIndInv ==
  ASSUME TypeOK, IndInv, UNCHANGED replicaVars, NEW k \in 1 .. Burst, SendNew(k)
  PROVE  IndInv'
<1> USE ConstantTypes, ClientAssumption
<1> DEFINE new == (seqNum + 1) .. (seqNum + k)
           req(s) == appReqId + (s - seqNum)
<1>0. seqNum \in Nat /\ appReqId \in Nat /\ k \in Nat
  BY DEF TypeOK, ClientTypeOK
<1>1. msgs' = msgs \cup {Data(s, req(s)) : s \in new}
  BY DEF SendNew, Send
<1>2. \A m \in msgs' : m \in msgs \/ m.type = "Data"
  BY <1>1 DEF Data
<1>3. /\ \A s, r : DataReply(s, r) \in msgs' <=> DataReply(s, r) \in msgs
      /\ \A s, q, r : GapReply(s, q, r) \in msgs' <=> GapReply(s, q, r) \in msgs
      /\ \A s, r : GapCommit(s, r) \in msgs' <=> GapCommit(s, r) \in msgs
      /\ \A s, r : GapCommitReply(s, r) \in msgs' <=> GapCommitReply(s, r) \in msgs
  BY <1>1, <1>2, OtherTypesUnsent
<1>4. \A s, q : Data(s, q) \in msgs' <=>
                Data(s, q) \in msgs \/ (s \in new /\ q = req(s))
  BY <1>1, DataInjective
<1>5. \A s \in new : s > seqNum /\ s <= seqNum + k /\ s \in Int /\ req(s) \in Nat
                     /\ req(s) > appReqId /\ req(s) <= appReqId + k
                     /\ \A t \in new : req(s) = req(t) => s = t
  BY <1>0
<1>6. seqNum' = seqNum + k /\ appReqId' = appReqId + k /\ committed' = committed
  BY DEF SendNew
<1>13. \A s \in Slots :
         /\ s \in new => /\ inflight'[s].req = req(s)
                         /\ inflight'[s].replicaMask = {}
         /\ s \notin new => inflight'[s] = inflight[s]
  BY DEF SendNew
<1> HIDE DEF new, req
<1>7. log' = log /\ acks' = acks /\ durable' = durable /\
      nextExpected' = nextExpected
  BY DEF replicaVars
<1>8. MessagesTrue'
  <2> SUFFICES ASSUME NEW s \in Slots
               PROVE  /\ \A q \in Reqs : Data(s, q) \in msgs' => s <= seqNum'
                      /\ \A q, p \in Reqs :
                           Data(s, q) \in msgs' /\ Data(s, p) \in msgs' => q = p
    BY <1>3, <1>4, <1>7 DEF IndInv, MessagesTrue
  <2>1. s \in Nat
    BY DEF Slots
  <2>2. s \in new => \A q \in Reqs : Data(s, q) \notin msgs
    BY <1>0, <1>5, <2>1 DEF IndInv, MessagesTrue
  <2>3. \A q \in Reqs : Data(s, q) \in msgs => s <= seqNum
    BY DEF IndInv, MessagesTrue
  <2>4. \A q \in Reqs : Data(s, q) \in msgs' => s <= seqNum'
    BY <1>0, <1>4, <1>5, <1>6, <2>1, <2>3
  <2>5. \A q, p \in Reqs : Data(s, q) \in msgs' /\ Data(s, p) \in msgs' => q = p
    BY <1>4, <2>2 DEF IndInv, MessagesTrue
  <2> QED
    BY <2>4, <2>5
<1>9. LogsTrue'
  BY <1>3, <1>4, <1>7 DEF IndInv, LogsTrue
<1>10. ClientTrue'
  <2>1. \A s \in Slots : inflight[s].req \in Nat
    BY DEF TypeOK, ClientTypeOK, Entry
  <2>2. ASSUME NEW s \in Slots, InFlight(s)'
        PROVE  /\ Data(s, inflight'[s].req) \in msgs'
               /\ inflight'[s].req <= appReqId'
               /\ \A r \in inflight'[s].replicaMask : DataReply(s, r) \in msgs'
               /\ \A t \in Slots : inflight'[t].req = inflight'[s].req => t = s
    <3>1. CASE s \in new
      BY <1>0, <1>4, <1>5, <1>6, <1>13, <2>1, <2>2, <3>1
      DEF IndInv, ClientTrue, InFlight
    <3>2. CASE s \notin new
      <4>1. inflight'[s] = inflight[s] /\ InFlight(s)
        BY <1>13, <2>2, <3>2 DEF InFlight
      <4>2. /\ Data(s, inflight[s].req) \in msgs
            /\ inflight[s].req <= appReqId
            /\ \A r \in inflight[s].replicaMask : DataReply(s, r) \in msgs
            /\ \A t \in Slots : inflight[t].req = inflight[s].req => t = s
        BY <4>1 DEF IndInv, ClientTrue
      <4>3. \A t \in Slots : inflight'[t].req = inflight[s].req => t = s
        BY <1>0, <1>5, <1>13, <2>1, <4>2
      <4> QED
        BY <1>0, <1>3, <1>4, <1>6, <2>1, <4>1, <4>2, <4>3
    <3> QED
      BY <3>1, <3>2
  <2>3. ASSUME NEW c \in committed
        PROVE  /\ Data(c.seq, c.req) \in msgs'
               /\ c.req <= appReqId'
               /\ HasQuorum(c.by)
               /\ \A r \in c.by : DataReply(c.seq, r) \in msgs'
               /\ \A t \in Slots : inflight'[t].req # c.req
    <3>1. c.req \in Nat
      BY DEF TypeOK, ClientTypeOK, Reqs
    <3>2. /\ Data(c.seq, c.req) \in msgs
          /\ c.req <= appReqId
          /\ HasQuorum(c.by)
          /\ \A r \in c.by : DataReply(c.seq, r) \in msgs
          /\ \A t \in Slots : inflight[t].req # c.req
      BY DEF IndInv, ClientTrue
    <3>3. \A t \in Slots : inflight'[t].req # c.req
      BY <1>0, <1>5, <1>13, <2>1, <3>1, <3>2
    <3> QED
      BY <1>0, <1>3, <1>4, <1>6, <3>1, <3>2, <3>3
  <2> QED
    BY <1>6, <2>2, <2>3 DEF ClientTrue, HasQuorum
<1>11. /\ NoOpComesFromLeader' /\ NoOpDurable' /\ CommitOnce'
       /\ NoHoleBehindFrontier'
  BY <1>6, <1>7
  DEF IndInv, NoOpComesFromLeader, NoOpDurable, CommitOnce, NoHoleBehindFrontier
<1> QED
  BY <1>8, <1>9, <1>10, <1>11 DEF IndInv

\* A resend moves the request to a new slot: it is still in one slot only.
LEMMA ResendIndInv ==
  ASSUME TypeOK, IndInv, UNCHANGED replicaVars,
         NEW s \in Slots, OnResendTimeout(s)
  PROVE  IndInv'
<1> USE ConstantTypes
<1> DEFINE new == seqNum + 1
           q == inflight[s].req
<1>0. seqNum \in Nat /\ appReqId \in Nat /\ new \in Slots /\ new > seqNum
      /\ \A t \in Slots : t \in Nat /\ inflight[t].req \in Nat
  BY DEF OnResendTimeout, TypeOK, ClientTypeOK, Entry, Slots
<1>1. q # 0 /\ q \in Reqs /\ Data(s, q) \in msgs /\ q <= appReqId
      /\ \A t \in Slots : inflight[t].req = q => t = s
  BY DEF OnResendTimeout, InFlight, IndInv, ClientTrue, TypeOK, ClientTypeOK,
         Entry, Reqs
<1>2. s # new
  BY <1>0, <1>1 DEF IndInv, MessagesTrue
<1>3. msgs' = msgs \cup {Data(new, q)}
  BY DEF OnResendTimeout, Send
<1>4. \A m \in msgs' : m \in msgs \/ m.type = "Data"
  BY <1>3 DEF Data
<1>5. /\ \A t, r : DataReply(t, r) \in msgs' <=> DataReply(t, r) \in msgs
      /\ \A t, p, r : GapReply(t, p, r) \in msgs' <=> GapReply(t, p, r) \in msgs
      /\ \A t, r : GapCommit(t, r) \in msgs' <=> GapCommit(t, r) \in msgs
      /\ \A t, r : GapCommitReply(t, r) \in msgs' <=> GapCommitReply(t, r) \in msgs
  BY <1>3, <1>4, OtherTypesUnsent
<1>6. \A t, p : Data(t, p) \in msgs' <=> Data(t, p) \in msgs \/ (t = new /\ p = q)
  BY <1>3, DataInjective
<1>7. seqNum' = new /\ appReqId' = appReqId /\ committed' = committed
  BY DEF OnResendTimeout
<1>8. /\ inflight'[s].req = 0
      /\ inflight'[new].req = q /\ inflight'[new].replicaMask = {}
      /\ \A t \in Slots \ {s, new} : inflight'[t] = inflight[t]
  BY <1>0, <1>2 DEF OnResendTimeout, TypeOK, ClientTypeOK, NoEntry
<1>9. log' = log /\ acks' = acks /\ durable' = durable /\
      nextExpected' = nextExpected
  BY DEF replicaVars
<1> HIDE DEF new, q
<1>10. MessagesTrue'
  <2> SUFFICES ASSUME NEW t \in Slots
               PROVE  /\ \A p \in Reqs : Data(t, p) \in msgs' => t <= seqNum'
                      /\ \A p, o \in Reqs :
                           Data(t, p) \in msgs' /\ Data(t, o) \in msgs' => p = o
    BY <1>5, <1>6, <1>9 DEF IndInv, MessagesTrue
  <2>1. \A p \in Reqs : Data(t, p) \in msgs => t <= seqNum
    BY DEF IndInv, MessagesTrue
  <2>2. \A p \in Reqs : Data(t, p) \in msgs' => t <= seqNum'
    BY <1>0, <1>6, <1>7, <2>1 DEF new
  <2>3. t = new => \A p \in Reqs : Data(t, p) \notin msgs
    BY <1>0, <2>1
  <2> QED
    BY <1>6, <2>2, <2>3 DEF IndInv, MessagesTrue
<1>11. LogsTrue'
  BY <1>5, <1>6, <1>9 DEF IndInv, LogsTrue
<1>12. ClientTrue'
  <2>1. ASSUME NEW t \in Slots, InFlight(t)'
        PROVE  /\ Data(t, inflight'[t].req) \in msgs'
               /\ inflight'[t].req <= appReqId'
               /\ \A r \in inflight'[t].replicaMask : DataReply(t, r) \in msgs'
               /\ \A u \in Slots : inflight'[u].req = inflight'[t].req => u = t
    <3>1. t # s /\ inflight'[t].req # 0
      BY <1>8, <2>1 DEF InFlight
    <3>2. CASE t = new
      BY <1>0, <1>1, <1>2, <1>6, <1>7, <1>8, <3>1, <3>2
    <3>3. CASE t # new
      <4>1. inflight'[t] = inflight[t] /\ InFlight(t)
        BY <1>8, <3>1, <3>3 DEF InFlight
      <4>2. /\ Data(t, inflight[t].req) \in msgs
            /\ inflight[t].req <= appReqId
            /\ \A r \in inflight[t].replicaMask : DataReply(t, r) \in msgs
            /\ \A u \in Slots : inflight[u].req = inflight[t].req => u = t
        BY <4>1 DEF IndInv, ClientTrue
      <4>3. \A u \in Slots : inflight'[u].req = inflight[t].req => u = t
        BY <1>1, <1>8, <3>1, <3>3, <4>1, <4>2
      <4> QED
        BY <1>5, <1>6, <1>7, <4>1, <4>2, <4>3
    <3> QED
      BY <3>2, <3>3
  <2>2. ASSUME NEW c \in committed
        PROVE  /\ Data(c.seq, c.req) \in msgs'
               /\ c.req <= appReqId'
               /\ HasQuorum(c.by)
               /\ \A r \in c.by : DataReply(c.seq, r) \in msgs'
               /\ \A t \in Slots : inflight'[t].req # c.req
    <3>1. /\ Data(c.seq, c.req) \in msgs
          /\ c.req <= appReqId
          /\ HasQuorum(c.by)
          /\ \A r \in c.by : DataReply(c.seq, r) \in msgs
          /\ \A t \in Slots : inflight[t].req # c.req
      BY DEF IndInv, ClientTrue
    <3>2. c.req # 0
      BY DEF TypeOK, ClientTypeOK, Reqs
    <3>3. \A t \in Slots : inflight'[t].req # c.req
      BY <1>8, <3>1, <3>2 DEF q
    <3> QED
      BY <1>5, <1>6, <1>7, <3>1, <3>3
  <2> QED
    BY <1>7, <2>1, <2>2 DEF ClientTrue, HasQuorum
<1>13. /\ NoOpComesFromLeader' /\ NoOpDurable' /\ CommitOnce'
       /\ NoHoleBehindFrontier'
  BY <1>7, <1>9
  DEF IndInv, NoOpComesFromLeader, NoOpDurable, CommitOnce, NoHoleBehindFrontier
<1> QED
  BY <1>10, <1>11, <1>12, <1>13 DEF IndInv

\* Counting a reply: the request leaves the table exactly when it commits.
LEMMA DataReplyIndInv ==
  ASSUME TypeOK, IndInv, UNCHANGED replicaVars,
         NEW s \in Slots, NEW r \in Replicas, HandleDataReply(s, r)
  PROVE  IndInv'
<1> USE ConstantTypes
<1> DEFINE q == inflight[s].req
           mask == inflight[s].replicaMask \cup {r}
           new == [seq |-> s, req |-> q, by |-> mask]
<1>1. /\ Data(s, q) \in msgs /\ q <= appReqId /\ q # 0
      /\ \A p \in mask : DataReply(s, p) \in msgs
      /\ \A t \in Slots : inflight[t].req = q => t = s
  BY DEF HandleDataReply, InFlight, IndInv, ClientTrue
<1>2. /\ msgs' = msgs /\ appReqId' = appReqId /\ seqNum' = seqNum
      /\ log' = log /\ acks' = acks /\ durable' = durable
      /\ nextExpected' = nextExpected
  BY DEF HandleDataReply, replicaVars
<1>3. /\ MessagesTrue' /\ LogsTrue' /\ NoOpComesFromLeader' /\ NoOpDurable'
      /\ NoHoleBehindFrontier'
  BY <1>2 DEF IndInv, MessagesTrue, LogsTrue, NoOpComesFromLeader, NoOpDurable,
              NoHoleBehindFrontier
<1>4. \A t \in Slots \ {s} : inflight'[t] = inflight[t]
  BY DEF HandleDataReply, TypeOK, ClientTypeOK
<1>5. CASE ~HasQuorum(mask)
  <2>1. committed' = committed /\ inflight'[s].req = q
        /\ inflight'[s].replicaMask = mask
    BY <1>5 DEF HandleDataReply, TypeOK, ClientTypeOK, Entry
  <2> HIDE DEF q, mask
  <2>2. \A t \in Slots : inflight'[t].req = inflight[t].req
    BY <1>4, <2>1 DEF q
  <2>3. ClientTrue'
    BY <1>1, <1>2, <1>4, <2>1, <2>2 DEF IndInv, ClientTrue, InFlight, HasQuorum
  <2> QED
    BY <1>3, <2>1, <2>3 DEF IndInv, CommitOnce
<1>6. CASE HasQuorum(mask)
  <2>1. committed' = committed \cup {new} /\ inflight'[s].req = 0
    BY <1>6 DEF HandleDataReply, TypeOK, ClientTypeOK, NoEntry
  <2>2. new.seq = s /\ new.req = q /\ new.by = mask
    OBVIOUS
  <2>3. \A c \in committed : c.req # q /\ c.req # 0
    BY DEF IndInv, ClientTrue, TypeOK, ClientTypeOK, Reqs
  <2> HIDE DEF q, mask, new
  <2>4. ClientTrue'
    <3>1. ASSUME NEW t \in Slots, InFlight(t)'
          PROVE  /\ Data(t, inflight'[t].req) \in msgs
                 /\ inflight'[t].req <= appReqId
                 /\ \A p \in inflight'[t].replicaMask : DataReply(t, p) \in msgs
                 /\ \A u \in Slots : inflight'[u].req = inflight'[t].req => u = t
      BY <1>4, <2>1, <3>1 DEF IndInv, ClientTrue, InFlight
    <3>2. ASSUME NEW c \in committed'
          PROVE  /\ Data(c.seq, c.req) \in msgs
                 /\ c.req <= appReqId
                 /\ HasQuorum(c.by)
                 /\ \A p \in c.by : DataReply(c.seq, p) \in msgs
                 /\ \A t \in Slots : inflight'[t].req # c.req
      <4>1. CASE c = new
        BY <1>1, <1>4, <1>6, <2>1, <2>2, <4>1
      <4>2. CASE c \in committed
        BY <1>4, <2>1, <2>3, <4>2 DEF IndInv, ClientTrue
      <4> QED
        BY <2>1, <3>2, <4>1, <4>2
    <3> QED
      BY <1>2, <3>1, <3>2 DEF ClientTrue, HasQuorum
  <2>5. CommitOnce'
    BY <2>1, <2>2, <2>3 DEF IndInv, CommitOnce
  <2> QED
    BY <1>3, <2>4, <2>5 DEF IndInv
<1> QED
  BY <1>5, <1>6

\* A step of the client keeps the inductive invariant.
LEMMA ClientStepIndInv ==
  ASSUME TypeOK, IndInv, ClientNext, UNCHANGED replicaVars
  PROVE  IndInv'
<1>1. CASE Start
  <2>1. msgs' = msgs \cup {Sync}
    BY <1>1 DEF Start, Send
  <2>2. \A m \in msgs' : m \in msgs \/ m.type = "Sync"
    BY <2>1 DEF Sync
  <2>3. /\ \A s, q : Data(s, q) \in msgs' <=> Data(s, q) \in msgs
        /\ \A s, r : DataReply(s, r) \in msgs' <=> DataReply(s, r) \in msgs
        /\ \A s, q, r : GapReply(s, q, r) \in msgs' <=> GapReply(s, q, r) \in msgs
        /\ \A s, r : GapCommit(s, r) \in msgs' <=> GapCommit(s, r) \in msgs
        /\ \A s, r : GapCommitReply(s, r) \in msgs' <=> GapCommitReply(s, r) \in msgs
    BY <2>1, <2>2, OtherTypesUnsent
  <2>4. UNCHANGED <<seqNum, appReqId, inflight, committed, log, acks, durable,
                    nextExpected>>
    BY <1>1 DEF Start, replicaVars
  <2>5. MessagesTrue'
    BY <2>3, <2>4 DEF IndInv, MessagesTrue
  <2>6. LogsTrue'
    BY <2>3, <2>4 DEF IndInv, LogsTrue
  <2>7. ClientTrue'
    BY <2>3, <2>4 DEF IndInv, ClientTrue, InFlight, HasQuorum
  <2> QED
    BY <2>4, <2>5, <2>6, <2>7 DEF IndInv, NoOpComesFromLeader, NoOpDurable,
                                  CommitOnce, NoHoleBehindFrontier
<1>2. CASE OnSyncWaitDone
  BY <1>2, SendNewIndInv DEF OnSyncWaitDone
<1>3. CASE SendTick
  BY <1>3, SendNewIndInv DEF SendTick
<1>4. CASE \E s \in Slots : OnResendTimeout(s)
  BY <1>4, ResendIndInv
<1>5. CASE \E s \in Slots, r \in Replicas : HandleDataReply(s, r)
  BY <1>5, DataReplyIndInv
<1> QED
  BY <1>1, <1>2, <1>3, <1>4, <1>5 DEF ClientNext

-----------------------------------------------------------------------------
(* What any step of a replica may do to the logs.                           *)

\* A NoOp stays, data stays or becomes a NoOp, new data was sent by the client,
\* and a new NoOp is one the leader has too.
LogStep ==
  \A r \in Replicas, s \in Slots :
    /\ log[r][s] = NOOP => log'[r][s] = NOOP
    /\ log[r][s] \in Reqs => log'[r][s] \in {log[r][s], NOOP}
    /\ log'[r][s] \in Reqs => log'[r][s] = log[r][s]
                              \/ Data(s, log'[r][s]) \in msgs
    /\ log'[r][s] = NOOP => log[r][s] = NOOP \/ log'[Leader][s] = NOOP

\* The log row AdvanceContiguous is given is the only row that changes, and the
\* frontier does not pass a hole of it.
LEMMA AdvanceEffect ==
  ASSUME TypeOK, NoHoleBehindFrontier, NEW r \in Replicas,
         NEW row \in [Slots -> LogEntry], AdvanceContiguous(r, row),
         \A s \in Slots : log[r][s] # EMPTY => row[s] # EMPTY
  PROVE  /\ log'[r] = row
         /\ \A p \in Replicas \ {r} : log'[p] = log[p]
         /\ NoHoleBehindFrontier'
<1>1. log'[r] = row /\ \A p \in Replicas \ {r} : log'[p] = log[p]
  BY DEF AdvanceContiguous, TypeOK, ReplicaTypeOK
<1>2. PICK k \in 1 .. (MaxSlot + 1) :
        /\ IsFrontier(row, nextExpected[r], k)
        /\ nextExpected' = [nextExpected EXCEPT ![r] = k]
  BY DEF AdvanceContiguous
<1>3. ASSUME NEW p \in Replicas, NEW s \in Slots, s < nextExpected'[p]
      PROVE  log'[p][s] # EMPTY
  <2>1. CASE p = r
    <3>1. nextExpected'[p] = k /\ nextExpected[r] \in Nat /\ s \in Nat
      BY <1>2, <2>1 DEF TypeOK, ReplicaTypeOK, Slots
    <3>2. CASE s < nextExpected[r]
      BY <1>1, <2>1, <3>2 DEF NoHoleBehindFrontier
    <3>3. CASE nextExpected[r] <= s
      BY <1>1, <1>2, <1>3, <2>1, <3>1, <3>3 DEF IsFrontier
    <3> QED
      BY <3>1, <3>2, <3>3
  <2>2. CASE p # r
    BY <1>1, <1>2, <1>3, <2>2 DEF NoHoleBehindFrontier, TypeOK, ReplicaTypeOK
  <2> QED
    BY <2>1, <2>2
<1> QED
  BY <1>1, <1>3 DEF NoHoleBehindFrontier

\* Storing data of a slot: what RecordReceived leaves in the row.
LEMMA RecordEffect ==
  ASSUME TypeOK, IndInv, NEW r \in Replicas, NEW s \in Slots, NEW q \in Reqs,
         Data(s, q) \in msgs, AdvanceContiguous(r, RecordReceived(log[r], s, q))
  PROVE  LogStep /\ NoHoleBehindFrontier' /\ log'[r][s] # EMPTY
<1> DEFINE row == RecordReceived(log[r], s, q)
<1>1. /\ row \in [Slots -> LogEntry]
      /\ \A t \in Slots \ {s} : row[t] = log[r][t]
      /\ log[r][s] = NOOP => row[s] = NOOP
      /\ log[r][s] # NOOP => row[s] = q
  BY DEF TypeOK, ReplicaTypeOK, RecordReceived, LogEntry
<1>2. log[r][s] \in Reqs => log[r][s] = q
  BY DEF IndInv, MessagesTrue, LogsTrue
<1>3. \A t \in Slots : log[r][t] # EMPTY => row[t] # EMPTY
  BY <1>1, Contents
<1>4. /\ log'[r] = row /\ \A p \in Replicas \ {r} : log'[p] = log[p]
      /\ NoHoleBehindFrontier'
  BY <1>1, <1>3, AdvanceEffect DEF IndInv
<1> HIDE DEF row
<1>5. log'[r][s] # EMPTY
  BY <1>1, <1>4, Contents
<1>6. LogStep
  BY <1>1, <1>2, <1>4, Contents DEF LogStep
<1> QED
  BY <1>4, <1>5, <1>6

\* The replicas that hold a NoOp can only become more.
LEMMA HoldersGrow ==
  ASSUME LogStep, NEW s \in Slots,
         Cardinality({r \in Replicas : log[r][s] = NOOP}) >= QuorumSize
  PROVE  Cardinality({r \in Replicas : log'[r][s] = NOOP}) >= QuorumSize
<1> DEFINE A == {r \in Replicas : log[r][s] = NOOP}
           B == {r \in Replicas : log'[r][s] = NOOP}
<1>1. A \subseteq B /\ B \subseteq Replicas
  BY DEF LogStep
<1>2. IsFiniteSet(Replicas)
  BY ConstantTypes, FS_Interval DEF Replicas
<1>3. IsFiniteSet(B)
  BY <1>1, <1>2, FS_Subset
<1>4. Cardinality(A) <= Cardinality(B) /\ IsFiniteSet(A)
  BY <1>1, <1>3, FS_Subset
<1>5. Cardinality(A) \in Nat /\ Cardinality(B) \in Nat
  BY <1>3, <1>4, FS_CardinalityType
<1> QED
  BY <1>4, <1>5, ConstantTypes DEF QuorumSize

-----------------------------------------------------------------------------
(* The replicas preserve the inductive invariant.                           *)

\* A message determines its fields.
LEMMA Injective ==
  /\ \A s, r, t, u : DataReply(s, r) = DataReply(t, u) => s = t /\ r = u
  /\ \A s, q, r, t, p, u :
       GapReply(s, q, r) = GapReply(t, p, u) => s = t /\ q = p /\ r = u
  /\ \A s, r, t, u : GapCommit(s, r) = GapCommit(t, u) => s = t /\ r = u
  /\ \A s, r, t, u :
       GapCommitReply(s, r) = GapCommitReply(t, u) => s = t /\ r = u
BY DEF DataReply, GapReply, GapCommit, GapCommitReply

\* What a replica's step has to establish: the logs only take a LogStep, what
\* it says in new messages is true, and what it counts was acknowledged.
LEMMA ReplicaObligations ==
  ASSUME TypeOK, IndInv, UNCHANGED clientVars, LogStep, NoHoleBehindFrontier',
         msgs \subseteq msgs',
         \A s, q : Data(s, q) \in msgs' <=> Data(s, q) \in msgs,
         \A s \in Slots, q \in Reqs, r \in Replicas :
           GapReply(s, q, r) \in msgs' =>
             GapReply(s, q, r) \in msgs \/ Data(s, q) \in msgs,
         \A s \in Slots, r \in Replicas :
           /\ GapCommit(s, r) \in msgs' =>
                GapCommit(s, r) \in msgs \/ log'[Leader][s] = NOOP
           /\ GapCommitReply(s, r) \in msgs' =>
                GapCommitReply(s, r) \in msgs \/ log'[r][s] = NOOP
           /\ GapEnabled /\ DataReply(s, r) \in msgs' =>
                DataReply(s, r) \in msgs \/ log'[r][s] # EMPTY,
         \A s \in Slots : \A r \in acks'[s] : GapCommitReply(s, r) \in msgs,
         \A s \in durable' :
           s \in Slots /\ Cardinality({r \in Replicas : log[r][s] = NOOP}) >= QuorumSize
  PROVE  IndInv'
<1> USE ConstantTypes
<1>1. UNCHANGED <<phase, seqNum, appReqId, inflight, committed>>
  BY DEF clientVars
<1>2. ASSUME NEW r \in Replicas, NEW s \in Slots, log[r][s] # EMPTY
      PROVE  log'[r][s] # EMPTY
  BY <1>2, Contents DEF LogStep, TypeOK, ReplicaTypeOK, LogEntry
<1>3. MessagesTrue'
  <2> SUFFICES ASSUME NEW s \in Slots
        PROVE  /\ \A q \in Reqs : Data(s, q) \in msgs' => s <= seqNum'
               /\ \A q, p \in Reqs :
                    Data(s, q) \in msgs' /\ Data(s, p) \in msgs' => q = p
               /\ \A q \in Reqs, r \in Replicas :
                    GapReply(s, q, r) \in msgs' => Data(s, q) \in msgs'
               /\ \A r \in Replicas :
                    /\ GapCommit(s, r) \in msgs' => log'[Leader][s] = NOOP
                    /\ GapCommitReply(s, r) \in msgs' => log'[r][s] = NOOP
                    /\ GapEnabled /\ DataReply(s, r) \in msgs' =>
                         log'[r][s] # EMPTY
    BY DEF MessagesTrue
  <2>1. \A q \in Reqs : Data(s, q) \in msgs' => s <= seqNum'
    BY <1>1 DEF IndInv, MessagesTrue
  <2>2. \A q, p \in Reqs : Data(s, q) \in msgs' /\ Data(s, p) \in msgs' => q = p
    BY DEF IndInv, MessagesTrue
  <2>3. \A q \in Reqs, r \in Replicas :
          GapReply(s, q, r) \in msgs' => Data(s, q) \in msgs'
    BY DEF IndInv, MessagesTrue
  <2>4. \A r \in Replicas : /\ GapCommit(s, r) \in msgs' => log'[Leader][s] = NOOP
                            /\ GapCommitReply(s, r) \in msgs' => log'[r][s] = NOOP
    BY DEF IndInv, MessagesTrue, LogStep
  <2>5. \A r \in Replicas : GapEnabled /\ DataReply(s, r) \in msgs' =>
                              log'[r][s] # EMPTY
    BY <1>2 DEF IndInv, MessagesTrue
  <2> QED
    BY <2>1, <2>2, <2>3, <2>4, <2>5
<1>4. LogsTrue'
  BY DEF IndInv, LogsTrue, LogStep
<1>5. ClientTrue'
  BY <1>1 DEF IndInv, ClientTrue, InFlight, HasQuorum
<1>6. NoOpComesFromLeader'
  BY DEF IndInv, NoOpComesFromLeader, LogStep
<1>7. NoOpDurable'
  BY HoldersGrow DEF NoOpDurable
<1>8. CommitOnce'
  BY <1>1 DEF IndInv, CommitOnce
<1> QED
  BY <1>3, <1>4, <1>5, <1>6, <1>7, <1>8 DEF IndInv

\* The obligations of a step that leaves the acks alone.
LEMMA AcksKept ==
  ASSUME TypeOK, IndInv, acks' = acks, durable' = durable
  PROVE  /\ \A s \in Slots : \A r \in acks'[s] : GapCommitReply(s, r) \in msgs
         /\ \A s \in durable' :
              /\ s \in Slots
              /\ Cardinality({r \in Replicas : log[r][s] = NOOP}) >= QuorumSize
BY DEF IndInv, LogsTrue, NoOpDurable, TypeOK, ReplicaTypeOK

\* Data stored on arrival, or recovered from the leader, and its reply.
LEMMA StoreIndInv ==
  ASSUME TypeOK, IndInv, UNCHANGED clientVars,
         NEW r \in Replicas, NEW s \in Slots, NEW q \in Reqs, NEW a \in BOOLEAN,
         Data(s, q) \in msgs, Send(Replies(r, s, a)), acks' = acks,
         durable' = durable, AdvanceContiguous(r, RecordReceived(log[r], s, q))
  PROVE  IndInv' /\ LogStep
<1>1. LogStep /\ NoHoleBehindFrontier' /\ log'[r][s] # EMPTY
  BY RecordEffect
<1>2. /\ msgs \subseteq msgs'
      /\ \A m \in msgs' : m \in msgs \/ m = DataReply(s, r)
  BY DEF Send, Replies
<1>3. \A m \in msgs' : m \in msgs \/ m.type = "DataReply"
  BY <1>2 DEF DataReply
<1>4. \A t, u : DataReply(t, u) \in msgs' =>
                  DataReply(t, u) \in msgs \/ (t = s /\ u = r)
  BY <1>2, Injective
<1> QED
  BY <1>1, <1>2, <1>3, <1>4, OtherTypesUnsent, AcksKept, ReplicaObligations

\* HandleData keeps the invariant and changes no decided slot.
LEMMA HandleDataIndInv ==
  ASSUME TypeOK, IndInv, UNCHANGED clientVars, NEW r \in Replicas,
         NEW s \in Slots, NEW q \in Reqs, HandleData(r, s, q)
  PROVE  IndInv' /\ LogStep
<1>1. CASE GapEnabled /\ ShouldDrop(r, s)
  <2>1. UNCHANGED <<log, nextExpected, msgs, acks, durable>>
    BY <1>1 DEF HandleData
  <2>2. LogStep /\ NoHoleBehindFrontier'
    BY <2>1 DEF LogStep, IndInv, NoHoleBehindFrontier
  <2> QED
    BY <2>1, <2>2, AcksKept, ReplicaObligations
<1>2. CASE GapEnabled /\ ~ShouldDrop(r, s)
  BY <1>2, StoreIndInv DEF HandleData
<1>3. CASE ~GapEnabled
  <2>1. UNCHANGED <<log, nextExpected, acks, durable>>
    BY <1>3 DEF HandleData
  <2>2. LogStep /\ NoHoleBehindFrontier'
    BY <2>1 DEF LogStep, IndInv, NoHoleBehindFrontier
  <2>3. msgs \subseteq msgs' /\ \A m \in msgs' : m \in msgs \/ m.type = "DataReply"
    BY <1>3 DEF HandleData, Send, Replies, DataReply
  <2> QED
    BY <1>3, <2>1, <2>2, <2>3, OtherTypesUnsent, AcksKept, ReplicaObligations
<1> QED
  BY <1>1, <1>2, <1>3

\* HandleGapRequest changes no log: the leader answers from its own.
LEMMA HandleGapRequestIndInv ==
  ASSUME TypeOK, IndInv, UNCHANGED clientVars, NEW r \in Replicas,
         NEW s \in Slots, NEW p \in Replicas, HandleGapRequest(r, s, p)
  PROVE  IndInv' /\ LogStep
<1>1. UNCHANGED <<log, nextExpected, acks, durable>> /\ r = Leader
  BY DEF HandleGapRequest
<1>2. LogStep /\ NoHoleBehindFrontier'
  BY <1>1 DEF LogStep, IndInv, NoHoleBehindFrontier
<1>3. CASE log[r][s] \in Reqs
  <2>1. msgs' = msgs \cup {GapReply(s, log[r][s], p)} /\ Data(s, log[r][s]) \in msgs
    BY <1>3, Contents, Answers DEF HandleGapRequest, Send, IndInv, LogsTrue
  <2>2. \A m \in msgs' : m \in msgs \/ m.type = "GapReply"
    BY <2>1 DEF GapReply
  <2>3. \A t, o, u : GapReply(t, o, u) \in msgs' =>
                       GapReply(t, o, u) \in msgs \/ (t = s /\ o = log[r][s])
    BY <2>1, Injective
  <2> QED
    BY <1>1, <1>2, <2>1, <2>2, <2>3, OtherTypesUnsent, AcksKept,
       ReplicaObligations
<1>4. CASE log[r][s] = NOOP
  <2>1. msgs' = msgs \cup {GapCommit(s, p)}
    BY <1>4, Contents, Answers DEF HandleGapRequest, Send
  <2>2. \A m \in msgs' : m \in msgs \/ m.type = "GapCommit"
    BY <2>1 DEF GapCommit
  <2>3. \A t, u : GapCommit(t, u) \in msgs' => GapCommit(t, u) \in msgs \/ t = s
    BY <2>1, Injective
  <2> QED
    BY <1>1, <1>2, <1>4, <2>1, <2>2, <2>3, OtherTypesUnsent, AcksKept,
       ReplicaObligations
<1>5. CASE log[r][s] = EMPTY
  <2>1. msgs' = msgs
    BY <1>5, Contents, Answers DEF HandleGapRequest, Send
  <2> QED
    BY <1>1, <1>2, <2>1, AcksKept, ReplicaObligations
<1> QED
  BY <1>3, <1>4, <1>5, Answers

\* HandleGapCommit installs a NoOp the leader has decided.
LEMMA HandleGapCommitIndInv ==
  ASSUME TypeOK, IndInv, UNCHANGED clientVars, NEW r \in Replicas,
         NEW s \in Slots, HandleGapCommit(r, s)
  PROVE  IndInv' /\ LogStep
<1> DEFINE row == [log[r] EXCEPT ![s] = NOOP]
<1>1. /\ row \in [Slots -> LogEntry] /\ row[s] = NOOP
      /\ \A t \in Slots \ {s} : row[t] = log[r][t]
  BY DEF TypeOK, ReplicaTypeOK, LogEntry
<1>2. \A t \in Slots : log[r][t] # EMPTY => row[t] # EMPTY
  BY <1>1, Contents
<1>3. AdvanceContiguous(r, row)
  BY DEF HandleGapCommit
<1> HIDE DEF row
<1>4. /\ log'[r] = row /\ \A p \in Replicas \ {r} : log'[p] = log[p]
      /\ NoHoleBehindFrontier'
  BY <1>1, <1>2, <1>3, AdvanceEffect DEF IndInv
<1>5. log[Leader][s] = NOOP
  BY DEF HandleGapCommit, IndInv, MessagesTrue
<1>6. LogStep
  BY <1>1, <1>4, <1>5, Contents, ConstantTypes DEF LogStep, IndInv, LogsTrue
<1>7. msgs' = msgs \cup {GapCommitReply(s, r)} /\ acks' = acks /\ durable' = durable
  BY DEF HandleGapCommit, Send
<1>8. \A m \in msgs' : m \in msgs \/ m.type = "GapCommitReply"
  BY <1>7 DEF GapCommitReply
<1>9. \A t, u : GapCommitReply(t, u) \in msgs' =>
                  GapCommitReply(t, u) \in msgs \/ (t = s /\ u = r)
  BY <1>7, Injective
<1>10. log'[r][s] = NOOP
  BY <1>1, <1>4
<1> QED
  BY <1>4, <1>6, <1>7, <1>8, <1>9, <1>10, OtherTypesUnsent, AcksKept,
     ReplicaObligations

\* f followers that acknowledged, and the leader, are f + 1 holders of the NoOp.
LEMMA HandleGapCommitReplyIndInv ==
  ASSUME TypeOK, IndInv, UNCHANGED clientVars, NEW r \in Replicas,
         NEW s \in Slots, NEW p \in Replicas, HandleGapCommitReply(r, s, p)
  PROVE  IndInv' /\ LogStep
<1> USE ConstantTypes
<1> DEFINE got == acks[s] \cup {p}
           holders == {u \in Replicas : log[u][s] = NOOP}
<1>1. UNCHANGED <<log, nextExpected, msgs>>
  BY DEF HandleGapCommitReply
<1>2. LogStep /\ NoHoleBehindFrontier'
  BY <1>1 DEF LogStep, IndInv, NoHoleBehindFrontier
<1>3. \A u \in got : GapCommitReply(s, u) \in msgs
  BY DEF HandleGapCommitReply, IndInv, LogsTrue
<1>4. got \subseteq Followers
  BY <1>3, GapPeers DEF TypeOK
<1>5. Leader \in holders /\ got \subseteq holders
  BY <1>3, <1>4 DEF IndInv, MessagesTrue, NoOpComesFromLeader
<1>6. \A t \in Slots : acks'[t] \subseteq acks[t] \/ (t = s /\ acks'[t] = got)
  BY DEF HandleGapCommitReply, TypeOK, ReplicaTypeOK
<1>7. \A t \in Slots : \A u \in acks'[t] : GapCommitReply(t, u) \in msgs
  BY <1>3, <1>6 DEF IndInv, LogsTrue
<1>8. ASSUME Cardinality(got) >= QuorumSize - 1
      PROVE  Cardinality(holders) >= QuorumSize
  <2>1. IsFiniteSet(Replicas)
    BY FS_Interval DEF Replicas
  <2>2. IsFiniteSet(got) /\ IsFiniteSet(holders)
    BY <1>4, <2>1, FS_Subset
  <2>3. Cardinality(got \cup {Leader}) = Cardinality(got) + 1
    BY <1>4, <2>2, FS_AddElement
  <2>4. Cardinality(got \cup {Leader}) <= Cardinality(holders)
    BY <1>5, <2>2, FS_Subset
  <2>5. Cardinality(got) \in Nat /\ Cardinality(holders) \in Nat
    BY <2>2, FS_CardinalityType
  <2> QED
    BY <1>8, <2>3, <2>4, <2>5 DEF QuorumSize
<1>9. \A t \in durable' : t \in durable \/ (t = s /\ Cardinality(got) >= QuorumSize - 1)
  BY DEF HandleGapCommitReply
<1> HIDE DEF got
<1>10. \A t \in durable' :
         /\ t \in Slots
         /\ Cardinality({u \in Replicas : log[u][t] = NOOP}) >= QuorumSize
  BY <1>8, <1>9 DEF IndInv, NoOpDurable, TypeOK, ReplicaTypeOK
<1> QED
  BY <1>1, <1>2, <1>7, <1>10, ReplicaObligations

\* The gap timer: a follower asks, the leader decides a NoOp for its own holes.
LEMMA OnGapTimeoutIndInv ==
  ASSUME TypeOK, IndInv, UNCHANGED clientVars, NEW r \in Replicas,
         NEW cut \in 0 .. MaxSlot, OnGapTimeout(r, cut)
  PROVE  IndInv' /\ LogStep
<1> USE ConstantTypes
<1> DEFINE S == Overdue(r, cut)
<1>0. S \subseteq Slots /\ \A s \in S : log[r][s] = EMPTY
  BY DEF Overdue
<1> HIDE DEF S
<1>1. CASE StartGapAgreement(r, S)
  <2> DEFINE row == [s \in Slots |-> IF s \in S THEN NOOP ELSE log[r][s]]
  <2>1. /\ row \in [Slots -> LogEntry]
        /\ \A s \in Slots : (s \in S => row[s] = NOOP) /\
                            (s \notin S => row[s] = log[r][s])
    BY DEF TypeOK, ReplicaTypeOK, LogEntry
  <2>2. AdvanceContiguous(r, row) /\ r = Leader
    BY <1>1 DEF StartGapAgreement
  <2> HIDE DEF row
  <2>3. \A s \in Slots : log[r][s] # EMPTY => row[s] # EMPTY
    BY <2>1, Contents
  <2>4. /\ log'[r] = row /\ \A p \in Replicas \ {r} : log'[p] = log[p]
        /\ NoHoleBehindFrontier'
    BY <2>1, <2>2, <2>3, AdvanceEffect DEF IndInv
  <2>5. LogStep
    BY <1>0, <2>1, <2>2, <2>4, Contents DEF LogStep, IndInv, LogsTrue
  <2>6. /\ msgs' = msgs \cup {GapCommit(s, p) : s \in S, p \in Followers}
        /\ durable' = durable
    BY <1>1 DEF StartGapAgreement, Send, OnGapTimeout
  <2>7. msgs \subseteq msgs' /\ \A m \in msgs' : m \in msgs \/ m.type = "GapCommit"
    BY <2>6 DEF GapCommit
  <2>8. \A t, u : GapCommit(t, u) \in msgs' => GapCommit(t, u) \in msgs \/ t \in S
    BY <2>6, Injective
  <2>9. \A t \in Slots : acks'[t] = {} \/ acks'[t] = acks[t]
    BY <1>1 DEF StartGapAgreement
  <2>10. \A t \in Slots : \A u \in acks'[t] : GapCommitReply(t, u) \in msgs
    BY <2>9 DEF IndInv, LogsTrue
  <2>11. \A t \in durable' :
           /\ t \in Slots
           /\ Cardinality({u \in Replicas : log[u][t] = NOOP}) >= QuorumSize
    BY <2>6 DEF IndInv, NoOpDurable, TypeOK, ReplicaTypeOK
  <2>12. \A t \in S : log'[Leader][t] = NOOP
    BY <1>0, <2>1, <2>2, <2>4
  <2> QED
    BY <2>4, <2>5, <2>7, <2>8, <2>10, <2>11, <2>12, OtherTypesUnsent,
       ReplicaObligations
<1>2. CASE SendGapRequest(r, S)
  <2>1. AdvanceContiguous(r, log[r]) /\ acks' = acks /\ durable' = durable
    BY <1>2 DEF SendGapRequest, OnGapTimeout
  <2>2. log[r] \in [Slots -> LogEntry]
    BY DEF TypeOK, ReplicaTypeOK
  <2>3. /\ log'[r] = log[r] /\ \A p \in Replicas \ {r} : log'[p] = log[p]
        /\ NoHoleBehindFrontier'
    BY <2>1, <2>2, AdvanceEffect DEF IndInv
  <2>4. LogStep
    BY <2>3 DEF LogStep
  <2>5. msgs' = msgs \cup {GapRequest(s, r) : s \in S}
    BY <1>2 DEF SendGapRequest, Send
  <2>6. msgs \subseteq msgs' /\ \A m \in msgs' : m \in msgs \/ m.type = "GapRequest"
    BY <2>5 DEF GapRequest
  <2> QED
    BY <2>1, <2>3, <2>4, <2>6, OtherTypesUnsent, AcksKept, ReplicaObligations
<1> QED
  BY <1>1, <1>2 DEF OnGapTimeout, S

\* Any step of a replica keeps the invariant and changes no decided slot.
LEMMA ReplicaStepIndInv ==
  ASSUME TypeOK, IndInv, ReplicaNext, UNCHANGED clientVars
  PROVE  IndInv' /\ LogStep
<1> PICK r \in Replicas :
      \/ HandleSync(r)
      \/ \E s \in Slots, q \in Reqs : HandleData(r, s, q)
      \/ HandleLaterData(r)
      \/ \E s \in Slots, p \in Replicas : HandleGapRequest(r, s, p)
      \/ \E s \in Slots, q \in Reqs : HandleGapReply(r, s, q)
      \/ \E s \in Slots : HandleGapCommit(r, s)
      \/ \E s \in Slots, p \in Replicas : HandleGapCommitReply(r, s, p)
      \/ \E cut \in 0 .. MaxSlot : OnGapTimeout(r, cut)
  BY DEF ReplicaNext
<1>1. CASE HandleSync(r)
  <2>1. UNCHANGED <<log, msgs, acks, durable>>
    BY <1>1 DEF HandleSync
  <2>2. LogStep
    BY <2>1 DEF LogStep
  <2>3. NoHoleBehindFrontier'
    BY <1>1, <2>1
    DEF HandleSync, IndInv, NoHoleBehindFrontier, TypeOK, ReplicaTypeOK, Slots
  <2> QED
    BY <2>1, <2>2, <2>3, AcksKept, ReplicaObligations
<1>2. CASE \E s \in Slots, q \in Reqs : HandleData(r, s, q)
  BY <1>2, HandleDataIndInv
<1>3. CASE \E s \in Slots, p \in Replicas : HandleGapRequest(r, s, p)
  BY <1>3, HandleGapRequestIndInv
<1>4. CASE \E s \in Slots, q \in Reqs : HandleGapReply(r, s, q)
  <2> PICK s \in Slots, q \in Reqs : HandleGapReply(r, s, q)
    BY <1>4
  <2>1. Data(s, q) \in msgs /\ addr[r] \in BOOLEAN
    BY DEF HandleGapReply, IndInv, MessagesTrue, TypeOK, ReplicaTypeOK
  <2> QED
    BY <2>1, StoreIndInv DEF HandleGapReply
<1>5. CASE \E s \in Slots : HandleGapCommit(r, s)
  BY <1>5, HandleGapCommitIndInv
<1>6. CASE \E s \in Slots, p \in Replicas : HandleGapCommitReply(r, s, p)
  BY <1>6, HandleGapCommitReplyIndInv
<1>7. CASE \E cut \in 0 .. MaxSlot : OnGapTimeout(r, cut)
  BY <1>7, OnGapTimeoutIndInv
<1>8. CASE HandleLaterData(r)
  <2>1. UNCHANGED <<msgs, acks, durable>>
    BY <1>8 DEF HandleLaterData
  <2>2. log' = log /\ NoHoleBehindFrontier'
    <3>1. CASE UNCHANGED <<log, nextExpected, gapTimerId>>
      BY <3>1 DEF IndInv, NoHoleBehindFrontier
    <3>2. CASE AdvanceContiguous(r, log[r])
      <4>1. log[r] \in [Slots -> LogEntry]
        BY DEF TypeOK, ReplicaTypeOK
      <4>2. NoHoleBehindFrontier'
        BY <3>2, <4>1, AdvanceEffect DEF IndInv
      <4> QED
        BY <3>2, <4>2 DEF AdvanceContiguous, TypeOK, ReplicaTypeOK
    <3> QED
      BY <1>8, <3>1, <3>2 DEF HandleLaterData
  <2>3. LogStep
    BY <2>2 DEF LogStep
  <2> QED
    BY <2>1, <2>2, <2>3, AcksKept, ReplicaObligations
<1> QED
  BY <1>1, <1>2, <1>3, <1>4, <1>5, <1>6, <1>7, <1>8

-----------------------------------------------------------------------------
(* The theorems.                                                            *)

\* Messages, logs and the client's table agree in the initial state.
LEMMA InitIndInv == Init => IndInv
<1> SUFFICES ASSUME Init PROVE IndInv
  OBVIOUS
<1> USE ConstantTypes, Contents DEF Init, ClientInit, ReplicaInit
<1>1. MessagesTrue /\ LogsTrue
  BY DEF MessagesTrue, LogsTrue
<1>2. ClientTrue /\ CommitOnce
  BY DEF ClientTrue, CommitOnce, InFlight, NoEntry
<1>3. NoOpComesFromLeader /\ NoOpDurable
  BY DEF NoOpComesFromLeader, NoOpDurable
<1>4. NoHoleBehindFrontier
  BY DEF NoHoleBehindFrontier, Slots
<1> QED
  BY <1>1, <1>2, <1>3, <1>4 DEF IndInv

\* The inductive invariant of PaxosBus.
THEOREM Invariance == Spec => []IndInv
<1>1. TypeOK /\ IndInv /\ [Next]_vars => IndInv'
  <2> SUFFICES ASSUME TypeOK, IndInv, [Next]_vars PROVE IndInv'
    OBVIOUS
  <2>1. CASE ClientNext /\ UNCHANGED replicaVars
    BY <2>1, ClientStepIndInv
  <2>2. CASE ReplicaNext /\ UNCHANGED clientVars
    BY <2>2, ReplicaStepIndInv
  <2>3. CASE UNCHANGED vars
    BY <2>3
    DEF vars, clientVars, replicaVars, IndInv, MessagesTrue, LogsTrue,
        ClientTrue, InFlight, NoOpComesFromLeader, NoOpDurable, CommitOnce,
        NoHoleBehindFrontier, HasQuorum
  <2> QED
    BY <2>1, <2>2, <2>3 DEF Next
<1> QED
  BY <1>1, InitIndInv, TypeCorrect, PTL DEF Spec

\* Only the leader decides NoOps, for every group and every schedule.
THEOREM NoOpsFromLeader == Spec => []NoOpComesFromLeader
<1>1. IndInv => NoOpComesFromLeader
  BY DEF IndInv
<1> QED
  BY <1>1, Invariance, PTL

\* NOOP-DURABLE is never reported with fewer than f + 1 holders of the NoOp.
THEOREM DurableNoOps == Spec => []NoOpDurable
<1>1. IndInv => NoOpDurable
  BY DEF IndInv
<1> QED
  BY <1>1, Invariance, PTL

\* However resends and late replies race, a request commits at most once.
THEOREM CommittedOnce == Spec => []CommitOnce
<1>1. IndInv => CommitOnce
  BY DEF IndInv
<1> QED
  BY <1>1, Invariance, PTL

\* The frontier never passes a hole.
THEOREM NoHoles == Spec => []NoHoleBehindFrontier
<1>1. IndInv => NoHoleBehindFrontier
  BY DEF IndInv
<1> QED
  BY <1>1, Invariance, PTL

\* The data of a slot is the same wherever it is held.
THEOREM Agreement == Spec => []LogsAgree
<1>1. IndInv => LogsAgree
  BY DEF IndInv, LogsAgree, MessagesTrue, LogsTrue
<1> QED
  BY <1>1, Invariance, PTL

\* A committed request is at the f + 1 replicas that replied and at the leader,
\* unless the leader holds a NoOp in its slot.
THEOREM CommittedIsDurable == Spec => []CommitDurable
<1>1. TypeOK /\ IndInv => CommitDurable
  <2> SUFFICES ASSUME TypeOK, IndInv, GapEnabled, NEW c \in committed
               PROVE  /\ Cardinality(c.by) >= QuorumSize
                      /\ \/ log[Leader][c.seq] = NOOP
                         \/ \A r \in c.by \cup {Leader} : log[r][c.seq] = c.req
    BY DEF CommitDurable
  <2>1. /\ Data(c.seq, c.req) \in msgs
        /\ Cardinality(c.by) >= QuorumSize /\ Leader \in c.by
        /\ \A r \in c.by : DataReply(c.seq, r) \in msgs
    BY DEF IndInv, ClientTrue, HasQuorum
  <2>2. c.seq \in Slots /\ c.req \in Reqs /\ c.by \subseteq Replicas
    BY DEF TypeOK, ClientTypeOK
  <2>3. ASSUME NEW r \in c.by, log[Leader][c.seq] # NOOP
        PROVE  log[r][c.seq] = c.req
    <3>1. log[r][c.seq] # EMPTY
      BY <2>1, <2>2 DEF IndInv, MessagesTrue
    <3>2. log[r][c.seq] # NOOP
      BY <2>2, <2>3 DEF IndInv, NoOpComesFromLeader
    <3>3. log[r][c.seq] \in Reqs
      BY <2>2, <3>1, <3>2 DEF TypeOK, ReplicaTypeOK, LogEntry
    <3> QED
      BY <2>1, <2>2, <3>3 DEF IndInv, LogsTrue, MessagesTrue
  <2> QED
    BY <2>1, <2>3
<1> QED
  BY <1>1, Invariance, TypeCorrect, PTL

\* A NoOp is final and data is only ever replaced by a NoOp.
THEOREM StableLogs == Spec => LogIsStable
<1>1. TypeOK /\ IndInv /\ [Next]_vars =>
        [\A r \in Replicas, s \in Slots :
           /\ log[r][s] = NOOP => log'[r][s] = NOOP
           /\ log[r][s] \in Reqs => log'[r][s] \in {log[r][s], NOOP}]_vars
  <2> SUFFICES ASSUME TypeOK, IndInv, Next, NEW r \in Replicas, NEW s \in Slots
               PROVE  /\ log[r][s] = NOOP => log'[r][s] = NOOP
                      /\ log[r][s] \in Reqs => log'[r][s] \in {log[r][s], NOOP}
    OBVIOUS
  <2>1. CASE ClientNext /\ UNCHANGED replicaVars
    BY <2>1 DEF replicaVars
  <2>2. CASE ReplicaNext /\ UNCHANGED clientVars
    BY <2>2, ReplicaStepIndInv DEF LogStep
  <2> QED
    BY <2>1, <2>2 DEF Next
<1> QED
  BY <1>1, Invariance, TypeCorrect, PTL DEF Spec, LogIsStable
=============================================================================
