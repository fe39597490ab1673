------------------------- MODULE PaxosBusRefinement ------------------------
(***************************************************************************)
(* PaxosBus in gap mode implements SlotLog: the initial states are initial *)
(* states of SlotLog, and every step of the client or of a replica is a    *)
(* step of SlotLog or leaves its variables alone.                          *)
(***************************************************************************)
EXTENDS PaxosBusProofs

\* A step that sends no Data leaves the offered requests alone.
LEMMA OfferedKept ==
  ASSUME \A s, q : Data(s, q) \in msgs' <=> Data(s, q) \in msgs
  PROVE  Offered' = Offered
BY DEF Offered

\* Messages of another type offer nothing.
LEMMA OfferedKeptByType ==
  ASSUME NEW ty, msgs \subseteq msgs', ty # "Data",
         \A m \in msgs' : m \in msgs \/ m.type = ty
  PROVE  Offered' = Offered
BY OtherTypesUnsent, OfferedKept

\* Storing data fills an empty slot with an offered request, or does nothing.
LEMMA StoreRefines ==
  ASSUME TypeOK, IndInv, UNCHANGED clientVars,
         NEW r \in Replicas, NEW s \in Slots, NEW q \in Reqs, NEW a \in BOOLEAN,
         Data(s, q) \in msgs, Send(Replies(r, s, a)),
         AdvanceContiguous(r, RecordReceived(log[r], s, q))
  PROVE  SL!SlotNext \/ UNCHANGED SL!slotVars
<1>1. msgs \subseteq msgs' /\ \A m \in msgs' : m \in msgs \/ m.type = "DataReply"
  BY DEF Send, Replies, DataReply
<1>2. Offered' = Offered /\ committed' = committed
  BY <1>1, OfferedKeptByType DEF clientVars
<1>3. log' = [log EXCEPT ![r] = RecordReceived(log[r], s, q)]
  BY DEF AdvanceContiguous
<1>4. CASE log[r][s] = EMPTY
  <2> DEFINE o == [seq |-> s, req |-> q]
  <2>1. o \in Offered /\ o.seq = s /\ o.req = q
    BY DEF Offered
  <2>2. log' = [log EXCEPT ![r][s] = q]
    BY <1>3, <1>4, Contents DEF RecordReceived
  <2>3. SL!Store(r, o)
    BY <1>2, <1>4, <2>1, <2>2 DEF SL!Store
  <2> QED
    BY <2>1, <2>3 DEF SL!SlotNext
<1>5. CASE log[r][s] # EMPTY
  <2>1. log[r][s] = NOOP \/ log[r][s] = q
    BY <1>5 DEF TypeOK, ReplicaTypeOK, LogEntry, IndInv, LogsTrue, MessagesTrue
  <2>2. log' = log
    BY <1>3, <2>1 DEF RecordReceived, TypeOK, ReplicaTypeOK
  <2> QED
    BY <1>2, <2>2 DEF SL!slotVars
<1> QED
  BY <1>4, <1>5

\* A step of a replica is a step of the slot log or leaves it alone.
LEMMA ReplicaStepRefines ==
  ASSUME GapEnabled, TypeOK, IndInv, ReplicaNext, UNCHANGED clientVars
  PROVE  SL!SlotNext \/ UNCHANGED SL!slotVars
<1> USE ConstantTypes
<1> PICK r \in Replicas :
      \/ HandleSync(r)
      \/ \E s \in Slots, q \in Reqs : HandleData(r, s, q)
      \/ HandleLaterData(r)
      \/ \E s \in Slots, p \in Replicas : HandleGapRequest(r, s, p)
      \/ \E s \in Slots, q \in Reqs : HandleGapReply(r, s, q)
      \/ \E s \in Slots : HandleGapCommit(r, s)
      \/ \E s \in Slots, p \in Replicas : HandleGapCommitReply(r, s, p)
      \/ \E cut \in 0 .. MaxSlot : OnGapTimeout(r, cut)
  BY DEF ReplicaNext
<1>0. committed' = committed
  BY DEF clientVars
<1>1. CASE HandleSync(r)
  BY <1>0, <1>1 DEF HandleSync, SL!slotVars, Offered
<1>2. CASE \E s \in Slots, q \in Reqs : HandleData(r, s, q)
  <2> PICK s \in Slots, q \in Reqs : HandleData(r, s, q)
    BY <1>2
  <2>1. CASE ShouldDrop(r, s)
    BY <1>0, <2>1 DEF HandleData, SL!slotVars, Offered
  <2>2. CASE ~ShouldDrop(r, s)
    BY <2>2, StoreRefines DEF HandleData
  <2> QED
    BY <2>1, <2>2
<1>3. CASE \E s \in Slots, p \in Replicas : HandleGapRequest(r, s, p)
  <2> PICK s \in Slots, p \in Replicas : HandleGapRequest(r, s, p)
    BY <1>3
  <2>0. \A m \in GapAnswer(log[r], s, p) : m.type # "Data"
    <3>1. /\ GapReply(s, log[r][s], p).type = "GapReply"
          /\ GapCommit(s, p).type = "GapCommit"
      BY DEF GapReply, GapCommit
    <3> QED
      BY <3>1, Answers
  <2>1. msgs \subseteq msgs' /\ \A m \in msgs' : m \in msgs \/ m.type # "Data"
    BY <2>0 DEF HandleGapRequest, Send
  <2>2. \A t, q : Data(t, q).type = "Data"
    BY DEF Data
  <2>3. Offered' = Offered
    BY <2>1, <2>2, OfferedKept
  <2> QED
    BY <1>0, <2>3 DEF HandleGapRequest, SL!slotVars
<1>4. CASE \E s \in Slots, q \in Reqs : HandleGapReply(r, s, q)
  <2> PICK s \in Slots, q \in Reqs : HandleGapReply(r, s, q)
    BY <1>4
  <2>1. Data(s, q) \in msgs /\ addr[r] \in BOOLEAN
    BY DEF HandleGapReply, IndInv, MessagesTrue, TypeOK, ReplicaTypeOK
  <2> QED
    BY <2>1, StoreRefines DEF HandleGapReply
<1>5. CASE \E s \in Slots : HandleGapCommit(r, s)
  <2> PICK s \in Slots : HandleGapCommit(r, s)
    BY <1>5
  <2>1. msgs \subseteq msgs' /\ \A m \in msgs' : m \in msgs \/ m.type = "GapCommitReply"
    BY DEF HandleGapCommit, Send, GapCommitReply
  <2>2. Offered' = Offered
    BY <2>1, OfferedKeptByType
  <2>3. log[Leader][s] = NOOP
    BY DEF HandleGapCommit, IndInv, MessagesTrue
  <2>4. log' = [log EXCEPT ![r][s] = NOOP]
    BY DEF HandleGapCommit, AdvanceContiguous
  <2>5. SL!FollowSkip(r, s)
    BY <1>0, <2>2, <2>3, <2>4 DEF SL!FollowSkip
  <2> QED
    BY <2>5 DEF SL!SlotNext
<1>6. CASE \E s \in Slots, p \in Replicas : HandleGapCommitReply(r, s, p)
  BY <1>0, <1>6 DEF HandleGapCommitReply, SL!slotVars, Offered
<1>7. CASE \E cut \in 0 .. MaxSlot : OnGapTimeout(r, cut)
  <2> PICK cut \in 0 .. MaxSlot : OnGapTimeout(r, cut)
    BY <1>7
  <2> DEFINE S == Overdue(r, cut)
  <2>0. S \in SUBSET Slots /\ \A s \in S : log[r][s] = EMPTY
    BY DEF Overdue
  <2> HIDE DEF S
  <2>1. CASE StartGapAgreement(r, S)
    <3>1. msgs \subseteq msgs' /\ \A m \in msgs' : m \in msgs \/ m.type = "GapCommit"
      BY <2>1 DEF StartGapAgreement, Send, GapCommit
    <3>2. Offered' = Offered
      BY <3>1, OfferedKeptByType
    <3>3. log' = [log EXCEPT ![Leader] =
                    [s \in Slots |-> IF s \in S THEN NOOP ELSE log[Leader][s]]]
      BY <2>1 DEF StartGapAgreement, AdvanceContiguous
    <3>4. r = Leader
      BY <2>1 DEF StartGapAgreement
    <3>5. SL!Skip(S)
      BY <1>0, <2>0, <3>2, <3>3, <3>4 DEF SL!Skip
    <3> QED
      BY <2>0, <3>5 DEF SL!SlotNext
  <2>2. CASE SendGapRequest(r, S)
    <3>1. msgs \subseteq msgs' /\ \A m \in msgs' : m \in msgs \/ m.type = "GapRequest"
      BY <2>2 DEF SendGapRequest, Send, GapRequest
    <3>2. Offered' = Offered
      BY <3>1, OfferedKeptByType
    <3>3. log' = log
      BY <2>2 DEF SendGapRequest, AdvanceContiguous, TypeOK, ReplicaTypeOK
    <3> QED
      BY <1>0, <3>2, <3>3 DEF SL!slotVars
  <2> QED
    BY <2>1, <2>2 DEF OnGapTimeout, S
<1>8. CASE HandleLaterData(r)
  <2>1. log' = log /\ msgs' = msgs
    BY <1>8 DEF HandleLaterData, AdvanceContiguous, TypeOK, ReplicaTypeOK
  <2> QED
    BY <1>0, <2>1 DEF SL!slotVars, Offered
<1> QED
  BY <1>1, <1>2, <1>3, <1>4, <1>5, <1>6, <1>7, <1>8

\* Data sent in slots that were never used is an offer.
LEMMA OfferRefines ==
  ASSUME TypeOK, IndInv, UNCHANGED <<log, committed>>,
         NEW D \in SUBSET [seq : Slots, req : Reqs],
         \A s \in Slots, q \in Reqs :
           Data(s, q) \in msgs' <=>
             Data(s, q) \in msgs \/ [seq |-> s, req |-> q] \in D,
         \A d \in D : d.seq > seqNum,
         \A d, e \in D : d.seq = e.seq => d = e
  PROVE  SL!SlotNext
<1>1. Offered' = Offered \cup D
  <2>1. ASSUME NEW o \in [seq : Slots, req : Reqs]
        PROVE  o \in Offered' <=> o \in Offered \/ o \in D
    <3>1. o = [seq |-> o.seq, req |-> o.req] /\ o.seq \in Slots /\ o.req \in Reqs
      OBVIOUS
    <3>2. Data(o.seq, o.req) \in msgs' <=> Data(o.seq, o.req) \in msgs \/ o \in D
      BY <3>1
    <3> QED
      BY <3>2 DEF Offered
  <2>2. Offered \subseteq [seq : Slots, req : Reqs]
        /\ Offered' \subseteq [seq : Slots, req : Reqs]
    BY DEF Offered
  <2> QED
    BY <2>1, <2>2
<1>2. \A d \in D, o \in Offered : d.seq # o.seq
  <2>1. \A o \in Offered : o.seq <= seqNum /\ o.seq \in Slots
    BY DEF Offered, IndInv, MessagesTrue
  <2>2. seqNum \in Int /\ \A s \in Slots : s \in Int
    BY ConstantTypes DEF TypeOK, ClientTypeOK, Slots
  <2> QED
    BY <2>1, <2>2
<1>3. SL!Offer(D)
  BY <1>1, <1>2 DEF SL!Offer
<1> QED
  BY <1>3 DEF SL!SlotNext

\* A tick of the client offers new requests.
LEMMA SendNewRefines ==
  ASSUME TypeOK, IndInv, UNCHANGED replicaVars, NEW k \in 1 .. Burst, SendNew(k)
  PROVE  SL!SlotNext
<1> USE ConstantTypes, ClientAssumption
<1> DEFINE new == (seqNum + 1) .. (seqNum + k)
           req(s) == appReqId + (s - seqNum)
           D == {[seq |-> s, req |-> req(s)] : s \in new}
<1>1. seqNum \in Nat /\ appReqId \in Nat /\ k \in Nat /\ k >= 1
      /\ seqNum + k <= MaxSlot /\ appReqId + k <= MaxReq
  BY DEF TypeOK, ClientTypeOK, SendNew
<1>2. \A s \in new : s \in Slots /\ req(s) \in Reqs /\ s > seqNum
  BY <1>1 DEF Slots, Reqs
<1>3. msgs' = msgs \cup {Data(s, req(s)) : s \in new}
  BY DEF SendNew, Send
<1>4. log' = log /\ committed' = committed
  BY DEF SendNew, replicaVars
<1> HIDE DEF new, req
<1>5. \A s \in Slots, q \in Reqs : Data(s, q) \in msgs' <=>
                Data(s, q) \in msgs \/ (s \in new /\ q = req(s))
  BY <1>3, DataInjective
<1>6. \A s, q : [seq |-> s, req |-> q] \in D <=> s \in new /\ q = req(s)
  OBVIOUS
<1>7. D \in SUBSET [seq : Slots, req : Reqs]
  BY <1>2
<1>8. /\ \A d \in D : d.seq > seqNum
      /\ \A d, e \in D : d.seq = e.seq => d = e
  BY <1>2
<1> HIDE DEF D
<1> QED
  BY <1>4, <1>5, <1>6, <1>7, <1>8, OfferRefines

\* A resend offers a request in a second slot.
LEMMA ResendRefines ==
  ASSUME TypeOK, IndInv, UNCHANGED replicaVars, NEW s \in Slots,
         OnResendTimeout(s)
  PROVE  SL!SlotNext
<1> USE ConstantTypes
<1> DEFINE new == seqNum + 1
           q == inflight[s].req
           D == {[seq |-> new, req |-> q]}
<1>1. new \in Slots /\ new > seqNum
  BY DEF TypeOK, ClientTypeOK, OnResendTimeout, Slots
<1>2. q \in Reqs
  BY DEF TypeOK, ClientTypeOK, Entry, OnResendTimeout, InFlight, Reqs
<1>3. msgs' = msgs \cup {Data(new, q)}
  BY DEF OnResendTimeout, Send
<1>4. log' = log /\ committed' = committed
  BY DEF OnResendTimeout, replicaVars
<1> HIDE DEF new, q
<1>5. \A t \in Slots, p \in Reqs : Data(t, p) \in msgs' <=>
                Data(t, p) \in msgs \/ [seq |-> t, req |-> p] \in D
  BY <1>3, DataInjective
<1>6. D \in SUBSET [seq : Slots, req : Reqs]
  BY <1>1, <1>2
<1>7. /\ \A d \in D : d.seq > seqNum
      /\ \A d, e \in D : d.seq = e.seq => d = e
  BY <1>1
<1> HIDE DEF D
<1> QED
  BY <1>4, <1>5, <1>6, <1>7, OfferRefines

\* The reply that completes a quorum reports a request whose slot the quorum
\* has filled; any other reply is not seen.
LEMMA DataReplyRefines ==
  ASSUME GapEnabled, TypeOK, IndInv, UNCHANGED replicaVars,
         NEW s \in Slots, NEW r \in Replicas, HandleDataReply(s, r)
  PROVE  SL!SlotNext \/ UNCHANGED SL!slotVars
<1> USE ConstantTypes
<1> DEFINE q == inflight[s].req
           mask == inflight[s].replicaMask \cup {r}
           o == [seq |-> s, req |-> q]
<1>1. /\ Data(s, q) \in msgs
      /\ \A p \in mask : DataReply(s, p) \in msgs
  BY DEF HandleDataReply, InFlight, IndInv, ClientTrue
<1>2. q \in Reqs /\ mask \in SUBSET Replicas
  BY DEF HandleDataReply, InFlight, TypeOK, ClientTypeOK, Entry, Reqs
<1>3. Offered' = Offered /\ log' = log
  BY DEF HandleDataReply, replicaVars, Offered
<1>4. CASE ~HasQuorum(mask)
  BY <1>3, <1>4 DEF HandleDataReply, SL!slotVars
<1>5. CASE HasQuorum(mask)
  <2>1. committed' = committed \cup {[seq |-> s, req |-> q, by |-> mask]}
    BY <1>5 DEF HandleDataReply
  <2>2. \A c \in committed : c.req # q
    BY DEF IndInv, ClientTrue
  <2> HIDE DEF q, mask
  <2>3. \A p \in mask : log[p][s] # EMPTY
    BY <1>1, <1>2 DEF IndInv, MessagesTrue
  <2>4. o \in Offered /\ o.seq = s /\ o.req = q
    BY <1>1, <1>2 DEF Offered
  <2> HIDE DEF o
  <2>5. SL!Cardinality(mask) = Cardinality(mask)
    BY Zenon DEF SL!Cardinality, Cardinality
  <2>6. SL!Report(o, mask)
    BY <1>3, <1>5, <2>1, <2>2, <2>3, <2>4, <2>5 DEF SL!Report, HasQuorum
  <2> QED
    BY <1>2, <2>4, <2>6 DEF SL!SlotNext
<1> QED
  BY <1>4, <1>5

\* A step of the client is a step of the slot log or leaves it alone.
LEMMA ClientStepRefines ==
  ASSUME GapEnabled, TypeOK, IndInv, ClientNext, UNCHANGED replicaVars
  PROVE  SL!SlotNext \/ UNCHANGED SL!slotVars
<1>1. CASE Start
  <2>1. msgs \subseteq msgs' /\ \A m \in msgs' : m \in msgs \/ m.type = "Sync"
    BY <1>1 DEF Start, Send, Sync
  <2>2. Offered' = Offered
    BY <2>1, OfferedKeptByType
  <2> QED
    BY <1>1, <2>2 DEF Start, replicaVars, SL!slotVars
<1>2. CASE OnSyncWaitDone
  BY <1>2, SendNewRefines DEF OnSyncWaitDone
<1>3. CASE SendTick
  BY <1>3, SendNewRefines DEF SendTick
<1>4. CASE \E s \in Slots : OnResendTimeout(s)
  BY <1>4, ResendRefines
<1>5. CASE \E s \in Slots, r \in Replicas : HandleDataReply(s, r)
  BY <1>5, DataReplyRefines
<1> QED
  BY <1>1, <1>2, <1>3, <1>4, <1>5 DEF ClientNext

-----------------------------------------------------------------------------
\* In gap mode, client and replicas together implement the abstract slot log:
\* what the handlers do to the logs and to the reports, over a network that
\* loses, duplicates and reorders, is what SlotLog allows.
THEOREM Refinement == ASSUME GapEnabled PROVE Spec => ImplementsSlotLog
<1>1. Init => SL!SlotInit
  BY DEF Init, ClientInit, ReplicaInit, SL!SlotInit, Offered
<1>2. TypeOK /\ IndInv /\ [Next]_vars => [SL!SlotNext]_(SL!slotVars)
  <2> SUFFICES ASSUME TypeOK, IndInv, [Next]_vars
               PROVE  SL!SlotNext \/ UNCHANGED SL!slotVars
    OBVIOUS
  <2>1. CASE ClientNext /\ UNCHANGED replicaVars
    BY <2>1, ClientStepRefines
  <2>2. CASE ReplicaNext /\ UNCHANGED clientVars
    BY <2>2, ReplicaStepRefines
  <2>3. CASE UNCHANGED vars
    BY <2>3 DEF vars, clientVars, replicaVars, SL!slotVars, Offered
  <2> QED
    BY <2>1, <2>2, <2>3 DEF Next
<1> QED
  BY <1>1, <1>2, TypeCorrect, Invariance, PTL
  DEF Spec, ImplementsSlotLog, SL!SlotSpec
=============================================================================
