-------------------------- MODULE PaxosBusClient ---------------------------
(***************************************************************************)
(* The open-loop PaxosBus client (paxosbus/client.cc).  It announces       *)
(* itself with a Sync, waits, and then sends one new logical request per   *)
(* tick, each in the next slot, whether or not earlier ones were answered. *)
(* A request whose slot gets no leader-inclusive quorum in time is sent    *)
(* again in a fresh slot.                                                  *)
(***************************************************************************)
EXTENDS PaxosBusNet

CONSTANTS
  ResendEnabled, \* resend_ms # 0
  Burst          \* bound: requests one SendTick sends when it catches up

ASSUME ClientAssumption == ResendEnabled \in BOOLEAN /\ Burst \in Nat \ {0}

VARIABLES
  phase,     \* "off" -> "sync" (Start) -> "data" (OnSyncWaitDone)
  seqNum,    \* seq_num, the last slot used
  appReqId,  \* app_req_id, the last logical request
  inflight,  \* the map inflight; req = 0 stands for a key that is absent
  committed  \* output: the COMMITTED lines, with the replicas that replied

clientVars == <<phase, seqNum, appReqId, inflight, committed>>

Entry == [req : 0 .. MaxReq, replicaMask : SUBSET Replicas]
NoEntry == [req |-> 0, replicaMask |-> {}]
InFlight(s) == inflight[s].req # 0

ClientInit ==
  /\ phase = "off"
  /\ seqNum = 0
  /\ appReqId = 0
  /\ inflight = [s \in Slots |-> NoEntry]
  /\ committed = {}

\* Send the Sync to every replica and start the 5 s wait.
Start ==
  /\ phase = "off"
  /\ phase' = "sync"
  /\ Send({Sync})
  /\ UNCHANGED <<seqNum, appReqId, inflight, committed>>

\* Mutant of SendNew: the slot follows app_req_id, as if nothing were resent.
SendNewAtReq(k) ==
  LET new == (appReqId + 1) .. (appReqId + k)
  IN  /\ appReqId + k <= MaxSlot
      /\ appReqId + k <= MaxReq
      /\ seqNum' = appReqId + k
      /\ appReqId' = appReqId + k
      /\ inflight' = [s \in Slots |-> IF s \in new
                                      THEN [req |-> s, replicaMask |-> {}]
                                      ELSE inflight[s]]
      /\ Send({Data(s, s) : s \in new})
      /\ UNCHANGED committed

\* SendData for k consecutive slots after seqNum and k new requests.
SendNew(k) ==
  LET new == (seqNum + 1) .. (seqNum + k)
      req(s) == appReqId + (s - seqNum)
  IN  /\ seqNum + k <= MaxSlot
      /\ appReqId + k <= MaxReq
      /\ seqNum' = seqNum + k
      /\ appReqId' = appReqId + k
      /\ inflight' = [s \in Slots |-> IF s \in new
                                      THEN [req |-> req(s), replicaMask |-> {}]
                                      ELSE inflight[s]]
      /\ Send({Data(s, req(s)) : s \in new})
      /\ UNCHANGED committed

\* The wait is over: the data phase starts with a first tick, which always
\* has a request due (nextSendNs = now).
OnSyncWaitDone ==
  /\ phase = "sync"
  /\ phase' = "data"
  /\ \E k \in 1 .. Burst : SendNew(k)

\* A tick sends every request whose absolute deadline has passed.
SendTick ==
  /\ phase = "data"
  /\ \E k \in 1 .. Burst : SendNew(k)
  /\ UNCHANGED phase

\* Mutant of OnResendTimeout: the abandoned slot stays in flight.
OnResendTimeoutKeeps(s) ==
  LET new == seqNum + 1
      e == [req |-> inflight[s].req, replicaMask |-> {}]
  IN  /\ ResendEnabled
      /\ InFlight(s)
      /\ new <= MaxSlot
      /\ seqNum' = new
      /\ inflight' = [inflight EXCEPT ![new] = e]
      /\ Send({Data(new, inflight[s].req)})
      /\ UNCHANGED <<phase, appReqId, committed>>

\* The quorum timeout of slot s fires while s is still in flight: abandon s
\* and send the same logical request in a brand-new slot.
OnResendTimeout(s) ==
  LET new == seqNum + 1
      e == [req |-> inflight[s].req, replicaMask |-> {}]
  IN  /\ ResendEnabled
      /\ InFlight(s)
      /\ new <= MaxSlot
      /\ seqNum' = new
      /\ inflight' = [inflight EXCEPT ![s] = NoEntry, ![new] = e]
      /\ Send({Data(new, inflight[s].req)})
      /\ UNCHANGED <<phase, appReqId, committed>>

\* Mutant of HasQuorum: the leader's reply is not required.
HasAnyQuorum(mask) == Cardinality(mask) >= QuorumSize

\* replyCount is the number of bits set in replicaMask.
HasQuorum(mask) == Cardinality(mask) >= QuorumSize /\ Leader \in mask

\* A reply for a slot in flight, from a replica not counted before.
HandleDataReply(s, r) ==
  LET e == inflight[s]
      mask == e.replicaMask \cup {r}
  IN  /\ DataReply(s, r) \in msgs
      /\ InFlight(s)
      /\ r \notin e.replicaMask
      /\ \/ /\ ~HasQuorum(mask)
            /\ inflight' = [inflight EXCEPT ![s].replicaMask = mask]
            /\ UNCHANGED committed
         \/ /\ HasQuorum(mask)
            /\ inflight' = [inflight EXCEPT ![s] = NoEntry]
            /\ committed' = committed \cup
                            {[seq |-> s, req |-> e.req, by |-> mask]}
      /\ UNCHANGED <<phase, seqNum, appReqId, msgs>>

ClientNext ==
  \/ Start
  \/ OnSyncWaitDone
  \/ SendTick
  \/ \E s \in Slots : OnResendTimeout(s)
  \/ \E s \in Slots, r \in Replicas : HandleDataReply(s, r)

ClientTypeOK ==
  /\ phase \in {"off", "sync", "data"}
  /\ seqNum \in 0 .. MaxSlot
  /\ appReqId \in 0 .. MaxReq
  /\ inflight \in [Slots -> Entry]
  /\ committed \subseteq [seq : Slots, req : Reqs, by : SUBSET Replicas]
=============================================================================
