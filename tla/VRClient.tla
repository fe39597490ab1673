------------------------------ MODULE VRClient ------------------------------
(***************************************************************************)
(* The clients of Viewstamped Replication (vr/client.cc).  A client has    *)
(* at most one request outstanding (Invoke panics otherwise, and is called *)
(* only when there is none); ResendRequest repeats a message.              *)
(***************************************************************************)
EXTENDS VRNet

VARIABLES
  lastReqId,     \* the id of the client's last request
  pending        \* pendingRequest # NULL

clientVars == <<lastReqId, pending>>

ClientInit ==
  /\ lastReqId = [c \in Clients |-> 0]
  /\ pending = [c \in Clients |-> FALSE]

Invoke(c) ==
  /\ ~pending[c] /\ lastReqId[c] < MaxReq
  /\ lastReqId' = [lastReqId EXCEPT ![c] = @ + 1]
  /\ pending' = [pending EXCEPT ![c] = TRUE]
  /\ msgs' = msgs \cup
       {RequestMessage([client |-> c, id |-> lastReqId[c] + 1])}

\* A reply to another request of the client is ignored.
HandleReply(c, m) ==
  /\ m.req.client = c /\ pending[c]
  /\ m.req.id = lastReqId[c]
  /\ pending' = [pending EXCEPT ![c] = FALSE]
  /\ UNCHANGED <<lastReqId, msgs>>
=============================================================================
