------------------------------ MODULE SlotLog ------------------------------
(***************************************************************************)
(* What PaxosBus promises of the slots of one client's stream, without     *)
(* messages, timers or frontiers.  A slot is offered at most one request.  *)
(* Each replica keeps a copy of the slot; the leader's copy is             *)
(* authoritative: it is written once, with the request or with NoOp, and a *)
(* copy elsewhere can be turned into NoOp only after the leader's was.  A  *)
(* request is reported to the application once, when a quorum that         *)
(* includes the leader has filled its slot.                                *)
(***************************************************************************)
EXTENDS Integers, FiniteSets

CONSTANTS Replicas, Leader, QuorumSize, Slots, Reqs, Empty, NoOp

VARIABLES
  offered,   \* the requests the client put in a slot
  copy,      \* copy[r][s], the content of slot s at replica r
  reported   \* the requests reported committed, with the quorum that filled

slotVars == <<offered, copy, reported>>

SlotInit ==
  /\ offered = {}
  /\ copy = [r \in Replicas |-> [s \in Slots |-> Empty]]
  /\ reported = {}

\* Requests are put in slots that were never offered one, one in each.
Offer(D) ==
  /\ D \subseteq [seq : Slots, req : Reqs]
  /\ \A d \in D, o \in offered \cup D : d.seq = o.seq => d = o
  /\ offered' = offered \cup D
  /\ UNCHANGED <<copy, reported>>

\* A replica stores the request offered for a slot it has nothing in.
Store(r, o) ==
  /\ copy[r][o.seq] = Empty
  /\ copy' = [copy EXCEPT ![r][o.seq] = o.req]
  /\ UNCHANGED <<offered, reported>>

\* The leader gives up on slots it has nothing in.
Skip(S) ==
  /\ \A s \in S : copy[Leader][s] = Empty
  /\ copy' = [copy EXCEPT ![Leader] =
                [s \in Slots |-> IF s \in S THEN NoOp ELSE copy[Leader][s]]]
  /\ UNCHANGED <<offered, reported>>

\* Another replica follows, whatever it holds.
FollowSkip(r, s) ==
  /\ copy[Leader][s] = NoOp
  /\ copy' = [copy EXCEPT ![r][s] = NoOp]
  /\ UNCHANGED <<offered, reported>>

Report(o, Q) ==
  /\ Leader \in Q
  /\ Cardinality(Q) >= QuorumSize
  /\ \A r \in Q : copy[r][o.seq] # Empty
  /\ \A p \in reported : p.req # o.req
  /\ reported' = reported \cup {[seq |-> o.seq, req |-> o.req, by |-> Q]}
  /\ UNCHANGED <<offered, copy>>

SlotNext ==
  \/ \E D \in SUBSET [seq : Slots, req : Reqs] : Offer(D)
  \/ \E r \in Replicas, o \in offered : Store(r, o)
  \/ \E S \in SUBSET Slots : Skip(S)
  \/ \E r \in Replicas, s \in Slots : FollowSkip(r, s)
  \/ \E o \in offered, Q \in SUBSET Replicas : Report(o, Q)

SlotSpec == SlotInit /\ [][SlotNext]_slotVars
=============================================================================
