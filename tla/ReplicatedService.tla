------------------------- MODULE ReplicatedService -------------------------
(***************************************************************************)
(* What a replicated state machine promises, without messages, logs or     *)
(* quorums.  Requests are put in one order that only grows; a request has  *)
(* one place in it and was issued by a client.  Every replica executes a   *)
(* prefix of the order, never takes a step back, and a client is answered  *)
(* with its request's place.                                               *)
(***************************************************************************)
EXTENDS Integers, Sequences

CONSTANTS Nodes, Requests

VARIABLES
  asked,     \* the requests clients have issued
  order,     \* the requests that some replica has executed, in their order
  done,      \* done[r], how many of them replica r has executed
  answers    \* the requests answered, with their places

serviceVars == <<asked, order, done, answers>>

ServiceInit ==
  /\ asked = {}
  /\ order = <<>>
  /\ done = [r \in Nodes |-> 0]
  /\ answers = {}

Ask(q) ==
  /\ asked' = asked \cup {q}
  /\ UNCHANGED <<order, done, answers>>

\* Replica r executes more of the order, or as the first one some requests that
\* then get the next places.
Execute(r) ==
  /\ Len(order) <= Len(order')
  /\ \A i \in 1 .. Len(order) : order'[i] = order[i]
  /\ \A i \in 1 .. Len(order') : order'[i] \in asked
  /\ \A i, j \in 1 .. Len(order') : order'[i] = order'[j] => i = j
  /\ \E n \in done[r] .. Len(order') :
       /\ done' = [done EXCEPT ![r] = n]
       /\ order' = order \/ n = Len(order')
  /\ UNCHANGED <<asked, answers>>

Answer(i) ==
  /\ answers' = answers \cup {[req |-> order[i], opnum |-> i]}
  /\ UNCHANGED <<asked, order, done>>

ServiceNext ==
  \/ \E q \in Requests : Ask(q)
  \/ \E r \in Nodes : Execute(r)
  \/ \E i \in 1 .. Len(order) : Answer(i)

ServiceSpec == ServiceInit /\ [][ServiceNext]_serviceVars
=============================================================================
