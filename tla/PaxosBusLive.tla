---------------------------- MODULE PaxosBusLive ----------------------------
(***************************************************************************)
(* When PaxosBus closes its holes: the fairness of timers and              *)
(* retransmissions, and what the rest of the world has to do less often    *)
(* for it to matter.                                                       *)
(*                                                                         *)
(* Two things happen only for a while.  The network does not repeat old    *)
(* messages for ever, and the deadlines of the slots up to MaxSlot pass:   *)
(* from then on (settled) a scan of the gap timer finds all of these       *)
(* overdue.  And the client may stop, or pause for longer than the delay   *)
(* of the gap timer: from then on (paused) no data of later slots arrives. *)
(***************************************************************************)
EXTENDS PaxosBus

VARIABLES settled, paused

liveVars == <<vars, settled, paused>>

\* What replicas do when messages are not repeated and deadlines have passed.
SettledNext ==
  \E r \in Replicas :
    \/ \E s \in Slots, q \in Reqs : log[r][s] = EMPTY /\ HandleData(r, s, q)
    \/ ~paused /\ HandleLaterData(r)
    \/ \E s \in Slots, p \in Replicas : HandleGapRequest(r, s, p)
    \/ \E s \in Slots, q \in Reqs : HandleGapReply(r, s, q)
    \/ \E s \in Slots : log[r][s] # NOOP /\ HandleGapCommit(r, s)
    \/ \E s \in Slots, p \in Replicas : HandleGapCommitReply(r, s, p)
    \/ OnGapTimeout(r, MaxSlot)

Settle == ~settled /\ settled' = TRUE /\ UNCHANGED <<vars, paused>>
Pause == settled /\ ~paused /\ paused' = TRUE /\ UNCHANGED <<vars, settled>>

\* Bound: the client's sends.  A DataReply only keeps it from sending a request
\* again, and may be lost.
ClientSends ==
  Start \/ OnSyncWaitDone \/ SendTick \/ \E s \in Slots : OnResendTimeout(s)

LiveInit == Init /\ settled = FALSE /\ paused = FALSE

LiveNext ==
  \/ /\ \/ ClientSends /\ UNCHANGED replicaVars
        \/ ~settled /\ ReplicaNext /\ UNCHANGED clientVars
        \/ settled /\ SettledNext /\ UNCHANGED clientVars
     /\ UNCHANGED <<settled, paused>>
  \/ Settle
  \/ Pause

-----------------------------------------------------------------------------
(* Fairness.  A gap timer that is pending and not restarted fires; one that *)
(* arrivals cancel before its delay has passed never does.  A message that  *)
(* its sender repeats for as long as it is needed arrives in the end: those *)
(* are the GapRequests of a slot a follower is still missing and the        *)
(* leader's answers to them (GapAnswer).  Nothing is assumed of a message   *)
(* sent only once.                                                          *)

\* Replica r has a gap timer, and gaps.
Outstanding(r) == gapTimerId[r] # 0 /\ Overdue(r, MaxSlot) # {}

Asking(r, s) ==
  /\ Outstanding(r)
  /\ s \in Overdue(r, MaxSlot)
  /\ GapRequest(s, r) \in msgs

Rescan(r) ==
  /\ settled
  /\ OnGapTimeout(r, MaxSlot)
  /\ UNCHANGED <<clientVars, settled, paused>>

\* The timer with this id fires.
TimerFires(r, id) == gapTimerId[r] = id /\ Rescan(r)

RequestArrives(r, s) ==
  /\ Asking(r, s)
  /\ HandleGapRequest(Leader, s, r)
  /\ UNCHANGED <<clientVars, settled, paused>>

AnswerArrives(r, s) ==
  /\ Asking(r, s)
  /\ \/ /\ GapCommit(s, r) \in GapAnswer(log[Leader], s, r)
        /\ HandleGapCommit(r, s)
     \/ \E q \in Reqs :
          /\ GapReply(s, q, r) \in GapAnswer(log[Leader], s, r)
          /\ HandleGapReply(r, s, q)
  /\ UNCHANGED <<clientVars, settled, paused>>

\* While the stream goes on.  This is not enough: each arrival may cancel the timer
\* before it fires, and a hole then stays open.
StreamSpec ==
  /\ LiveInit /\ [][LiveNext]_liveVars
  /\ WF_liveVars(Settle)
  /\ \A r \in Replicas, id \in 1 .. Timers : WF_liveVars(TimerFires(r, id))
  /\ \A r \in Followers, s \in Slots :
       WF_liveVars(RequestArrives(r, s)) /\ WF_liveVars(AnswerArrives(r, s))

\* When the stream stops or pauses.
PausingSpec == StreamSpec /\ WF_liveVars(Pause)

-----------------------------------------------------------------------------
\* Every hole is closed when the stream pauses: once the gap timers of the leader
\* and of replica r run (ArmGapTimer), each slot up to the highest that r saw is
\* filled, with data or NoOp.
HolesAreFilled ==
  \A r \in Replicas, s \in Slots :
    (gapTimerId[Leader] # 0 /\ gapTimerId[r] # 0 /\ s <= maxSeqSeen[r])
      ~> log[r][s] # EMPTY
=============================================================================
