# PaxosBus: a TLA+ verification project

This directory holds TLA+ models of the replication protocols of this
repository, the TLC configurations that check them on small instances, and
TLAPS proofs of their main properties. The repository is a fork of the NOPaxos
code base; its own addition is **PaxosBus** (`paxosbus/`). Modelled are PaxosBus,
Viewstamped Replication (`vr/`), Fast Paxos (`fastpaxos/`) and NOPaxos
(`nopaxos/`, with its sequencer); all are model-checked. PaxosBus and Fast Paxos
are proved, VR up to its first view change or restart, NOPaxos up to its first
change of view or session.

## 1. Inventory

| Component | State | Operations | Talks to |
|---|---|---|---|
| PaxosBus client (`paxosbus/client.cc`) | `seq_num`, `app_req_id`, `inflight` | `Start`, `OnSyncWaitDone`, `SendTick`, `SendData`, `OnResendTimeout`, `HandleDataReply` | all replicas (Sync, Data), timers |
| PaxosBus replica (`paxosbus/replica.cc`) | per client: `log`, `nextExpected`, `maxSeqSeen`, gap timer, `gapCommitAcks`, `noopStartNs`; `clientAddr` | `HandleSync`, `HandleData`, `OnGapTimeout`, `HandleGapRequest`, `HandleGapReply`, `HandleGapCommit`, `HandleGapCommitReply` | client (DataReply), leader and followers (Gap messages) |
| VR (`vr/`) | view, status, op numbers, log, client table, quorum sets | normal case with batching, view change, state transfer, recovery | replicas, clients, application upcalls |
| NOPaxos (`nopaxos/`) | session, view, status, log with NoOps, committed gaps, pending requests, client table, one quorum set per agreement | ordered requests, gap agreement, synchronization, state transfer, view and session change | sequencer, replicas, clients |
| Sequencer (`sequencer/`, `lib/simtransport.cc`) | session id, one counter per group | stamp and multicast a request; start a new session | NOPaxos clients and replicas |
| Fast Paxos (`fastpaxos/`) | log, `lastFastPath`, `lastSlowPath`, `lastCommitted`, client table, kept Prepares and PrepareOKs | requests to all replicas, fast-path offers, slow path, commit, state transfer, unlogged requests | replicas, clients |
| Speculative Paxos (`spec/`), unreplicated RPC (`unreplicated/`) | log with hashes, status; nothing | speculative / plain request processing | replicas, clients |
| `common/` | log with hash chain, quorum and message sets, client and replica bases | append, find, remove, install; add and count | VR, NOPaxos, Spec, Fast Paxos |
| `lib/` | configuration, transports, timers, message fragments | send, receive, timer; parse configuration | everything |
| `bench/`, `ctpl/`, scripts | benchmark drivers; vendored thread pool | | |

Hard behaviours. Each process is a single-threaded libevent loop, so there are
no data races inside a process; what is hard is the network (UDP: loss,
reordering, duplication), the timers that race with late answers, the repeated
Sync, the simulated losses, and the interplay between data that arrives late
and the leader's decision to give a slot up. PaxosBus persists nothing and has
no view change: its leader is always replica 0 and a crashed replica simply
stops. PROJECT.json lists the hazards with the line where each one bites.

What makes PaxosBus correct: logs never hold different data in one slot; only
the leader gives a slot up; what a client or the leader reports (COMMITTED,
NOOP-DURABLE) is really in f + 1 logs; a request is reported once; every hole
is closed once the stream pauses.

VR (`vr/`) is harder: it does change views, a restarted replica recovers from the
others because nothing is persistent, batches are formed adaptively from three
different events, and state transfer may carry a replica into a view whose view
change it missed. What makes it correct: replicas execute the same requests in
the same order and none twice; what one has executed is in f + 1 logs and never
leaves its log; a replica that acknowledged an operation still holds it; and the
code's own assertions hold.

NOPaxos adds a sequencer that may lose a number or be replaced by another that
counts from 1 again. A place of the log is a request or an agreed gap, and four
sub-protocols (gap agreement, synchronization, state transfer, view change) work
on the same log and may overtake each other. What makes it correct: within a view
a follower's log never contradicts the leader's; a gap the leader is past, and an
operation it committed, are in a quorum; committed places agree; a request that
is stamped twice is executed once; and a request a client completed, with f + 1
replies and no round among replicas, keeps its place through every change of
leader and session.

Fast Paxos lets every follower choose a place for a request; the choices conflict
when requests arrive in different orders. What makes it correct: behind
`lastSlowPath` a follower has the leader's entries; executions follow the
leader's; a client, which takes the first reply of any replica, gets the right
one; and with f replicas down every request is answered in the end. A place that the
leader executes is in f + 1 logs when it is the last one executed; the places before
it may then be in the leader's log alone, since a fast-path answer speaks of its
own place only. `LastInQuorum` says no more than that, and as the code has no view change
nothing else depends on it.

## 2. Modules

```
PaxosBusNet      constants, messages, network
  PaxosBusClient   client.cc
  PaxosBusReplica  replica.cc
PaxosBus         both, composed; properties, inductive invariant
  PaxosBusLive     fairness of timers and retransmissions; liveness
  SlotLog          what is promised of the slots (abstract specification)
  PaxosBusProofs   TLAPS: invariants and the log's stability
    PaxosBusRefinement  TLAPS: PaxosBus implements SlotLog

VRNet            constants, messages, network
  VRClient         vr/client.cc
  VRReplica        vr/replica.cc
    VRLog            common/log.cc, log-impl.h, as VR uses them
VR               replicas and clients composed; properties
  VRProofs         TLAPS: the first view

NOPaxosNet       constants, messages, sequencer, network
  NOPaxosReplica   nopaxos/replica.cc
  NOPaxosClient    nopaxos/client.cc
NOPaxos          replicas, clients and sequencer composed; properties
  NOPaxosProofs    TLAPS: the first session and view

FastPaxosReplica fastpaxos/replica.cc, its messages and network
FastPaxos        clients and replicas composed; properties, fairness
  ReplicatedService  what is promised of a replicated service (abstract)
  FastPaxosProofs    TLAPS: invariants and the finality of executions
    FastPaxosRefinement  TLAPS: Fast Paxos implements ReplicatedService

DataLemmas       TLAPS: induction over numbers, maxima, prefixes, loops (used
                 by FastPaxosProofs, VRProofs and NOPaxosProofs)
```

**PaxosBusNet.** `N`, `F` are `config.n`, `config.f`; `QuorumSize` and `Leader`
are `Configuration::QuorumSize` and `GetLeaderIndex(0)` (`view_id_` is never
assigned). `msgs` is the set of all messages ever sent; a handler takes any of
them at any time, any number of times or never, which covers delay, reordering,
duplication and loss. A broadcast is one message every replica may take; gap
messages carry an addressee because the transport skips the sender. The payload
of a Data message is its `app_req_id`; timestamps are left out.

**PaxosBusClient.** One action per callback. `SendNew(k)` is `SendData` called
`k` times by the catch-up loop of `SendTick`; the loop is one atomic step of the
event loop. `inflight[s].req = 0` stands for a slot that is not in the map.
`replyCount` is the number of bits in `replicaMask`. `committed` records the
COMMITTED lines and the replicas that were counted.

**PaxosBusReplica.** One action per handler, plus `OnGapTimeout`. A log slot is
EMPTY, NOOP, or the request it received; a map key that is absent and an entry
in state LOG_EMPTY are treated alike by the code and are both EMPTY.
`AdvanceContiguous` is the frontier walk followed by `ArmGapTimer`, which cancels
the pending timer and starts another: the timer is one-shot, and `gapTimerId` is
its id, 0 for none. Two ids (`Timers`) are enough to tell a timer that is still
pending from one that was restarted meanwhile; the safety runs need one. The
stream does not end at `MaxSlot`: `HandleLaterData` is the arrival of a later slot's
data, of which the model keeps what it does to the slots it has, namely that
`maxSeqSeen` rises (by up to `Later`) and that the frontier is retried and the timer
restarted. Time is abstracted: a slot is overdue when its predicted
arrival plus Delta has passed, deadlines grow with the slot number and are
re-anchored at every arrival, so `OnGapTimeout(r, cut)` treats the empty slots
up to an arbitrary `cut` as overdue. `gapRequestNs` and `gapLastReqNs` only
space out repetitions of a GapRequest, which add nothing to `msgs`.
`noopStartNs` is its set of keys. Counters for the summary line are left out.

**PaxosBus.** Client and replicas take turns. One client stream is enough: a
handler touches only `clients[client_id]` and `clientAddr[client_id]`.

**PaxosBusLive.** PaxosBus with two moments added. From `Settle` on the network
repeats no old message and the deadlines of the slots have passed; from `Pause` on no
data of later slots arrives. Both are steps that the code's environment may take, and
the fairness of section 4 is stated with them.

**SlotLog.** No messages, timers or frontiers: a slot is offered at most one
request; the leader's copy is written once, with the request or NoOp; another
copy becomes NoOp only after the leader's; a request is reported once, by a
filled quorum that includes the leader. The mapping takes the requests in Data
messages for the offers, the logs for the copies, `committed` for the reports.

**VRNet.** One constructor per message of `vr-proto.proto`. As in PaxosBus,
`msgs` only grows and a handler takes any message any number of times; a timer
that only repeats a message (`ResendPrepare`, `ResendRequest`, the repeated
Recovery) adds nothing to it and has no action. `Lost` is a bound: the types of
message that an instance never delivers. A request is its client and request id;
a log entry is its request and the view of its viewstamp, its opnum its place.

**VRLog.** `Dump`, `Install`, `RemoveAfter` and `LastViewstamp` on a sequence.
`RemoveAfter(op)` removes the entry at `op` too, as the code does.

**VRReplica.** `rep[r]` is a record with the members of `VRReplica`. The code's
functions call each other and may abort half way, so each is an operator from a
state to a `Result` (the new state and the messages sent), `Then` runs the next
one unless the process has aborted, and a handler is an action that applies the
composition in one step. A failed ASSERT or Panic sets `failed` to the place.

* Timers need no variables: each is active in exactly the states that its Start
  and Stop calls give (the module's header lists them).
* `oks`, `svcs`, `dvcs` are the quorum sets, restricted to the current view, and
  `recs` those of the current nonce; entries of others are never read. They keep
  the latest message of each sender.
* Prepares kept for later are kept once: handling a copy again repeats the first.
* `nonce`, a random number in the code, is the replica's incarnation number.
* Two reads have no defined result in the code and are choices here: the minimum
  over an empty map of StartViewChanges, and the pointer `latestMsg` to a copy
  that is already destroyed (it is intact, or the process fails).
* `app` is the sequence of requests the application executed. `Declined` are the
  request ids for which LeaderUpcall asks not to replicate.

**VRClient.** One request at a time; a reply to another request is ignored.

**NOPaxosNet.** `msgs` as in VR, kept by type. The client hands its request to the
sequencer (`Ordered`); `Stamp` gives it the session and the next number and may do
so again, as a repeated request is a new packet. `SessionChange` is the takeover
by another sequencer. A log entry has the view, session and message number of its
viewstamp and its request, NoOp for a gap; the code keeps the request of an entry
it marks NOOP and never looks at it again.

**NOPaxosReplica.** Written like VRReplica: operators from a state to a `Result`,
composed with `Then`; `Checked` is `CheckViewNumAndStatus` in front of the rest of
a handler. Every message handler ends with `ProcessPendingRequests`, as
`ReceiveMessage` does.

* Timers whose activity the code consults are fields (`startGap`, `gapRequest`,
  `starting`); the others follow from status and role. A timer that only repeats
  a message has no action.
* The quorum sets are cleared when the operation or the view moves on, so each is
  the set of senders or messages of the current one.
* `transferEnd` is `stateTransferOpEnd`; the callback stored with it is the view
  change in status viewchange, else the synchronization.
* The comparator of `pendingRequests` is not an order once a later session has
  smaller numbers; which request is tried first is then a choice
  (`PendingOrders`).
* `RewindLogToOpnum` and `RemoveAfter` are taken literally: the entry at the
  given place goes too.

**NOPaxosClient.** `HandleReply` counts any choice of one reply per replica that
the network may have delivered, and searches it for the leader's as the code does.

**FastPaxosReplica, FastPaxos.** One action per handler and timer, unlogged
requests included. The view never changes in the code: the branches for other
views are dead and left out. Leader and followers are model values, so that
followers may be exchanged. `lastRequestStateTransferOpnum` and its timer only
suppress repetitions. Messages kept for later are handled again by `HandlePending`,
in any order.

**ReplicatedService.** No messages and no logs: there is one order, to which only
requests that were asked for are added, each once; a replica has executed a
beginning of it; an answer names a request and its place in the order. The mapping
takes the leader's executions for the order, `lastCommitted` for how far each
replica is, and what clients accepted for the answers.

Definitions named in comments as "Mutant of X" are deliberately wrong versions
of X. Nothing uses them; each shows that a property notices that mistake.

## 3. Runs

| Run | Instance | Checks |
|---|---|---|
| `gap` | 3 replicas, f=1, 2 slots, 2 requests, bursts of 2 | `TypeOK`, `NoOpComesFromLeader`, `CommitDurable`, `NoOpDurable`, `CommitOnce`, `NoHoleBehindFrontier`, `LogsAgree`, `IndInv`, `LogIsStable`, `ImplementsSlotLog` |
| `live` | 2 replicas, 2 slots, 2 requests, dropMod 3, later data, the stream pauses, fair | `HolesAreFilled` |
| `vr_normal` | 3 clients with 1 request each, batch size 2, two batches, state transfer | `TypeOK`, `ExecutionsAgree`, `NoAbort`, `ExecutedInQuorum`, `LogsMatch` |
| `vr_view_change` | 1 client, 3 requests, the first declined, 3 views | `ExecutedInQuorum`, `AcksHeld`, `ExecutedOnce`, `CommittedStable` |
| `vr_recovery` | 1 client, 1 request, one restart of each replica | `AcksHeld` |
| `np_normal` | 1 view, a request stamped twice, a gap, two synchronizations | `TypeOK`, `LogsFollowLeader`, `GapInQuorum`, `ExecutedOnce`, `CommittedAgree`, `SyncInQuorum`, `NoAbort` |
| `np_change` | 2 views, 2 sessions, 2 requests, one number per session | `AcceptedStays`, `LogsFollowLeader` |
| `fp_safe` | 2 clients with 1 request each | `TypeOK`, `SlowPathMatches`, `ExecutionsFollowLeader`, `ExecutedOnce`, `LastInQuorum`, `NoAbort` |
| `fp_live` | 1 client, an unlogged and a logged request, one replica without fairness | `RepliesRight`, `ClientServed`, `ImplementsService` |
| `commit_noop` | violation expected | `CommittedIsNotNoOp` |
| `np_rewind` | violation expected | `CommittedInLog` |
| `np_kept_gap` | violation expected | `CommittedAgree` |

The VR, NOPaxos and Fast Paxos runs have 3 replicas and f = 1.

Why the bounds are enough. Two slots let one request be resent once, so that an
abandoned slot and its successor race, or let two requests be sent in one tick, or
in two. Three replicas with f = 1 have a quorum that excludes one follower; two
replicas are enough for `live`, which is about one follower and the leader. `gap`
has no simulated losses, since the network may lose any message anyway; `live` has
them, as they also skip the reply to what they drop. No run has gap mode off or
noopMod on: the theorems of section 5 hold for every setting of these switches.
`MaxSlot` bounds `seq_num`, `MaxReq` bounds `app_req_id`, `Burst` the catch-up.
`Later` (the slots beyond `MaxSlot`) and `Timers` (the timer ids) matter to `live`
only: to the safety properties a timer is pending or not, and later slots are slots
like the others. With the bounds the client stops sending; replicas and network go
on, so deadlock checking stays on in the safety runs.

The state constraints named in the configurations are bounds too. Followers of one
view do the same things, so that in `gap`, `vr_normal` and `np_normal` only replica 1
asks for what it misses (`OneFollowerAsks`); the other one receives messages in any
order as well, and waits. In `gap` only replica 1 takes a second Sync after data
(`OneFollowerSyncsAgain`), besides the leader. In the view changes,
`SecondChangeBound` and `BothChangesBound` leave the last request for the histories
with a single change.

In VR, three requests are what it takes to have a batch in flight and two requests
held back behind it, which may or may not be sent together; `TwoBatches` stops at the
second Prepare, which may arrive before the first. One view change separates an old
and a new leader; a second one, after the first leader has failed for good, brings
back what the first lost. `MaxReq`, `MaxView` and `MaxRestart` bound requests, views
and restarts. `Lost` switches off what an instance is not about: Commit adds only a
second way to execute what PrepareOK already executes at the leader, and is delivered
in `vr_normal` and `vr_recovery`; Reply is not needed when a client has one request.
RequestStateTransfer is delivered in `vr_normal` and not in `vr_view_change`, because
state transfer across views breaks its properties (see the list below), so the merge
of entries of two views is not checked. `vr_recovery` has one request: with two, a
StateTransfer can reach a replica that still recovers, and AcksHeld fails for the
reason given there. It has no view change: with both, executions diverge, for the
other reason given there. The VR instances come to rest when requests and views are
used up, so deadlock is not checked there; symmetry exchanges clients, which are
treated alike, and is used only with invariants.

What the failing runs show:

* `commit_noop`: `HandleData` replies even when `RecordReceived` refuses the
  data because the slot is a NoOp. The leader gives slot 1 up, the Data arrives
  late at the leader and a follower, both reply, and the client reports the
  request committed in a slot that is a NoOp everywhere. `CommitDurable` is
  therefore stated with the exception the code needs.
* `np_rewind`: a replica with more operations than the merged log of a new view
  rewinds to that log's last operation (`replica.cc:713`). `RewindLogToOpnum` keeps
  `lastOp` there but removes the entry too; in the run the replica has committed it.
  The two calls with `lastCommittedOp` make the same mistake, but it takes a second
  change of view or session to come there.
* `np_kept_gap`: a gap that only one replica knows is rewound at a StartView only if
  the merged log has a gap at all. With none the replica keeps its NoOp, and one place
  is committed as a NoOp and as a request.

Disagreements met while modelling that have no run of their own; each is a
behaviour of the models and keeps the bounds above as they are:

* PaxosBus: the GapCommit is broadcast once. A follower that holds the data has no
  hole, never asks, and keeps data the leader gave up if that message is lost.
* PaxosBus: each arrival cancels the pending gap timer and starts another
  (`replica.cc:277`). The client's stream is open-loop and endless, with 1 ms between
  requests against a delay of 10 ms: a replica that is left with a hole need not scan
  again while the stream goes on, although the comment at line 288 calls the delay
  "the rescan cadence while gaps are outstanding". `HolesAreFilled` fails under
  `StreamSpec` (section 4).
* VR: `HandleDoViewChange` calls `EnterView`, which sets `lastBatchEnd` from
  `lastOp`, before it assigns `lastOp`. The new leader's first batch starts in the
  old view's entries and `CloseBatch` asserts (`vr/replica.cc:1056`).
* VR: a leader that restarts before the others change the view gets f + 1 responses
  for the view it led and asserts that it does not lead it.
* VR: the view change handlers accept a replica in STATUS_RECOVERING. With its empty
  log it completes a quorum, and an executed request is replaced (two clients, one
  restart, one view change).
* VR: `HandleStateTransfer` enters a newer view and keeps uncommitted entries of
  the older one behind the received ones; the replica acknowledges the new
  leader's Prepare for such a place without comparing views and executes its own
  stale request. It does not look at the status either: a recovering replica
  takes a StateTransfer and then has `lastOp` set back by the recovery.
* NOPaxos: `HandleStartViewReply` asserts that the leader is in status normal
  (`replica.cc:780`). A new leader that has begun a gap agreement is not, and replies
  go on coming in, from every replica and for each repeated StartView.
* NOPaxos: a new leader compares its last operation with that of the other logs,
  then installs their gaps, then asserts that it still lacks operations
  (`replica.cc:658`). If it lacked only a gap at the end, it does not.
* NOPaxos: a state transfer asserts that its next entry is the next operation
  (`replica.cc:508`), but `ProcessNextOperation` has by then installed the gaps that
  follow the entry before it. `NoAbort` allows this abort; it takes three places.
* NOPaxos: a follower that gets a SyncCommit first asks the leader for the
  SyncPrepare. `ReceiveMessage` does not dispatch the request; the leader panics.
  `NoAbort` allows this abort too, and `np_normal` reaches it.
* NOPaxos: only the replica that leads at execution stores the reply ("Only leader
  needs to store the reply, replicas do not execute the request"), but followers
  do execute at synchronization. One that leads later answers a repeated request
  with an empty result.
* NOPaxos: `stateTransferOpEnd` is exclusive but compared with the place just
  appended, so that a transfer completes only with the operation after it. A
  synchronization or view change that has to fetch operations is not completed by
  their arrival; a repeated SyncPrepare, ViewChange or StartView completes it, as it
  finds the log complete.
* NOPaxos client: a reply of a higher session does not reset `hasLeader`, one of a
  higher view does. A sequencer that restarts with the same id counts from 1 again
  and its packets are taken for old ones.

The NOPaxos bounds. Two numbers in one session make the second packet overtake the
first, so that a gap is found, asked for and either filled or agreed on; `GapAt`
and `SyncAt` say at which place the leader's two timers may fire. In `np_normal`
Reply is lost, since clients learn nothing there that the properties mention, and
exploration ends where a leader panics on a SyncPrepareRequest (`NobodyAsked`; the
others then do what they also do next to a leader that takes no step). It has two
synchronizations, so that acknowledgements of the first point may come while the
second is counted; of those of replica 2 the first is left out (`OneFollowerAsks`).
`np_change` has a change of leader and one of sequencer in any order, with two
requests that compete for a place. It loses GapRequest and GapReply, which
`np_normal` delivers; SyncCommit, which only repeats to followers what the leader
commits; and StateTransferRequest, because delivering it makes the instance too large:
the merge that has to fetch operations first is not checked. Nor does it have gap
agreements or synchronizations: together with a change of view they lead to
`np_rewind`, `np_kept_gap` and the two assertions of the list above.

Two clients in `fp_safe` are what it takes for conflicting offers; `TransferAt`
bounds when the leader answers a request for state. These instances
come to rest as well, so deadlock is not checked.

## 4. Fairness

`live`, for PaxosBus. The gap timer is one-shot, and every Data, GapReply and
GapCommit taken, and every scan, cancels it and starts another. So no fairness of "the
gap timer" is assumed, only of a timer that is left alone: one with a given id that
stays pending fires (`WF(TimerFires(r, id))`). A follower repeats its GapRequest at
each scan for as long as the slot is missing, and each repetition that arrives is
answered: so a request, and an answer, that are needed for ever arrive in the end
(`WF(RequestArrives)`, `WF(AnswerArrives)`, both only while the follower is still
asking). Nothing is assumed of Data, DataReply or the broadcast GapCommit, each sent
once. `Settle` says that the network does not repeat old messages for ever (each copy
of the Sync resets the frontier, each copy of Data restarts the timer) and that
deadlines pass. These assumptions, `StreamSpec`, do not close the holes: while the stream goes
on, data of later slots restarts the timer for ever, and TLC shows
`HolesAreFilled` violated when the configuration names `StreamSpec`. `PausingSpec`
adds `WF(Pause)`: the client is stopped or
pauses for longer than the delay of the gap timer. `HolesAreFilled` holds under that
assumption only; until the pause, arrivals may put the scans off at will.

`fp_live`, for Fast Paxos. A client repeats its request until it is answered
(`ResendRequest`), the leader its last Prepare until it is committed
(`ResendPrepare`), and whoever receives one of these answers again: a slow-path
PrepareOK, a request for state, a Reply. Weak fairness of these deliveries is
assumed for the replicas in `Correct`, the leader and f others. Nothing is assumed
of the remaining replica, of fast-path offers, which are sent once, or of Commits,
which the run loses altogether.

## 5. Proofs

All theorems are checked by TLAPS for every `N`, `F` or set of followers, every set
of clients, every bound and every setting of the knobs. The assumptions are those in
the modules: at least one replica, natural numbers for `F` (positive in VR and NOPaxos) and the
bounds, Boolean switches, finitely many followers.

### PaxosBus

`TypeCorrect` comes first. The safety properties are not inductive by
themselves: that a follower's NoOp is the leader's depends on what GapCommit
messages still in the network say, and that a request commits once depends on no
second slot being in flight for it. `IndInv` adds

* `MessagesTrue`: every message ever sent is still true of the logs, which only
  move from EMPTY to data to NOOP (a GapCommit means the leader holds the NoOp, a
  GapCommitReply that its sender does, a DataReply that the slot is filled, and
  the Data messages give each slot one request, at most `seqNum`);
* `LogsTrue`: logs hold only what was sent, acks are real messages;
* `ClientTrue`: a request is in flight in one slot at most, and in none once it
  is committed; the mask holds only replicas that replied.

There is one lemma per handler. `ReplicaObligations` reduces the replica handlers
to what they do to one log row (`LogStep`) and to the messages they add, so each
handler proof says only that. From `Invariance` follow `NoOpsFromLeader`,
`DurableNoOps`, `CommittedOnce`, `NoHoles`, `Agreement` and `CommittedIsDurable`;
`StableLogs` follows from `LogStep`. `Refinement` shows that in gap mode each
step is a step of SlotLog or a stutter, using `IndInv` for the guards (a new slot
was never offered, a quorum's slots are filled, a request was not reported).

### Fast Paxos

Handlers of Fast Paxos call each other: a request at the leader is followed by the
kept PrepareOKs, each of which may execute; a state transfer by an execution and the
kept Prepares. The proof follows that structure. `ReplicasOK(R)` is stated for any
function `R` of replicas' states, so it can be said of the middle of a handler;
`Fine(R, r, t)` says that replica `r` may move on to state `t`, and each operator
has a lemma that it is fine. `FineThenFine` puts operators together, and the loop of
`HandlePending` is an induction over the states between its messages.

The inductive invariant adds to the properties:

* `MessageTrue`: every message ever sent still says what is so. A Prepare, a Commit
  and a transferred entry are the leader's; a slow-path PrepareOK's sender holds the
  leader's entry; a fast-path one names what its sender put in that place, or what
  the leader has replaced it by. That is stable because logs only `Grows`: an entry
  stays or becomes the leader's.
* `FollowerOK`: up to `lastSlowPath` a follower has the leader's entries, and it
  executes no further than the leader has.
* `LeaderOK`, `QuorumOK`: requests are in the leader's log once, its client table knows them
  all, the answers it counts are true of the logs, and the last executed entry has
  F + 1 holders.

Without the messages, `SlowPathMatches` is not inductive (a Prepare in the network
could carry anything), and without the counted answers neither is `LastInQuorum`.
From `Invariance` follow `TypeCorrect`, `SlowPathHolds`, `Agreement`,
`OncePerRequest`, `HeldByQuorum`, `NeverAborts` and `RightReplies`;
`ExecutionsAreFinal` is the action property. `FastPaxosRefinement` shows that every
step is a step of ReplicatedService or a stutter. It needs one fact more, `Origin`:
what is in a log was asked for by a client.

### Viewstamped Replication, first view

The theorems of `VRProofs` have the form `Spec => [](Undisturbed => P)`: as long as
nobody has sent a StartViewChange or a Recovery, `P` holds, for `TypeOK`,
`ExecutionsAgree`, `ExecutedOnce`, `NoAbort`, `ExecutedInQuorum`, `LogsMatch` and
`AcksHeld`, whatever is lost, repeated or reordered. `FirstViewLogsGrow` is an
action property: until then no log loses an entry. The restriction is the code's:
section 3 lists what happens to these properties once replicas change the view or
restart. It leaves in batching with its three triggers, state transfer answered by
any replica, even one that lags behind the one that asks, Prepares kept and handled
later, and declined and repeated requests. With `MaxView = 0` and `MaxRestart = 0`
every behaviour is of this kind, as in `vr_normal`.

`FollowerGoes(lead, r, s, res)` says that a follower in state `s` may go on with the
result `res`: it still has a prefix of the leader's log, nothing it has executed or
holds is lost, no assertion has failed, and what it sends is true. `LeaderGoes` says
the same of the leader. Each operator of VRReplica that the first view can reach has
a lemma of this form (`AppendBatchGoes`, `MergeGoes`, `SendPrepareOKsGoes`,
`DrainPendingGoes`, `CloseBatchGoes`, `ProposeGoes`, `QuorumReachedGoes`, ...), the
lemmas compose as `Then` composes the operators, and `FollowerStep` and `LeaderStep`
carry the result over to the group. The invariant `FirstView` says of the messages
what Fast Paxos's does. Three parts of it were not obvious: that a follower's client
table knows only requests of its own log (`TableUpTo`), from which the assertion of
UpdateClientTable follows; that a transfer starts no later than what its receiver
has executed, or `Append` would meet a hole; and that F followers hold what the
leader has executed, from `oks`, in which none is counted twice.

### NOPaxos, first session and view

The theorems of `NOPaxosProofs` have the same form, with `Undisturbed` for: the
sequencer has not been replaced, and nobody has asked for a view change. Until then
`TypeOK`, `LogsFollowLeader`, `GapInQuorum`, `SyncInQuorum`, `CommittedAgree`,
`ExecutedOnce`, `AcceptedStays` and `CommittedInLog` hold, and `FirstViewLeaderLogGrows`
is an action property: no step takes from the leader's log, and a place of it that
is a request is never made a gap later. The restriction is the code's here too: `np_rewind`
and the disagreements of section 3 show what a view change does to these properties.
It leaves in what the protocol is about: requests lost, repeated, reordered and
stamped twice, gap agreement, synchronization, state transfer, and all of them
racing each other. `OneViewUndisturbed` shows that with `MaxView = 0` and
`MaxSess = 0`, as in `np_normal`, every behaviour is of this kind: no handler asks
for a view change by itself.

None of the properties is inductive. A follower installs the gaps of a SyncPrepare,
a GapCommit or a GapReply on the word of the message; it commits at a SyncCommit that
may overtake operations it still has to fetch; the leader counts answers about states
its followers have since left. The invariant `FirstView` therefore has

* `PlaceOK`: a place of a log holds the request that the sequencer stamped with its
  number, or is one of the replica's gaps; with `SequencerOK`, that no number is given
  twice, two logs can differ in a place only by a gap one of them does not know;
* `FollowerOK`: a follower knows only gaps of the leader's log, and *all* of them
  (`Caught`) up to what it has committed, up to each SyncPrepare it has noted and up
  to the end of the state transfer it waits for, so that the operations it fetches
  may be committed at once;
* `LeaderOK`: each gap is at F followers (`Holding`) or is the one being agreed on,
  each counted answer is about a place its sender has `Reached`, and F followers have
  reached what is committed;
* `MessageTrue`: every message ever sent still says what is so. A SyncPrepare lists
  all the leader's gaps up to its place *for good*, because the leader makes a gap
  at the end of its log only; a transferred entry is the leader's entry.

`ReplicasOK(Q, R)` is stated for any set `Q` of stamped requests and any function
`R` of states, so it can be said of the middle of a handler. `Goes(Q, R, X, r, s, res)`
says that replica `r`, in state `s` in the middle of a handler, may go on with the
result `res` (`X` is the SyncPrepare whose gaps are still being installed), `Ends`
that the handler may end there. Each operator has such a lemma, the lemmas compose
as `Then` does, and the loops (`ForEach` in ExecuteUptoOp, InstallCommittedGaps,
ProcessNextOperation and state transfer, the scan of `ProcessPendingRequests`, the
client's `LeaderReply`) go through `DataLemmas!LoopRuns`. `StepKeeps` carries the
result over to the group, `NextAdvances` puts the handlers together.

`NoAbort` allows two aborts. One is the leader's panic on a SyncPrepareRequest. The
other was found by the proof: a state transfer installs an entry, `ProcessNextOperation`
then every gap that follows it, and the assertion that the next entry is the next
operation fails. `FirstViewAborts` says that no other assertion or panic of the code
is reached in the first view.

### What the proofs rest on, and what is only model-checked

Recursive functions (the loops over kept messages) are handled with
`DataLemmas!NatSetInduction`, induction stated with a set in place of a predicate
and proved from the theorems on cardinality; `LoopRuns` says that a loop whose every
step stays in a set has a run that does.

Only model-checked: `HolesAreFilled` and `ClientServed` (liveness is outside the
prover's reach), the expected violations, VR's view change and recovery with
`CommittedStable`, and NOPaxos's changes of view and session with `AcceptedStays`
and `LogsFollowLeader`. VR and NOPaxos have no liveness run:
the disagreements of section 3 stop replicas and view changes, so there is no
progress property that holds beyond a single view.

## 6. Not modelled

Client restart under the same id; several clients in one run (they do not
interact); replica crash as an action (a replica that takes no more steps is
already a behaviour of the model, and nothing is persisted to restart from);
statistics; unlogged requests of VR and NOPaxos, which touch no replicated state;
fragmentation of large UDP messages; the configuration parser; the packet layout
and raw sockets of the sequencer, and the queue and filters of the simulated
transport.

Speculative Paxos: replicas execute before they agree, and its view change merges
logs by hash and rolls back. The model would be as large as NOPaxos's. Unreplicated RPC: one server, one
retrying client, no agreement. Everything else marked `not_modelled` in
PROJECT.json is measurement, logging, vendored or driver code.

Hazards beyond those in PROJECT.json that no run reaches: a client process that
restarts under the same id (`paxosbus/replica.cc:117`); the single Sync being lost
(`paxosbus/client.cc:53`); `lastnormalview` being the view of the last entry rather
than of the last normal view, which needs four views (`vr/replica.cc:929`); a
replica that lags behind the log a StartView carries (`vr/replica.cc:1101`); a
NOPaxos view whose new leader is down too (`nopaxos/replica.cc:110`); a late reply
to a Fast Paxos unlogged request that timed out (`fastpaxos/client.cc:186`).

## 7. Plan

1. (done) PaxosBus: core, composition, abstract slot log, invariants and
   refinement, proved.
2. (done) Fast Paxos: replica and client, invariants and refinement of the abstract
   service, proved.
3. VR: normal case with batching, state transfer, view change, recovery, client,
   checked; the first view proved. Left: what remains true across view changes when
   no state is transferred and nobody restarts (views never go back, a viewstamp
   names one request).
4. NOPaxos with its sequencer: checked; the first session and view proved. Left: a
   proof that followers execute a beginning of what the leader executes.
5. Speculative Paxos, unreplicated RPC: not planned at present.
