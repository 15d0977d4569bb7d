# A TLA+ specification of krabka-broker

krabka-broker is a Kafka broker in Rust. This directory models the parts of it on which the
promises to its clients rest: the KRaft controller quorum and what it commits, the replication of
a partition, the transaction coordinator and the consumer group coordinator. TLC checks all of
them on small instances; TLAPS proves the safety properties of the quorum, of transactions and of
groups, and that the logs of a partition match, for instances of any size.

## The system

| Component | State | Operations | Hard part |
|---|---|---|---|
| Consensus core (`crates/kraft-core`) | epoch, leader, vote, role, progress of each follower, high watermark | one handler per event; returns actions, does no I/O | votes and pre-votes share one answer type; an epoch can be led, resigned and asked about again |
| Engine (`crates/raft/src/kraft/controller`) | the core, the metadata log, timers, parked fetches, commit waiters, the applied image | one turn per event: run the core, execute its actions, persist, answer | several requests are outstanding at once, and every answer is late |
| Metadata log (`crates/raft/src/kraft/log.rs`) | batches by offset and leader epoch, a high watermark and its cache file | append, truncate, read, end offset of an epoch | truncation against what was applied |
| Peer transport (`crates/raft/src/network`) | one connection per peer, redialed | send, receive | each send is a task: no order, no exactly-once |
| Verified kernels (`crates/verified`) | none | pure decisions | boundaries |
| Partitions (`broker/src/partition`, `replicator`, `isr_maintenance`, `leader_election`) | log, high watermark, ISR, leader epoch, waits | produce, fetch, truncate, propose an ISR, install a role, elect | an ISR proposal in flight; a read that other steps overtake |
| Transaction coordinator (`broker/src/txn`) | an entry per transactional id, its log partition, fan-outs | InitProducerId, EndTxn, timeouts, markers, loads | elections and crashes between the prepare, the markers and the completion |
| Group coordinator (`broker/src/coordinator/unified`) | members, epochs, targets, held partitions, a log and a cache of it | heartbeat, join, leave, fence, load | a partition moves only when its old holder gave it up; answers are lost, writes fail |
| Snapshots, KIP-853 reconfiguration, observers | log start, voter sets | chunked transfer, one change at a time | crash and leader change in between |
| Share partitions, diskless WAL, barriers, tiering | locks, objects, markers | acquire, flush, reclaim, inject, copy | crash between two steps |
| Handlers, authorization, audit, tools, support crates | – | encoding, dispatch, tools | not protocol logic |

A timer, a peer request or a peer answer starts a turn of the engine; the core decides and returns
actions; the engine writes the quorum state, appends to or cuts the metadata log, sends, and
settles the submits that wait for a commit. Committed metadata is applied to an image, which
brokers, partitions and coordinators read. A coordinator keeps its state in a partition's log and
rebuilds it when it becomes that partition's leader. `PROJECT.json` lists every component,
modelled or not, and every hazard with the properties that watch it.

What makes the parts correct: one leader per epoch; one vote per epoch and voter, across crashes;
logs that agree wherever they share a batch; committed batches that every later leader holds and
no replica cuts; an answer only for what is committed. For a partition: an acknowledged record is
on every replica that may be elected. For a transaction: one outcome, the one the producer asked
for and was told. For a group: no partition with two holders, and every partition consumed.

## Modules

| Module | Models |
|---|---|
| `MetadataLog` | the log as the core sees it (`LogView`) and the pure kernels on it: end of an epoch, the up-to-date test, divergence, the truncation point, the moves of the high watermark |
| `KraftCore` | `QuorumStateMachine`: roles, messages and one operator per handler, from a replica to a step (the replica it leaves, the messages it sends) |
| `KraftQuorum` | the engines of all voters and the network: one action per timer, request, answer, append and crash; the properties |
| `KraftPersist` | the quorum-state file, whose write may fail |
| `CommittedLog` | the promise: one growing log, of which readers apply prefixes and from which writes are answered |
| `KraftCommit` | submits, compare-and-set plans, commit waiters and the image, on top of `KraftQuorum`; the refinement of `CommittedLog` |
| `PartitionReplica`, `PartitionReplication` | one replica's log, watermark, ISR and waits; the brokers, the controller's row and the network of one partition |
| `TxnEntry`, `TxnPartition`, `TransactionCoordinator` | a transactional id's state machine; a data partition's open transactions; coordinators, fan-outs and producers |
| `ConsumerGroup`, `GroupCoordinator` | the state of a KIP-848 group; its actor, log, cache, clients and metadata watcher |
| `MC*` | scenarios, bounds and symmetry for TLC |
| `KraftPast` | the inductive invariants of the log proofs, over histories of a behaviour |
| `*Proofs` | the theorems, see below |

### The quorum

**State.** `replica[v]` holds what the source keeps in `QuorumState`, `Role` and the log:
`epoch`, `leaderId`, `votedKey`, `role`, `log`, `hwm`. A log is the sequence of the leader epochs
of its batches; one batch fills one offset. What a batch carries does not matter to consensus: one
leader writes an epoch, so offset and epoch identify a batch. `net` is the set of messages in
flight. `elected` and `ballots` are histories that no action reads.

**Actions.** An action is one engine turn. The engine takes one event at a time and executes every
action the core returns, the write of the quorum state included, before the next; it answers a
vote only after that write. So a turn is atomic, and a crash falls between turns (`Restart`). A
request that the source drops without an answer or a state change is not an action: losing the
message (`Lose`) is the same.

**Network.** Messages may be lost, delayed and reordered. With `Redelivers = TRUE` the network may
keep a copy of a message it delivers. `FetchesOverlap = FALSE` states the assumption of the
repository's own model (`raft/tests/model/transitions.rs`), that a new Fetch of a voter ends the
earlier one's exchange; the engine does not enforce it, so each run and each theorem says whether
it needs it.

**Timers and successors.** A timer that `reconcile_timers` arms in a role may fire at any time in
that role, and a leader may resign at any time (the check-quorum timer, or a shutdown): this
over-approximates the deadlines, so safety carries over. The source orders a resigning leader's
successors by progress, then by node id; the model takes any of the most caught-up.

**Crash.** The epoch, the vote and the log survive. The high watermark comes from a cache file
that may be missing or old, so it restarts at any value up to the one held. `KraftPersist` adds
the write of the quorum-state file that fails, after which the engine goes on and answers; a voter
whose writes succeed has its state on disk after every turn, where the code writes it when it
changed.

**Submits.** `KraftCommit` keeps what batches carry beside the logs, by epoch and offset. A turn
ends by settling the waiters: those the high watermark reached are answered, the rest fail when
the leadership or its epoch is lost. A plan is what a caller of `submit_change_if_image` read: a
published image, which is another one after every change of role or epoch.

### A partition

The controller's row (leader, ISR, epochs, ELR) is one record; a broker adopts the current row
and installs its role in two steps, role first, then ISR, as `leadership.rs` does. A fetch that
reads records is two steps, sampling the log end and then answering. The adoption of the image is
merged with the installation of the role; a wait that expires is one that is never acknowledged;
a crash of the process keeps the log, and the restarted broker adopts the current row. Left out:
broker epochs, controlled shutdown, witnesses, recovery strategies, unclean election, diskless
partitions, the log start, the leader recovery state. Simplified: a follower drops a fetch that is
refused for its leader epoch and starts again, where the code first handles the fence
(`response.rs:298`); a planned read takes the high watermark and the records in one step, up to the
log end; a scan proposes while no other proposal is in flight.

Two constants state what the code relies on and does not enforce. `ExpansionsSettle`: a follower
named by an ISR expansion in flight keeps up until the expansion commits and is installed, and the
ISR of a partition that is published without a leader does not grow. `ReadsSettle`: a read that a
leader planned ends before the leader acknowledges a record past the log end the read sampled, and
before the leader, deposed, cuts or refills the log it reads. Where a run or a theorem needs one it
says so; what happens without them is under Findings.

### Transactions

Everything at transaction version 2, so an identity (producer id and epoch) names one transaction.
A coordinator's committed write is observed and published in one step; the writes of a deposed
coordinator never reach the log and fail. `EndTxn` is answered when its fan-out ends; requests and
markers may arrive late or again; a fan-out uses the coordinator epoch read at its start.
A partition leader writes a marker, passes over it, fences it, does not answer in time, or answers
a code that the coordinator does not expect, with the coordinator's precedence between them
(`record_deciding_failure`): a fan-out that may be retried is queued for the completion task, one
that is fenced or stopped by an unexpected code is not. The code's fourth class, `Dropped`
(UNSUPPORTED_VERSION), is an answer of brokers older than this one; no marker append of this code
gives it. `MaxEpoch` stands for `i16::MAX`. Left out: earlier versions, two-phase commit (KIP-939), expiry of
transactional ids, several transactional ids and their producer-id index, offset commits in a
transaction, sequence numbers, expiry of a partition's verification state.

### Groups

A handler is atomic, because the actor awaits the commit of its records, with three outcomes:
written, not written, or timed out and committed nevertheless. An answer is handled at once or
lost. A client reports what it owns once it has taken up what it was told, and repeats it when
told something else. The assignor is any target that gives each subscribed partition to one
subscriber. Left out: classic groups and their migration, regular expressions, racks, deleted
topics, offset commits, epoch exhaustion, the size limit. `WritesSettle` states that a write that
timed out is not committed later. Without it, the replay of a current-assignment record for a
member whose other records are gone would bring that member back (`replay_next_gen.rs:186`), which
`apply_seed` leaves out.

## Runs

| Run | Expected | Shows |
|---|---|---|
| `quorum` | pass | two racing rounds, a crash anywhere, a repeated announcement, a second election or a resignation that interrupts replication, and a deposed leader's log that is cut and refilled: `VoteInv`, `ElectionSafety`, `VoteIsFinal`, `LogMatching`, `LeaderCompleteness`, `CommittedAgree`, `AcknowledgedIsHeld`, `KnownLeaderWasElected`, `CommittedIsNeverCut`, when Fetches do not overlap |
| `overlapping_fetches` | violation | `CommittedIsNeverCut` fails when they do |
| `commits` | pass | submits and plans of two names through an election, a resignation, a crash, a loss and idle batches: `ImplementsOneLog`, `AdmittedIsAccepted`, `PlansCommitOnTheirImage`, `NoWaiterIsStranded` |
| `unsaved_votes` | violation | `OneVoteAcrossRestarts` fails when the write of a vote fails |
| `partition_safety` | pass | expired sessions, crashes, lagging followers, overtaken reads, a replica that joins the ISR while records are acknowledged, a leader that returns to a partition without one, and two elections: `AckedIsEligible`, `LogsMatch`, `AckedIsNeverCut`, when expansions and reads settle |
| `partition_recovery` | pass | `EveryReplicaRejoins`, `EveryWaitEnds` under fairness |
| `recorded_leader` | violation | `AckedIsEligible` fails when the recorded leader of a partition without a leader leads it |
| `refilled_read` | violation | `LogsMatch` fails when a planned read is answered from a log that was cut and refilled |
| `txn_safety` | pass | new, fenced and late producers, failover, timeouts, crashes, the last epoch: `AtomicOutcome`, `OnlyAskedIsCommitted`, `ToldIsCommitted`, `OpenIsRegistered` |
| `txn_liveness` | pass | elections, crashes, markers that are lost or refused: `EveryPreparedCompletes`, `EveryTransactionEnds` under fairness, but for a commit that waits for the next load (`WaitsForLoad`) |
| `groups` | pass | joins, leaves, handoffs, static members, expiry, lost answers, new partitions, failed writes, loads, and an expiry of a running client before a load or a failed write: `OneHolder`, `OwnedIsHeld`, and under fairness `EveryPartitionIsConsumed`, but for a partition whose target was lost (`TargetLost`) |
| `uncommitted_group_write` | violation | `AdvertisedToOne` fails when a write that timed out is committed |

A run explores several scenarios side by side; a scenario is a record of bounds and budgets in the
MC module. A step that nothing else starts (a timer, a crash, a submit, a loss) has a budget, and
`in_flight` bounds the network, which a dropped message can always make room for.

* Quorum. Three voters are the smallest set in which two majorities differ. Two epochs are what one
  leader change needs. `commits` and the scenarios of `quorum` after the first two start where the
  first election ended, so that two epochs leave room for a successor and for a deposed leader
  whose unreplicated batch is cut and replaced. Messages are delivered again in the racing rounds
  and the repeated announcement; with a crash, a resignation or a replicated batch they are not.
  Voters, and the names of `commits`, are symmetric.
* Partition. Two or three brokers with a minimum ISR of 2, leader epochs up to 3: two elections,
  after which two logs can have diverged and met again. Some scenarios begin where their question
  begins (a replica out of the ISR, a partition without a leader, a record that only its leader
  has, a copy of a record on one follower), in states the specification
  reaches. Brokers are ordered, so there is no symmetry.
* Transactions. Two coordinators and two partitions: one partition can have its marker while the
  other has not. Two epochs of a producer id reach its exhaustion; three ids follow. The liveness
  run has one partition and no exhaustion, because a deposed coordinator may consume ids without
  bound.
* Groups. Two clients, a third where a static member is replaced, two topics of one partition.

The runs do not check for deadlock: once its budgets are spent a behaviour may end.

**Fairness.** The quorum's properties are safety properties. `partition_recovery` assumes weak
fairness of what the broker runs in loops or on tickers: the reconcile loop (installation of a
role), the replicator, the fetch handler, the ISR scan, the controller's admission, the expiry of a
stopped broker's session, and a restart with its heartbeat. `txn_liveness` assumes it of the image
refresh, the load, the commit of a leader's write, the timeout sweep, the completion task and the
fan-out with the answers of partition leaders. `groups` assumes it of the heartbeats of running
clients, the session expiry of stopped ones, the client's own assignment, and the metadata watcher.
Nothing is assumed of crashes, losses or elections, which have budgets: each property holds once
they stop.

Two liveness properties state an exception, because the code has it; TLC finds each property
violated when its exception is taken out.

* `WaitsForLoad`, in both properties of `txn_liveness`. An unexpected answer stops a fan-out and
  queues nothing, and the sweep takes up aborts only, so that a prepared commit waits until its
  state partition is loaded again. The repository records this as a known failure of its own model
  (`txn/completion_model.rs:113-130`), as the behaviour of Kafka. The exception covers just
  that: the leader's last fan-out of a commit stopped so, with nothing queued or under way. Aborts,
  a commit that also failed in a way that may be retried, and one whose partition is loaded again
  have to complete.
* `TargetLost`, in `EveryPartitionIsConsumed`. A member that is fenced and joins again under its id
  is often given the target that the actor kept for it. That target is unchanged for the actor,
  which writes no record for it (`heartbeat.rs:563`), while the tombstone of the fence is in the
  log. A load, or a failed write, then leaves the member without a target: it settles on nothing,
  and its partitions rest until the next epoch. The exception covers a partition in nobody's target
  and held by nobody, in a group that has such a member and nothing that would compute a new
  target; the scenario `return` goes on to the next epoch, where the partition has to be consumed.

## Findings

* `overlapping_fetches`. A follower whose log diverges sends a Fetch, times out, opens a pre-vote
  that fails, follows the same leader again and fetches again. Both Fetches are answered with the
  same divergence hint. The follower cuts its log on the first, fetches and applies a committed
  batch, and then the second hint cuts that batch and takes the high watermark down with it.
  Nothing in a Fetch answer says which Fetch it answers.
* `recorded_leader`. With no replica to elect, the record keeps its last leader, and a one-member
  last-known ELR says that the partition has none. Elections, metrics and metadata answers read
  that marker; the reconcile loop, the produce gate and the admission of an ISR do not. A leader that starts again after a stop loses its eligibility and is not elected while another
  eligible replica is away, but it finds its name in the record and leads: it produces, its ISR
  proposal is admitted, the ISR it then has is at the minimum, and it acknowledges what the
  eligible replica does not have. That replica is a clean choice when it returns.
* `refilled_read`. A fetch is planned against the leader's log, and read after an await. A leader
  deposed in between may have cut its log and refilled it from its successor, and the answer joins
  the successor's records to a follower's log that the successor never had a prefix of.
* `unsaved_votes`. A vote whose write failed is answered as granted, and forgotten by a restart.
* `uncommitted_group_write`. A write that timed out is committed, after the actor that replaced the
  failed one advertised the same partition to another member.

Met while modelling and proving, recorded here without a run of their own:

* An expansion that trails. `compute_hw` counts the committed ISR and whoever is caught up now
  (`replica_state.rs:482` says that an expansion "holds the watermark back either way"). A follower
  named by an expansion in flight can fall behind, the watermark passes it, and the commit makes a
  replica electable that lacks an acknowledged record: `AckedIsEligible` fails in the scenario
  `joining` of `partition_safety` with `ExpansionsSettle = FALSE`.
* A watermark that falls. A read records its follower at the log end sampled before it
  (`read_loop.rs:441`), and `compute_hw` clamps the watermark to that log end
  (`replica_state.rs:509`, a clamp meant for truncations). If the leader appended and acknowledged
  in between, the watermark falls below what was acknowledged, the follower looks in sync and joins
  the ISR without it: `AckedIsEligible` fails in the scenario `late` with `ReadsSettle = FALSE`.

* A leader that does not know it was deposed and is the first successor in an `EndQuorumEpoch`
  opens a pre-vote in its old epoch that remembers itself as leader (`leadership.rs:118`,
  `election.rs:50`), which `vote_response.rs:72` excludes on its own path; its fetch timer frees it.
* A new leader answers with the high watermark it had as a follower (`inbound.rs:285`), so what
  leaders report is not monotonic, although what is committed is (`controller.rs:359`).
* A submit failed with NotLeader may commit afterwards (`engine_loop.rs:586`).
* A leader has a minimum ISR of 1 until its first scan (`replica_state.rs:143`), and its role before its ISR (`partition/leadership.rs:293`); a
  truncation recomputes the watermark upwards (`partition_writer/mutations.rs:334`).
* After a load a fenced member that joins again has no target until the next epoch (`TargetLost`
  above; without the exception `EveryPartitionIsConsumed` fails in the scenarios `return` and
  `retry` of `groups`); a late copy of a heartbeat of the previous epoch can acknowledge a revocation; a static join whose answer was
  lost is refused with UNRELEASED_INSTANCE_ID until its session expires.

## Theorems

All are proved by TLAPS for any number of voters, brokers, clients, partitions, epochs, messages
and records, from assumptions on the constants that only say what they are: voters, brokers and
the other sets are not empty, and finite where they are counted; a model value that stands for
"none" is none of them; limits are positive (`MaxEpochAssumption` at least 2, as `i16::MAX` is);
`MinIsrAssumption` puts the minimum ISR between 1 and the number of replicas; the rest are Booleans.
What the code relies on and does not enforce is a hypothesis of the theorem that needs it, and a
run shows that it cannot be dropped: `~FetchesOverlap` (`overlapping_fetches`), `WritesSettle`
(`uncommitted_group_write`), `ReadsSettle` (`refilled_read`).

| Theorem | States | Hypothesis |
|---|---|---|
| `KraftVoteProofs!TypeCorrect` | `[]TypeOK` | |
| `KraftVoteProofs!VotesInvariant`, `ElectionSafe`, `VoteFinal` | `[]VoteInv`, `[]ElectionSafety`, `VoteIsFinal` | |
| `KraftLogProofs!KnownInvariant`, `KnownLeaderElected` | `[]KnownInv`, `[]KnownLeaderWasElected` | |
| `KraftLogProofs!LogInvariant`, `LogMatches` | `[]LogInv`, `[]LogMatching` | |
| `KraftCompleteProofs!CommitInvariant` | `[]CommitInv` | `~FetchesOverlap` |
| `KraftCompleteProofs!LeadersComplete`, `CommittedAgreement`, `AcknowledgedHolds`, `CommittedNeverCut` | `[]LeaderCompleteness`, `[]CommittedAgree`, `[]AcknowledgedIsHeld`, `CommittedIsNeverCut` | `~FetchesOverlap` |
| `KraftCommitProofs!ControllersAreQuorum`, `NoWaiterStranded` | `CommitSpec => Spec`, `[]NoWaiterIsStranded` | |
| `KraftCommitProofs!OneLogImplemented` | `ImplementsOneLog` | `~FetchesOverlap` |
| `KraftCommitProofs!WritesInvariant`, `AdmittedAccepted`, `PlansCommit` | `[]WritesInv`, `[]AdmittedIsAccepted`, `[]PlansCommitOnTheirImage` | |
| `TransactionProofs!TransactionTypes` | `[]TypeOK` | |
| `TransactionProofs!TransactionAtomicity`, `TransactionIntegrity` | `[]AtomicOutcome`, `[]OnlyAskedIsCommitted` | |
| `TransactionProofs!TransactionDurability`, `NoHangingTransaction` | `[]ToldIsCommitted`, `[]OpenIsRegistered` | |
| `GroupProofs!GroupTypes`, `PartitionHasOneHolder`, `ClientsOwnWhatIsHeld` | `[]TypeOK`, `[]OneHolder`, `[]OwnedIsHeld` | `WritesSettle` |
| `PartitionProofs!PartitionTypes` | `[]TypeOK` | |
| `PartitionProofs!PartitionLogsMatch` | `[]LogsMatch` | `ReadsSettle` |

The proofs about the quorum and the partition argue with histories: a replica forgets what it
voted, held and was told, while every argument is about what it once did.

**Votes.** `ElectionSafety` is not inductive: a replica forgets its vote when it leaves the epoch,
and grants are in flight. `VoteInv` argues on the history of ballots: a ballot binds its voter as
long as the voter is in the epoch; a candidate counts ballots only; a grant in flight is a ballot,
or answers somebody who is no candidate of that epoch any more. The last point is the delicate
one, because a grant does not say whether it answers a vote or a pre-vote: it needs that a
pre-vote goes out only in an epoch that its sender can no longer stand in. Two leaders of an epoch
have majorities of ballots, which share a voter.

**Known leaders.** `KnownInv` adds to the property what is in flight (announcements, answers that
name a leader) and what a voter remembers while it asks for votes.

**Logs.** The invariants of `KraftPast` say that *some* history explains the state, and a step of
the proof extends the history it was given. `LogInv` needs one, `led[e]`, the log of the leader of
epoch `e` when it last led: every batch of every log, and all below it, is from the `led` of the
batch's epoch; a leader's log is its `led`; a Fetch in flight gives an end that its sender's log
still has or has only been cut below; an answer's batches are those of `led`, and fit at the
receiver. `LogMatching` follows, since two logs that share a batch share its source.

**Committed batches.** `CommitInv` adds two histories. `acked` is what leaders ever counted for a
voter, and `seen` the log of every voter when it voted. Its core is `AcksPast`: a voter that
acknowledged batches of epoch `e` held them whenever it voted afterwards, and does now, unless a
leader between came without them. The exception makes the statement inductive, and the induction
over epochs in `CompleteFollows` removes it: the first leader that lacked a committed batch would
have been elected by a majority, which shares a voter with the majority that acknowledged; that
voter still held the batch when it voted, so the up-to-date test would have refused. The induction
is over the least such epoch, by the well-foundedness of the naturals. `CommitInv` was checked with TLC on the
replication scenarios of `quorum`, with the histories as variables, before it was proved.

**The refinement.** `chosen` is the longest prefix that any voter took as committed. Its invariant,
`ChosenInv`, is that the history behind `CommitInv` committed it. A turn changes one voter's log
and watermark; by the agreement of committed prefixes the turn is `Advance` of that voter, or
`Forget` when a restart lost part of the watermark; an answer is a batch below the watermark that
the answering leader wrote in its own epoch, so it is in `chosen`. `ParkInv` supplies the last point
and is `NoWaiterIsStranded` with the type of the waiters.

**What the logs carry.** `WritesInv` is about all logs at once, and needs no agreement on what is
committed, so it holds with overlapping Fetches too. It takes the history `led` of `LogInv` and says
that every write is in the `led` of its epoch, that no `led` has a name twice, and that in the `led`
of its epoch a planned write follows exactly the names of its plan. These carry over to every log,
and to `chosen`, because a log that has a write has all below it from that write's leader
(`CarriedWith`). What makes it inductive is `NamesWait`: a name in a leader's log is below its
watermark, or below the start of its epoch, or parked, and these are the three sets that
`admit_and_append` looks at; a leader that goes on settles no waiter above its watermark, and one
that starts has written nothing in its epoch (`StartsUnled`). A plan adds that the tail above the watermark is idle, so the image is all that the log
creates. The parts of `WritesInv` that need no history were checked with TLC on the scenarios of
`commits` before the proof.

**Transactions.** `TxnInv` orders everything by the producer's identity. An entry of the
coordinator's log decides at most one transaction, of an identity before the entry's own. `Outcomes`
says that whatever decides a transaction (a published entry, a fan-out, a marker on its way, a
partition that was marked, an answer to the producer) decides one of an identity before that of every entry
still in the log, the same way as any entry that decides it too, and commits only what was asked for. So an
entry of a deposed coordinator, a fan-out of the last epoch or a late marker can repeat a decision
and never contradict one. `Registrations` is about data: what is open on a partition is of the
newest epoch the partition has seen, and every entry in the log either ends it there or registers
the partition; a batch that was verified with the coordinator is registered until it is appended or
too late. `Marks` is about the partitions that an entry lists: what a copy of the entry has dropped
from its list has been marked. `Current` ties the leader's cached entry to the log. None of the
four is inductive without the others; `Typed` is `TypeOK` with the order of ids and epochs.

**Groups.** `GroupInv` says that the actor's group, the group that the log would build and the
cached one agree on members, subscriptions, assignments and epochs, so that a load or a failed
write gives back the group that clients were last told of; that no two members of either share a
partition, those still to be given up included; and that a client's partitions, in use or told, are
among those its member holds. A heartbeat keeps it because a member is granted only what nobody
holds, and loses only what its client reports as given up. The last point is why `WritesSettle` is
needed. The proof found the guard of a delayed assignment in the model to be too wide:
`can_compute_next_target_assignment` (`member_helpers.rs:107`) never holds back the first one.

**A partition's logs.** `LogInv` says that some history explains the state: `led[e]`, the log of
epoch `e`'s leader when it last led, and `who[e]`, the broker the epoch was opened for. Every record
of a log, and all below it, comes from the `led` of its epoch; a broker that leads has its `led`;
and the committed leader, once it led, keeps its log until it is deposed, even through a crash. What
is in flight knows the two logs: a fetch gives the end of its follower's log, a planned read has the
follower's log as a prefix of the leader's, and the records of an answer fit the follower. A
follower has one exchange in an epoch, so none of these is overtaken by another of its own; that
a planned read stays true until it ends is `ReadsSettle`. `LogsMatch` follows as in the quorum. TLC
checked the invariant in simulation, with the histories as variables, before it was proved.

**Proof modules.** `MetadataLogProofs`: the kernels on logs. `KraftVoteProofs`: types, with one
lemma per handler and one case per action, then what a handler may do to a vote (`VoteStep`).
`KraftLogProofs`: what a turn may do to a replica and send (`CoreTurn`, and one lemma for each
other action), which the later modules use instead of the handlers; known leaders and logs.
`KraftCompleteProofs`: the lemmas on histories and the invariant of committed batches.
`KraftCommitProofs`: the controllers. `TransactionProofs`, `GroupProofs`, `PartitionProofs`: what
each operator returns, the parts of the invariant, one case per action.

**Model-checked only.** Liveness is out of TLAPS' reach. Of the safety properties of passing runs
two are not proved: `AckedIsEligible` and `AckedIsNeverCut`. They rest on the watermark, and an
invariant for them has to follow each leader's recorded positions, deposed leaders included, against
the row, the rows not installed yet and the ELR, under both `ExpansionsSettle` and `ReadsSettle`.
The attempt to write it down found `recorded_leader` and the watermark that falls, which the bounds
of `partition_safety` had hidden; its scenarios `late`, `joining` and `leaderless` are from there.
With both assumptions, simulations of the unbounded specification over two and three
brokers with a minimum ISR of 1 and 2 found no further violation.

## Not modelled, and the plan

Within the quorum: KIP-853 voter changes and observers, snapshots and the log start, parked fetches
(beyond their delay), the check-quorum window, the jitter that ends colliding elections. Hazards
that belong to these and to details left out are not in `PROJECT.json`: a lone voter's watermark
after a crash (`apply.rs:49`), a parked Fetch answered from a later turn (`inbound.rs:166`), an
interrupted snapshot transfer (`replication.rs:374`), an observer's `EndQuorumEpoch`
(`leadership.rs:111`), colliding elections (`core.rs:186`), the check-quorum window
(`core/replication.rs:109`), a truncation under a diskless log (`mutations.rs:318`), a stale target
(`group.rs:126`). Outside it: share partitions, the diskless WAL, barriers, remote storage,
producer sequence numbers, reassignment, and what `PROJECT.json` lists as not modelled.

Next: the invariant of the watermark, for `AckedIsEligible` and `AckedIsNeverCut`; snapshots and
KIP-853 as modules.
