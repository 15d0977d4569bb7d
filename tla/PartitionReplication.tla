------------------------ MODULE PartitionReplication ------------------------
(***************************************************************************)
(* One partition replicated over brokers: the row the controller commits   *)
(* (leader, ISR, eligible-leader set), each broker's replica, the fetches  *)
(* and ISR proposals in flight, and what was acknowledged to producers.    *)
(*                                                                         *)
(* A broker applies the committed row some time after its commit and       *)
(* installs it in two steps, the role and then the ISR; a fetch is sent,   *)
(* read by the leader after it sampled its log end, and answered, each in  *)
(* its own step.  A crash keeps the log (the page cache survives the       *)
(* process) and forgets everything else.  The controller takes a broker    *)
(* that it does not hear from as dead, whether or not it is.               *)
(***************************************************************************)
EXTENDS PartitionReplica

CONSTANTS
    ExpansionsSettle,   \* TRUE: an ISR scan adds only a replica that is caught
                        \* up within the lag bound, and it stays so, and stays
                        \* eligible in the leader's policy, until the leader
                        \* installs the ISR it joined, which is what the
                        \* comment on compute_hw relies on; and none while the
                        \* partition is published without a leader
    ReadsSettle         \* TRUE: a read that a leader planned ends before the
                        \* leader acknowledges a record past the log end the
                        \* read sampled, and before that broker, deposed,
                        \* applies an answer of the next leader to the log it
                        \* reads, which is what the comments on the clamp of
                        \* compute_hw and on the second leader check rely on

ASSUME ExpansionsAssumption == ExpansionsSettle \in BOOLEAN
ASSUME ReadsAssumption == ReadsSettle \in BOOLEAN

VARIABLES
    partition,  \* the committed row with its published ELR
    active,     \* the brokers the controller takes as alive
    replica,    \* replica[b]: the runtime of broker b
    up,         \* the brokers whose process runs
    net,        \* fetches, answers and ISR proposals in flight
    acked       \* history: the records acknowledged with acks=all

vars == <<partition, active, replica, up, net, acked>>

\* A record is identified by its offset and its epoch; offsets count from 1.
Holds(log, record) == record.offset <= Len(log) /\ log[record.offset] = record.epoch

-----------------------------------------------------------------------------
(***************************************************************************)
(* The controller's row.                                                   *)
(***************************************************************************)
is_leaderless(row) == row.last_known = {row.leader}

(***************************************************************************)
(* The published ELR after a change to isr and leader: below the minimum   *)
(* ISR, every replica that held all committed records before the change    *)
(* and leaves the ISR stays eligible.  An election from neither set clears *)
(* it.                                                                     *)
(***************************************************************************)
next_elr(row, leader, isr, unclean_shutdown, leaderless) ==
    LET old_isr  == IF is_leaderless(row) THEN row.isr \ {row.leader} ELSE row.isr
        complete == old_isr \cup row.elr
        unclean  == ~leaderless /\ leader \notin complete
    IN  [elr |-> IF unclean \/ Cardinality(isr) >= MinIsr THEN {}
                 ELSE (complete \ isr) \ unclean_shutdown,
         last_known |-> IF leaderless THEN {row.leader} ELSE {}]

(***************************************************************************)
(* The rows a change leaves: an ISR change keeps the leader and its epoch, *)
(* an election opens an epoch, and a partition with nothing to elect keeps *)
(* its record and publishes that it has no leader.                         *)
(***************************************************************************)
WithElr(row, elr) == [row EXCEPT !.elr = elr.elr, !.last_known = elr.last_known]

ShrinkIsr(row, isr, unclean_shutdown) ==
    LET keeps_no_leader == is_leaderless(row)
        read == IF keeps_no_leader THEN isr \ {row.leader} ELSE isr
        elr  == next_elr(row, row.leader, read, unclean_shutdown, keeps_no_leader)
    IN  WithElr([row EXCEPT !.isr = isr, !.partition_epoch = @ + 1], elr)

Elect(row, leader, isr, unclean_shutdown) ==
    WithElr([row EXCEPT !.leader = leader, !.isr = isr,
                        !.leader_epoch = @ + 1, !.partition_epoch = @ + 1],
            next_elr(row, leader, isr, unclean_shutdown, FALSE))

\* Mutant: the broker that is gone leaves the ISR although the record keeps it as leader.
Leaderless_shrinks(row, gone, unclean_shutdown) ==
    WithElr([row EXCEPT !.isr = @ \ {gone}],
            next_elr(row, row.leader, row.isr \ {gone}, unclean_shutdown, TRUE))

Leaderless(row, gone, unclean_shutdown) ==
    WithElr(row, next_elr(row, row.leader, row.isr \ {gone}, unclean_shutdown, TRUE))

(***************************************************************************)
(* The election ladder when gone leaves the ISR: the leader stays if it    *)
(* may; otherwise the first live ISR member in assignment order, the first *)
(* live ELR member alone, or the last known leader when no replica is      *)
(* eligible.  No recovery strategy and no unclean election is configured.  *)
(***************************************************************************)
decide(row, gone, alive, joins_elr, unclean_shutdown) ==
    LET target_isr == row.isr \ {gone}
        clean      == target_isr \cap alive
        eligible   == row.elr \cap alive
        last_known == IF row.elr = {} /\ ~joins_elr THEN row.last_known \cap alive ELSE {}
    IN  CASE row.leader \in clean /\ target_isr # row.isr
                -> ShrinkIsr(row, target_isr, unclean_shutdown)
          [] row.leader \in clean /\ target_isr = row.isr -> row
          [] row.leader \notin clean /\ clean # {}
                -> Elect(row, Min(clean), target_isr, unclean_shutdown)
          [] clean = {} /\ eligible # {}
                -> Elect(row, Min(eligible), {Min(eligible)}, unclean_shutdown)
          [] clean = {} /\ eligible = {} /\ last_known # {}
                -> Elect(row, Min(last_known), {Min(last_known)}, unclean_shutdown)
          [] clean = {} /\ eligible = {} /\ last_known = {}
                -> IF row.leader # gone /\ row.leader \in target_isr /\ target_isr # row.isr
                   THEN ShrinkIsr(row, target_isr, unclean_shutdown)
                   ELSE Leaderless(row, gone, unclean_shutdown)

\* A broker that left while it was in the ISR joins the target ELR.
failover_one(row, dead, alive) ==
    IF row.leader # dead /\ dead \notin row.isr THEN row
    ELSE decide(row, dead, alive \ {dead}, dead \in row.isr, {})

\* The last leader is read as out of the ISR, and may lead again if it is alive.
elect_leaderless_one(row, alive) ==
    IF ~is_leaderless(row) THEN row
    ELSE decide(row, row.leader, alive, FALSE, {})

\* A broker that registers again after a stop it cannot show was clean.
unclean_restart_one(row, returning, alive) ==
    LET withdrawn == [row EXCEPT !.elr = @ \ {returning}]
    IN  IF row.leader = returning
        THEN decide(withdrawn, returning, alive \ {returning}, FALSE, {returning})
        ELSE IF returning \in row.isr
             THEN ShrinkIsr(withdrawn, row.isr \ {returning}, {returning})
             ELSE withdrawn

\* What an ISR proposal must match: the leader, both epochs and live members.
isr_admission(m) ==
    /\ m.epoch = partition.leader_epoch
    /\ m.from = partition.leader
    /\ m.partition_epoch = partition.partition_epoch
    /\ m.from \in m.isr
    /\ m.isr \subseteq active

-----------------------------------------------------------------------------
\* What broker b reads in the image: the row, and, to lead it, who is unfenced.
Row(b) == [leader |-> partition.leader, leader_epoch |-> partition.leader_epoch,
           isr |-> partition.isr, partition_epoch |-> partition.partition_epoch,
           unfenced |-> IF partition.leader = b THEN active ELSE {}]

\* The broker whose id comes first leads a new partition; every replica is in sync.
NewPartition ==
    [leader |-> Min(Brokers), leader_epoch |-> 1, isr |-> Brokers,
     partition_epoch |-> 0, elr |-> {}, last_known |-> {}]

Init ==
    /\ partition = NewPartition
    /\ active = Brokers
    /\ up = Brokers
    /\ replica = [b \in Brokers |-> new_replica(<<>>)]
    /\ net = {}
    /\ acked = {}

\* Reconcile: the role of the row committed last, then the ISR of a leader.
InstallRole(b) ==
    /\ b \in up /\ ~replica[b].installing
    /\ replica[b].image # Row(b)
    /\ replica' = [replica EXCEPT ![b] = install_role(@, b, Row(b))]
    /\ UNCHANGED <<partition, active, up, net, acked>>

InstallIsr(b) ==
    /\ b \in up /\ replica[b].installing
    /\ replica' = [replica EXCEPT ![b] = install_isr(@, b)]
    /\ UNCHANGED <<partition, active, up, net, acked>>

\* The produce gate and the append; all is acks=all, otherwise acks=1.
Produce(b, all) ==
    /\ b \in up
    /\ replica_state_matches_image(replica[b], b)
    /\ all => Cardinality(replica[b].image.isr) >= MinIsr
    /\ replica' = [replica EXCEPT ![b] = append(@, all)]
    /\ UNCHANGED <<partition, active, up, net, acked>>

\* Mutant: the row is answered without the size of the ISR.
FinishAck_unchecked(b, offset) ==
    /\ b \in up
    /\ offset \in replica[b].waiting /\ replica[b].hw >= offset
    /\ ReadsSettle =>
        \A m \in net : m.kind = "read" /\ m.to = b => m.leader_log_end >= offset
    /\ replica' = [replica EXCEPT ![b].waiting = @ \ {offset}]
    /\ acked' = acked \cup {[offset |-> offset, epoch |-> replica[b].image.leader_epoch]}
    /\ UNCHANGED <<partition, active, up, net>>

\* A wait ends at the watermark: acknowledged if the ISR still has the minimum.
FinishAck(b, offset) ==
    /\ b \in up
    /\ offset \in replica[b].waiting /\ replica[b].hw >= offset
    /\ ReadsSettle =>
        \A m \in net : m.kind = "read" /\ m.to = b => m.leader_log_end >= offset
    /\ replica' = [replica EXCEPT ![b].waiting = @ \ {offset}]
    /\ acked' = IF Cardinality(replica[b].isr) >= MinIsr
                THEN acked \cup {[offset |-> offset, epoch |-> replica[b].image.leader_epoch]}
                ELSE acked
    /\ UNCHANGED <<partition, active, up, net>>

-----------------------------------------------------------------------------
(***************************************************************************)
(* Replication.  A follower has one fetch outstanding under a leader epoch.*)
(***************************************************************************)
Fetch(b) ==
    /\ b \in up
    /\ replica[b].image.leader \in Brokers \ {b}
    /\ \A m \in net : m.kind = "alter" \/ m.from # b \/ m.epoch # replica[b].image.leader_epoch
    /\ net' = net \cup {[kind |-> "fetch", from |-> b, to |-> replica[b].image.leader,
                         epoch |-> replica[b].image.leader_epoch,
                         offset |-> Len(replica[b].log), last |-> last_epoch(replica[b].log)]}
    /\ UNCHANGED <<partition, active, replica, up, acked>>

\* The leader refuses a fetch of another epoch and one it does not lead.
RefuseFetch(m) ==
    /\ m.kind = "fetch"
    /\ LET r == replica[m.to]
       IN  m.to \notin up \/ ~leads(r, m.to) \/ m.epoch # r.image.leader_epoch
    /\ net' = net \ {m}
    /\ UNCHANGED <<partition, active, replica, up, acked>>

Accepts(m) ==
    /\ m.to \in up /\ leads(replica[m.to], m.to)
    /\ m.epoch = replica[m.to].image.leader_epoch

AnswerDiverging(m) ==
    /\ m.kind = "fetch" /\ Accepts(m)
    /\ DivergesFrom(replica[m.to].log, m.last, m.offset)
    /\ net' = (net \ {m}) \cup
            {[kind |-> "diverging", from |-> m.from, to |-> m.to, epoch |-> m.epoch,
              end |-> end_offset_for_epoch(replica[m.to].log, m.last)]}
    /\ UNCHANGED <<partition, active, replica, up, acked>>

\* The position counts only while the role the fetch was planned under stands.
Recorded(m, leader_log_end, recent) ==
    IF Accepts(m)
    THEN record_follower_position(replica[m.to], m.from, m.offset, leader_log_end, recent)
    ELSE replica[m.to]

\* The log end is sampled before the read.
StartRead(m) ==
    /\ m.kind = "fetch" /\ Accepts(m)
    /\ ~DivergesFrom(replica[m.to].log, m.last, m.offset)
    /\ net' = (net \ {m}) \cup
            {[kind |-> "read", from |-> m.from, to |-> m.to, epoch |-> m.epoch,
              offset |-> m.offset, leader_log_end |-> Len(replica[m.to].log)]}
    /\ UNCHANGED <<partition, active, replica, up, acked>>

\* The read, answered with the watermark from before the position counted.
FinishRead(m, recent) ==
    /\ m.kind = "read" /\ m.to \in up
    /\ replica' = [replica EXCEPT ![m.to] = Recorded(m, m.leader_log_end, recent)]
    /\ net' = (net \ {m}) \cup
            {[kind |-> "records", from |-> m.from, to |-> m.to, epoch |-> m.epoch,
              offset |-> m.offset,
              records |-> SubSeq(replica[m.to].log, m.offset + 1, Len(replica[m.to].log)),
              hw |-> replica[m.to].hw]}
    /\ UNCHANGED <<partition, active, up, acked>>

SameTarget(m) ==
    /\ replica[m.from].image.leader = m.to
    /\ replica[m.from].image.leader_epoch = m.epoch

\* handle_partition_response: an answer of another target is dropped.
ApplyAnswer(m) ==
    /\ m.kind \in {"records", "diverging"} /\ m.from \in up
    /\ ReadsSettle => \A r \in net : r.kind = "read" => r.to # m.from
    /\ replica' = [replica EXCEPT ![m.from] =
            IF ~SameTarget(m) THEN @
            ELSE IF m.kind = "diverging"
                 THEN truncate_to(@, diverging_truncation_offset(@.log, m.end))
                 ELSE IF m.offset = Len(@.log) THEN append_records(@, m.records, m.hw) ELSE @]
    /\ net' = net \ {m}
    /\ UNCHANGED <<partition, active, up, acked>>

Lose(m) ==
    /\ net' = net \ {m}
    /\ UNCHANGED <<partition, active, replica, up, acked>>

-----------------------------------------------------------------------------
(***************************************************************************)
(* ISR maintenance.  The scan awaits the answer to its proposal, so it has *)
(* one in flight.                                                          *)
(***************************************************************************)
\* A replica that leader b proposed, or that a row b did not install yet may add.
Joining(b, f) ==
    /\ f \notin replica[b].isr
    /\ \/ \E m \in net : m.kind = "alter" /\ m.from = b /\ f \in m.isr
       \/ replica[b].installing \/ replica[b].image # Row(b)

\* The time since a follower caught up passes replica.lag.time.max.ms.
Lapse(b, f) ==
    /\ b \in up /\ replica[b].followers[f].caught_up
    /\ ExpansionsSettle => ~Joining(b, f)
    /\ replica' = [replica EXCEPT ![b].followers[f].caught_up = FALSE]
    /\ UNCHANGED <<partition, active, up, net, acked>>

\* compute_proposal under the policy of the image it reads.
Scan(b) ==
    LET r   == set_policy(replica[b])
        isr == proposed_isr(r, b)
    IN  /\ b \in up
        /\ replica_state_matches_image(replica[b], b)
        /\ \A m \in net : m.kind = "alter" => m.from # b
        /\ ExpansionsSettle =>
            /\ \A f \in isr \ r.isr : r.followers[f].caught_up /\ ~is_leaderless(partition)
            /\ \A f \in replica[b].eligible \ r.eligible : ~Joining(b, f)
        /\ IF isr # r.isr
           THEN /\ net' = net \cup {[kind |-> "alter", from |-> b, epoch |-> r.image.leader_epoch,
                                     partition_epoch |-> r.image.partition_epoch, isr |-> isr]}
                /\ replica' = [replica EXCEPT ![b] = r]
           ELSE /\ replica' = [replica EXCEPT ![b] = recompute_hw(r, Len(r.log))]
                /\ UNCHANGED net
        /\ replica' # replica \/ net' # net
        /\ UNCHANGED <<partition, active, up, acked>>

\* The controller commits an admitted proposal and refuses any other.
AlterPartition(m) ==
    /\ m.kind = "alter"
    /\ partition' = IF isr_admission(m) THEN ShrinkIsr(partition, m.isr, {}) ELSE partition
    /\ net' = net \ {m}
    /\ UNCHANGED <<active, replica, up, acked>>

-----------------------------------------------------------------------------
\* A session expires, for a broker that stopped or is only slow.
Fence(b) ==
    /\ b \in active
    /\ active' = active \ {b}
    /\ partition' = failover_one(partition, b, active)
    /\ UNCHANGED <<replica, up, net, acked>>

\* A heartbeat of a fenced broker; a partition with no leader elects again.
Unfence(b) ==
    /\ b \in up \ active
    /\ active' = active \cup {b}
    /\ partition' = elect_leaderless_one(partition, active')
    /\ UNCHANGED <<replica, up, net, acked>>

Crash(b) ==
    /\ b \in up
    /\ up' = up \ {b}
    /\ replica' = [replica EXCEPT ![b] = new_replica(@.log)]
    /\ net' = {m \in net : m.from # b /\ ~(m.kind = "read" /\ m.to = b)}
    /\ UNCHANGED <<partition, active, acked>>

\* A registration under a new incarnation, accepted once the old one is dead.
Restart(b) ==
    /\ b \notin up \cup active
    /\ up' = up \cup {b}
    /\ partition' = unclean_restart_one(partition, b, active)
    /\ UNCHANGED <<active, replica, net, acked>>

Next ==
    \/ \E b \in Brokers :
        \/ InstallRole(b) \/ InstallIsr(b)
        \/ \E all \in BOOLEAN : Produce(b, all)
        \/ \E offset \in replica[b].waiting : FinishAck(b, offset)
        \/ Fetch(b) \/ Scan(b)
        \/ \E f \in Brokers : Lapse(b, f)
        \/ Fence(b) \/ Unfence(b) \/ Crash(b) \/ Restart(b)
    \/ \E m \in net :
        \/ RefuseFetch(m) \/ AnswerDiverging(m)
        \/ StartRead(m) \/ \E recent \in BOOLEAN : FinishRead(m, recent)
        \/ ApplyAnswer(m) \/ AlterPartition(m) \/ Lose(m)

Spec == Init /\ [][Next]_vars

(***************************************************************************)
(* What the running tasks do again and again: the reconcile loop installs, *)
(* the replicator fetches and applies, the fetch handler answers, the ISR  *)
(* ticker scans, the controller answers, the session of a stopped broker   *)
(* expires, and a broker is started again and heartbeats.  Nothing is      *)
(* assumed of produces, lags, losses, crashes and live brokers' sessions.  *)
(***************************************************************************)
Fairness ==
    /\ \A b \in Brokers :
        /\ WF_vars(InstallRole(b)) /\ WF_vars(InstallIsr(b))
        /\ WF_vars(\E offset \in replica[b].waiting : FinishAck(b, offset))
        /\ WF_vars(Fetch(b)) /\ WF_vars(Scan(b))
        /\ WF_vars(b \notin up /\ Fence(b)) /\ WF_vars(Unfence(b)) /\ WF_vars(Restart(b))
        /\ WF_vars(\E m \in net : m.from = b /\ (RefuseFetch(m) \/ AnswerDiverging(m)))
        /\ WF_vars(\E m \in net : m.from = b
                        /\ (StartRead(m) \/ \E recent \in BOOLEAN : FinishRead(m, recent)))
        /\ WF_vars(\E m \in net : m.from = b /\ ApplyAnswer(m))
    /\ WF_vars(\E m \in net : AlterPartition(m))

-----------------------------------------------------------------------------
(***************************************************************************)
(* Correctness.                                                            *)
(***************************************************************************)
Records == [offset : Nat \ {0}, epoch : Nat \ {0}]

RowType == [leader : Brokers \cup {NoBroker}, leader_epoch : Nat, isr : SUBSET Brokers,
            partition_epoch : Nat, unfenced : SUBSET Brokers]

FollowerStats == [log_end : Nat \cup {-1}, seen : Nat \cup {-1}, caught_up : BOOLEAN,
                  refetched : BOOLEAN, tracked : BOOLEAN]

ReplicaType == [log : Seq(Nat), image : RowType, installing : BOOLEAN, isr : SUBSET Brokers,
                hw : Nat, followers : [Brokers -> FollowerStats],
                effective_min_isr : Nat, eligible : SUBSET Brokers, waiting : SUBSET Nat]

Message ==
    [kind : {"fetch"}, from : Brokers, to : Brokers, epoch : Nat, offset : Nat, last : Nat]
    \cup [kind : {"diverging"}, from : Brokers, to : Brokers, epoch : Nat, end : OffsetAndEpoch]
    \cup [kind : {"read"}, from : Brokers, to : Brokers, epoch : Nat, offset : Nat,
          leader_log_end : Nat]
    \cup [kind : {"records"}, from : Brokers, to : Brokers, epoch : Nat, offset : Nat,
          records : Seq(Nat), hw : Nat]
    \cup [kind : {"alter"}, from : Brokers, epoch : Nat, partition_epoch : Nat,
          isr : SUBSET Brokers]

\* The state has the shape the source's types give it, and a row always names
\* a leader in its own ISR (decide leaves the record of a dead leader alone so
\* that it never is "a leader outside its ISR").
TypeOK ==
    /\ partition \in [leader : Brokers, leader_epoch : Nat, isr : SUBSET Brokers,
                      partition_epoch : Nat, elr : SUBSET Brokers, last_known : SUBSET Brokers]
    /\ partition.leader \in partition.isr
    /\ active \subseteq Brokers /\ up \subseteq Brokers
    /\ replica \in [Brokers -> ReplicaType]
    /\ net \subseteq Message
    /\ acked \subseteq Records

\* Every record acknowledged with acks=all is in the log of every replica that
\* a clean election may choose: the members of the committed ISR and, below
\* min.insync.replicas, of the published ELR (failover_one, next_elr).
AckedIsEligible ==
    \A b \in partition.isr \cup partition.elr : \A a \in acked : Holds(replica[b].log, a)

\* Two logs that hold a record of one epoch at one offset agree below it
\* (DivergesFrom and diverging_truncation_offset keep a follower's log a
\* prefix of some leader's).
LogsMatch ==
    \A a, b \in Brokers : \A k \in 1 .. Min({Len(replica[a].log), Len(replica[b].log)}) :
        replica[a].log[k] = replica[b].log[k]
            => Prefix(replica[a].log, k) = Prefix(replica[b].log, k)

\* No truncation of a follower removes an acknowledged record, from whatever
\* leader and epoch the answer that caused it came (apply_diverging_epoch).
AckedIsNeverCut ==
    [][\A b \in Brokers : \A a \in acked :
            Holds(replica[b].log, a) => Holds(replica'[b].log, a)]_vars

\* When every broker stays alive, every replica is in the ISR again and again:
\* a follower that was fenced, lagged, restarted or diverged truncates, catches
\* up, is proposed and is admitted (run_isr_maintenance, handle_partition).
EveryReplicaRejoins ==
    <>[](active = Brokers /\ up = Brokers) => []<>(partition.isr = Brokers)

\* An acks=all append that waits is answered or its leader's term ends: no
\* advance of the watermark leaves a wait behind (await_hw_at_least).
EveryWaitEnds ==
    \A b \in Brokers : \A offset \in 1 .. 2 :
        offset \in replica[b].waiting ~> offset \notin replica[b].waiting

=============================================================================
