-------------------------- MODULE PartitionReplica --------------------------
(***************************************************************************)
(* What one broker does to its replica of a partition: the leader's view   *)
(* of its followers (ReplicaState), the high watermark it derives from it, *)
(* the ISR it proposes, and the log a follower cuts.  Each operator is one *)
(* method of the source and returns the replica as the method leaves it.   *)
(*                                                                         *)
(* A log is the sequence of the leader epochs of its records, as in        *)
(* MetadataLog.  Time is reduced to what the rules read of it: whether a   *)
(* follower was caught up within replica.lag.time.max.ms.  Registrations   *)
(* are reduced to the set of unfenced brokers; broker epochs, controlled   *)
(* shutdown and witnesses are left out.                                    *)
(***************************************************************************)
EXTENDS MetadataLog

CONSTANTS
    Brokers,    \* the assigned replicas; numbers, in assignment order
    MinIsr,     \* min.insync.replicas of the topic
    NoBroker    \* the leader of a replica that has seen no image

ASSUME BrokersAssumption == Brokers \subseteq Nat /\ Brokers # {} /\ IsFiniteSet(Brokers)
ASSUME MinIsrAssumption == MinIsr \in 1 .. Cardinality(Brokers)
ASSUME NoBrokerAssumption == NoBroker \notin Brokers

(***************************************************************************)
(* FollowerStats: the recorded log end (-1 before the first fetch), the    *)
(* highest leader log end seen at a fetch, whether the follower was caught *)
(* up within the lag bound, whether it fetched since it left the ISR, and  *)
(* whether the leader has an entry for it at all.                          *)
(***************************************************************************)
UNKNOWN == [log_end |-> -1, seen |-> -1, caught_up |-> FALSE, refetched |-> FALSE,
            tracked |-> FALSE]

in_sync_at == [UNKNOWN EXCEPT !.caught_up = TRUE, !.tracked = TRUE]

\* Mutant: the records a fetch is sent count as replicated.
record_fetch_at_end(stats, offset, leader_leo, recent) ==
    [log_end |-> leader_leo, seen |-> Max({stats.seen, leader_leo}), caught_up |-> TRUE,
     refetched |-> TRUE, tracked |-> TRUE]

(***************************************************************************)
(* A fetch at the leader's log end catches the follower up now; one at the *)
(* log end seen at its previous fetch catches it up as of that fetch,      *)
(* which recent says is within the lag bound.                              *)
(***************************************************************************)
record_fetch(stats, offset, leader_leo, recent) ==
    [log_end   |-> Min({offset, leader_leo}),
     seen      |-> Max({stats.seen, leader_leo}),
     caught_up |-> \/ stats.caught_up
                   \/ offset >= leader_leo
                   \/ offset >= stats.seen /\ stats.log_end # -1 /\ recent,
     refetched |-> TRUE,
     tracked   |-> TRUE]

(***************************************************************************)
(* A replica: the log; the metadata row its broker applied; the role it    *)
(* installed from it; ReplicaState (isr, followers, hw and the policy of   *)
(* the last ISR scan); and the acks=all appends that wait for the          *)
(* watermark.  A restart keeps the log only.                               *)
(***************************************************************************)
NoRow == [leader |-> NoBroker, leader_epoch |-> 0, isr |-> {}, partition_epoch |-> 0,
          unfenced |-> {}]

new_replica(log) ==
    [log |-> log, image |-> NoRow, installing |-> FALSE, isr |-> {}, hw |-> 0,
     followers |-> [f \in Brokers |-> UNKNOWN],
     effective_min_isr |-> 1, eligible |-> {}, waiting |-> {}]

\* The leader counts once whether or not an installed ISR names it.
isr_size(r) == Cardinality(r.isr \cup {r.image.leader})

is_caught_up(r, f, leader_leo) ==
    r.followers[f].log_end = leader_leo \/ r.followers[f].caught_up

\* An ISR member, or a caught-up replica that is about to join.
holds_watermark(r, f, leader_leo) ==
    f \in r.isr \/ (is_caught_up(r, f, leader_leo) /\ f \in r.eligible)

\* Mutant: the watermark is frozen at the minimum ISR too.
compute_hw_above_min(r, leader_leo) ==
    LET current == Min({r.hw, leader_leo})
        remotes == {f \in Brokers \ {r.image.leader} : holds_watermark(r, f, leader_leo)}
        lowest  == Min({leader_leo} \cup {r.followers[f].log_end : f \in remotes})
    IN  IF isr_size(r) <= r.effective_min_isr THEN current ELSE Max({current, lowest})

(***************************************************************************)
(* The high watermark with the leader's log ending at leader_leo: frozen   *)
(* while the ISR is below the minimum, otherwise the lowest log end among  *)
(* the leader and those that hold it back.  It never falls, but for the    *)
(* clamp to leader_leo.                                                    *)
(***************************************************************************)
compute_hw(r, leader_leo) ==
    LET current == Min({r.hw, leader_leo})
        remotes == {f \in Brokers \ {r.image.leader} : holds_watermark(r, f, leader_leo)}
        lowest  == Min({leader_leo} \cup {r.followers[f].log_end : f \in remotes})
    IN  IF isr_size(r) < r.effective_min_isr THEN current ELSE Max({current, lowest})

recompute_hw(r, leader_leo) == [r EXCEPT !.hw = compute_hw(r, leader_leo)]

-----------------------------------------------------------------------------
(***************************************************************************)
(* Installing metadata.  A changed leader or epoch ends the waits, forgets *)
(* the followers and keeps the ISR installed before; a leader then         *)
(* installs the row's ISR in a step of its own.                            *)
(***************************************************************************)
install_role(r, b, row) ==
    LET changed == row.leader # r.image.leader \/ row.leader_epoch # r.image.leader_epoch
    IN  [r EXCEPT !.image = row,
                  !.installing = (row.leader = b),
                  !.followers = IF changed THEN [f \in Brokers |-> UNKNOWN] ELSE @,
                  !.waiting = IF changed THEN {} ELSE @]

install_isr(r, b) ==
    LET isr == r.image.isr
    IN  recompute_hw(
            [r EXCEPT !.isr = isr,
                      !.installing = FALSE,
                      !.followers = [f \in Brokers |->
                            IF f = b THEN UNKNOWN
                            ELSE IF f \in isr
                                 THEN IF @[f].tracked THEN @[f] ELSE in_sync_at
                                 ELSE IF f \in r.isr THEN [@[f] EXCEPT !.refetched = FALSE]
                                      ELSE @[f]]],
            Len(r.log))

(***************************************************************************)
(* The leader's paths.                                                     *)
(***************************************************************************)
leads(r, b) == r.image.leader = b

\* The role and the ISR installed are the image's.
replica_state_matches_image(r, b) == leads(r, b) /\ r.isr = r.image.isr

append(r, all) ==
    LET log == Append(r.log, r.image.leader_epoch)
    IN  recompute_hw([r EXCEPT !.log = log,
                               !.waiting = IF all THEN @ \cup {Len(log)} ELSE @],
                     Len(log))

(***************************************************************************)
(* The follower's fetch at offset, with the leader's log end sampled       *)
(* before the read.  The watermark moves only if the recorded log end did, *)
(* where an entry starts at 0.                                             *)
(***************************************************************************)
record_follower_position(r, f, offset, leader_leo, recent) ==
    LET recorded == [r EXCEPT !.followers[f] = record_fetch(@, offset, leader_leo, recent)]
    IN  IF Max({0, r.followers[f].log_end}) = recorded.followers[f].log_end
        THEN recorded
        ELSE recompute_hw(recorded, leader_leo)

\* Where the leader's epoch began: assigned at its log end when it was installed.
leader_epoch_start(r) ==
    Cardinality({k \in 1 .. Len(r.log) : r.log[k] < r.image.leader_epoch})

\* Mutant: a follower must be past the high watermark.
is_follower_in_sync_past_hw(r, f) ==
    /\ r.followers[f].log_end > r.hw
    /\ r.followers[f].log_end >= leader_epoch_start(r)

\* Up to the high watermark and into the leader's epoch.
is_follower_in_sync(r, f) ==
    /\ r.followers[f].log_end >= r.hw
    /\ r.followers[f].log_end >= leader_epoch_start(r)

\* The ISR a scan would have: lagging members leave, replicas in sync join.
proposed_isr(r, b) ==
    {b} \cup {f \in r.isr \ {b} : is_caught_up(r, f, Len(r.log))}
        \cup {f \in Brokers \ (r.isr \cup {b}) :
                /\ r.followers[f].refetched
                /\ f \in r.eligible
                /\ is_follower_in_sync(r, f)}

\* The scan reads the minimum ISR and the unfenced brokers from the image.
set_policy(r) == [r EXCEPT !.effective_min_isr = MinIsr, !.eligible = r.image.unfenced]

-----------------------------------------------------------------------------
(***************************************************************************)
(* Divergence.  The leader answers a fetch that its log cannot continue    *)
(* with the largest epoch it holds at or below the fetcher's, and where    *)
(* that epoch ends; the follower intersects it with its own history.       *)
(***************************************************************************)
\* Mutant: only the offset is compared.
DivergesFrom_by_offset(log, last_fetched_epoch, fetch_offset) ==
    end_offset_for_epoch(log, last_fetched_epoch).offset < fetch_offset

DivergesFrom(log, last_fetched_epoch, fetch_offset) ==
    LET found == end_offset_for_epoch(log, last_fetched_epoch)
    IN  found.epoch < last_fetched_epoch \/ found.offset < fetch_offset

diverging_truncation_offset(log, diverging) ==
    LET local == end_offset_for_epoch(log, diverging.epoch)
        known == \E k \in 1 .. Len(log) : log[k] >= diverging.epoch
    IN  CASE ~known                                    -> Min({diverging.offset, Len(log)})
          [] known /\ local.epoch # diverging.epoch    -> Min({local.offset, Len(log)})
          [] known /\ local.epoch = diverging.epoch    ->
                Min({local.offset, diverging.offset, Len(log)})

\* A cut log, and the watermark the writer recomputes at its new end.
truncate_to(r, offset) ==
    recompute_hw([r EXCEPT !.log = Prefix(@, Min({offset, Len(@)}))],
                 Min({offset, Len(r.log)}))

set_follower_hw(r, reported) ==
    [r EXCEPT !.hw = Max({@, Min({reported, Len(r.log)})})]

append_records(r, records, reported) ==
    set_follower_hw([r EXCEPT !.log = @ \o records], reported)

=============================================================================
