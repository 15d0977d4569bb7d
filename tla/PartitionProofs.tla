--------------------------- MODULE PartitionProofs --------------------------
(***************************************************************************)
(* Type correctness of a replicated partition, and that its logs match     *)
(* when reads settle.  First what each method of a replica returns, then   *)
(* one case for every action.                                              *)
(***************************************************************************)
EXTENDS PartitionReplication, MetadataLogProofs, SequenceTheorems

(***************************************************************************)
(* Numbers.                                                                *)
(***************************************************************************)

\* The smaller of two.
LEMMA MinOfTwo ==
    ASSUME NEW a \in Int, NEW b \in Int
    PROVE  Min({a, b}) = IF a <= b THEN a ELSE b
<1> DEFINE m == IF a <= b THEN a ELSE b
<1>1. m \in {a, b} /\ \A y \in {a, b} : m <= y
    OBVIOUS
<1>2. \A x \in {a, b} : (\A y \in {a, b} : x <= y) => x = m
    OBVIOUS
<1> QED
    BY <1>1, <1>2 DEF Min

\* The larger of two.
LEMMA MaxOfTwo ==
    ASSUME NEW a \in Int, NEW b \in Int
    PROVE  Max({a, b}) = IF a >= b THEN a ELSE b
<1> DEFINE m == IF a >= b THEN a ELSE b
<1>1. m \in {a, b} /\ \A y \in {a, b} : m >= y
    OBVIOUS
<1>2. \A x \in {a, b} : (\A y \in {a, b} : x >= y) => x = m
    OBVIOUS
<1> QED
    BY <1>1, <1>2 DEF Max

\* The least of log ends, of which some may be unknown.
LEMMA MinOfEnds ==
    ASSUME NEW S \in SUBSET (Nat \cup {-1}), S # {}
    PROVE  Min(S) \in S
<1>1. CASE -1 \in S
    <2>1. \A y \in S : -1 <= y
        OBVIOUS
    <2> QED
        BY <1>1, <2>1 DEF Min
<1>2. CASE -1 \notin S
    <2>1. S \in SUBSET Nat
        BY <1>2
    <2> QED
        BY <2>1, MinIsLeast
<1> QED
    BY <1>1, <1>2

(***************************************************************************)
(* The methods of a replica.                                               *)
(***************************************************************************)

\* The watermark is a natural.
LEMMA ComputeHwType ==
    ASSUME NEW r \in ReplicaType, NEW leo \in Nat
    PROVE  compute_hw(r, leo) \in Nat
<1> DEFINE current == Min({r.hw, leo})
           remotes == {f \in Brokers \ {r.image.leader} : holds_watermark(r, f, leo)}
           ends    == {leo} \cup {r.followers[f].log_end : f \in remotes}
<1>1. r.hw \in Nat /\ r.followers \in [Brokers -> FollowerStats]
    BY DEF ReplicaType
<1>2. current \in Nat
    BY <1>1, MinOfTwo
<1>3. ends \in SUBSET (Nat \cup {-1}) /\ ends # {}
    BY <1>1 DEF FollowerStats
<1>4. Min(ends) \in Nat \cup {-1}
    BY <1>3, MinOfEnds
<1>5. Max({current, Min(ends)}) \in Nat
    <2> HIDE DEF current, ends
    <2> QED
        BY <1>2, <1>4, MaxOfTwo
<1> QED
    BY <1>2, <1>5 DEF compute_hw

\* The replica with another watermark.
LEMMA RecomputeType ==
    ASSUME NEW r \in ReplicaType, NEW leo \in Nat
    PROVE  /\ recompute_hw(r, leo) \in ReplicaType
           /\ recompute_hw(r, leo).log = r.log
           /\ recompute_hw(r, leo).image = r.image
           /\ recompute_hw(r, leo).waiting = r.waiting
BY ComputeHwType DEF recompute_hw, ReplicaType

\* A replica that remembers its log only.
LEMMA NewReplicaType ==
    ASSUME NEW log \in Seq(Nat)
    PROVE  /\ new_replica(log) \in ReplicaType
           /\ new_replica(log).log = log
           /\ new_replica(log).image = NoRow
           /\ new_replica(log).waiting = {}
BY DEF new_replica, ReplicaType, RowType, NoRow, UNKNOWN, FollowerStats

\* A role is installed from a row.
LEMMA InstallRoleType ==
    ASSUME NEW r \in ReplicaType, NEW b \in Brokers, NEW row \in RowType
    PROVE  /\ install_role(r, b, row) \in ReplicaType
           /\ install_role(r, b, row).log = r.log
           /\ install_role(r, b, row).image = row
           /\ install_role(r, b, row).waiting \in SUBSET r.waiting
BY DEF install_role, ReplicaType, UNKNOWN, FollowerStats

\* An ISR is installed.
LEMMA InstallIsrType ==
    ASSUME NEW r \in ReplicaType, NEW b \in Brokers
    PROVE  /\ install_isr(r, b) \in ReplicaType
           /\ install_isr(r, b).log = r.log
           /\ install_isr(r, b).image = r.image
           /\ install_isr(r, b).waiting = r.waiting
<1> DEFINE isr == r.image.isr
           followers == [f \in Brokers |->
                            IF f = b THEN UNKNOWN
                            ELSE IF f \in isr
                                 THEN IF r.followers[f].tracked THEN r.followers[f] ELSE in_sync_at
                                 ELSE IF f \in r.isr THEN [r.followers[f] EXCEPT !.refetched = FALSE]
                                      ELSE r.followers[f]]
           q == [r EXCEPT !.isr = isr, !.installing = FALSE, !.followers = followers]
<1>1. isr \in SUBSET Brokers /\ r.followers \in [Brokers -> FollowerStats] /\ Len(r.log) \in Nat
    BY DEF ReplicaType, RowType
<1>2. UNKNOWN \in FollowerStats /\ in_sync_at \in FollowerStats
    BY DEF UNKNOWN, in_sync_at, FollowerStats
<1>3. \A s \in FollowerStats : [s EXCEPT !.refetched = FALSE] \in FollowerStats
    BY DEF FollowerStats
<1>4. followers \in [Brokers -> FollowerStats]
    BY <1>1, <1>2, <1>3
<1>5. q \in ReplicaType /\ q.log = r.log /\ q.image = r.image /\ q.waiting = r.waiting
    <2> HIDE DEF followers, isr
    <2> QED
        BY <1>1, <1>4 DEF ReplicaType
<1>6. install_isr(r, b) = recompute_hw(q, Len(r.log))
    BY DEF install_isr
<1>7. PICK p \in ReplicaType : p = q
    BY <1>5
<1> HIDE DEF q
<1>8. /\ recompute_hw(p, Len(r.log)) \in ReplicaType
      /\ recompute_hw(p, Len(r.log)).log = p.log
      /\ recompute_hw(p, Len(r.log)).image = p.image
      /\ recompute_hw(p, Len(r.log)).waiting = p.waiting
    BY <1>1, RecomputeType
<1> QED
    BY <1>5, <1>6, <1>7, <1>8

\* A record of the leader's epoch is appended.
LEMMA AppendType ==
    ASSUME NEW r \in ReplicaType, NEW all \in BOOLEAN
    PROVE  /\ append(r, all) \in ReplicaType
           /\ append(r, all).log = Append(r.log, r.image.leader_epoch)
           /\ append(r, all).image = r.image
           /\ append(r, all).waiting \in SUBSET (r.waiting \cup {Len(r.log) + 1})
<1> DEFINE log == Append(r.log, r.image.leader_epoch)
<1>1. r.log \in Seq(Nat) /\ r.image.leader_epoch \in Nat
    BY DEF ReplicaType, RowType
<1>2. log \in Seq(Nat) /\ Len(log) = Len(r.log) + 1 /\ Len(log) \in Nat
    BY <1>1
<1> HIDE DEF log
<1>3. PICK q : q = [r EXCEPT !.log = log, !.waiting = IF all THEN @ \cup {Len(log)} ELSE @]
    OBVIOUS
<1>4. q \in ReplicaType /\ q.log = log /\ q.image = r.image
    BY <1>2, <1>3 DEF ReplicaType
<1>5. q.waiting \in SUBSET (r.waiting \cup {Len(r.log) + 1})
    BY <1>2, <1>3 DEF ReplicaType
<1>6. append(r, all) = recompute_hw(q, Len(log))
    BY <1>3 DEF append, log
<1>7. /\ recompute_hw(q, Len(log)) \in ReplicaType
      /\ recompute_hw(q, Len(log)).log = q.log
      /\ recompute_hw(q, Len(log)).image = q.image
      /\ recompute_hw(q, Len(log)).waiting = q.waiting
    BY <1>2, <1>4, RecomputeType
<1> QED
    BY <1>4, <1>5, <1>6, <1>7 DEF log

\* The position a fetch gives.
LEMMA RecordFetchType ==
    ASSUME NEW s \in FollowerStats, NEW offset \in Nat, NEW leo \in Nat, NEW recent \in BOOLEAN
    PROVE  record_fetch(s, offset, leo, recent) \in FollowerStats
<1>1. Min({offset, leo}) \in Nat
    BY MinOfTwo
<1>2. s.seen \in Int /\ (s.seen \in Nat \/ s.seen = -1)
    BY DEF FollowerStats
<1>3. Max({s.seen, leo}) \in Nat
    BY <1>2, MaxOfTwo
<1> QED
    BY <1>1, <1>3 DEF record_fetch, FollowerStats

\* A follower's position is recorded.
LEMMA RecordPositionType ==
    ASSUME NEW r \in ReplicaType, NEW f \in Brokers, NEW offset \in Nat, NEW leo \in Nat,
           NEW recent \in BOOLEAN
    PROVE  /\ record_follower_position(r, f, offset, leo, recent) \in ReplicaType
           /\ record_follower_position(r, f, offset, leo, recent).log = r.log
           /\ record_follower_position(r, f, offset, leo, recent).image = r.image
           /\ record_follower_position(r, f, offset, leo, recent).waiting = r.waiting
<1>1. PICK s \in FollowerStats : s = record_fetch(r.followers[f], offset, leo, recent)
    <2>1. r.followers[f] \in FollowerStats
        BY DEF ReplicaType
    <2> QED
        BY <2>1, RecordFetchType
<1>2. PICK q : q = [r EXCEPT !.followers[f] = s]
    OBVIOUS
<1>3. q \in ReplicaType /\ q.log = r.log /\ q.image = r.image /\ q.waiting = r.waiting
    BY <1>2 DEF ReplicaType
<1>4. q = [r EXCEPT !.followers[f] = record_fetch(@, offset, leo, recent)]
    BY <1>1, <1>2
<1>5. record_follower_position(r, f, offset, leo, recent) \in {q, recompute_hw(q, leo)}
    BY <1>4 DEF record_follower_position
<1>6. /\ recompute_hw(q, leo) \in ReplicaType
      /\ recompute_hw(q, leo).log = q.log
      /\ recompute_hw(q, leo).image = q.image
      /\ recompute_hw(q, leo).waiting = q.waiting
    BY <1>3, RecomputeType
<1> QED
    BY <1>3, <1>5, <1>6

\* The policy of a scan.
LEMMA SetPolicyType ==
    ASSUME NEW r \in ReplicaType
    PROVE  /\ set_policy(r) \in ReplicaType
           /\ set_policy(r).log = r.log
           /\ set_policy(r).image = r.image
           /\ set_policy(r).waiting = r.waiting
<1>1. MinIsr \in Nat
    BY MinIsrAssumption
<1> QED
    BY <1>1 DEF set_policy, ReplicaType, RowType

\* A log is cut, at an offset beyond its end too.
LEMMA TruncateType ==
    ASSUME NEW r \in ReplicaType, NEW offset \in Nat
    PROVE  /\ truncate_to(r, offset) \in ReplicaType
           /\ \E n \in 0 .. Len(r.log) : truncate_to(r, offset).log = Prefix(r.log, n)
           /\ truncate_to(r, offset).image = r.image
           /\ truncate_to(r, offset).waiting = r.waiting
<1>1. r.log \in Seq(Nat) /\ Len(r.log) \in Nat
    BY DEF ReplicaType
<1>2. PICK n \in 0 .. Len(r.log) : n = Min({offset, Len(r.log)})
    BY <1>1, MinOfTwo
<1>3. Prefix(r.log, n) \in Seq(Nat) /\ n \in Nat
    BY <1>1, PrefixType
<1>4. PICK q : q = [r EXCEPT !.log = Prefix(@, n)]
    OBVIOUS
<1>5. q \in ReplicaType /\ q.log = Prefix(r.log, n) /\ q.image = r.image /\ q.waiting = r.waiting
    BY <1>3, <1>4 DEF ReplicaType
<1>6. truncate_to(r, offset) = recompute_hw(q, n)
    BY <1>2, <1>4 DEF truncate_to
<1>7. /\ recompute_hw(q, n) \in ReplicaType
      /\ recompute_hw(q, n).log = q.log
      /\ recompute_hw(q, n).image = q.image
      /\ recompute_hw(q, n).waiting = q.waiting
    BY <1>3, <1>5, RecomputeType
<1> QED
    BY <1>5, <1>6, <1>7

\* A log and the records after it.
LEMMA ConcatType ==
    ASSUME NEW log \in Seq(Nat), NEW records \in Seq(Nat)
    PROVE  /\ log \o records \in Seq(Nat)
           /\ Len(log \o records) = Len(log) + Len(records)
           /\ \A k \in 1 .. Len(log) : (log \o records)[k] = log[k]
           /\ \A k \in 1 .. Len(records) : (log \o records)[Len(log) + k] = records[k]
<1>1. /\ log \o records \in Seq(Nat)
      /\ Len(log \o records) = Len(log) + Len(records)
      /\ \A i \in 1 .. Len(log) + Len(records) :
            (log \o records)[i] = IF i <= Len(log) THEN log[i] ELSE records[i - Len(log)]
    BY ConcatProperties
<1>2. PICK both : both = log \o records
    OBVIOUS
<1>3. PICK n \in Nat, k \in Nat : n = Len(log) /\ k = Len(records)
    OBVIOUS
<1>4. \A i \in 1 .. n + k : both[i] = IF i <= n THEN log[i] ELSE records[i - n]
    BY <1>1, <1>2, <1>3
<1>5. \A i \in 1 .. n : both[i] = log[i]
    BY <1>4
<1>6. \A i \in 1 .. k : both[n + i] = records[i]
    <2> TAKE i \in 1 .. k
    <2>1. n + i \in 1 .. n + k /\ ~ (n + i <= n) /\ (n + i) - n = i
        OBVIOUS
    <2> QED
        BY <1>4, <2>1
<1> QED
    BY <1>1, <1>2, <1>3, <1>5, <1>6

\* A leader's records are appended.
LEMMA AppendRecordsType ==
    ASSUME NEW r \in ReplicaType, NEW records \in Seq(Nat), NEW reported \in Nat
    PROVE  /\ append_records(r, records, reported) \in ReplicaType
           /\ append_records(r, records, reported).log = r.log \o records
           /\ append_records(r, records, reported).image = r.image
           /\ append_records(r, records, reported).waiting = r.waiting
<1>1. r.log \in Seq(Nat) /\ r.hw \in Nat
    BY DEF ReplicaType
<1>2. PICK log \in Seq(Nat) : log = r.log \o records
    BY <1>1, ConcatType
<1>3. PICK q : q = [r EXCEPT !.log = log]
    OBVIOUS
<1>4. q \in ReplicaType /\ q.log = log /\ q.image = r.image /\ q.waiting = r.waiting /\ q.hw = r.hw
    BY <1>3 DEF ReplicaType
<1>5. Max({q.hw, Min({reported, Len(q.log)})}) \in Nat
    <2>1. PICK end \in Nat : end = Len(q.log)
        BY <1>4
    <2>2. PICK low \in Nat : low = Min({reported, end})
        BY MinOfTwo
    <2>3. PICK hw \in Nat : hw = q.hw
        BY <1>1, <1>4
    <2>4. Max({hw, low}) \in Nat
        BY MaxOfTwo
    <2> QED
        BY <2>1, <2>2, <2>3, <2>4
<1>6. append_records(r, records, reported) = set_follower_hw(q, reported)
    BY <1>2, <1>3 DEF append_records
<1>7. /\ set_follower_hw(q, reported) \in ReplicaType
      /\ set_follower_hw(q, reported).log = q.log
      /\ set_follower_hw(q, reported).image = q.image
      /\ set_follower_hw(q, reported).waiting = q.waiting
    BY <1>4, <1>5 DEF set_follower_hw, ReplicaType
<1> QED
    BY <1>2, <1>4, <1>6, <1>7

\* Where a diverging log is cut is an offset.
LEMMA DivergingOffsetType ==
    ASSUME NEW log \in Seq(Nat), NEW hint \in OffsetAndEpoch
    PROVE  diverging_truncation_offset(log, hint) \in Nat
<1>1. hint.epoch \in Nat /\ hint.offset \in Nat /\ Len(log) \in Nat
    BY DEF OffsetAndEpoch
<1>2. PICK local \in OffsetAndEpoch : local = end_offset_for_epoch(log, hint.epoch)
    BY <1>1, EndOffsetForEpochInLog
<1>3. local.offset \in Nat /\ local.epoch \in Nat
    BY DEF OffsetAndEpoch
<1>4. Min({hint.offset, Len(log)}) \in Nat /\ Min({local.offset, Len(log)}) \in Nat
    BY SMTT(40), <1>1, <1>3, MinOfTwo
<1>5. Min({local.offset, hint.offset, Len(log)}) \in Nat
    <2>1. PICK S : S = {local.offset, hint.offset, Len(log)}
        OBVIOUS
    <2>2. S \in SUBSET Nat /\ S # {}
        BY <1>1, <1>3, <2>1
    <2> QED
        BY <2>1, <2>2, MinIsLeast
<1> QED
    BY <1>2, <1>4, <1>5 DEF diverging_truncation_offset

(***************************************************************************)
(* The controller's row.                                                   *)
(***************************************************************************)
CommittedRow ==
    [leader : Brokers, leader_epoch : Nat, isr : SUBSET Brokers,
     partition_epoch : Nat, elr : SUBSET Brokers, last_known : SUBSET Brokers]

\* A row that names a leader in its own ISR, in an epoch that was opened.
RowOK(row) == row \in CommittedRow /\ row.leader \in row.isr /\ row.leader_epoch >= 1

\* A change keeps the leader, or opens an epoch.
RowStep(row, next) ==
    \/ next.leader = row.leader /\ next.leader_epoch = row.leader_epoch
    \/ next.leader_epoch = row.leader_epoch + 1

\* What is published of eligible replicas are replicas.
LEMMA NextElrType ==
    ASSUME NEW row \in CommittedRow, NEW leader, NEW isr, NEW unclean, NEW leaderless \in BOOLEAN
    PROVE  /\ next_elr(row, leader, isr, unclean, leaderless).elr \in SUBSET Brokers
           /\ next_elr(row, leader, isr, unclean, leaderless).last_known \in SUBSET Brokers
BY DEF next_elr, CommittedRow, is_leaderless

\* An ISR change keeps the leader and its epoch.
LEMMA ShrinkIsrRow ==
    ASSUME NEW row, RowOK(row), NEW isr \in SUBSET Brokers, row.leader \in isr, NEW unclean
    PROVE  RowOK(ShrinkIsr(row, isr, unclean)) /\ RowStep(row, ShrinkIsr(row, isr, unclean))
<1> DEFINE read == IF is_leaderless(row) THEN isr \ {row.leader} ELSE isr
<1>1. row \in CommittedRow /\ is_leaderless(row) \in BOOLEAN
    BY DEF RowOK, is_leaderless
<1>2. PICK elr : elr = next_elr(row, row.leader, read, unclean, is_leaderless(row))
    OBVIOUS
<1>3. elr.elr \in SUBSET Brokers /\ elr.last_known \in SUBSET Brokers
    <2> HIDE DEF read
    <2> QED
        BY <1>1, <1>2, NextElrType
<1>4. ShrinkIsr(row, isr, unclean) = WithElr([row EXCEPT !.isr = isr, !.partition_epoch = @ + 1], elr)
    BY <1>2 DEF ShrinkIsr
<1>5. PICK shrunk : shrunk = [row EXCEPT !.isr = isr, !.partition_epoch = @ + 1]
    OBVIOUS
<1>6. PICK n \in Nat : n = row.partition_epoch + 1
    BY <1>1 DEF CommittedRow
<1>7. shrunk = [row EXCEPT !.isr = isr, !.partition_epoch = n]
    BY <1>5, <1>6
<1>8. /\ shrunk \in CommittedRow /\ shrunk.isr = isr
      /\ shrunk.leader = row.leader /\ shrunk.leader_epoch = row.leader_epoch
    BY <1>1, <1>7 DEF CommittedRow
<1>9. PICK next : next = WithElr(shrunk, elr)
    OBVIOUS
<1>10. /\ next \in CommittedRow /\ next.isr = isr
      /\ next.leader = row.leader /\ next.leader_epoch = row.leader_epoch
    BY <1>3, <1>8, <1>9 DEF WithElr, CommittedRow
<1>11. ShrinkIsr(row, isr, unclean) = next
    BY <1>4, <1>5, <1>9
<1> QED
    BY <1>10, <1>11 DEF RowOK, RowStep

\* An election opens an epoch.
LEMMA ElectRow ==
    ASSUME NEW row, RowOK(row), NEW isr \in SUBSET Brokers, NEW leader \in isr, NEW unclean
    PROVE  RowOK(Elect(row, leader, isr, unclean)) /\ RowStep(row, Elect(row, leader, isr, unclean))
<1>1. row \in CommittedRow
    BY DEF RowOK
<1>2. PICK elr : elr = next_elr(row, leader, isr, unclean, FALSE)
    OBVIOUS
<1>3. elr.elr \in SUBSET Brokers /\ elr.last_known \in SUBSET Brokers
    BY <1>1, <1>2, NextElrType
<1>4. Elect(row, leader, isr, unclean) =
        WithElr([row EXCEPT !.leader = leader, !.isr = isr,
                            !.leader_epoch = @ + 1, !.partition_epoch = @ + 1], elr)
    BY <1>2 DEF Elect
<1>5. PICK moved : moved = [row EXCEPT !.leader = leader, !.isr = isr,
                                       !.leader_epoch = @ + 1, !.partition_epoch = @ + 1]
    OBVIOUS
<1>6. PICK n \in Nat, e \in Nat : n = row.partition_epoch + 1 /\ e = row.leader_epoch + 1
    BY <1>1 DEF CommittedRow
<1>7. moved = [row EXCEPT !.leader = leader, !.isr = isr,
                           !.leader_epoch = e, !.partition_epoch = n]
    BY <1>5, <1>6
<1>8. /\ moved \in CommittedRow /\ moved.isr = isr
      /\ moved.leader = leader /\ moved.leader_epoch = row.leader_epoch + 1
    BY <1>1, <1>6, <1>7 DEF CommittedRow
<1>9. PICK next : next = WithElr(moved, elr)
    OBVIOUS
<1>10. /\ next \in CommittedRow /\ next.isr = isr
      /\ next.leader = leader /\ next.leader_epoch = row.leader_epoch + 1
    BY <1>3, <1>8, <1>9 DEF WithElr, CommittedRow
<1>11. Elect(row, leader, isr, unclean) = next
    BY <1>4, <1>5, <1>9
<1>12. row.leader_epoch \in Nat
    BY <1>1 DEF CommittedRow
<1> QED
    BY <1>10, <1>11, <1>12 DEF RowOK, RowStep

\* A partition with nothing to elect keeps its record.
LEMMA LeaderlessRow ==
    ASSUME NEW row, RowOK(row), NEW gone, NEW unclean
    PROVE  RowOK(Leaderless(row, gone, unclean)) /\ RowStep(row, Leaderless(row, gone, unclean))
<1>1. row \in CommittedRow
    BY DEF RowOK
<1>2. PICK elr : elr = next_elr(row, row.leader, row.isr \ {gone}, unclean, TRUE)
    OBVIOUS
<1>3. elr.elr \in SUBSET Brokers /\ elr.last_known \in SUBSET Brokers
    BY <1>1, <1>2, NextElrType
<1>4. Leaderless(row, gone, unclean) = WithElr(row, elr)
    BY <1>2 DEF Leaderless
<1> QED
    BY <1>1, <1>3, <1>4 DEF WithElr, RowOK, RowStep, CommittedRow

\* The first of some replicas is one of them.
LEMMA FirstBroker ==
    ASSUME NEW S \in SUBSET Brokers, S # {}
    PROVE  Min(S) \in S
<1>1. S \in SUBSET Nat
    BY BrokersAssumption
<1> QED
    BY <1>1, MinIsLeast

\* The election ladder.
LEMMA DecideRow ==
    ASSUME NEW row, RowOK(row), NEW gone, NEW alive, NEW joins \in BOOLEAN, NEW unclean
    PROVE  /\ RowOK(decide(row, gone, alive, joins, unclean))
           /\ RowStep(row, decide(row, gone, alive, joins, unclean))
<1>1. row \in CommittedRow /\ row.leader \in Brokers
    BY DEF RowOK, CommittedRow
<1>2. PICK target_isr \in SUBSET Brokers : target_isr = row.isr \ {gone}
    BY <1>1 DEF CommittedRow
<1>3. PICK clean \in SUBSET Brokers : clean = target_isr \cap alive
    OBVIOUS
<1>4. PICK eligible \in SUBSET Brokers : eligible = row.elr \cap alive
    BY <1>1 DEF CommittedRow
<1>5. PICK last_known \in SUBSET Brokers :
        last_known = IF row.elr = {} /\ ~joins THEN row.last_known \cap alive ELSE {}
    BY <1>1 DEF CommittedRow
<1>6. PICK next : next = decide(row, gone, alive, joins, unclean)
    OBVIOUS
<1>7. next = CASE row.leader \in clean /\ target_isr # row.isr
                        -> ShrinkIsr(row, target_isr, unclean)
               [] row.leader \in clean /\ target_isr = row.isr -> row
               [] row.leader \notin clean /\ clean # {}
                        -> Elect(row, Min(clean), target_isr, unclean)
               [] clean = {} /\ eligible # {}
                        -> Elect(row, Min(eligible), {Min(eligible)}, unclean)
               [] clean = {} /\ eligible = {} /\ last_known # {}
                        -> Elect(row, Min(last_known), {Min(last_known)}, unclean)
               [] clean = {} /\ eligible = {} /\ last_known = {}
                        -> IF row.leader # gone /\ row.leader \in target_isr /\ target_isr # row.isr
                           THEN ShrinkIsr(row, target_isr, unclean)
                           ELSE Leaderless(row, gone, unclean)
    BY <1>2, <1>3, <1>4, <1>5, <1>6 DEF decide
<1>8. RowOK(next) /\ RowStep(row, next)
    <2>1. CASE row.leader \in clean /\ target_isr # row.isr
        <3>1. next = ShrinkIsr(row, target_isr, unclean)
            BY <1>7, <2>1
        <3>2. row.leader \in target_isr
            BY <1>3, <2>1
        <3> QED
            BY <3>1, <3>2, ShrinkIsrRow
    <2>2. CASE row.leader \in clean /\ target_isr = row.isr
        <3>1. next = row
            BY <1>7, <2>2
        <3> QED
            BY <3>1 DEF RowStep
    <2>3. CASE row.leader \notin clean /\ clean # {}
        <3>1. next = Elect(row, Min(clean), target_isr, unclean)
            BY <1>7, <2>3
        <3>2. Min(clean) \in target_isr
            BY <1>3, <2>3, FirstBroker
        <3> QED
            BY <3>1, <3>2, ElectRow
    <2>4. CASE clean = {} /\ eligible # {}
        <3>1. next = Elect(row, Min(eligible), {Min(eligible)}, unclean)
            BY <1>7, <2>4
        <3>2. Min(eligible) \in Brokers
            BY <2>4, FirstBroker
        <3> QED
            BY <3>1, <3>2, ElectRow
    <2>5. CASE clean = {} /\ eligible = {} /\ last_known # {}
        <3>1. next = Elect(row, Min(last_known), {Min(last_known)}, unclean)
            BY <1>7, <2>5
        <3>2. Min(last_known) \in Brokers
            BY <2>5, FirstBroker
        <3> QED
            BY <3>1, <3>2, ElectRow
    <2>6. CASE clean = {} /\ eligible = {} /\ last_known = {}
        <3>1. \/ next = ShrinkIsr(row, target_isr, unclean) /\ row.leader \in target_isr
              \/ next = Leaderless(row, gone, unclean)
            BY <1>7, <2>6
        <3> QED
            BY <3>1, ShrinkIsrRow, LeaderlessRow
    <2> QED
        BY <2>1, <2>2, <2>3, <2>4, <2>5, <2>6
<1> QED
    BY <1>6, <1>8

\* A session that expires.
LEMMA FailoverRow ==
    ASSUME NEW row, RowOK(row), NEW dead, NEW alive
    PROVE  RowOK(failover_one(row, dead, alive)) /\ RowStep(row, failover_one(row, dead, alive))
<1>1. RowStep(row, row)
    BY DEF RowStep
<1>2. failover_one(row, dead, alive) \in
        {row, decide(row, dead, alive \ {dead}, dead \in row.isr, {})}
    BY DEF failover_one
<1>3. (dead \in row.isr) \in BOOLEAN
    OBVIOUS
<1>4. /\ RowOK(decide(row, dead, alive \ {dead}, dead \in row.isr, {}))
      /\ RowStep(row, decide(row, dead, alive \ {dead}, dead \in row.isr, {}))
    BY <1>3, DecideRow
<1> QED
    BY <1>1, <1>2, <1>4

\* A partition with no leader elects again.
LEMMA ElectLeaderlessRow ==
    ASSUME NEW row, RowOK(row), NEW alive
    PROVE  RowOK(elect_leaderless_one(row, alive)) /\ RowStep(row, elect_leaderless_one(row, alive))
<1>1. RowStep(row, row)
    BY DEF RowStep
<1> QED
    BY <1>1, DecideRow DEF elect_leaderless_one

\* A broker registers again.
LEMMA UncleanRestartRow ==
    ASSUME NEW row, RowOK(row), NEW returning, NEW alive
    PROVE  /\ RowOK(unclean_restart_one(row, returning, alive))
           /\ RowStep(row, unclean_restart_one(row, returning, alive))
<1>1. PICK withdrawn : withdrawn = [row EXCEPT !.elr = @ \ {returning}]
    OBVIOUS
<1>2. /\ RowOK(withdrawn) /\ RowStep(row, withdrawn)
      /\ withdrawn.leader = row.leader /\ withdrawn.leader_epoch = row.leader_epoch
    BY <1>1 DEF RowOK, RowStep, CommittedRow
<1>3. \A next : RowStep(withdrawn, next) => RowStep(row, next)
    BY <1>2 DEF RowStep
<1>4. CASE row.leader = returning
    <2>1. unclean_restart_one(row, returning, alive) =
            decide(withdrawn, returning, alive \ {returning}, FALSE, {returning})
        BY <1>1, <1>4 DEF unclean_restart_one
    <2> QED
        BY <1>2, <1>3, <2>1, DecideRow
<1>5. CASE row.leader # returning /\ returning \in row.isr
    <2>1. unclean_restart_one(row, returning, alive) =
            ShrinkIsr(withdrawn, row.isr \ {returning}, {returning})
        BY <1>1, <1>5 DEF unclean_restart_one
    <2>2. row.isr \ {returning} \in SUBSET Brokers /\ withdrawn.leader \in row.isr \ {returning}
        BY <1>2, <1>5 DEF RowOK, CommittedRow
    <2> QED
        BY <1>2, <1>3, <2>1, <2>2, ShrinkIsrRow
<1>6. CASE row.leader # returning /\ returning \notin row.isr
    BY <1>1, <1>2, <1>6 DEF unclean_restart_one
<1> QED
    BY <1>4, <1>5, <1>6

(***************************************************************************)
(* Types.                                                                  *)
(***************************************************************************)

\* Nothing waits at a broker that has seen no row, and rows have an epoch.
ReplicaOK(r) ==
    /\ r \in ReplicaType
    /\ r.image.leader = NoBroker \/ r.image.leader_epoch >= 1
    /\ r.waiting # {} => r.image.leader # NoBroker
    /\ 0 \notin r.waiting

TypeInv ==
    /\ RowOK(partition)
    /\ active \subseteq Brokers /\ up \subseteq Brokers
    /\ replica \in [Brokers -> ReplicaType]
    /\ \A b \in Brokers : ReplicaOK(replica[b])
    /\ net \subseteq Message
    /\ acked \subseteq Records

LEMMA TypeInvTypes ==
    ASSUME TypeInv
    PROVE  TypeOK
BY DEF TypeInv, TypeOK, RowOK, CommittedRow

\* What a message carries.
LEMMA MessageFields ==
    ASSUME NEW m \in Message
    PROVE  /\ m.from \in Brokers /\ m.epoch \in Nat
           /\ m.kind # "alter" => m.to \in Brokers
           /\ m.kind = "fetch" => m.offset \in Nat /\ m.last \in Nat
           /\ m.kind = "diverging" => m.end \in OffsetAndEpoch
           /\ m.kind = "read" => m.offset \in Nat /\ m.leader_log_end \in Nat
           /\ m.kind = "records" => m.offset \in Nat /\ m.records \in Seq(Nat) /\ m.hw \in Nat
           /\ m.kind = "alter" => m.isr \in SUBSET Brokers
BY DEF Message

\* One replica changes.
LEMMA OneReplica ==
    ASSUME TypeInv, NEW b \in Brokers, NEW r, ReplicaOK(r),
           replica' = [replica EXCEPT ![b] = r]
    PROVE  /\ replica' \in [Brokers -> ReplicaType]
           /\ \A v \in Brokers : ReplicaOK(replica'[v])
           /\ replica'[b] = r
           /\ \A v \in Brokers \ {b} : replica'[v] = replica[v]
<1>1. replica \in [Brokers -> ReplicaType] /\ r \in ReplicaType
    BY DEF TypeInv, ReplicaOK
<1>2. replica'[b] = r /\ \A v \in Brokers \ {b} : replica'[v] = replica[v]
    BY <1>1
<1>3. replica' \in [Brokers -> ReplicaType]
    BY <1>1
<1>4. \A v \in Brokers : ReplicaOK(replica'[v])
    <2> TAKE v \in Brokers
    <2>1. CASE v = b
        BY <1>2, <2>1
    <2>2. CASE v # b
        BY <1>2, <2>2 DEF TypeInv
    <2> QED
        BY <2>1, <2>2
<1> QED
    BY <1>2, <1>3, <1>4

\* What a broker reads of the committed row.
LEMMA RowOfType ==
    ASSUME TypeInv, NEW b \in Brokers
    PROVE  /\ Row(b) \in RowType
           /\ Row(b).leader = partition.leader /\ Row(b).leader_epoch = partition.leader_epoch
           /\ partition.leader \in Brokers /\ partition.leader_epoch \in Nat
           /\ partition.leader_epoch >= 1
<1>1. partition \in CommittedRow /\ partition.leader_epoch >= 1 /\ active \in SUBSET Brokers
    BY DEF TypeInv, RowOK
<1> QED
    BY <1>1 DEF Row, RowType, CommittedRow

\* A replica that keeps its image and its waits.
LEMMA KeepsWaits ==
    ASSUME NEW r, ReplicaOK(r), NEW q \in ReplicaType, q.image = r.image, q.waiting = r.waiting
    PROVE  ReplicaOK(q)
BY DEF ReplicaOK

LEMMA InstallRoleTypes ==
    ASSUME TypeInv, NEW b \in Brokers, InstallRole(b)
    PROVE  TypeInv'
<1>1. PICK r \in ReplicaType : r = replica[b] /\ ReplicaOK(r)
    BY DEF TypeInv
<1>2. PICK row \in RowType : /\ row = Row(b) /\ row.leader \in Brokers
                             /\ row.leader_epoch >= 1 /\ row.leader_epoch \in Nat
    BY RowOfType
<1>3. PICK q : q = install_role(r, b, row)
    OBVIOUS
<1>4. q \in ReplicaType /\ q.image = row /\ q.waiting \in SUBSET r.waiting
    BY <1>3, InstallRoleType
<1>5. ReplicaOK(q)
    BY <1>1, <1>2, <1>4, NoBrokerAssumption DEF ReplicaOK
<1>6. replica' = [replica EXCEPT ![b] = q]
    BY <1>1, <1>2, <1>3 DEF InstallRole
<1>7. replica' \in [Brokers -> ReplicaType] /\ \A v \in Brokers : ReplicaOK(replica'[v])
    BY <1>5, <1>6, OneReplica
<1> QED
    BY <1>7 DEF TypeInv, InstallRole

LEMMA InstallIsrTypes ==
    ASSUME TypeInv, NEW b \in Brokers, InstallIsr(b)
    PROVE  TypeInv'
<1>1. PICK r \in ReplicaType : r = replica[b] /\ ReplicaOK(r)
    BY DEF TypeInv
<1>2. PICK q : q = install_isr(r, b)
    OBVIOUS
<1>3. q \in ReplicaType /\ q.image = r.image /\ q.waiting = r.waiting
    BY <1>2, InstallIsrType
<1>4. ReplicaOK(q)
    BY <1>1, <1>3, KeepsWaits
<1>5. replica' = [replica EXCEPT ![b] = q]
    BY <1>1, <1>2 DEF InstallIsr
<1>6. replica' \in [Brokers -> ReplicaType] /\ \A v \in Brokers : ReplicaOK(replica'[v])
    BY <1>4, <1>5, OneReplica
<1> QED
    BY <1>6 DEF TypeInv, InstallIsr

LEMMA ProduceTypes ==
    ASSUME TypeInv, NEW b \in Brokers, NEW all \in BOOLEAN, Produce(b, all)
    PROVE  TypeInv'
<1>1. PICK r \in ReplicaType : r = replica[b] /\ ReplicaOK(r)
    BY DEF TypeInv
<1>2. PICK q : q = append(r, all)
    OBVIOUS
<1>3. /\ q \in ReplicaType /\ q.image = r.image
      /\ q.waiting \in SUBSET (r.waiting \cup {Len(r.log) + 1})
    BY <1>2, AppendType
<1>4. r.image.leader = b /\ Len(r.log) \in Nat
    BY <1>1 DEF Produce, replica_state_matches_image, leads, ReplicaType
<1>5. ReplicaOK(q)
    BY <1>1, <1>3, <1>4, NoBrokerAssumption DEF ReplicaOK
<1>6. replica' = [replica EXCEPT ![b] = q]
    BY <1>1, <1>2 DEF Produce
<1>7. replica' \in [Brokers -> ReplicaType] /\ \A v \in Brokers : ReplicaOK(replica'[v])
    BY <1>5, <1>6, OneReplica
<1> QED
    BY <1>7 DEF TypeInv, Produce

LEMMA FinishAckTypes ==
    ASSUME TypeInv, NEW b \in Brokers, NEW offset \in replica[b].waiting, FinishAck(b, offset)
    PROVE  TypeInv'
<1>1. PICK r \in ReplicaType : r = replica[b] /\ ReplicaOK(r)
    BY DEF TypeInv
<1>2. PICK q : q = [r EXCEPT !.waiting = @ \ {offset}]
    OBVIOUS
<1>3. q \in ReplicaType /\ q.image = r.image /\ q.waiting = r.waiting \ {offset}
    BY <1>2 DEF ReplicaType
<1>4. ReplicaOK(q)
    BY <1>1, <1>3 DEF ReplicaOK
<1>5. replica' = [replica EXCEPT ![b] = q]
    BY <1>1, <1>2 DEF FinishAck
<1>6. replica' \in [Brokers -> ReplicaType] /\ \A v \in Brokers : ReplicaOK(replica'[v])
    BY <1>4, <1>5, OneReplica
<1>7. [offset |-> offset, epoch |-> r.image.leader_epoch] \in Records
    <2>1. offset \in Nat \ {0} /\ r.image.leader_epoch \in Nat /\ r.image.leader_epoch >= 1
        BY <1>1 DEF ReplicaOK, ReplicaType, RowType
    <2> QED
        BY <2>1 DEF Records
<1>8. acked' \subseteq Records
    BY <1>1, <1>7 DEF FinishAck, TypeInv
<1> QED
    BY <1>6, <1>8 DEF TypeInv, FinishAck

LEMMA FetchTypes ==
    ASSUME TypeInv, NEW b \in Brokers, Fetch(b)
    PROVE  TypeInv'
<1>1. PICK r \in ReplicaType : r = replica[b] /\ ReplicaOK(r)
    BY DEF TypeInv
<1>2. r.image.leader_epoch \in Nat /\ r.log \in Seq(Nat) /\ Len(r.log) \in Nat
    BY DEF ReplicaType, RowType
<1>3. last_epoch(r.log) \in Nat
    BY <1>2, LastEpochType
<1>4. r.image.leader \in Brokers
    BY <1>1 DEF Fetch
<1>5. [kind |-> "fetch", from |-> b, to |-> r.image.leader, epoch |-> r.image.leader_epoch,
       offset |-> Len(r.log), last |-> last_epoch(r.log)] \in Message
    BY <1>2, <1>3, <1>4 DEF Message
<1>6. net' \subseteq Message
    BY <1>1, <1>5 DEF Fetch, TypeInv
<1> QED
    BY <1>6 DEF TypeInv, Fetch

LEMMA LoseTypes ==
    ASSUME TypeInv, NEW m \in net, RefuseFetch(m) \/ Lose(m)
    PROVE  TypeInv'
<1>1. /\ net' = net \ {m}
      /\ partition' = partition /\ active' = active /\ replica' = replica
      /\ up' = up /\ acked' = acked
    BY DEF RefuseFetch, Lose
<1> QED
    BY <1>1 DEF TypeInv

LEMMA AnswerDivergingTypes ==
    ASSUME TypeInv, NEW m \in net, AnswerDiverging(m)
    PROVE  TypeInv'
<1>1. m \in Message /\ m.kind = "fetch"
    BY DEF TypeInv, AnswerDiverging
<1>2. m.from \in Brokers /\ m.to \in Brokers /\ m.epoch \in Nat /\ m.last \in Nat
    BY <1>1, MessageFields
<1>3. replica[m.to].log \in Seq(Nat)
    BY <1>2 DEF TypeInv, ReplicaType
<1>4. end_offset_for_epoch(replica[m.to].log, m.last) \in OffsetAndEpoch
    BY <1>2, <1>3, EndOffsetForEpochInLog
<1>5. [kind |-> "diverging", from |-> m.from, to |-> m.to, epoch |-> m.epoch,
       end |-> end_offset_for_epoch(replica[m.to].log, m.last)] \in Message
    BY <1>2, <1>4 DEF Message
<1>6. net' \subseteq Message
    BY <1>5 DEF AnswerDiverging, TypeInv
<1> QED
    BY <1>6 DEF TypeInv, AnswerDiverging

LEMMA StartReadTypes ==
    ASSUME TypeInv, NEW m \in net, StartRead(m)
    PROVE  TypeInv'
<1>1. m \in Message /\ m.kind = "fetch"
    BY DEF TypeInv, StartRead
<1>2. m.from \in Brokers /\ m.to \in Brokers /\ m.epoch \in Nat /\ m.offset \in Nat
    BY <1>1, MessageFields
<1>3. Len(replica[m.to].log) \in Nat
    BY <1>2 DEF TypeInv, ReplicaType
<1>4. [kind |-> "read", from |-> m.from, to |-> m.to, epoch |-> m.epoch,
       offset |-> m.offset, leader_log_end |-> Len(replica[m.to].log)] \in Message
    BY <1>2, <1>3 DEF Message
<1>5. net' \subseteq Message
    BY <1>4 DEF StartRead, TypeInv
<1> QED
    BY <1>5 DEF TypeInv, StartRead

\* The records from an offset on.
LEMMA SuffixType ==
    ASSUME NEW log \in Seq(Nat), NEW offset \in Nat
    PROVE  /\ SubSeq(log, offset + 1, Len(log)) \in Seq(Nat)
           /\ offset <= Len(log) =>
                /\ Len(SubSeq(log, offset + 1, Len(log))) = Len(log) - offset
                /\ \A k \in 1 .. Len(log) - offset :
                        SubSeq(log, offset + 1, Len(log))[k] = log[offset + k]
OBVIOUS

\* Counting a position changes the leader's view of its followers only.
LEMMA RecordedType ==
    ASSUME TypeInv, NEW m \in net, m.kind = "read", NEW recent \in BOOLEAN
    PROVE  /\ ReplicaOK(Recorded(m, m.leader_log_end, recent))
           /\ Recorded(m, m.leader_log_end, recent).log = replica[m.to].log
           /\ Recorded(m, m.leader_log_end, recent).image = replica[m.to].image
<1>1. m \in Message
    BY DEF TypeInv
<1>2. m.from \in Brokers /\ m.to \in Brokers /\ m.offset \in Nat /\ m.leader_log_end \in Nat
    BY <1>1, MessageFields
<1>3. PICK r \in ReplicaType : r = replica[m.to] /\ ReplicaOK(r)
    BY <1>2 DEF TypeInv
<1>4. PICK q : q = record_follower_position(r, m.from, m.offset, m.leader_log_end, recent)
    OBVIOUS
<1>5. q \in ReplicaType /\ q.log = r.log /\ q.image = r.image /\ q.waiting = r.waiting
    BY <1>2, <1>4, RecordPositionType
<1>6. ReplicaOK(q)
    BY <1>3, <1>5, KeepsWaits
<1>7. Recorded(m, m.leader_log_end, recent) \in {q, r}
    BY <1>3, <1>4 DEF Recorded
<1> QED
    BY <1>3, <1>5, <1>6, <1>7

LEMMA FinishReadTypes ==
    ASSUME TypeInv, NEW m \in net, NEW recent \in BOOLEAN, FinishRead(m, recent)
    PROVE  TypeInv'
<1>1. m \in Message /\ m.kind = "read"
    BY DEF TypeInv, FinishRead
<1>2. m.from \in Brokers /\ m.to \in Brokers /\ m.epoch \in Nat /\ m.offset \in Nat
    BY <1>1, MessageFields
<1>3. PICK q : q = Recorded(m, m.leader_log_end, recent)
    OBVIOUS
<1>4. ReplicaOK(q)
    BY <1>1, <1>3, RecordedType
<1>5. replica' = [replica EXCEPT ![m.to] = q]
    BY <1>3 DEF FinishRead
<1>6. replica' \in [Brokers -> ReplicaType] /\ \A v \in Brokers : ReplicaOK(replica'[v])
    BY <1>2, <1>4, <1>5, OneReplica
<1>7. replica[m.to].log \in Seq(Nat) /\ replica[m.to].hw \in Nat
    BY <1>2 DEF TypeInv, ReplicaType
<1>8. SubSeq(replica[m.to].log, m.offset + 1, Len(replica[m.to].log)) \in Seq(Nat)
    BY <1>2, <1>7, SuffixType
<1>9. [kind |-> "records", from |-> m.from, to |-> m.to, epoch |-> m.epoch, offset |-> m.offset,
       records |-> SubSeq(replica[m.to].log, m.offset + 1, Len(replica[m.to].log)),
       hw |-> replica[m.to].hw] \in Message
    BY <1>2, <1>7, <1>8 DEF Message
<1>10. net' \subseteq Message
    BY <1>9 DEF FinishRead, TypeInv
<1> QED
    BY <1>6, <1>10 DEF TypeInv, FinishRead

\* What an answer makes of a replica that takes it.
Applied(m, r) ==
    IF m.kind = "diverging"
    THEN truncate_to(r, diverging_truncation_offset(r.log, m.end))
    ELSE IF m.offset = Len(r.log) THEN append_records(r, m.records, m.hw) ELSE r

LEMMA AppliedType ==
    ASSUME NEW m \in Message, m.kind \in {"records", "diverging"}, NEW r, ReplicaOK(r)
    PROVE  /\ ReplicaOK(Applied(m, r))
           /\ Applied(m, r).image = r.image
           /\ \/ \E n \in 0 .. Len(r.log) : Applied(m, r).log = Prefix(r.log, n)
              \/ /\ m.kind = "records" /\ m.offset = Len(r.log)
                 /\ Applied(m, r).log = r.log \o m.records
              \/ Applied(m, r).log = r.log
<1>1. r \in ReplicaType /\ r.log \in Seq(Nat)
    BY DEF ReplicaOK, ReplicaType
<1>2. CASE m.kind = "diverging"
    <2>1. m.end \in OffsetAndEpoch
        BY <1>2, MessageFields
    <2>2. PICK n \in Nat : n = diverging_truncation_offset(r.log, m.end)
        BY <1>1, <2>1, DivergingOffsetType
    <2>3. PICK q : q = truncate_to(r, n)
        OBVIOUS
    <2>4. /\ q \in ReplicaType /\ q.image = r.image /\ q.waiting = r.waiting
          /\ \E k \in 0 .. Len(r.log) : q.log = Prefix(r.log, k)
        BY <1>1, <2>3, TruncateType
    <2>5. ReplicaOK(q)
        BY <2>4, KeepsWaits
    <2>6. Applied(m, r) = q
        BY <1>2, <2>2, <2>3 DEF Applied
    <2> QED
        BY <2>4, <2>5, <2>6
<1>3. CASE m.kind = "records"
    <2>1. m.records \in Seq(Nat) /\ m.hw \in Nat
        BY <1>3, MessageFields
    <2>2. PICK q : q = append_records(r, m.records, m.hw)
        OBVIOUS
    <2>3. q \in ReplicaType /\ q.log = r.log \o m.records /\ q.image = r.image /\ q.waiting = r.waiting
        BY <1>1, <2>1, <2>2, AppendRecordsType
    <2>4. ReplicaOK(q)
        BY <2>3, KeepsWaits
    <2>5. Applied(m, r) = IF m.offset = Len(r.log) THEN q ELSE r
        BY <1>3, <2>2 DEF Applied
    <2> QED
        BY <1>3, <2>3, <2>4, <2>5
<1> QED
    BY <1>2, <1>3

\* The replica after an answer, taken or dropped.
LEMMA ApplyAnswerReplica ==
    ASSUME TypeInv, NEW m \in net, ApplyAnswer(m)
    PROVE  /\ m \in Message /\ m.kind \in {"records", "diverging"} /\ m.from \in Brokers
           /\ replica' = [replica EXCEPT ![m.from] =
                            IF SameTarget(m) THEN Applied(m, replica[m.from]) ELSE replica[m.from]]
<1>1. m \in Message /\ m.kind \in {"records", "diverging"}
    BY DEF TypeInv, ApplyAnswer
<1>2. m.from \in Brokers
    BY <1>1, MessageFields
<1> QED
    BY <1>1, <1>2 DEF ApplyAnswer, Applied

LEMMA ApplyAnswerTypes ==
    ASSUME TypeInv, NEW m \in net, ApplyAnswer(m)
    PROVE  TypeInv'
<1>1. m \in Message /\ m.kind \in {"records", "diverging"} /\ m.from \in Brokers
    BY ApplyAnswerReplica
<1>2. PICK r : r = replica[m.from] /\ ReplicaOK(r)
    BY <1>1 DEF TypeInv
<1>3. PICK q : q = IF SameTarget(m) THEN Applied(m, r) ELSE r
    OBVIOUS
<1>4. ReplicaOK(Applied(m, r))
    BY <1>1, <1>2, AppliedType
<1>5. ReplicaOK(q)
    BY <1>2, <1>3, <1>4
<1>6. replica' = [replica EXCEPT ![m.from] = q]
    BY <1>2, <1>3, ApplyAnswerReplica
<1>7. replica' \in [Brokers -> ReplicaType] /\ \A v \in Brokers : ReplicaOK(replica'[v])
    BY <1>1, <1>5, <1>6, OneReplica
<1> QED
    BY <1>7 DEF TypeInv, ApplyAnswer

LEMMA LapseTypes ==
    ASSUME TypeInv, NEW b \in Brokers, NEW f \in Brokers, Lapse(b, f)
    PROVE  /\ TypeInv'
           /\ \A v \in Brokers : replica'[v].log = replica[v].log /\ replica'[v].image = replica[v].image
<1>1. PICK r \in ReplicaType : r = replica[b] /\ ReplicaOK(r)
    BY DEF TypeInv
<1>2. PICK s \in FollowerStats : s = [r.followers[f] EXCEPT !.caught_up = FALSE]
    BY DEF ReplicaType, FollowerStats
<1>3. PICK q : q = [r EXCEPT !.followers[f] = s]
    OBVIOUS
<1>4. q \in ReplicaType /\ q.image = r.image /\ q.waiting = r.waiting /\ q.log = r.log
    BY <1>3 DEF ReplicaType
<1>5. ReplicaOK(q)
    BY <1>1, <1>4, KeepsWaits
<1>6. q = [r EXCEPT !.followers[f].caught_up = FALSE]
    BY <1>2, <1>3 DEF ReplicaType
<1>7. replica' = [replica EXCEPT ![b] = q]
    BY <1>1, <1>6 DEF Lapse
<1>8. /\ replica' \in [Brokers -> ReplicaType] /\ \A v \in Brokers : ReplicaOK(replica'[v])
      /\ replica'[b] = q /\ \A v \in Brokers \ {b} : replica'[v] = replica[v]
    BY <1>5, <1>7, OneReplica
<1>9. \A v \in Brokers : replica'[v].log = replica[v].log /\ replica'[v].image = replica[v].image
    BY <1>1, <1>4, <1>8
<1> QED
    BY <1>8, <1>9 DEF TypeInv, Lapse

\* A scan changes the policy and the watermark, and may send a proposal.
LEMMA ScanTypes ==
    ASSUME TypeInv, NEW b \in Brokers, Scan(b)
    PROVE  /\ TypeInv'
           /\ \A v \in Brokers : replica'[v].log = replica[v].log /\ replica'[v].image = replica[v].image
           /\ \A m \in net' : m \in net \/ m.kind = "alter"
<1>1. PICK r \in ReplicaType : r = replica[b] /\ ReplicaOK(r)
    BY DEF TypeInv
<1>2. PICK p : p = set_policy(r)
    OBVIOUS
<1>3. p \in ReplicaType /\ p.image = r.image /\ p.waiting = r.waiting /\ p.log = r.log
    BY <1>2, SetPolicyType
<1>4. Len(p.log) \in Nat
    BY <1>3 DEF ReplicaType
<1>5. PICK h : h = recompute_hw(p, Len(p.log))
    OBVIOUS
<1>6. h \in ReplicaType /\ h.image = p.image /\ h.waiting = p.waiting /\ h.log = p.log
    BY <1>3, <1>4, <1>5, RecomputeType
<1>7. ReplicaOK(p) /\ ReplicaOK(h)
    BY <1>1, <1>3, <1>6, KeepsWaits
<1>8. PICK m : m = [kind |-> "alter", from |-> b, epoch |-> p.image.leader_epoch,
                    partition_epoch |-> p.image.partition_epoch, isr |-> proposed_isr(p, b)]
    OBVIOUS
<1>9. m \in Message /\ m.kind = "alter"
    <2>1. proposed_isr(p, b) \in SUBSET Brokers
        BY <1>3 DEF proposed_isr, ReplicaType
    <2>2. p.image.leader_epoch \in Nat /\ p.image.partition_epoch \in Nat
        BY <1>3 DEF ReplicaType, RowType
    <2> QED
        BY <1>8, <2>1, <2>2 DEF Message
<1>10. \/ net' = net \cup {m} /\ replica' = [replica EXCEPT ![b] = p]
       \/ net' = net /\ replica' = [replica EXCEPT ![b] = h]
    BY <1>1, <1>2, <1>5, <1>8 DEF Scan
<1>11. /\ replica' \in [Brokers -> ReplicaType] /\ \A v \in Brokers : ReplicaOK(replica'[v])
       /\ replica'[b] \in {p, h} /\ \A v \in Brokers \ {b} : replica'[v] = replica[v]
    <2>1. CASE replica' = [replica EXCEPT ![b] = p]
        BY <1>7, <2>1, OneReplica
    <2>2. CASE replica' = [replica EXCEPT ![b] = h]
        BY <1>7, <2>2, OneReplica
    <2> QED
        BY <1>10, <2>1, <2>2
<1>12. \A v \in Brokers : replica'[v].log = replica[v].log /\ replica'[v].image = replica[v].image
    BY <1>1, <1>3, <1>6, <1>11
<1>13. net' \subseteq net \cup {m}
    BY <1>10
<1>14. partition' = partition /\ active' = active /\ up' = up /\ acked' = acked
    BY DEF Scan
<1> QED
    BY <1>9, <1>11, <1>12, <1>13, <1>14 DEF TypeInv

LEMMA AlterPartitionTypes ==
    ASSUME TypeInv, NEW m \in net, AlterPartition(m)
    PROVE  TypeInv' /\ RowStep(partition, partition')
<1>1. m \in Message /\ m.kind = "alter" /\ RowOK(partition)
    BY DEF TypeInv, AlterPartition
<1>2. m.isr \in SUBSET Brokers
    BY <1>1, MessageFields
<1>3. RowOK(partition') /\ RowStep(partition, partition')
    <2>1. CASE isr_admission(m)
        <3>1. partition' = ShrinkIsr(partition, m.isr, {}) /\ partition.leader \in m.isr
            BY <2>1 DEF AlterPartition, isr_admission
        <3> QED
            BY <1>1, <1>2, <3>1, ShrinkIsrRow
    <2>2. CASE ~isr_admission(m)
        BY <1>1, <2>2 DEF AlterPartition, RowStep
    <2> QED
        BY <2>1, <2>2
<1> QED
    BY <1>3 DEF TypeInv, AlterPartition

\* The controller changes the row when a broker goes, comes back or registers.
LEMMA MembershipTypes ==
    ASSUME TypeInv, NEW b \in Brokers, Fence(b) \/ Unfence(b) \/ Restart(b)
    PROVE  /\ TypeInv' /\ RowStep(partition, partition')
           /\ replica' = replica /\ net' = net
<1>1. RowOK(partition) /\ active \subseteq Brokers /\ up \subseteq Brokers
    BY DEF TypeInv
<1>2. \/ partition' = failover_one(partition, b, active)
      \/ partition' = elect_leaderless_one(partition, active')
      \/ partition' = unclean_restart_one(partition, b, active)
    BY DEF Fence, Unfence, Restart
<1>3. RowOK(partition') /\ RowStep(partition, partition')
    <2>1. PICK alive : alive = active'
        OBVIOUS
    <2> QED
        BY <1>1, <1>2, <2>1, FailoverRow, ElectLeaderlessRow, UncleanRestartRow
<1>4. /\ replica' = replica /\ net' = net /\ acked' = acked
      /\ active' \subseteq active \cup {b} /\ up' \subseteq up \cup {b}
    BY DEF Fence, Unfence, Restart
<1> QED
    BY <1>1, <1>3, <1>4 DEF TypeInv

LEMMA CrashTypes ==
    ASSUME TypeInv, NEW b \in Brokers, Crash(b)
    PROVE  TypeInv'
<1>1. PICK r \in ReplicaType : r = replica[b]
    BY DEF TypeInv
<1>2. r.log \in Seq(Nat)
    BY DEF ReplicaType
<1>3. PICK q : q = new_replica(r.log)
    OBVIOUS
<1>4. q \in ReplicaType /\ q.image = NoRow /\ q.waiting = {}
    BY <1>2, <1>3, NewReplicaType
<1>5. ReplicaOK(q)
    BY <1>4 DEF ReplicaOK, NoRow
<1>6. replica' = [replica EXCEPT ![b] = q]
    BY <1>1, <1>3 DEF Crash
<1>7. replica' \in [Brokers -> ReplicaType] /\ \A v \in Brokers : ReplicaOK(replica'[v])
    BY <1>5, <1>6, OneReplica
<1>8. net' \subseteq net
    BY DEF Crash
<1> QED
    BY <1>7, <1>8 DEF TypeInv, Crash

LEMMA InitTypes ==
    ASSUME Init
    PROVE  TypeInv
<1>1. Min(Brokers) \in Brokers
    BY BrokersAssumption, FirstBroker
<1>2. RowOK(partition)
    BY <1>1 DEF Init, NewPartition, RowOK, CommittedRow
<1>3. PICK q : q = new_replica(<<>>)
    OBVIOUS
<1>4. q \in ReplicaType /\ q.image = NoRow /\ q.waiting = {}
    <2>1. <<>> \in Seq(Nat)
        OBVIOUS
    <2> QED
        BY <1>3, <2>1, NewReplicaType
<1>5. ReplicaOK(q)
    BY <1>4 DEF ReplicaOK, NoRow
<1>6. replica = [b \in Brokers |-> q]
    BY <1>3 DEF Init
<1> QED
    BY <1>2, <1>4, <1>5, <1>6 DEF Init, TypeInv

\* Every step keeps the types.
LEMMA NextTypes ==
    ASSUME TypeInv, [Next]_vars
    PROVE  TypeInv'
<1>1. CASE UNCHANGED vars
    BY <1>1 DEF vars, TypeInv
<1>2. ASSUME NEW b \in Brokers,
             \/ InstallRole(b) \/ InstallIsr(b)
             \/ \E all \in BOOLEAN : Produce(b, all)
             \/ \E offset \in replica[b].waiting : FinishAck(b, offset)
             \/ Fetch(b) \/ Scan(b)
             \/ \E f \in Brokers : Lapse(b, f)
             \/ Fence(b) \/ Unfence(b) \/ Crash(b) \/ Restart(b)
      PROVE  TypeInv'
    BY <1>2, InstallRoleTypes, InstallIsrTypes, ProduceTypes, FinishAckTypes, FetchTypes, ScanTypes,
       LapseTypes, MembershipTypes, CrashTypes
<1>3. ASSUME NEW m \in net,
             \/ RefuseFetch(m) \/ AnswerDiverging(m)
             \/ StartRead(m) \/ \E recent \in BOOLEAN : FinishRead(m, recent)
             \/ ApplyAnswer(m) \/ AlterPartition(m) \/ Lose(m)
      PROVE  TypeInv'
    BY <1>3, LoseTypes, AnswerDivergingTypes, StartReadTypes, FinishReadTypes, ApplyAnswerTypes,
       AlterPartitionTypes
<1> QED
    BY <1>1, <1>2, <1>3 DEF Next

\* The row, the replicas, what is in flight and what was acknowledged stay well
\* formed, and the row always names a leader in its own ISR, through every
\* election, proposal, crash and restart, for any brokers and minimum ISR.
THEOREM PartitionTypes == Spec => []TypeOK
<1>1. Spec => []TypeInv
    BY InitTypes, NextTypes, PTL DEF Spec
<1>2. TypeInv => TypeOK
    BY TypeInvTypes
<1> QED
    BY <1>1, <1>2, PTL

-----------------------------------------------------------------------------
(***************************************************************************)
(* Logs that match.  A replica forgets which leader it had, so the         *)
(* invariant is about a history: who[e] is the broker that epoch e was     *)
(* opened for, and led[e] its log when it last led e, <<>> before.         *)
(***************************************************************************)

\* Two logs are the same below an offset.
Same(log1, log2, offset) ==
    \A k \in 1 .. offset : k <= Len(log1) /\ k <= Len(log2) /\ log1[k] = log2[k]

\* log1 is the beginning of log2.
Begins(log1, log2) == Same(log1, log2, Len(log1))

\* The epochs of a log never decrease, and none is above e.
Ordered(log, e) ==
    \A k \in 1 .. Len(log) : log[k] <= e /\ \A j \in 1 .. k : log[j] <= log[k]

\* Every record, and all below it, came from the leader of the record's epoch.
Sourced(led, log) == \A k \in 1 .. Len(log) : Same(log, led[log[k]], k)

Histories == [Nat -> Seq(Nat)]

\* Every leader's log goes on.
Grows(led, grown) == \A e \in Nat : Begins(led[e], grown[e])

LEMMA SameTrans ==
    ASSUME NEW a, NEW b, NEW c, NEW n \in Nat, Same(a, b, n), Same(b, c, n)
    PROVE  Same(a, c, n)
BY DEF Same

LEMMA SameSym ==
    ASSUME NEW a, NEW b, NEW n \in Nat, Same(a, b, n)
    PROVE  Same(b, a, n)
BY DEF Same

LEMMA SameLess ==
    ASSUME NEW a, NEW b, NEW n \in Nat, NEW k \in Nat, k <= n, Same(a, b, n)
    PROVE  Same(a, b, k)
BY DEF Same

LEMMA BeginsSelf ==
    ASSUME NEW log \in Seq(Nat)
    PROVE  Begins(log, log)
BY DEF Begins, Same

LEMMA BeginsTrans ==
    ASSUME NEW a \in Seq(Nat), NEW b \in Seq(Nat), NEW c \in Seq(Nat), Begins(a, b), Begins(b, c)
    PROVE  Begins(a, c)
<1>1. \A k \in 1 .. Len(a) : k \in 1 .. Len(b) /\ a[k] = b[k]
    BY DEF Begins, Same
<1>2. \A k \in 1 .. Len(b) : k \in 1 .. Len(c) /\ b[k] = c[k]
    BY DEF Begins, Same
<1> QED
    BY <1>1, <1>2 DEF Begins, Same

\* A log is the beginning of the log with more records.
LEMMA BeginsConcat ==
    ASSUME NEW log \in Seq(Nat), NEW records \in Seq(Nat)
    PROVE  Begins(log, log \o records)
<1>1. PICK both \in Seq(Nat) : both = log \o records
    BY ConcatType
<1>2. Len(both) = Len(log) + Len(records) /\ \A k \in 1 .. Len(log) : both[k] = log[k]
    BY <1>1, ConcatType
<1>3. Begins(log, both)
    BY <1>2 DEF Begins, Same
<1> QED
    BY <1>1, <1>3

\* A beginning of a log that is ordered, and has its sources, is and has too.
LEMMA BeginningSourced ==
    ASSUME NEW led \in Histories, NEW log \in Seq(Nat), NEW part \in Seq(Nat), Begins(part, log),
           NEW e \in Nat
    PROVE  /\ Sourced(led, log) => Sourced(led, part)
           /\ Ordered(log, e) => Ordered(part, e)
<1>1. \A k \in 1 .. Len(part) : k \in 1 .. Len(log) /\ part[k] = log[k]
    BY DEF Begins, Same
<1>2. ASSUME Sourced(led, log) PROVE Sourced(led, part)
    <2>1. SUFFICES ASSUME NEW k \in 1 .. Len(part) PROVE Same(part, led[part[k]], k)
        BY DEF Sourced
    <2>2. Same(log, led[part[k]], k) /\ k \in Nat
        BY <1>1, <1>2 DEF Sourced
    <2>3. Same(part, log, k)
        BY <1>1 DEF Same
    <2> QED
        BY <2>2, <2>3, SameTrans
<1>3. ASSUME Ordered(log, e) PROVE Ordered(part, e)
    BY SMTT(40), <1>1, <1>3 DEF Ordered
<1> QED
    BY <1>2, <1>3

LEMMA PrefixBegins ==
    ASSUME NEW log \in Seq(Nat), NEW n \in 0 .. Len(log)
    PROVE  Prefix(log, n) \in Seq(Nat) /\ Begins(Prefix(log, n), log)
<1>1. PICK part \in Seq(Nat) : part = Prefix(log, n)
    BY PrefixType
<1>2. Len(part) = n /\ \A k \in 1 .. n : part[k] = log[k]
    BY <1>1, PrefixType
<1>3. Begins(part, log)
    BY <1>2 DEF Begins, Same
<1> QED
    BY <1>1, <1>3

\* What has its sources keeps them.
LEMMA SourcedGrows ==
    ASSUME NEW led \in Histories, NEW grown \in Histories, Grows(led, grown),
           NEW log \in Seq(Nat), Sourced(led, log)
    PROVE  Sourced(grown, log)
<1>1. SUFFICES ASSUME NEW k \in 1 .. Len(log) PROVE Same(log, grown[log[k]], k)
    BY DEF Sourced
<1>2. PICK e \in Nat : e = log[k]
    OBVIOUS
<1>3. PICK old \in Seq(Nat), new \in Seq(Nat) : old = led[e] /\ new = grown[e]
    BY DEF Histories
<1>4. Begins(old, new)
    BY <1>3 DEF Grows
<1>5. Same(log, old, k) /\ k \in Nat
    BY <1>2, <1>3 DEF Sourced
<1>6. Same(old, new, k)
    BY <1>4, <1>5 DEF Begins, Same
<1> QED
    BY <1>2, <1>3, <1>5, <1>6, SameTrans

LEMMA OrderedLater ==
    ASSUME NEW log \in Seq(Nat), NEW e \in Nat, NEW later \in Nat, e <= later, Ordered(log, e)
    PROVE  Ordered(log, later)
BY DEF Ordered

\* One leader's log goes on.
GoesOn(led, e, log, grown) ==
    grown[e] = log /\ Grows(led, grown) /\ \A d \in Nat \ {e} : grown[d] = led[d]

LEMMA LedGrows ==
    ASSUME NEW led \in Histories, NEW e \in Nat, NEW log \in Seq(Nat), Begins(led[e], log)
    PROVE  \E grown \in Histories : GoesOn(led, e, log, grown)
<1>1. PICK grown \in Histories : grown = [led EXCEPT ![e] = log]
    BY DEF Histories
<1>2. grown[e] = log /\ \A d \in Nat \ {e} : grown[d] = led[d]
    BY <1>1 DEF Histories
<1>3. \A d \in Nat : Begins(led[d], grown[d])
    <2> TAKE d \in Nat
    <2>1. led[d] \in Seq(Nat)
        BY DEF Histories
    <2> QED
        BY <1>2, <2>1, BeginsSelf
<1> QED
    BY <1>2, <1>3 DEF GoesOn, Grows

(***************************************************************************)
(* The invariant, about the logs, what each broker takes as leader and     *)
(* epoch, the committed leader and epoch and what is in flight.            *)
(***************************************************************************)
\* An exchange is a fetch and what becomes of it.
IsExchange(m) == m.kind # "alter"

\* A leader's log is its own source and holds no later epoch.
LedOK(led, epoch) ==
    \A e \in Nat : /\ Sourced(led, led[e]) /\ Ordered(led[e], e)
                   /\ e > epoch => led[e] = <<>>

LogsOK(led, logs, epoch) ==
    \A b \in Brokers : Sourced(led, logs[b]) /\ Ordered(logs[b], epoch)

\* A broker follows the leader of its epoch; one that leads has its epoch's log.
ImageOK(led, who, log, lead, term, b, epoch) ==
    /\ term <= epoch
    /\ lead \in Brokers => who[term] = lead
    /\ lead = b => log = led[term]

ImagesOK(led, who, logs, lead, term, epoch) ==
    \A b \in Brokers : ImageOK(led, who, logs[b], lead[b], term[b], b, epoch)

\* The committed leader, once it led the epoch, keeps its log until it is deposed.
RowLed(led, who, logs, lead, term, leader, epoch) ==
    /\ who[epoch] = leader
    /\ led[epoch] # <<>> =>
        /\ logs[leader] = led[epoch]
        /\ lead[leader] \in {leader, NoBroker}
        /\ lead[leader] = leader => term[leader] = epoch

\* What an exchange of the epoch its follower is in knows of the two logs.
Knows(led, logs, m, epoch) ==
    /\ m.kind = "fetch" => m.offset = Len(logs[m.from]) /\ m.last = last_epoch(logs[m.from])
    /\ m.kind = "read" => m.offset = Len(logs[m.from]) /\ Begins(logs[m.from], logs[m.to])
    /\ m.kind = "records" => /\ Sourced(led, logs[m.from] \o m.records)
                             /\ Ordered(logs[m.from] \o m.records, epoch)

ExchangeOK(led, who, logs, lead, term, epoch, m) ==
    /\ m.from # m.to /\ who[m.epoch] = m.to /\ m.epoch <= term[m.from]
    /\ m.epoch = term[m.from] => lead[m.from] = m.to /\ Knows(led, logs, m, epoch)

ExchangesOK(led, who, logs, lead, term, epoch, sent) ==
    \A m \in sent : IsExchange(m) => ExchangeOK(led, who, logs, lead, term, epoch, m)

\* A follower has one exchange in an epoch.
OneExchange(sent) ==
    \A m, n \in sent :
        IsExchange(m) /\ IsExchange(n) /\ m.from = n.from /\ m.epoch = n.epoch => m = n

LogState(led, who, logs, lead, term, leader, epoch, sent) ==
    /\ LedOK(led, epoch)
    /\ LogsOK(led, logs, epoch)
    /\ ImagesOK(led, who, logs, lead, term, epoch)
    /\ RowLed(led, who, logs, lead, term, leader, epoch)
    /\ ExchangesOK(led, who, logs, lead, term, epoch, sent)
    /\ OneExchange(sent)

LogOf  == [b \in Brokers |-> replica[b].log]
LeadOf == [b \in Brokers |-> replica[b].image.leader]
TermOf == [b \in Brokers |-> replica[b].image.leader_epoch]

Leaders == [Nat -> Brokers]

LogInv ==
    \E led \in Histories, who \in Leaders :
        LogState(led, who, LogOf, LeadOf, TermOf, partition.leader, partition.leader_epoch, net)

\* What the invariant is about has its types.
Shape(logs, lead, term, leader, epoch, sent) ==
    /\ logs \in [Brokers -> Seq(Nat)]
    /\ lead \in [Brokers -> Brokers \cup {NoBroker}]
    /\ term \in [Brokers -> Nat]
    /\ leader \in Brokers /\ epoch \in Nat
    /\ sent \subseteq Message

\* Logs that have their sources match.
LEMMA SourcedMatch ==
    ASSUME NEW led \in Histories, NEW a \in Seq(Nat), NEW b \in Seq(Nat),
           Sourced(led, a), Sourced(led, b), NEW k \in 1 .. Len(a), k <= Len(b), a[k] = b[k]
    PROVE  Same(a, b, k)
<1>1. PICK source : source = led[a[k]]
    OBVIOUS
<1>2. Same(a, source, k) /\ Same(b, source, k) /\ k \in Nat
    BY <1>1 DEF Sourced
<1>3. Same(source, b, k)
    BY <1>2, SameSym
<1> QED
    BY <1>2, <1>3, SameTrans

\* An answer, a loss or a proposal leaves fewer exchanges.
LEMMA FewerExchanges ==
    ASSUME NEW led, NEW who, NEW logs, NEW lead, NEW term, NEW leader, NEW epoch, NEW sent,
           LogState(led, who, logs, lead, term, leader, epoch, sent),
           NEW rest, \A m \in rest : IsExchange(m) => m \in sent
    PROVE  LogState(led, who, logs, lead, term, leader, epoch, rest)
<1>1. ExchangesOK(led, who, logs, lead, term, epoch, rest)
    BY DEF LogState, ExchangesOK
<1>2. OneExchange(rest)
    BY DEF LogState, OneExchange
<1> QED
    BY <1>1, <1>2 DEF LogState

\* An exchange knows as much under a later epoch.
LEMMA KnowsLater ==
    ASSUME NEW led \in Histories, NEW logs \in [Brokers -> Seq(Nat)], NEW m \in Message,
           NEW epoch \in Nat, NEW later \in Nat, epoch <= later,
           IsExchange(m), Knows(led, logs, m, epoch)
    PROVE  Knows(led, logs, m, later)
<1>1. ASSUME m.kind = "records" PROVE Ordered(logs[m.from] \o m.records, later)
    <2>1. m.from \in Brokers /\ m.records \in Seq(Nat)
        BY <1>1, MessageFields
    <2>2. PICK both \in Seq(Nat) : both = logs[m.from] \o m.records
        BY <2>1, ConcatType
    <2>3. Ordered(both, epoch)
        BY <1>1, <2>2 DEF Knows
    <2> QED
        BY <2>2, <2>3, OrderedLater
<1> QED
    BY <1>1 DEF Knows

\* The controller opens an epoch.
LEMMA OpensEpoch ==
    ASSUME NEW led \in Histories, NEW who \in Leaders, NEW logs, NEW lead, NEW term, NEW leader,
           NEW epoch, NEW sent, Shape(logs, lead, term, leader, epoch, sent),
           LogState(led, who, logs, lead, term, leader, epoch, sent), NEW next \in Brokers
    PROVE  \E who1 \in Leaders : LogState(led, who1, logs, lead, term, next, epoch + 1, sent)
<1>1. epoch \in Nat /\ term \in [Brokers -> Nat] /\ logs \in [Brokers -> Seq(Nat)]
    BY DEF Shape
<1>2. PICK who1 \in Leaders : who1 = [who EXCEPT ![epoch + 1] = next]
    BY <1>1 DEF Leaders
<1>3. who1[epoch + 1] = next /\ \A e \in Nat : e <= epoch => who1[e] = who[e]
    BY <1>1, <1>2 DEF Leaders
<1>4. LedOK(led, epoch + 1)
    BY <1>1 DEF LogState, LedOK
<1>5. LogsOK(led, logs, epoch + 1)
    BY <1>1, OrderedLater DEF LogState, LogsOK
<1>6. ImagesOK(led, who1, logs, lead, term, epoch + 1)
    <2>1. ASSUME NEW b \in Brokers PROVE ImageOK(led, who1, logs[b], lead[b], term[b], b, epoch + 1)
        <3>1. ImageOK(led, who, logs[b], lead[b], term[b], b, epoch) /\ term[b] \in Nat
            BY <1>1 DEF LogState, ImagesOK
        <3> QED
            BY <1>1, <1>3, <3>1 DEF ImageOK
    <2> QED
        BY <2>1 DEF ImagesOK
<1>7. RowLed(led, who1, logs, lead, term, next, epoch + 1)
    <2>1. led[epoch + 1] = <<>>
        BY <1>1 DEF LogState, LedOK
    <2> QED
        BY <1>3, <2>1 DEF RowLed
<1>8. ExchangesOK(led, who1, logs, lead, term, epoch + 1, sent)
    <2>1. ASSUME NEW m \in sent, IsExchange(m)
          PROVE  ExchangeOK(led, who1, logs, lead, term, epoch + 1, m)
        <3>1. ExchangeOK(led, who, logs, lead, term, epoch, m)
            BY <2>1 DEF LogState, ExchangesOK
        <3>2. m \in Message
            BY DEF Shape
        <3>3. m.from \in Brokers /\ m.epoch \in Nat
            BY <3>2, MessageFields
        <3>4. term[m.from] <= epoch /\ term[m.from] \in Nat
            BY <1>1, <3>3 DEF LogState, ImagesOK, ImageOK
        <3>5. who1[m.epoch] = who[m.epoch]
            BY <1>1, <1>3, <3>1, <3>3, <3>4 DEF ExchangeOK
        <3>6. ASSUME m.epoch = term[m.from] PROVE Knows(led, logs, m, epoch + 1)
            <4>1. Knows(led, logs, m, epoch) /\ epoch + 1 \in Nat /\ epoch <= epoch + 1
                BY <1>1, <3>1, <3>6 DEF ExchangeOK
            <4> QED
                BY <1>1, <2>1, <3>2, <4>1, KnowsLater
        <3> QED
            BY <3>1, <3>5, <3>6 DEF ExchangeOK
    <2> QED
        BY <2>1 DEF ExchangesOK
<1> QED
    BY <1>4, <1>5, <1>6, <1>7, <1>8 DEF LogState

\* An exchange knows as much when its leader's log goes on.
LEMMA KnowsGrows ==
    ASSUME NEW led \in Histories, NEW grown \in Histories, Grows(led, grown),
           NEW logs \in [Brokers -> Seq(Nat)], NEW more \in [Brokers -> Seq(Nat)],
           NEW m \in Message, IsExchange(m), NEW epoch \in Nat, Knows(led, logs, m, epoch),
           more[m.from] = logs[m.from], Begins(logs[m.to], more[m.to])
    PROVE  Knows(grown, more, m, epoch)
<1>1. m.from \in Brokers /\ m.to \in Brokers
    BY MessageFields DEF IsExchange
<1>2. ASSUME m.kind = "read" PROVE Begins(more[m.from], more[m.to])
    <2>1. Begins(logs[m.from], logs[m.to])
        BY <1>2 DEF Knows
    <2> QED
        BY <1>1, <2>1, BeginsTrans
<1>3. ASSUME m.kind = "records" PROVE Sourced(grown, more[m.from] \o m.records)
    <2>1. m.records \in Seq(Nat)
        BY <1>3, MessageFields
    <2>2. PICK both \in Seq(Nat) : both = logs[m.from] \o m.records
        BY <1>1, <2>1, ConcatType
    <2>3. Sourced(led, both)
        BY <1>3, <2>2 DEF Knows
    <2> QED
        BY <2>2, <2>3, SourcedGrows
<1> QED
    BY <1>2, <1>3 DEF Knows

\* A log that has its sources but for the records of one epoch.
SourcedBut(led, log, e) ==
    \A k \in 1 .. Len(log) : Same(log, led[log[k]], k) \/ log[k] = e

\* The leader of an epoch goes on: its log becomes the one that led the epoch.
LEMMA LedGoesOn ==
    ASSUME NEW led \in Histories, NEW epoch \in Nat, NEW e \in Nat, e <= epoch, NEW log \in Seq(Nat),
           LedOK(led, epoch), Ordered(log, e), SourcedBut(led, log, e),
           NEW logs \in [Brokers -> Seq(Nat)], LogsOK(led, logs, epoch),
           NEW grown \in Histories, GoesOn(led, e, log, grown)
    PROVE  LedOK(grown, epoch) /\ LogsOK(grown, logs, epoch) /\ Sourced(grown, log)
<1>1. /\ grown[e] = log /\ Grows(led, grown)
      /\ \A d \in Nat \ {e} : grown[d] = led[d]
    BY DEF GoesOn
<1>2. Sourced(grown, log)
    <2>1. SUFFICES ASSUME NEW k \in 1 .. Len(log) PROVE Same(log, grown[log[k]], k)
        BY DEF Sourced
    <2>2. CASE log[k] = e
        BY <1>1, <2>2 DEF Same
    <2>3. CASE log[k] # e
        <3>1. log[k] \in Nat \ {e}
            BY <2>3
        <3> QED
            BY <1>1, <2>3, <3>1 DEF SourcedBut
    <2> QED
        BY <2>2, <2>3
<1>3. LedOK(grown, epoch)
    <2>1. SUFFICES ASSUME NEW d \in Nat
                   PROVE  /\ Sourced(grown, grown[d]) /\ Ordered(grown[d], d)
                          /\ d > epoch => grown[d] = <<>>
        BY DEF LedOK
    <2>2. CASE d = e
        BY <1>1, <1>2, <2>2
    <2>3. CASE d # e
        <3>1. Sourced(led, led[d]) /\ Ordered(led[d], d) /\ (d > epoch => led[d] = <<>>)
            BY DEF LedOK
        <3>2. led[d] \in Seq(Nat) /\ grown[d] = led[d]
            BY <1>1, <2>3 DEF Histories
        <3> QED
            BY <1>1, <3>1, <3>2, SourcedGrows
    <2> QED
        BY <2>2, <2>3
<1>4. LogsOK(grown, logs, epoch)
    BY <1>1, SourcedGrows DEF LogsOK
<1> QED
    BY <1>2, <1>3, <1>4

\* A fetch that does not diverge is of the beginning of the leader's log.
LEMMA NotDiverging ==
    ASSUME NEW led \in Histories, NEW log \in Seq(Nat), NEW other \in Seq(Nat), NEW epoch \in Nat,
           Sourced(led, log), Sourced(led, other), Ordered(other, epoch),
           ~DivergesFrom(other, last_epoch(log), Len(log))
    PROVE  Begins(log, other)
<1>1. CASE log = <<>>
    BY <1>1 DEF Begins, Same
<1>2. CASE log # <<>>
    <2>1. PICK n \in Nat : n = Len(log) /\ n >= 1
        BY <1>2
    <2>2. PICK last \in Nat : last = log[n] /\ last = last_epoch(log)
        BY <1>2, <2>1 DEF last_epoch
    <2>3. PICK found : found = end_offset_for_epoch(other, last)
        OBVIOUS
    <2>4. found.epoch \in Nat /\ found.offset \in 0 .. Len(other)
        BY <2>3, EndOffsetForEpochInLog DEF OffsetAndEpoch
    <2>5. found.epoch >= last /\ found.offset >= n
        BY <2>1, <2>2, <2>3, <2>4 DEF DivergesFrom
    <2>6. n \in 1 .. Len(other)
        BY <2>1, <2>4, <2>5
    <2>7. (\E j \in 1 .. Len(other) : other[j] = last) /\ other[n] <= last
        <3> DEFINE above == {k \in 1 .. Len(other) : other[k] > last}
                   upTo  == {other[k] : k \in {j \in 1 .. Len(other) : other[j] <= last}}
        <3>1. CASE above = {}
            <4>1. found.epoch = other[Len(other)] /\ Len(other) \in 1 .. Len(other)
                BY <2>3, <2>6, <3>1 DEF end_offset_for_epoch, last_epoch
            <4>2. \A k \in 1 .. Len(other) : other[k] <= last
                BY <3>1
            <4> QED
                BY <2>2, <2>4, <2>5, <2>6, <4>1, <4>2
        <3>2. CASE above # {}
            <4>1. above \in SUBSET Nat
                OBVIOUS
            <4>2. /\ upTo \in SUBSET Nat /\ \A x \in upTo : x <= last
                  /\ \A x \in upTo : \E j \in 1 .. Len(other) : other[j] = x
                OBVIOUS
            <4>3. n \in above <=> other[n] > last
                BY <2>6
            <4> HIDE DEF above, upTo
            <4>4. found = [offset |-> Min(above) - 1, epoch |-> IF upTo = {} THEN last ELSE Max(upTo)]
                BY <2>3, <3>2 DEF end_offset_for_epoch, above, upTo
            <4>5. Min(above) \in Nat /\ \A k \in above : Min(above) <= k
                BY <3>2, <4>1, MinIsLeast
            <4>6. other[n] <= last
                <5>1. found.offset = Min(above) - 1
                    BY <4>4
                <5>2. n \notin above
                    BY <2>1, <2>5, <4>5, <5>1
                <5>3. other[n] \in Nat
                    BY <2>6
                <5> QED
                    BY <2>2, <4>3, <5>2, <5>3
            <4>7. other[n] \in upTo
                BY <2>6, <4>6 DEF upTo
            <4>8. Max(upTo) \in upTo
                BY <2>2, <4>2, <4>7, MaxIsGreatest
            <4>9. found.epoch = Max(upTo)
                BY <4>4, <4>7
            <4>10. Max(upTo) = last
                <5>1. PICK x \in upTo : x = Max(upTo)
                    BY <4>8
                <5>2. x \in Nat /\ x <= last /\ x >= last
                    BY <2>5, <4>2, <4>9, <5>1
                <5> QED
                    BY <2>2, <5>1, <5>2
            <4> QED
                BY <4>2, <4>6, <4>8, <4>10
        <3> QED
            BY <3>1, <3>2
    <2>8. \E j \in 1 .. Len(other) : other[j] = last /\ j >= n
        <3>1. PICK j \in 1 .. Len(other) : other[j] = last
            BY <2>7
        <3>2. CASE j < n
            <4>1. other[j] <= other[n]
                BY <2>6, <3>2 DEF Ordered
            <4> QED
                BY <2>2, <2>6, <2>7, <3>1, <4>1
        <3> QED
            BY <2>1, <3>1, <3>2
    <2>9. PICK j \in 1 .. Len(other) : other[j] = last /\ j >= n
        BY <2>8
    <2>10. PICK source : source = led[last]
        OBVIOUS
    <2>11. Same(log, source, n) /\ Same(other, source, j) /\ j \in Nat
        <3>1. n \in 1 .. Len(log)
            BY <2>1
        <3>2. Same(log, led[log[n]], n) /\ Same(other, led[other[j]], j)
            BY <3>1 DEF Sourced
        <3> QED
            BY <2>2, <2>9, <2>10, <3>2
    <2>12. Same(source, other, n)
        <3>1. Same(other, source, n)
            BY <2>1, <2>9, <2>11, SameLess
        <3> QED
            BY <2>1, <3>1, SameSym
    <2> QED
        BY <2>1, <2>11, <2>12, SameTrans DEF Begins
<1> QED
    BY <1>1, <1>2

\* An exchange that keeps what it knows.
LEMMA ExchangeGrows ==
    ASSUME NEW led \in Histories, NEW grown \in Histories, Grows(led, grown), NEW who,
           NEW logs \in [Brokers -> Seq(Nat)], NEW more \in [Brokers -> Seq(Nat)],
           NEW lead, NEW term, NEW lead1, NEW term1, NEW epoch \in Nat, NEW m \in Message, IsExchange(m),
           ExchangeOK(led, who, logs, lead, term, epoch, m),
           m.epoch <= term1[m.from],
           m.epoch = term1[m.from] =>
                /\ m.epoch = term[m.from] /\ lead1[m.from] = m.to
                /\ more[m.from] = logs[m.from] /\ Begins(logs[m.to], more[m.to])
    PROVE  ExchangeOK(grown, who, more, lead1, term1, epoch, m)
<1>1. ASSUME m.epoch = term1[m.from] PROVE Knows(grown, more, m, epoch)
    <2>1. Knows(led, logs, m, epoch)
        BY <1>1 DEF ExchangeOK
    <2> QED
        BY <1>1, <2>1, KnowsGrows
<1> QED
    BY <1>1 DEF ExchangeOK

\* A broker installs the row that the controller committed.
LEMMA InstallsRow ==
    ASSUME NEW led \in Histories, NEW who \in Leaders, NEW logs, NEW lead, NEW term, NEW leader,
           NEW epoch, NEW sent, Shape(logs, lead, term, leader, epoch, sent),
           LogState(led, who, logs, lead, term, leader, epoch, sent), NEW b \in Brokers,
           NEW lead1, NEW term1, lead1[b] = leader, term1[b] = epoch,
           \A v \in Brokers \ {b} : lead1[v] = lead[v] /\ term1[v] = term[v]
    PROVE  \E grown \in Histories : LogState(grown, who, logs, lead1, term1, leader, epoch, sent)
<1>1. /\ epoch \in Nat /\ term \in [Brokers -> Nat] /\ logs \in [Brokers -> Seq(Nat)]
      /\ leader \in Brokers /\ sent \subseteq Message
    BY DEF Shape
<1>2. /\ LedOK(led, epoch) /\ LogsOK(led, logs, epoch) /\ OneExchange(sent)
      /\ ImagesOK(led, who, logs, lead, term, epoch)
      /\ RowLed(led, who, logs, lead, term, leader, epoch)
      /\ ExchangesOK(led, who, logs, lead, term, epoch, sent)
    BY DEF LogState
<1>3. \E grown \in Histories :
        /\ Grows(led, grown) /\ LedOK(grown, epoch) /\ LogsOK(grown, logs, epoch)
        /\ \A d \in Nat \ {epoch} : grown[d] = led[d]
        /\ IF leader = b THEN grown[epoch] = logs[b] ELSE grown = led
    <2>1. CASE leader # b
        <3>1. Grows(led, led)
            <4>1. \A d \in Nat : led[d] \in Seq(Nat)
                BY DEF Histories
            <4> QED
                BY <4>1, BeginsSelf DEF Grows
        <3> QED
            BY <1>2, <2>1, <3>1
    <2>2. CASE leader = b
        <3>1. PICK log \in Seq(Nat) : log = logs[b]
            BY <1>1
        <3>2. Begins(led[epoch], log)
            <4>1. CASE led[epoch] = <<>>
                BY <4>1 DEF Begins, Same
            <4>2. CASE led[epoch] # <<>>
                BY <1>2, <2>2, <3>1, <4>2, BeginsSelf DEF RowLed
            <4> QED
                BY <4>1, <4>2
        <3>3. PICK grown \in Histories : GoesOn(led, epoch, log, grown)
            BY <1>1, <3>2, LedGrows
        <3>4. Sourced(led, log) /\ Ordered(log, epoch)
            BY <1>2, <3>1 DEF LogsOK
        <3>5. SourcedBut(led, log, epoch) /\ epoch <= epoch
            BY <1>1, <3>4 DEF Sourced, SourcedBut
        <3>6. LedOK(grown, epoch) /\ LogsOK(grown, logs, epoch)
            BY <1>1, <1>2, <3>3, <3>4, <3>5, LedGoesOn
        <3> QED
            BY <2>2, <3>1, <3>3, <3>6 DEF GoesOn
    <2> QED
        BY <2>1, <2>2
<1>4. PICK grown \in Histories :
        /\ Grows(led, grown) /\ LedOK(grown, epoch) /\ LogsOK(grown, logs, epoch)
        /\ \A d \in Nat \ {epoch} : grown[d] = led[d]
        /\ IF leader = b THEN grown[epoch] = logs[b] ELSE grown = led
    BY <1>3
<1>5. who[epoch] = leader
    BY <1>2 DEF RowLed
<1>6. ImagesOK(grown, who, logs, lead1, term1, epoch)
    <2>1. SUFFICES ASSUME NEW v \in Brokers
                   PROVE  ImageOK(grown, who, logs[v], lead1[v], term1[v], v, epoch)
        BY DEF ImagesOK
    <2>2. CASE v = b
        BY <1>1, <1>4, <1>5, <2>2 DEF ImageOK
    <2>3. CASE v # b
        <3>1. ImageOK(led, who, logs[v], lead[v], term[v], v, epoch) /\ term[v] \in Nat
            BY <1>1, <1>2 DEF ImagesOK
        <3>2. lead1[v] = lead[v] /\ term1[v] = term[v]
            BY <2>3
        <3>3. ASSUME lead[v] = v PROVE grown[term[v]] = led[term[v]]
            <4>1. who[term[v]] = v
                BY <3>1, <3>3 DEF ImageOK
            <4>2. term[v] # epoch \/ leader # b
                BY <1>5, <2>3, <4>1
            <4> QED
                BY <1>4, <3>1, <4>2
        <3> QED
            BY <3>1, <3>2, <3>3 DEF ImageOK
    <2> QED
        BY <2>2, <2>3
<1>7. RowLed(grown, who, logs, lead1, term1, leader, epoch)
    <2>1. CASE leader = b
        BY <1>4, <1>5, <2>1 DEF RowLed
    <2>2. CASE leader # b
        BY <1>1, <1>2, <1>4, <2>2 DEF RowLed
    <2> QED
        BY <2>1, <2>2
<1>8. ExchangesOK(grown, who, logs, lead1, term1, epoch, sent)
    <2>1. SUFFICES ASSUME NEW m \in sent, IsExchange(m)
                   PROVE  ExchangeOK(grown, who, logs, lead1, term1, epoch, m)
        BY DEF ExchangesOK
    <2>2. m \in Message /\ ExchangeOK(led, who, logs, lead, term, epoch, m)
        BY <1>1, <1>2, <2>1 DEF ExchangesOK
    <2>3. m.from \in Brokers /\ m.to \in Brokers /\ m.epoch \in Nat
        BY <2>1, <2>2, MessageFields DEF IsExchange
    <2>4. Begins(logs[m.to], logs[m.to])
        BY <1>1, <2>3, BeginsSelf
    <2>5. /\ m.epoch <= term1[m.from]
          /\ m.epoch = term1[m.from] => m.epoch = term[m.from] /\ lead1[m.from] = m.to
        <3>1. CASE m.from # b
            BY <2>2, <2>3, <3>1 DEF ExchangeOK
        <3>2. CASE m.from = b
            <4>1. term[b] \in Nat /\ term[b] <= epoch
                BY <1>1, <1>2 DEF ImagesOK, ImageOK
            <4>2. m.epoch <= term[b] /\ who[m.epoch] = m.to
                BY <2>2, <3>2 DEF ExchangeOK
            <4> QED
                BY <1>1, <1>5, <2>3, <3>2, <4>1, <4>2
        <3> QED
            BY <3>1, <3>2
    <2> QED
        BY <1>1, <1>4, <2>1, <2>2, <2>4, <2>5, ExchangeGrows
<1> QED
    BY <1>2, <1>4, <1>6, <1>7, <1>8 DEF LogState

\* An append by the leader of an epoch.
LEMMA AppendSourced ==
    ASSUME NEW led \in Histories, NEW log \in Seq(Nat), NEW e \in Nat, Sourced(led, log), Ordered(log, e)
    PROVE  /\ Append(log, e) \in Seq(Nat) /\ Begins(log, Append(log, e))
           /\ Ordered(Append(log, e), e) /\ SourcedBut(led, Append(log, e), e)
<1>1. PICK more \in Seq(Nat) : more = Append(log, e)
    BY AppendProperties
<1>2. /\ Len(more) = Len(log) + 1 /\ more[Len(log) + 1] = e
      /\ \A k \in 1 .. Len(log) : more[k] = log[k]
    BY <1>1
<1>3. Begins(log, more)
    BY <1>2 DEF Begins, Same
<1>4. Ordered(more, e)
    <2>1. SUFFICES ASSUME NEW k \in 1 .. Len(more)
                   PROVE  more[k] <= e /\ \A j \in 1 .. k : more[j] <= more[k]
        BY DEF Ordered
    <2>2. \A j \in 1 .. Len(more) : j \in 1 .. Len(log) \/ j = Len(log) + 1
        BY <1>2
    <2>3. \A j \in 1 .. Len(log) : log[j] <= e /\ log[j] \in Nat
        BY DEF Ordered
    <2>4. \A j \in 1 .. Len(more) : more[j] <= e
        BY SMTT(40), <1>2, <2>2, <2>3
    <2>5. CASE k = Len(log) + 1
        BY <1>2, <2>4, <2>5
    <2>6. CASE k \in 1 .. Len(log)
        <3>1. \A j \in 1 .. k : j \in 1 .. Len(log) /\ log[j] <= log[k]
            BY <2>6 DEF Ordered
        <3> QED
            BY <1>2, <2>4, <2>6, <3>1
    <2> QED
        BY <2>2, <2>5, <2>6
<1>5. SourcedBut(led, more, e)
    <2>1. SUFFICES ASSUME NEW k \in 1 .. Len(more), more[k] # e
                   PROVE  Same(more, led[more[k]], k)
        BY DEF SourcedBut
    <2>2. k \in 1 .. Len(log) /\ k \in Nat /\ more[k] = log[k]
        BY <1>2, <2>1
    <2>3. Same(log, led[more[k]], k)
        BY <2>2 DEF Sourced
    <2>4. Same(more, log, k)
        BY <1>2, <2>2 DEF Same
    <2> QED
        BY <2>2, <2>3, <2>4, SameTrans
<1> QED
    BY <1>1, <1>3, <1>4, <1>5

LEMMA AppendsRecord ==
    ASSUME NEW led \in Histories, NEW who \in Leaders, NEW logs, NEW lead, NEW term, NEW leader,
           NEW epoch, NEW sent, Shape(logs, lead, term, leader, epoch, sent),
           LogState(led, who, logs, lead, term, leader, epoch, sent), NEW b \in Brokers, lead[b] = b,
           NEW more \in [Brokers -> Seq(Nat)], more[b] = Append(logs[b], term[b]),
           \A v \in Brokers \ {b} : more[v] = logs[v]
    PROVE  \E grown \in Histories : LogState(grown, who, more, lead, term, leader, epoch, sent)
<1>1. /\ epoch \in Nat /\ term \in [Brokers -> Nat] /\ logs \in [Brokers -> Seq(Nat)]
      /\ leader \in Brokers /\ sent \subseteq Message
    BY DEF Shape
<1>2. /\ LedOK(led, epoch) /\ LogsOK(led, logs, epoch) /\ OneExchange(sent)
      /\ ImagesOK(led, who, logs, lead, term, epoch)
      /\ RowLed(led, who, logs, lead, term, leader, epoch)
      /\ ExchangesOK(led, who, logs, lead, term, epoch, sent)
    BY DEF LogState
<1>3. PICK e \in Nat : e = term[b]
    BY <1>1
<1>4. PICK log \in Seq(Nat) : log = logs[b]
    BY <1>1
<1>5. e <= epoch /\ who[e] = b /\ led[e] = log
    BY <1>2, <1>3, <1>4 DEF ImagesOK, ImageOK
<1>6. Sourced(led, log) /\ Ordered(log, e)
    BY <1>2, <1>5 DEF LedOK
<1>7. PICK next \in Seq(Nat) : next = more[b]
    OBVIOUS
<1>8. Begins(log, next) /\ Ordered(next, e) /\ SourcedBut(led, next, e)
    BY <1>3, <1>4, <1>6, <1>7, AppendSourced
<1>9. PICK grown \in Histories : GoesOn(led, e, next, grown)
    BY <1>5, <1>8, LedGrows
<1>10. LedOK(grown, epoch) /\ LogsOK(grown, logs, epoch) /\ Sourced(grown, next)
    BY <1>1, <1>2, <1>5, <1>8, <1>9, LedGoesOn
<1>11. grown[e] = next /\ Grows(led, grown) /\ \A d \in Nat \ {e} : grown[d] = led[d]
    BY <1>9 DEF GoesOn
<1>12. Ordered(next, epoch)
    BY <1>1, <1>5, <1>8, OrderedLater
<1>13. LogsOK(grown, more, epoch)
    <2>1. SUFFICES ASSUME NEW v \in Brokers PROVE Sourced(grown, more[v]) /\ Ordered(more[v], epoch)
        BY DEF LogsOK
    <2>2. CASE v = b
        BY <1>7, <1>10, <1>12, <2>2
    <2>3. CASE v # b
        BY <1>10, <2>3 DEF LogsOK
    <2> QED
        BY <2>2, <2>3
<1>14. ImagesOK(grown, who, more, lead, term, epoch)
    <2>1. SUFFICES ASSUME NEW v \in Brokers
                   PROVE  ImageOK(grown, who, more[v], lead[v], term[v], v, epoch)
        BY DEF ImagesOK
    <2>2. ImageOK(led, who, logs[v], lead[v], term[v], v, epoch) /\ term[v] \in Nat
        BY <1>1, <1>2 DEF ImagesOK
    <2>3. CASE v = b
        BY <1>3, <1>7, <1>11, <2>2, <2>3 DEF ImageOK
    <2>4. CASE v # b
        <3>1. lead[v] = v => term[v] # e
            BY <1>5, <2>2, <2>4 DEF ImageOK
        <3> QED
            BY <1>11, <2>2, <2>4, <3>1 DEF ImageOK
    <2> QED
        BY <2>3, <2>4
<1>15. RowLed(grown, who, more, lead, term, leader, epoch)
    <2>1. CASE leader = b
        <3>1. CASE e = epoch
            BY <1>2, <1>3, <1>7, <1>11, <2>1, <3>1 DEF RowLed
        <3>2. CASE e # epoch
            <4>1. grown[epoch] = led[epoch]
                BY <1>1, <1>11, <3>2
            <4> QED
                BY <1>2, <1>3, <2>1, <3>2, <4>1 DEF RowLed
        <3> QED
            BY <3>1, <3>2
    <2>2. CASE leader # b
        <3>1. e # epoch
            BY <1>2, <1>5, <2>2 DEF RowLed
        <3>2. grown[epoch] = led[epoch] /\ more[leader] = logs[leader]
            BY <1>1, <1>11, <2>2, <3>1
        <3> QED
            BY <1>2, <3>2 DEF RowLed
    <2> QED
        BY <2>1, <2>2
<1>16. ExchangesOK(grown, who, more, lead, term, epoch, sent)
    <2>1. SUFFICES ASSUME NEW m \in sent, IsExchange(m)
                   PROVE  ExchangeOK(grown, who, more, lead, term, epoch, m)
        BY DEF ExchangesOK
    <2>2. m \in Message /\ ExchangeOK(led, who, logs, lead, term, epoch, m)
        BY <1>1, <1>2, <2>1 DEF ExchangesOK
    <2>3. m.from \in Brokers /\ m.to \in Brokers /\ m.epoch \in Nat
        BY <2>1, <2>2, MessageFields DEF IsExchange
    <2>4. Begins(logs[m.to], more[m.to])
        <3>1. CASE m.to = b
            BY <1>4, <1>7, <1>8, <3>1
        <3>2. CASE m.to # b
            BY <1>1, <2>3, <3>2, BeginsSelf
        <3> QED
            BY <3>1, <3>2
    <2>5. /\ m.epoch <= term[m.from]
          /\ m.epoch = term[m.from] => lead[m.from] = m.to /\ m.from # b
        BY <2>2 DEF ExchangeOK
    <2> QED
        BY <1>1, <1>11, <2>1, <2>2, <2>3, <2>4, <2>5, ExchangeGrows
<1> QED
    BY <1>2, <1>10, <1>13, <1>14, <1>15, <1>16 DEF LogState

\* A follower that has no exchange in its epoch opens one.
LEMMA OpensExchange ==
    ASSUME NEW led, NEW who, NEW logs, NEW lead, NEW term, NEW leader, NEW epoch, NEW sent,
           LogState(led, who, logs, lead, term, leader, epoch, sent), NEW m,
           ExchangeOK(led, who, logs, lead, term, epoch, m),
           \A n \in sent : IsExchange(n) => n.from # m.from \/ n.epoch # m.epoch
    PROVE  LogState(led, who, logs, lead, term, leader, epoch, sent \cup {m})
<1>1. ExchangesOK(led, who, logs, lead, term, epoch, sent \cup {m})
    BY DEF LogState, ExchangesOK
<1>2. OneExchange(sent \cup {m})
    BY DEF LogState, OneExchange
<1> QED
    BY <1>1, <1>2 DEF LogState

\* The next message of an exchange takes the place of the one before.
LEMMA ExchangeGoesOn ==
    ASSUME NEW led, NEW who, NEW logs, NEW lead, NEW term, NEW leader, NEW epoch, NEW sent,
           LogState(led, who, logs, lead, term, leader, epoch, sent),
           NEW m \in sent, IsExchange(m), NEW n, n.from = m.from, n.to = m.to, n.epoch = m.epoch,
           m.epoch = term[m.from] => Knows(led, logs, n, epoch)
    PROVE  LogState(led, who, logs, lead, term, leader, epoch, (sent \ {m}) \cup {n})
<1>1. PICK rest : rest = sent \ {m}
    OBVIOUS
<1>2. LogState(led, who, logs, lead, term, leader, epoch, rest)
    BY <1>1, FewerExchanges
<1>3. ExchangeOK(led, who, logs, lead, term, epoch, m)
    BY DEF LogState, ExchangesOK
<1>4. ExchangeOK(led, who, logs, lead, term, epoch, n)
    BY <1>3 DEF ExchangeOK
<1>5. \A o \in rest : IsExchange(o) => o.from # n.from \/ o.epoch # n.epoch
    BY <1>1 DEF LogState, OneExchange
<1>6. LogState(led, who, logs, lead, term, leader, epoch, rest \cup {n})
    BY <1>2, <1>4, <1>5, OpensExchange
<1> QED
    BY <1>1, <1>6

\* A follower takes an answer of the leader and the epoch it follows, while no
\* read of its own log goes on.
LEMMA TakesAnswer ==
    ASSUME NEW led \in Histories, NEW who \in Leaders, NEW logs, NEW lead, NEW term, NEW leader,
           NEW epoch, NEW sent, Shape(logs, lead, term, leader, epoch, sent),
           LogState(led, who, logs, lead, term, leader, epoch, sent),
           NEW m \in sent, IsExchange(m), m.epoch = term[m.from],
           \A r \in sent : r.kind = "read" => r.to # m.from,
           NEW more \in [Brokers -> Seq(Nat)], Sourced(led, more[m.from]), Ordered(more[m.from], epoch),
           \A v \in Brokers \ {m.from} : more[v] = logs[v]
    PROVE  LogState(led, who, more, lead, term, leader, epoch, sent \ {m})
<1>1. /\ logs \in [Brokers -> Seq(Nat)] /\ leader \in Brokers /\ sent \subseteq Message
      /\ epoch \in Nat /\ term \in [Brokers -> Nat]
    BY DEF Shape
<1>2. /\ LedOK(led, epoch) /\ LogsOK(led, logs, epoch) /\ OneExchange(sent)
      /\ ImagesOK(led, who, logs, lead, term, epoch)
      /\ RowLed(led, who, logs, lead, term, leader, epoch)
      /\ ExchangesOK(led, who, logs, lead, term, epoch, sent)
    BY DEF LogState
<1>3. PICK f : f = m.from
    OBVIOUS
<1>4. f \in Brokers /\ m.to \in Brokers
    BY <1>1, <1>3, MessageFields DEF IsExchange
<1>5. lead[f] = m.to /\ lead[f] # f
    BY <1>2, <1>3 DEF ExchangesOK, ExchangeOK
<1>6. \A v \in Brokers : v # f => more[v] = logs[v]
    BY <1>3
<1>7. LogsOK(led, more, epoch)
    <2>1. SUFFICES ASSUME NEW v \in Brokers PROVE Sourced(led, more[v]) /\ Ordered(more[v], epoch)
        BY DEF LogsOK
    <2>2. CASE v = f
        BY <1>3, <2>2
    <2>3. CASE v # f
        BY <1>2, <1>6, <2>3 DEF LogsOK
    <2> QED
        BY <2>2, <2>3
<1>8. ImagesOK(led, who, more, lead, term, epoch)
    <2>1. SUFFICES ASSUME NEW v \in Brokers
                   PROVE  ImageOK(led, who, more[v], lead[v], term[v], v, epoch)
        BY DEF ImagesOK
    <2>2. ImageOK(led, who, logs[v], lead[v], term[v], v, epoch)
        BY <1>2 DEF ImagesOK
    <2> QED
        BY <1>5, <1>6, <2>2 DEF ImageOK
<1>9. RowLed(led, who, more, lead, term, leader, epoch)
    <2>1. led[epoch] # <<>> => leader # f
        BY <1>2, <1>4, <1>5, NoBrokerAssumption DEF RowLed
    <2> QED
        BY <1>1, <1>2, <1>6, <2>1 DEF RowLed
<1>10. ExchangesOK(led, who, more, lead, term, epoch, sent \ {m})
    <2>1. SUFFICES ASSUME NEW n \in sent, n # m, IsExchange(n)
                   PROVE  ExchangeOK(led, who, more, lead, term, epoch, n)
        BY DEF ExchangesOK
    <2>2. n \in Message /\ ExchangeOK(led, who, logs, lead, term, epoch, n)
        BY <1>1, <1>2, <2>1 DEF ExchangesOK
    <2>3. n.from \in Brokers /\ n.to \in Brokers
        BY <2>1, <2>2, MessageFields DEF IsExchange
    <2>4. ASSUME n.epoch = term[n.from] PROVE Knows(led, more, n, epoch)
        <3>1. n.from # f
            BY <1>2, <1>3, <2>1, <2>4 DEF OneExchange
        <3>2. more[n.from] = logs[n.from]
            BY <1>6, <2>3, <3>1
        <3>3. n.kind = "read" => more[n.to] = logs[n.to]
            BY <1>3, <1>6, <2>1, <2>3
        <3>4. Knows(led, logs, n, epoch)
            BY <2>2, <2>4 DEF ExchangeOK
        <3> QED
            BY <3>2, <3>3, <3>4 DEF Knows
    <2> QED
        BY <2>2, <2>4 DEF ExchangeOK
<1>11. OneExchange(sent \ {m})
    BY <1>2 DEF OneExchange
<1> QED
    BY <1>2, <1>7, <1>8, <1>9, <1>10, <1>11 DEF LogState

\* A broker that stops keeps its log and forgets its leader and its exchanges.
LEMMA StopsBroker ==
    ASSUME NEW led \in Histories, NEW who \in Leaders, NEW logs, NEW lead, NEW term, NEW leader,
           NEW epoch, NEW sent, Shape(logs, lead, term, leader, epoch, sent),
           LogState(led, who, logs, lead, term, leader, epoch, sent), NEW b \in Brokers,
           NEW lead1, NEW term1, lead1[b] = NoBroker, term1[b] = 0,
           \A v \in Brokers \ {b} : lead1[v] = lead[v] /\ term1[v] = term[v],
           NEW rest, \A m \in rest : m \in sent /\ m.from # b
    PROVE  LogState(led, who, logs, lead1, term1, leader, epoch, rest)
<1>1. epoch \in Nat /\ leader \in Brokers /\ sent \subseteq Message
    BY DEF Shape
<1>2. /\ LedOK(led, epoch) /\ LogsOK(led, logs, epoch) /\ OneExchange(sent)
      /\ ImagesOK(led, who, logs, lead, term, epoch)
      /\ RowLed(led, who, logs, lead, term, leader, epoch)
      /\ ExchangesOK(led, who, logs, lead, term, epoch, sent)
    BY DEF LogState
<1>3. ImagesOK(led, who, logs, lead1, term1, epoch)
    <2>1. SUFFICES ASSUME NEW v \in Brokers
                   PROVE  ImageOK(led, who, logs[v], lead1[v], term1[v], v, epoch)
        BY DEF ImagesOK
    <2>2. CASE v = b
        BY <1>1, <2>2, NoBrokerAssumption DEF ImageOK
    <2>3. CASE v # b
        BY <1>2, <2>3 DEF ImagesOK
    <2> QED
        BY <2>2, <2>3
<1>4. RowLed(led, who, logs, lead1, term1, leader, epoch)
    <2>1. CASE leader = b
        BY <1>1, <1>2, <2>1, NoBrokerAssumption DEF RowLed
    <2>2. CASE leader # b
        BY <1>1, <1>2, <2>2 DEF RowLed
    <2> QED
        BY <2>1, <2>2
<1>5. ExchangesOK(led, who, logs, lead1, term1, epoch, rest)
    <2>1. SUFFICES ASSUME NEW m \in rest, IsExchange(m)
                   PROVE  ExchangeOK(led, who, logs, lead1, term1, epoch, m)
        BY DEF ExchangesOK
    <2>2. m \in Message /\ m.from # b /\ ExchangeOK(led, who, logs, lead, term, epoch, m)
        BY <1>1, <1>2, <2>1 DEF ExchangesOK
    <2>3. m.from \in Brokers
        BY <2>2, MessageFields
    <2> QED
        BY <2>2, <2>3 DEF ExchangeOK
<1>6. OneExchange(rest)
    BY <1>2 DEF OneExchange
<1> QED
    BY <1>2, <1>3, <1>4, <1>5, <1>6 DEF LogState

(***************************************************************************)
(* The steps.                                                              *)
(***************************************************************************)
LEMMA StateShape ==
    ASSUME TypeInv
    PROVE  Shape(LogOf, LeadOf, TermOf, partition.leader, partition.leader_epoch, net)
<1>1. \A b \in Brokers : /\ replica[b].log \in Seq(Nat)
                         /\ replica[b].image.leader \in Brokers \cup {NoBroker}
                         /\ replica[b].image.leader_epoch \in Nat
    BY DEF TypeInv, ReplicaType, RowType
<1>2. partition.leader \in Brokers /\ partition.leader_epoch \in Nat /\ net \subseteq Message
    BY DEF TypeInv, RowOK, CommittedRow
<1> QED
    BY <1>1, <1>2 DEF Shape, LogOf, LeadOf, TermOf

\* A step that leaves the logs, the images and the row alone.
LEMMA QuietLogs ==
    ASSUME LogInv, partition' = partition, \A m \in net' : m \in net \/ ~IsExchange(m),
           \A v \in Brokers : replica'[v].log = replica[v].log /\ replica'[v].image = replica[v].image
    PROVE  LogInv'
<1>1. LogOf' = LogOf /\ LeadOf' = LeadOf /\ TermOf' = TermOf
    BY DEF LogOf, LeadOf, TermOf
<1>2. PICK led \in Histories, who \in Leaders :
        LogState(led, who, LogOf, LeadOf, TermOf, partition.leader, partition.leader_epoch, net)
    BY DEF LogInv
<1>3. LogState(led, who, LogOf, LeadOf, TermOf, partition.leader, partition.leader_epoch, net')
    BY <1>2, FewerExchanges
<1> QED
    BY <1>1, <1>3 DEF LogInv

LEMMA RowLogs ==
    ASSUME TypeInv, LogInv, partition'.leader \in Brokers, RowStep(partition, partition'),
           replica' = replica, \A m \in net' : m \in net
    PROVE  LogInv'
<1>1. LogOf' = LogOf /\ LeadOf' = LeadOf /\ TermOf' = TermOf
    BY DEF LogOf, LeadOf, TermOf
<1>2. PICK logs, lead, term, leader, epoch, sent :
        /\ logs = LogOf /\ lead = LeadOf /\ term = TermOf
        /\ leader = partition.leader /\ epoch = partition.leader_epoch /\ sent = net
    OBVIOUS
<1>3. Shape(logs, lead, term, leader, epoch, sent)
    BY <1>2, StateShape
<1>4. PICK led \in Histories, who \in Leaders :
        LogState(led, who, logs, lead, term, leader, epoch, sent)
    BY <1>2 DEF LogInv
<1>5. PICK next, last, rest : next = partition'.leader /\ last = partition'.leader_epoch /\ rest = net'
    OBVIOUS
<1>6. next \in Brokers /\ \A m \in rest : m \in sent
    BY <1>2, <1>5
<1>7. \E who1 \in Leaders : LogState(led, who1, logs, lead, term, next, last, sent)
    <2>1. CASE next = leader /\ last = epoch
        BY <1>4, <2>1
    <2>2. CASE last = epoch + 1
        BY <1>3, <1>4, <1>6, <2>2, OpensEpoch
    <2> QED
        BY <1>2, <1>5, <2>1, <2>2 DEF RowStep
<1>8. PICK who1 \in Leaders : LogState(led, who1, logs, lead, term, next, last, sent)
    BY <1>7
<1>9. LogState(led, who1, logs, lead, term, next, last, rest)
    BY <1>6, <1>8, FewerExchanges
<1> QED
    BY <1>1, <1>2, <1>5, <1>9 DEF LogInv

LEMMA InstallRoleLogs ==
    ASSUME TypeInv, LogInv, NEW b \in Brokers, InstallRole(b)
    PROVE  LogInv'
<1>1. PICK r \in ReplicaType : r = replica[b] /\ ReplicaOK(r)
    BY DEF TypeInv
<1>2. PICK row \in RowType : /\ row = Row(b) /\ row.leader = partition.leader
                             /\ row.leader_epoch = partition.leader_epoch
    BY RowOfType
<1>3. PICK q : q = install_role(r, b, row)
    OBVIOUS
<1>4. q.image = row /\ q.log = r.log
    BY <1>3 DEF install_role, ReplicaType
<1>5. replica' = [replica EXCEPT ![b] = q] /\ replica \in [Brokers -> ReplicaType]
    BY <1>1, <1>2, <1>3 DEF InstallRole, TypeInv
<1>6. replica'[b] = q /\ \A v \in Brokers \ {b} : replica'[v] = replica[v]
    BY <1>5
<1>7. PICK logs, lead, term, leader, epoch, sent :
        /\ logs = LogOf /\ lead = LeadOf /\ term = TermOf
        /\ leader = partition.leader /\ epoch = partition.leader_epoch /\ sent = net
    OBVIOUS
<1>8. Shape(logs, lead, term, leader, epoch, sent)
    BY <1>7, StateShape
<1>9. PICK led \in Histories, who \in Leaders :
        LogState(led, who, logs, lead, term, leader, epoch, sent)
    BY <1>7 DEF LogInv
<1>10. PICK lead1, term1 : lead1 = LeadOf' /\ term1 = TermOf'
    OBVIOUS
<1>11. /\ lead1[b] = leader /\ term1[b] = epoch
       /\ \A v \in Brokers \ {b} : lead1[v] = lead[v] /\ term1[v] = term[v]
    BY <1>2, <1>4, <1>6, <1>7, <1>10 DEF LeadOf, TermOf
<1>12. LogOf' = logs
    <2>1. \A v \in Brokers : replica'[v].log = replica[v].log
        BY <1>1, <1>4, <1>6
    <2> QED
        BY <1>7, <2>1 DEF LogOf
<1>13. \E grown \in Histories : LogState(grown, who, logs, lead1, term1, leader, epoch, sent)
    BY <1>8, <1>9, <1>11, InstallsRow
<1>14. partition' = partition /\ net' = net
    BY DEF InstallRole
<1> QED
    BY <1>7, <1>10, <1>12, <1>13, <1>14 DEF LogInv

LEMMA ProduceLogs ==
    ASSUME TypeInv, LogInv, NEW b \in Brokers, NEW all \in BOOLEAN, Produce(b, all)
    PROVE  LogInv'
<1>1. PICK r \in ReplicaType : r = replica[b] /\ ReplicaOK(r)
    BY DEF TypeInv
<1>2. PICK q : q = append(r, all)
    OBVIOUS
<1>3. q.image = r.image /\ q.log = Append(r.log, r.image.leader_epoch)
    BY <1>2, AppendType
<1>4. r.image.leader = b
    BY <1>1 DEF Produce, replica_state_matches_image, leads
<1>5. replica' = [replica EXCEPT ![b] = q] /\ replica \in [Brokers -> ReplicaType]
    BY <1>1, <1>2 DEF Produce, TypeInv
<1>6. replica'[b] = q /\ \A v \in Brokers \ {b} : replica'[v] = replica[v]
    BY <1>5
<1>7. PICK logs, lead, term, leader, epoch, sent :
        /\ logs = LogOf /\ lead = LeadOf /\ term = TermOf
        /\ leader = partition.leader /\ epoch = partition.leader_epoch /\ sent = net
    OBVIOUS
<1>8. Shape(logs, lead, term, leader, epoch, sent)
    BY <1>7, StateShape
<1>9. PICK led \in Histories, who \in Leaders :
        LogState(led, who, logs, lead, term, leader, epoch, sent)
    BY <1>7 DEF LogInv
<1>10. PICK more : more = LogOf'
    OBVIOUS
<1>11. more \in [Brokers -> Seq(Nat)]
    <2>1. TypeInv'
        BY ProduceTypes
    <2>2. \A v \in Brokers : replica'[v].log \in Seq(Nat)
        BY <2>1 DEF TypeInv, ReplicaType
    <2> QED
        BY <1>10, <2>2 DEF LogOf
<1>12. /\ lead[b] = b /\ more[b] = Append(logs[b], term[b])
       /\ \A v \in Brokers \ {b} : more[v] = logs[v]
    BY <1>1, <1>3, <1>4, <1>6, <1>7, <1>10 DEF LogOf, LeadOf, TermOf
<1>13. LeadOf' = lead /\ TermOf' = term
    <2>1. \A v \in Brokers : replica'[v].image = replica[v].image
        BY <1>1, <1>3, <1>6
    <2> QED
        BY <1>7, <2>1 DEF LeadOf, TermOf
<1>14. \E grown \in Histories : LogState(grown, who, more, lead, term, leader, epoch, sent)
    BY <1>8, <1>9, <1>11, <1>12, AppendsRecord
<1>15. partition' = partition /\ net' = net
    BY DEF Produce
<1> QED
    BY <1>7, <1>10, <1>13, <1>14, <1>15 DEF LogInv

LEMMA FetchLogs ==
    ASSUME TypeInv, LogInv, NEW b \in Brokers, Fetch(b)
    PROVE  LogInv'
<1>1. PICK r \in ReplicaType : r = replica[b] /\ ReplicaOK(r)
    BY DEF TypeInv
<1>2. PICK m : m = [kind |-> "fetch", from |-> b, to |-> r.image.leader,
                    epoch |-> r.image.leader_epoch,
                    offset |-> Len(r.log), last |-> last_epoch(r.log)]
    OBVIOUS
<1>3. PICK logs, lead, term, leader, epoch, sent :
        /\ logs = LogOf /\ lead = LeadOf /\ term = TermOf
        /\ leader = partition.leader /\ epoch = partition.leader_epoch /\ sent = net
    OBVIOUS
<1>4. Shape(logs, lead, term, leader, epoch, sent)
    BY <1>3, StateShape
<1>5. PICK led \in Histories, who \in Leaders :
        LogState(led, who, logs, lead, term, leader, epoch, sent)
    BY <1>3 DEF LogInv
<1>6. /\ m.from = b /\ m.to = lead[b] /\ m.epoch = term[b] /\ m.kind = "fetch"
      /\ m.offset = Len(logs[b]) /\ m.last = last_epoch(logs[b])
    BY <1>1, <1>2, <1>3 DEF LogOf, LeadOf, TermOf
<1>7. lead[b] \in Brokers \ {b}
    BY <1>3 DEF Fetch, LeadOf
<1>8. ExchangeOK(led, who, logs, lead, term, epoch, m)
    <2>1. who[term[b]] = lead[b] /\ term[b] \in Nat
        BY <1>4, <1>5, <1>7 DEF LogState, ImagesOK, ImageOK, Shape
    <2>2. Knows(led, logs, m, epoch)
        BY <1>6 DEF Knows
    <2> QED
        BY <1>6, <1>7, <2>1, <2>2 DEF ExchangeOK
<1>9. \A n \in sent : IsExchange(n) => n.from # m.from \/ n.epoch # m.epoch
    BY <1>1, <1>2, <1>3 DEF Fetch, IsExchange
<1>10. LogState(led, who, logs, lead, term, leader, epoch, sent \cup {m})
    BY <1>5, <1>8, <1>9, OpensExchange
<1>11. partition' = partition /\ replica' = replica /\ net' = sent \cup {m}
    BY <1>1, <1>2, <1>3 DEF Fetch
<1>12. LogOf' = logs /\ LeadOf' = lead /\ TermOf' = term
    BY <1>3, <1>11 DEF LogOf, LeadOf, TermOf
<1> QED
    BY <1>3, <1>10, <1>11, <1>12 DEF LogInv

\* The next message of an exchange, while the logs and the images stay.
LEMMA ExchangeLogs ==
    ASSUME LogInv, NEW m \in net, IsExchange(m), NEW n,
           n.from = m.from, n.to = m.to, n.epoch = m.epoch,
           \A led \in Histories, who \in Leaders :
                /\ LogState(led, who, LogOf, LeadOf, TermOf, partition.leader,
                            partition.leader_epoch, net)
                /\ m.epoch = TermOf[m.from]
                => Knows(led, LogOf, n, partition.leader_epoch),
           net' = (net \ {m}) \cup {n}, partition' = partition,
           \A v \in Brokers : replica'[v].log = replica[v].log /\ replica'[v].image = replica[v].image
    PROVE  LogInv'
<1>1. LogOf' = LogOf /\ LeadOf' = LeadOf /\ TermOf' = TermOf
    BY DEF LogOf, LeadOf, TermOf
<1>2. PICK led \in Histories, who \in Leaders :
        LogState(led, who, LogOf, LeadOf, TermOf, partition.leader, partition.leader_epoch, net)
    BY DEF LogInv
<1>3. LogState(led, who, LogOf, LeadOf, TermOf, partition.leader, partition.leader_epoch,
               (net \ {m}) \cup {n})
    BY <1>2, ExchangeGoesOn
<1> QED
    BY <1>1, <1>3 DEF LogInv

LEMMA AnswerDivergingLogs ==
    ASSUME TypeInv, LogInv, NEW m \in net, AnswerDiverging(m)
    PROVE  LogInv'
<1>1. PICK n : n = [kind |-> "diverging", from |-> m.from, to |-> m.to, epoch |-> m.epoch,
                    end |-> end_offset_for_epoch(replica[m.to].log, m.last)]
    OBVIOUS
<1>2. n.kind = "diverging" /\ n.from = m.from /\ n.to = m.to /\ n.epoch = m.epoch
    BY <1>1
<1>3. \A led, logs, epoch : Knows(led, logs, n, epoch)
    BY <1>2 DEF Knows
<1>4. net' = (net \ {m}) \cup {n} /\ partition' = partition /\ replica' = replica /\ IsExchange(m)
    BY <1>1 DEF AnswerDiverging, IsExchange
<1> QED
    BY <1>2, <1>3, <1>4, ExchangeLogs

LEMMA StartReadLogs ==
    ASSUME TypeInv, LogInv, NEW m \in net, StartRead(m)
    PROVE  LogInv'
<1>1. PICK n : n = [kind |-> "read", from |-> m.from, to |-> m.to, epoch |-> m.epoch,
                    offset |-> m.offset, leader_log_end |-> Len(replica[m.to].log)]
    OBVIOUS
<1>2. n.kind = "read" /\ n.from = m.from /\ n.to = m.to /\ n.epoch = m.epoch /\ n.offset = m.offset
    BY <1>1
<1>3. net' = (net \ {m}) \cup {n} /\ partition' = partition /\ replica' = replica /\ IsExchange(m)
    BY <1>1 DEF StartRead, IsExchange
<1>4. m \in Message /\ m.kind = "fetch"
    BY DEF TypeInv, StartRead
<1>5. m.from \in Brokers /\ m.to \in Brokers
    BY <1>4, MessageFields
<1>6. ASSUME NEW led \in Histories, NEW who \in Leaders,
             LogState(led, who, LogOf, LeadOf, TermOf, partition.leader, partition.leader_epoch, net),
             m.epoch = TermOf[m.from]
      PROVE  Knows(led, LogOf, n, partition.leader_epoch)
    <2>1. PICK logs, epoch : logs = LogOf /\ epoch = partition.leader_epoch
        OBVIOUS
    <2>2. PICK log \in Seq(Nat), other \in Seq(Nat) : log = logs[m.from] /\ other = logs[m.to]
        BY <1>5, <2>1, StateShape DEF Shape
    <2>3. Sourced(led, log) /\ Sourced(led, other) /\ Ordered(other, epoch) /\ epoch \in Nat
        BY <1>5, <1>6, <2>1, <2>2, StateShape DEF LogState, LogsOK, Shape
    <2>4. m.offset = Len(log) /\ m.last = last_epoch(log)
        BY <1>3, <1>4, <1>6, <2>1, <2>2 DEF LogState, ExchangesOK, ExchangeOK, Knows
    <2>5. ~DivergesFrom(other, last_epoch(log), Len(log))
        BY <1>5, <2>1, <2>2, <2>4 DEF StartRead, LogOf
    <2>6. Begins(log, other)
        BY <2>3, <2>5, NotDiverging
    <2> QED
        BY <1>2, <2>1, <2>2, <2>4, <2>6 DEF Knows
<1> QED
    BY <1>2, <1>3, <1>6, ExchangeLogs

\* A log and the rest of the log it begins.
LEMMA RestBegins ==
    ASSUME NEW log \in Seq(Nat), NEW other \in Seq(Nat), Begins(log, other)
    PROVE  LET both == log \o SubSeq(other, Len(log) + 1, Len(other))
           IN  both \in Seq(Nat) /\ Begins(both, other)
<1>1. PICK n \in Nat : n = Len(log)
    OBVIOUS
<1>2. n <= Len(other) /\ \A k \in 1 .. n : log[k] = other[k]
    <2>1. CASE n = 0
        BY <1>1, <2>1
    <2>2. CASE n > 0
        <3>1. n \in 1 .. n
            BY <1>1, <2>2
        <3> QED
            BY <1>1, <3>1 DEF Begins, Same
    <2> QED
        BY <1>1, <2>1, <2>2
<1>3. PICK rest : rest = SubSeq(other, n + 1, Len(other))
    OBVIOUS
<1>4. /\ rest \in Seq(Nat) /\ Len(rest) = Len(other) - n
      /\ \A k \in 1 .. Len(other) - n : rest[k] = other[n + k]
    <2>1. rest \in Seq(Nat)
        BY <1>3, SuffixType
    <2>2. Len(rest) = Len(other) - n /\ \A k \in 1 .. Len(other) - n : rest[k] = other[n + k]
        BY <1>2, <1>3, SuffixType
    <2> QED
        BY <2>1, <2>2
<1>5. PICK both \in Seq(Nat) : both = log \o rest
    BY <1>4, ConcatType
<1>6. /\ Len(both) = Len(log) + Len(rest)
      /\ \A k \in 1 .. Len(log) : both[k] = log[k]
      /\ \A k \in 1 .. Len(rest) : both[Len(log) + k] = rest[k]
    <2>1. rest \in Seq(Nat)
        BY <1>4
    <2>2. /\ Len(log \o rest) = Len(log) + Len(rest)
          /\ \A k \in 1 .. Len(log) : (log \o rest)[k] = log[k]
          /\ \A k \in 1 .. Len(rest) : (log \o rest)[Len(log) + k] = rest[k]
        BY <2>1, ConcatType
    <2> QED
        BY <1>5, <2>2
<1>7. Len(both) = Len(other)
    BY <1>1, <1>4, <1>6
<1>8. \A k \in 1 .. Len(both) : both[k] = other[k]
    <2> TAKE k \in 1 .. Len(both)
    <2>1. CASE k <= n
        BY <1>1, <1>2, <1>6, <2>1
    <2>2. CASE k > n
        <3>1. k - n \in 1 .. Len(rest) /\ n + (k - n) = k
            BY SMTT(40), <1>1, <1>4, <1>7, <2>2
        <3>2. both[n + (k - n)] = rest[k - n] /\ rest[k - n] = other[n + (k - n)]
            BY <1>1, <1>4, <1>6, <3>1
        <3> QED
            BY <3>1, <3>2
    <2> QED
        BY <1>1, <2>1, <2>2
<1>9. Begins(both, other)
    BY <1>7, <1>8 DEF Begins, Same
<1> QED
    BY <1>1, <1>3, <1>5, <1>9

LEMMA FinishReadLogs ==
    ASSUME TypeInv, LogInv, NEW m \in net, NEW recent \in BOOLEAN, FinishRead(m, recent)
    PROVE  LogInv'
<1>1. m \in Message /\ m.kind = "read"
    BY DEF TypeInv, FinishRead
<1>2. m.from \in Brokers /\ m.to \in Brokers /\ m.offset \in Nat /\ IsExchange(m)
    BY <1>1, MessageFields DEF IsExchange
<1>3. PICK q : q = Recorded(m, m.leader_log_end, recent)
    OBVIOUS
<1>4. q.log = replica[m.to].log /\ q.image = replica[m.to].image
    BY <1>1, <1>3, RecordedType
<1>5. replica' = [replica EXCEPT ![m.to] = q] /\ replica \in [Brokers -> ReplicaType]
    BY <1>3 DEF FinishRead, TypeInv
<1>6. replica'[m.to] = q /\ \A v \in Brokers \ {m.to} : replica'[v] = replica[v]
    BY <1>2, <1>5
<1>7. \A v \in Brokers : replica'[v].log = replica[v].log /\ replica'[v].image = replica[v].image
    BY <1>4, <1>6
<1>8. PICK records : records = SubSeq(replica[m.to].log, m.offset + 1, Len(replica[m.to].log))
    OBVIOUS
<1>9. PICK n : n = [kind |-> "records", from |-> m.from, to |-> m.to, epoch |-> m.epoch,
                    offset |-> m.offset, records |-> records, hw |-> replica[m.to].hw]
    OBVIOUS
<1>10. n.kind = "records" /\ n.from = m.from /\ n.to = m.to /\ n.epoch = m.epoch /\ n.records = records
    BY <1>9
<1>11. net' = (net \ {m}) \cup {n} /\ partition' = partition
    BY <1>8, <1>9 DEF FinishRead
<1>12. ASSUME NEW led \in Histories, NEW who \in Leaders,
              LogState(led, who, LogOf, LeadOf, TermOf, partition.leader, partition.leader_epoch, net),
              m.epoch = TermOf[m.from]
       PROVE  Knows(led, LogOf, n, partition.leader_epoch)
    <2>1. PICK logs, epoch : logs = LogOf /\ epoch = partition.leader_epoch
        OBVIOUS
    <2>2. PICK log \in Seq(Nat), other \in Seq(Nat) : log = logs[m.from] /\ other = logs[m.to]
        BY <1>2, <2>1, StateShape DEF Shape
    <2>3. Sourced(led, other) /\ Ordered(other, epoch) /\ epoch \in Nat
        BY <1>2, <1>12, <2>1, <2>2, StateShape DEF LogState, LogsOK, Shape
    <2>4. m.offset = Len(log) /\ Begins(log, other)
        BY <1>1, <1>2, <1>12, <2>1, <2>2 DEF LogState, ExchangesOK, ExchangeOK, Knows
    <2>5. records = SubSeq(other, Len(log) + 1, Len(other))
        BY <1>2, <1>8, <2>1, <2>2, <2>4 DEF LogOf
    <2>6. PICK both \in Seq(Nat) : both = log \o records /\ Begins(both, other)
        BY <2>4, <2>5, RestBegins
    <2>7. Sourced(led, both) /\ Ordered(both, epoch)
        BY <2>3, <2>6, BeginningSourced
    <2> QED
        BY <1>10, <2>1, <2>2, <2>6, <2>7 DEF Knows
<1> QED
    BY <1>2, <1>7, <1>10, <1>11, <1>12, ExchangeLogs

LEMMA ApplyAnswerLogs ==
    ASSUME ReadsSettle, TypeInv, LogInv, NEW m \in net, ApplyAnswer(m)
    PROVE  LogInv'
<1>1. m \in Message /\ m.kind \in {"records", "diverging"} /\ m.from \in Brokers /\ IsExchange(m)
    BY ApplyAnswerReplica DEF IsExchange
<1>2. PICK r : r = replica[m.from] /\ ReplicaOK(r)
    BY <1>1 DEF TypeInv
<1>3. PICK q : q = IF SameTarget(m) THEN Applied(m, r) ELSE r
    OBVIOUS
<1>4. replica' = [replica EXCEPT ![m.from] = q] /\ replica \in [Brokers -> ReplicaType]
    BY <1>2, <1>3, ApplyAnswerReplica DEF TypeInv
<1>5. replica'[m.from] = q /\ \A v \in Brokers \ {m.from} : replica'[v] = replica[v]
    BY <1>1, <1>4
<1>6. net' = net \ {m} /\ partition' = partition
    BY DEF ApplyAnswer
<1>7. CASE q = r
    <2>1. \A v \in Brokers : replica'[v] = replica[v]
        BY <1>2, <1>5, <1>7
    <2> QED
        BY <1>6, <2>1, QuietLogs
<1>8. CASE q # r
    <2>1. SameTarget(m) /\ q = Applied(m, r)
        BY <1>3, <1>8
    <2>2. /\ q.image = r.image
          /\ \/ \E n \in 0 .. Len(r.log) : q.log = Prefix(r.log, n)
             \/ m.kind = "records" /\ q.log = r.log \o m.records
             \/ q.log = r.log
        BY <1>1, <1>2, <2>1, AppliedType
    <2>3. PICK logs, lead, term, leader, epoch, sent :
            /\ logs = LogOf /\ lead = LeadOf /\ term = TermOf
            /\ leader = partition.leader /\ epoch = partition.leader_epoch /\ sent = net
        OBVIOUS
    <2>4. Shape(logs, lead, term, leader, epoch, sent)
        BY <2>3, StateShape
    <2>5. PICK led \in Histories, who \in Leaders :
            LogState(led, who, logs, lead, term, leader, epoch, sent)
        BY <2>3 DEF LogInv
    <2>6. PICK more : more = LogOf'
        OBVIOUS
    <2>7. more \in [Brokers -> Seq(Nat)] /\ epoch \in Nat
        <3>1. TypeInv'
            BY ApplyAnswerTypes
        <3>2. \A v \in Brokers : replica'[v].log \in Seq(Nat)
            BY <3>1 DEF TypeInv, ReplicaType
        <3> QED
            BY <2>4, <2>6, <3>2 DEF LogOf, Shape
    <2>8. /\ more[m.from] = q.log /\ logs[m.from] = r.log
          /\ \A v \in Brokers \ {m.from} : more[v] = logs[v]
        BY <1>1, <1>2, <1>5, <2>3, <2>6 DEF LogOf
    <2>9. LeadOf' = lead /\ TermOf' = term
        <3>1. \A v \in Brokers : replica'[v].image = replica[v].image
            BY <1>2, <1>5, <2>2
        <3> QED
            BY <2>3, <3>1 DEF LeadOf, TermOf
    <2>10. m \in sent /\ m.epoch = term[m.from]
        BY <1>1, <2>1, <2>3 DEF SameTarget, TermOf
    <2>11. PICK log \in Seq(Nat), next \in Seq(Nat) : log = logs[m.from] /\ next = more[m.from]
        BY <1>1, <2>4, <2>7 DEF Shape
    <2>12. Sourced(led, log) /\ Ordered(log, epoch)
        BY <1>1, <2>5, <2>11 DEF LogState, LogsOK
    <2>13. Sourced(led, next) /\ Ordered(next, epoch)
        <3>1. CASE \E n \in 0 .. Len(log) : next = Prefix(log, n)
            <4>1. Begins(next, log)
                BY <2>11, <3>1, PrefixBegins
            <4> QED
                BY <2>7, <2>12, <4>1, BeginningSourced
        <3>2. CASE m.kind = "records" /\ next = log \o m.records
            BY <1>1, <2>5, <2>10, <2>11, <3>2 DEF LogState, ExchangesOK, ExchangeOK, Knows
        <3>3. CASE next = log
            BY <2>12, <3>3
        <3> QED
            BY <2>2, <2>8, <2>11, <3>1, <3>2, <3>3
    <2>14. \A n \in sent : n.kind = "read" => n.to # m.from
        BY <2>3 DEF ApplyAnswer
    <2>15. LogState(led, who, more, lead, term, leader, epoch, sent \ {m})
        BY <1>1, <2>4, <2>5, <2>7, <2>8, <2>10, <2>11, <2>13, <2>14, TakesAnswer
    <2> QED
        BY <1>6, <2>3, <2>6, <2>9, <2>15 DEF LogInv
<1> QED
    BY <1>7, <1>8

LEMMA CrashLogs ==
    ASSUME TypeInv, LogInv, NEW b \in Brokers, Crash(b)
    PROVE  LogInv'
<1>1. PICK r \in ReplicaType : r = replica[b]
    BY DEF TypeInv
<1>2. PICK q : q = new_replica(r.log)
    OBVIOUS
<1>3. q.log = r.log /\ q.image = NoRow
    BY <1>2 DEF new_replica
<1>4. replica' = [replica EXCEPT ![b] = q] /\ replica \in [Brokers -> ReplicaType]
    BY <1>1, <1>2 DEF Crash, TypeInv
<1>5. replica'[b] = q /\ \A v \in Brokers \ {b} : replica'[v] = replica[v]
    BY <1>4
<1>6. PICK logs, lead, term, leader, epoch, sent :
        /\ logs = LogOf /\ lead = LeadOf /\ term = TermOf
        /\ leader = partition.leader /\ epoch = partition.leader_epoch /\ sent = net
    OBVIOUS
<1>7. Shape(logs, lead, term, leader, epoch, sent)
    BY <1>6, StateShape
<1>8. PICK led \in Histories, who \in Leaders :
        LogState(led, who, logs, lead, term, leader, epoch, sent)
    BY <1>6 DEF LogInv
<1>9. PICK lead1, term1, rest : lead1 = LeadOf' /\ term1 = TermOf' /\ rest = net'
    OBVIOUS
<1>10. /\ lead1[b] = NoBroker /\ term1[b] = 0
       /\ \A v \in Brokers \ {b} : lead1[v] = lead[v] /\ term1[v] = term[v]
    BY <1>3, <1>5, <1>6, <1>9 DEF LeadOf, TermOf, NoRow
<1>11. LogOf' = logs
    <2>1. \A v \in Brokers : replica'[v].log = replica[v].log
        BY <1>1, <1>3, <1>5
    <2> QED
        BY <1>6, <2>1 DEF LogOf
<1>12. (\A m \in rest : m \in sent /\ m.from # b) /\ partition' = partition
    BY <1>6, <1>9 DEF Crash
<1>13. LogState(led, who, logs, lead1, term1, leader, epoch, rest)
    BY <1>7, <1>8, <1>10, <1>12, StopsBroker
<1> QED
    BY <1>6, <1>9, <1>11, <1>12, <1>13 DEF LogInv

LEMMA InstallIsrLogs ==
    ASSUME TypeInv, LogInv, NEW b \in Brokers, InstallIsr(b)
    PROVE  LogInv'
<1>1. PICK r \in ReplicaType : r = replica[b]
    BY DEF TypeInv
<1>2. PICK q : q = install_isr(r, b)
    OBVIOUS
<1>3. q.log = r.log /\ q.image = r.image
    BY <1>2, InstallIsrType
<1>4. replica' = [replica EXCEPT ![b] = q] /\ replica \in [Brokers -> ReplicaType]
    BY <1>1, <1>2 DEF InstallIsr, TypeInv
<1>5. \A v \in Brokers : replica'[v].log = replica[v].log /\ replica'[v].image = replica[v].image
    BY <1>1, <1>3, <1>4
<1>6. partition' = partition /\ net' = net
    BY DEF InstallIsr
<1> QED
    BY <1>5, <1>6, QuietLogs

LEMMA FinishAckLogs ==
    ASSUME TypeInv, LogInv, NEW b \in Brokers, NEW offset \in replica[b].waiting,
           FinishAck(b, offset)
    PROVE  LogInv'
<1>1. PICK r \in ReplicaType : r = replica[b]
    BY DEF TypeInv
<1>2. PICK q : q = [r EXCEPT !.waiting = @ \ {offset}]
    OBVIOUS
<1>3. q.log = r.log /\ q.image = r.image
    BY <1>2 DEF ReplicaType
<1>4. replica' = [replica EXCEPT ![b] = q] /\ replica \in [Brokers -> ReplicaType]
    BY <1>1, <1>2 DEF FinishAck, TypeInv
<1>5. \A v \in Brokers : replica'[v].log = replica[v].log /\ replica'[v].image = replica[v].image
    BY <1>1, <1>3, <1>4
<1>6. partition' = partition /\ net' = net
    BY DEF FinishAck
<1> QED
    BY <1>5, <1>6, QuietLogs

LEMMA ScanLogs ==
    ASSUME TypeInv, LogInv, NEW b \in Brokers, Scan(b) \/ \E f \in Brokers : Lapse(b, f)
    PROVE  LogInv'
<1>1. CASE Scan(b)
    <2>1. partition' = partition
        BY <1>1 DEF Scan
    <2>2. /\ \A m \in net' : m \in net \/ m.kind = "alter"
          /\ \A v \in Brokers : replica'[v].log = replica[v].log /\ replica'[v].image = replica[v].image
        BY <1>1, ScanTypes
    <2> QED
        BY <2>1, <2>2, QuietLogs DEF IsExchange
<1>2. ASSUME NEW f \in Brokers, Lapse(b, f) PROVE LogInv'
    <2>1. partition' = partition /\ net' = net
        BY <1>2 DEF Lapse
    <2>2. \A v \in Brokers : replica'[v].log = replica[v].log /\ replica'[v].image = replica[v].image
        BY <1>2, LapseTypes
    <2> QED
        BY <2>1, <2>2, QuietLogs
<1> QED
    BY <1>1, <1>2

LEMMA LoseLogs ==
    ASSUME LogInv, NEW m \in net, RefuseFetch(m) \/ Lose(m)
    PROVE  LogInv'
<1>1. partition' = partition /\ replica' = replica /\ net' = net \ {m}
    BY DEF RefuseFetch, Lose
<1> QED
    BY <1>1, QuietLogs

LEMMA ControllerLogs ==
    ASSUME TypeInv, LogInv,
           \/ \E b \in Brokers : Fence(b) \/ Unfence(b) \/ Restart(b)
           \/ \E m \in net : AlterPartition(m)
    PROVE  LogInv'
<1>1. ASSUME NEW b \in Brokers, Fence(b) \/ Unfence(b) \/ Restart(b) PROVE LogInv'
    <2>1. TypeInv' /\ RowStep(partition, partition') /\ replica' = replica /\ net' = net
        BY <1>1, MembershipTypes
    <2>2. partition'.leader \in Brokers
        BY <2>1 DEF TypeInv, RowOK, CommittedRow
    <2> QED
        BY <2>1, <2>2, RowLogs
<1>2. ASSUME NEW m \in net, AlterPartition(m) PROVE LogInv'
    <2>1. TypeInv' /\ RowStep(partition, partition')
        BY <1>2, AlterPartitionTypes
    <2>2. partition'.leader \in Brokers
        BY <2>1 DEF TypeInv, RowOK, CommittedRow
    <2>3. replica' = replica /\ \A n \in net' : n \in net
        BY <1>2 DEF AlterPartition
    <2> QED
        BY <2>1, <2>2, <2>3, RowLogs
<1> QED
    BY <1>1, <1>2

\* No log has a record, and the first epoch is the first leader's.
LEMMA InitLogs ==
    ASSUME Init
    PROVE  LogInv
<1>1. Min(Brokers) \in Brokers
    BY BrokersAssumption, FirstBroker
<1>2. <<>> \in Seq(Nat)
    OBVIOUS
<1>3. PICK led \in Histories : led = [e \in Nat |-> <<>>]
    BY <1>2 DEF Histories
<1>4. PICK who \in Leaders : who = [e \in Nat |-> Min(Brokers)]
    BY <1>1 DEF Leaders
<1>5. partition.leader = Min(Brokers) /\ partition.leader_epoch = 1 /\ net = {}
    BY DEF Init, NewPartition
<1>6. \A e \in Nat : led[e] = <<>>
    BY <1>3
<1>7. PICK logs, lead, term : logs = LogOf /\ lead = LeadOf /\ term = TermOf
    OBVIOUS
<1>8. \A b \in Brokers : logs[b] = <<>> /\ lead[b] = NoBroker /\ term[b] = 0
    BY <1>7 DEF LogOf, LeadOf, TermOf, Init, new_replica, NoRow
<1>9. \A e \in Nat : Sourced(led, <<>>) /\ Ordered(<<>>, e)
    BY DEF Sourced, Ordered
<1>10. LedOK(led, 1) /\ LogsOK(led, logs, 1)
    BY <1>6, <1>8, <1>9 DEF LedOK, LogsOK
<1>11. ImagesOK(led, who, logs, lead, term, 1)
    BY <1>8, NoBrokerAssumption DEF ImagesOK, ImageOK
<1>12. RowLed(led, who, logs, lead, term, Min(Brokers), 1)
    BY <1>4, <1>6 DEF RowLed
<1>13. ExchangesOK(led, who, logs, lead, term, 1, {}) /\ OneExchange({})
    BY DEF ExchangesOK, OneExchange
<1>14. LogState(led, who, logs, lead, term, Min(Brokers), 1, {})
    BY <1>10, <1>11, <1>12, <1>13 DEF LogState
<1> QED
    BY <1>5, <1>7, <1>14 DEF LogInv

\* Every step keeps the invariant.
LEMMA NextLogs ==
    ASSUME ReadsSettle, TypeInv, LogInv, [Next]_vars
    PROVE  LogInv'
<1>1. CASE UNCHANGED vars
    <2>1. partition' = partition /\ replica' = replica /\ net' = net
        BY <1>1 DEF vars
    <2> QED
        BY <2>1, QuietLogs
<1>2. ASSUME NEW b \in Brokers,
             \/ InstallRole(b) \/ InstallIsr(b)
             \/ \E all \in BOOLEAN : Produce(b, all)
             \/ \E offset \in replica[b].waiting : FinishAck(b, offset)
             \/ Fetch(b) \/ Scan(b)
             \/ \E f \in Brokers : Lapse(b, f)
             \/ Fence(b) \/ Unfence(b) \/ Crash(b) \/ Restart(b)
      PROVE  LogInv'
    BY <1>2, InstallRoleLogs, InstallIsrLogs, ProduceLogs, FinishAckLogs, FetchLogs, ScanLogs,
       ControllerLogs, CrashLogs
<1>3. ASSUME NEW m \in net,
             \/ RefuseFetch(m) \/ AnswerDiverging(m)
             \/ StartRead(m) \/ \E recent \in BOOLEAN : FinishRead(m, recent)
             \/ ApplyAnswer(m) \/ AlterPartition(m) \/ Lose(m)
      PROVE  LogInv'
    BY <1>3, LoseLogs, AnswerDivergingLogs, StartReadLogs, FinishReadLogs, ApplyAnswerLogs,
       ControllerLogs
<1> QED
    BY <1>1, <1>2, <1>3 DEF Next

LEMMA LogInvMatches ==
    ASSUME TypeInv, LogInv
    PROVE  LogsMatch
<1>1. PICK led \in Histories, who \in Leaders :
        LogState(led, who, LogOf, LeadOf, TermOf, partition.leader, partition.leader_epoch, net)
    BY DEF LogInv
<1>2. SUFFICES ASSUME NEW a \in Brokers, NEW b \in Brokers,
                      NEW k \in 1 .. Min({Len(replica[a].log), Len(replica[b].log)}),
                      replica[a].log[k] = replica[b].log[k]
               PROVE  Prefix(replica[a].log, k) = Prefix(replica[b].log, k)
    BY DEF LogsMatch
<1>3. PICK log \in Seq(Nat), other \in Seq(Nat) : log = replica[a].log /\ other = replica[b].log
    BY DEF TypeInv, ReplicaType
<1>4. Sourced(led, log) /\ Sourced(led, other)
    BY <1>1, <1>3 DEF LogState, LogsOK, LogOf
<1>5. k \in 1 .. Len(log) /\ k \in 1 .. Len(other) /\ k \in Nat
    <2>1. k \in 1 .. Min({Len(log), Len(other)}) /\ Len(log) \in Nat /\ Len(other) \in Nat
        BY <1>3
    <2>2. Min({Len(log), Len(other)}) = IF Len(log) <= Len(other) THEN Len(log) ELSE Len(other)
        BY SMTT(40), <2>1, MinOfTwo
    <2> QED
        BY <2>1, <2>2
<1>6. Same(log, other, k)
    BY <1>2, <1>3, <1>4, <1>5, SourcedMatch
<1>7. Prefix(log, k) = Prefix(other, k)
    <2>1. PICK p, q : p = Prefix(log, k) /\ q = Prefix(other, k)
        OBVIOUS
    <2>2. p \in Seq(Nat) /\ q \in Seq(Nat) /\ Len(p) = k /\ Len(q) = k
        BY <1>5, <2>1, PrefixType
    <2>3. \A j \in 1 .. k : p[j] = log[j] /\ q[j] = other[j]
        BY <1>5, <2>1, PrefixType
    <2>4. \A j \in 1 .. k : p[j] = q[j]
        BY <1>6, <2>3 DEF Same
    <2>5. p = q
        BY <2>2, <2>4, SeqEqual
    <2> QED
        BY <2>1, <2>5
<1> QED
    BY <1>3, <1>7

\* While reads settle, two replicas that hold a record of one epoch at one
\* offset agree on everything below it, through elections, truncations,
\* crashes and answers that are lost or arrive late, for any brokers.
THEOREM PartitionLogsMatch ==
    ASSUME ReadsSettle
    PROVE  Spec => []LogsMatch
<1>1. Init => TypeInv /\ LogInv
    BY InitTypes, InitLogs
<1>2. TypeInv /\ LogInv /\ [Next]_vars => (TypeInv /\ LogInv)'
    BY NextTypes, NextLogs
<1>3. TypeInv /\ LogInv => LogsMatch
    BY LogInvMatches
<1> QED
    BY <1>1, <1>2, <1>3, PTL DEF Spec

=============================================================================
