----------------------------- MODULE KraftCore -----------------------------
(***************************************************************************)
(* The sans-IO consensus core of one KRaft controller replica              *)
(* (QuorumStateMachine) under a static voter set, beside the metadata log  *)
(* it reads.  A handler takes a replica and returns a step: the replica it *)
(* leaves and the peer messages the engine sends for the actions it emits. *)
(* One engine turn runs a handler and every action it emits, the persist   *)
(* of the quorum state included, so a step is atomic.                      *)
(*                                                                         *)
(* Left out: deadlines (a timer that is armed may fire at any time),       *)
(* directory ids and cluster ids (every replica belongs to the cluster),   *)
(* observers and the adjacent voter set of KIP-853.                        *)
(***************************************************************************)
EXTENDS MetadataLog

CONSTANTS
    Voters,     \* the static voter set
    Nil         \* no node, no vote, no divergence hint

ASSUME VotersAssumption == IsFiniteSet(Voters) /\ Voters # {} /\ Nil \notin Voters
ASSUME NilAssumption == Nil \notin OffsetAndEpoch

MaybeVoter == Voters \cup {Nil}

(***************************************************************************)
(* Roles, one constructor per variant of the source's enum.                *)
(***************************************************************************)
Unattached == [name |-> "Unattached"]
Voted == [name |-> "Voted"]
Resigned == [name |-> "Resigned"]

Follower(leader, hasFetched) ==
    [name |-> "Follower", leader |-> leader, hasFetched |-> hasFetched]

Prospective(granted, rejected, abandoned) ==
    [name |-> "Prospective", granted |-> granted, rejected |-> rejected,
     abandoned |-> abandoned]

Candidate(granted) == [name |-> "Candidate", granted |-> granted]

Leader(replicas, highWatermark, epochStart) ==
    [name |-> "Leader", replicas |-> replicas, highWatermark |-> highWatermark,
     epochStart |-> epochStart]

Role ==
    {Unattached, Voted, Resigned}
        \cup [name : {"Follower"}, leader : Voters, hasFetched : BOOLEAN]
        \cup [name : {"Prospective"}, granted : SUBSET Voters,
              rejected : SUBSET Voters, abandoned : MaybeVoter]
        \cup [name : {"Candidate"}, granted : SUBSET Voters]
        \cup [name : {"Leader"}, replicas : [Voters -> Nat],
              highWatermark : Nat, epochStart : Nat]

(***************************************************************************)
(* A replica: the quorum state (epoch, leader, vote), the role, the log    *)
(* and the high watermark of the log.                                      *)
(***************************************************************************)
Replica == [epoch : Nat, leaderId : MaybeVoter, votedKey : MaybeVoter,
            role : Role, log : Seq(Nat), hwm : Nat]

\* QuorumState::bootstrap with an empty log.
BootstrapReplica == [epoch |-> 0, leaderId |-> Nil, votedKey |-> Nil,
                     role |-> Unattached, log |-> <<>>, hwm |-> 0]

known_leader(r) == IF r.role.name = "Prospective" /\ r.leaderId = Nil
                   THEN r.role.abandoned
                   ELSE r.leaderId

majority == (Cardinality(Voters) \div 2) + 1
HasQuorum(S) == Cardinality(S) >= majority

(***************************************************************************)
(* Messages, and steps.                                                    *)
(***************************************************************************)
VoteRequest(me, to, r, preVote) ==
    [type |-> "Vote", from |-> me, to |-> to, epoch |-> r.epoch,
     lastEpoch |-> last_epoch(r.log), lastOffset |-> end_offset(r.log),
     preVote |-> preVote]

BeginQuorumEpoch(me, to, r) ==
    [type |-> "BeginQuorumEpoch", from |-> me, to |-> to, epoch |-> r.epoch]

EndQuorumEpoch(me, to, r, first) ==
    [type |-> "EndQuorumEpoch", from |-> me, to |-> to, epoch |-> r.epoch,
     first |-> first]

\* A replica sends no Fetch to itself.
send_fetch(me, to, r) ==
    IF to = me THEN {}
    ELSE {[type |-> "Fetch", from |-> me, to |-> to, epoch |-> r.epoch,
           fetchEpoch |-> last_epoch(r.log), fetchOffset |-> end_offset(r.log)]}

other_voters(me) == Voters \ {me}

Step(r, send) == [replica |-> r, send |-> send]
NoStep(r) == Step(r, {})

(***************************************************************************)
(* Role transitions.                                                       *)
(***************************************************************************)

\* Wait in this epoch for an election: Voted once this replica voted in it.
await_election(r) ==
    [r EXCEPT !.role = IF r.votedKey # Nil THEN Voted ELSE Unattached]

\* Mutant: the leader of the epoch it leaves is not reset.
transition_to_unattached_keeping(r, epoch) ==
    [r EXCEPT !.epoch = epoch, !.votedKey = Nil, !.role = Unattached]

\* Adopt an epoch with no leader and no vote in it.
transition_to_unattached(r, epoch) ==
    [r EXCEPT !.epoch = epoch, !.leaderId = Nil, !.votedKey = Nil,
              !.role = Unattached]

\* One leader per epoch: an equal epoch is taken only with no leader in it.
AcceptsLeader(r, epoch) ==
    epoch > r.epoch \/ (epoch = r.epoch /\ r.leaderId = Nil)

\* Mutant: the vote is cleared whenever a leader is followed.
handle_begin_quorum_epoch_unvoted(me, r, leader, epoch) ==
    LET f == [r EXCEPT !.epoch = epoch, !.leaderId = leader, !.votedKey = Nil,
                       !.role = Follower(leader, FALSE)]
    IN  IF AcceptsLeader(r, epoch)
        THEN Step(f, send_fetch(me, leader, f))
        ELSE NoStep(r)

\* Follow a leader of this epoch or of a newer one; only a newer epoch
\* clears the vote.
handle_begin_quorum_epoch(me, r, leader, epoch) ==
    LET f == [r EXCEPT !.epoch = epoch,
                       !.leaderId = leader,
                       !.votedKey = IF epoch > r.epoch THEN Nil ELSE @,
                       !.role = Follower(leader, FALSE)]
    IN  IF AcceptsLeader(r, epoch)
        THEN Step(f, send_fetch(me, leader, f))
        ELSE NoStep(r)

\* A lone voter's own append is already on a majority.
advance_if_single_voter(r) ==
    IF majority = 1
    THEN [r EXCEPT !.hwm = advance_high_watermark(@, Len(r.log), Len(r.log))]
    ELSE r

\* Lead the epoch this replica stands in: append its LeaderChange batch and
\* announce the epoch.
promote_to_leader(me, r) ==
    LET l == [r EXCEPT !.leaderId = me,
                       !.role = Leader([v \in Voters |-> 0], 0, end_offset(r.log)),
                       !.log = Append(@, r.epoch)]
    IN  Step(advance_if_single_voter(l),
             {BeginQuorumEpoch(me, v, l) : v \in other_voters(me)})

\* The pre-vote succeeded: open the next epoch with a vote for itself.
promote_to_candidate(me, r) ==
    LET c == [r EXCEPT !.epoch = @ + 1, !.leaderId = Nil, !.votedKey = me,
                       !.role = Candidate({me})]
        votes == {VoteRequest(me, v, c, FALSE) : v \in other_voters(me)}
        won == promote_to_leader(me, c)
    IN  IF HasQuorum({me})
        THEN Step(won.replica, votes \cup won.send)
        ELSE Step(c, votes)

\* Give up on the leader of this epoch, remember it, and broadcast a pre-vote
\* at the current epoch.
start_election(me, r) ==
    LET p == [r EXCEPT !.leaderId = Nil,
                       !.role = Prospective({me}, {}, known_leader(r))]
        preVotes == {VoteRequest(me, v, p, TRUE) : v \in other_voters(me)}
        won == promote_to_candidate(me, p)
    IN  IF HasQuorum({me})
        THEN Step(won.replica, preVotes \cup won.send)
        ELSE Step(p, preVotes)

\* A pre-vote round that times out returns to the leader it gave up on.
handle_election_timeout(me, r) ==
    IF /\ r.role.name = "Prospective"
       /\ r.role.abandoned # Nil
       /\ AcceptsLeader(r, r.epoch)
    THEN handle_begin_quorum_epoch(me, r, r.role.abandoned, r.epoch)
    ELSE start_election(me, r)

\* Step down without leaving the epoch, and name the first successor.
transition_to_resigned(me, r, first) ==
    LET d == [r EXCEPT !.leaderId = Nil, !.role = Resigned]
    IN  Step(d, {EndQuorumEpoch(me, v, d, first) : v \in other_voters(me)})

\* The most caught up voters; the source breaks a tie by node id.
preferred_successors(me, r) ==
    {v \in other_voters(me) :
        \A w \in other_voters(me) : r.role.replicas[v] >= r.role.replicas[w]}

\* A resigning leader's request: its first successor elects at once, any
\* other voter drops the leader and waits.  The request's epoch is not adopted.
handle_end_quorum_epoch(me, r, first) ==
    IF first = me
    THEN start_election(me, r)
    ELSE NoStep(await_election([r EXCEPT !.leaderId = Nil]))

(***************************************************************************)
(* Votes.                                                                  *)
(***************************************************************************)

can_grant_vote(r, candidate, upToDate, preVote) ==
    CASE r.role.name = "Leader" -> FALSE
      [] r.role.name = "Follower" ->
            preVote /\ ~r.role.hasFetched /\ upToDate
      [] r.role.name \in {"Candidate", "Resigned"} -> preVote /\ upToDate
      [] OTHER ->
            IF preVote THEN upToDate
            ELSE IF r.votedKey # Nil THEN r.votedKey = candidate
            ELSE known_leader(r) = Nil /\ upToDate

\* A vote or a pre-vote from a newer epoch first moves the replica there.
advance_epoch_for_vote(r, epoch) ==
    IF epoch > r.epoch THEN transition_to_unattached(r, epoch) ELSE r

\* Mutant: the vote is granted but not recorded.
handle_vote_request_unrecorded(r, m) ==
    LET a == advance_epoch_for_vote(r, m.epoch)
        granted == can_grant_vote(a, m.from,
                       log_is_up_to_date(a.log, m.lastEpoch, m.lastOffset), m.preVote)
    IN  [replica |-> IF granted /\ ~m.preVote THEN [a EXCEPT !.role = Voted] ELSE a,
         granted |-> granted]

\* The replica after the request, and whether it granted it.
handle_vote_request(r, m) ==
    LET a == advance_epoch_for_vote(r, m.epoch)
        granted == can_grant_vote(a, m.from,
                       log_is_up_to_date(a.log, m.lastEpoch, m.lastOffset), m.preVote)
    IN  [replica |-> IF granted /\ ~m.preVote
                     THEN [a EXCEPT !.votedKey = m.from, !.role = Voted]
                     ELSE a,
         granted |-> granted]

\* A refused pre-vote; the round ends once no majority is left to reach.
record_pre_vote_rejection(me, r, from) ==
    LET granted == r.role.granted \ {from}
        rejected == r.role.rejected \cup {from}
        n == [r EXCEPT !.role = Prospective(granted, rejected, r.role.abandoned)]
    IN  CASE HasQuorum(Voters \ rejected) -> NoStep(n)
          [] ~HasQuorum(Voters \ rejected) /\ r.role.abandoned # Nil ->
                handle_begin_quorum_epoch(me, n, r.role.abandoned, r.epoch)
          [] OTHER -> NoStep(await_election(n))

\* A grant is matched to the round by this replica's own role and epoch: the
\* response does not say whether it answers a vote or a pre-vote.
handle_vote_response(me, r, from, granted) ==
    LET grants == r.role.granted \cup {from}
        p == [r EXCEPT !.role = Prospective(grants, r.role.rejected \ {from},
                                            r.role.abandoned)]
        c == [r EXCEPT !.role = Candidate(grants)]
    IN  CASE r.role.name = "Prospective" /\ ~granted ->
                record_pre_vote_rejection(me, r, from)
          [] r.role.name = "Prospective" /\ granted ->
                IF HasQuorum(grants) THEN promote_to_candidate(me, p) ELSE NoStep(p)
          [] r.role.name = "Candidate" /\ granted ->
                IF HasQuorum(grants) THEN promote_to_leader(me, c) ELSE NoStep(c)
          [] OTHER -> NoStep(r)

(***************************************************************************)
(* Replication.                                                            *)
(***************************************************************************)

\* Mutant: the majority counts the leader twice.
MajorityOffsets_short(me, replicas, logEnd) ==
    {o \in {logEnd} \cup {replicas[v] : v \in other_voters(me)} :
        /\ o <= logEnd
        /\ Cardinality({v \in other_voters(me) : replicas[v] >= o}) + 2 >= majority}

\* The offsets that a majority has reached: the leader by its log end, each
\* follower by its last valid fetch, never counted past the leader's log end.
MajorityOffsets(me, replicas, logEnd) ==
    {o \in {logEnd} \cup {replicas[v] : v \in other_voters(me)} :
        /\ o <= logEnd
        /\ HasQuorum({me} \cup {v \in other_voters(me) : replicas[v] >= o})}

\* The greatest of them, but only past the start of the leader's own epoch.
recompute_high_watermark(me, r) ==
    LET reached == MajorityOffsets(me, r.role.replicas, end_offset(r.log))
        current == r.role.highWatermark
    IN  IF \E o \in reached : o > r.role.epochStart /\ o > current
        THEN Max(reached)
        ELSE current

\* A valid fetch is the follower's acknowledgement of everything below it.
handle_fetch(me, r, from, fetchOffset) ==
    LET f == [r EXCEPT !.role.replicas[from] = fetchOffset]
        hwm == recompute_high_watermark(me, f)
    IN  IF hwm > r.role.highWatermark
        THEN [f EXCEPT !.role.highWatermark = hwm,
                       !.hwm = advance_high_watermark(@, hwm, end_offset(r.log))]
        ELSE f

\* Cut the log at an offset and clamp the high watermark.
truncate_to(r, offset) ==
    LET log == Prefix(r.log, IF offset <= Len(r.log) THEN offset ELSE Len(r.log))
    IN  [r EXCEPT !.log = log, !.hwm = truncation_frontier(@, Len(log))]

\* Batches at base and above: those the log already holds are skipped, and a
\* run that starts past the log end leaves a gap and is dropped.
append_fetched(log, base, records) ==
    LET held == Len(log) - base
    IN  IF base <= Len(log) /\ held < Len(records)
        THEN log \o SubSeq(records, held + 1, Len(records))
        ELSE log

\* Follower side: truncate on a hint, or append and advance the watermark to
\* what the leader has committed; then fetch again.
handle_fetch_response(me, r, m) ==
    LET log == append_fetched(r.log, m.base, m.records)
        n == IF m.diverging # Nil
             THEN truncate_to(r, follower_truncation_offset(m.diverging, r.log))
             ELSE [r EXCEPT !.log = log,
                            !.hwm = advance_high_watermark(@, m.hwm, Len(log))]
        f == [n EXCEPT !.role = Follower(m.from, TRUE)]
    IN  Step(f, send_fetch(me, m.from, f))

=============================================================================
