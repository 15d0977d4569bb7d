-------------------------- MODULE KraftVoteProofs ---------------------------
(***************************************************************************)
(* Type correctness and election safety of the quorum.  Types first: a     *)
(* lemma for every handler of KraftCore, then one case for every action.   *)
(***************************************************************************)
EXTENDS KraftQuorum, MetadataLogProofs, FiniteSetTheorems

\* What a handler returns.
StepType == [replica : Replica, send : SUBSET Message]

\* Every constructor builds a role.
LEMMA RoleConstructors ==
    /\ Unattached \in Role /\ Voted \in Role /\ Resigned \in Role
    /\ \A l \in Voters, b \in BOOLEAN : Follower(l, b) \in Role
    /\ \A g, j \in SUBSET Voters, a \in MaybeVoter : Prospective(g, j, a) \in Role
    /\ \A g \in SUBSET Voters : Candidate(g) \in Role
    /\ \A f \in [Voters -> Nat], h, s \in Nat : Leader(f, h, s) \in Role
BY DEF Role, Unattached, Voted, Resigned, Follower, Prospective, Candidate, Leader

\* What each role carries.
LEMMA RoleFields ==
    ASSUME NEW role \in Role
    PROVE  /\ role.name = "Follower" => role.leader \in Voters /\ role.hasFetched \in BOOLEAN
           /\ role.name = "Prospective" =>
                role.granted \in SUBSET Voters /\ role.rejected \in SUBSET Voters
                    /\ role.abandoned \in MaybeVoter
           /\ role.name = "Candidate" => role.granted \in SUBSET Voters
           /\ role.name = "Leader" =>
                role \in [name : {"Leader"}, replicas : [Voters -> Nat],
                          highWatermark : Nat, epochStart : Nat]
BY DEF Role, Unattached, Voted, Resigned

\* What a replica carries.
LEMMA ReplicaFields ==
    ASSUME NEW r \in Replica
    PROVE  /\ r.epoch \in Nat /\ r.leaderId \in MaybeVoter /\ r.votedKey \in MaybeVoter
           /\ r.role \in Role /\ r.log \in Seq(Nat) /\ r.hwm \in Nat
           /\ end_offset(r.log) \in Nat /\ last_epoch(r.log) \in Nat
BY LastEpochType DEF Replica

\* The leader a replica knows is a voter, or none.
LEMMA KnownLeaderType ==
    ASSUME NEW r \in Replica
    PROVE  known_leader(r) \in MaybeVoter
BY ReplicaFields, RoleFields DEF known_leader

\* The requests a replica sends are messages.
LEMMA RequestTypes ==
    ASSUME NEW me \in Voters, NEW to \in Voters, NEW r \in Replica
    PROVE  /\ \A p \in BOOLEAN : VoteRequest(me, to, r, p) \in Message
           /\ BeginQuorumEpoch(me, to, r) \in Message
           /\ \A f \in Voters : EndQuorumEpoch(me, to, r, f) \in Message
           /\ send_fetch(me, to, r) \in SUBSET Message
BY ReplicaFields DEF Message, VoteRequest, BeginQuorumEpoch, EndQuorumEpoch, send_fetch

\* A replica and messages make a step.
LEMMA StepTypes ==
    ASSUME NEW r \in Replica, NEW send \in SUBSET Message
    PROVE  Step(r, send) \in StepType /\ NoStep(r) \in StepType
BY DEF Step, NoStep, StepType

\* Waiting for an election leaves a replica.
LEMMA AwaitElectionType ==
    ASSUME NEW r \in Replica
    PROVE  await_election(r) \in Replica
BY RoleConstructors DEF await_election, Replica

\* Adopting an epoch leaves a replica.
LEMMA UnattachedType ==
    ASSUME NEW r \in Replica, NEW e \in Nat
    PROVE  transition_to_unattached(r, e) \in Replica
BY RoleConstructors DEF transition_to_unattached, Replica, MaybeVoter

\* Following a leader is a step.
LEMMA BeginType ==
    ASSUME NEW me \in Voters, NEW r \in Replica, NEW l \in Voters, NEW e \in Nat
    PROVE  handle_begin_quorum_epoch(me, r, l, e) \in StepType
<1> DEFINE f == [r EXCEPT !.epoch = e, !.leaderId = l,
                          !.votedKey = IF e > r.epoch THEN Nil ELSE @,
                          !.role = Follower(l, FALSE)]
<1>1. f \in Replica
    BY RoleConstructors DEF Replica, MaybeVoter
<1> HIDE DEF f
<1>2. send_fetch(me, l, f) \in SUBSET Message
    BY <1>1, RequestTypes
<1> QED
    BY <1>1, <1>2, StepTypes DEF handle_begin_quorum_epoch, f

\* A lone voter's commit leaves a replica.
LEMMA SingleVoterType ==
    ASSUME NEW r \in Replica
    PROVE  advance_if_single_voter(r) \in Replica
<1>1. r.hwm \in Nat /\ Len(r.log) \in Nat
    BY ReplicaFields DEF end_offset
<1>2. advance_high_watermark(r.hwm, Len(r.log), Len(r.log)) \in Nat
    BY <1>1 DEF advance_high_watermark
<1> QED
    BY <1>2 DEF advance_if_single_voter, Replica

\* Winning an election is a step.
LEMMA PromoteLeaderType ==
    ASSUME NEW me \in Voters, NEW r \in Replica
    PROVE  promote_to_leader(me, r) \in StepType
<1> DEFINE l == [r EXCEPT !.leaderId = me,
                          !.role = Leader([v \in Voters |-> 0], 0, end_offset(r.log)),
                          !.log = Append(@, r.epoch)]
<1>1. l \in Replica
    <2>1. Leader([v \in Voters |-> 0], 0, end_offset(r.log)) \in Role
        BY RoleConstructors, ReplicaFields
    <2>2. Append(r.log, r.epoch) \in Seq(Nat)
        BY ReplicaFields
    <2> QED
        BY <2>1, <2>2 DEF Replica, MaybeVoter
<1> HIDE DEF l
<1>2. {BeginQuorumEpoch(me, v, l) : v \in other_voters(me)} \in SUBSET Message
    BY <1>1, RequestTypes DEF other_voters
<1> QED
    BY <1>1, <1>2, StepTypes, SingleVoterType DEF promote_to_leader, l

\* Standing for the next epoch is a step.
LEMMA PromoteCandidateType ==
    ASSUME NEW me \in Voters, NEW r \in Replica
    PROVE  promote_to_candidate(me, r) \in StepType
<1> DEFINE c == [r EXCEPT !.epoch = @ + 1, !.leaderId = Nil, !.votedKey = me,
                          !.role = Candidate({me})]
           votes == {VoteRequest(me, v, c, FALSE) : v \in other_voters(me)}
<1>1. c \in Replica
    <2>1. r.epoch + 1 \in Nat /\ Candidate({me}) \in Role
        BY RoleConstructors, ReplicaFields
    <2> QED
        BY <2>1 DEF Replica, MaybeVoter
<1>2. promote_to_leader(me, c) \in StepType
    BY <1>1, PromoteLeaderType
<1>3. votes \in SUBSET Message
    <2> HIDE DEF c
    <2> QED
        BY <1>1, RequestTypes DEF other_voters
<1>4. promote_to_leader(me, c).replica \in Replica
      /\ promote_to_leader(me, c).send \in SUBSET Message
    BY <1>2 DEF StepType
<1> HIDE DEF c, votes
<1>5. promote_to_candidate(me, r) =
        IF HasQuorum({me})
        THEN Step(promote_to_leader(me, c).replica, votes \cup promote_to_leader(me, c).send)
        ELSE Step(c, votes)
    BY DEF promote_to_candidate, c, votes
<1> QED
    BY <1>1, <1>3, <1>4, <1>5, StepTypes

\* Opening a pre-vote is a step.
LEMMA StartElectionType ==
    ASSUME NEW me \in Voters, NEW r \in Replica
    PROVE  start_election(me, r) \in StepType
<1> DEFINE p == [r EXCEPT !.leaderId = Nil,
                          !.role = Prospective({me}, {}, known_leader(r))]
           preVotes == {VoteRequest(me, v, p, TRUE) : v \in other_voters(me)}
<1>1. p \in Replica
    <2>1. Prospective({me}, {}, known_leader(r)) \in Role
        BY RoleConstructors, KnownLeaderType
    <2> QED
        BY <2>1 DEF Replica, MaybeVoter
<1>2. promote_to_candidate(me, p) \in StepType
    BY <1>1, PromoteCandidateType
<1>3. preVotes \in SUBSET Message
    <2> HIDE DEF p
    <2> QED
        BY <1>1, RequestTypes DEF other_voters
<1>4. promote_to_candidate(me, p).replica \in Replica
      /\ promote_to_candidate(me, p).send \in SUBSET Message
    BY <1>2 DEF StepType
<1> HIDE DEF p, preVotes
<1>5. start_election(me, r) =
        IF HasQuorum({me})
        THEN Step(promote_to_candidate(me, p).replica,
                  preVotes \cup promote_to_candidate(me, p).send)
        ELSE Step(p, preVotes)
    BY DEF start_election, p, preVotes
<1> QED
    BY <1>1, <1>3, <1>4, <1>5, StepTypes

\* An election timeout is a step.
LEMMA ElectionTimeoutType ==
    ASSUME NEW me \in Voters, NEW r \in Replica
    PROVE  handle_election_timeout(me, r) \in StepType
<1>1. r.epoch \in Nat /\ r.role \in Role
    BY ReplicaFields
<1>2. r.role.name = "Prospective" /\ r.role.abandoned # Nil => r.role.abandoned \in Voters
    BY <1>1, RoleFields DEF MaybeVoter
<1> QED
    BY <1>1, <1>2, BeginType, StartElectionType DEF handle_election_timeout

\* A resignation is a step.
LEMMA ResignedType ==
    ASSUME NEW me \in Voters, NEW r \in Replica, NEW first \in Voters
    PROVE  transition_to_resigned(me, r, first) \in StepType
<1> DEFINE d == [r EXCEPT !.leaderId = Nil, !.role = Resigned]
<1>1. d \in Replica
    BY RoleConstructors DEF Replica, MaybeVoter
<1> HIDE DEF d
<1>2. {EndQuorumEpoch(me, v, d, first) : v \in other_voters(me)} \in SUBSET Message
    BY <1>1, RequestTypes DEF other_voters
<1> QED
    BY <1>1, <1>2, StepTypes DEF transition_to_resigned, d

\* A resigning leader's request makes a step.
LEMMA EndType ==
    ASSUME NEW me \in Voters, NEW r \in Replica, NEW first \in Voters
    PROVE  handle_end_quorum_epoch(me, r, first) \in StepType
<1>1. [r EXCEPT !.leaderId = Nil] \in Replica
    BY DEF Replica, MaybeVoter
<1> QED
    BY <1>1, StartElectionType, AwaitElectionType, StepTypes DEF handle_end_quorum_epoch

\* A vote request leaves a replica.
LEMMA VoteRequestType ==
    ASSUME NEW r \in Replica, NEW m, m.epoch \in Nat, m.from \in Voters
    PROVE  /\ advance_epoch_for_vote(r, m.epoch) \in Replica
           /\ handle_vote_request(r, m).replica \in Replica
<1>1. advance_epoch_for_vote(r, m.epoch) \in Replica
    BY UnattachedType DEF advance_epoch_for_vote
<1>2. \A a \in Replica : [a EXCEPT !.votedKey = m.from, !.role = Voted] \in Replica
    BY RoleConstructors DEF Replica, MaybeVoter
<1> QED
    BY <1>1, <1>2 DEF handle_vote_request

\* A refused pre-vote is a step.
LEMMA RejectionType ==
    ASSUME NEW me \in Voters, NEW r \in Replica, NEW from \in Voters,
           r.role.name = "Prospective"
    PROVE  record_pre_vote_rejection(me, r, from) \in StepType
<1> DEFINE n == [r EXCEPT !.role = Prospective(r.role.granted \ {from},
                                       r.role.rejected \cup {from}, r.role.abandoned)]
<1>1. /\ r.role.granted \in SUBSET Voters /\ r.role.rejected \in SUBSET Voters
      /\ r.role.abandoned \in MaybeVoter /\ r.epoch \in Nat
    BY ReplicaFields, RoleFields
<1>2. n \in Replica
    <2>1. Prospective(r.role.granted \ {from}, r.role.rejected \cup {from}, r.role.abandoned) \in Role
        BY <1>1, RoleConstructors
    <2> QED
        BY <2>1 DEF Replica
<1> HIDE DEF n
<1>3. NoStep(n) \in StepType /\ NoStep(await_election(n)) \in StepType
    BY <1>2, AwaitElectionType, StepTypes
<1>4. r.role.abandoned # Nil =>
        handle_begin_quorum_epoch(me, n, r.role.abandoned, r.epoch) \in StepType
    BY <1>1, <1>2, BeginType DEF MaybeVoter
<1> QED
    BY <1>3, <1>4 DEF record_pre_vote_rejection, n

\* A vote answer is a step.
LEMMA VoteResponseType ==
    ASSUME NEW me \in Voters, NEW r \in Replica, NEW from \in Voters, NEW granted \in BOOLEAN
    PROVE  handle_vote_response(me, r, from, granted) \in StepType
<1> DEFINE grants == r.role.granted \cup {from}
           p == [r EXCEPT !.role = Prospective(grants, r.role.rejected \ {from},
                                               r.role.abandoned)]
           c == [r EXCEPT !.role = Candidate(grants)]
<1>1. CASE r.role.name = "Prospective"
    <2>1. /\ r.role.granted \in SUBSET Voters /\ r.role.rejected \in SUBSET Voters
          /\ r.role.abandoned \in MaybeVoter
        BY <1>1, ReplicaFields, RoleFields
    <2>2. p \in Replica
        <3>1. Prospective(grants, r.role.rejected \ {from}, r.role.abandoned) \in Role
            BY <2>1, RoleConstructors
        <3> QED
            BY <3>1 DEF Replica
    <2> HIDE DEF p
    <2>3. NoStep(p) \in StepType /\ promote_to_candidate(me, p) \in StepType
        BY <2>2, StepTypes, PromoteCandidateType
    <2> QED
        BY <1>1, <2>3, RejectionType DEF handle_vote_response, p
<1>2. CASE r.role.name = "Candidate"
    <2>1. c \in Replica
        <3>1. Candidate(grants) \in Role
            BY <1>2, ReplicaFields, RoleFields, RoleConstructors
        <3> QED
            BY <3>1 DEF Replica
    <2> HIDE DEF c
    <2>2. NoStep(c) \in StepType /\ promote_to_leader(me, c) \in StepType
        BY <2>1, StepTypes, PromoteLeaderType
    <2>3. NoStep(r) \in StepType
        BY StepTypes
    <2> QED
        BY <1>2, <2>2, <2>3 DEF handle_vote_response, c
<1>3. CASE r.role.name \notin {"Prospective", "Candidate"}
    BY <1>3, StepTypes DEF handle_vote_response
<1> QED
    BY <1>1, <1>2, <1>3

\* The recomputed high watermark is an offset: the greatest of a
\* non-empty set bounded by the log end.
LEMMA RecomputeType ==
    ASSUME NEW me \in Voters, NEW r \in Replica, r.role.name = "Leader"
    PROVE  recompute_high_watermark(me, r) \in Nat
<1> DEFINE reached == MajorityOffsets(me, r.role.replicas, end_offset(r.log))
<1>1. /\ r.role.replicas \in [Voters -> Nat] /\ r.role.highWatermark \in Nat
      /\ end_offset(r.log) \in Nat
    BY ReplicaFields, RoleFields
<1>2. reached \in SUBSET Nat /\ \A o \in reached : o <= end_offset(r.log)
    BY <1>1 DEF MajorityOffsets, other_voters
<1> HIDE DEF reached
<1>3. reached # {} => Max(reached) \in Nat
    BY <1>1, <1>2, MaxIsGreatest
<1> QED
    BY <1>1, <1>3 DEF recompute_high_watermark, reached

\* Recording a fetch leaves a leader.
LEMMA HandleFetchType ==
    ASSUME NEW me \in Voters, NEW r \in Replica, r.role.name = "Leader",
           NEW from \in Voters, NEW offset \in Nat
    PROVE  handle_fetch(me, r, from, offset) \in Replica
<1> DEFINE f == [r EXCEPT !.role.replicas[from] = offset]
           hwm == recompute_high_watermark(me, f)
<1>1. r.role \in [name : {"Leader"}, replicas : [Voters -> Nat],
                  highWatermark : Nat, epochStart : Nat]
    BY ReplicaFields, RoleFields
<1>2. f \in Replica /\ f.role.name = "Leader" /\ f.log = r.log /\ f.hwm = r.hwm
    <2>1. [r.role EXCEPT !.replicas[from] = offset] \in Role
        BY <1>1 DEF Role
    <2>2. f = [r EXCEPT !.role = [r.role EXCEPT !.replicas[from] = offset]]
        BY DEF Replica
    <2> QED
        BY <1>1, <2>1, <2>2 DEF Replica
<1>3. hwm \in Nat
    BY <1>2, RecomputeType
<1>4. f.role \in [name : {"Leader"}, replicas : [Voters -> Nat],
                  highWatermark : Nat, epochStart : Nat]
    BY <1>2, ReplicaFields, RoleFields
<1>5. handle_fetch(me, r, from, offset) =
        IF hwm > r.role.highWatermark
        THEN [f EXCEPT !.role.highWatermark = hwm,
                       !.hwm = advance_high_watermark(@, hwm, end_offset(r.log))]
        ELSE f
    BY DEF handle_fetch
<1> HIDE DEF f, hwm
<1>6. advance_high_watermark(f.hwm, hwm, end_offset(r.log)) \in Nat
    BY <1>2, <1>3, ReplicaFields DEF advance_high_watermark
<1>7. [f.role EXCEPT !.highWatermark = hwm] \in Role
    BY <1>3, <1>4 DEF Role
<1>8. [f EXCEPT !.role.highWatermark = hwm,
                !.hwm = advance_high_watermark(@, hwm, end_offset(r.log))] \in Replica
    BY <1>2, <1>6, <1>7 DEF Replica
<1> QED
    BY <1>2, <1>5, <1>8

\* Cutting the log leaves a replica.
LEMMA TruncateType ==
    ASSUME NEW r \in Replica, NEW offset \in Nat
    PROVE  truncate_to(r, offset) \in Replica
<1> DEFINE cut == IF offset <= Len(r.log) THEN offset ELSE Len(r.log)
<1>1. r.log \in Seq(Nat) /\ r.hwm \in Nat /\ cut \in 0 .. Len(r.log)
    BY ReplicaFields
<1> HIDE DEF cut
<1>2. Prefix(r.log, cut) \in Seq(Nat) /\ Len(Prefix(r.log, cut)) \in Nat
    BY <1>1, PrefixType
<1>3. truncation_frontier(r.hwm, Len(Prefix(r.log, cut))) \in Nat
    BY <1>1, <1>2 DEF truncation_frontier
<1> QED
    BY <1>2, <1>3 DEF truncate_to, cut, Replica

\* Appending fetched batches leaves a log.
LEMMA AppendFetchedType ==
    ASSUME NEW log \in Seq(Nat), NEW base \in Nat, NEW records \in Seq(Nat)
    PROVE  append_fetched(log, base, records) \in Seq(Nat)
<1>1. CASE base <= Len(log) /\ Len(log) - base < Len(records)
    <2>1. SubSeq(records, Len(log) - base + 1, Len(records)) \in Seq(Nat)
        BY <1>1
    <2> QED
        BY <1>1, <2>1 DEF append_fetched
<1>2. CASE ~ (base <= Len(log) /\ Len(log) - base < Len(records))
    BY <1>2 DEF append_fetched
<1> QED
    BY <1>1, <1>2

\* What each message carries.
LEMMA MessageFields ==
    ASSUME NEW m \in Message
    PROVE  /\ m.from \in Voters /\ m.to \in Voters /\ m.epoch \in Nat
           /\ m.type \in {"Vote", "VoteAnswer", "BeginQuorumEpoch", "EndQuorumEpoch",
                         "Fetch", "FetchAnswer"}
           /\ m.type = "Vote" => m.preVote \in BOOLEAN
           /\ m.type = "VoteAnswer" =>
                m.leader \in MaybeVoter /\ m.error \in Errors /\ m.granted \in BOOLEAN
           /\ m.type = "EndQuorumEpoch" => m.first \in Voters
           /\ m.type = "Fetch" => m.fetchEpoch \in Nat /\ m.fetchOffset \in Nat
           /\ m.type = "FetchAnswer" =>
                /\ m.leader \in MaybeVoter /\ m.error \in Errors
                /\ m.diverging \in OffsetAndEpoch \cup {Nil}
                /\ m.hwm \in Nat \cup {-1} /\ m.base \in Nat /\ m.records \in Seq(Nat)
BY DEF Message

\* Applying a Fetch answer is a step.
LEMMA FetchResponseType ==
    ASSUME NEW me \in Voters, NEW r \in Replica, NEW m \in Message, m.type = "FetchAnswer"
    PROVE  handle_fetch_response(me, r, m) \in StepType
<1> DEFINE log == append_fetched(r.log, m.base, m.records)
           kept == truncate_to(r, follower_truncation_offset(m.diverging, r.log))
           grown == [r EXCEPT !.log = log,
                              !.hwm = advance_high_watermark(@, m.hwm, Len(log))]
           n == IF m.diverging # Nil THEN kept ELSE grown
           f == [n EXCEPT !.role = Follower(m.from, TRUE)]
<1>1. /\ m.from \in Voters /\ m.diverging \in OffsetAndEpoch \cup {Nil}
      /\ m.hwm \in Nat \cup {-1} /\ m.base \in Nat /\ m.records \in Seq(Nat)
    BY MessageFields
<1>2. m.diverging # Nil => kept \in Replica
    <2>1. r.log \in Seq(Nat)
        BY ReplicaFields
    <2>2. m.diverging # Nil =>
            follower_truncation_offset(m.diverging, r.log) \in 0 .. Len(r.log)
        BY <1>1, <2>1, TruncationInLog
    <2>3. m.diverging # Nil => follower_truncation_offset(m.diverging, r.log) \in Nat
        BY <2>1, <2>2
    <2> QED
        BY <2>3, TruncateType
<1>3. grown \in Replica
    <2>1. log \in Seq(Nat)
        BY <1>1, ReplicaFields, AppendFetchedType
    <2> HIDE DEF log
    <2>2. r.hwm \in Nat /\ Len(log) \in Nat
        BY <2>1, ReplicaFields
    <2>3. advance_high_watermark(r.hwm, m.hwm, Len(log)) \in Nat
        BY <1>1, <2>2 DEF advance_high_watermark
    <2> QED
        BY <2>1, <2>3 DEF Replica
<1>4. n \in Replica
    BY <1>2, <1>3
<1> HIDE DEF n
<1>5. f \in Replica
    BY <1>1, <1>4, RoleConstructors DEF Replica
<1> HIDE DEF f
<1>6. send_fetch(me, m.from, f) \in SUBSET Message
    BY <1>1, <1>5, RequestTypes
<1> QED
    BY <1>5, <1>6, StepTypes DEF handle_fetch_response, f, n

\* The answers the engine builds are messages.
LEMMA AnswerTypes ==
    ASSUME NEW m \in Message, NEW r \in Replica, NEW error \in Errors
    PROVE  /\ \A g \in BOOLEAN : VoteAnswer(m, r, error, g) \in Message
           /\ m.type = "Fetch" =>
                \A d \in OffsetAndEpoch \cup {Nil}, h \in Nat \cup {-1}, s \in Seq(Nat) :
                    FetchAnswer(m, r, error, d, h, s) \in Message
BY MessageFields, ReplicaFields DEF Message, VoteAnswer, FetchAnswer

\* Answering a Fetch is a step.
LEMMA FetchAnswerStep ==
    ASSUME NEW m \in Message, m.type = "Fetch", NEW r \in Replica, NEW error \in Errors,
           NEW d \in OffsetAndEpoch \cup {Nil}, NEW h \in Nat \cup {-1}, NEW s \in Seq(Nat)
    PROVE  Step(r, {FetchAnswer(m, r, error, d, h, s)}) \in StepType
<1>1. FetchAnswer(m, r, error, d, h, s) \in Message
    BY AnswerTypes
<1> QED
    BY <1>1, StepTypes

(***************************************************************************)
(* Type correctness.                                                       *)
(***************************************************************************)
LEMMA EndTurnType ==
    ASSUME TypeOK, NEW v \in Voters, NEW gone, NEW step \in StepType, EndTurn(v, gone, step)
    PROVE  TypeOK'
BY ReplicaFields DEF TypeOK, EndTurn, StepType, MaybeVoter

\* Receiving any message preserves the types.
LEMMA ReceiveType ==
    ASSUME TypeOK, NEW m \in net, Receive(m)
    PROVE  TypeOK'
<1> DEFINE r == replica[m.to]
<1>1. m \in Message /\ m.to \in Voters /\ m.from \in Voters /\ m.epoch \in Nat
    BY MessageFields DEF TypeOK
<1>2. r \in Replica
    BY <1>1 DEF TypeOK
<1>3. ASSUME NEW step \in StepType, Take(m, step) PROVE TypeOK'
    BY <1>1, <1>3, EndTurnType DEF Take
<1> HIDE DEF r
<1>4. CASE RefuseVote(m)
    <2>1. vote_request_error(r, m) \in Errors
        BY DEF vote_request_error, Errors
    <2>2. Step(r, {VoteAnswer(m, r, vote_request_error(r, m), FALSE)}) \in StepType
        BY <1>1, <1>2, <2>1, AnswerTypes, StepTypes
    <2> QED
        BY <1>3, <1>4, <2>2 DEF RefuseVote, r
<1>5. CASE AnswerVote(m)
    <2> DEFINE v == handle_vote_request(r, m)
    <2>1. v.replica \in Replica
        BY <1>1, <1>2, VoteRequestType
    <2>2. v.granted \in BOOLEAN
        BY DEF handle_vote_request, can_grant_vote, log_is_up_to_date
    <2>3. Step(v.replica, {VoteAnswer(m, v.replica, "NONE", v.granted)}) \in StepType
        BY <1>1, <2>1, <2>2, AnswerTypes, StepTypes DEF Errors
    <2> QED
        BY <1>3, <1>5, <2>3 DEF AnswerVote, r
<1>6. CASE HandleBeginQuorumEpoch(m)
    BY <1>1, <1>2, <1>3, <1>6, BeginType DEF HandleBeginQuorumEpoch, r
<1>7. CASE HandleEndQuorumEpoch(m)
    BY <1>1, <1>2, <1>3, <1>7, EndType, MessageFields DEF HandleEndQuorumEpoch, r
<1>8. CASE RefuseFetch(m)
    <2>1. fetch_request_error(r, m) \in Errors
        BY DEF fetch_request_error, Errors
    <2>2. m.type = "Fetch" =>
            Step(r, {FetchAnswer(m, r, fetch_request_error(r, m), Nil, -1, <<>>)}) \in StepType
        <3>1. <<>> \in Seq(Nat) /\ Nil \in OffsetAndEpoch \cup {Nil} /\ -1 \in Nat \cup {-1}
            OBVIOUS
        <3> QED
            BY <1>1, <1>2, <2>1, <3>1, FetchAnswerStep
    <2> QED
        BY <1>3, <1>8, <2>2 DEF RefuseFetch, r
<1>9. CASE DivergingFetch(m)
    <2> DEFINE end == end_offset_for_epoch(r.log, m.fetchEpoch)
    <2>1. m.type = "Fetch" /\ m.fetchEpoch \in Nat
        BY <1>1, <1>9, MessageFields DEF DivergingFetch
    <2>2. end \in OffsetAndEpoch /\ r.hwm \in Nat
        BY <1>2, <2>1, ReplicaFields, EndOffsetForEpochInLog
    <2> HIDE DEF end
    <2>3. Step(r, {FetchAnswer(m, r, "NONE", end, r.hwm, <<>>)}) \in StepType
        <3>1. <<>> \in Seq(Nat) /\ "NONE" \in Errors
            BY DEF Errors
        <3> QED
            BY <1>1, <1>2, <2>1, <2>2, <3>1, FetchAnswerStep
    <2> QED
        BY <1>3, <1>9, <2>3 DEF DivergingFetch, r, end
<1>10. CASE ServeFetch(m)
    <2> DEFINE f == handle_fetch(m.to, r, m.from, m.fetchOffset)
               missing == end_offset(r.log) - m.fetchOffset
               sizes == IF missing > 0 THEN 1 .. missing ELSE {0}
               part(n) == SubSeq(r.log, m.fetchOffset + 1, m.fetchOffset + n)
    <2>1. m.type = "Fetch" /\ m.fetchOffset \in Nat /\ r.log \in Seq(Nat)
        BY <1>1, <1>2, <1>10, MessageFields, ReplicaFields DEF ServeFetch
    <2>2. r.role.name = "Leader"
        BY <1>10 DEF ServeFetch, fetch_request_error, r
    <2>3. f \in Replica /\ f.hwm \in Nat
        BY <1>1, <1>2, <2>1, <2>2, HandleFetchType, ReplicaFields
    <2>4. ASSUME NEW n \in sizes PROVE part(n) \in Seq(Nat)
        BY SMTT(40), <2>1 DEF end_offset
    <2> HIDE DEF f, part, sizes
    <2>5. ASSUME NEW n \in sizes
          PROVE  Step(f, {FetchAnswer(m, f, "NONE", Nil, f.hwm, part(n))}) \in StepType
        <3>1. "NONE" \in Errors /\ Nil \in OffsetAndEpoch \cup {Nil}
            BY DEF Errors
        <3> QED
            BY <1>1, <2>1, <2>3, <2>4, <3>1, FetchAnswerStep
    <2>6. PICK n \in sizes : Take(m, Step(f, {FetchAnswer(m, f, "NONE", Nil, f.hwm, part(n))}))
        BY <1>10 DEF ServeFetch, f, part, sizes, r
    <2> QED
        BY <1>3, <2>5, <2>6
<1>11. CASE LeaderlessEpoch(m)
    BY <1>1, <1>2, <1>3, <1>11, UnattachedType, StepTypes DEF LeaderlessEpoch, r
<1>12. CASE FollowNamedByVote(m)
    <2>1. m.leader \in Voters
        BY <1>1, <1>12, MessageFields DEF FollowNamedByVote, MaybeVoter
    <2> QED
        BY <1>1, <1>2, <1>3, <1>12, <2>1, BeginType DEF FollowNamedByVote, r
<1>13. CASE CountVote(m)
    <2>1. m.granted \in BOOLEAN
        BY <1>1, <1>13, MessageFields DEF CountVote
    <2> QED
        BY <1>1, <1>2, <1>3, <1>13, <2>1, VoteResponseType DEF CountVote, r
<1>14. CASE FollowNamedByFetch(m)
    <2>1. m.leader \in Voters
        BY <1>1, <1>14, MessageFields DEF FollowNamedByFetch, MaybeVoter
    <2> QED
        BY <1>1, <1>2, <1>3, <1>14, <2>1, BeginType DEF FollowNamedByFetch, r
<1>15. CASE ApplyFetchAnswer(m)
    BY <1>1, <1>2, <1>3, <1>15, FetchResponseType DEF ApplyFetchAnswer, r
<1>16. CASE RefusedFetchAnswer(m)
    <2>1. Step(r, send_fetch(m.to, m.from, r)) \in StepType
        BY <1>1, <1>2, RequestTypes, StepTypes
    <2> QED
        BY <1>3, <1>16, <2>1 DEF RefusedFetchAnswer, r
<1> QED
    BY <1>4, <1>5, <1>6, <1>7, <1>8, <1>9, <1>10, <1>11, <1>12, <1>13, <1>14, <1>15, <1>16
       DEF Receive

\* Every step preserves the types.
LEMMA NextType ==
    ASSUME TypeOK, [Next]_vars
    PROVE  TypeOK'
<1>1. ASSUME NEW v \in Voters, NEW gone, NEW step \in StepType, EndTurn(v, gone, step)
      PROVE  TypeOK'
    BY <1>1, EndTurnType
<1>2. ASSUME NEW v \in Voters PROVE replica[v] \in Replica
    BY DEF TypeOK
<1>3. ASSUME NEW v \in Voters, ElectionTimeout(v) PROVE TypeOK'
    BY <1>1, <1>2, <1>3, ElectionTimeoutType DEF ElectionTimeout, Act
<1>4. ASSUME NEW v \in Voters, FetchTimeout(v) PROVE TypeOK'
    BY <1>1, <1>2, <1>4, StartElectionType DEF FetchTimeout, Act
<1>5. ASSUME NEW v \in Voters, Resign(v) PROVE TypeOK'
    BY <1>1, <1>2, <1>5, ResignedType DEF Resign, Act, preferred_successors, other_voters
<1>6. ASSUME NEW v \in Voters, Submit(v) PROVE TypeOK'
    <2> DEFINE a == [replica[v] EXCEPT !.log = Append(@, replica[v].epoch)]
    <2>1. a \in Replica
        <3>1. Append(replica[v].log, replica[v].epoch) \in Seq(Nat)
            BY <1>2, ReplicaFields
        <3> QED
            BY <1>2, <3>1 DEF Replica
    <2>2. NoStep(advance_if_single_voter(a)) \in StepType
        BY <2>1, SingleVoterType, StepTypes
    <2> QED
        BY <1>1, <1>6, <2>2 DEF Submit, Act
<1>7. ASSUME NEW v \in Voters, Restart(v) PROVE TypeOK'
    <2> DEFINE gone == {m \in net : IsAnswer(m) /\ m.to = v}
               b(hwm) == [replica[v] EXCEPT !.leaderId = Nil, !.role = Unattached, !.hwm = hwm]
    <2>1. PICK hwm \in 0 .. replica[v].hwm : EndTurn(v, gone, NoStep(b(hwm)))
        BY <1>7 DEF Restart
    <2>2. b(hwm) \in Replica
        <3>1. replica[v].hwm \in Nat
            BY <1>2, ReplicaFields
        <3>2. hwm \in Nat
            BY <3>1
        <3> QED
            BY <1>2, <3>2, RoleConstructors DEF Replica, MaybeVoter
    <2> HIDE DEF b, gone
    <2>3. NoStep(b(hwm)) \in StepType
        BY <2>2, StepTypes
    <2> QED
        BY <1>1, <2>1, <2>3
<1>8. ASSUME NEW m \in net, Lose(m) PROVE TypeOK'
    BY <1>8 DEF Lose, TypeOK
<1>9. ASSUME NEW v \in Voters, Heartbeat(v) PROVE TypeOK'
    <2> DEFINE sent == {BeginQuorumEpoch(v, w, replica[v]) : w \in other_voters(v)}
    <2>1. sent \in SUBSET Message
        BY <1>2, RequestTypes DEF other_voters
    <2> HIDE DEF sent
    <2>2. Step(replica[v], sent) \in StepType
        BY <1>2, <2>1, StepTypes
    <2> QED
        BY <1>1, <1>9, <2>2 DEF Heartbeat, Act, sent
<1>10. CASE UNCHANGED vars
    BY <1>10 DEF vars, TypeOK
<1> QED
    BY <1>3, <1>4, <1>5, <1>6, <1>7, <1>8, <1>9, <1>10, ReceiveType DEF Next

\* The initial state has the types.
LEMMA InitType ==
    ASSUME Init
    PROVE  TypeOK
<1>1. BootstrapReplica \in Replica
    BY RoleConstructors DEF BootstrapReplica, Replica, MaybeVoter
<1> QED
    BY <1>1 DEF Init, TypeOK

\* Every behaviour of the quorum keeps every replica, every message in flight
\* and the histories well formed, for any voter set, network and log length.
THEOREM TypeCorrect == Spec => []TypeOK
<1>1. Init => TypeOK
    BY InitType
<1>2. TypeOK /\ [Next]_vars => TypeOK'
    BY NextType
<1> QED
    BY <1>1, <1>2, PTL DEF Spec
-----------------------------------------------------------------------------
(***************************************************************************)
(* Election safety of the quorum.  VoteStep says what a handler may do to  *)
(* a vote; every handler of KraftCore is shown to be a VoteStep, and a     *)
(* turn that is a VoteStep preserves VoteInv.                              *)
(***************************************************************************)

(***************************************************************************)
(* What a turn of replica me may make of r: q is the replica it leaves,    *)
(* send what it sends, W the voters whose grants it counts.                *)
(***************************************************************************)

\* The epoch never decreases, and a vote is final in its epoch.
KeepsVote(r, q) ==
    /\ q.epoch >= r.epoch
    /\ q.epoch = r.epoch /\ r.votedKey # Nil => q.votedKey = r.votedKey

\* A candidacy opens a new epoch with its own vote, or goes on counting.
Candidacy(me, r, q, W) ==
    q.role.name = "Candidate" =>
        \/ q.epoch > r.epoch /\ q.role.granted = {me} /\ q.votedKey = me
        \/ /\ q.epoch = r.epoch
           /\ r.role.name = "Candidate"
           /\ q.role.granted \subseteq r.role.granted \cup W

\* A leadership goes on, or has just been won with a quorum of grants.
Leadership(me, r, q, W) ==
    q.role.name = "Leader" =>
        \/ q.epoch = r.epoch /\ r.role.name = "Leader"
        \/ q.epoch > r.epoch /\ q.votedKey = me /\ HasQuorum({me})
        \/ q.epoch = r.epoch /\ r.role.name = "Candidate" /\ HasQuorum(r.role.granted \cup W)

\* A pre-vote goes out only in an epoch that the replica is no candidate of.
PreVotes(me, q, send) ==
    \A m \in send : IsPreVote(m) => m.from = me /\ NotCandidate(q, m.epoch)

VoteStep(me, r, s, W) ==
    /\ KeepsVote(r, s.replica)
    /\ Candidacy(me, r, s.replica, W)
    /\ Leadership(me, r, s.replica, W)
    /\ PreVotes(me, s.replica, s.send)

\* The messages of a step that grants no vote.
NoGrant(s) == \A m \in s.send : ~IsGrant(m)

\* A message that is neither a pre-vote nor a grant.
Plain(m) == ~IsPreVote(m) /\ ~IsGrant(m)

\* No message of these kinds is a pre-vote or a grant.
LEMMA PlainKinds ==
    ASSUME NEW m, m.type \in {"BeginQuorumEpoch", "EndQuorumEpoch", "Fetch", "FetchAnswer"}
    PROVE  Plain(m)
BY DEF Plain, IsPreVote, IsGrant

\* A vote request is plain; a pre-vote grants nothing.
LEMMA VoteKinds ==
    ASSUME NEW me, NEW to, NEW r
    PROVE  /\ Plain(VoteRequest(me, to, r, FALSE))
           /\ ~IsGrant(VoteRequest(me, to, r, TRUE))
BY DEF Plain, IsPreVote, IsGrant, VoteRequest

\* A step whose messages are plain.
LEMMA PlainStep ==
    ASSUME NEW me, NEW r, NEW q, NEW send, NEW W, \A m \in send : Plain(m),
           KeepsVote(r, q), Candidacy(me, r, q, W), Leadership(me, r, q, W)
    PROVE  VoteStep(me, r, Step(q, send), W) /\ NoGrant(Step(q, send))
<1>1. Step(q, send).replica = q /\ Step(q, send).send = send
    BY DEF Step
<1> QED
    BY <1>1 DEF VoteStep, NoGrant, PreVotes, Plain

\* A step into a role that neither stands nor leads.
LEMMA BystanderStep ==
    ASSUME NEW me, NEW r, NEW q, NEW send, \A m \in send : Plain(m), KeepsVote(r, q),
           q.role.name \notin {"Candidate", "Leader"}
    PROVE  VoteStep(me, r, Step(q, send), {}) /\ NoGrant(Step(q, send))
BY PlainStep DEF Candidacy, Leadership

\* A Fetch is plain.
LEMMA FetchIsPlain ==
    ASSUME NEW me, NEW to, NEW r
    PROVE  \A m \in send_fetch(me, to, r) : Plain(m)
<1>1. ASSUME NEW m \in send_fetch(me, to, r) PROVE Plain(m)
    <2>1. m.type = "Fetch"
        BY DEF send_fetch
    <2> QED
        BY <2>1, PlainKinds
<1> QED
    BY <1>1

\* A step that moves no epoch, no vote and no role.
LEMMA SameRoleStep ==
    ASSUME NEW me \in Voters, NEW r \in Replica, NEW q,
           q.epoch = r.epoch, q.votedKey = r.votedKey, q.role.name = r.role.name,
           q.role.name = "Candidate" => q.role.granted = r.role.granted,
           NEW send, \A m \in send : Plain(m), NEW W
    PROVE  VoteStep(me, r, Step(q, send), W) /\ NoGrant(Step(q, send))
<1>1. KeepsVote(r, q)
    BY ReplicaFields DEF KeepsVote
<1>2. Candidacy(me, r, q, W) /\ Leadership(me, r, q, W)
    BY DEF Candidacy, Leadership
<1> QED
    BY <1>1, <1>2, PlainStep

\* Waiting for an election keeps the vote.
LEMMA AwaitStep ==
    ASSUME NEW me \in Voters, NEW r \in Replica, NEW q \in Replica,
           q.epoch = r.epoch, q.votedKey = r.votedKey
    PROVE  VoteStep(me, r, NoStep(await_election(q)), {})
           /\ NoGrant(NoStep(await_election(q)))
<1>1. /\ await_election(q).epoch = r.epoch /\ await_election(q).votedKey = r.votedKey
      /\ await_election(q).role.name \in {"Voted", "Unattached"}
    BY DEF await_election, Replica, Voted, Unattached
<1>2. KeepsVote(r, await_election(q))
    BY <1>1, ReplicaFields DEF KeepsVote
<1> QED
    BY <1>1, <1>2, BystanderStep DEF NoStep

\* Adopting a newer epoch may drop the vote.
LEMMA UnattachedStep ==
    ASSUME NEW me \in Voters, NEW r \in Replica, NEW e \in Nat, e > r.epoch
    PROVE  VoteStep(me, r, NoStep(transition_to_unattached(r, e)), {})
           /\ NoGrant(NoStep(transition_to_unattached(r, e)))
<1>1. transition_to_unattached(r, e).epoch = e
      /\ transition_to_unattached(r, e).role.name = "Unattached"
    BY DEF transition_to_unattached, Replica, Unattached
<1>2. KeepsVote(r, transition_to_unattached(r, e))
    BY <1>1, ReplicaFields DEF KeepsVote
<1> QED
    BY <1>1, <1>2, BystanderStep DEF NoStep

\* r0 is the replica whose turn it is, r what the turn made of it so far.
LEMMA BeginStep ==
    ASSUME NEW me \in Voters, NEW r0 \in Replica, NEW r \in Replica,
           r.epoch = r0.epoch, r.votedKey = r0.votedKey,
           r.role.name \notin {"Candidate", "Leader"} \/ r = r0,
           NEW l \in Voters, NEW e \in Nat
    PROVE  VoteStep(me, r0, handle_begin_quorum_epoch(me, r, l, e), {})
           /\ NoGrant(handle_begin_quorum_epoch(me, r, l, e))
<1> DEFINE f == [r EXCEPT !.epoch = e, !.leaderId = l,
                          !.votedKey = IF e > r.epoch THEN Nil ELSE @,
                          !.role = Follower(l, FALSE)]
<1>1. CASE AcceptsLeader(r, e)
    <2>1. /\ f.epoch = e /\ f.role.name = "Follower"
          /\ f.votedKey = IF e > r.epoch THEN Nil ELSE r.votedKey
        BY DEF Replica, Follower
    <2>2. handle_begin_quorum_epoch(me, r, l, e) = Step(f, send_fetch(me, l, f))
        BY <1>1 DEF handle_begin_quorum_epoch
    <2> HIDE DEF f
    <2>3. KeepsVote(r0, f)
        BY <1>1, <2>1, ReplicaFields DEF AcceptsLeader, KeepsVote
    <2> QED
        BY <2>1, <2>2, <2>3, FetchIsPlain, BystanderStep
<1>2. CASE ~AcceptsLeader(r, e)
    <2>1. handle_begin_quorum_epoch(me, r, l, e) = Step(r, {})
        BY <1>2 DEF handle_begin_quorum_epoch, NoStep
    <2>2. KeepsVote(r0, r)
        BY ReplicaFields DEF KeepsVote
    <2>3. CASE r.role.name \notin {"Candidate", "Leader"}
        BY <2>1, <2>2, <2>3, BystanderStep
    <2>4. CASE r = r0
        BY <2>1, <2>4, SameRoleStep
    <2> QED
        BY <2>3, <2>4
<1> QED
    BY <1>1, <1>2

\* A lone voter's commit moves only the high watermark.
LEMMA SingleVoterKeeps ==
    ASSUME NEW r \in Replica
    PROVE  LET a == advance_if_single_voter(r)
           IN  /\ a.epoch = r.epoch /\ a.votedKey = r.votedKey /\ a.role = r.role
               /\ a.leaderId = r.leaderId
BY DEF advance_if_single_voter, Replica

\* The winner leads the epoch it stood in.
LEMMA PromoteLeaderFacts ==
    ASSUME NEW me \in Voters, NEW r \in Replica
    PROVE  LET s == promote_to_leader(me, r)
           IN  /\ s.replica.epoch = r.epoch /\ s.replica.votedKey = r.votedKey
               /\ s.replica.role.name = "Leader" /\ s.replica.leaderId = me
               /\ \A m \in s.send : /\ m.type = "BeginQuorumEpoch" /\ Plain(m)
                                    /\ m.from = me /\ m.epoch = r.epoch
<1> DEFINE l == [r EXCEPT !.leaderId = me,
                          !.role = Leader([v \in Voters |-> 0], 0, end_offset(r.log)),
                          !.log = Append(@, r.epoch)]
           sent == {BeginQuorumEpoch(me, v, l) : v \in other_voters(me)}
<1>1. /\ l \in Replica /\ l.epoch = r.epoch /\ l.votedKey = r.votedKey
      /\ l.role.name = "Leader" /\ l.leaderId = me
    <2>1. Leader([v \in Voters |-> 0], 0, end_offset(r.log)) \in Role
        BY RoleConstructors, ReplicaFields
    <2>2. Append(r.log, r.epoch) \in Seq(Nat)
        BY ReplicaFields
    <2>3. Leader([v \in Voters |-> 0], 0, end_offset(r.log)).name = "Leader"
        BY DEF Leader
    <2> QED
        BY <2>1, <2>2, <2>3 DEF Replica, MaybeVoter
<1>2. promote_to_leader(me, r) = Step(advance_if_single_voter(l), sent)
    BY DEF promote_to_leader
<1> HIDE DEF l
<1>3. ASSUME NEW m \in sent
      PROVE  /\ m.type = "BeginQuorumEpoch" /\ Plain(m)
             /\ m.from = me /\ m.epoch = r.epoch
    <2>1. m.type = "BeginQuorumEpoch" /\ m.from = me /\ m.epoch = r.epoch
        BY <1>1 DEF BeginQuorumEpoch
    <2> QED
        BY <2>1, PlainKinds
<1> QED
    BY <1>1, <1>2, <1>3, SingleVoterKeeps DEF Step

\* A candidate stands for the next epoch with its own vote, and leads it at
\* once only when that vote is a majority.
LEMMA PromoteCandidateFacts ==
    ASSUME NEW me \in Voters, NEW r \in Replica
    PROVE  LET s == promote_to_candidate(me, r)
           IN  /\ s.replica.epoch = r.epoch + 1 /\ s.replica.votedKey = me
               /\ \/ s.replica.role = Candidate({me}) /\ s.replica.leaderId = Nil
                  \/ /\ s.replica.role.name = "Leader" /\ s.replica.leaderId = me
                     /\ HasQuorum({me})
               /\ \A m \in s.send : Plain(m)
<1> DEFINE c == [r EXCEPT !.epoch = @ + 1, !.leaderId = Nil, !.votedKey = me,
                          !.role = Candidate({me})]
           votes == {VoteRequest(me, v, c, FALSE) : v \in other_voters(me)}
           won == promote_to_leader(me, c)
<1>1. /\ c \in Replica /\ c.epoch = r.epoch + 1 /\ c.votedKey = me
      /\ c.role = Candidate({me}) /\ c.leaderId = Nil
    <2>1. r.epoch + 1 \in Nat /\ Candidate({me}) \in Role
        BY RoleConstructors, ReplicaFields
    <2> QED
        BY <2>1 DEF Replica, MaybeVoter
<1>2. promote_to_candidate(me, r) = IF HasQuorum({me})
                                    THEN Step(won.replica, votes \cup won.send)
                                    ELSE Step(c, votes)
    BY DEF promote_to_candidate
<1> HIDE DEF c
<1>3. \A m \in votes : Plain(m)
    BY VoteKinds
<1>4. /\ won.replica.epoch = r.epoch + 1 /\ won.replica.votedKey = me
      /\ won.replica.role.name = "Leader" /\ won.replica.leaderId = me
      /\ \A m \in won.send : Plain(m)
    BY <1>1, PromoteLeaderFacts
<1> HIDE DEF votes, won
<1>5. CASE HasQuorum({me})
    <2>1. promote_to_candidate(me, r) = Step(won.replica, votes \cup won.send)
        BY <1>2, <1>5
    <2> QED
        BY <1>3, <1>4, <1>5, <2>1 DEF Step
<1>6. CASE ~HasQuorum({me})
    <2>1. promote_to_candidate(me, r) = Step(c, votes)
        BY <1>2, <1>6
    <2> QED
        BY <1>1, <1>3, <2>1 DEF Step
<1> QED
    BY <1>5, <1>6

\* Whatever replica r the turn began with, if its epoch is the one left.
LEMMA PromoteCandidateStep ==
    ASSUME NEW me \in Voters, NEW r \in Replica, NEW p \in Replica, p.epoch = r.epoch,
           NEW W
    PROVE  LET s == promote_to_candidate(me, p)
           IN  /\ s.replica.epoch = r.epoch + 1
               /\ \A m \in s.send : Plain(m)
               /\ KeepsVote(r, s.replica) /\ NotCandidate(s.replica, r.epoch)
               /\ Candidacy(me, r, s.replica, W) /\ Leadership(me, r, s.replica, W)
<1> DEFINE s == promote_to_candidate(me, p)
<1>1. r.epoch \in Nat
    BY ReplicaFields
<1>2. /\ s.replica.epoch = r.epoch + 1 /\ s.replica.votedKey = me
      /\ \/ s.replica.role = Candidate({me})
         \/ s.replica.role.name = "Leader" /\ HasQuorum({me})
      /\ \A m \in s.send : Plain(m)
    BY PromoteCandidateFacts
<1>3. Candidate({me}).granted = {me} /\ Candidate({me}).name = "Candidate"
    BY DEF Candidate
<1> HIDE DEF s
<1>4. s.replica.epoch > r.epoch
    BY <1>1, <1>2
<1>5. KeepsVote(r, s.replica) /\ NotCandidate(s.replica, r.epoch)
    BY <1>1, <1>2, <1>4 DEF KeepsVote, NotCandidate
<1>6. CASE s.replica.role = Candidate({me})
    BY <1>2, <1>3, <1>4, <1>5, <1>6 DEF Candidacy, Leadership, s
<1>7. CASE s.replica.role.name = "Leader" /\ HasQuorum({me})
    BY <1>2, <1>4, <1>5, <1>7 DEF Candidacy, Leadership, s
<1> QED
    BY <1>2, <1>6, <1>7

\* Opening a pre-vote keeps the vote and asks in the current epoch.
LEMMA StartElectionStep ==
    ASSUME NEW me \in Voters, NEW r \in Replica
    PROVE  VoteStep(me, r, start_election(me, r), {})
           /\ NoGrant(start_election(me, r))
<1> DEFINE p == [r EXCEPT !.leaderId = Nil,
                          !.role = Prospective({me}, {}, known_leader(r))]
           preVotes == {VoteRequest(me, v, p, TRUE) : v \in other_voters(me)}
           won == promote_to_candidate(me, p)
<1>1. /\ p \in Replica /\ p.epoch = r.epoch /\ p.votedKey = r.votedKey
      /\ p.role.name = "Prospective"
    <2>1. Prospective({me}, {}, known_leader(r)) \in Role
        BY RoleConstructors, KnownLeaderType
    <2>2. Prospective({me}, {}, known_leader(r)).name = "Prospective"
        BY DEF Prospective
    <2> QED
        BY <2>1, <2>2 DEF Replica, MaybeVoter
<1>2. start_election(me, r) = IF HasQuorum({me})
                              THEN Step(won.replica, preVotes \cup won.send)
                              ELSE Step(p, preVotes)
    BY DEF start_election
<1> HIDE DEF p
<1>3. /\ \A m \in preVotes : m.from = me /\ m.epoch = r.epoch
      /\ \A m \in preVotes : ~IsGrant(m)
    <2>1. ASSUME NEW m \in preVotes
          PROVE  m.from = me /\ m.epoch = r.epoch /\ ~IsGrant(m)
        <3>1. PICK v \in other_voters(me) : m = VoteRequest(me, v, p, TRUE)
            OBVIOUS
        <3>2. ~IsGrant(m)
            BY <3>1, VoteKinds
        <3> QED
            BY <1>1, <3>1, <3>2 DEF VoteRequest
    <2> QED
        BY <2>1
<1> HIDE DEF preVotes
<1>4. ASSUME NEW q, NEW sent, start_election(me, r) = Step(q, preVotes \cup sent),
             \A m \in sent : Plain(m), NotCandidate(q, r.epoch),
             KeepsVote(r, q), Candidacy(me, r, q, {}), Leadership(me, r, q, {})
      PROVE  VoteStep(me, r, start_election(me, r), {}) /\ NoGrant(start_election(me, r))
    <2>1. Step(q, preVotes \cup sent).replica = q
          /\ Step(q, preVotes \cup sent).send = preVotes \cup sent
        BY DEF Step
    <2> QED
        BY <1>3, <1>4, <2>1 DEF VoteStep, NoGrant, PreVotes, Plain
<1>5. r.epoch \in Nat
    BY ReplicaFields
<1>6. CASE HasQuorum({me})
    <2>1. start_election(me, r) = Step(won.replica, preVotes \cup won.send)
        BY <1>2, <1>6
    <2>2. /\ \A m \in won.send : Plain(m)
          /\ KeepsVote(r, won.replica) /\ NotCandidate(won.replica, r.epoch)
          /\ Candidacy(me, r, won.replica, {}) /\ Leadership(me, r, won.replica, {})
        BY <1>1, PromoteCandidateStep
    <2> HIDE DEF won
    <2> QED
        BY <1>4, <2>1, <2>2
<1>7. CASE ~HasQuorum({me})
    <2>1. start_election(me, r) = Step(p, preVotes \cup {})
        BY <1>2, <1>7
    <2>2. /\ NotCandidate(p, r.epoch) /\ KeepsVote(r, p)
          /\ Candidacy(me, r, p, {}) /\ Leadership(me, r, p, {})
        BY <1>1, <1>5 DEF NotCandidate, KeepsVote, Candidacy, Leadership
    <2> QED
        BY <1>4, <2>1, <2>2
<1> QED
    BY <1>6, <1>7

\* An election timeout follows again or opens a pre-vote.
LEMMA ElectionTimeoutStep ==
    ASSUME NEW me \in Voters, NEW r \in Replica
    PROVE  VoteStep(me, r, handle_election_timeout(me, r), {})
           /\ NoGrant(handle_election_timeout(me, r))
<1>1. r.epoch \in Nat /\ r.role \in Role
    BY ReplicaFields
<1>2. r.role.name = "Prospective" /\ r.role.abandoned # Nil => r.role.abandoned \in Voters
    BY <1>1, RoleFields DEF MaybeVoter
<1> QED
    BY <1>1, <1>2, BeginStep, StartElectionStep DEF handle_election_timeout

\* A resignation keeps the vote.
LEMMA ResignedStep ==
    ASSUME NEW me \in Voters, NEW r \in Replica, NEW first
    PROVE  VoteStep(me, r, transition_to_resigned(me, r, first), {})
           /\ NoGrant(transition_to_resigned(me, r, first))
<1> DEFINE d == [r EXCEPT !.leaderId = Nil, !.role = Resigned]
           sent == {EndQuorumEpoch(me, v, d, first) : v \in other_voters(me)}
<1>1. d.epoch = r.epoch /\ d.votedKey = r.votedKey /\ d.role.name = "Resigned"
    BY DEF Replica, Resigned
<1>2. ASSUME NEW m \in sent PROVE Plain(m)
    <2>1. m.type = "EndQuorumEpoch"
        BY DEF EndQuorumEpoch
    <2> QED
        BY <2>1, PlainKinds
<1>3. transition_to_resigned(me, r, first) = Step(d, sent)
    BY DEF transition_to_resigned
<1> HIDE DEF d, sent
<1>4. KeepsVote(r, d)
    BY <1>1, ReplicaFields DEF KeepsVote
<1> QED
    BY <1>1, <1>2, <1>3, <1>4, BystanderStep

\* A resigning leader's request keeps the vote.
LEMMA EndStep ==
    ASSUME NEW me \in Voters, NEW r \in Replica, NEW first
    PROVE  VoteStep(me, r, handle_end_quorum_epoch(me, r, first), {})
           /\ NoGrant(handle_end_quorum_epoch(me, r, first))
<1> DEFINE q == [r EXCEPT !.leaderId = Nil]
<1>1. q \in Replica /\ q.epoch = r.epoch /\ q.votedKey = r.votedKey
    BY DEF Replica, MaybeVoter
<1> HIDE DEF q
<1>2. VoteStep(me, r, NoStep(await_election(q)), {}) /\ NoGrant(NoStep(await_election(q)))
    BY <1>1, AwaitStep
<1> QED
    BY <1>2, StartElectionStep DEF handle_end_quorum_epoch, q

\* A refused pre-vote keeps the vote, whichever way the round ends.
LEMMA RejectionStep ==
    ASSUME NEW me \in Voters, NEW r \in Replica, NEW from \in Voters,
           r.role.name = "Prospective"
    PROVE  VoteStep(me, r, record_pre_vote_rejection(me, r, from), {})
           /\ NoGrant(record_pre_vote_rejection(me, r, from))
<1> DEFINE n == [r EXCEPT !.role = Prospective(r.role.granted \ {from},
                                       r.role.rejected \cup {from}, r.role.abandoned)]
<1>1. /\ r.role.granted \in SUBSET Voters /\ r.role.rejected \in SUBSET Voters
      /\ r.role.abandoned \in MaybeVoter /\ r.epoch \in Nat
    BY ReplicaFields, RoleFields
<1>2. /\ n \in Replica /\ n.epoch = r.epoch /\ n.votedKey = r.votedKey
      /\ n.role.name = "Prospective"
    <2> DEFINE role == Prospective(r.role.granted \ {from}, r.role.rejected \cup {from},
                                   r.role.abandoned)
    <2>1. role \in Role /\ role.name = "Prospective"
        BY <1>1, RoleConstructors DEF Prospective
    <2> HIDE DEF role
    <2>2. n = [r EXCEPT !.role = role]
        BY DEF role
    <2> QED
        BY <2>1, <2>2 DEF Replica
<1> HIDE DEF n
<1>3. VoteStep(me, r, NoStep(n), {}) /\ NoGrant(NoStep(n))
    BY <1>1, <1>2, SameRoleStep DEF NoStep
<1>4. VoteStep(me, r, NoStep(await_election(n)), {}) /\ NoGrant(NoStep(await_election(n)))
    BY <1>2, AwaitStep
<1>5. r.role.abandoned # Nil =>
        /\ VoteStep(me, r, handle_begin_quorum_epoch(me, n, r.role.abandoned, r.epoch), {})
        /\ NoGrant(handle_begin_quorum_epoch(me, n, r.role.abandoned, r.epoch))
    BY <1>1, <1>2, BeginStep DEF MaybeVoter
<1> QED
    BY <1>3, <1>4, <1>5 DEF record_pre_vote_rejection, n

\* A vote answer counts for at most its sender, and only when granted.
LEMMA VoteResponseStep ==
    ASSUME NEW me \in Voters, NEW r \in Replica, NEW from \in Voters, NEW granted \in BOOLEAN
    PROVE  VoteStep(me, r, handle_vote_response(me, r, from, granted),
                    IF granted THEN {from} ELSE {})
           /\ NoGrant(handle_vote_response(me, r, from, granted))
<1> DEFINE grants == r.role.granted \cup {from}
           p == [r EXCEPT !.role = Prospective(grants, r.role.rejected \ {from},
                                               r.role.abandoned)]
           c == [r EXCEPT !.role = Candidate(grants)]
           s == handle_vote_response(me, r, from, granted)
<1>0. r.epoch \in Nat
    BY ReplicaFields
<1>1. CASE r.role.name = "Prospective" /\ granted
    <2>1. p \in Replica /\ p.epoch = r.epoch /\ p.votedKey = r.votedKey
          /\ p.role.name = "Prospective"
        <3> DEFINE role == Prospective(grants, r.role.rejected \ {from}, r.role.abandoned)
        <3>1. role \in Role /\ role.name = "Prospective"
            BY <1>1, ReplicaFields, RoleFields, RoleConstructors DEF Prospective
        <3> HIDE DEF role
        <3>2. p = [r EXCEPT !.role = role]
            BY DEF role
        <3> QED
            BY <3>1, <3>2 DEF Replica
    <2>2. s = IF HasQuorum(grants) THEN promote_to_candidate(me, p) ELSE NoStep(p)
        BY <1>1 DEF handle_vote_response
    <2> HIDE DEF p, s, grants
    <2>3. CASE s = NoStep(p)
        <3>1. VoteStep(me, r, s, {from}) /\ NoGrant(s)
            BY <1>1, <2>1, <2>3, SameRoleStep DEF NoStep
        <3> QED
            BY <1>1, <3>1 DEF s
    <2>4. CASE s = promote_to_candidate(me, p)
        <3>1. /\ \A m \in s.send : Plain(m)
              /\ KeepsVote(r, s.replica)
              /\ Candidacy(me, r, s.replica, {from}) /\ Leadership(me, r, s.replica, {from})
            BY <2>1, <2>4, PromoteCandidateStep
        <3>2. VoteStep(me, r, s, {from}) /\ NoGrant(s)
            BY <3>1 DEF VoteStep, NoGrant, PreVotes, Plain
        <3> QED
            BY <1>1, <3>2 DEF s
    <2> QED
        BY <2>2, <2>3, <2>4
<1>2. CASE r.role.name = "Candidate" /\ granted
    <2>1. c \in Replica /\ c.epoch = r.epoch /\ c.votedKey = r.votedKey
          /\ c.role.name = "Candidate" /\ c.role.granted = grants
        <3>1. /\ Candidate(grants) \in Role /\ Candidate(grants).name = "Candidate"
              /\ Candidate(grants).granted = grants
            BY <1>2, ReplicaFields, RoleFields, RoleConstructors DEF Candidate
        <3> HIDE DEF grants
        <3> QED
            BY <3>1 DEF Replica
    <2>2. s = IF HasQuorum(grants) THEN promote_to_leader(me, c) ELSE NoStep(c)
        BY <1>2 DEF handle_vote_response
    <2> HIDE DEF c, s
    <2>3. CASE ~HasQuorum(grants)
        <3>1. s = NoStep(c)
            BY <2>2, <2>3
        <3>2. KeepsVote(r, c)
            BY <1>0, <2>1 DEF KeepsVote
        <3>3. Candidacy(me, r, c, {from}) /\ Leadership(me, r, c, {from})
            BY <1>2, <2>1 DEF Candidacy, Leadership
        <3>4. VoteStep(me, r, s, {from}) /\ NoGrant(s)
            BY <3>1, <3>2, <3>3, PlainStep DEF NoStep
        <3> QED
            BY <1>2, <3>4 DEF s
    <2>4. CASE HasQuorum(grants)
        <3>1. /\ s.replica.epoch = r.epoch /\ s.replica.votedKey = r.votedKey
              /\ s.replica.role.name = "Leader"
              /\ \A m \in s.send : Plain(m)
            BY <2>1, <2>2, <2>4, PromoteLeaderFacts
        <3>2. KeepsVote(r, s.replica)
            BY <1>0, <3>1 DEF KeepsVote
        <3>3. Candidacy(me, r, s.replica, {from}) /\ Leadership(me, r, s.replica, {from})
            BY <1>2, <2>4, <3>1 DEF Candidacy, Leadership
        <3>4. VoteStep(me, r, s, {from}) /\ NoGrant(s)
            BY <3>1, <3>2, <3>3 DEF VoteStep, NoGrant, PreVotes, Plain
        <3> QED
            BY <1>2, <3>4 DEF s
    <2> QED
        BY <2>3, <2>4
<1>3. CASE r.role.name = "Prospective" /\ ~granted
    BY <1>3, RejectionStep DEF handle_vote_response
<1>4. CASE r.role.name \notin {"Prospective", "Candidate"}
           \/ (r.role.name = "Candidate" /\ ~granted)
    <2>1. s = NoStep(r)
        BY <1>4 DEF handle_vote_response
    <2> QED
        BY <2>1, SameRoleStep DEF NoStep
<1> QED
    BY <1>1, <1>2, <1>3, <1>4

\* A vote request adopts its epoch, keeps a vote already given in it, and
\* grants a vote only by recording it.
LEMMA VoteRequestStep ==
    ASSUME NEW me \in Voters, NEW r \in Replica, NEW m \in Message,
           m.type = "Vote", m.to = me, m.epoch >= r.epoch
    PROVE  LET v == handle_vote_request(r, m)
               s == Step(v.replica, {VoteAnswer(m, v.replica, "NONE", v.granted)})
           IN  /\ VoteStep(me, r, s, {})
               /\ v.replica.epoch = m.epoch
               /\ v.granted => m.preVote \/ v.replica.votedKey = m.from
<1> DEFINE a == advance_epoch_for_vote(r, m.epoch)
           granted == can_grant_vote(a, m.from,
                          log_is_up_to_date(a.log, m.lastEpoch, m.lastOffset), m.preVote)
           v == handle_vote_request(r, m)
           answer == VoteAnswer(m, v.replica, "NONE", v.granted)
<1>0. r.epoch \in Nat /\ m.epoch \in Nat /\ m.from \in Voters
    BY ReplicaFields, MessageFields
<1>1. /\ a \in Replica /\ a.epoch = m.epoch
      /\ \/ a = r
         \/ a.epoch > r.epoch /\ a.role.name = "Unattached" /\ a.votedKey = Nil
    <2>1. CASE m.epoch > r.epoch
        <3>1. a = transition_to_unattached(r, m.epoch)
            BY <2>1 DEF advance_epoch_for_vote
        <3>2. a \in Replica
            BY <1>0, <3>1, UnattachedType
        <3>3. a.epoch = m.epoch /\ a.role.name = "Unattached" /\ a.votedKey = Nil
            BY <3>1 DEF transition_to_unattached, Replica, Unattached
        <3> QED
            BY <2>1, <3>2, <3>3
    <2>2. CASE m.epoch = r.epoch
        BY <1>0, <2>2 DEF advance_epoch_for_vote
    <2> QED
        BY <1>0, <2>1, <2>2
<1>2. /\ v.replica = IF granted /\ ~m.preVote
                     THEN [a EXCEPT !.votedKey = m.from, !.role = Voted] ELSE a
      /\ v.granted = granted
    BY DEF handle_vote_request
<1>3. granted /\ ~m.preVote => a.votedKey \in {Nil, m.from}
    BY DEF can_grant_vote
<1> HIDE DEF a, granted, v
<1>4. CASE granted /\ ~m.preVote
    <2>1. /\ v.replica.epoch = m.epoch /\ v.replica.votedKey = m.from
          /\ v.replica.role.name = "Voted"
        BY <1>1, <1>2, <1>4 DEF Replica, Voted
    <2>2. KeepsVote(r, v.replica)
        BY <1>0, <1>1, <1>3, <1>4, <2>1 DEF KeepsVote
    <2>3. Candidacy(me, r, v.replica, {}) /\ Leadership(me, r, v.replica, {})
        BY <2>1 DEF Candidacy, Leadership
    <2> QED
        BY <2>1, <2>2, <2>3 DEF VoteStep, PreVotes, Step, IsPreVote, VoteAnswer, v
<1>5. CASE ~(granted /\ ~m.preVote)
    <2>1. v.replica = a
        BY <1>2, <1>5
    <2>2. KeepsVote(r, a)
        BY <1>0, <1>1 DEF KeepsVote
    <2>3. Candidacy(me, r, a, {}) /\ Leadership(me, r, a, {})
        BY <1>1 DEF Candidacy, Leadership
    <2> QED
        BY <1>1, <1>2, <1>5, <2>1, <2>2, <2>3
           DEF VoteStep, PreVotes, Step, IsPreVote, VoteAnswer, v
<1> QED
    BY <1>4, <1>5

\* More voters than a majority are a majority.
LEMMA QuorumGrows ==
    ASSUME NEW S, NEW T \in SUBSET Voters, S \subseteq T, HasQuorum(S)
    PROVE  HasQuorum(T)
<1>1. IsFiniteSet(T)
    BY VotersAssumption, FS_Subset
<1>2. /\ IsFiniteSet(S) /\ Cardinality(S) <= Cardinality(T)
      /\ Cardinality(S) \in Nat /\ Cardinality(T) \in Nat
    BY <1>1, FS_Subset, FS_CardinalityType
<1>3. Cardinality(Voters) \in Nat
    BY VotersAssumption, FS_CardinalityType
<1> QED
    BY <1>2, <1>3 DEF HasQuorum, majority

\* An epoch in which a replica stands in no vote stays one.
LEMMA NotCandidateStays ==
    ASSUME NEW me, NEW r \in Replica, NEW q \in Replica, NEW W, NEW e \in Nat,
           KeepsVote(r, q), Candidacy(me, r, q, W), NotCandidate(r, e)
    PROVE  NotCandidate(q, e)
<1>1. r.epoch \in Nat /\ q.epoch \in Nat
    BY ReplicaFields
<1> QED
    BY <1>1 DEF KeepsVote, Candidacy, NotCandidate

\* No voter's epoch decreases and no vote of an epoch changes in a step.
VotesKept == \A v \in Voters : KeepsVote(replica[v], replica'[v])

\* What a turn must bring besides a VoteStep: the grants it counts and the
\* grants it sends are ballots.
LEMMA VoteInvTurn ==
    ASSUME TypeOK, TypeOK', VoteInv, NEW v \in Voters, NEW gone, NEW step, NEW W,
           EndTurn(v, gone, step), VoteStep(v, replica[v], step, W),
           replica[v].role.name = "Candidate" =>
                \A w \in W : <<replica[v].epoch, w, v>> \in ballots,
           \A m \in step.send : IsGrant(m) =>
                /\ m.from = v /\ m.epoch = step.replica.epoch
                /\ step.replica.votedKey = m.to \/ NotCandidate(replica[m.to], m.epoch)
    PROVE  VoteInv' /\ VotesKept
<1> DEFINE r == replica[v]
           q == step.replica
<1>1. /\ r \in Replica /\ q \in Replica /\ r.epoch \in Nat /\ q.epoch \in Nat
      /\ r.votedKey \in MaybeVoter /\ q.votedKey \in MaybeVoter
      /\ step.send \subseteq Message
    BY ReplicaFields DEF TypeOK, EndTurn
<1>2. /\ replica' = [replica EXCEPT ![v] = q]
      /\ \A m \in net' : m \in net \/ m \in step.send
      /\ elected' = IF q.role.name = "Leader" THEN elected \cup {<<q.epoch, v>>} ELSE elected
      /\ ballots' = IF q.votedKey # Nil THEN ballots \cup {<<q.epoch, v, q.votedKey>>}
                                        ELSE ballots
    BY DEF EndTurn
<1>3. replica'[v] = q /\ \A w \in Voters \ {v} : replica'[w] = replica[w]
    BY <1>2 DEF TypeOK
<1>4. KeepsVote(r, q) /\ Candidacy(v, r, q, W) /\ Leadership(v, r, q, W)
      /\ PreVotes(v, q, step.send)
    BY DEF VoteStep
<1>5. /\ BallotsBind /\ VotesAreBallots /\ OneBallot /\ CandidatesCountBallots
      /\ PreVotersAreNotCandidates /\ GrantsAreBallots /\ ElectedByQuorum
      /\ LeadersWereElected
    BY DEF VoteInv
<1>6. /\ \A b \in ballots : b[1] \in Nat /\ b[2] \in Voters /\ b[3] \in Voters
      /\ \A e \in elected : e[1] \in Nat /\ e[2] \in Voters
      /\ \A m \in net : m.from \in Voters /\ m.to \in Voters /\ m.epoch \in Nat
      /\ \A m \in step.send : m.from \in Voters /\ m.to \in Voters /\ m.epoch \in Nat
    BY <1>1, MessageFields DEF TypeOK
<1>7. /\ ballots \subseteq ballots'
      /\ q.votedKey # Nil => <<q.epoch, v, q.votedKey>> \in ballots'
      /\ \A b \in ballots' : b \in ballots \/ (q.votedKey # Nil /\ b = <<q.epoch, v, q.votedKey>>)
    BY <1>2
<1>8. Nil \notin Voters
    BY VotersAssumption
<1>9. ASSUME NEW w \in Voters, NEW e \in Nat, NotCandidate(replica[w], e)
      PROVE  NotCandidate(replica'[w], e)
    <2>1. CASE w = v
        BY <1>1, <1>3, <1>4, <1>9, <2>1, NotCandidateStays
    <2>2. CASE w # v
        BY <1>3, <1>9, <2>2
    <2> QED
        BY <2>1, <2>2
<1> HIDE DEF r, q
<1>10. BallotsBind'
    <2>1. ASSUME NEW b \in ballots'
          PROVE  \/ replica'[b[2]].epoch > b[1]
                 \/ replica'[b[2]].epoch = b[1] /\ replica'[b[2]].votedKey = b[3]
        <3>1. CASE b \in ballots /\ b[2] = v
            <4>1. r.epoch > b[1] \/ (r.epoch = b[1] /\ r.votedKey = b[3])
                BY <1>5, <3>1 DEF BallotsBind, r
            <4> QED
                BY <1>1, <1>3, <1>4, <1>6, <1>8, <3>1, <4>1 DEF KeepsVote
        <3>2. CASE b \in ballots /\ b[2] # v
            BY <1>3, <1>5, <1>6, <3>2 DEF BallotsBind
        <3>3. CASE b = <<q.epoch, v, q.votedKey>>
            BY <1>3, <3>3
        <3> QED
            BY <1>7, <3>1, <3>2, <3>3
    <2> QED
        BY <2>1 DEF BallotsBind
<1>11. VotesAreBallots'
    <2>1. ASSUME NEW w \in Voters, replica'[w].votedKey # Nil
          PROVE  <<replica'[w].epoch, w, replica'[w].votedKey>> \in ballots'
        BY <1>3, <1>5, <1>7, <2>1 DEF VotesAreBallots
    <2> QED
        BY <2>1 DEF VotesAreBallots
<1>12. OneBallot'
    <2>1. ASSUME NEW a \in ballots, a[1] = q.epoch, a[2] = v, q.votedKey # Nil
          PROVE  a[3] = q.votedKey
        <3>1. r.epoch > a[1] \/ (r.epoch = a[1] /\ r.votedKey = a[3])
            BY <1>5, <2>1 DEF BallotsBind, r
        <3> QED
            BY <1>1, <1>4, <1>6, <1>8, <2>1, <3>1 DEF KeepsVote
    <2>2. ASSUME NEW a \in ballots', NEW b \in ballots', a[1] = b[1], a[2] = b[2]
          PROVE  a[3] = b[3]
        BY <1>5, <1>7, <2>1, <2>2 DEF OneBallot
    <2> QED
        BY <2>2 DEF OneBallot
<1>13. CandidatesCountBallots'
    <2>1. ASSUME NEW u \in Voters, replica'[u].role.name = "Candidate",
                 NEW w \in replica'[u].role.granted
          PROVE  <<replica'[u].epoch, w, u>> \in ballots'
        <3>1. CASE u # v
            BY <1>3, <1>5, <1>7, <2>1, <3>1 DEF CandidatesCountBallots
        <3>2. CASE u = v /\ q.epoch > r.epoch
            BY <1>1, <1>3, <1>4, <1>7, <1>8, <2>1, <3>2 DEF Candidacy
        <3>3. CASE u = v /\ q.epoch = r.epoch
            <4>1. r.role.name = "Candidate" /\ w \in r.role.granted \cup W
                BY <1>1, <1>3, <1>4, <2>1, <3>3 DEF Candidacy
            <4>2. <<r.epoch, w, v>> \in ballots
                BY <1>5, <4>1 DEF CandidatesCountBallots, r
            <4> QED
                BY <1>3, <1>7, <3>3, <4>2
        <3> QED
            BY <1>1, <1>4, <3>1, <3>2, <3>3 DEF KeepsVote
    <2> QED
        BY <2>1 DEF CandidatesCountBallots
<1>14. PreVotersAreNotCandidates'
    <2>1. ASSUME NEW m \in net', IsPreVote(m)
          PROVE  NotCandidate(replica'[m.from], m.epoch)
        <3>1. CASE m \in net
            BY <1>5, <1>6, <1>9, <2>1, <3>1 DEF PreVotersAreNotCandidates
        <3>2. CASE m \in step.send
            BY <1>3, <1>4, <2>1, <3>2 DEF PreVotes
        <3> QED
            BY <1>2, <3>1, <3>2
    <2> QED
        BY <2>1 DEF PreVotersAreNotCandidates
<1>15. GrantsAreBallots'
    <2>1. ASSUME NEW m \in net', IsGrant(m)
          PROVE  \/ <<m.epoch, m.from, m.to>> \in ballots'
                 \/ NotCandidate(replica'[m.to], m.epoch)
        <3>1. CASE m \in net
            BY <1>5, <1>6, <1>7, <1>9, <2>1, <3>1 DEF GrantsAreBallots
        <3>2. CASE m \in step.send
            BY <1>6, <1>7, <1>8, <1>9, <2>1, <3>2 DEF q
        <3> QED
            BY <1>2, <3>1, <3>2
    <2> QED
        BY <2>1 DEF GrantsAreBallots
<1>16. ElectedByQuorum'
    <2> DEFINE Cast(e, u) == {w \in Voters : <<e, w, u>> \in ballots'}
    <2>1. ASSUME NEW e \in elected PROVE HasQuorum(Cast(e[1], e[2]))
        <3>1. HasQuorum({w \in Voters : <<e[1], w, e[2]>> \in ballots})
            BY <1>5 DEF ElectedByQuorum
        <3> QED
            BY <1>7, <3>1, QuorumGrows
    <2>2. ASSUME q.role.name = "Leader" PROVE HasQuorum(Cast(q.epoch, v))
        <3>1. CASE q.epoch = r.epoch /\ r.role.name = "Leader"
            <4>1. <<q.epoch, v>> \in elected
                BY <1>5, <3>1 DEF LeadersWereElected, IsLeader, r
            <4> QED
                BY <2>1, <4>1
        <3>2. CASE q.votedKey = v /\ HasQuorum({v})
            <4>1. {v} \subseteq Cast(q.epoch, v)
                BY <1>7, <1>8, <3>2
            <4> QED
                BY <3>2, <4>1, QuorumGrows
        <3>3. CASE q.epoch = r.epoch /\ r.role.name = "Candidate" /\ HasQuorum(r.role.granted \cup W)
            <4>1. ASSUME NEW w \in r.role.granted \cup W
                  PROVE  <<q.epoch, w, v>> \in ballots /\ w \in Voters
                <5>1. <<r.epoch, w, v>> \in ballots
                    BY <1>5, <3>3 DEF CandidatesCountBallots, r
                <5> QED
                    BY <1>6, <3>3, <5>1
            <4>2. r.role.granted \cup W \subseteq Cast(q.epoch, v)
                BY <1>7, <4>1
            <4> QED
                BY <3>3, <4>2, QuorumGrows
        <3> QED
            BY <1>4, <2>2, <3>1, <3>2, <3>3 DEF Leadership
    <2>3. ASSUME NEW e \in elected' PROVE HasQuorum(Cast(e[1], e[2]))
        <3>1. CASE e \in elected
            BY <2>1, <3>1
        <3>2. CASE q.role.name = "Leader" /\ e = <<q.epoch, v>>
            BY <2>2, <3>2
        <3> QED
            BY <1>2, <3>1, <3>2
    <2> QED
        BY <2>3 DEF ElectedByQuorum
<1>17. LeadersWereElected'
    <2>1. ASSUME NEW w \in Voters, replica'[w].role.name = "Leader"
          PROVE  <<replica'[w].epoch, w>> \in elected'
        <3>1. CASE w = v
            BY <1>2, <1>3, <2>1, <3>1 DEF q
        <3>2. CASE w # v
            BY <1>2, <1>3, <1>5, <2>1, <3>2 DEF LeadersWereElected, IsLeader
        <3> QED
            BY <3>1, <3>2
    <2> QED
        BY <2>1 DEF LeadersWereElected, IsLeader
<1>18. VotesKept
    <2>1. ASSUME NEW w \in Voters PROVE KeepsVote(replica[w], replica'[w])
        <3>1. CASE w = v
            BY <1>3, <1>4, <3>1 DEF r
        <3>2. CASE w # v
            <4>1. replica'[w] = replica[w] /\ replica[w].epoch \in Nat
                BY <1>3, <3>2, ReplicaFields DEF TypeOK
            <4> QED
                BY <4>1 DEF KeepsVote
        <3> QED
            BY <3>1, <3>2
    <2> QED
        BY <2>1 DEF VotesKept
<1> QED
    BY <1>10, <1>11, <1>12, <1>13, <1>14, <1>15, <1>16, <1>17, <1>18 DEF VoteInv

\* The turn of a step that counts no ballot and grants no vote.
LEMMA QuietTurn ==
    ASSUME TypeOK, TypeOK', VoteInv, NEW v \in Voters, NEW gone, NEW step,
           EndTurn(v, gone, step), VoteStep(v, replica[v], step, {}), NoGrant(step)
    PROVE  VoteInv' /\ VotesKept
BY VoteInvTurn DEF NoGrant

\* Recording a fetch moves neither epoch, vote nor role.
LEMMA HandleFetchKeeps ==
    ASSUME NEW me \in Voters, NEW r \in Replica, r.role.name = "Leader",
           NEW from \in Voters, NEW o \in Nat
    PROVE  LET f == handle_fetch(me, r, from, o)
           IN  f.epoch = r.epoch /\ f.votedKey = r.votedKey /\ f.role.name = "Leader"
<1> DEFINE f == [r EXCEPT !.role.replicas[from] = o]
<1>1. f.epoch = r.epoch /\ f.votedKey = r.votedKey /\ f.role.name = "Leader"
    BY RoleFields DEF Replica
<1>2. f = [r EXCEPT !.role = f.role]
    BY DEF Replica
<1> QED
    BY <1>1 DEF handle_fetch, Replica

\* Applying a Fetch answer keeps the vote and the epoch.
LEMMA FetchResponseStep ==
    ASSUME NEW me \in Voters, NEW r \in Replica, NEW m \in Message, m.type = "FetchAnswer"
    PROVE  VoteStep(me, r, handle_fetch_response(me, r, m), {})
           /\ NoGrant(handle_fetch_response(me, r, m))
<1> DEFINE log == append_fetched(r.log, m.base, m.records)
           n == IF m.diverging # Nil
                THEN truncate_to(r, follower_truncation_offset(m.diverging, r.log))
                ELSE [r EXCEPT !.log = log,
                               !.hwm = advance_high_watermark(@, m.hwm, Len(log))]
           f == [n EXCEPT !.role = Follower(m.from, TRUE)]
<1>1. f.epoch = r.epoch /\ f.votedKey = r.votedKey /\ f.role.name = "Follower"
    BY DEF truncate_to, Replica, Follower
<1>2. handle_fetch_response(me, r, m) = Step(f, send_fetch(me, m.from, f))
    BY DEF handle_fetch_response
<1> HIDE DEF f
<1>3. KeepsVote(r, f)
    BY <1>1, ReplicaFields DEF KeepsVote
<1> QED
    BY <1>1, <1>2, <1>3, FetchIsPlain, BystanderStep

\* An answer of the engine that grants nothing, with the role unmoved.
LEMMA AnswerStep ==
    ASSUME NEW me \in Voters, NEW r \in Replica, NEW q,
           q.epoch = r.epoch, q.votedKey = r.votedKey, q.role.name = r.role.name,
           q.role.name = "Candidate" => q.role.granted = r.role.granted,
           NEW m, Plain(m)
    PROVE  VoteStep(me, r, Step(q, {m}), {}) /\ NoGrant(Step(q, {m}))
BY SameRoleStep

\* Receiving any message preserves the vote invariant.
LEMMA ReceiveVotes ==
    ASSUME TypeOK, TypeOK', VoteInv, NEW m \in net, Receive(m)
    PROVE  VoteInv' /\ VotesKept
<1> DEFINE r == replica[m.to]
<1>1. m \in Message /\ m.to \in Voters /\ m.from \in Voters /\ m.epoch \in Nat
    BY MessageFields DEF TypeOK
<1>2. r \in Replica /\ r.epoch \in Nat
    BY <1>1, ReplicaFields DEF TypeOK
<1>3. ASSUME NEW step, Take(m, step), VoteStep(m.to, r, step, {}), NoGrant(step)
      PROVE  VoteInv' /\ VotesKept
    BY <1>1, <1>3, QuietTurn DEF Take
<1> HIDE DEF r
<1>4. ASSUME NEW d, NEW h, NEW s, NEW q, NEW error
      PROVE  Plain(FetchAnswer(m, q, error, d, h, s))
    <2>1. FetchAnswer(m, q, error, d, h, s).type = "FetchAnswer"
        BY DEF FetchAnswer
    <2> QED
        BY <2>1, PlainKinds
<1>5. CASE RefuseVote(m)
    <2> DEFINE answer == VoteAnswer(m, r, vote_request_error(r, m), FALSE)
    <2>1. Plain(answer)
        BY DEF Plain, IsPreVote, IsGrant, VoteAnswer
    <2>2. Take(m, Step(r, {answer}))
        BY <1>5 DEF RefuseVote, r
    <2> HIDE DEF answer
    <2>3. VoteStep(m.to, r, Step(r, {answer}), {}) /\ NoGrant(Step(r, {answer}))
        BY <1>1, <1>2, <2>1, AnswerStep
    <2> QED
        BY <1>3, <2>2, <2>3
<1>6. CASE AnswerVote(m)
    <2> DEFINE v == handle_vote_request(r, m)
               answer == VoteAnswer(m, v.replica, "NONE", v.granted)
               s == Step(v.replica, {answer})
    <2>1. m.type = "Vote" /\ Take(m, s) /\ m.epoch >= r.epoch
        BY <1>1, <1>2, <1>6 DEF AnswerVote, vote_request_error, r
    <2>2. /\ VoteStep(m.to, r, s, {})
          /\ v.replica.epoch = m.epoch
          /\ v.granted => m.preVote \/ v.replica.votedKey = m.from
        BY <1>1, <1>2, <2>1, VoteRequestStep
    <2>3. m.preVote => NotCandidate(replica[m.from], m.epoch)
        BY <2>1 DEF VoteInv, PreVotersAreNotCandidates, IsPreVote
    <2>4. /\ s.replica = v.replica /\ s.send = {answer}
          /\ answer.from = m.to /\ answer.to = m.from /\ answer.epoch = v.replica.epoch
          /\ IsGrant(answer) => v.granted
        BY DEF Step, VoteAnswer, IsGrant
    <2>5. PICK gone : EndTurn(m.to, gone, s)
        BY <2>1 DEF Take
    <2> HIDE DEF v, answer, s
    <2>6. \A a \in s.send : IsGrant(a) =>
                /\ a.from = m.to /\ a.epoch = s.replica.epoch
                /\ s.replica.votedKey = a.to \/ NotCandidate(replica[a.to], a.epoch)
        BY <2>2, <2>3, <2>4
    <2> QED
        BY <1>1, <2>2, <2>5, <2>6, VoteInvTurn DEF r
<1>7. CASE HandleBeginQuorumEpoch(m)
    BY <1>1, <1>2, <1>3, <1>7, BeginStep DEF HandleBeginQuorumEpoch, r
<1>8. CASE HandleEndQuorumEpoch(m)
    BY <1>1, <1>2, <1>3, <1>8, EndStep DEF HandleEndQuorumEpoch, r
<1>9. CASE RefuseFetch(m)
    <2> DEFINE answer == FetchAnswer(m, r, fetch_request_error(r, m), Nil, -1, <<>>)
    <2>1. Take(m, Step(r, {answer})) /\ Plain(answer)
        BY <1>4, <1>9 DEF RefuseFetch, r
    <2> HIDE DEF answer
    <2>2. VoteStep(m.to, r, Step(r, {answer}), {}) /\ NoGrant(Step(r, {answer}))
        BY <1>1, <1>2, <2>1, AnswerStep
    <2> QED
        BY <1>3, <2>1, <2>2
<1>10. CASE DivergingFetch(m)
    <2> DEFINE answer == FetchAnswer(m, r, "NONE", end_offset_for_epoch(r.log, m.fetchEpoch),
                                     r.hwm, <<>>)
    <2>1. Take(m, Step(r, {answer})) /\ Plain(answer)
        BY <1>4, <1>10 DEF DivergingFetch, r
    <2> HIDE DEF answer
    <2>2. VoteStep(m.to, r, Step(r, {answer}), {}) /\ NoGrant(Step(r, {answer}))
        BY <1>1, <1>2, <2>1, AnswerStep
    <2> QED
        BY <1>3, <2>1, <2>2
<1>11. CASE ServeFetch(m)
    <2> DEFINE f == handle_fetch(m.to, r, m.from, m.fetchOffset)
               answer(n) == FetchAnswer(m, f, "NONE", Nil, f.hwm,
                                SubSeq(r.log, m.fetchOffset + 1, m.fetchOffset + n))
    <2>1. PICK n : Take(m, Step(f, {answer(n)}))
        BY <1>11 DEF ServeFetch, r
    <2>2. m.fetchOffset \in Nat /\ r.role.name = "Leader"
        BY <1>1, <1>11, MessageFields DEF ServeFetch, fetch_request_error, r
    <2>3. f.epoch = r.epoch /\ f.votedKey = r.votedKey /\ f.role.name = "Leader"
        BY <1>1, <1>2, <2>2, HandleFetchKeeps
    <2>4. Plain(answer(n))
        BY <1>4
    <2> HIDE DEF f, answer
    <2>5. VoteStep(m.to, r, Step(f, {answer(n)}), {}) /\ NoGrant(Step(f, {answer(n)}))
        BY <1>1, <1>2, <2>2, <2>3, <2>4, AnswerStep
    <2> QED
        BY <1>3, <2>1, <2>5
<1>12. CASE LeaderlessEpoch(m)
    BY <1>1, <1>2, <1>3, <1>12, UnattachedStep DEF LeaderlessEpoch, r
<1>13. CASE FollowNamedByVote(m)
    <2>1. m.leader \in Voters
        BY <1>1, <1>13, MessageFields DEF FollowNamedByVote, MaybeVoter
    <2> QED
        BY <1>1, <1>2, <1>3, <1>13, <2>1, BeginStep DEF FollowNamedByVote, r
<1>14. CASE CountVote(m)
    <2> DEFINE s == handle_vote_response(m.to, r, m.from, m.granted)
               W == IF m.granted THEN {m.from} ELSE {}
    <2>1. m.type = "VoteAnswer" /\ m.epoch = r.epoch /\ Take(m, s)
        BY <1>14 DEF CountVote, r
    <2>2. m.granted \in BOOLEAN
        BY <1>1, <2>1, MessageFields
    <2>3. VoteStep(m.to, r, s, W) /\ NoGrant(s)
        BY <1>1, <1>2, <2>2, VoteResponseStep
    <2>4. m.granted => \/ <<m.epoch, m.from, m.to>> \in ballots
                       \/ NotCandidate(r, m.epoch)
        BY <2>1 DEF VoteInv, GrantsAreBallots, IsGrant, r
    <2>5. r.role.name = "Candidate" => \A w \in W : <<r.epoch, w, m.to>> \in ballots
        BY <1>2, <2>1, <2>4 DEF NotCandidate
    <2>6. PICK gone : EndTurn(m.to, gone, s)
        BY <2>1 DEF Take
    <2> HIDE DEF s, W
    <2> QED
        BY <1>1, <2>3, <2>5, <2>6, VoteInvTurn DEF r, NoGrant
<1>15. CASE FollowNamedByFetch(m)
    <2>1. m.leader \in Voters
        BY <1>1, <1>15, MessageFields DEF FollowNamedByFetch, MaybeVoter
    <2> QED
        BY <1>1, <1>2, <1>3, <1>15, <2>1, BeginStep DEF FollowNamedByFetch, r
<1>16. CASE ApplyFetchAnswer(m)
    BY <1>1, <1>2, <1>3, <1>16, FetchResponseStep DEF ApplyFetchAnswer, r
<1>17. CASE RefusedFetchAnswer(m)
    <2>1. Take(m, Step(r, send_fetch(m.to, m.from, r)))
        BY <1>17 DEF RefusedFetchAnswer, r
    <2>2. /\ VoteStep(m.to, r, Step(r, send_fetch(m.to, m.from, r)), {})
          /\ NoGrant(Step(r, send_fetch(m.to, m.from, r)))
        BY <1>1, <1>2, FetchIsPlain, SameRoleStep
    <2> QED
        BY <1>3, <2>1, <2>2
<1> QED
    BY <1>5, <1>6, <1>7, <1>8, <1>9, <1>10, <1>11, <1>12, <1>13, <1>14, <1>15, <1>16, <1>17
       DEF Receive

\* Every step preserves the vote invariant and keeps the votes.
LEMMA NextVotes ==
    ASSUME TypeOK, TypeOK', VoteInv, [Next]_vars
    PROVE  VoteInv' /\ VotesKept
<1>1. ASSUME NEW v \in Voters PROVE replica[v] \in Replica
    BY DEF TypeOK
<1>2. ASSUME NEW v \in Voters, ElectionTimeout(v) PROVE VoteInv' /\ VotesKept
    BY <1>1, <1>2, ElectionTimeoutStep, QuietTurn DEF ElectionTimeout, Act
<1>3. ASSUME NEW v \in Voters, FetchTimeout(v) PROVE VoteInv' /\ VotesKept
    BY <1>1, <1>3, StartElectionStep, QuietTurn DEF FetchTimeout, Act
<1>4. ASSUME NEW v \in Voters, Resign(v) PROVE VoteInv' /\ VotesKept
    BY <1>1, <1>4, ResignedStep, QuietTurn DEF Resign, Act
<1>5. ASSUME NEW v \in Voters, Submit(v) PROVE VoteInv' /\ VotesKept
    <2> DEFINE a == [replica[v] EXCEPT !.log = Append(@, replica[v].epoch)]
               q == advance_if_single_voter(a)
    <2>1. a \in Replica
        <3>1. Append(replica[v].log, replica[v].epoch) \in Seq(Nat)
            BY <1>1, ReplicaFields
        <3> QED
            BY <1>1, <3>1 DEF Replica
    <2>2. /\ a.epoch = replica[v].epoch /\ a.votedKey = replica[v].votedKey
          /\ a.role = replica[v].role
        BY <1>1 DEF Replica
    <2>3. EndTurn(v, {}, Step(q, {}))
        BY <1>5 DEF Submit, Act, NoStep
    <2> HIDE DEF a
    <2>4. q.epoch = a.epoch /\ q.votedKey = a.votedKey /\ q.role = a.role
        BY <2>1, SingleVoterKeeps
    <2> HIDE DEF q
    <2>5. VoteStep(v, replica[v], Step(q, {}), {}) /\ NoGrant(Step(q, {}))
        BY <1>1, <2>2, <2>4, SameRoleStep
    <2> QED
        BY <2>3, <2>5, QuietTurn
<1>6. ASSUME NEW v \in Voters, Restart(v) PROVE VoteInv' /\ VotesKept
    <2> DEFINE b(hwm) == [replica[v] EXCEPT !.leaderId = Nil, !.role = Unattached, !.hwm = hwm]
    <2>1. PICK hwm, gone : EndTurn(v, gone, Step(b(hwm), {}))
        BY <1>6 DEF Restart, NoStep
    <2>2. /\ b(hwm).epoch = replica[v].epoch /\ b(hwm).votedKey = replica[v].votedKey
          /\ b(hwm).role.name = "Unattached"
        BY <1>1 DEF Replica, Unattached
    <2> HIDE DEF b
    <2>3. KeepsVote(replica[v], b(hwm))
        BY <1>1, <2>2, ReplicaFields DEF KeepsVote
    <2>4. VoteStep(v, replica[v], Step(b(hwm), {}), {}) /\ NoGrant(Step(b(hwm), {}))
        BY <2>2, <2>3, BystanderStep
    <2> QED
        BY <2>1, <2>4, QuietTurn
<1>7. ASSUME UNCHANGED <<replica, elected, ballots>>, net' \subseteq net
      PROVE  VoteInv' /\ VotesKept
    <2>1. VoteInv'
        BY <1>7 DEF VoteInv, BallotsBind, VotesAreBallots, OneBallot, CandidatesCountBallots,
            PreVotersAreNotCandidates, GrantsAreBallots, ElectedByQuorum, LeadersWereElected,
            IsLeader
    <2>2. VotesKept
        BY <1>1, <1>7, ReplicaFields DEF VotesKept, KeepsVote
    <2> QED
        BY <2>1, <2>2
<1>8. ASSUME NEW m \in net, Lose(m) PROVE VoteInv' /\ VotesKept
    BY <1>7, <1>8 DEF Lose
<1>9. ASSUME NEW v \in Voters, Heartbeat(v) PROVE VoteInv' /\ VotesKept
    <2> DEFINE sent == {BeginQuorumEpoch(v, w, replica[v]) : w \in other_voters(v)}
    <2>1. ASSUME NEW m \in sent PROVE Plain(m)
        <3>1. m.type = "BeginQuorumEpoch"
            BY DEF BeginQuorumEpoch
        <3> QED
            BY <3>1, PlainKinds
    <2>2. EndTurn(v, {}, Step(replica[v], sent))
        BY <1>9 DEF Heartbeat, Act
    <2> HIDE DEF sent
    <2>3. /\ VoteStep(v, replica[v], Step(replica[v], sent), {})
          /\ NoGrant(Step(replica[v], sent))
        BY <1>1, <2>1, SameRoleStep
    <2> QED
        BY <2>2, <2>3, QuietTurn
<1>10. CASE UNCHANGED vars
    BY <1>7, <1>10 DEF vars
<1> QED
    BY <1>2, <1>3, <1>4, <1>5, <1>6, <1>8, <1>9, <1>10, ReceiveVotes DEF Next

\* No ballot has been cast initially.
LEMMA InitVotes ==
    ASSUME Init
    PROVE  VoteInv
<1>1. \A v \in Voters : replica[v] = BootstrapReplica
    BY DEF Init
<1>2. BootstrapReplica.votedKey = Nil /\ BootstrapReplica.role.name = "Unattached"
    BY DEF BootstrapReplica, Unattached
<1> QED
    BY <1>1, <1>2 DEF Init, VoteInv, BallotsBind, VotesAreBallots, OneBallot,
        CandidatesCountBallots, PreVotersAreNotCandidates, GrantsAreBallots, ElectedByQuorum,
        LeadersWereElected, IsLeader

\* Two majorities of the voters share one.
LEMMA QuorumsIntersect ==
    ASSUME NEW S \in SUBSET Voters, NEW T \in SUBSET Voters, HasQuorum(S), HasQuorum(T)
    PROVE  S \cap T # {}
<1>1. Cardinality(S) + Cardinality(T) > Cardinality(Voters)
    <2>1. IsFiniteSet(S) /\ IsFiniteSet(T)
        BY VotersAssumption, FS_Subset
    <2>2. Cardinality(S) \in Nat /\ Cardinality(T) \in Nat /\ Cardinality(Voters) \in Nat
        BY <2>1, VotersAssumption, FS_CardinalityType
    <2> QED
        BY <2>2 DEF HasQuorum, majority
<1> QED
    BY <1>1, VotersAssumption, FS_MajoritiesIntersect

\* Two leaders of an epoch would share a voter, who cast one ballot in it.
LEMMA VotesAreSafe ==
    ASSUME TypeOK, VoteInv
    PROVE  ElectionSafety
<1>1. ASSUME NEW a \in elected, NEW b \in elected, a[1] = b[1] PROVE a[2] = b[2]
    <2> DEFINE S == {w \in Voters : <<a[1], w, a[2]>> \in ballots}
               T == {w \in Voters : <<b[1], w, b[2]>> \in ballots}
    <2>1. HasQuorum(S) /\ HasQuorum(T)
        BY DEF VoteInv, ElectedByQuorum
    <2>2. PICK w \in Voters : w \in S /\ w \in T
        BY <2>1, QuorumsIntersect
    <2>3. <<a[1], w, a[2]>> \in ballots /\ <<a[1], w, b[2]>> \in ballots
        BY <1>1, <2>2
    <2> QED
        BY <2>3 DEF VoteInv, OneBallot
<1> QED
    BY <1>1 DEF ElectionSafety

\* Every grant a candidate counts is the one ballot its voter cast in that
\* epoch, and every leader won a majority of them: the inductive invariant.
THEOREM VotesInvariant == Spec => []VoteInv
<1>1. Init => VoteInv
    BY InitVotes
<1>2. TypeOK /\ TypeOK' /\ VoteInv /\ [Next]_vars => VoteInv'
    BY NextVotes
<1> QED
    BY <1>1, <1>2, TypeCorrect, PTL DEF Spec

\* At most one voter ever leads an epoch, for any voter set, over any network
\* that delays, reorders, loses and repeats messages, across restarts.
THEOREM ElectionSafe == Spec => []ElectionSafety
<1>1. TypeOK /\ VoteInv => ElectionSafety
    BY VotesAreSafe
<1> QED
    BY <1>1, TypeCorrect, VotesInvariant, PTL

\* A voter never changes the vote it gave in an epoch and never returns to an
\* epoch it left, across restarts too.
THEOREM VoteFinal == Spec => VoteIsFinal
<1>1. TypeOK /\ TypeOK' /\ VoteInv /\ [Next]_vars =>
        [\A v \in Voters :
            \/ replica'[v].epoch > replica[v].epoch
            \/ /\ replica'[v].epoch = replica[v].epoch
               /\ \/ replica[v].votedKey = Nil
                  \/ replica'[v].votedKey = replica[v].votedKey]_vars
    <2> SUFFICES ASSUME TypeOK, TypeOK', VoteInv, [Next]_vars, NEW v \in Voters
                 PROVE  \/ replica'[v].epoch > replica[v].epoch
                        \/ /\ replica'[v].epoch = replica[v].epoch
                           /\ \/ replica[v].votedKey = Nil
                              \/ replica'[v].votedKey = replica[v].votedKey
        OBVIOUS
    <2>1. KeepsVote(replica[v], replica'[v])
        BY NextVotes DEF VotesKept
    <2>2. replica[v].epoch \in Nat /\ replica'[v].epoch \in Nat
        BY ReplicaFields DEF TypeOK
    <2> QED
        BY <2>1, <2>2 DEF KeepsVote
<1> QED
    BY <1>1, TypeCorrect, VotesInvariant, PTL DEF Spec, VoteIsFinal

=============================================================================
