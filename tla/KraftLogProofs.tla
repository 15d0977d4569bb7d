--------------------------- MODULE KraftLogProofs ---------------------------
(***************************************************************************)
(* What one turn of an engine does to its log, to the leader it knows and  *)
(* to the network.  Every handler of KraftCore but those of the log's      *)
(* replication is shown to be a CoreTurn, and every step of the quorum is  *)
(* one of six kinds, which the proofs about logs go through; log matching  *)
(* is the second part.                                                     *)
(***************************************************************************)
EXTENDS KraftVoteProofs, KraftPast, SequenceTheorems

\* The log stays, and nobody starts to lead.
KeepsLog(r, q) ==
    /\ q.log = r.log
    /\ q.hwm <= r.hwm
    /\ q.role.name = "Leader" => q.role = r.role /\ q.epoch = r.epoch /\ q.hwm = r.hwm

\* An election is won, and its LeaderChange batch is appended.
Wins(me, r, q) ==
    /\ q.role = Leader([v \in Voters |-> 0], 0, Len(r.log))
    /\ q.log = Append(r.log, q.epoch)
    /\ q.hwm = r.hwm \/ (majority = 1 /\ q.hwm = Len(q.log))
    /\ q.epoch > r.epoch \/ (q.epoch = r.epoch /\ r.role.name = "Candidate")

\* The leader known afterwards was known before, is one of those that the
\* turn was told of, or is the replica itself.
Knows(me, r, q, told) ==
    known_leader(q) # Nil =>
        \/ q.epoch = r.epoch /\ known_leader(q) = known_leader(r)
        \/ <<q.epoch, known_leader(q)>> \in told
        \/ q.role.name = "Leader" /\ known_leader(q) = me

\* A new vote is for the replica itself or for one of the candidates asking.
Votes(me, r, q, asking) ==
    q.votedKey # Nil =>
        \/ q.epoch = r.epoch /\ q.votedKey = r.votedKey
        \/ q.epoch > r.epoch /\ q.votedKey = me /\ q.role.name \in {"Candidate", "Leader"}
        \/ <<q.epoch, q.votedKey>> \in asking

\* What a message sent at the end of the turn says of its sender.
Says(me, r, q, m) ==
    /\ m.type = "BeginQuorumEpoch" =>
            m.from = me /\ m.epoch = q.epoch /\ q.role.name = "Leader"
    /\ IsAnswer(m) => m.epoch = q.epoch /\ m.leader = q.leaderId
    /\ m.type = "Fetch" =>
            /\ m.from = me /\ m.to # me /\ m.epoch = q.epoch /\ q.role.name = "Follower"
            /\ m.fetchEpoch = last_epoch(q.log) /\ m.fetchOffset = Len(q.log)
    /\ m.type = "Vote" /\ ~m.preVote =>
            /\ m.from = me /\ m.epoch = q.epoch /\ q.epoch > r.epoch
            /\ m.lastEpoch = last_epoch(r.log) /\ m.lastOffset = Len(r.log)
    /\ ~IsServed(m)

CoreTurn(me, r, s, told, asking) ==
    /\ KeepsLog(r, s.replica) \/ Wins(me, r, s.replica)
    /\ Knows(me, r, s.replica, told)
    /\ Votes(me, r, s.replica, asking)
    /\ \A m \in s.send : Says(me, r, s.replica, m)

\* The parts of a core turn that ends in a given replica.
LEMMA CoreParts ==
    ASSUME NEW me, NEW r, NEW q, NEW send, NEW told, NEW asking,
           KeepsLog(r, q) \/ Wins(me, r, q), Knows(me, r, q, told), Votes(me, r, q, asking),
           \A m \in send : Says(me, r, q, m)
    PROVE  CoreTurn(me, r, Step(q, send), told, asking)
<1>1. Step(q, send).replica = q /\ Step(q, send).send = send
    BY DEF Step
<1> QED
    BY <1>1 DEF CoreTurn

\* The Fetch of a follower says where its log ends.
LEMMA FetchSays ==
    ASSUME NEW me, NEW r, NEW q, NEW to, q.role.name = "Follower"
    PROVE  \A m \in send_fetch(me, to, q) : Says(me, r, q, m)
BY DEF send_fetch, Says, IsAnswer, IsServed, end_offset

\* A request of the election says where the log ended.
LEMMA VoteSays ==
    ASSUME NEW me, NEW to, NEW r, NEW q, NEW c, c.epoch = q.epoch, c.log = r.log
    PROVE  /\ q.epoch > r.epoch => Says(me, r, q, VoteRequest(me, to, c, FALSE))
           /\ Says(me, r, q, VoteRequest(me, to, c, TRUE))
BY DEF VoteRequest, Says, IsAnswer, IsServed, end_offset

\* A turn that keeps the epoch, the vote, the log and the role, or the role
\* of a bystander.
LEMMA SameCore ==
    ASSUME NEW me, NEW r \in Replica, NEW q, NEW send,
           q.epoch = r.epoch, q.votedKey = r.votedKey, q.log = r.log, q.hwm = r.hwm,
           known_leader(q) \in {Nil, known_leader(r)},
           q.role.name # "Leader" \/ q.role = r.role,
           \A m \in send : Says(me, r, q, m)
    PROVE  CoreTurn(me, r, Step(q, send), {}, {})
<1>1. KeepsLog(r, q)
    BY ReplicaFields DEF KeepsLog
<1>2. Knows(me, r, q, {}) /\ Votes(me, r, q, {})
    BY DEF Knows, Votes
<1> QED
    BY <1>1, <1>2, CoreParts

\* Following a leader: r0 is the replica whose turn it is, r what the turn
\* made of it so far.
LEMMA BeginCore ==
    ASSUME NEW me \in Voters, NEW r0 \in Replica, NEW r \in Replica,
           r.epoch = r0.epoch, r.votedKey = r0.votedKey, r.log = r0.log, r.hwm = r0.hwm,
           known_leader(r) = known_leader(r0), r.role.name # "Leader" \/ r.role = r0.role,
           NEW l \in Voters, NEW e \in Nat
    PROVE  CoreTurn(me, r0, handle_begin_quorum_epoch(me, r, l, e), {<<e, l>>}, {})
<1> DEFINE f == [r EXCEPT !.epoch = e, !.leaderId = l,
                          !.votedKey = IF e > r.epoch THEN Nil ELSE @,
                          !.role = Follower(l, FALSE)]
<1>1. CASE AcceptsLeader(r, e)
    <2>1. /\ f.epoch = e /\ f.role.name = "Follower" /\ f.leaderId = l
          /\ f.votedKey = IF e > r.epoch THEN Nil ELSE r.votedKey
          /\ f.log = r.log /\ f.hwm = r.hwm
        BY DEF Replica, Follower
    <2>2. handle_begin_quorum_epoch(me, r, l, e) = Step(f, send_fetch(me, l, f))
        BY <1>1 DEF handle_begin_quorum_epoch
    <2> HIDE DEF f
    <2>3. KeepsLog(r0, f)
        BY <2>1, ReplicaFields DEF KeepsLog
    <2>4. Knows(me, r0, f, {<<e, l>>})
        BY <2>1 DEF Knows, known_leader
    <2>5. Votes(me, r0, f, {})
        BY <1>1, <2>1, ReplicaFields DEF Votes, AcceptsLeader
    <2> QED
        BY <2>1, <2>2, <2>3, <2>4, <2>5, FetchSays, CoreParts
<1>2. CASE ~AcceptsLeader(r, e)
    <2>1. handle_begin_quorum_epoch(me, r, l, e) = Step(r, {})
        BY <1>2 DEF handle_begin_quorum_epoch, NoStep
    <2>2. KeepsLog(r0, r) /\ Knows(me, r0, r, {<<e, l>>}) /\ Votes(me, r0, r, {})
        BY ReplicaFields DEF KeepsLog, Knows, Votes
    <2> QED
        BY <2>1, <2>2, CoreParts
<1> QED
    BY <1>1, <1>2

\* Waiting for an election forgets the leader and keeps the log.
LEMMA AwaitCore ==
    ASSUME NEW me \in Voters, NEW r \in Replica, NEW q \in Replica,
           q.epoch = r.epoch, q.votedKey = r.votedKey, q.log = r.log, q.hwm = r.hwm,
           q.leaderId \in {Nil, known_leader(r)}
    PROVE  CoreTurn(me, r, NoStep(await_election(q)), {}, {})
<1> DEFINE a == await_election(q)
<1>1. /\ a.epoch = r.epoch /\ a.votedKey = r.votedKey /\ a.log = r.log /\ a.hwm = r.hwm
      /\ a.role.name \in {"Voted", "Unattached"} /\ a.leaderId = q.leaderId
    BY DEF await_election, Replica, Voted, Unattached
<1> HIDE DEF a
<1>2. known_leader(a) \in {Nil, known_leader(r)}
    BY <1>1 DEF known_leader
<1> QED
    BY <1>1, <1>2, SameCore DEF NoStep, a

\* Adopting a newer epoch keeps the log.
LEMMA UnattachedCore ==
    ASSUME NEW me, NEW r \in Replica, NEW e \in Nat, e > r.epoch
    PROVE  CoreTurn(me, r, NoStep(transition_to_unattached(r, e)), {}, {})
<1> DEFINE q == transition_to_unattached(r, e)
<1>1. /\ q.epoch = e /\ q.votedKey = Nil /\ q.leaderId = Nil /\ q.role.name = "Unattached"
      /\ q.log = r.log /\ q.hwm = r.hwm
    BY DEF transition_to_unattached, Replica, Unattached
<1> HIDE DEF q
<1>2. KeepsLog(r, q)
    BY <1>1, ReplicaFields DEF KeepsLog
<1>3. Knows(me, r, q, {}) /\ Votes(me, r, q, {})
    BY <1>1 DEF Knows, Votes, known_leader
<1> QED
    BY <1>2, <1>3, CoreParts DEF NoStep, q

\* A lone voter's commit keeps the log, and commits all of it.
LEMMA SingleVoterLog ==
    ASSUME NEW r \in Replica
    PROVE  LET a == advance_if_single_voter(r)
           IN  /\ a.log = r.log
               /\ a.hwm = r.hwm \/ (majority = 1 /\ a.hwm = Len(r.log))
<1>1. r.hwm \in Nat /\ Len(r.log) \in Nat
    BY ReplicaFields DEF end_offset
<1>2. advance_high_watermark(r.hwm, Len(r.log), Len(r.log)) \in {r.hwm, Len(r.log)}
    BY <1>1 DEF advance_high_watermark
<1> QED
    BY <1>2 DEF advance_if_single_voter, Replica

\* The winner's log, role and announcements.
LEMMA PromoteLeaderLog ==
    ASSUME NEW me \in Voters, NEW r \in Replica
    PROVE  LET q == promote_to_leader(me, r).replica
           IN  /\ q.role = Leader([v \in Voters |-> 0], 0, Len(r.log))
               /\ q.log = Append(r.log, r.epoch)
               /\ q.hwm = r.hwm \/ (majority = 1 /\ q.hwm = Len(q.log))
<1> DEFINE role == Leader([v \in Voters |-> 0], 0, end_offset(r.log))
           l == [r EXCEPT !.leaderId = me, !.role = role, !.log = Append(@, r.epoch)]
           sent == {BeginQuorumEpoch(me, v, l) : v \in other_voters(me)}
<1>1. role \in Role /\ Append(r.log, r.epoch) \in Seq(Nat) /\ Len(r.log) = end_offset(r.log)
    BY RoleConstructors, ReplicaFields DEF end_offset
<1>2. promote_to_leader(me, r) = Step(advance_if_single_voter(l), sent)
    BY DEF promote_to_leader
<1> HIDE DEF role
<1>3. l \in Replica /\ l.role = role /\ l.log = Append(r.log, r.epoch) /\ l.hwm = r.hwm
    BY <1>1 DEF Replica, MaybeVoter
<1> HIDE DEF l, sent
<1>4. LET a == advance_if_single_voter(l)
      IN  /\ a.log = l.log /\ a.role = l.role
          /\ a.hwm = l.hwm \/ (majority = 1 /\ a.hwm = Len(l.log))
    BY <1>3, SingleVoterLog, SingleVoterKeeps
<1> QED
    BY <1>1, <1>2, <1>3, <1>4 DEF Step, role

\* A candidate wins: c is what the turn made of r so far.
LEMMA PromoteLeaderCore ==
    ASSUME NEW me \in Voters, NEW r \in Replica, NEW c \in Replica,
           c.log = r.log, c.hwm = r.hwm,
           \/ c.epoch > r.epoch /\ c.votedKey = me
           \/ c.epoch = r.epoch /\ c.votedKey = r.votedKey /\ r.role.name = "Candidate"
    PROVE  LET s == promote_to_leader(me, c)
           IN  /\ Wins(me, r, s.replica) /\ Knows(me, r, s.replica, {})
               /\ Votes(me, r, s.replica, {})
               /\ \A m \in s.send : Says(me, r, s.replica, m)
<1> DEFINE s == promote_to_leader(me, c)
           q == s.replica
<1>1. /\ q.role = Leader([v \in Voters |-> 0], 0, Len(r.log))
      /\ q.log = Append(r.log, c.epoch)
      /\ q.hwm = r.hwm \/ (majority = 1 /\ q.hwm = Len(q.log))
    BY PromoteLeaderLog
<1>2. /\ q.epoch = c.epoch /\ q.votedKey = c.votedKey
      /\ q.role.name = "Leader" /\ q.leaderId = me
      /\ \A m \in s.send : m.type = "BeginQuorumEpoch" /\ m.from = me /\ m.epoch = c.epoch
    BY PromoteLeaderFacts
<1> HIDE DEF s
<1>3. Wins(me, r, q)
    BY <1>1, <1>2 DEF Wins
<1>4. Knows(me, r, q, {}) /\ Votes(me, r, q, {})
    BY <1>2 DEF Knows, Votes, known_leader
<1>5. \A m \in s.send : Says(me, r, q, m)
    BY <1>2 DEF Says, IsAnswer, IsServed
<1> QED
    BY <1>3, <1>4, <1>5 DEF s

\* Standing for the next epoch, from whatever the turn made of r so far.
LEMMA PromoteCandidateCore ==
    ASSUME NEW me \in Voters, NEW r \in Replica, NEW p \in Replica,
           p.epoch = r.epoch, p.log = r.log, p.hwm = r.hwm
    PROVE  LET s == promote_to_candidate(me, p)
           IN  /\ KeepsLog(r, s.replica) \/ Wins(me, r, s.replica)
               /\ Knows(me, r, s.replica, {}) /\ Votes(me, r, s.replica, {})
               /\ \A m \in s.send : Says(me, r, s.replica, m)
<1> DEFINE c == [p EXCEPT !.epoch = @ + 1, !.leaderId = Nil, !.votedKey = me,
                          !.role = Candidate({me})]
           votes == {VoteRequest(me, v, c, FALSE) : v \in other_voters(me)}
           won == promote_to_leader(me, c)
           s == promote_to_candidate(me, p)
<1>0. r.epoch \in Nat /\ r.hwm \in Nat
    BY ReplicaFields
<1>1. /\ c \in Replica /\ c.epoch = r.epoch + 1 /\ c.votedKey = me /\ c.leaderId = Nil
      /\ c.role.name = "Candidate" /\ c.log = r.log /\ c.hwm = r.hwm
    <2>1. r.epoch + 1 \in Nat /\ Candidate({me}) \in Role /\ Candidate({me}).name = "Candidate"
        BY <1>0, RoleConstructors DEF Candidate
    <2> QED
        BY <2>1 DEF Replica, MaybeVoter
<1>2. s = IF HasQuorum({me}) THEN Step(won.replica, votes \cup won.send) ELSE Step(c, votes)
    BY DEF promote_to_candidate
<1> HIDE DEF c
<1>3. ASSUME NEW q, q.epoch = c.epoch, NEW m \in votes PROVE Says(me, r, q, m)
    <2>1. PICK v \in other_voters(me) : m = VoteRequest(me, v, c, FALSE)
        OBVIOUS
    <2>2. q.epoch > r.epoch
        BY <1>0, <1>1, <1>3
    <2> QED
        BY <1>1, <1>3, <2>1, <2>2, VoteSays
<1>4. CASE HasQuorum({me})
    <2>1. s.replica = won.replica /\ s.send = votes \cup won.send
        BY <1>2, <1>4 DEF Step
    <2>2. /\ Wins(me, r, won.replica) /\ Knows(me, r, won.replica, {})
          /\ Votes(me, r, won.replica, {})
          /\ \A m \in won.send : Says(me, r, won.replica, m)
        BY <1>0, <1>1, PromoteLeaderCore
    <2>3. won.replica.epoch = c.epoch
        BY <1>1, PromoteLeaderFacts
    <2> HIDE DEF votes, won, s
    <2> QED
        BY <1>3, <2>1, <2>2, <2>3 DEF s
<1>5. CASE ~HasQuorum({me})
    <2>1. s.replica = c /\ s.send = votes
        BY <1>2, <1>5 DEF Step
    <2>2. KeepsLog(r, c) /\ Knows(me, r, c, {}) /\ Votes(me, r, c, {})
        BY <1>0, <1>1 DEF KeepsLog, Knows, Votes, known_leader
    <2> HIDE DEF votes, won, s
    <2> QED
        BY <1>3, <2>1, <2>2 DEF s
<1> QED
    BY <1>4, <1>5

\* Opening a pre-vote remembers the leader it gives up on.
LEMMA StartElectionCore ==
    ASSUME NEW me \in Voters, NEW r \in Replica
    PROVE  CoreTurn(me, r, start_election(me, r), {}, {})
<1> DEFINE p == [r EXCEPT !.leaderId = Nil,
                          !.role = Prospective({me}, {}, known_leader(r))]
           preVotes == {VoteRequest(me, v, p, TRUE) : v \in other_voters(me)}
           won == promote_to_candidate(me, p)
<1>1. /\ p \in Replica /\ p.epoch = r.epoch /\ p.votedKey = r.votedKey
      /\ p.log = r.log /\ p.hwm = r.hwm /\ p.role.name = "Prospective"
      /\ known_leader(p) = known_leader(r)
    <2> DEFINE role == Prospective({me}, {}, known_leader(r))
    <2>1. role \in Role /\ role.name = "Prospective" /\ role.abandoned = known_leader(r)
        BY RoleConstructors, KnownLeaderType DEF Prospective
    <2>2. p = [r EXCEPT !.leaderId = Nil, !.role = role]
        OBVIOUS
    <2> HIDE DEF role, p
    <2>3. p.leaderId = Nil /\ p.role = role
        BY <2>2 DEF Replica
    <2>4. known_leader(p) = known_leader(r)
        BY <2>1, <2>3 DEF known_leader
    <2> QED
        BY <2>1, <2>2, <2>4 DEF Replica, MaybeVoter
<1>2. start_election(me, r) = IF HasQuorum({me})
                              THEN Step(won.replica, preVotes \cup won.send)
                              ELSE Step(p, preVotes)
    BY DEF start_election
<1> HIDE DEF p
<1>3. ASSUME NEW q, NEW m \in preVotes PROVE Says(me, r, q, m)
    <2>1. PICK v \in other_voters(me) : m = VoteRequest(me, v, p, TRUE)
        OBVIOUS
    <2> QED
        BY <2>1 DEF VoteRequest, Says, IsAnswer, IsServed
<1> HIDE DEF preVotes
<1>4. CASE HasQuorum({me})
    <2>1. start_election(me, r) = Step(won.replica, preVotes \cup won.send)
        BY <1>2, <1>4
    <2>2. /\ KeepsLog(r, won.replica) \/ Wins(me, r, won.replica)
          /\ Knows(me, r, won.replica, {}) /\ Votes(me, r, won.replica, {})
          /\ \A m \in won.send : Says(me, r, won.replica, m)
        BY <1>1, PromoteCandidateCore
    <2> HIDE DEF won
    <2>3. \A m \in preVotes \cup won.send : Says(me, r, won.replica, m)
        BY <1>3, <2>2
    <2> QED
        BY <2>1, <2>2, <2>3, CoreParts
<1>5. CASE ~HasQuorum({me})
    <2>1. start_election(me, r) = Step(p, preVotes)
        BY <1>2, <1>5
    <2> QED
        BY <1>1, <1>3, <2>1, SameCore
<1> QED
    BY <1>4, <1>5

\* To be told of the leader it knows tells a replica nothing.
LEMMA ToldNothing ==
    ASSUME NEW me, NEW r, NEW s, NEW V,
           CoreTurn(me, r, s, {<<r.epoch, known_leader(r)>>}, V)
    PROVE  CoreTurn(me, r, s, {}, V)
BY DEF CoreTurn, Knows

\* An election timeout follows the leader it gave up on, or opens a pre-vote.
LEMMA ElectionTimeoutCore ==
    ASSUME NEW me \in Voters, NEW r \in Replica
    PROVE  CoreTurn(me, r, handle_election_timeout(me, r), {}, {})
<1> DEFINE again == /\ r.role.name = "Prospective" /\ r.role.abandoned # Nil
                    /\ AcceptsLeader(r, r.epoch)
<1>1. r.epoch \in Nat /\ r.role \in Role
    BY ReplicaFields
<1>2. CASE again
    <2>1. r.role.abandoned \in Voters
        BY <1>1, <1>2, RoleFields DEF MaybeVoter
    <2>2. known_leader(r) = r.role.abandoned
        BY <1>1, <1>2 DEF known_leader, AcceptsLeader
    <2>3. CoreTurn(me, r, handle_election_timeout(me, r), {<<r.epoch, known_leader(r)>>}, {})
        BY <1>1, <1>2, <2>1, <2>2, BeginCore DEF handle_election_timeout
    <2> QED
        BY <2>3, ToldNothing
<1>3. CASE ~again
    BY <1>3, StartElectionCore DEF handle_election_timeout
<1> QED
    BY <1>2, <1>3

\* A resignation forgets the leader and keeps the log.
LEMMA ResignedCore ==
    ASSUME NEW me \in Voters, NEW r \in Replica, NEW first
    PROVE  CoreTurn(me, r, transition_to_resigned(me, r, first), {}, {})
<1> DEFINE d == [r EXCEPT !.leaderId = Nil, !.role = Resigned]
           sent == {EndQuorumEpoch(me, v, d, first) : v \in other_voters(me)}
<1>1. /\ d.epoch = r.epoch /\ d.votedKey = r.votedKey /\ d.role.name = "Resigned"
      /\ d.log = r.log /\ d.hwm = r.hwm /\ d.leaderId = Nil
    BY DEF Replica, Resigned
<1>2. ASSUME NEW m \in sent PROVE Says(me, r, d, m)
    BY DEF EndQuorumEpoch, Says, IsAnswer, IsServed
<1>3. transition_to_resigned(me, r, first) = Step(d, sent)
    BY DEF transition_to_resigned
<1> HIDE DEF d, sent
<1>4. known_leader(d) = Nil
    BY <1>1 DEF known_leader
<1> QED
    BY <1>1, <1>2, <1>3, <1>4, SameCore

\* A resigning leader's request keeps the log.
LEMMA EndCore ==
    ASSUME NEW me \in Voters, NEW r \in Replica, NEW first
    PROVE  CoreTurn(me, r, handle_end_quorum_epoch(me, r, first), {}, {})
<1> DEFINE q == [r EXCEPT !.leaderId = Nil]
<1>1. /\ q \in Replica /\ q.epoch = r.epoch /\ q.votedKey = r.votedKey
      /\ q.log = r.log /\ q.hwm = r.hwm /\ q.leaderId = Nil
    BY DEF Replica, MaybeVoter
<1> HIDE DEF q
<1>2. CoreTurn(me, r, NoStep(await_election(q)), {}, {})
    BY <1>1, AwaitCore
<1> QED
    BY <1>2, StartElectionCore DEF handle_end_quorum_epoch, q

\* A refused pre-vote keeps the log, whichever way the round ends.
LEMMA RejectionCore ==
    ASSUME NEW me \in Voters, NEW r \in Replica, NEW from \in Voters,
           r.role.name = "Prospective"
    PROVE  CoreTurn(me, r, record_pre_vote_rejection(me, r, from), {}, {})
<1> DEFINE role == Prospective(r.role.granted \ {from}, r.role.rejected \cup {from},
                               r.role.abandoned)
           n == [r EXCEPT !.role = role]
<1>1. /\ r.role.granted \in SUBSET Voters /\ r.role.rejected \in SUBSET Voters
      /\ r.role.abandoned \in MaybeVoter /\ r.epoch \in Nat
    BY ReplicaFields, RoleFields
<1>2. role \in Role /\ role.name = "Prospective" /\ role.abandoned = r.role.abandoned
    BY <1>1, RoleConstructors DEF Prospective
<1>3. /\ n = [r EXCEPT !.role = Prospective(r.role.granted \ {from},
                                       r.role.rejected \cup {from}, r.role.abandoned)]
      /\ n = [r EXCEPT !.role = role]
    OBVIOUS
<1> HIDE DEF role, n
<1>4. /\ n \in Replica /\ n.epoch = r.epoch /\ n.votedKey = r.votedKey
      /\ n.log = r.log /\ n.hwm = r.hwm /\ n.role = role /\ n.leaderId = r.leaderId
    BY <1>2, <1>3 DEF Replica
<1>5. known_leader(n) = known_leader(r)
    BY <1>2, <1>4 DEF known_leader
<1>6. CoreTurn(me, r, NoStep(n), {}, {})
    BY <1>2, <1>4, <1>5, SameCore DEF NoStep
<1>7. CoreTurn(me, r, NoStep(await_election(n)), {}, {})
    <2>1. n.leaderId \in {Nil, known_leader(r)}
        BY <1>4 DEF known_leader
    <2> QED
        BY <1>4, <2>1, AwaitCore
<1>8. ASSUME r.role.abandoned # Nil
      PROVE  CoreTurn(me, r, handle_begin_quorum_epoch(me, n, r.role.abandoned, r.epoch), {}, {})
    <2>1. CASE r.leaderId = Nil
        <3>1. known_leader(r) = r.role.abandoned /\ r.role.abandoned \in Voters
            BY <1>1, <1>8, <2>1 DEF known_leader, MaybeVoter
        <3>2. CoreTurn(me, r, handle_begin_quorum_epoch(me, n, r.role.abandoned, r.epoch),
                       {<<r.epoch, known_leader(r)>>}, {})
            BY <1>1, <1>2, <1>4, <1>5, <3>1, BeginCore
        <3> QED
            BY <3>2, ToldNothing
    <2>2. CASE r.leaderId # Nil
        <3>1. ~AcceptsLeader(n, r.epoch)
            BY <1>1, <1>4, <2>2 DEF AcceptsLeader
        <3> QED
            BY <1>6, <3>1 DEF handle_begin_quorum_epoch
    <2> QED
        BY <2>1, <2>2
<1> QED
    BY <1>3, <1>6, <1>7, <1>8 DEF record_pre_vote_rejection

\* A vote answer keeps the log, unless it completes a majority.
LEMMA VoteResponseCore ==
    ASSUME NEW me \in Voters, NEW r \in Replica, NEW from \in Voters, NEW granted \in BOOLEAN
    PROVE  CoreTurn(me, r, handle_vote_response(me, r, from, granted), {}, {})
<1> DEFINE grants == r.role.granted \cup {from}
           p == [r EXCEPT !.role = Prospective(grants, r.role.rejected \ {from},
                                               r.role.abandoned)]
           c == [r EXCEPT !.role = Candidate(grants)]
           s == handle_vote_response(me, r, from, granted)
<1>1. CASE r.role.name = "Prospective" /\ granted
    <2>1. /\ p \in Replica /\ p.epoch = r.epoch /\ p.votedKey = r.votedKey
          /\ p.log = r.log /\ p.hwm = r.hwm /\ p.role.name = "Prospective"
          /\ known_leader(p) = known_leader(r)
        <3> DEFINE role == Prospective(grants, r.role.rejected \ {from}, r.role.abandoned)
        <3>1. role \in Role /\ role.name = "Prospective" /\ role.abandoned = r.role.abandoned
            BY <1>1, ReplicaFields, RoleFields, RoleConstructors DEF Prospective
        <3>2. p = [r EXCEPT !.role = role]
            OBVIOUS
        <3> HIDE DEF role, p
        <3>3. p.role = role /\ p.leaderId = r.leaderId
            BY <3>2 DEF Replica
        <3>4. known_leader(p) = known_leader(r)
            BY <1>1, <3>1, <3>3 DEF known_leader
        <3> QED
            BY <3>1, <3>2, <3>4 DEF Replica
    <2>2. s = IF HasQuorum(grants) THEN promote_to_candidate(me, p) ELSE NoStep(p)
        BY <1>1 DEF handle_vote_response
    <2> HIDE DEF p, s, grants
    <2>3. CASE s = NoStep(p)
        BY <2>1, <2>3, SameCore DEF NoStep, s
    <2>4. CASE s = promote_to_candidate(me, p)
        BY <2>1, <2>4, PromoteCandidateCore DEF CoreTurn, s
    <2> QED
        BY <2>2, <2>3, <2>4
<1>2. CASE r.role.name = "Candidate" /\ granted
    <2>1. /\ c \in Replica /\ c.epoch = r.epoch /\ c.votedKey = r.votedKey
          /\ c.log = r.log /\ c.hwm = r.hwm /\ c.role.name = "Candidate"
          /\ c.leaderId = r.leaderId
        <3>1. Candidate(grants) \in Role /\ Candidate(grants).name = "Candidate"
            BY <1>2, ReplicaFields, RoleFields, RoleConstructors DEF Candidate
        <3> HIDE DEF grants
        <3> QED
            BY <3>1 DEF Replica
    <2>2. s = IF HasQuorum(grants) THEN promote_to_leader(me, c) ELSE NoStep(c)
        BY <1>2 DEF handle_vote_response
    <2> HIDE DEF c, s
    <2>3. CASE s = NoStep(c)
        <3>1. known_leader(c) = known_leader(r)
            BY <1>2, <2>1 DEF known_leader
        <3> QED
            BY <2>1, <2>3, <3>1, SameCore DEF NoStep, s
    <2>4. CASE s = promote_to_leader(me, c)
        BY <1>2, <2>1, <2>4, PromoteLeaderCore DEF CoreTurn, s
    <2> QED
        BY <2>2, <2>3, <2>4
<1>3. CASE r.role.name = "Prospective" /\ ~granted
    BY <1>3, RejectionCore DEF handle_vote_response
<1>4. CASE r.role.name \notin {"Prospective", "Candidate"}
           \/ (r.role.name = "Candidate" /\ ~granted)
    <2>1. s = NoStep(r)
        BY <1>4 DEF handle_vote_response
    <2> QED
        BY <2>1, SameCore DEF NoStep
<1> QED
    BY <1>1, <1>2, <1>3, <1>4

\* A vote request with a log up to date with this one.
AsksRightly(m, log) ==
    /\ m.type = "Vote"
    /\ ~m.preVote
    /\ log_is_up_to_date(log, m.lastEpoch, m.lastOffset)

\* A vote request keeps the log, and gets a new vote only if the log it
\* stands for is up to date.
LEMMA VoteRequestCore ==
    ASSUME NEW me \in Voters, NEW r \in Replica, NEW m \in Message,
           m.type = "Vote", m.to = me, m.epoch >= r.epoch
    PROVE  LET v == handle_vote_request(r, m)
               s == Step(v.replica, {VoteAnswer(m, v.replica, "NONE", v.granted)})
               asking == IF AsksRightly(m, r.log) THEN {<<m.epoch, m.from>>} ELSE {}
           IN  CoreTurn(me, r, s, {}, asking)
<1> DEFINE a == advance_epoch_for_vote(r, m.epoch)
           granted == can_grant_vote(a, m.from,
                          log_is_up_to_date(a.log, m.lastEpoch, m.lastOffset), m.preVote)
           v == handle_vote_request(r, m)
           answer == VoteAnswer(m, v.replica, "NONE", v.granted)
           asking == IF AsksRightly(m, r.log) THEN {<<m.epoch, m.from>>} ELSE {}
<1>0. /\ r.epoch \in Nat /\ m.epoch \in Nat /\ m.from \in Voters /\ r.hwm \in Nat
      /\ m.preVote \in BOOLEAN
    BY ReplicaFields, MessageFields
<1>1. /\ a \in Replica /\ a.epoch = m.epoch /\ a.log = r.log /\ a.hwm = r.hwm
      /\ \/ a = r
         \/ a.epoch > r.epoch /\ a.role.name = "Unattached" /\ a.votedKey = Nil
            /\ a.leaderId = Nil
    <2>1. CASE m.epoch > r.epoch
        <3>1. a = transition_to_unattached(r, m.epoch)
            BY <2>1 DEF advance_epoch_for_vote
        <3>2. a \in Replica
            BY <1>0, <3>1, UnattachedType
        <3>3. /\ a.epoch = m.epoch /\ a.role.name = "Unattached" /\ a.votedKey = Nil
              /\ a.leaderId = Nil /\ a.log = r.log /\ a.hwm = r.hwm
            BY <3>1 DEF transition_to_unattached, Replica, Unattached
        <3> QED
            BY <2>1, <3>2, <3>3
    <2>2. CASE m.epoch = r.epoch
        BY <1>0, <2>2 DEF advance_epoch_for_vote
    <2> QED
        BY <1>0, <2>1, <2>2
<1>2. /\ v.replica = IF granted /\ ~m.preVote
                     THEN [a EXCEPT !.votedKey = m.from, !.role = Voted] ELSE a
      /\ v.granted = granted
    BY DEF handle_vote_request
<1>3. granted /\ ~m.preVote =>
        a.votedKey = m.from \/ log_is_up_to_date(r.log, m.lastEpoch, m.lastOffset)
    BY <1>1 DEF can_grant_vote
<1>5. Says(me, r, v.replica, answer)
    BY DEF Says, IsAnswer, IsServed, VoteAnswer
<1> HIDE DEF a, granted, v
<1>6. CASE granted /\ ~m.preVote
    <2>1. /\ v.replica.epoch = m.epoch /\ v.replica.votedKey = m.from
          /\ v.replica.role.name = "Voted" /\ v.replica.log = r.log /\ v.replica.hwm = r.hwm
          /\ v.replica.leaderId = a.leaderId
        BY <1>1, <1>2, <1>6 DEF Replica, Voted
    <2>2. KeepsLog(r, v.replica)
        BY <1>0, <2>1 DEF KeepsLog
    <2>3. Knows(me, r, v.replica, {})
        BY <1>1, <2>1 DEF Knows, known_leader
    <2>4. Votes(me, r, v.replica, asking)
        <3>1. CASE AsksRightly(m, r.log)
            BY <2>1, <3>1 DEF Votes
        <3>2. CASE ~AsksRightly(m, r.log)
            <4>1. a.votedKey = m.from
                BY <1>3, <1>6, <3>2 DEF AsksRightly
            <4>2. a = r
                BY <1>0, <1>1, <4>1, VotersAssumption
            <4> QED
                BY <1>1, <2>1, <4>1, <4>2 DEF Votes
        <3> QED
            BY <3>1, <3>2
    <2> QED
        BY <1>5, <2>2, <2>3, <2>4, CoreParts DEF v
<1>7. CASE ~(granted /\ ~m.preVote)
    <2>1. v.replica = a
        BY <1>2, <1>7
    <2>2. KeepsLog(r, a)
        BY <1>0, <1>1 DEF KeepsLog
    <2>3. Knows(me, r, a, {}) /\ Votes(me, r, a, asking)
        BY <1>1 DEF Knows, Votes, known_leader
    <2> QED
        BY <1>5, <2>1, <2>2, <2>3, CoreParts DEF v
<1> QED
    BY <1>6, <1>7

(***************************************************************************)
(* The kinds of step.                                                      *)
(***************************************************************************)

\* A turn of voter v that moves no batch between replicas.  The leaders it
\* was told of were elected, and the candidates it may vote for asked.
CoreAct(v) ==
    \E gone, step, W, told, asking :
        /\ EndTurn(v, gone, step)
        /\ VoteStep(v, replica[v], step, W)
        /\ CoreTurn(v, replica[v], step, told, asking)
        /\ told \subseteq elected
        /\ \A x \in asking : \E m \in net :
                AsksRightly(m, replica[v].log) /\ x = <<m.epoch, m.from>>

\* The network at most forgets.
QuietStep == UNCHANGED <<replica, elected, ballots>> /\ net' \subseteq net

\* A leader that announces itself, or that an answer names, was elected in
\* the epoch of the message.
AnnouncedWasElected ==
    \A m \in net : m.type = "BeginQuorumEpoch" => <<m.epoch, m.from>> \in elected

NamedWasElected ==
    \A m \in net : IsAnswer(m) /\ m.leader # Nil => <<m.epoch, m.leader>> \in elected

KnownInv == KnownLeaderWasElected /\ AnnouncedWasElected /\ NamedWasElected

\* Receiving a message is a core turn, or moves batches.
LEMMA ReceiveKinds ==
    ASSUME TypeOK, KnownInv, NEW m \in net, Receive(m)
    PROVE  CoreAct(m.to) \/ DivergingFetch(m) \/ ServeFetch(m) \/ ApplyFetchAnswer(m)
<1> DEFINE r == replica[m.to]
<1>1. m \in Message /\ m.to \in Voters /\ m.from \in Voters /\ m.epoch \in Nat
    BY MessageFields DEF TypeOK
<1>2. r \in Replica /\ r.epoch \in Nat
    BY <1>1, ReplicaFields DEF TypeOK
<1>3. ASSUME NEW step, NEW W, NEW told, Take(m, step), VoteStep(m.to, r, step, W),
             CoreTurn(m.to, r, step, told, {}), told \subseteq elected
      PROVE  CoreAct(m.to)
    <2>1. PICK gone : EndTurn(m.to, gone, step)
        BY <1>3 DEF Take
    <2> QED
        BY <1>3, <2>1 DEF CoreAct
<1> HIDE DEF r
<1>4. CASE RefuseVote(m)
    <2> DEFINE answer == VoteAnswer(m, r, vote_request_error(r, m), FALSE)
    <2>1. Plain(answer) /\ Says(m.to, r, r, answer)
        BY DEF Plain, IsPreVote, IsGrant, Says, IsAnswer, IsServed, VoteAnswer
    <2>2. Take(m, Step(r, {answer}))
        BY <1>4 DEF RefuseVote, r
    <2> HIDE DEF answer
    <2>3. VoteStep(m.to, r, Step(r, {answer}), {})
        BY <1>1, <1>2, <2>1, AnswerStep
    <2>4. CoreTurn(m.to, r, Step(r, {answer}), {}, {})
        BY <1>1, <1>2, <2>1, SameCore
    <2> QED
        BY <1>3, <2>2, <2>3, <2>4
<1>5. CASE AnswerVote(m)
    <2> DEFINE v == handle_vote_request(r, m)
               s == Step(v.replica, {VoteAnswer(m, v.replica, "NONE", v.granted)})
               asking == IF AsksRightly(m, r.log) THEN {<<m.epoch, m.from>>} ELSE {}
    <2>1. m.type = "Vote" /\ Take(m, s) /\ m.epoch >= r.epoch
        BY <1>1, <1>2, <1>5 DEF AnswerVote, vote_request_error, r
    <2>2. VoteStep(m.to, r, s, {})
        BY <1>1, <1>2, <2>1, VoteRequestStep
    <2>3. CoreTurn(m.to, r, s, {}, asking)
        BY <1>1, <1>2, <2>1, VoteRequestCore
    <2>4. PICK gone : EndTurn(m.to, gone, s)
        BY <2>1 DEF Take
    <2>5. \A x \in asking : AsksRightly(m, r.log) /\ x = <<m.epoch, m.from>>
        OBVIOUS
    <2> HIDE DEF s, asking
    <2> QED
        BY <2>2, <2>3, <2>4, <2>5 DEF CoreAct, r
<1>6. CASE HandleBeginQuorumEpoch(m)
    <2> DEFINE s == handle_begin_quorum_epoch(m.to, r, m.from, m.epoch)
    <2>1. Take(m, s) /\ <<m.epoch, m.from>> \in elected
        BY <1>6 DEF HandleBeginQuorumEpoch, r, KnownInv, AnnouncedWasElected
    <2>2. VoteStep(m.to, r, s, {}) /\ CoreTurn(m.to, r, s, {<<m.epoch, m.from>>}, {})
        BY <1>1, <1>2, BeginStep, BeginCore
    <2> QED
        BY <1>3, <2>1, <2>2
<1>7. CASE HandleEndQuorumEpoch(m)
    BY <1>1, <1>2, <1>3, <1>7, EndStep, EndCore DEF HandleEndQuorumEpoch, r
<1>8. CASE RefuseFetch(m)
    <2> DEFINE error == fetch_request_error(r, m)
               answer == FetchAnswer(m, r, error, Nil, -1, <<>>)
    <2>1. Take(m, Step(r, {answer})) /\ error # "NONE"
        BY <1>8 DEF RefuseFetch, r
    <2> HIDE DEF error
    <2>2. answer.type = "FetchAnswer" /\ answer.error # "NONE" /\ answer.epoch = r.epoch
          /\ answer.leader = r.leaderId
        BY <2>1 DEF FetchAnswer
    <2> HIDE DEF answer
    <2>3. Plain(answer) /\ Says(m.to, r, r, answer)
        BY <2>2, PlainKinds DEF Says, IsAnswer, IsServed
    <2>4. VoteStep(m.to, r, Step(r, {answer}), {})
        BY <1>1, <1>2, <2>3, AnswerStep
    <2>5. CoreTurn(m.to, r, Step(r, {answer}), {}, {})
        BY <1>1, <1>2, <2>3, SameCore
    <2> QED
        BY <1>3, <2>1, <2>4, <2>5
<1>9. CASE LeaderlessEpoch(m)
    BY <1>1, <1>2, <1>3, <1>9, UnattachedStep, UnattachedCore DEF LeaderlessEpoch, r
<1>10. ASSUME m.leader # Nil, IsAnswer(m),
              Take(m, handle_begin_quorum_epoch(m.to, r, m.leader, m.epoch))
       PROVE  CoreAct(m.to)
    <2> DEFINE s == handle_begin_quorum_epoch(m.to, r, m.leader, m.epoch)
    <2>1. m.leader \in Voters
        BY <1>1, <1>10, MessageFields DEF IsAnswer, MaybeVoter
    <2>2. <<m.epoch, m.leader>> \in elected
        BY <1>10 DEF KnownInv, NamedWasElected
    <2>3. VoteStep(m.to, r, s, {}) /\ CoreTurn(m.to, r, s, {<<m.epoch, m.leader>>}, {})
        BY <1>1, <1>2, <2>1, BeginStep, BeginCore
    <2> QED
        BY <1>3, <1>10, <2>2, <2>3
<1>11. CASE FollowNamedByVote(m)
    BY <1>10, <1>11 DEF FollowNamedByVote, IsAnswer, r
<1>12. CASE CountVote(m)
    <2> DEFINE s == handle_vote_response(m.to, r, m.from, m.granted)
               W == IF m.granted THEN {m.from} ELSE {}
    <2>1. Take(m, s) /\ m.granted \in BOOLEAN
        BY <1>1, <1>12, MessageFields DEF CountVote, r
    <2>2. VoteStep(m.to, r, s, W) /\ CoreTurn(m.to, r, s, {}, {})
        BY <1>1, <1>2, <2>1, VoteResponseStep, VoteResponseCore
    <2> QED
        BY <1>3, <2>1, <2>2
<1>13. CASE FollowNamedByFetch(m)
    BY <1>10, <1>13 DEF FollowNamedByFetch, IsAnswer, r
<1>14. CASE RefusedFetchAnswer(m)
    <2> DEFINE s == Step(r, send_fetch(m.to, m.from, r))
    <2>1. Take(m, s) /\ r.role.name = "Follower"
        BY <1>14 DEF RefusedFetchAnswer, refetches_after_refusal, r
    <2>2. VoteStep(m.to, r, s, {})
        BY <1>1, <1>2, FetchIsPlain, SameRoleStep
    <2>3. CoreTurn(m.to, r, s, {}, {})
        BY <1>1, <1>2, <2>1, FetchSays, SameCore
    <2> QED
        BY <1>3, <2>1, <2>2, <2>3
<1> QED
    BY <1>4, <1>5, <1>6, <1>7, <1>8, <1>9, <1>11, <1>12, <1>13, <1>14 DEF Receive

\* Every step is quiet, a core turn, an append of a leader, or one of the
\* three that replicate.
LEMMA StepKinds ==
    ASSUME TypeOK, KnownInv, [Next]_vars
    PROVE  \/ QuietStep
           \/ \E v \in Voters : CoreAct(v) \/ Submit(v)
           \/ \E m \in net : DivergingFetch(m) \/ ServeFetch(m) \/ ApplyFetchAnswer(m)
<1>1. ASSUME NEW v \in Voters PROVE replica[v] \in Replica
    BY DEF TypeOK
<1>2. ASSUME NEW v \in Voters, NEW gone, NEW step, EndTurn(v, gone, step),
             VoteStep(v, replica[v], step, {}), CoreTurn(v, replica[v], step, {}, {})
      PROVE  CoreAct(v)
    BY <1>2 DEF CoreAct
<1>3. ASSUME NEW v \in Voters, ElectionTimeout(v) PROVE CoreAct(v)
    BY <1>1, <1>2, <1>3, ElectionTimeoutStep, ElectionTimeoutCore DEF ElectionTimeout, Act
<1>4. ASSUME NEW v \in Voters, FetchTimeout(v) PROVE CoreAct(v)
    BY <1>1, <1>2, <1>4, StartElectionStep, StartElectionCore DEF FetchTimeout, Act
<1>5. ASSUME NEW v \in Voters, Resign(v) PROVE CoreAct(v)
    BY <1>1, <1>2, <1>5, ResignedStep, ResignedCore DEF Resign, Act
<1>6. ASSUME NEW v \in Voters, Restart(v) PROVE CoreAct(v)
    <2> DEFINE b(hwm) == [replica[v] EXCEPT !.leaderId = Nil, !.role = Unattached, !.hwm = hwm]
    <2>1. PICK hwm, gone : hwm \in 0 .. replica[v].hwm /\ EndTurn(v, gone, Step(b(hwm), {}))
        BY <1>6 DEF Restart, NoStep
    <2>2. /\ b(hwm).epoch = replica[v].epoch /\ b(hwm).votedKey = replica[v].votedKey
          /\ b(hwm).role.name = "Unattached" /\ b(hwm).leaderId = Nil
          /\ b(hwm).log = replica[v].log /\ b(hwm).hwm = hwm
        BY <1>1 DEF Replica, Unattached
    <2> HIDE DEF b
    <2>3. hwm <= replica[v].hwm
        BY <1>1, <2>1, ReplicaFields
    <2>4. KeepsVote(replica[v], b(hwm)) /\ KeepsLog(replica[v], b(hwm))
        BY <1>1, <2>2, <2>3, ReplicaFields DEF KeepsVote, KeepsLog
    <2>5. Knows(v, replica[v], b(hwm), {}) /\ Votes(v, replica[v], b(hwm), {})
        BY <2>2 DEF Knows, Votes, known_leader
    <2>6. VoteStep(v, replica[v], Step(b(hwm), {}), {})
        BY <2>2, <2>4, BystanderStep
    <2>7. CoreTurn(v, replica[v], Step(b(hwm), {}), {}, {})
        BY <2>4, <2>5, CoreParts
    <2> QED
        BY <1>2, <2>1, <2>6, <2>7
<1>7. ASSUME NEW v \in Voters, Heartbeat(v) PROVE CoreAct(v)
    <2> DEFINE sent == {BeginQuorumEpoch(v, w, replica[v]) : w \in other_voters(v)}
    <2>1. ASSUME NEW m \in sent PROVE Plain(m) /\ Says(v, replica[v], replica[v], m)
        <3>1. m.type = "BeginQuorumEpoch" /\ m.from = v /\ m.epoch = replica[v].epoch
            BY DEF BeginQuorumEpoch
        <3> QED
            BY <1>7, <3>1, PlainKinds DEF Heartbeat, Says, IsAnswer, IsServed
    <2>2. EndTurn(v, {}, Step(replica[v], sent))
        BY <1>7 DEF Heartbeat, Act
    <2> HIDE DEF sent
    <2>3. VoteStep(v, replica[v], Step(replica[v], sent), {})
        BY <1>1, <2>1, SameRoleStep
    <2>4. CoreTurn(v, replica[v], Step(replica[v], sent), {}, {})
        BY <1>1, <2>1, SameCore
    <2> QED
        BY <1>2, <2>2, <2>3, <2>4
<1>8. ASSUME NEW m \in net, Lose(m) PROVE QuietStep
    BY <1>8 DEF Lose, QuietStep
<1>9. CASE UNCHANGED vars
    BY <1>9 DEF vars, QuietStep
<1>10. ASSUME NEW m \in net PROVE m.to \in Voters
    BY MessageFields DEF TypeOK
<1>11. CASE Next
    BY <1>3, <1>4, <1>5, <1>6, <1>7, <1>8, <1>10, <1>11, ReceiveKinds DEF Next
<1> QED
    BY <1>9, <1>11

(***************************************************************************)
(* What the turns that move batches do.                                    *)
(***************************************************************************)

\* Only the log and the high watermark differ.
SameButLog(r, q) ==
    /\ q.epoch = r.epoch /\ q.leaderId = r.leaderId /\ q.votedKey = r.votedKey
    /\ q.role = r.role

\* A leader appends a batch of its epoch; alone, it commits it.
LEMMA SubmitTurn ==
    ASSUME TypeOK, NEW v \in Voters, Submit(v)
    PROVE  \E q : /\ EndTurn(v, {}, Step(q, {}))
                  /\ SameButLog(replica[v], q) /\ q.role.name = "Leader"
                  /\ q.log = Append(replica[v].log, q.epoch)
                  /\ \/ q.hwm = replica[v].hwm
                     \/ majority = 1 /\ q.hwm = Len(q.log)
<1> DEFINE r == replica[v]
           a == [r EXCEPT !.log = Append(@, r.epoch)]
           q == advance_if_single_voter(a)
<1>1. r \in Replica
    BY DEF TypeOK
<1>2. EndTurn(v, {}, Step(q, {})) /\ r.role.name = "Leader"
    BY DEF Submit, Act, NoStep
<1> HIDE DEF r
<1>3. /\ a \in Replica /\ SameButLog(r, a) /\ a.log = Append(r.log, r.epoch) /\ a.hwm = r.hwm
    <2>1. Append(r.log, r.epoch) \in Seq(Nat)
        BY <1>1, ReplicaFields
    <2> QED
        BY <1>1, <2>1 DEF Replica, SameButLog
<1> HIDE DEF a
<1>4. /\ q.log = a.log /\ q.epoch = a.epoch /\ q.votedKey = a.votedKey /\ q.role = a.role
      /\ q.leaderId = a.leaderId /\ (q.hwm = a.hwm \/ (majority = 1 /\ q.hwm = Len(a.log)))
    BY <1>3, SingleVoterLog, SingleVoterKeeps
<1> HIDE DEF q
<1>5. SameButLog(r, q) /\ q.role.name = "Leader" /\ q.log = Append(r.log, q.epoch)
    BY <1>2, <1>3, <1>4 DEF SameButLog
<1> QED
    BY <1>2, <1>3, <1>4, <1>5 DEF r

\* The answer a leader l gives to the Fetch m.
ServesFetch(l, m, a) ==
    /\ a.type = "FetchAnswer" /\ a.error = "NONE" /\ a.from = m.to /\ a.to = m.from
    /\ a.epoch = l.epoch /\ a.leader = l.leaderId /\ a.base = m.fetchOffset

\* A Fetch that the leader serves, or answers with a divergence.
LEMMA ServableFetch ==
    ASSUME TypeOK, NEW m \in net, m.type = "Fetch",
           fetch_request_error(replica[m.to], m) = "NONE"
    PROVE  /\ m.from \in Voters /\ m.to \in Voters
           /\ m.fetchEpoch \in Nat /\ m.fetchOffset \in Nat /\ m.epoch \in Nat
           /\ replica[m.to] \in Replica /\ replica[m.to].role.name = "Leader"
           /\ m.epoch = replica[m.to].epoch /\ m.fetchEpoch <= m.epoch
<1>1. m \in Message
    BY DEF TypeOK
<1>2. /\ m.from \in Voters /\ m.to \in Voters
      /\ m.fetchEpoch \in Nat /\ m.fetchOffset \in Nat /\ m.epoch \in Nat
    BY <1>1, MessageFields
<1>3. replica[m.to] \in Replica /\ replica[m.to].epoch \in Nat
    BY <1>2, ReplicaFields DEF TypeOK
<1> QED
    BY <1>2, <1>3 DEF fetch_request_error

\* A divergence is answered from an unchanged replica.
LEMMA DivergingTurn ==
    ASSUME TypeOK, NEW m \in net, DivergingFetch(m)
    PROVE  \E gone, a :
              /\ EndTurn(m.to, gone, Step(replica[m.to], {a}))
              /\ ServesFetch(replica[m.to], m, a)
              /\ a.diverging = end_offset_for_epoch(replica[m.to].log, m.fetchEpoch)
<1> DEFINE r == replica[m.to]
           end == end_offset_for_epoch(r.log, m.fetchEpoch)
           a == FetchAnswer(m, r, "NONE", end, r.hwm, <<>>)
<1>1. PICK gone : EndTurn(m.to, gone, Step(r, {a}))
    BY DEF DivergingFetch, Take
<1> HIDE DEF end
<1>2. ServesFetch(r, m, a) /\ a.diverging = end
    BY DEF FetchAnswer, ServesFetch
<1> HIDE DEF a
<1> QED
    BY <1>1, <1>2 DEF end

\* Recording a fetch changes only what the leader counts for its sender and,
\* when a majority passed it, the high watermark.
Records(me, r, from, offset, q) ==
    LET replicas == [r.role.replicas EXCEPT ![from] = offset]
    IN  /\ q.epoch = r.epoch /\ q.leaderId = r.leaderId /\ q.votedKey = r.votedKey
        /\ q.log = r.log
        /\ q.role.name = "Leader" /\ q.role.replicas = replicas
        /\ q.role.epochStart = r.role.epochStart
        /\ \/ q.hwm = r.hwm
           \/ /\ q.hwm \in MajorityOffsets(me, replicas, Len(r.log))
              /\ q.hwm > r.role.epochStart
        /\ q.hwm >= r.hwm

\* A leader that handles a fetch records it.
LEMMA HandleFetchLog ==
    ASSUME NEW me \in Voters, NEW r \in Replica, r.role.name = "Leader",
           NEW from \in Voters, NEW offset \in Nat
    PROVE  Records(me, r, from, offset, handle_fetch(me, r, from, offset))
<1> DEFINE replicas == [r.role.replicas EXCEPT ![from] = offset]
           f == [r EXCEPT !.role.replicas[from] = offset]
           hwm == recompute_high_watermark(me, f)
           q == handle_fetch(me, r, from, offset)
<1>1. /\ r.role \in [name : {"Leader"}, replicas : [Voters -> Nat],
                     highWatermark : Nat, epochStart : Nat]
      /\ r.hwm \in Nat /\ Len(r.log) \in Nat
    BY ReplicaFields, RoleFields DEF end_offset
<1>2. replicas \in [Voters -> Nat]
    BY <1>1
<1>3. f = [r EXCEPT !.role = [r.role EXCEPT !.replicas = replicas]]
    BY <1>1 DEF Replica
<1>4. q = IF hwm > r.role.highWatermark
          THEN [f EXCEPT !.role.highWatermark = hwm,
                         !.hwm = advance_high_watermark(@, hwm, end_offset(r.log))]
          ELSE f
    BY DEF handle_fetch
<1> HIDE DEF replicas
<1>5. /\ f.role = [r.role EXCEPT !.replicas = replicas]
      /\ f.epoch = r.epoch /\ f.leaderId = r.leaderId /\ f.votedKey = r.votedKey
      /\ f.log = r.log /\ f.hwm = r.hwm
    BY <1>3 DEF Replica
<1>6. /\ f.role.name = "Leader" /\ f.role.replicas = replicas
      /\ f.role.epochStart = r.role.epochStart /\ f.role.highWatermark = r.role.highWatermark
    BY <1>1, <1>2, <1>5
<1>7. ASSUME hwm > r.role.highWatermark
      PROVE  hwm \in MajorityOffsets(me, replicas, Len(r.log)) /\ hwm > r.role.epochStart
    <2> DEFINE reached == MajorityOffsets(me, replicas, Len(r.log))
    <2>1. hwm = IF \E o \in reached : o > r.role.epochStart /\ o > r.role.highWatermark
                THEN Max(reached) ELSE r.role.highWatermark
        BY <1>5, <1>6 DEF recompute_high_watermark, end_offset
    <2>2. reached \in SUBSET Nat /\ \A o \in reached : o <= Len(r.log)
        BY <1>1, <1>2 DEF MajorityOffsets, other_voters
    <2> HIDE DEF reached, hwm
    <2>3. PICK o \in reached : o > r.role.epochStart
        BY <1>1, <1>7, <2>1
    <2>4. hwm = Max(reached)
        BY <1>1, <1>7, <2>1
    <2>5. hwm \in reached /\ hwm >= o
        BY <1>1, <2>2, <2>3, <2>4, MaxIsGreatest
    <2> QED
        BY <1>1, <2>2, <2>3, <2>5 DEF reached
<1>8. CASE hwm > r.role.highWatermark
    <2> DEFINE h == advance_high_watermark(f.hwm, hwm, end_offset(r.log))
    <2>1. q = [f EXCEPT !.role.highWatermark = hwm, !.hwm = h]
        BY <1>4, <1>8
    <2>2. hwm \in Nat /\ hwm <= Len(r.log)
        BY <1>1, <1>2, <1>7, <1>8 DEF MajorityOffsets, other_voters
    <2>3. h \in {r.hwm, hwm} /\ h >= r.hwm
        BY <1>1, <1>5, <2>2 DEF advance_high_watermark, end_offset
    <2> HIDE DEF hwm, h, q
    <2>4. f \in Replica
        <3>1. [r.role EXCEPT !.replicas = replicas] \in Role
            BY <1>1, <1>2 DEF Role
        <3> QED
            BY <1>3, <3>1 DEF Replica
    <2> HIDE DEF f
    <2>5. /\ q.role = [f.role EXCEPT !.highWatermark = hwm] /\ q.hwm = h
          /\ q.epoch = f.epoch /\ q.leaderId = f.leaderId /\ q.votedKey = f.votedKey
          /\ q.log = f.log
        BY <2>1, <2>4 DEF Replica
    <2>6. /\ q.role.name = "Leader" /\ q.role.replicas = replicas
          /\ q.role.epochStart = r.role.epochStart
        BY <1>1, <1>2, <1>5, <1>6, <2>5
    <2> QED
        BY <1>5, <1>7, <1>8, <2>3, <2>5, <2>6 DEF q, replicas, Records
<1>9. CASE ~(hwm > r.role.highWatermark)
    <2>1. q = f
        BY <1>4, <1>9
    <2> HIDE DEF f, q
    <2> QED
        BY SMTT(40), <1>1, <1>5, <1>6, <2>1 DEF q, replicas, Records
<1> QED
    BY <1>8, <1>9

\* The answer a carries batches of this log from the offset base on.
Carries(log, base, a) ==
    /\ a.records \in Seq(Nat)
    /\ \A k \in 1 .. Len(a.records) :
            base + k \in 1 .. Len(log) /\ a.records[k] = log[base + k]

\* A valid fetch is recorded and answered with batches of the leader's log.
LEMMA ServeTurn ==
    ASSUME TypeOK, NEW m \in net, ServeFetch(m)
    PROVE  LET r == replica[m.to]
               q == handle_fetch(m.to, r, m.from, m.fetchOffset)
           IN  \E gone, a :
                  /\ EndTurn(m.to, gone, Step(q, {a}))
                  /\ ServesFetch(q, m, a)
                  /\ a.diverging = Nil /\ a.hwm = q.hwm
                  /\ Carries(r.log, m.fetchOffset, a)
<1> DEFINE r == replica[m.to]
           q == handle_fetch(m.to, r, m.from, m.fetchOffset)
           missing == Len(r.log) - m.fetchOffset
           sizes == IF missing > 0 THEN 1 .. missing ELSE {0}
           run(n) == SubSeq(r.log, m.fetchOffset + 1, m.fetchOffset + n)
           a(n) == FetchAnswer(m, q, "NONE", Nil, q.hwm, run(n))
<1>1. m.fetchOffset \in Nat /\ r \in Replica
    BY ServableFetch DEF ServeFetch
<1>2. r.log \in Seq(Nat)
    BY <1>1, ReplicaFields
<1>3. PICK n \in sizes : Take(m, Step(q, {a(n)}))
    BY DEF ServeFetch, end_offset
<1>4. PICK gone : EndTurn(m.to, gone, Step(q, {a(n)}))
    BY <1>3 DEF Take
<1>5. /\ run(n) \in Seq(Nat)
      /\ \A k \in 1 .. Len(run(n)) : /\ m.fetchOffset + k \in 1 .. Len(r.log)
                                     /\ run(n)[k] = r.log[m.fetchOffset + k]
    <2> DEFINE log == r.log
               lo == m.fetchOffset
    <2> HIDE DEF log, lo, r
    <2>1. n = 0 \/ (n \in Nat /\ lo + n <= Len(log))
        BY <1>1, <1>2, <1>3 DEF log, lo
    <2>2. n \in Nat /\ lo \in Nat /\ lo + 1 \in Int /\ lo + n \in Int /\ log \in Seq(Nat)
        BY <1>1, <1>2, <2>1 DEF log, lo
    <2>3. \A i \in lo + 1 .. lo + n : i \in 1 .. Len(log) /\ log[i] \in Nat
        BY <2>1, <2>2
    <2>4. /\ SubSeq(log, lo + 1, lo + n) \in Seq(Nat)
          /\ Len(SubSeq(log, lo + 1, lo + n)) = IF lo + 1 <= lo + n THEN lo + n - (lo + 1) + 1 ELSE 0
          /\ \A i \in 1 .. lo + n - (lo + 1) + 1 :
                SubSeq(log, lo + 1, lo + n)[i] = log[lo + 1 + i - 1]
        BY <2>2, <2>3, SubSeqProperties
    <2>5. Len(SubSeq(log, lo + 1, lo + n)) = n
        BY <2>2, <2>4
    <2>6. \A i \in 1 .. n : SubSeq(log, lo + 1, lo + n)[i] = log[lo + i]
        BY <2>2, <2>4
    <2>7. ASSUME NEW k \in 1 .. n PROVE lo + k \in 1 .. Len(log)
        BY <2>1, <2>2
    <2> QED
        BY <2>4, <2>5, <2>6, <2>7 DEF log, lo
<1> HIDE DEF q, run, r
<1>6. /\ ServesFetch(q, m, a(n)) /\ a(n).diverging = Nil /\ a(n).hwm = q.hwm
      /\ a(n).records = run(n)
    BY DEF ServesFetch, FetchAnswer
<1> HIDE DEF a
<1>7. Carries(r.log, m.fetchOffset, a(n))
    BY <1>5, <1>6 DEF Carries
<1> QED
    BY <1>4, <1>6, <1>7 DEF q, r

\* A follower applies an answer of its leader: it cuts its log at the hint or
\* appends, and fetches again.
LEMMA ApplyTurn ==
    ASSUME TypeOK, NEW m \in net, ApplyFetchAnswer(m)
    PROVE  LET r == replica[m.to]
               cut == follower_truncation_offset(m.diverging, r.log)
           IN  \E gone, q :
                  /\ EndTurn(m.to, gone, Step(q, send_fetch(m.to, m.from, q)))
                  /\ r.role.name = "Follower" /\ m.epoch = r.epoch /\ IsServed(m)
                  /\ q.epoch = r.epoch /\ q.leaderId = r.leaderId /\ q.votedKey = r.votedKey
                  /\ q.role.name = "Follower"
                  /\ \/ /\ m.diverging # Nil /\ cut \in 0 .. Len(r.log)
                        /\ q.log = Prefix(r.log, cut)
                        /\ q.hwm = truncation_frontier(r.hwm, Len(q.log))
                     \/ /\ m.diverging = Nil
                        /\ q.log = append_fetched(r.log, m.base, m.records)
                        /\ q.hwm = advance_high_watermark(r.hwm, m.hwm, Len(q.log))
<1> DEFINE r == replica[m.to]
           cut == follower_truncation_offset(m.diverging, r.log)
           log == append_fetched(r.log, m.base, m.records)
           grown == [r EXCEPT !.log = log,
                              !.hwm = advance_high_watermark(@, m.hwm, Len(log))]
           n == IF m.diverging # Nil THEN truncate_to(r, cut) ELSE grown
           f == [n EXCEPT !.role = Follower(m.from, TRUE)]
<1>1. m \in Message /\ m.to \in Voters /\ m.type = "FetchAnswer" /\ FenceHolds(r, m)
    BY MessageFields DEF TypeOK, ApplyFetchAnswer
<1>2. r \in Replica /\ r.log \in Seq(Nat)
    BY <1>1, ReplicaFields DEF TypeOK
<1>3. r.role.name = "Follower" /\ m.epoch = r.epoch /\ IsServed(m)
    BY <1>1 DEF FenceHolds, IsServed
<1>4. PICK gone : EndTurn(m.to, gone, Step(f, send_fetch(m.to, m.from, f)))
    BY DEF ApplyFetchAnswer, Take, handle_fetch_response
<1> HIDE DEF r, log
<1>5. /\ f.epoch = n.epoch /\ f.leaderId = n.leaderId /\ f.votedKey = n.votedKey
      /\ f.role.name = "Follower" /\ f.log = n.log /\ f.hwm = n.hwm
    BY <1>2 DEF Replica, truncate_to, Follower
<1>6. CASE m.diverging # Nil
    <2>1. m.diverging \in OffsetAndEpoch
        BY <1>1, <1>6, MessageFields
    <2>2. cut \in 0 .. Len(r.log)
        BY <1>2, <2>1, TruncationInLog
    <2>3. n = truncate_to(r, cut)
        BY <1>6
    <2> HIDE DEF cut, n, f
    <2>4. /\ n.epoch = r.epoch /\ n.leaderId = r.leaderId /\ n.votedKey = r.votedKey
          /\ n.log = Prefix(r.log, cut)
          /\ n.hwm = truncation_frontier(r.hwm, Len(n.log))
        BY <1>2, <2>2, <2>3 DEF Replica, truncate_to
    <2> QED
        BY <1>3, <1>4, <1>5, <1>6, <2>2, <2>4 DEF r, cut
<1>7. CASE m.diverging = Nil
    <2>1. n = grown
        BY <1>7
    <2> HIDE DEF n, f
    <2>2. /\ n.epoch = r.epoch /\ n.leaderId = r.leaderId /\ n.votedKey = r.votedKey
          /\ n.log = log /\ n.hwm = advance_high_watermark(r.hwm, m.hwm, Len(log))
        BY <1>2, <2>1 DEF Replica
    <2> QED
        BY <1>3, <1>4, <1>5, <1>7, <2>2 DEF r, log
<1> QED
    BY <1>6, <1>7

(***************************************************************************)
(* Known leaders.                                                          *)
(***************************************************************************)

\* A turn keeps known leaders elected when what it sends and knows is what
\* it was told of or leads itself.
LEMMA KnownTurn ==
    ASSUME TypeOK, TypeOK', KnownInv, NEW v \in Voters, NEW gone, NEW step, NEW told,
           EndTurn(v, gone, step), Knows(v, replica[v], step.replica, told),
           told \subseteq elected,
           \A m \in step.send :
                /\ m.type = "BeginQuorumEpoch" => /\ m.from = v /\ m.epoch = step.replica.epoch
                                                  /\ step.replica.role.name = "Leader"
                /\ IsAnswer(m) => /\ m.epoch = step.replica.epoch
                                  /\ m.leader = step.replica.leaderId
    PROVE  KnownInv'
<1> DEFINE q == step.replica
<1>1. /\ replica' = [replica EXCEPT ![v] = q]
      /\ \A m \in net' : m \in net \/ m \in step.send
      /\ elected' = IF q.role.name = "Leader" THEN elected \cup {<<q.epoch, v>>} ELSE elected
    BY DEF EndTurn
<1>2. replica'[v] = q /\ \A w \in Voters \ {v} : replica'[w] = replica[w]
    BY <1>1 DEF TypeOK
<1>3. elected \subseteq elected' /\ (q.role.name = "Leader" => <<q.epoch, v>> \in elected')
    BY <1>1
<1>4. known_leader(q) # Nil => <<q.epoch, known_leader(q)>> \in elected'
    BY <1>3 DEF Knows, KnownInv, KnownLeaderWasElected
<1>5. q.leaderId # Nil => known_leader(q) = q.leaderId
    BY DEF known_leader
<1> HIDE DEF q
<1>6. KnownLeaderWasElected'
    <2>1. ASSUME NEW w \in Voters, known_leader(replica'[w]) # Nil
          PROVE  <<replica'[w].epoch, known_leader(replica'[w])>> \in elected'
        BY <1>2, <1>3, <1>4, <2>1 DEF KnownInv, KnownLeaderWasElected
    <2> QED
        BY <2>1 DEF KnownLeaderWasElected, known_leader
<1>7. AnnouncedWasElected'
    BY <1>1, <1>3 DEF KnownInv, AnnouncedWasElected, q
<1>8. NamedWasElected'
    <2>1. ASSUME NEW m \in net', IsAnswer(m), m.leader # Nil
          PROVE  <<m.epoch, m.leader>> \in elected'
        BY <1>1, <1>3, <1>4, <1>5, <2>1 DEF KnownInv, NamedWasElected, q
    <2> QED
        BY <2>1 DEF NamedWasElected, IsAnswer
<1> QED
    BY <1>6, <1>7, <1>8 DEF KnownInv

\* Every step keeps the known leaders elected.
LEMMA NextKnown ==
    ASSUME TypeOK, TypeOK', KnownInv, [Next]_vars
    PROVE  KnownInv'
<1>1. CASE QuietStep
    BY <1>1 DEF QuietStep, KnownInv, KnownLeaderWasElected, AnnouncedWasElected, NamedWasElected
<1>2. ASSUME NEW v \in Voters, CoreAct(v) PROVE KnownInv'
    BY <1>2, KnownTurn DEF CoreAct, CoreTurn, Says
<1>3. ASSUME NEW v \in Voters, Submit(v) PROVE KnownInv'
    <2>1. PICK q : EndTurn(v, {}, Step(q, {})) /\ SameButLog(replica[v], q)
        BY <1>3, SubmitTurn
    <2>2. Step(q, {}).replica = q /\ Step(q, {}).send = {}
        BY DEF Step
    <2>3. Knows(v, replica[v], q, {})
        BY <2>1 DEF SameButLog, Knows, known_leader
    <2> QED
        BY <2>1, <2>2, <2>3, KnownTurn
<1>4. ASSUME NEW l \in Voters, NEW gone, NEW q, NEW a, NEW m,
             EndTurn(l, gone, Step(q, {a})), ServesFetch(q, m, a),
             Knows(l, replica[l], q, {})
      PROVE  KnownInv'
    <2> DEFINE s == Step(q, {a})
    <2>1. s.replica = q /\ s.send = {a}
        BY DEF Step
    <2>2. \A x \in s.send : x.type # "BeginQuorumEpoch" /\ x.epoch = q.epoch /\ x.leader = q.leaderId
        BY <1>4, <2>1 DEF ServesFetch
    <2>3. EndTurn(l, gone, s)
        BY <1>4
    <2> HIDE DEF s
    <2> QED
        BY <1>4, <2>1, <2>2, <2>3, KnownTurn
<1>5. ASSUME NEW m \in net, DivergingFetch(m) PROVE KnownInv'
    <2>1. PICK l \in Voters : l = m.to
        BY <1>5, ServableFetch DEF DivergingFetch
    <2>2. Knows(l, replica[l], replica[l], {})
        BY DEF Knows
    <2>3. PICK gone, a : EndTurn(l, gone, Step(replica[l], {a})) /\ ServesFetch(replica[l], m, a)
        BY <1>5, <2>1, DivergingTurn
    <2> QED
        BY <1>4, <2>2, <2>3
<1>6. ASSUME NEW m \in net, ServeFetch(m) PROVE KnownInv'
    <2>1. PICK l \in Voters, r \in Replica, w \in Voters, o \in Nat :
                /\ l = m.to /\ r = replica[l] /\ r.role.name = "Leader"
                /\ w = m.from /\ o = m.fetchOffset
        BY <1>6, ServableFetch DEF ServeFetch
    <2> DEFINE q == handle_fetch(l, r, w, o)
    <2>2. PICK gone, a : EndTurn(l, gone, Step(q, {a})) /\ ServesFetch(q, m, a)
        BY <1>6, <2>1, ServeTurn
    <2>3. q.epoch = r.epoch /\ q.leaderId = r.leaderId /\ q.role.name = "Leader"
        <3>1. Records(l, r, w, o, q)
            BY <2>1, HandleFetchLog
        <3> QED
            BY <3>1 DEF Records
    <2> HIDE DEF q
    <2>4. Knows(l, replica[l], q, {})
        BY <2>1, <2>3 DEF Knows, known_leader
    <2> QED
        BY <1>4, <2>1, <2>2, <2>4
<1>7. ASSUME NEW m \in net, ApplyFetchAnswer(m) PROVE KnownInv'
    <2>1. PICK l \in Voters : l = m.to
        BY MessageFields DEF TypeOK
    <2>2. PICK gone, q :
                /\ EndTurn(l, gone, Step(q, send_fetch(l, m.from, q)))
                /\ replica[l].role.name = "Follower" /\ q.role.name = "Follower"
                /\ q.epoch = replica[l].epoch /\ q.leaderId = replica[l].leaderId
        BY <1>7, <2>1, ApplyTurn
    <2>3. Knows(l, replica[l], q, {})
        BY <2>2 DEF Knows, known_leader
    <2> DEFINE s == Step(q, send_fetch(l, m.from, q))
    <2>4. s.replica = q /\ s.send = send_fetch(l, m.from, q)
        BY DEF Step
    <2>5. \A x \in s.send : ~IsAnswer(x) /\ x.type # "BeginQuorumEpoch"
        BY <2>4 DEF send_fetch, IsAnswer
    <2>6. EndTurn(l, gone, s)
        BY <2>2
    <2> HIDE DEF s
    <2> QED
        BY <2>3, <2>4, <2>5, <2>6, KnownTurn
<1> QED
    BY <1>1, <1>2, <1>3, <1>5, <1>6, <1>7, StepKinds

\* Every announcement and every answer in flight names a leader elected in
\* its epoch: the inductive invariant behind KnownLeaderWasElected.
THEOREM KnownInvariant == Spec => []KnownInv
<1>1. Init => KnownInv
    <2>1. known_leader(BootstrapReplica) = Nil
        BY DEF known_leader, BootstrapReplica, Unattached
    <2> QED
        BY <2>1 DEF Init, KnownInv, KnownLeaderWasElected, AnnouncedWasElected, NamedWasElected
<1>2. TypeOK /\ TypeOK' /\ KnownInv /\ [Next]_vars => KnownInv'
    BY NextKnown
<1> QED
    BY <1>1, <1>2, TypeCorrect, PTL DEF Spec

\* A voter follows, remembers or reports only leaders that a majority elected
\* in that epoch, however late the message that told it of them.
THEOREM KnownLeaderElected == Spec => []KnownLeaderWasElected
<1>1. KnownInv => KnownLeaderWasElected
    BY DEF KnownInv
<1> QED
    BY <1>1, KnownInvariant, PTL
-----------------------------------------------------------------------------
(***************************************************************************)
(* Log matching: every log is explained by the logs of the leaders.  The   *)
(* history that explains a state is extended by the log of whoever leads   *)
(* after the turn; everything else about the state must follow.            *)
(***************************************************************************)

(***************************************************************************)
(* Logs that agree.                                                        *)
(***************************************************************************)

\* Agreement below an offset is agreement below every smaller one.
LEMMA SameLess ==
    ASSUME NEW a, NEW b, NEW n \in Nat, NEW k \in Nat, k <= n, SameBelow(a, b, n)
    PROVE  SameBelow(a, b, k)
BY DEF SameBelow

\* Agreement is symmetric.
LEMMA SameSym ==
    ASSUME NEW a, NEW b, NEW n \in Nat, SameBelow(a, b, n)
    PROVE  SameBelow(b, a, n)
BY DEF SameBelow

\* Agreement is transitive.
LEMMA SameTrans ==
    ASSUME NEW a, NEW b, NEW c, NEW n \in Nat, SameBelow(a, b, n), SameBelow(b, c, n)
    PROVE  SameBelow(a, c, n)
BY DEF SameBelow

\* A log agrees with itself.
LEMMA SameSelf ==
    ASSUME NEW a \in Seq(Nat), NEW n \in 0 .. Len(a)
    PROVE  SameBelow(a, a, n)
BY DEF SameBelow

\* Agreement stays within both logs.
LEMMA SameInside ==
    ASSUME NEW a \in Seq(Nat), NEW b \in Seq(Nat), NEW n \in Nat, SameBelow(a, b, n)
    PROVE  n <= Len(a) /\ n <= Len(b)
<1>1. CASE n = 0
    BY <1>1
<1>2. CASE n > 0
    <2>1. n \in 1 .. n
        BY <1>2
    <2> QED
        BY <2>1 DEF SameBelow
<1> QED
    BY <1>1, <1>2

\* An append keeps what is below it.
LEMMA SameAppend ==
    ASSUME NEW a \in Seq(Nat), NEW e \in Nat
    PROVE  /\ Append(a, e) \in Seq(Nat) /\ Len(Append(a, e)) = Len(a) + 1
           /\ Append(a, e)[Len(a) + 1] = e
           /\ SameBelow(a, Append(a, e), Len(a))
BY DEF SameBelow

(***************************************************************************)
(* Histories that grow.                                                    *)
(***************************************************************************)

\* No leader's log loses or changes a batch.
Grows(led, grown) == \A e \in Nat : SameBelow(led[e], grown[e], Len(led[e]))

LEMMA GrowsAsIs ==
    ASSUME NEW led \in Histories
    PROVE  Grows(led, led)
<1>1. \A e \in Nat : led[e] \in Seq(Nat) /\ Len(led[e]) \in 0 .. Len(led[e])
    BY DEF Histories
<1> QED
    BY <1>1, SameSelf DEF Grows

\* What agreed with a leader's log agrees with the grown one.
LEMMA GrownAgrees ==
    ASSUME NEW led \in Histories, NEW grown \in Histories, Grows(led, grown),
           NEW e \in Nat, NEW log \in Seq(Nat), NEW n \in Nat, SameBelow(log, led[e], n)
    PROVE  SameBelow(log, grown[e], n)
<1>1. led[e] \in Seq(Nat) /\ grown[e] \in Seq(Nat)
    BY DEF Histories
<1>2. n <= Len(led[e])
    BY <1>1, SameInside
<1>3. SameBelow(led[e], grown[e], n)
    BY <1>1, <1>2, SameLess DEF Grows
<1> QED
    BY <1>3, SameTrans

\* A log that had its leaders has them in a grown history.
LEMMA GrownSources ==
    ASSUME NEW led \in Histories, NEW grown \in Histories, Grows(led, grown),
           NEW log \in Seq(Nat), Sourced(led, log)
    PROVE  Sourced(grown, log)
<1>1. ASSUME NEW k \in 1 .. Len(log) PROVE SameBelow(log, grown[log[k]], k)
    <2>1. log[k] \in Nat /\ k \in Nat /\ SameBelow(log, led[log[k]], k)
        BY DEF Sourced
    <2> QED
        BY <2>1, GrownAgrees
<1> QED
    BY <1>1 DEF Sourced

(***************************************************************************)
(* A turn and the logs.                                                    *)
(***************************************************************************)

\* What a turn from r to q makes of the logs: grown is the history after it.
LogTurn(led, grown, r, q) ==
    /\ Grows(led, grown)
    /\ \A e \in Nat : grown[e] = led[e] \/ (e = q.epoch /\ q.role.name = "Leader")
    /\ Sourced(grown, q.log) /\ Ordered(q.log, q.epoch)
    /\ q.role.name = "Leader" =>
            /\ q.log = grown[q.epoch] /\ q.log # <<>> /\ q.log[Len(q.log)] = q.epoch
    /\ q.epoch >= r.epoch
    /\ q.role.name = "Candidate" =>
            q.epoch > r.epoch \/ (q.epoch = r.epoch /\ r.role.name = "Candidate")
    /\ q.epoch = r.epoch => Begins(q.log, r.log) \/ Begins(q.log, grown[q.epoch])

\* A Fetch sent at the end of the turn gives the end of the log.
FetchSaid(v, q, m) ==
    /\ m.from = v /\ m.epoch = q.epoch
    /\ m.fetchEpoch = last_epoch(q.log) /\ m.fetchOffset = Len(q.log)

\* A beginning of a log's beginning is its beginning.
LEMMA BeginsTrans ==
    ASSUME NEW a \in Seq(Nat), NEW b \in Seq(Nat), NEW c \in Seq(Nat),
           Begins(a, b), Begins(b, c)
    PROVE  Begins(a, c) /\ Len(a) <= Len(b)
<1>1. Len(a) <= Len(b) /\ Len(a) \in Nat /\ Len(b) \in Nat
    BY SameInside DEF Begins
<1>2. SameBelow(b, c, Len(a))
    BY <1>1, SameLess DEF Begins
<1> QED
    BY <1>1, <1>2, SameTrans DEF Begins

\* A beginning of a leader's log begins the grown one.
LEMMA GrownBegins ==
    ASSUME NEW led \in Histories, NEW grown \in Histories, Grows(led, grown),
           NEW e \in Nat, NEW log \in Seq(Nat), Begins(log, led[e])
    PROVE  Begins(log, grown[e])
<1>1. Len(log) \in Nat
    OBVIOUS
<1> QED
    BY <1>1, GrownAgrees DEF Begins

\* A Fetch keeps fitting its sender, whatever turn the sender takes.
LEMMA FetchStays ==
    ASSUME NEW led \in Histories, NEW grown \in Histories, NEW r \in Replica, NEW q \in Replica,
           LogTurn(led, grown, r, q), NEW m, m.epoch \in Nat, m.fetchEpoch \in Nat,
           m.fetchOffset \in Nat, FitsFetch(led, r, m)
    PROVE  FitsFetch(grown, r, m) /\ FitsFetch(grown, q, m)
<1>1. /\ r.epoch \in Nat /\ q.epoch \in Nat /\ r.log \in Seq(Nat) /\ q.log \in Seq(Nat)
      /\ Len(r.log) \in Nat /\ Len(q.log) \in Nat
    BY ReplicaFields
<1>2. Grows(led, grown) /\ q.epoch >= r.epoch
    BY DEF LogTurn
<1>3. grown[m.epoch] \in Seq(Nat) /\ grown[m.fetchEpoch] \in Seq(Nat)
    BY DEF Histories
<1>4. FitsFetch(grown, r, m)
    BY <1>1, <1>2, GrownBegins DEF FitsFetch
<1>5. ASSUME q.epoch = m.epoch, r.epoch = m.epoch PROVE FitsFetch(grown, q, m)
    <2>1. CASE Begins(q.log, grown[q.epoch])
        BY <1>1, <1>5, <2>1 DEF FitsFetch
    <2>2. CASE Begins(q.log, r.log)
        <3>1. CASE Begins(r.log, grown[m.epoch])
            BY <1>1, <1>3, <1>5, <2>2, <3>1, BeginsTrans DEF FitsFetch
        <3>2. CASE Len(r.log) <= m.fetchOffset /\ Begins(r.log, grown[m.fetchEpoch])
            <4>1. Begins(q.log, grown[m.fetchEpoch]) /\ Len(q.log) <= Len(r.log)
                BY <1>1, <1>3, <2>2, <3>2, BeginsTrans
            <4> QED
                BY <1>1, <1>5, <3>2, <4>1 DEF FitsFetch
        <3> QED
            BY <1>4, <1>5, <3>1, <3>2 DEF FitsFetch
    <2> QED
        BY <1>5, <2>1, <2>2 DEF LogTurn
<1>6. ASSUME q.epoch > m.epoch PROVE FitsFetch(grown, q, m)
    BY <1>1, <1>6 DEF FitsFetch
<1>7. r.epoch >= m.epoch
    BY DEF FitsFetch
<1> QED
    BY <1>1, <1>2, <1>4, <1>5, <1>6, <1>7

\* An answer that fits a receiver fits it in the grown history.
LEMMA AnswerGrows ==
    ASSUME NEW led \in Histories, NEW grown \in Histories, Grows(led, grown),
           NEW r \in Replica, NEW m, m.epoch \in Nat, m.base \in Nat, FitsAnswer(led, r, m)
    PROVE  FitsAnswer(grown, r, m)
<1>1. r.epoch \in Nat /\ r.log \in Seq(Nat)
    BY ReplicaFields
<1>2. grown[m.epoch] \in Seq(Nat) /\ led[m.epoch] \in Seq(Nat)
    BY DEF Histories
<1>3. ASSUME NEW k \in 1 .. Len(m.records)
      PROVE  m.base + k <= Len(grown[m.epoch]) /\ m.records[k] = grown[m.epoch][m.base + k]
    <2>1. m.base + k <= Len(led[m.epoch]) /\ m.records[k] = led[m.epoch][m.base + k]
        BY DEF FitsAnswer
    <2>2. m.base + k \in 1 .. Len(led[m.epoch])
        BY <1>2, <2>1
    <2>3. SameBelow(led[m.epoch], grown[m.epoch], Len(led[m.epoch]))
        BY DEF Grows
    <2> QED
        BY <2>1, <2>2, <2>3 DEF SameBelow
<1>4. r.epoch >= m.epoch /\ (r.epoch = m.epoch => Begins(r.log, grown[m.epoch]))
    BY <1>1, GrownBegins DEF FitsAnswer
<1> QED
    BY <1>3, <1>4 DEF FitsAnswer

\* An answer keeps fitting its receiver, whatever turn the receiver takes.
LEMMA AnswerStays ==
    ASSUME NEW led \in Histories, NEW grown \in Histories, NEW r \in Replica, NEW q \in Replica,
           LogTurn(led, grown, r, q), NEW m, m.epoch \in Nat, m.base \in Nat,
           FitsAnswer(led, r, m)
    PROVE  FitsAnswer(grown, q, m)
<1>1. /\ r.epoch \in Nat /\ q.epoch \in Nat /\ r.log \in Seq(Nat) /\ q.log \in Seq(Nat)
    BY ReplicaFields
<1>2. Grows(led, grown) /\ q.epoch >= r.epoch /\ grown[m.epoch] \in Seq(Nat)
    BY DEF LogTurn, Histories
<1>3. FitsAnswer(grown, r, m)
    BY <1>2, AnswerGrows
<1>4. q.epoch = m.epoch => Begins(q.log, grown[m.epoch])
    <2>1. CASE q.epoch = m.epoch
        <3>1. r.epoch = m.epoch
            BY <1>1, <1>2, <1>3, <2>1 DEF FitsAnswer
        <3>2. Begins(q.log, r.log) \/ Begins(q.log, grown[m.epoch])
            BY <2>1, <3>1 DEF LogTurn
        <3> QED
            BY <1>1, <1>2, <1>3, <3>1, <3>2, BeginsTrans DEF FitsAnswer
    <2> QED
        BY <2>1
<1> QED
    BY <1>1, <1>2, <1>3, <1>4 DEF FitsAnswer

\* The histories of the logs go on with every turn that is a LogTurn.
LEMMA LogPastTurn ==
    ASSUME TypeOK, TypeOK', VoteInv', ElectionSafety', NEW led \in Histories, LogPast(led),
           NEW grown \in Histories, NEW v \in Voters, NEW gone, NEW step,
           EndTurn(v, gone, step), LogTurn(led, grown, replica[v], step.replica),
           \A m \in step.send : m.type = "Fetch" => FetchSaid(v, step.replica, m),
           \A m \in step.send : IsServed(m) /\ m.diverging = Nil =>
                FitsAnswer(grown, replica'[m.to], m)
    PROVE  LogPast(grown)'
<1> DEFINE r == replica[v]
           q == step.replica
<1>1. /\ replica' = [replica EXCEPT ![v] = q]
      /\ \A m \in net' : m \in net \/ m \in step.send
      /\ elected' = IF q.role.name = "Leader" THEN elected \cup {<<q.epoch, v>>} ELSE elected
    BY DEF EndTurn
<1>2. replica'[v] = q /\ \A w \in Voters \ {v} : replica'[w] = replica[w]
    BY <1>1 DEF TypeOK
<1>3. /\ r \in Replica /\ q \in Replica /\ \A w \in Voters : replica[w] \in Replica
    BY <1>2 DEF TypeOK
<1>4. /\ r.epoch \in Nat /\ q.epoch \in Nat /\ q.log \in Seq(Nat)
      /\ \A w \in Voters : replica[w].epoch \in Nat /\ replica[w].log \in Seq(Nat)
    BY <1>3, ReplicaFields
<1>5. /\ Grows(led, grown) /\ q.epoch >= r.epoch /\ Sourced(grown, q.log)
      /\ Ordered(q.log, q.epoch)
      /\ \A e \in Nat : grown[e] = led[e] \/ (e = q.epoch /\ q.role.name = "Leader")
      /\ q.role.name = "Leader" =>
            q.log = grown[q.epoch] /\ q.log # <<>> /\ q.log[Len(q.log)] = q.epoch
      /\ q.role.name = "Candidate" =>
            q.epoch > r.epoch \/ (q.epoch = r.epoch /\ r.role.name = "Candidate")
    BY DEF LogTurn
<1>6. DOMAIN led = Nat /\ DOMAIN grown = Nat
      /\ \A e \in Nat : led[e] \in Seq(Nat) /\ grown[e] \in Seq(Nat)
    BY DEF Histories
<1>7. /\ \A x \in elected : x[1] \in Nat /\ x[2] \in Voters
      /\ \A m \in net' : m \in Message
    BY DEF TypeOK
<1>8. LogTurn(led, grown, r, q)
    OBVIOUS
<1> HIDE DEF r, q
<1>9. LedWasElected(grown)'
    <2>1. ASSUME NEW e \in Nat, grown[e] # <<>>
          PROVE  \E w \in Voters : <<e, w>> \in elected'
        <3>1. CASE led[e] # <<>>
            BY <1>1, <1>6, <3>1 DEF LogPast, LedWasElected
        <3>2. CASE led[e] = <<>>
            BY <1>1, <1>5, <2>1, <3>2
        <3> QED
            BY <3>1, <3>2
    <2>2. ASSUME NEW x \in elected PROVE grown[x[1]] # <<>>
        <3>1. led[x[1]] # <<>> /\ x[1] \in Nat
            BY <1>7 DEF LogPast, LedWasElected
        <3>2. SameBelow(led[x[1]], grown[x[1]], Len(led[x[1]]))
            BY <1>5, <3>1 DEF Grows
        <3>3. Len(led[x[1]]) <= Len(grown[x[1]]) /\ Len(led[x[1]]) > 0
            BY <1>6, <3>1, <3>2, SameInside
        <3> QED
            BY <1>6, <3>1, <3>3
    <2>3. ASSUME NEW x \in elected' PROVE grown[x[1]] # <<>>
        BY <1>1, <1>5, <2>2
    <2> QED
        BY <1>6, <2>1, <2>3 DEF LedWasElected
<1>10. LedInOrder(grown)'
    <2>1. ASSUME NEW e \in Nat
          PROVE  /\ Sourced(grown, grown[e]) /\ Ordered(grown[e], e)
                 /\ grown[e] # <<>> => grown[e][Len(grown[e])] = e
        <3>1. CASE grown[e] = led[e]
            <4>1. /\ Sourced(led, led[e]) /\ Ordered(led[e], e)
                  /\ led[e] # <<>> => led[e][Len(led[e])] = e
                BY <1>6 DEF LogPast, LedInOrder
            <4> QED
                BY <1>5, <1>6, <3>1, <4>1, GrownSources
        <3>2. CASE e = q.epoch /\ q.role.name = "Leader"
            BY <1>5, <3>2
        <3> QED
            BY <1>5, <3>1, <3>2
    <2> QED
        BY <1>6, <2>1 DEF LedInOrder
<1>11. LogsSourced(grown)'
    <2>1. ASSUME NEW w \in Voters
          PROVE  Sourced(grown, replica'[w].log) /\ Ordered(replica'[w].log, replica'[w].epoch)
        <3>1. CASE w = v
            BY <1>2, <1>5, <3>1
        <3>2. CASE w # v
            <4>1. Sourced(led, replica[w].log) /\ Ordered(replica[w].log, replica[w].epoch)
                BY DEF LogPast, LogsSourced
            <4> QED
                BY <1>2, <1>4, <1>5, <3>2, <4>1, GrownSources
        <3> QED
            BY <3>1, <3>2
    <2> QED
        BY <2>1 DEF LogsSourced
<1>12. LeadersHold(grown)'
    <2>1. ASSUME NEW w \in Voters, replica'[w].role.name = "Leader"
          PROVE  replica'[w].log = grown[replica'[w].epoch]
        <3>1. CASE w = v
            BY <1>2, <1>5, <2>1, <3>1
        <3>2. CASE w # v
            <4>1. replica[w].log = led[replica[w].epoch] /\ replica'[w] = replica[w]
                BY <1>2, <2>1, <3>2 DEF LogPast, LeadersHold, IsLeader
            <4>2. CASE replica[w].epoch = q.epoch /\ q.role.name = "Leader"
                <5>1. <<replica[w].epoch, w>> \in elected' /\ <<q.epoch, v>> \in elected'
                    BY <1>1, <2>1, <4>1, <4>2 DEF VoteInv, LeadersWereElected, IsLeader
                <5> QED
                    BY <3>2, <4>2, <5>1 DEF ElectionSafety
            <4> QED
                BY <1>4, <1>5, <4>1, <4>2
        <3> QED
            BY <3>1, <3>2
    <2> QED
        BY <2>1 DEF LeadersHold, IsLeader
<1>13. ElectionsOver'
    <2>1. ASSUME NEW x \in elected' PROVE NotCandidate(replica'[x[2]], x[1])
        <3>1. CASE x \notin elected
            BY <1>1, <1>2, <3>1 DEF NotCandidate
        <3>2. CASE x \in elected /\ x[2] # v
            BY <1>2, <1>7, <3>2 DEF LogPast, ElectionsOver
        <3>3. CASE x \in elected /\ x[2] = v
            <4>1. NotCandidate(r, x[1]) /\ x[1] \in Nat
                BY <1>7, <3>3 DEF LogPast, ElectionsOver, r
            <4> QED
                BY <1>2, <1>4, <1>5, <3>3, <4>1 DEF NotCandidate
        <3> QED
            BY <3>1, <3>2, <3>3
    <2> QED
        BY <2>1 DEF ElectionsOver, NotCandidate
<1>14. FetchesFit(grown)'
    <2>1. ASSUME NEW m \in net', m.type = "Fetch" PROVE FitsFetch(grown, replica'[m.from], m)
        <3>1. m.from \in Voters /\ m.epoch \in Nat /\ m.fetchEpoch \in Nat /\ m.fetchOffset \in Nat
            BY <1>7, <2>1, MessageFields
        <3>2. CASE m \in net
            <4>1. FitsFetch(led, replica[m.from], m)
                BY <2>1, <3>2 DEF LogPast, FetchesFit
            <4>2. CASE m.from = v
                <5>1. FitsFetch(led, r, m)
                    BY <4>1, <4>2 DEF r
                <5> QED
                    BY <1>2, <1>3, <1>8, <3>1, <4>2, <5>1, FetchStays
            <4>3. CASE m.from # v
                <5>1. PICK w \in Replica : w = replica[m.from] /\ w = replica'[m.from]
                    BY <1>2, <1>3, <3>1, <4>3
                <5>2. w.epoch \in Nat /\ w.log \in Seq(Nat)
                    BY ReplicaFields
                <5>3. FitsFetch(grown, w, m)
                    BY <1>5, <3>1, <4>1, <5>1, <5>2, GrownBegins DEF FitsFetch
                <5> QED
                    BY <5>1, <5>3
            <4> QED
                BY <4>2, <4>3
        <3>3. CASE m \in step.send
            <4>1. FetchSaid(v, q, m)
                BY <2>1, <3>3 DEF q
            <4>2. Begins(q.log, grown[m.fetchEpoch])
                <5>1. CASE q.log = <<>>
                    BY <5>1 DEF Begins, SameBelow
                <5>2. CASE q.log # <<>>
                    <6>1. Len(q.log) \in 1 .. Len(q.log) /\ m.fetchEpoch = q.log[Len(q.log)]
                        BY <1>4, <4>1, <5>2 DEF FetchSaid, last_epoch
                    <6> QED
                        BY <1>5, <6>1 DEF Sourced, Begins
                <5> QED
                    BY <5>1, <5>2
            <4>3. m.from = v /\ m.epoch = q.epoch /\ Len(q.log) <= m.fetchOffset
                BY <1>4, <4>1 DEF FetchSaid
            <4> QED
                BY <1>2, <1>4, <4>2, <4>3 DEF FitsFetch
        <3> QED
            BY <1>1, <3>2, <3>3
    <2> QED
        BY <2>1 DEF FetchesFit, FitsFetch
<1>15. AnswersFit(grown)'
    <2>1. ASSUME NEW m \in net', IsServed(m), m.diverging = Nil
          PROVE  FitsAnswer(grown, replica'[m.to], m)
        <3>1. m.to \in Voters /\ m.epoch \in Nat /\ m.base \in Nat
            BY <1>7, <2>1, MessageFields DEF IsServed
        <3>2. CASE m \in net
            <4>1. FitsAnswer(led, replica[m.to], m)
                BY <2>1, <3>2 DEF LogPast, AnswersFit
            <4>2. CASE m.to = v
                <5>1. FitsAnswer(led, r, m)
                    BY <4>1, <4>2 DEF r
                <5> QED
                    BY <1>2, <1>3, <1>8, <3>1, <4>2, <5>1, AnswerStays
            <4>3. CASE m.to # v
                <5>1. PICK w \in Replica : w = replica[m.to] /\ w = replica'[m.to]
                    BY <1>2, <1>3, <3>1, <4>3
                <5> QED
                    BY <1>5, <3>1, <4>1, <5>1, AnswerGrows
            <4> QED
                BY <4>2, <4>3
        <3>3. CASE m \in step.send
            BY <2>1, <3>3
        <3> QED
            BY <1>1, <3>2, <3>3
    <2> QED
        BY <2>1 DEF AnswersFit, FitsAnswer, IsServed
<1> QED
    BY <1>9, <1>10, <1>11, <1>12, <1>13, <1>14, <1>15 DEF LogPast

(***************************************************************************)
(* The history after a turn: who leads afterwards has led with this log.   *)
(***************************************************************************)
GrownBy(led, q) ==
    IF q.role.name = "Leader" THEN [led EXCEPT ![q.epoch] = q.log] ELSE led

\* The history grows when the leader's log did.
LEMMA GrownByGrows ==
    ASSUME NEW led \in Histories, NEW q \in Replica,
           q.role.name = "Leader" => Begins(led[q.epoch], q.log)
    PROVE  /\ GrownBy(led, q) \in Histories /\ Grows(led, GrownBy(led, q))
           /\ \A e \in Nat : \/ GrownBy(led, q)[e] = led[e]
                             \/ e = q.epoch /\ q.role.name = "Leader"
           /\ q.role.name = "Leader" => GrownBy(led, q)[q.epoch] = q.log
<1>1. q.epoch \in Nat /\ q.log \in Seq(Nat)
    BY ReplicaFields
<1>2. CASE q.role.name = "Leader"
    <2> DEFINE grown == [led EXCEPT ![q.epoch] = q.log]
    <2>1. GrownBy(led, q) = grown
        BY <1>2 DEF GrownBy
    <2>2. grown \in Histories /\ grown[q.epoch] = q.log
          /\ \A e \in Nat : e # q.epoch => grown[e] = led[e]
        BY <1>1 DEF Histories
    <2> HIDE DEF grown
    <2>3. ASSUME NEW e \in Nat PROVE SameBelow(led[e], grown[e], Len(led[e]))
        <3>1. led[e] \in Seq(Nat)
            BY DEF Histories
        <3>2. SameBelow(led[e], led[e], Len(led[e]))
            BY <3>1, SameSelf
        <3> QED
            BY <1>2, <2>2, <3>2 DEF Begins
    <2>4. Grows(led, grown)
        BY <2>3 DEF Grows
    <2> QED
        BY <1>2, <2>1, <2>2, <2>4
<1>3. CASE q.role.name # "Leader"
    <2>1. GrownBy(led, q) = led
        BY <1>3 DEF GrownBy
    <2> QED
        BY <1>3, <2>1, GrowsAsIs
<1> QED
    BY <1>2, <1>3

\* A turn that keeps the log.
LEMMA KeepLogTurn ==
    ASSUME NEW led \in Histories, NEW r \in Replica, NEW q \in Replica,
           Sourced(led, r.log), Ordered(r.log, r.epoch), q.log = r.log, q.epoch >= r.epoch,
           q.role.name = "Candidate" =>
                q.epoch > r.epoch \/ (q.epoch = r.epoch /\ r.role.name = "Candidate"),
           q.role.name = "Leader" =>
                r.log = led[q.epoch] /\ r.log # <<>> /\ r.log[Len(r.log)] = q.epoch
    PROVE  GrownBy(led, q) \in Histories /\ LogTurn(led, GrownBy(led, q), r, q)
<1> DEFINE grown == GrownBy(led, q)
<1>1. r.epoch \in Nat /\ q.epoch \in Nat /\ r.log \in Seq(Nat)
    BY ReplicaFields
<1>2. Begins(r.log, r.log)
    BY <1>1, SameSelf DEF Begins
<1>3. /\ grown \in Histories /\ Grows(led, grown)
      /\ \A e \in Nat : grown[e] = led[e] \/ (e = q.epoch /\ q.role.name = "Leader")
      /\ q.role.name = "Leader" => grown[q.epoch] = q.log
    BY <1>2, GrownByGrows
<1> HIDE DEF grown
<1>4. Sourced(grown, q.log)
    BY <1>1, <1>3, GrownSources
<1>5. Ordered(q.log, q.epoch)
    BY <1>1 DEF Ordered
<1> QED
    BY <1>2, <1>3, <1>4, <1>5 DEF LogTurn, grown

\* A turn in which a leader appends a batch of its epoch.
LEMMA AppendLogTurn ==
    ASSUME NEW led \in Histories, NEW r \in Replica, NEW q \in Replica,
           Sourced(led, r.log), Ordered(r.log, r.epoch), q.epoch >= r.epoch,
           q.role.name = "Leader", q.log = Append(r.log, q.epoch),
           Begins(led[q.epoch], r.log)
    PROVE  GrownBy(led, q) \in Histories /\ LogTurn(led, GrownBy(led, q), r, q)
<1> DEFINE grown == GrownBy(led, q)
           n == Len(r.log)
<1>0. r.epoch \in Nat /\ q.epoch \in Nat /\ r.log \in Seq(Nat) /\ q.log \in Seq(Nat)
    BY ReplicaFields
<1>1. /\ r.epoch \in Nat /\ q.epoch \in Nat /\ r.log \in Seq(Nat) /\ q.log \in Seq(Nat)
      /\ led[q.epoch] \in Seq(Nat) /\ n \in Nat
    <2>1. led[q.epoch] \in Seq(Nat)
        BY <1>0 DEF Histories
    <2> QED
        BY <1>0, <2>1
<1>2. Len(q.log) = n + 1 /\ q.log[n + 1] = q.epoch /\ SameBelow(r.log, q.log, n)
    BY <1>1, SameAppend
<1>3. Begins(led[q.epoch], q.log) /\ SameBelow(q.log, q.log, n + 1) /\ q.log # <<>>
    <2>1. PICK log \in Seq(Nat) : log = q.log
        BY <1>1
    <2>2. n + 1 \in 0 .. Len(log)
        BY <1>1, <1>2, <2>1
    <2>3. SameBelow(log, log, n + 1) /\ log # <<>>
        BY <1>1, <2>2, SameSelf
    <2> QED
        BY <1>1, <1>2, <2>1, <2>3, BeginsTrans DEF Begins
<1>4. /\ grown \in Histories /\ Grows(led, grown)
      /\ \A e \in Nat : grown[e] = led[e] \/ (e = q.epoch /\ q.role.name = "Leader")
      /\ grown[q.epoch] = q.log
    BY <1>3, GrownByGrows
<1> HIDE DEF grown
<1>5. ASSUME NEW k \in 1 .. n + 1 PROVE SameBelow(q.log, grown[q.log[k]], k)
    <2>1. CASE k = n + 1
        BY <1>2, <1>3, <1>4, <2>1
    <2>2. CASE k \in 1 .. n
        <3>1. q.log[k] = r.log[k] /\ r.log[k] \in Nat
            BY <1>1, <1>2, <2>2 DEF SameBelow
        <3>2. SameBelow(r.log, led[r.log[k]], k)
            BY <2>2 DEF Sourced
        <3>3. SameBelow(r.log, grown[r.log[k]], k)
            BY SMTT(40), <1>1, <1>4, <3>1, <3>2, GrownAgrees
        <3>4. SameBelow(q.log, r.log, k)
            BY <1>1, <1>2, <2>2, SameLess, SameSym
        <3> QED
            BY <3>1, <3>3, <3>4, SameTrans
    <2> QED
        BY <1>1, <2>1, <2>2
<1>6. ASSUME NEW k \in 1 .. n + 1, NEW j \in 1 .. k PROVE q.log[k] <= q.epoch /\ q.log[j] <= q.log[k]
    <2>1. \A i \in 1 .. n : q.log[i] = r.log[i] /\ r.log[i] \in Nat /\ r.log[i] <= r.epoch
        BY <1>1, <1>2 DEF SameBelow, Ordered
    <2>2. CASE k = n + 1
        BY <1>1, <1>2, <2>1, <2>2
    <2>3. CASE k \in 1 .. n
        <3>1. r.log[j] <= r.log[k] /\ j \in 1 .. n
            BY <1>1, <2>3 DEF Ordered
        <3> QED
            BY <1>1, <2>1, <2>3, <3>1
    <2> QED
        BY <1>1, <2>2, <2>3
<1>7. Sourced(grown, q.log) /\ Ordered(q.log, q.epoch)
    BY <1>2, <1>5, <1>6 DEF Sourced, Ordered
<1>8. q.log # <<>> /\ q.log[Len(q.log)] = q.epoch /\ Begins(q.log, grown[q.epoch])
    BY <1>2, <1>3, <1>4 DEF Begins
<1> QED
    BY <1>4, <1>7, <1>8 DEF LogTurn, grown

\* A turn of a follower, whose log had its leaders before.
LEMMA FollowLogTurn ==
    ASSUME NEW led \in Histories, NEW r \in Replica, NEW q \in Replica,
           q.role.name = "Follower", q.epoch = r.epoch,
           Sourced(led, q.log), Ordered(q.log, q.epoch),
           Begins(q.log, r.log) \/ Begins(q.log, led[q.epoch])
    PROVE  GrownBy(led, q) = led /\ LogTurn(led, led, r, q)
<1>1. GrownBy(led, q) = led /\ q.epoch \in Nat
    BY ReplicaFields DEF GrownBy
<1>2. Grows(led, led)
    BY <1>1, GrownByGrows
<1> QED
    BY <1>1, <1>2 DEF LogTurn

(***************************************************************************)
(* Fetches.                                                                *)
(***************************************************************************)

\* A log in order that a fetch does not diverge from holds the fetch's epoch
\* at the fetch's offset or above.
LEMMA NotDiverging ==
    ASSUME NEW log \in Seq(Nat), NEW e \in Nat, Ordered(log, e),
           NEW fe \in Nat, NEW fo \in Nat, fo > 0, ~Diverges(log, fe, fo)
    PROVE  \E p \in 1 .. Len(log) : p >= fo /\ log[p] = fe
<1> DEFINE above == {k \in 1 .. Len(log) : log[k] > fe}
           upTo  == {log[k] : k \in {j \in 1 .. Len(log) : log[j] <= fe}}
           end   == end_offset_for_epoch(log, fe)
<1>1. end.epoch = fe /\ end.offset >= fo /\ end.offset \in 0 .. Len(log)
    <2>1. end.offset \in 0 .. Len(log)
        BY EndOffsetForEpochInLog
    <2> QED
        BY <2>1 DEF Diverges
<1>2. CASE above = {}
    <2>1. end = [offset |-> Len(log), epoch |-> last_epoch(log)]
        BY <1>2 DEF end_offset_for_epoch
    <2>2. Len(log) >= fo /\ last_epoch(log) = fe
        BY <1>1, <2>1
    <2>3. Len(log) \in 1 .. Len(log) /\ log[Len(log)] = fe
        BY <2>2 DEF last_epoch
    <2> QED
        BY <2>2, <2>3
<1>3. CASE above # {}
    <2>1. above \in SUBSET Nat /\ upTo \in SUBSET Nat /\ \A x \in upTo : x <= fe
        OBVIOUS
    <2>2. end = [offset |-> Min(above) - 1, epoch |-> IF upTo = {} THEN fe ELSE Max(upTo)]
        BY <1>3 DEF end_offset_for_epoch
    <2>3. PICK a \in 1 .. Len(log) : a = Min(above) /\ log[a] > fe /\ \A y \in above : a <= y
        <3>1. Min(above) \in above /\ \A y \in above : Min(above) <= y
            BY <1>3, <2>1, MinIsLeast
        <3> QED
            BY <3>1
    <2>4. PICK p \in 1 .. Len(log) : p = a - 1 /\ p >= fo
        <3>1. end.offset = a - 1
            BY <2>2, <2>3
        <3> HIDE DEF end
        <3> QED
            BY <1>1, <3>1
    <2>5. log[p] <= fe /\ log[p] \in Nat
        <3>1. p \notin above
            BY <2>3, <2>4
        <3> QED
            BY <3>1
    <2>6. log[p] \in upTo
        BY <2>5
    <2>7. Max(upTo) = fe
        <3>1. end.epoch = IF upTo = {} THEN fe ELSE Max(upTo)
            BY <2>2
        <3> HIDE DEF end, upTo
        <3> QED
            BY <1>1, <2>6, <3>1
    <2>8. Max(upTo) \in upTo
        <3> HIDE DEF upTo
        <3> QED
            BY <2>1, <2>6, MaxIsGreatest
    <2>9. PICK j \in 1 .. Len(log) : log[j] = fe
        BY <2>7, <2>8
    <2>10. j <= p
        <3>1. SUFFICES ASSUME j > p PROVE FALSE
            OBVIOUS
        <3>2. a \in 1 .. j
            BY <2>4, <3>1
        <3>3. log[a] <= log[j]
            BY <3>2 DEF Ordered
        <3> QED
            BY <2>3, <2>9, <3>3
    <2>11. log[j] <= log[p]
        BY <2>10 DEF Ordered
    <2> QED
        BY <2>4, <2>5, <2>9, <2>11
<1> QED
    BY <1>2, <1>3

\* The sender of a fetch that its leader serves has a beginning of the
\* leader's log.
LEMMA ServedBegins ==
    ASSUME NEW led \in Histories, LedInOrder(led), NEW r \in Replica, NEW m,
           m.epoch \in Nat, m.fetchEpoch \in Nat, m.fetchOffset \in Nat,
           FitsFetch(led, r, m), r.epoch = m.epoch,
           ~Diverges(led[m.epoch], m.fetchEpoch, m.fetchOffset)
    PROVE  Begins(r.log, led[m.epoch])
<1>1. PICK e \in Nat, fe \in Nat, fo \in Nat :
            e = m.epoch /\ fe = m.fetchEpoch /\ fo = m.fetchOffset
    OBVIOUS
<1>2. r.log \in Seq(Nat) /\ led[e] \in Seq(Nat) /\ led[fe] \in Seq(Nat)
    BY ReplicaFields DEF Histories
<1>3. Sourced(led, led[e]) /\ Ordered(led[e], e)
    BY DEF LedInOrder, Histories
<1>4. CASE Len(r.log) <= fo /\ Begins(r.log, led[fe])
    <2>1. CASE Len(r.log) = 0
        BY <1>1, <2>1 DEF Begins, SameBelow
    <2>2. CASE Len(r.log) # 0
        <3>1. fo > 0 /\ Len(r.log) \in Nat
            BY <1>2, <1>4, <2>2
        <3>2. PICK p \in 1 .. Len(led[e]) : p >= fo /\ led[e][p] = fe
            BY ZenonT(60), <1>1, <1>2, <1>3, <3>1, NotDiverging
        <3>3. SameBelow(led[e], led[fe], p)
            BY <1>3, <3>2 DEF Sourced
        <3>4. SameBelow(led[e], led[fe], Len(r.log)) 
            BY <1>4, <3>1, <3>2, <3>3, SameLess
        <3>5. SameBelow(led[fe], led[e], Len(r.log)) 
            BY <3>1, <3>4, SameSym
        <3> QED
            BY <1>1, <1>4, <3>1, <3>5, SameTrans DEF Begins
    <2> QED
        BY <2>1, <2>2
<1> QED
    BY <1>1, <1>4 DEF FitsFetch

(***************************************************************************)
(* Every turn is a LogTurn.                                                *)
(***************************************************************************)

\* A leader's log is the one its epoch was led with.
LEMMA LeaderLed ==
    ASSUME TypeOK, VoteInv, NEW led \in Histories, LogPast(led),
           NEW v \in Voters, replica[v].role.name = "Leader"
    PROVE  /\ replica[v].log = led[replica[v].epoch] /\ replica[v].log # <<>>
           /\ replica[v].log[Len(replica[v].log)] = replica[v].epoch
<1>1. replica[v].epoch \in Nat
    BY ReplicaFields DEF TypeOK
<1>2. <<replica[v].epoch, v>> \in elected
    BY DEF VoteInv, LeadersWereElected, IsLeader
<1>3. replica[v].log = led[replica[v].epoch]
    BY DEF LogPast, LeadersHold, IsLeader
<1>4. led[replica[v].epoch] # <<>>
    BY <1>2 DEF LogPast, LedWasElected
<1>5. led[replica[v].epoch][Len(led[replica[v].epoch])] = replica[v].epoch
    BY <1>1, <1>4 DEF LogPast, LedInOrder, Histories
<1> QED
    BY <1>3, <1>4, <1>5

\* Nobody led an epoch before the turn that wins it.
LEMMA WonUnled ==
    ASSUME TypeOK, ElectionSafety', NEW led \in Histories, LogPast(led),
           NEW v \in Voters, NEW q \in Replica, NEW gone, NEW step, step.replica = q,
           EndTurn(v, gone, step), Wins(v, replica[v], q)
    PROVE  led[q.epoch] = <<>>
<1> DEFINE e == q.epoch
<1>1. e \in Nat /\ replica[v].epoch \in Nat
    BY ReplicaFields DEF TypeOK
<1>2. SUFFICES ASSUME led[e] # <<>> PROVE FALSE
    OBVIOUS
<1>3. PICK w \in Voters : <<e, w>> \in elected
    BY <1>1, <1>2 DEF LogPast, LedWasElected, Histories
<1>4. q.role.name = "Leader"
    BY DEF Wins, Leader
<1>5. <<e, w>> \in elected' /\ <<e, v>> \in elected'
    BY <1>3, <1>4 DEF EndTurn
<1>6. w = v
    BY <1>5 DEF ElectionSafety
<1>7. NotCandidate(replica[v], e)
    BY <1>3, <1>6 DEF LogPast, ElectionsOver
<1> QED
    BY <1>1, <1>7 DEF NotCandidate, Wins

\* A core turn.
LEMMA CoreLogTurn ==
    ASSUME TypeOK, TypeOK', VoteInv, ElectionSafety', NEW led \in Histories, LogPast(led),
           NEW v \in Voters, NEW gone, NEW step, NEW W, NEW told, NEW asking,
           EndTurn(v, gone, step), VoteStep(v, replica[v], step, W),
           CoreTurn(v, replica[v], step, told, asking)
    PROVE  LET grown == GrownBy(led, step.replica)
           IN  grown \in Histories /\ LogTurn(led, grown, replica[v], step.replica)
<1> DEFINE r == replica[v]
           q == step.replica
<1>1. r \in Replica /\ q \in Replica
    BY DEF TypeOK, EndTurn
<1>2. r.epoch \in Nat /\ q.epoch \in Nat /\ r.log \in Seq(Nat)
    BY <1>1, ReplicaFields
<1>3. Sourced(led, r.log) /\ Ordered(r.log, r.epoch)
    BY DEF LogPast, LogsSourced
<1>4. /\ q.epoch >= r.epoch
      /\ q.role.name = "Candidate" =>
            q.epoch > r.epoch \/ (q.epoch = r.epoch /\ r.role.name = "Candidate")
    BY DEF VoteStep, KeepsVote, Candidacy
<1>5. CASE KeepsLog(r, q)
    <2>1. q.log = r.log /\ (q.role.name = "Leader" => r.role.name = "Leader" /\ q.epoch = r.epoch)
        BY <1>5 DEF KeepsLog
    <2>2. q.role.name = "Leader" =>
                r.log = led[q.epoch] /\ r.log # <<>> /\ r.log[Len(r.log)] = q.epoch
        BY <2>1, LeaderLed
    <2> HIDE DEF r, q
    <2> QED
        BY <1>1, <1>3, <1>4, <2>1, <2>2, KeepLogTurn DEF r, q
<1>6. CASE Wins(v, r, q)
    <2>1. led[q.epoch] = <<>>
        BY <1>1, <1>6, WonUnled
    <2>2. Begins(led[q.epoch], r.log)
        BY <2>1 DEF Begins, SameBelow
    <2>3. q.role.name = "Leader" /\ q.log = Append(r.log, q.epoch)
        BY <1>6 DEF Wins, Leader
    <2> HIDE DEF r, q
    <2> QED
        BY <1>1, <1>3, <1>4, <2>2, <2>3, AppendLogTurn DEF r, q
<1> QED
    BY <1>5, <1>6 DEF CoreTurn

\* A leader's append.
LEMMA SubmitLogTurn ==
    ASSUME TypeOK, VoteInv, NEW led \in Histories, LogPast(led), NEW v \in Voters,
           NEW q \in Replica, SameButLog(replica[v], q), q.role.name = "Leader",
           q.log = Append(replica[v].log, q.epoch)
    PROVE  LET grown == GrownBy(led, q)
           IN  grown \in Histories /\ LogTurn(led, grown, replica[v], q)
<1> DEFINE r == replica[v]
<1>1. r \in Replica /\ r.epoch \in Nat /\ r.log \in Seq(Nat)
    BY ReplicaFields DEF TypeOK
<1>2. Sourced(led, r.log) /\ Ordered(r.log, r.epoch)
    BY DEF LogPast, LogsSourced
<1>3. q.epoch = r.epoch /\ r.role.name = "Leader"
    BY DEF SameButLog
<1>4. r.log = led[q.epoch]
    BY <1>3, LeaderLed
<1>5. Begins(led[q.epoch], r.log)
    BY <1>1, <1>4, SameSelf DEF Begins
<1> HIDE DEF r
<1> QED
    BY SMTT(40), <1>1, <1>2, <1>3, <1>5, AppendLogTurn DEF r

\* A leader that answers a fetch.
LEMMA ServeLogTurn ==
    ASSUME TypeOK, VoteInv, NEW led \in Histories, LogPast(led), NEW l \in Voters,
           replica[l].role.name = "Leader", NEW q \in Replica, q.role.name = "Leader",
           q.log = replica[l].log, q.epoch = replica[l].epoch
    PROVE  LET grown == GrownBy(led, q)
           IN  grown \in Histories /\ LogTurn(led, grown, replica[l], q)
<1> DEFINE r == replica[l]
<1>1. r \in Replica /\ r.epoch \in Nat
    BY ReplicaFields DEF TypeOK
<1>2. Sourced(led, r.log) /\ Ordered(r.log, r.epoch)
    BY DEF LogPast, LogsSourced
<1>3. r.log = led[q.epoch] /\ r.log # <<>> /\ r.log[Len(r.log)] = q.epoch
    BY LeaderLed
<1> HIDE DEF r
<1> QED
    BY <1>1, <1>2, <1>3, KeepLogTurn DEF r

\* The beginning of a log in order that had its leaders is one too.
LEMMA BeginSourced ==
    ASSUME NEW led \in Histories, NEW a \in Seq(Nat), NEW b \in Seq(Nat), NEW e \in Nat,
           Begins(a, b), Sourced(led, b), Ordered(b, e)
    PROVE  Sourced(led, a) /\ Ordered(a, e)
<1>1. Len(a) <= Len(b) /\ Len(a) \in Nat /\ Len(b) \in Nat
    BY SameInside DEF Begins
<1>2. ASSUME NEW k \in 1 .. Len(a) PROVE a[k] = b[k] /\ k \in 1 .. Len(b)
    BY <1>1 DEF Begins, SameBelow
<1>3. ASSUME NEW k \in 1 .. Len(a) PROVE SameBelow(a, led[a[k]], k)
    <2>1. SameBelow(b, led[b[k]], k)
        BY <1>2 DEF Sourced
    <2>2. SameBelow(a, b, k)
        BY <1>1, SameLess DEF Begins
    <2> QED
        BY <1>2, <2>1, <2>2, SameTrans
<1>4. ASSUME NEW k \in 1 .. Len(a), NEW j \in 1 .. k PROVE a[k] <= e /\ a[j] <= a[k]
    <2>1. b[k] <= e /\ b[j] <= b[k]
        BY <1>2 DEF Ordered
    <2>2. j \in 1 .. Len(a)
        BY <1>1
    <2> QED
        BY <1>2, <2>1, <2>2
<1> QED
    BY <1>3, <1>4 DEF Sourced, Ordered

\* What a follower appends of a leader's log to a beginning of it.
LEMMA AppendBegins ==
    ASSUME NEW log \in Seq(Nat), NEW lead \in Seq(Nat), NEW base \in Nat,
           NEW records \in Seq(Nat), Begins(log, lead),
           \A k \in 1 .. Len(records) :
                base + k <= Len(lead) /\ records[k] = lead[base + k]
    PROVE  Begins(append_fetched(log, base, records), lead)
<1> DEFINE held == Len(log) - base
           n == Len(records)
           tail == SubSeq(records, held + 1, n)
<1>1. CASE base <= Len(log) /\ held < n
    <2>1. held \in Nat /\ n \in Nat /\ Len(log) \in Nat
        BY <1>1
    <2>2. \A i \in held + 1 .. n : records[i] \in Nat
        BY <2>1
    <2>3. /\ tail \in Seq(Nat) /\ Len(tail) = n - held
          /\ \A i \in 1 .. n - held : tail[i] = records[held + i]
        <3>1. held + 1 \in Int /\ n \in Int /\ held + 1 <= n
            BY <1>1, <2>1
        <3>2. /\ tail \in Seq(Nat)
              /\ Len(tail) = IF held + 1 <= n THEN n - (held + 1) + 1 ELSE 0
              /\ \A i \in 1 .. n - (held + 1) + 1 : tail[i] = records[held + 1 + i - 1]
            BY <2>2, <3>1, SubSeqProperties
        <3> QED
            BY <2>1, <3>1, <3>2
    <2> HIDE DEF tail
    <2>4. append_fetched(log, base, records) = log \o tail
        BY <1>1 DEF append_fetched, tail
    <2>5. /\ Len(log \o tail) = Len(log) + (n - held)
          /\ \A k \in 1 .. Len(log) : (log \o tail)[k] = log[k]
          /\ \A k \in Len(log) + 1 .. Len(log) + (n - held) : (log \o tail)[k] = tail[k - Len(log)]
        BY <2>1, <2>3
    <2>6. ASSUME NEW k \in 1 .. Len(log) + (n - held)
          PROVE  k <= Len(lead) /\ (log \o tail)[k] = lead[k]
        <3>1. CASE k <= Len(log)
            <4>1. k \in 1 .. Len(log)
                BY <2>1, <3>1
            <4>2. k <= Len(lead) /\ log[k] = lead[k]
                BY <4>1 DEF Begins, SameBelow
            <4> QED
                BY <2>5, <4>1, <4>2
        <3>2. CASE k > Len(log)
            <4>1. k - Len(log) \in 1 .. n - held /\ k - base \in 1 .. n
                BY <1>1, <2>1, <3>2
            <4>2. (log \o tail)[k] = records[held + (k - Len(log))]
                BY <2>1, <2>3, <2>5, <3>2, <4>1
            <4>3. held + (k - Len(log)) = k - base /\ base + (k - base) = k
                BY <2>1, <4>1
            <4> QED
                BY <4>1, <4>2, <4>3
        <3>3. k <= Len(log) \/ k > Len(log)
            BY <2>1
        <3> QED
            BY <3>1, <3>2, <3>3, Zenon
    <2> QED
        BY <2>4, <2>5, <2>6 DEF Begins, SameBelow
<1>2. CASE ~(base <= Len(log) /\ held < n)
    BY <1>2 DEF append_fetched
<1> QED
    BY <1>1, <1>2

\* A follower's truncation or append.
LEMMA ApplyLogTurn ==
    ASSUME NEW led \in Histories, LedInOrder(led), NEW r \in Replica, NEW q \in Replica,
           Sourced(led, r.log), Ordered(r.log, r.epoch),
           NEW m, m.base \in Nat, m.records \in Seq(Nat), m.epoch = r.epoch,
           q.epoch = r.epoch, q.role.name = "Follower",
           \/ \E cut \in 0 .. Len(r.log) : q.log = Prefix(r.log, cut)
           \/ FitsAnswer(led, r, m) /\ q.log = append_fetched(r.log, m.base, m.records)
    PROVE  GrownBy(led, q) = led /\ LogTurn(led, led, r, q)
<1>1. /\ r.epoch \in Nat /\ r.log \in Seq(Nat) /\ q.log \in Seq(Nat)
    BY ReplicaFields
<1>2. led[r.epoch] \in Seq(Nat) /\ Sourced(led, led[r.epoch]) /\ Ordered(led[r.epoch], r.epoch)
    BY <1>1 DEF LedInOrder, Histories
<1>3. CASE \E cut \in 0 .. Len(r.log) : q.log = Prefix(r.log, cut)
    <2>1. PICK cut \in 0 .. Len(r.log) : q.log = Prefix(r.log, cut)
        BY <1>3
    <2>2. /\ Len(Prefix(r.log, cut)) = cut
          /\ \A k \in 1 .. cut : Prefix(r.log, cut)[k] = r.log[k]
        BY <1>1, PrefixType
    <2>3. Begins(q.log, r.log)
        BY <1>1, <2>1, <2>2 DEF Begins, SameBelow
    <2> QED
        BY <1>1, <2>3, BeginSourced, FollowLogTurn
<1>4. CASE FitsAnswer(led, r, m) /\ q.log = append_fetched(r.log, m.base, m.records)
    <2>1. PICK base \in Nat, records \in Seq(Nat) : base = m.base /\ records = m.records
        OBVIOUS
    <2>2. /\ Begins(r.log, led[r.epoch])
          /\ \A k \in 1 .. Len(records) : /\ base + k <= Len(led[r.epoch])
                                          /\ records[k] = led[r.epoch][base + k]
        BY <1>4, <2>1 DEF FitsAnswer
    <2>3. PICK log \in Seq(Nat), lead \in Seq(Nat) : log = r.log /\ lead = led[r.epoch]
        BY <1>1, <1>2
    <2>4. Begins(append_fetched(log, base, records), lead)
        BY <2>2, <2>3, AppendBegins
    <2>5. Begins(q.log, led[r.epoch])
        BY <1>4, <2>1, <2>3, <2>4
    <2> QED
        BY <1>1, <1>2, <2>5, BeginSourced, FollowLogTurn
<1> QED
    BY <1>3, <1>4

\* The answer to a served fetch carries a part of the leader's log, of which
\* the receiver has a beginning.
LEMMA ServedFits ==
    ASSUME TypeOK, TypeOK', VoteInv, NEW led \in Histories, LogPast(led),
           NEW m \in net, ServeFetch(m), NEW l \in Voters, l = m.to, NEW q \in Replica,
           q.epoch = replica[l].epoch, q.log = replica[l].log, q.role.name = "Leader",
           replica' = [replica EXCEPT ![l] = q],
           NEW a, ServesFetch(q, m, a), Carries(replica[l].log, m.fetchOffset, a)
    PROVE  FitsAnswer(GrownBy(led, q), replica'[a.to], a)
<1> DEFINE r == replica[l]
           grown == GrownBy(led, q)
<1>1. /\ m.from \in Voters /\ m.fetchEpoch \in Nat /\ m.fetchOffset \in Nat /\ m.epoch \in Nat
      /\ r \in Replica /\ r.role.name = "Leader" /\ m.epoch = r.epoch /\ m.type = "Fetch"
    BY ServableFetch DEF ServeFetch
<1>2. ~Diverges(r.log, m.fetchEpoch, m.fetchOffset)
    BY DEF ServeFetch
<1>3. r.log = led[r.epoch]
    BY <1>1, LeaderLed
<1>4. PICK w \in Replica : w = replica[m.from] /\ FitsFetch(led, w, m)
    BY <1>1 DEF TypeOK, LogPast, FetchesFit
<1>5. PICK u \in Replica : u = replica'[m.from] /\ u.epoch = w.epoch /\ u.log = w.log
    <2>1. CASE m.from = l
        BY <1>1, <1>4, <2>1 DEF TypeOK
    <2>2. CASE m.from # l
        BY <1>1, <1>4, <2>2 DEF TypeOK
    <2> QED
        BY <2>1, <2>2
<1>6. w.epoch = m.epoch => Begins(w.log, led[m.epoch])
    <2>1. ~Diverges(led[m.epoch], m.fetchEpoch, m.fetchOffset) /\ LedInOrder(led)
        BY <1>1, <1>2, <1>3 DEF LogPast
    <2> QED
        BY <1>1, <1>4, <2>1, ServedBegins
<1>7. w.epoch >= m.epoch
    BY <1>4 DEF FitsFetch
<1>8. grown[m.epoch] = r.log
    <2>1. grown = [led EXCEPT ![m.epoch] = r.log]
        BY <1>1 DEF GrownBy
    <2> QED
        BY <1>1, <2>1 DEF Histories
<1> HIDE DEF grown, r
<1>9. /\ a.epoch = m.epoch /\ a.to = m.from /\ a.base = m.fetchOffset
    BY <1>1 DEF ServesFetch, r
<1>10. led[m.epoch] = grown[m.epoch]
    BY <1>1, <1>3, <1>8
<1>11. ASSUME NEW k \in 1 .. Len(a.records)
       PROVE  a.base + k <= Len(grown[a.epoch]) /\ a.records[k] = grown[a.epoch][a.base + k]
    <2>1. r.log \in Seq(Nat)
        BY <1>1, ReplicaFields
    <2>2. a.base + k \in 1 .. Len(r.log) /\ a.records[k] = r.log[a.base + k]
        BY <1>9 DEF r, Carries
    <2> QED
        BY <1>8, <1>9, <2>1, <2>2
<1> QED
    BY <1>5, <1>6, <1>7, <1>9, <1>10, <1>11 DEF FitsAnswer, grown

\* Some history explains the next state that differs from this one only in
\* the epoch of a voter that leads, and has grown there.
LogsGoOn(led) ==
    \E grown \in Histories :
        /\ LogPast(grown)' /\ Grows(led, grown)
        /\ \A e \in Nat : \/ grown[e] = led[e]
                          \/ \E v \in Voters : replica'[v].role.name = "Leader" /\ replica'[v].epoch = e

\* Every step goes on with some history of the logs.
LEMMA NextLog ==
    ASSUME TypeOK, TypeOK', VoteInv, VoteInv', ElectionSafety', KnownInv, NEW led \in Histories,
           LogPast(led), [Next]_vars
    PROVE  LogsGoOn(led)
<1>1. LogPast(led)
    OBVIOUS
<1>2. ASSUME NEW v \in Voters, NEW gone, NEW step, EndTurn(v, gone, step),
             NEW grown \in Histories, LogTurn(led, grown, replica[v], step.replica),
             \A m \in step.send : m.type = "Fetch" => FetchSaid(v, step.replica, m),
             \A m \in step.send : IsServed(m) /\ m.diverging = Nil =>
                FitsAnswer(grown, replica'[m.to], m)
      PROVE  LogsGoOn(led)
    <2>1. LogPast(grown)'
        BY <1>2, LogPastTurn
    <2>2. replica'[v] = step.replica
        BY <1>2 DEF EndTurn, TypeOK
    <2> QED
        BY <1>2, <2>1, <2>2 DEF LogsGoOn, LogTurn
<1>3. ASSUME NEW l \in Voters, NEW gone, NEW q, NEW a,
             EndTurn(l, gone, Step(q, {a})), a.type = "FetchAnswer",
             replica[l].role.name = "Leader", q.role.name = "Leader",
             q.log = replica[l].log, q.epoch = replica[l].epoch,
             a.diverging = Nil => FitsAnswer(GrownBy(led, q), replica'[a.to], a)
      PROVE  LogsGoOn(led)
    <2> DEFINE s == Step(q, {a})
    <2>1. s.replica = q /\ s.send = {a} /\ EndTurn(l, gone, s)
        BY <1>3 DEF Step
    <2> HIDE DEF s
    <2>2. q \in Replica
        BY <2>1 DEF EndTurn, TypeOK
    <2>3. PICK grown \in Histories : grown = GrownBy(led, q) /\ LogTurn(led, grown, replica[l], q)
        BY <1>1, <1>3, <2>2, ServeLogTurn
    <2> QED
        BY <1>2, <1>3, <2>1, <2>3
<1>4. CASE QuietStep
    <2>1. LogPast(led)'
        BY <1>1, <1>4 DEF QuietStep, LogPast, LedWasElected, LedInOrder, LogsSourced, LeadersHold,
            ElectionsOver, FetchesFit, AnswersFit, IsLeader
    <2> QED
        BY <2>1, GrowsAsIs DEF LogsGoOn
<1>5. ASSUME NEW v \in Voters, CoreAct(v) PROVE LogsGoOn(led)
    <2>1. PICK gone, step, W, told, asking :
                /\ EndTurn(v, gone, step) /\ VoteStep(v, replica[v], step, W)
                /\ CoreTurn(v, replica[v], step, told, asking)
        BY <1>5 DEF CoreAct
    <2>2. PICK grown \in Histories : LogTurn(led, grown, replica[v], step.replica)
        BY <1>1, <2>1, CoreLogTurn
    <2>3. \A m \in step.send : /\ m.type = "Fetch" => FetchSaid(v, step.replica, m)
                               /\ ~IsServed(m)
        BY <2>1 DEF CoreTurn, Says, FetchSaid
    <2> QED
        BY <1>2, <2>1, <2>2, <2>3
<1>6. ASSUME NEW v \in Voters, Submit(v) PROVE LogsGoOn(led)
    <2>1. PICK q : /\ EndTurn(v, {}, Step(q, {})) /\ SameButLog(replica[v], q)
                   /\ q.role.name = "Leader" /\ q.log = Append(replica[v].log, q.epoch)
        BY <1>6, SubmitTurn
    <2> DEFINE s == Step(q, {})
    <2>2. s.replica = q /\ s.send = {} /\ EndTurn(v, {}, s)
        BY <2>1 DEF Step
    <2> HIDE DEF s
    <2>3. q \in Replica
        BY <2>2 DEF EndTurn, TypeOK
    <2>4. PICK grown \in Histories : LogTurn(led, grown, replica[v], q)
        BY <1>1, <2>1, <2>3, SubmitLogTurn
    <2> QED
        BY <1>2, <2>2, <2>4
<1>7. ASSUME NEW m \in net, DivergingFetch(m) PROVE LogsGoOn(led)
    <2>1. PICK l \in Voters : l = m.to /\ replica[l] \in Replica /\ replica[l].role.name = "Leader"
        BY <1>7, ServableFetch DEF DivergingFetch
    <2>2. PICK gone, a :
                /\ EndTurn(l, gone, Step(replica[l], {a})) /\ ServesFetch(replica[l], m, a)
                /\ a.diverging = end_offset_for_epoch(replica[l].log, m.fetchEpoch)
        BY <1>7, <2>1, DivergingTurn
    <2>3. a.diverging # Nil
        <3>1. replica[l].log \in Seq(Nat) /\ m.fetchEpoch \in Nat
            BY <1>7, <2>1, ReplicaFields, ServableFetch DEF DivergingFetch
        <3> QED
            BY <2>2, <3>1, EndOffsetForEpochInLog, NilAssumption
    <2> QED
        BY <1>3, <2>1, <2>2, <2>3 DEF ServesFetch
<1>8. ASSUME NEW m \in net, ServeFetch(m) PROVE LogsGoOn(led)
    <2>1. PICK l \in Voters, r \in Replica, w \in Voters, o \in Nat :
                /\ l = m.to /\ r = replica[l] /\ r.role.name = "Leader"
                /\ w = m.from /\ o = m.fetchOffset
        BY <1>8, ServableFetch DEF ServeFetch
    <2> DEFINE q == handle_fetch(l, r, w, o)
    <2>2. PICK gone, a :
              /\ EndTurn(l, gone, Step(q, {a})) /\ ServesFetch(q, m, a)
              /\ Carries(r.log, m.fetchOffset, a)
        BY <1>8, <2>1, ServeTurn
    <2>3. q.epoch = r.epoch /\ q.log = r.log /\ q.role.name = "Leader"
        <3>1. Records(l, r, w, o, q)
            BY <2>1, HandleFetchLog
        <3> QED
            BY <3>1 DEF Records
    <2> HIDE DEF q
    <2>4. replica' = [replica EXCEPT ![l] = q]
        BY <2>2 DEF EndTurn, Step
    <2>5. q \in Replica
        BY <2>4 DEF TypeOK
    <2>6. FitsAnswer(GrownBy(led, q), replica'[a.to], a)
        BY <1>1, <1>8, <2>1, <2>2, <2>3, <2>4, <2>5, ServedFits
    <2> QED
        BY <1>3, <2>1, <2>2, <2>3, <2>6 DEF ServesFetch
<1>9. ASSUME NEW m \in net, ApplyFetchAnswer(m) PROVE LogsGoOn(led)
    <2>1. PICK l \in Voters, r \in Replica : l = m.to /\ r = replica[l]
        BY MessageFields DEF TypeOK
    <2>2. PICK gone, q :
            /\ EndTurn(l, gone, Step(q, send_fetch(l, m.from, q)))
            /\ m.epoch = r.epoch /\ IsServed(m)
            /\ q.epoch = r.epoch /\ q.role.name = "Follower"
            /\ \/ \E cut \in 0 .. Len(r.log) : q.log = Prefix(r.log, cut)
               \/ m.diverging = Nil /\ q.log = append_fetched(r.log, m.base, m.records)
        BY <1>9, <2>1, ApplyTurn
    <2> DEFINE s == Step(q, send_fetch(l, m.from, q))
    <2>3. s.replica = q /\ s.send = send_fetch(l, m.from, q) /\ EndTurn(l, gone, s)
        BY <2>2 DEF Step
    <2> HIDE DEF s
    <2>4. q \in Replica
        BY <2>3 DEF EndTurn, TypeOK
    <2>5. m.base \in Nat /\ m.records \in Seq(Nat)
        BY <2>2, MessageFields DEF TypeOK, IsServed
    <2>6. m.diverging = Nil => FitsAnswer(led, r, m)
        BY <1>1, <2>1, <2>2 DEF LogPast, AnswersFit
    <2>7. LedInOrder(led) /\ Sourced(led, r.log) /\ Ordered(r.log, r.epoch)
        BY <1>1, <2>1 DEF LogPast, LogsSourced
    <2>8. LogTurn(led, led, r, q)
        BY <2>2, <2>4, <2>5, <2>6, <2>7, ApplyLogTurn
    <2>9. \A x \in s.send : x.type = "Fetch" /\ FetchSaid(l, q, x)
        BY <2>3 DEF send_fetch, FetchSaid, end_offset
    <2> QED
        BY <1>2, <2>1, <2>3, <2>8, <2>9 DEF IsServed
<1> QED
    BY <1>4, <1>5, <1>6, <1>7, <1>8, <1>9, StepKinds

\* Nobody led before the first election.
LEMMA InitLog ==
    ASSUME Init
    PROVE  LogInv
<1> DEFINE led == [e \in Nat |-> <<>>]
<1>1. led \in Histories /\ \A e \in Nat : led[e] = <<>>
    BY DEF Histories
<1>2. DOMAIN led = Nat
    OBVIOUS
<1> HIDE DEF led
<1>3. \A v \in Voters : replica[v].log = <<>> /\ replica[v].role.name # "Leader"
    BY DEF Init, BootstrapReplica, Unattached
<1>4. \A e \in Nat : Sourced(led, <<>>) /\ Ordered(<<>>, e)
    BY DEF Sourced, Ordered
<1>5. \A v \in Voters : Ordered(replica[v].log, replica[v].epoch)
    BY DEF Init, BootstrapReplica, Ordered
<1>6. LogPast(led)
    BY <1>1, <1>2, <1>3, <1>4, <1>5 DEF Init, LogPast, LedWasElected, LedInOrder, LogsSourced,
        LeadersHold, ElectionsOver, FetchesFit, AnswersFit, IsLeader
<1> QED
    BY <1>1, <1>6 DEF LogInv

\* Two logs with leaders, and the same batch at an offset, had the same leader
\* there.
LEMMA LogsMatchByPast ==
    ASSUME TypeOK, LogInv
    PROVE  LogMatching
<1>1. PICK led \in Histories : LogPast(led)
    BY DEF LogInv
<1>2. ASSUME NEW v \in Voters, NEW w \in Voters, NEW k \in 1 .. Len(replica[v].log),
             k <= Len(replica[w].log), replica[v].log[k] = replica[w].log[k]
      PROVE  SameBelow(replica[v].log, replica[w].log, k)
    <2>1. replica[v].log \in Seq(Nat) /\ replica[w].log \in Seq(Nat)
        BY ReplicaFields DEF TypeOK
    <2>2. k \in Nat /\ k \in 1 .. Len(replica[w].log)
        BY <1>2, <2>1
    <2>3. Sourced(led, replica[v].log) /\ Sourced(led, replica[w].log)
        BY <1>1 DEF LogPast, LogsSourced
    <2>4. /\ SameBelow(replica[v].log, led[replica[v].log[k]], k)
          /\ SameBelow(replica[w].log, led[replica[v].log[k]], k)
        BY <1>2, <2>2, <2>3 DEF Sourced
    <2> QED
        BY <2>2, <2>4, SameSym, SameTrans
<1> QED
    BY <1>2 DEF LogMatching

\* Some history of the logs, in which every batch of every log and all below
\* it came from the leader of the batch's epoch, explains every state: the
\* inductive invariant behind LogMatching.
THEOREM LogInvariant == Spec => []LogInv
<1>1. Init => LogInv
    BY InitLog
<1>2. /\ TypeOK /\ TypeOK' /\ VoteInv /\ VoteInv' /\ ElectionSafety' /\ KnownInv /\ LogInv
      /\ [Next]_vars
      => LogInv'
    BY NextLog DEF LogInv, LogsGoOn
<1> QED
    BY <1>1, <1>2, TypeCorrect, VotesInvariant, ElectionSafe, KnownInvariant, PTL DEF Spec

\* The batch at an offset and its epoch determine the whole log below it, for
\* every quorum, whatever the network loses, delays, repeats and reorders.
THEOREM LogMatches == Spec => []LogMatching
<1>1. TypeOK /\ LogInv => LogMatching
    BY LogsMatchByPast
<1> QED
    BY <1>1, TypeCorrect, LogInvariant, PTL

=============================================================================
