---------------------------- MODULE KraftQuorum ----------------------------
(***************************************************************************)
(* A KRaft controller quorum: the engine of every voter (its event loop,   *)
(* timers and request handlers around KraftCore) and the network between   *)
(* them.  An action is one turn of one engine: it takes one event, runs    *)
(* the core, persists, and hands the messages to the network.              *)
(*                                                                         *)
(* A message may be received late, out of order or never: each RPC is a    *)
(* task of its own, and a peer may be dialed twice, so two answers of one  *)
(* peer can overtake each other.  Two constants state what else the        *)
(* network may do: redeliver, and let the Fetches of one voter overlap.    *)
(***************************************************************************)
EXTENDS KraftCore

CONSTANTS
    Redelivers,     \* TRUE: a received message may be received again
    FetchesOverlap  \* FALSE: a voter's new Fetch ends its earlier exchange

ASSUME NetworkAssumption == Redelivers \in BOOLEAN /\ FetchesOverlap \in BOOLEAN

VARIABLES
    replica,    \* replica[v]: the state of voter v
    net,        \* the messages in flight
    elected,    \* history: every <<epoch, voter>> that ever led
    ballots     \* history: every <<epoch, voter, candidate>> vote ever cast

vars == <<replica, net, elected, ballots>>

(***************************************************************************)
(* Answers, which the engine encodes from the state after the request.     *)
(***************************************************************************)
Errors == {"NONE", "FENCED_LEADER_EPOCH", "UNKNOWN_LEADER_EPOCH",
           "NOT_LEADER_OR_FOLLOWER", "INVALID_REQUEST"}

VoteAnswer(m, r, error, granted) ==
    [type |-> "VoteAnswer", from |-> m.to, to |-> m.from, epoch |-> r.epoch,
     leader |-> r.leaderId, error |-> error, granted |-> granted]

FetchAnswer(m, r, error, diverging, hwm, records) ==
    [type |-> "FetchAnswer", from |-> m.to, to |-> m.from, epoch |-> r.epoch,
     leader |-> r.leaderId, error |-> error, diverging |-> diverging,
     hwm |-> hwm, base |-> m.fetchOffset, records |-> records]

Message ==
    [type : {"Vote"}, from : Voters, to : Voters, epoch : Nat,
     lastEpoch : Nat, lastOffset : Nat, preVote : BOOLEAN]
        \cup [type : {"VoteAnswer"}, from : Voters, to : Voters, epoch : Nat,
              leader : MaybeVoter, error : Errors, granted : BOOLEAN]
        \cup [type : {"BeginQuorumEpoch"}, from : Voters, to : Voters, epoch : Nat]
        \cup [type : {"EndQuorumEpoch"}, from : Voters, to : Voters, epoch : Nat,
              first : Voters]
        \cup [type : {"Fetch"}, from : Voters, to : Voters, epoch : Nat,
              fetchEpoch : Nat, fetchOffset : Nat]
        \cup [type : {"FetchAnswer"}, from : Voters, to : Voters, epoch : Nat,
              leader : MaybeVoter, error : Errors,
              diverging : OffsetAndEpoch \cup {Nil}, hwm : Nat \cup {-1},
              base : Nat, records : Seq(Nat)]

Init ==
    /\ replica = [v \in Voters |-> BootstrapReplica]
    /\ net = {}
    /\ elected = {}
    /\ ballots = {}

(***************************************************************************)
(* Voter v ends its turn with this step, and the network forgets the       *)
(* messages gone.  The code does not bound the Fetches of a voter to one:  *)
(* FetchesOverlap = FALSE is the assumption its own model makes.           *)
(***************************************************************************)
IsFetchExchange(v, m) ==
    (m.type = "Fetch" /\ m.from = v) \/ (m.type = "FetchAnswer" /\ m.to = v)

Superseded(v, send) ==
    IF FetchesOverlap \/ ~\E m \in send : m.type = "Fetch"
    THEN {}
    ELSE {m \in net : IsFetchExchange(v, m)}

EndTurn(v, gone, step) ==
    /\ replica' = [replica EXCEPT ![v] = step.replica]
    /\ net' = (net \ (gone \cup Superseded(v, step.send))) \cup step.send
    /\ elected' = IF step.replica.role.name = "Leader"
                  THEN elected \cup {<<step.replica.epoch, v>>}
                  ELSE elected
    /\ ballots' = IF step.replica.votedKey # Nil
                  THEN ballots \cup {<<step.replica.epoch, v, step.replica.votedKey>>}
                  ELSE ballots

\* A turn that a timer or a local command starts.
Act(v, step) == EndTurn(v, {}, step)

\* A turn that a message starts; the network may keep a copy.
Take(m, step) ==
    \E gone \in (IF Redelivers THEN {{}, {m}} ELSE {{m}}) : EndTurn(m.to, gone, step)

(***************************************************************************)
(* Timers.  reconcile_timers arms the election timer in every role that    *)
(* waits for an election, the fetch timer in a follower and the            *)
(* check-quorum timer in a leader that has other voters.                   *)
(***************************************************************************)
ElectionTimeout(v) ==
    /\ replica[v].role.name \in
            {"Unattached", "Voted", "Prospective", "Candidate", "Resigned"}
    /\ Act(v, handle_election_timeout(v, replica[v]))

FetchTimeout(v) ==
    /\ replica[v].role.name = "Follower"
    /\ Act(v, start_election(v, replica[v]))

\* The check-quorum timer, or a graceful shutdown, ends a leadership.
Resign(v) ==
    /\ replica[v].role.name = "Leader"
    /\ other_voters(v) # {}
    /\ \E first \in preferred_successors(v, replica[v]) :
            Act(v, transition_to_resigned(v, replica[v], first))

\* A leader announces its epoch again and again.
Heartbeat(v) ==
    LET r == replica[v]
    IN  /\ r.role.name = "Leader"
        /\ Act(v, Step(r, {BeginQuorumEpoch(v, w, r) : w \in other_voters(v)}))

(***************************************************************************)
(* Requests.                                                               *)
(***************************************************************************)

\* A candidate's last epoch is below the epoch it stands for; a pre-vote
\* stands for no new epoch.
IllegalVoteEpoch(m) ==
    IF m.preVote THEN m.lastEpoch > m.epoch ELSE m.lastEpoch >= m.epoch

\* The error the engine refuses a Vote with before the core sees it.
vote_request_error(r, m) ==
    IF IllegalVoteEpoch(m) THEN "INVALID_REQUEST"
    ELSE IF m.epoch < r.epoch THEN "FENCED_LEADER_EPOCH" ELSE "NONE"

RefuseVote(m) ==
    LET r == replica[m.to]
        error == vote_request_error(r, m)
    IN  /\ m.type = "Vote"
        /\ error # "NONE"
        /\ Take(m, Step(r, {VoteAnswer(m, r, error, FALSE)}))

AnswerVote(m) ==
    LET r == replica[m.to]
        v == handle_vote_request(r, m)
    IN  /\ m.type = "Vote"
        /\ vote_request_error(r, m) = "NONE"
        /\ Take(m, Step(v.replica, {VoteAnswer(m, v.replica, "NONE", v.granted)}))

HandleBeginQuorumEpoch(m) ==
    /\ m.type = "BeginQuorumEpoch"
    /\ m.epoch >= replica[m.to].epoch
    /\ Take(m, handle_begin_quorum_epoch(m.to, replica[m.to], m.from, m.epoch))

HandleEndQuorumEpoch(m) ==
    /\ m.type = "EndQuorumEpoch"
    /\ m.epoch >= replica[m.to].epoch
    /\ Take(m, handle_end_quorum_epoch(m.to, replica[m.to], m.first))

\* Only the leader of the request's epoch serves a Fetch.
fetch_request_error(r, m) ==
    IF m.fetchEpoch > m.epoch THEN "INVALID_REQUEST"
    ELSE IF m.epoch < r.epoch THEN "FENCED_LEADER_EPOCH"
    ELSE IF m.epoch > r.epoch THEN "UNKNOWN_LEADER_EPOCH"
    ELSE IF r.role.name # "Leader" THEN "NOT_LEADER_OR_FOLLOWER" ELSE "NONE"

RefuseFetch(m) ==
    LET r == replica[m.to]
        error == fetch_request_error(r, m)
    IN  /\ m.type = "Fetch"
        /\ error # "NONE"
        /\ Take(m, Step(r, {FetchAnswer(m, r, error, Nil, -1, <<>>)}))

\* Mutant: progress is recorded before the fetch is validated.
DivergingFetch_recorded(m) ==
    LET r == replica[m.to]
        f == handle_fetch(m.to, r, m.from, m.fetchOffset)
        end == end_offset_for_epoch(r.log, m.fetchEpoch)
    IN  /\ m.type = "Fetch"
        /\ fetch_request_error(r, m) = "NONE"
        /\ Diverges(r.log, m.fetchEpoch, m.fetchOffset)
        /\ Take(m, Step(f, {FetchAnswer(m, f, "NONE", end, f.hwm, <<>>)}))

\* A fetch that diverges is answered with the end of its epoch, and moves no
\* replication progress.
DivergingFetch(m) ==
    LET r == replica[m.to]
        end == end_offset_for_epoch(r.log, m.fetchEpoch)
    IN  /\ m.type = "Fetch"
        /\ fetch_request_error(r, m) = "NONE"
        /\ Diverges(r.log, m.fetchEpoch, m.fetchOffset)
        /\ Take(m, Step(r, {FetchAnswer(m, r, "NONE", end, r.hwm, <<>>)}))

(***************************************************************************)
(* A valid fetch is recorded, may advance the high watermark, and is       *)
(* answered with a non-empty run of the batches from its offset (the read  *)
(* is bounded by bytes) or, at the log end, with none.  The source holds   *)
(* an answer that carries nothing new for up to a quarter of the fetch     *)
(* timeout; here the network delays it.                                    *)
(***************************************************************************)
ServeFetch(m) ==
    LET r == replica[m.to]
        f == handle_fetch(m.to, r, m.from, m.fetchOffset)
        missing == end_offset(r.log) - m.fetchOffset
        sizes == IF missing > 0 THEN 1 .. missing ELSE {0}
    IN  /\ m.type = "Fetch"
        /\ fetch_request_error(r, m) = "NONE"
        /\ ~Diverges(r.log, m.fetchEpoch, m.fetchOffset)
        /\ \E n \in sizes :
                Take(m, Step(f, {FetchAnswer(m, f, "NONE", Nil, f.hwm,
                        SubSeq(r.log, m.fetchOffset + 1, m.fetchOffset + n))}))

(***************************************************************************)
(* Answers.                                                                *)
(***************************************************************************)
IsAnswer(m) == m.type \in {"VoteAnswer", "FetchAnswer"}

\* A newer epoch with no leader, from a vote or a fetch answer.
LeaderlessEpoch(m) ==
    /\ IsAnswer(m)
    /\ m.error # "UNKNOWN_LEADER_EPOCH" \/ m.type = "FetchAnswer"
    /\ m.epoch > replica[m.to].epoch
    /\ m.leader = Nil
    /\ Take(m, NoStep(transition_to_unattached(replica[m.to], m.epoch)))

\* A vote answer whose leader the replica follows: one of a newer epoch, or
\* one of its own epoch while it knows none.  It never follows itself here.
FollowNamedByVote(m) ==
    LET r == replica[m.to]
    IN  /\ m.type = "VoteAnswer"
        /\ m.error # "UNKNOWN_LEADER_EPOCH"
        /\ m.leader \notin {Nil, m.to}
        /\ m.epoch > r.epoch \/ (m.epoch = r.epoch /\ known_leader(r) = Nil)
        /\ Take(m, handle_begin_quorum_epoch(m.to, r, m.leader, m.epoch))

CountVote(m) ==
    LET r == replica[m.to]
    IN  /\ m.type = "VoteAnswer"
        /\ m.error = "NONE"
        /\ m.epoch = r.epoch
        /\ m.leader = Nil \/ known_leader(r) # Nil
        /\ Take(m, handle_vote_response(m.to, r, m.from, m.granted))

FollowNamedByFetch(m) ==
    /\ m.type = "FetchAnswer"
    /\ m.epoch > replica[m.to].epoch
    /\ m.leader # Nil
    /\ Take(m, handle_begin_quorum_epoch(m.to, replica[m.to], m.leader, m.epoch))

\* The fence of fetch_response_mutation: an error-free answer, in this epoch,
\* of the leader that both the role and the quorum state follow.
FenceHolds(r, m) ==
    /\ m.epoch = r.epoch
    /\ m.error = "NONE"
    /\ r.role.name = "Follower"
    /\ m.from = r.role.leader
    /\ m.from = r.leaderId
    /\ m.from = m.leader

ApplyFetchAnswer(m) ==
    /\ m.type = "FetchAnswer"
    /\ FenceHolds(replica[m.to], m)
    /\ Take(m, handle_fetch_response(m.to, replica[m.to], m))

\* The refusals after which the follower fetches from its leader again.
refetches_after_refusal(r, m) ==
    /\ r.role.name = "Follower"
    /\ r.role.leader = m.from
    /\ \/ m.epoch < r.epoch
       \/ m.error = "UNKNOWN_LEADER_EPOCH"
       \/ /\ m.epoch = r.epoch
          /\ m.error \in {"FENCED_LEADER_EPOCH", "NOT_LEADER_OR_FOLLOWER"}

RefusedFetchAnswer(m) ==
    LET r == replica[m.to]
    IN  /\ m.type = "FetchAnswer"
        /\ m.epoch <= r.epoch
        /\ ~FenceHolds(r, m)
        /\ refetches_after_refusal(r, m)
        /\ Take(m, Step(r, send_fetch(m.to, m.from, r)))

(***************************************************************************)
(* The leader's own appends, and a crash.                                  *)
(***************************************************************************)

\* A submitted change, or a no-op record, becomes a batch at the log end.
Submit(v) ==
    LET r == replica[v]
    IN  /\ r.role.name = "Leader"
        /\ Act(v, NoStep(advance_if_single_voter(
                              [r EXCEPT !.log = Append(@, r.epoch)])))

\* Mutant: the vote does not survive.
Restart_unvoted(v) ==
    \E hwm \in 0 .. replica[v].hwm :
        EndTurn(v, {m \in net : IsAnswer(m) /\ m.to = v},
                NoStep([replica[v] EXCEPT !.leaderId = Nil,
                                          !.votedKey = Nil,
                                          !.role = Unattached,
                                          !.hwm = hwm]))

\* The process stops and starts again.  The epoch, the vote and the log
\* survive; the leader and the role do not, and the answers to its requests
\* die with its connections.  The high watermark comes from a cache file
\* that may be missing or behind.
Restart(v) ==
    \E hwm \in 0 .. replica[v].hwm :
        EndTurn(v, {m \in net : IsAnswer(m) /\ m.to = v},
                NoStep([replica[v] EXCEPT !.leaderId = Nil,
                                          !.role = Unattached,
                                          !.hwm = hwm]))

Receive(m) ==
    \/ RefuseVote(m)
    \/ AnswerVote(m)
    \/ HandleBeginQuorumEpoch(m)
    \/ HandleEndQuorumEpoch(m)
    \/ RefuseFetch(m)
    \/ DivergingFetch(m)
    \/ ServeFetch(m)
    \/ LeaderlessEpoch(m)
    \/ FollowNamedByVote(m)
    \/ CountVote(m)
    \/ FollowNamedByFetch(m)
    \/ ApplyFetchAnswer(m)
    \/ RefusedFetchAnswer(m)

\* The network drops a message for good.
Lose(m) ==
    /\ net' = net \ {m}
    /\ UNCHANGED <<replica, elected, ballots>>

Next ==
    \/ \E v \in Voters :
        \/ ElectionTimeout(v)
        \/ FetchTimeout(v)
        \/ Resign(v)
        \/ Heartbeat(v)
        \/ Submit(v)
        \/ Restart(v)
    \/ \E m \in net : Receive(m) \/ Lose(m)

Spec == Init /\ [][Next]_vars

(***************************************************************************)
(* Properties.                                                             *)
(***************************************************************************)
TypeOK ==
    /\ replica \in [Voters -> Replica]
    /\ net \subseteq Message
    /\ elected \subseteq Nat \X Voters
    /\ ballots \subseteq Nat \X Voters \X Voters

IsLeader(v) == replica[v].role.name = "Leader"

\* At most one voter ever leads an epoch, whatever restarts, resignations and
\* late grants of an earlier round happen between two elections.
ElectionSafety ==
    \A e1, e2 \in elected : e1[1] = e2[1] => e1[2] = e2[2]

\* Two logs hold the same batches below an offset that neither falls short of.
SameBelow(log1, log2, offset) ==
    \A k \in 1 .. offset : k <= Len(log1) /\ k <= Len(log2) /\ log1[k] = log2[k]

\* The batch at an offset and its epoch determine the whole log below it,
\* whatever truncations and appends of several epochs built the two logs.
LogMatching ==
    \A v, w \in Voters :
        \A k \in 1 .. Len(replica[v].log) :
            /\ k <= Len(replica[w].log)
            /\ replica[v].log[k] = replica[w].log[k]
            => SameBelow(replica[v].log, replica[w].log, k)

\* What one voter has applied as committed, no leader of its epoch or of a
\* later one lacks.
LeaderCompleteness ==
    \A v, w \in Voters :
        IsLeader(w) /\ replica[w].epoch >= replica[v].epoch =>
            SameBelow(replica[v].log, replica[w].log, replica[v].hwm)

\* Two voters never apply different batches at an offset.
CommittedAgree ==
    \A v, w \in Voters :
        SameBelow(replica[v].log, replica[w].log,
                  truncation_frontier(replica[v].hwm, replica[w].hwm))

\* The offset a leader counts for a voter is one the voter holds, batch for
\* batch, until it leaves that leader's epoch.
AcknowledgedIsHeld ==
    \A l \in Voters : IsLeader(l) =>
        \A v \in Voters \ {l} :
            \/ replica[v].epoch > replica[l].epoch
            \/ SameBelow(replica[v].log, replica[l].log, replica[l].role.replicas[v])

\* A leader that a voter knows, or gave up on, was elected in its epoch.
KnownLeaderWasElected ==
    \A v \in Voters :
        known_leader(replica[v]) # Nil =>
            <<replica[v].epoch, known_leader(replica[v])>> \in elected

\* A voter never gives its vote of an epoch to a second candidate, and never
\* returns to an epoch it left, across restarts too.
VoteIsFinal ==
    [][\A v \in Voters :
        \/ replica'[v].epoch > replica[v].epoch
        \/ /\ replica'[v].epoch = replica[v].epoch
           /\ \/ replica[v].votedKey = Nil
              \/ replica'[v].votedKey = replica[v].votedKey]_vars

\* No step removes or changes a batch below a high watermark: a truncation
\* never reaches what the voter applied.
CommittedIsNeverCut ==
    [][\A v \in Voters :
        SameBelow(replica[v].log, replica'[v].log, replica[v].hwm)]_vars

(***************************************************************************)
(* The inductive invariant behind ElectionSafety.  A replica's own state   *)
(* forgets its vote when it leaves an epoch, so the argument is made on    *)
(* the ballots: who was granted a vote, by whom, in which epoch.           *)
(***************************************************************************)

\* This replica can no longer stand as the candidate of an epoch.
NotCandidate(r, e) == r.epoch > e \/ (r.epoch = e /\ r.role.name # "Candidate")

\* A ballot still binds the voter that cast it, until it leaves the epoch.
BallotsBind ==
    \A b \in ballots :
        \/ replica[b[2]].epoch > b[1]
        \/ replica[b[2]].epoch = b[1] /\ replica[b[2]].votedKey = b[3]

VotesAreBallots ==
    \A v \in Voters : replica[v].votedKey # Nil =>
        <<replica[v].epoch, v, replica[v].votedKey>> \in ballots

OneBallot ==
    \A a, b \in ballots : a[1] = b[1] /\ a[2] = b[2] => a[3] = b[3]

\* A candidate counts ballots only.
CandidatesCountBallots ==
    \A v \in Voters : replica[v].role.name = "Candidate" =>
        \A w \in replica[v].role.granted : <<replica[v].epoch, w, v>> \in ballots

IsPreVote(m) == m.type = "Vote" /\ m.preVote
IsGrant(m) == m.type = "VoteAnswer" /\ m.granted

\* A pre-vote in flight at an epoch is of a replica that stands in no vote
\* of that epoch any more: its answers are never taken for votes.
PreVotersAreNotCandidates ==
    \A m \in net : IsPreVote(m) =>
        NotCandidate(replica[m.from], m.epoch)

GrantsAreBallots ==
    \A m \in net : IsGrant(m) =>
        \/ <<m.epoch, m.from, m.to>> \in ballots
        \/ NotCandidate(replica[m.to], m.epoch)

ElectedByQuorum ==
    \A e \in elected : HasQuorum({w \in Voters : <<e[1], w, e[2]>> \in ballots})

LeadersWereElected ==
    \A v \in Voters : IsLeader(v) => <<replica[v].epoch, v>> \in elected

\* Every grant a candidate counts, or has yet to receive, is the one ballot
\* its voter cast in that epoch, and every leader won a majority of ballots.
VoteInv ==
    /\ BallotsBind
    /\ VotesAreBallots
    /\ OneBallot
    /\ CandidatesCountBallots
    /\ PreVotersAreNotCandidates
    /\ GrantsAreBallots
    /\ ElectedByQuorum
    /\ LeadersWereElected

=============================================================================
