----------------------------- MODULE KraftPast -----------------------------
(***************************************************************************)
(* What the past of a quorum says about its present: the invariants behind *)
(* the properties of the logs.  A replica forgets what it was told, sent   *)
(* and held, so they are stated about a history of the behaviour:          *)
(*                                                                         *)
(*   led[e]   the log of the leader of epoch e when it last led, <<>> when *)
(*            nobody has led e yet                                         *)
(*   acked    the <<epoch, voter, offset>> that a leader of the epoch ever *)
(*            counted for the voter, itself included                       *)
(*   seen     an <<epoch, voter, candidate, log>> for every vote cast      *)
(*            before the epoch was led: the voter's log when it voted      *)
(*                                                                         *)
(* The history is a parameter: an invariant says that some history of this *)
(* kind explains the state, and a step extends the history it has.         *)
(***************************************************************************)
EXTENDS KraftQuorum

Histories == [Nat -> Seq(Nat)]

\* log1 is the beginning of log2.
Begins(log1, log2) == SameBelow(log1, log2, Len(log1))

\* The epochs of a log never decrease, and none is above e.
Ordered(log, e) ==
    \A k \in 1 .. Len(log) : log[k] <= e /\ \A j \in 1 .. k : log[j] <= log[k]

\* Every batch of this log, and all below it, came from the leader of the
\* batch's epoch.
Sourced(led, log) ==
    \A k \in 1 .. Len(log) : SameBelow(log, led[log[k]], k)

IsServed(m) == m.type = "FetchAnswer" /\ m.error = "NONE"

(***************************************************************************)
(* Logs.                                                                   *)
(***************************************************************************)

\* An epoch was led exactly when somebody was elected in it.
LedWasElected(led) ==
    /\ \A e \in DOMAIN led : led[e] # <<>> => \E v \in Voters : <<e, v>> \in elected
    /\ \A x \in elected : led[x[1]] # <<>>

\* A leader's log ends in its epoch, and what it took over had its leaders.
LedInOrder(led) ==
    \A e \in DOMAIN led :
        /\ Sourced(led, led[e]) /\ Ordered(led[e], e)
        /\ led[e] # <<>> => led[e][Len(led[e])] = e

LogsSourced(led) ==
    \A v \in Voters :
        Sourced(led, replica[v].log) /\ Ordered(replica[v].log, replica[v].epoch)

LeadersHold(led) ==
    \A v \in Voters : IsLeader(v) => replica[v].log = led[replica[v].epoch]

\* Who was elected stands in that epoch no more.
ElectionsOver ==
    \A x \in elected : NotCandidate(replica[x[2]], x[1])

\* A Fetch in flight gives the end of its sender's log, which until the
\* sender leaves the epoch only got shorter, or is a beginning of its
\* leader's log by now.
FitsFetch(led, r, m) ==
    /\ r.epoch >= m.epoch
    /\ r.epoch = m.epoch =>
            \/ Begins(r.log, led[m.epoch])
            \/ Len(r.log) <= m.fetchOffset /\ Begins(r.log, led[m.fetchEpoch])

FetchesFit(led) ==
    \A m \in net : m.type = "Fetch" => FitsFetch(led, replica[m.from], m)

\* An answer with batches carries a part of the leader's log, and its
\* receiver, until it leaves the epoch, has a beginning of that log.
FitsAnswer(led, r, m) ==
    /\ r.epoch >= m.epoch
    /\ r.epoch = m.epoch => Begins(r.log, led[m.epoch])
    /\ \A k \in 1 .. Len(m.records) :
            m.base + k <= Len(led[m.epoch]) /\ m.records[k] = led[m.epoch][m.base + k]

AnswersFit(led) ==
    \A m \in net : IsServed(m) /\ m.diverging = Nil => FitsAnswer(led, replica[m.to], m)

LogPast(led) ==
    /\ LedWasElected(led) /\ LedInOrder(led)
    /\ LogsSourced(led) /\ LeadersHold(led) /\ ElectionsOver
    /\ FetchesFit(led) /\ AnswersFit(led)

\* Some history of the logs explains the state.
LogInv == \E led \in Histories : LogPast(led)

(***************************************************************************)
(* Exchanges.  These hold when the Fetches of a voter do not overlap.      *)
(***************************************************************************)

\* This replica neither stands nor leads in an epoch, and will not.
Bystander(r, e) ==
    r.epoch > e \/ (r.epoch = e /\ r.role.name \notin {"Candidate", "Leader"})

\* A Fetch in flight gives the end of its sender's log as it is, until the
\* sender leaves the epoch.
FetchIsCurrent(led, r, m) ==
    /\ m.from # m.to /\ Bystander(r, m.epoch) /\ m.fetchEpoch <= m.epoch
    /\ m.fetchOffset > 0 => m.fetchOffset <= Len(led[m.fetchEpoch])
    /\ r.epoch = m.epoch =>
            m.fetchOffset = Len(r.log) /\ m.fetchEpoch = last_epoch(r.log)

\* A truncation hint in flight cuts nothing that the receiver shares with the
\* leader's log.
AnswerIsCurrent(led, r, m) ==
    /\ m.from # m.to /\ Bystander(r, m.epoch) /\ led[m.epoch] # <<>>
    /\ m.diverging # Nil /\ r.epoch = m.epoch =>
            \A k \in 1 .. Len(r.log) :
                SameBelow(r.log, led[m.epoch], k) =>
                    k <= follower_truncation_offset(m.diverging, r.log)

ExchangesPast(led) ==
    /\ \A m \in net : m.type = "Fetch" => FetchIsCurrent(led, replica[m.from], m)
    /\ \A m \in net : IsServed(m) => AnswerIsCurrent(led, replica[m.to], m)

(***************************************************************************)
(* Votes.                                                                  *)
(***************************************************************************)

\* A vote request gives the end of its candidate's log.
AsksForLog(r, m) ==
    /\ r.epoch >= m.epoch
    /\ r.epoch = m.epoch /\ r.role.name = "Candidate" =>
            m.lastEpoch = last_epoch(r.log) /\ m.lastOffset = Len(r.log)

\* The leader of an epoch won it with a log up to date with this one.
WonOver(led, e, log) ==
    \E k \in 0 .. Len(led[e]) :
        /\ last_epoch(Prefix(led[e], k)) < e
        /\ log_is_up_to_date(log, last_epoch(Prefix(led[e], k)), k)

\* The candidate c had a log up to date with the voter's.
SeenUpToDate(c, x) ==
    /\ c.epoch >= x[1]
    /\ c.epoch = x[1] /\ c.role.name = "Candidate" =>
            log_is_up_to_date(x[4], last_epoch(c.log), Len(c.log))

\* What was seen is a log with its leaders, of a voter r still in that epoch
\* or past it.
SeenSourced(led, r, x) == r.epoch >= x[1] /\ Sourced(led, x[4]) /\ Ordered(x[4], x[1])

VotesPast(led, seen) ==
    /\ \A m \in net : m.type = "Vote" /\ ~m.preVote => AsksForLog(replica[m.from], m)
    /\ \A x \in seen : SeenSourced(led, replica[x[2]], x) /\ SeenUpToDate(replica[x[3]], x)
    /\ \A x \in seen : <<x[1], x[3]>> \in elected => WonOver(led, x[1], x[4])
    /\ \A v \in Voters : replica[v].role.name = "Candidate" =>
            last_epoch(replica[v].log) < replica[v].epoch
    /\ \A b \in ballots : led[b[1]] = <<>> =>
            \E x \in seen : x[1] = b[1] /\ x[2] = b[2] /\ x[3] = b[3]
    /\ \A x \in elected :
            HasQuorum({v \in Voters : \E y \in seen : y[1] = x[1] /\ y[2] = v /\ y[3] = x[2]})

(***************************************************************************)
(* Acknowledgements.                                                       *)
(***************************************************************************)

\* This log holds the first k batches of the leader's log S of epoch e, unless
\* a leader between e and this epoch came without them.
Kept(led, S, e, k, log, until) ==
    \/ SameBelow(S, log, k)
    \/ \E x \in DOMAIN led :
            e < x /\ x < until /\ led[x] # <<>> /\ ~SameBelow(S, led[x], k)

\* Voter v, now r, that had the first k batches of S in epoch e, held them
\* whenever it voted afterwards, and does now.
Holds(led, seen, v, r, S, e, k) ==
    /\ r.epoch >= e
    /\ Kept(led, S, e, k, r.log, r.epoch + 1)
    /\ \A x \in seen : x[2] = v /\ x[1] > e => Kept(led, S, e, k, x[4], x[1])

\* What a leader counted is held, and so is what a Fetch in flight gives.
AckHeld(led, seen, r, a) ==
    /\ a[3] <= Len(led[a[1]])
    /\ \A k \in 1 .. a[3] : Holds(led, seen, a[2], r, led[a[1]], a[1], k)

FetchHeld(led, seen, r, m) ==
    \A k \in 1 .. m.fetchOffset :
        Holds(led, seen, m.from, r, led[m.fetchEpoch], m.epoch, k)

\* A leader counts only what was acknowledged to it, and commits no batch of
\* an earlier epoch by counting.
LeaderCounts(acked, v, r) ==
    /\ <<r.epoch, v, Len(r.log)>> \in acked
    /\ \A w \in Voters \ {v} : <<r.epoch, w, r.role.replicas[w]>> \in acked
    /\ \A k \in 1 .. Len(r.log) : k > r.role.epochStart => r.log[k] = r.epoch

AcksPast(led, acked, seen) ==
    /\ \A a \in acked : AckHeld(led, seen, replica[a[2]], a)
    /\ \A m \in net : m.type = "Fetch" => FetchHeld(led, seen, replica[m.from], m)
    /\ \A v \in Voters : IsLeader(v) => LeaderCounts(acked, v, replica[v])

(***************************************************************************)
(* Commitment.                                                             *)
(***************************************************************************)

\* A majority acknowledged to the leader of epoch e its batch at o, one of
\* its own.
CommitAt(led, acked, e, o) ==
    /\ o <= Len(led[e]) /\ led[e][o] = e
    /\ HasQuorum({v \in Voters : \E a \in acked : a[1] = e /\ a[2] = v /\ a[3] >= o})

\* The first o batches of this log were committed in an epoch up to e.
Committed(led, acked, o, log, e) ==
    \/ o = 0
    \/ \E x \in DOMAIN led :
            /\ x <= e
            /\ \E p \in 1 .. Len(led[x]) : p >= o /\ CommitAt(led, acked, x, p)
            /\ SameBelow(log, led[x], o)

\* Every high watermark, a replica's or one in flight, is of committed batches.
HasCommitted(led, acked, r) ==
    r.hwm <= Len(r.log) /\ Committed(led, acked, r.hwm, r.log, r.epoch)

TellsCommitted(led, acked, m) ==
    m.hwm \in Nat /\ Committed(led, acked, m.hwm, led[m.epoch], m.epoch)

WatermarksPast(led, acked) ==
    /\ \A v \in Voters : HasCommitted(led, acked, replica[v])
    /\ \A m \in net : IsServed(m) /\ m.diverging = Nil => TellsCommitted(led, acked, m)

\* What was committed in an epoch, every later leader has.
Complete(led, acked) ==
    \A e, f \in DOMAIN led : e < f /\ led[f] # <<>> =>
        \A o \in 1 .. Len(led[e]) : CommitAt(led, acked, e, o) => SameBelow(led[e], led[f], o)

CommitPast(led, acked, seen) ==
    /\ LogPast(led) /\ ExchangesPast(led) /\ VotesPast(led, seen)
    /\ AcksPast(led, acked, seen) /\ WatermarksPast(led, acked)

\* Some history of logs, acknowledgements and votes explains the state.
CommitInv ==
    \E led \in Histories, acked \in SUBSET (Nat \X Voters \X Nat),
       seen \in SUBSET (Nat \X Voters \X Voters \X Seq(Nat)) : CommitPast(led, acked, seen)

=============================================================================
