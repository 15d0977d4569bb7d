------------------------- MODULE KraftCommitProofs -------------------------
(***************************************************************************)
(* The controllers implement one log.  What KraftCommit adds to a turn of  *)
(* the quorum changes no replica, so its behaviours are behaviours of      *)
(* KraftQuorum, and all that is proved of them holds here too.             *)
(***************************************************************************)
EXTENDS KraftCompleteProofs, KraftCommit

(***************************************************************************)
(* Turns of the quorum.                                                    *)
(***************************************************************************)

\* An image was read from a voter.
PlanVoters == \A p \in plans : p.voter \in Voters

\* A submit that a leader admits, with the waiters it parks.
Admits(v) == Submit(v) /\ Settle([waiters EXCEPT ![v] = @ \cup {Len(replica[v].log) + 1}])

\* Every step is a turn of the quorum that settles its waiters, parks one more
\* and settles, or restarts an engine; or it is no turn at all.
LEMMA CommitKinds ==
    ASSUME PlanVoters, [CommitNext]_allVars
    PROVE  /\ [Next]_vars /\ PlanVoters'
           /\ \/ Settle(waiters)
              \/ \E v \in Voters : Admits(v) \/ RestartEngine(v)
              \/ UNCHANGED <<vars, waiters, answers, chosen>>
<1>1. ASSUME NEW v \in Voters, Submit(v) \/ Restart(v) PROVE [Next]_vars
    BY <1>1 DEF Next
<1>2. CASE Turn(QuorumTurn)
    BY <1>2 DEF Turn, QuorumTurn, Next, PlanVoters
<1>3. ASSUME NEW v \in Voters, NEW name, NEW plan, AdmitAndPark(v, name, plan)
      PROVE  [Next]_vars /\ Admits(v)
    BY <1>1, <1>3 DEF AdmitAndPark, Admits
<1>4. ASSUME NEW v \in Voters, AppendNoOp(v)
      PROVE  [Next]_vars /\ PlanVoters' /\ Settle(waiters)
    BY <1>1, <1>4 DEF AppendNoOp, PlanVoters
<1>5. ASSUME NEW v \in Voters, ReadImage(v)
      PROVE  [Next]_vars /\ PlanVoters' /\ UNCHANGED <<vars, waiters, answers, chosen>>
    BY <1>5 DEF ReadImage, PlanVoters
<1>6. ASSUME NEW v \in Voters, RestartEngine(v) PROVE [Next]_vars /\ PlanVoters'
    BY <1>1, <1>6 DEF RestartEngine, PlanVoters
<1>7. ASSUME NEW v \in Voters, NEW name \in Names, SubmitChange(v, name)
      PROVE  [Next]_vars /\ PlanVoters' /\ Admits(v)
    BY <1>3, <1>7 DEF SubmitChange, PlanVoters
<1>8. ASSUME NEW p \in plans, NEW name \in Names, SubmitIfImage(p, name)
      PROVE  [Next]_vars /\ PlanVoters' /\ \E v \in Voters : Admits(v)
    <2>1. AdmitAndPark(p.voter, name, p.image.names) /\ plans' = plans \ {p}
        BY <1>8 DEF SubmitIfImage
    <2>2. PICK v \in Voters : v = p.voter
        BY DEF PlanVoters
    <2>3. PICK plan : AdmitAndPark(v, name, plan)
        BY <2>1, <2>2
    <2> QED
        BY <1>3, <2>1, <2>3 DEF PlanVoters
<1>9. CASE UNCHANGED allVars
    BY <1>9 DEF allVars, commitVars, PlanVoters
<1> QED
    BY <1>2, <1>4, <1>5, <1>6, <1>7, <1>8, <1>9 DEF CommitNext

\* What the turn of a voter leaves alone.
LEMMA OthersStay ==
    ASSUME TypeOK, NEW v \in Voters, NEW gone, NEW step, EndTurn(v, gone, step)
    PROVE  /\ replica'[v] = step.replica
           /\ \A w \in Voters \ {v} : replica'[w] = replica[w]
BY DEF TypeOK, EndTurn

\* Who leads before and after a turn leads the same epoch from the same start,
\* and its watermark does not fall.
StaysLeader(r, q) ==
    /\ r.role.name = "Leader" /\ q.epoch = r.epoch /\ q.role.epochStart = r.role.epochStart
    /\ r.hwm <= Len(r.log) => q.hwm >= r.hwm

\* Who starts to lead appends one batch, in an epoch it had not led.
StartsToLead(r, q) ==
    /\ q.log = Append(r.log, q.epoch) /\ q.role.epochStart = Len(r.log)
    /\ q.epoch > r.epoch \/ (q.epoch = r.epoch /\ r.role.name = "Candidate")

\* What a turn from r to q makes of a leader's log and of any watermark.
GoesTo(r, q) ==
    /\ r.role.name = "Leader" => q.log = r.log \/ q.log = Append(r.log, q.epoch)
    /\ r.hwm <= Len(r.log) => q.hwm <= Len(q.log)
    /\ q.role.name = "Leader" => StaysLeader(r, q) \/ StartsToLead(r, q)

\* A step is the turn of one voter, and who leads before it keeps its log.
Turns(v) ==
    /\ \A w \in Voters \ {v} : replica'[w] = replica[w]
    /\ elected \subseteq elected'
    /\ GoesTo(replica[v], replica'[v])
    /\ IsLeader(v) => Begins(replica[v].log, replica'[v].log)

LEMMA SameGoes ==
    ASSUME NEW r \in Replica
    PROVE  GoesTo(r, r)
<1>1. r.hwm \in Nat /\ Len(r.log) \in Nat
    BY ReplicaFields
<1> QED
    BY <1>1 DEF GoesTo, StaysLeader

\* A core turn.
LEMMA CoreGoes ==
    ASSUME NEW v, NEW r \in Replica, NEW q \in Replica, KeepsLog(r, q) \/ Wins(v, r, q)
    PROVE  GoesTo(r, q)
<1>1. /\ r.hwm \in Nat /\ Len(r.log) \in Nat /\ q.hwm \in Nat /\ Len(q.log) \in Nat
      /\ r.log \in Seq(Nat) /\ q.epoch \in Nat
    BY ReplicaFields
<1>2. CASE KeepsLog(r, q)
    BY <1>1, <1>2 DEF KeepsLog, GoesTo, StaysLeader
<1>3. CASE Wins(v, r, q)
    <2>1. /\ q.log = Append(r.log, q.epoch) /\ (q.hwm = r.hwm \/ q.hwm = Len(q.log))
          /\ q.epoch > r.epoch \/ (q.epoch = r.epoch /\ r.role.name = "Candidate")
        BY <1>3 DEF Wins
    <2>2. Len(q.log) = Len(r.log) + 1
        BY <1>1, <2>1, SameAppend
    <2>3. q.role.epochStart = Len(r.log)
        BY <1>3 DEF Wins, Leader
    <2>4. StartsToLead(r, q)
        BY <2>1, <2>3 DEF StartsToLead
    <2>5. r.hwm <= Len(r.log) => q.hwm <= Len(q.log)
        BY <1>1, <2>1, <2>2
    <2> QED
        BY <2>1, <2>4, <2>5 DEF GoesTo
<1> QED
    BY <1>2, <1>3

\* A leader's append.
LEMMA SubmitGoes ==
    ASSUME NEW r \in Replica, NEW q \in Replica, SameButLog(r, q), q.role.name = "Leader",
           q.log = Append(r.log, q.epoch), q.hwm = r.hwm \/ q.hwm = Len(q.log)
    PROVE  GoesTo(r, q)
<1>1. /\ r.hwm \in Nat /\ Len(r.log) \in Nat /\ q.hwm \in Nat /\ Len(q.log) \in Nat
      /\ r.log \in Seq(Nat) /\ q.epoch \in Nat
    BY ReplicaFields
<1>2. Len(q.log) = Len(r.log) + 1
    BY <1>1, SameAppend
<1>3. r.hwm <= Len(r.log) => q.hwm <= Len(q.log) /\ q.hwm >= r.hwm
    BY <1>1, <1>2
<1> QED
    BY <1>3 DEF GoesTo, StaysLeader, SameButLog

\* A leader that records a Fetch.
LEMMA RecordGoes ==
    ASSUME NEW me, NEW r \in Replica, NEW q \in Replica, r.role.name = "Leader", NEW from,
           NEW offset, Records(me, r, from, offset, q)
    PROVE  GoesTo(r, q)
<1>1. r.hwm \in Nat /\ Len(r.log) \in Nat /\ q.hwm \in Nat
    BY ReplicaFields
<1>2. /\ q.log = r.log /\ q.epoch = r.epoch /\ q.role.epochStart = r.role.epochStart
      /\ q.hwm >= r.hwm
      /\ q.hwm = r.hwm \/ q.hwm <= Len(r.log)
    BY DEF Records, MajorityOffsets
<1> QED
    BY <1>1, <1>2 DEF GoesTo, StaysLeader

\* A follower that applies an answer.
LEMMA ApplyGoes ==
    ASSUME NEW r \in Replica, NEW q \in Replica, r.role.name = "Follower",
           q.role.name = "Follower", NEW cut \in 0 .. Len(r.log), NEW h \in Nat \cup {-1},
           NEW base \in Nat, NEW records \in Seq(Nat),
           \/ q.log = Prefix(r.log, cut) /\ q.hwm = truncation_frontier(r.hwm, Len(q.log))
           \/ /\ q.log = append_fetched(r.log, base, records)
              /\ q.hwm = advance_high_watermark(r.hwm, h, Len(q.log))
    PROVE  GoesTo(r, q)
<1>1. /\ r.hwm \in Nat /\ Len(r.log) \in Nat /\ q.hwm \in Nat /\ Len(q.log) \in Nat
      /\ r.log \in Seq(Nat) /\ q.log \in Seq(Nat)
    BY ReplicaFields
<1>2. CASE q.hwm = truncation_frontier(r.hwm, Len(q.log))
    BY <1>1, <1>2 DEF truncation_frontier, GoesTo
<1>3. CASE /\ q.log = append_fetched(r.log, base, records)
           /\ q.hwm = advance_high_watermark(r.hwm, h, Len(q.log))
    <2>1. Len(q.log) >= Len(r.log)
        <3>1. CASE q.log = r.log
            BY <1>1, <3>1
        <3>2. CASE /\ base <= Len(r.log)
                   /\ q.log = r.log \o SubSeq(records, Len(r.log) - base + 1, Len(records))
            <4> DEFINE n == Len(r.log) - base + 1
            <4>1. n \in Nat /\ n >= 1
                BY <1>1, <3>2
            <4> HIDE DEF n
            <4>2. SubSeq(records, n, Len(records)) \in Seq(Nat)
                BY <4>1
            <4>3. PICK tail \in Seq(Nat) : q.log = r.log \o tail
                BY <3>2, <4>2 DEF n
            <4> QED
                BY <1>1, <4>3
        <3> QED
            BY <1>3, <3>1, <3>2 DEF append_fetched
    <2>2. r.hwm <= Len(r.log) => q.hwm <= Len(q.log)
        BY <1>1, <1>3, <2>1 DEF advance_high_watermark
    <2> QED
        BY <2>2 DEF GoesTo
<1> QED
    BY <1>2, <1>3

LEMMA TurnOfOne ==
    ASSUME TypeOK, TypeOK', KnownInv, [Next]_vars
    PROVE  \E v \in Voters : Turns(v)
<1>1. ASSUME NEW v \in Voters, NEW gone, NEW step, EndTurn(v, gone, step), NEW r \in Replica,
             r = replica[v], NEW q, q = step.replica, q \in Replica => GoesTo(r, q)
      PROVE  \E w \in Voters : Turns(w)
    <2>1. replica'[v] = q /\ \A w \in Voters \ {v} : replica'[w] = replica[w]
        BY <1>1, OthersStay
    <2>2. q \in Replica /\ q.log \in Seq(Nat) /\ r.log \in Seq(Nat) /\ q.epoch \in Nat
        BY <2>1, ReplicaFields DEF TypeOK
    <2>3. r.role.name = "Leader" => Begins(r.log, q.log)
        BY <1>1, <2>2, AppendKeeps DEF GoesTo
    <2>4. elected \subseteq elected'
        BY <1>1 DEF EndTurn
    <2> QED
        BY <1>1, <2>1, <2>2, <2>3, <2>4 DEF Turns, IsLeader
<1>2. CASE QuietStep
    <2>1. PICK v \in Voters : TRUE
        BY VotersAssumption
    <2>2. replica[v] \in Replica /\ replica[v].log \in Seq(Nat) /\ replica'[v] = replica[v]
        BY <1>2, ReplicaFields DEF TypeOK, QuietStep
    <2>3. Len(replica[v].log) \in 0 .. Len(replica[v].log)
        BY <2>2
    <2>4. Begins(replica[v].log, replica'[v].log)
        BY <2>2, <2>3, SameSelf DEF Begins
    <2>5. GoesTo(replica[v], replica'[v])
        BY <2>2, SameGoes
    <2> QED
        BY <1>2, <2>4, <2>5 DEF Turns, QuietStep
<1>3. ASSUME NEW v \in Voters, CoreAct(v) PROVE \E w \in Voters : Turns(w)
    <2>1. PICK gone, step, told, asking :
                EndTurn(v, gone, step) /\ CoreTurn(v, replica[v], step, told, asking)
        BY <1>3 DEF CoreAct
    <2>2. PICK r \in Replica, q \in Replica : r = replica[v] /\ q = step.replica
        BY <2>1, OthersStay DEF TypeOK
    <2>3. GoesTo(r, q)
        BY <2>1, <2>2, CoreGoes DEF CoreTurn
    <2> QED
        BY <1>1, <2>1, <2>2, <2>3
<1>4. ASSUME NEW v \in Voters, Submit(v) PROVE \E w \in Voters : Turns(w)
    <2>1. PICK r \in Replica : r = replica[v]
        BY DEF TypeOK
    <2>2. PICK q : /\ EndTurn(v, {}, Step(q, {})) /\ SameButLog(r, q) /\ q.role.name = "Leader"
                   /\ q.log = Append(r.log, q.epoch) /\ (q.hwm = r.hwm \/ q.hwm = Len(q.log))
        BY <1>4, <2>1, SubmitTurn
    <2>3. PICK step : q = step.replica /\ EndTurn(v, {}, step)
        BY <2>2 DEF Step
    <2> QED
        BY <1>1, <2>1, <2>2, <2>3, SubmitGoes
<1>5. ASSUME NEW m \in net, DivergingFetch(m) PROVE \E w \in Voters : Turns(w)
    <2>1. PICK l \in Voters, r \in Replica : l = m.to /\ r = replica[l]
        BY MessageFields DEF TypeOK
    <2>2. PICK gone, a : EndTurn(l, gone, Step(r, {a}))
        BY <1>5, <2>1, DivergingTurn
    <2>3. r = Step(r, {a}).replica
        BY DEF Step
    <2> QED
        BY <1>1, <2>1, <2>2, <2>3, SameGoes
<1>6. ASSUME NEW m \in net, ServeFetch(m) PROVE \E w \in Voters : Turns(w)
    <2>1. PICK l \in Voters, r \in Replica, w \in Voters, o \in Nat :
                l = m.to /\ r = replica[l] /\ r.role.name = "Leader" /\ w = m.from /\ o = m.fetchOffset
        BY <1>6, ServableFetch DEF ServeFetch
    <2>2. PICK q, gone, a : Records(l, r, w, o, q) /\ EndTurn(l, gone, Step(q, {a}))
        BY <1>6, <2>1, ServeTurn, HandleFetchLog
    <2>3. q = Step(q, {a}).replica
        BY DEF Step
    <2> QED
        BY <1>1, <2>1, <2>2, <2>3, RecordGoes
<1>7. ASSUME NEW m \in net, ApplyFetchAnswer(m) PROVE \E w \in Voters : Turns(w)
    <2>1. PICK l \in Voters, r \in Replica : l = m.to /\ r = replica[l]
        BY MessageFields DEF TypeOK
    <2> DEFINE to == follower_truncation_offset(m.diverging, r.log)
               Cuts(q) == /\ to \in 0 .. Len(r.log) /\ q.log = Prefix(r.log, to)
                          /\ q.hwm = truncation_frontier(r.hwm, Len(q.log))
               Adds(q) == /\ q.log = append_fetched(r.log, m.base, m.records)
                          /\ q.hwm = advance_high_watermark(r.hwm, m.hwm, Len(q.log))
    <2>2. PICK gone, q : /\ EndTurn(l, gone, Step(q, send_fetch(l, m.from, q)))
                         /\ r.role.name = "Follower" /\ q.role.name = "Follower" /\ IsServed(m)
                         /\ Cuts(q) \/ Adds(q)
        BY <1>7, <2>1, ApplyTurn
    <2> HIDE DEF to
    <2>3. PICK step : q = step.replica /\ EndTurn(l, gone, step)
        BY <2>2 DEF Step
    <2>4. PICK base \in Nat, records \in Seq(Nat), h \in Nat \cup {-1} :
                base = m.base /\ records = m.records /\ h = m.hwm
        BY <2>2, MessageFields DEF TypeOK, IsServed
    <2>5. ASSUME q \in Replica PROVE GoesTo(r, q)
        <3>1. 0 \in 0 .. Len(r.log)
            BY ReplicaFields
        <3>2. CASE Cuts(q)
            BY <2>2, <2>4, <2>5, <3>2, ApplyGoes
        <3>3. CASE Adds(q)
            BY <2>2, <2>4, <2>5, <3>1, <3>3, ApplyGoes
        <3> QED
            BY <2>2, <3>2, <3>3
    <2> QED
        BY <1>1, <2>1, <2>3, <2>5
<1> QED
    BY <1>2, <1>3, <1>4, <1>5, <1>6, <1>7, StepKinds

(***************************************************************************)
(* Waiters.                                                                *)
(***************************************************************************)

\* What a waiter waits for is a batch of the leader that parked it, and is in
\* its log at the end of the turn.
Parked(v, o) ==
    /\ IsLeader(v)
    /\ o \in 1 .. Len(replica'[v].log) /\ replica'[v].log[o] = replica[v].epoch

ParkInv == waiters \in [Voters -> SUBSET Nat] /\ NoWaiterIsStranded

LEMMA StillParked ==
    ASSUME TypeOK, TypeOK', NoWaiterIsStranded, NEW v \in Voters, Turns(v),
           NEW u \in Voters, NEW o \in waiters[u]
    PROVE  Parked(u, o)
<1>1. PICK r \in Replica, q \in Replica : r = replica[u] /\ q = replica'[u]
    BY DEF TypeOK
<1>2. /\ r.log \in Seq(Nat) /\ q.log \in Seq(Nat) /\ r.hwm \in Nat
      /\ Len(r.log) \in Nat /\ Len(q.log) \in Nat
    BY ReplicaFields
<1>3. IsLeader(u) /\ o \in r.hwm + 1 .. Len(r.log) /\ r.log[o] = r.epoch
    BY <1>1 DEF NoWaiterIsStranded
<1>4. o \in 1 .. Len(r.log)
    BY <1>2, <1>3
<1>5. Begins(r.log, q.log) \/ q = r
    BY <1>1, <1>3 DEF Turns
<1>6. o \in 1 .. Len(q.log) /\ q.log[o] = r.log[o]
    BY <1>2, <1>4, <1>5 DEF Begins, SameBelow
<1> QED
    BY <1>1, <1>3, <1>6 DEF Parked

\* What is settled as committed or refused was reached by the watermark.
LEMMA SettledReached ==
    ASSUME NEW v \in Voters, NEW parked, NEW a \in Settled(v, parked), a.outcome # "not_leader"
    PROVE  a.offset \in parked /\ a.offset <= replica'[v].hwm /\ a.epoch = replica[v].epoch
BY DEF Settled, try_resolve_waiters, fail_waiters_on_leadership_loss, AnswerOf

\* What is not settled is above the watermark of a leadership that goes on.
LEMMA UnsettledWaits ==
    ASSUME NEW v \in Voters, NEW parked, NEW o \in parked,
           o \notin {a.offset : a \in Settled(v, parked)}
    PROVE  ~(o <= replica'[v].hwm) /\ ~LeadershipLost(v)
<1> DEFINE resolved == try_resolve_waiters(v, parked)
           rest == parked \ {a.offset : a \in resolved}
           failed == fail_waiters_on_leadership_loss(v, rest)
<1>1. Settled(v, parked) = resolved \cup failed
    BY DEF Settled
<1>2. \A outcome : AnswerOf(v, o, outcome).offset = o
    BY DEF AnswerOf
<1>3. ASSUME o <= replica'[v].hwm PROVE FALSE
    <2>1. PICK outcome : AnswerOf(v, o, outcome) \in resolved
        BY <1>3 DEF try_resolve_waiters
    <2> QED
        BY <1>1, <1>2, <2>1
<1>4. ASSUME LeadershipLost(v) PROVE FALSE
    <2>1. o \in rest
        BY <1>1
    <2> HIDE DEF rest
    <2>2. AnswerOf(v, o, "not_leader") \in failed
        BY <1>4, <2>1 DEF fail_waiters_on_leadership_loss
    <2> QED
        BY <1>1, <1>2, <2>2
<1> QED
    BY <1>3, <1>4

\* A turn of voter v that settles what is parked leaves no waiter stranded.
LEMMA SettleParks ==
    ASSUME TypeOK', NEW parked \in [Voters -> SUBSET Nat], Settle(parked),
           \A u \in Voters : \A o \in parked[u] : Parked(u, o)
    PROVE  ParkInv'
<1>1. waiters' = [v \in Voters |-> parked[v] \ {a.offset : a \in Settled(v, parked[v])}]
    BY DEF Settle
<1>2. waiters' \in [Voters -> SUBSET Nat]
    BY <1>1
<1>3. ASSUME NEW v \in Voters, NEW o \in waiters'[v]
      PROVE  /\ replica'[v].role.name = "Leader"
             /\ o \in replica'[v].hwm + 1 .. Len(replica'[v].log)
             /\ replica'[v].log[o] = replica'[v].epoch
    <2>1. o \in parked[v] /\ o \notin {a.offset : a \in Settled(v, parked[v])}
        BY <1>1, <1>3
    <2>2. ~(o <= replica'[v].hwm) /\ ~LeadershipLost(v)
        BY <2>1, UnsettledWaits
    <2>3. Parked(v, o)
        BY <2>1
    <2>4. replica'[v].role.name = "Leader" /\ replica'[v].epoch = replica[v].epoch
        BY <2>2, <2>3 DEF Parked, LeadershipLost, IsLeader
    <2>5. PICK q \in Replica : q = replica'[v]
        BY DEF TypeOK
    <2>6. q.hwm \in Nat /\ Len(q.log) \in Nat
        BY ReplicaFields
    <2>7. o \in 1 .. Len(q.log) /\ ~(o <= q.hwm)
        BY <2>2, <2>3, <2>5 DEF Parked
    <2>8. o \in q.hwm + 1 .. Len(q.log)
        BY <2>6, <2>7
    <2> QED
        BY <2>3, <2>4, <2>5, <2>8 DEF Parked
<1> QED
    BY <1>2, <1>3 DEF ParkInv, NoWaiterIsStranded, IsLeader

\* Who answers a waiter has applied the batch it waited for.
AnswersRightly ==
    /\ answers \subseteq answers'
    /\ \A a \in answers' \ answers : a.outcome # "not_leader" =>
            \E v \in Voters : /\ a.offset \in 1 .. replica'[v].hwm
                              /\ replica'[v].log[a.offset] = a.epoch

LEMMA SettleAnswers ==
    ASSUME TypeOK', NEW parked \in [Voters -> SUBSET Nat], Settle(parked),
           \A u \in Voters : \A o \in parked[u] : Parked(u, o)
    PROVE  AnswersRightly
<1>1. answers' = answers \cup UNION {Settled(v, parked[v]) : v \in Voters}
    BY DEF Settle
<1>2. ASSUME NEW a \in answers' \ answers, a.outcome # "not_leader"
      PROVE  \E v \in Voters : /\ a.offset \in 1 .. replica'[v].hwm
                               /\ replica'[v].log[a.offset] = a.epoch
    <2>1. PICK v \in Voters : a \in Settled(v, parked[v])
        BY <1>1
    <2>2. /\ a.offset \in parked[v] /\ a.offset <= replica'[v].hwm
          /\ a.epoch = replica[v].epoch
        BY <1>2, <2>1, SettledReached
    <2>3. Parked(v, a.offset)
        BY <2>2
    <2>4. replica'[v].hwm \in Nat
        BY ReplicaFields DEF TypeOK
    <2> QED
        BY <2>2, <2>3, <2>4 DEF Parked
<1> QED
    BY <1>1, <1>2 DEF AnswersRightly

\* What every step does to the waiters, the answers and the chosen log.
LEMMA CommitTurns ==
    ASSUME TypeOK, TypeOK', KnownInv, PlanVoters, ParkInv, [CommitNext]_allVars
    PROVE  /\ ParkInv' /\ AnswersRightly
           /\ Choose \/ UNCHANGED <<vars, chosen>>
<1>1. PICK t \in Voters : Turns(t)
    BY CommitKinds, TurnOfOne
<1>2. /\ \A u \in Voters : \A o \in waiters[u] : Parked(u, o)
      /\ waiters \in [Voters -> SUBSET Nat]
    BY <1>1, StillParked DEF ParkInv
<1>3. CASE Settle(waiters)
    BY <1>2, <1>3, SettleParks, SettleAnswers DEF Settle
<1>4. ASSUME NEW v \in Voters, Admits(v) PROVE ParkInv' /\ AnswersRightly /\ Choose
    <2>1. PICK r \in Replica, n \in Nat : r = replica[v] /\ n = Len(r.log) + 1
        BY ReplicaFields DEF TypeOK
    <2>2. Submit(v) /\ Settle([waiters EXCEPT ![v] = @ \cup {n}])
        BY <1>4, <2>1 DEF Admits
    <2>3. PICK parked \in [Voters -> SUBSET Nat] : parked = [waiters EXCEPT ![v] = @ \cup {n}]
        BY <1>2
    <2>4. PICK q : /\ EndTurn(v, {}, Step(q, {})) /\ SameButLog(r, q)
                   /\ q.role.name = "Leader" /\ q.log = Append(r.log, q.epoch)
        BY <2>1, <2>2, SubmitTurn
    <2>5. replica'[v] = q
        BY <2>4 DEF EndTurn, Step, TypeOK
    <2>6. Parked(v, n)
        <3>1. q.epoch = r.epoch /\ r.role.name = "Leader"
            BY <2>4 DEF SameButLog
        <3>2. r.log \in Seq(Nat) /\ r.epoch \in Nat
            BY ReplicaFields
        <3>3. n \in 1 .. Len(q.log) /\ q.log[n] = r.epoch
            BY <2>1, <2>4, <3>1, <3>2
        <3> QED
            BY <2>1, <2>5, <3>1, <3>3 DEF Parked, IsLeader
    <2>7. \A u \in Voters : \A o \in parked[u] : Parked(u, o)
        BY <1>2, <2>3, <2>6
    <2> QED
        BY <2>2, <2>3, <2>7, SettleParks, SettleAnswers DEF Settle
<1>5. ASSUME NEW v \in Voters, RestartEngine(v) PROVE ParkInv' /\ AnswersRightly /\ Choose
    <2>1. /\ waiters' = [waiters EXCEPT ![v] = {}] /\ answers' = answers /\ Choose
        BY <1>5 DEF RestartEngine
    <2>2. \A w \in Voters \ {v} : replica'[w] = replica[w]
        BY <1>5 DEF RestartEngine, Restart, EndTurn, TypeOK
    <2>3. ParkInv'
        BY <1>2, <2>1, <2>2 DEF ParkInv, NoWaiterIsStranded, IsLeader
    <2> QED
        BY <2>1, <2>3 DEF AnswersRightly
<1>6. CASE UNCHANGED <<vars, waiters, answers, chosen>>
    BY <1>6 DEF ParkInv, NoWaiterIsStranded, IsLeader, AnswersRightly, vars
<1> QED
    BY <1>3, <1>4, <1>5, <1>6, CommitKinds

(***************************************************************************)
(* The chosen log.                                                         *)
(***************************************************************************)

\* The chosen log is committed in this history, and no watermark passed it.
ChosenPast(led, acked) ==
    /\ chosen \in Seq(Nat)
    /\ \E e \in Nat : Committed(led, acked, Len(chosen), chosen, e)
    /\ \A v \in Voters : replica[v].hwm <= Len(chosen)

\* Some history explains the state, and the chosen log in it.
ChosenInv ==
    \E led \in Histories, acked \in SUBSET Acks, seen \in SUBSET Sightings :
        CommitPast(led, acked, seen) /\ ChosenPast(led, acked)

\* CompleteFollows, of the next state.
LEMMA CompleteNext ==
    ASSUME NEW led \in Histories, NEW acked \in SUBSET Acks, NEW seen \in SUBSET Sightings
    PROVE  TypeOK' /\ CommitPast(led, acked, seen)' => Complete(led, acked)
<1>1. TypeOK /\ CommitPast(led, acked, seen) => Complete(led, acked)
    BY CompleteFollows
<1>2. (TypeOK /\ CommitPast(led, acked, seen) => Complete(led, acked))'
    BY <1>1, PTL
<1> QED
    BY <1>2

\* What a replica applied, as a log of its own.
LEMMA AppliedLog ==
    ASSUME NEW r \in Replica, r.hwm <= Len(r.log)
    PROVE  /\ Prefix(r.log, r.hwm) \in Seq(Nat) /\ Len(Prefix(r.log, r.hwm)) = r.hwm
           /\ SameBelow(Prefix(r.log, r.hwm), r.log, r.hwm)
<1>1. r.log \in Seq(Nat) /\ r.hwm \in Nat /\ r.hwm \in 0 .. Len(r.log)
    BY ReplicaFields
<1>2. /\ Prefix(r.log, r.hwm) \in Seq(Nat) /\ Len(Prefix(r.log, r.hwm)) = r.hwm
      /\ \A k \in 1 .. r.hwm : Prefix(r.log, r.hwm)[k] = r.log[k]
    BY <1>1, PrefixType
<1> QED
    BY <1>1, <1>2 DEF SameBelow

\* Watermarks are within the logs, and the longest log seen committed.
WatermarksReached ==
    \A v \in Voters : replica[v].hwm <= Len(replica[v].log) /\ replica[v].hwm <= Len(chosen)

\* Watermarks stay within the logs.
LEMMA WatermarksInside ==
    ASSUME NEW t \in Voters, Turns(t), \A v \in Voters : replica[v].hwm <= Len(replica[v].log)
    PROVE  \A v \in Voters : replica'[v].hwm <= Len(replica'[v].log)
BY DEF Turns, GoesTo

\* The chosen log stays, or becomes what some voter has applied; either way it
\* is as long as any watermark.
LEMMA ChosenMoves ==
    ASSUME TypeOK', chosen \in Seq(Nat), WatermarksReached, NEW t \in Voters, Turns(t),
           Choose \/ UNCHANGED <<vars, chosen>>
    PROVE  /\ WatermarksReached'
           /\ \/ chosen' = chosen
              \/ /\ replica'[t].hwm > Len(chosen)
                 /\ \E v \in Voters : chosen' = AppliedBatches(v)
<1>1. \A v \in Voters : replica'[v].hwm <= Len(replica'[v].log)
    BY WatermarksInside DEF WatermarksReached
<1>2. ASSUME NEW v \in Voters
      PROVE  /\ AppliedBatches(v) \in Seq(Nat) /\ Len(AppliedBatches(v)) = replica'[v].hwm
             /\ replica'[v].hwm \in Nat
    <2>1. PICK q \in Replica : q = replica'[v]
        BY DEF TypeOK
    <2>2. q.hwm <= Len(q.log)
        BY <1>1, <2>1
    <2> QED
        BY <2>1, <2>2, AppliedLog, ReplicaFields DEF AppliedBatches
<1>3. CASE UNCHANGED <<vars, chosen>>
    BY <1>3 DEF vars, WatermarksReached
<1>4. CASE Choose /\ ~\E v \in Voters : Len(AppliedBatches(v)) > Len(chosen)
    <2>1. chosen' = chosen
        BY <1>4 DEF Choose
    <2>2. \A v \in Voters : replica'[v].hwm <= Len(chosen)
        BY <1>2, <1>4
    <2> QED
        BY <1>1, <2>1, <2>2 DEF WatermarksReached
<1>5. CASE Choose /\ \E v \in Voters : Len(AppliedBatches(v)) > Len(chosen)
    <2> DEFINE Longest(v) == \A w \in Voters : Len(AppliedBatches(v)) >= Len(AppliedBatches(w))
    <2>1. PICK v \in Voters : Len(AppliedBatches(v)) > Len(chosen)
        BY <1>5
    <2>2. \A w \in Voters \ {t} : replica'[w].hwm <= Len(chosen)
        BY DEF Turns, WatermarksReached
    <2>3. v = t
        BY SMTT(40), <1>2, <2>1, <2>2
    <2>4. Longest(t)
        <3>1. ASSUME NEW w \in Voters PROVE Len(AppliedBatches(t)) >= Len(AppliedBatches(w))
            <4>1. Len(chosen) \in Nat /\ Len(AppliedBatches(t)) > Len(chosen)
                BY <2>1, <2>3
            <4>2. w = t \/ Len(AppliedBatches(w)) <= Len(chosen)
                BY <1>2, <2>2
            <4>3. Len(AppliedBatches(t)) \in Nat /\ Len(AppliedBatches(w)) \in Nat
                BY <1>2
            <4>4. CASE w = t
                BY <4>3, <4>4
            <4>5. CASE Len(AppliedBatches(w)) <= Len(chosen)
                BY <4>1, <4>3, <4>5
            <4> QED
                BY <4>2, <4>4, <4>5
        <3> QED
            BY <3>1
    <2>5. PICK x \in Voters : Longest(x) /\ chosen' = AppliedBatches(x)
        <3> HIDE DEF Longest
        <3>1. chosen' = AppliedBatches(CHOOSE w \in Voters : Longest(w))
            BY <1>5 DEF Choose, Longest
        <3> QED
            BY <2>4, <3>1
    <2>6. \A w \in Voters : replica'[w].hwm <= Len(chosen')
        BY <1>2, <2>5
    <2>7. replica'[t].hwm > Len(chosen)
        BY <1>2, <2>1, <2>3
    <2> QED
        BY <1>1, <2>5, <2>6, <2>7 DEF WatermarksReached
<1> QED
    BY <1>3, <1>4, <1>5

\* The chosen log only grows, and grows only with the watermark of the voter
\* whose turn it is.
LEMMA ChosenTurn ==
    ASSUME TypeOK, TypeOK', NEW led \in Histories, NEW acked \in SUBSET Acks,
           NEW seen \in SUBSET Sightings, CommitPast(led, acked, seen), ChosenPast(led, acked),
           KeepsPast(led, acked), NEW t \in Voters, Turns(t),
           Choose \/ UNCHANGED <<vars, chosen>>
    PROVE  /\ ChosenInv' /\ SameBelow(chosen, chosen', Len(chosen))
           /\ chosen' = chosen \/ replica'[t].hwm > replica[t].hwm
           /\ \A v \in Voters : SameBelow(replica'[v].log, chosen', replica'[v].hwm)
<1>1. PICK grown \in Histories, counted \in SUBSET Acks, now \in SUBSET Sightings :
            Grows(led, grown) /\ acked \subseteq counted /\ CommitPast(grown, counted, now)'
    BY DEF KeepsPast
<1>2. Complete(grown, counted)
    BY <1>1, CompleteNext
<1>3. PICK c \in Seq(Nat), n \in Nat, e \in Nat :
            /\ c = chosen /\ n = Len(c) /\ Committed(led, acked, n, c, e)
            /\ \A v \in Voters : replica[v].hwm <= n
    BY DEF ChosenPast
<1>4. Committed(grown, counted, n, c, e)
    <2>1. SameBelow(c, c, n) /\ n <= n /\ e <= e
        BY <1>3, SameSelf
    <2> QED
        BY <1>1, <1>3, <2>1, CommittedStays
<1>5. ASSUME NEW v \in Voters
      PROVE  /\ AppliedBatches(v) \in Seq(Nat) /\ Len(AppliedBatches(v)) = replica'[v].hwm
             /\ replica'[v].hwm \in Nat /\ replica[v].hwm \in Nat
             /\ replica'[v].log \in Seq(Nat) /\ replica'[v].epoch \in Nat
             /\ SameBelow(AppliedBatches(v), replica'[v].log, replica'[v].hwm)
             /\ Committed(grown, counted, replica'[v].hwm, replica'[v].log, replica'[v].epoch)
             /\ Committed(grown, counted, replica'[v].hwm, AppliedBatches(v), replica'[v].epoch)
    <2>1. PICK q \in Replica, r \in Replica : q = replica'[v] /\ r = replica[v]
        BY DEF TypeOK
    <2>2. HasCommitted(grown, counted, q)
        BY <1>1, <2>1 DEF CommitPast, WatermarksPast
    <2>3. PICK p : p = Prefix(q.log, q.hwm) /\ p = AppliedBatches(v)
        BY <2>1 DEF AppliedBatches
    <2>4. p \in Seq(Nat) /\ Len(p) = q.hwm /\ SameBelow(p, q.log, q.hwm)
        BY <2>2, <2>3, AppliedLog DEF HasCommitted
    <2>5. q.hwm \in Nat /\ q.log \in Seq(Nat) /\ q.epoch \in Nat /\ r.hwm \in Nat
        BY ReplicaFields
    <2>6. Committed(grown, counted, q.hwm, p, q.epoch)
        <3>1. Grows(grown, grown) /\ counted \subseteq counted /\ q.hwm <= q.hwm /\ q.epoch <= q.epoch
            BY <2>5, GrowsSelf
        <3> QED
            BY <2>2, <2>4, <2>5, <3>1, CommittedStays DEF HasCommitted
    <2> QED
        BY <2>1, <2>2, <2>3, <2>4, <2>5, <2>6 DEF HasCommitted
<1>6. /\ WatermarksReached'
      /\ \/ chosen' = chosen
         \/ replica'[t].hwm > n /\ \E v \in Voters : chosen' = AppliedBatches(v)
    <2>1. WatermarksReached
        BY DEF CommitPast, WatermarksPast, HasCommitted, ChosenPast, WatermarksReached
    <2> QED
        BY <1>3, <2>1, ChosenMoves
<1>7. PICK d \in Seq(Nat), m \in Nat, f \in Nat :
            /\ d = chosen' /\ m = Len(d) /\ n <= m /\ Committed(grown, counted, m, d, f)
            /\ \A v \in Voters : replica'[v].hwm <= m
            /\ chosen' = chosen \/ replica'[t].hwm > replica[t].hwm
    <2>1. \A v \in Voters : replica'[v].hwm <= Len(chosen')
        BY <1>6 DEF WatermarksReached
    <2>2. CASE chosen' = chosen
        <3>1. n <= n
            OBVIOUS
        <3> QED
            BY <1>3, <1>4, <2>1, <2>2, <3>1
    <2>3. ASSUME replica'[t].hwm > n, NEW x \in Voters, chosen' = AppliedBatches(x)
          PROVE  \E d \in Seq(Nat), m \in Nat, f \in Nat :
                    /\ d = chosen' /\ m = Len(d) /\ n <= m /\ Committed(grown, counted, m, d, f)
                    /\ \A v \in Voters : replica'[v].hwm <= m
                    /\ chosen' = chosen \/ replica'[t].hwm > replica[t].hwm
        <3>1. Len(chosen') = replica'[x].hwm /\ replica'[x].hwm \in Nat
            BY <1>5, <2>3
        <3>2. replica'[t].hwm <= replica'[x].hwm
            BY <2>1, <3>1
        <3>3. n <= replica'[x].hwm
            BY <1>5, <2>3, <3>2
        <3>4. replica'[t].hwm > replica[t].hwm
            BY <1>3, <1>5, <2>3
        <3> QED
            BY <1>5, <2>1, <2>3, <3>1, <3>3, <3>4
    <2> QED
        BY <1>6, <2>2, <2>3
<1>8. SameBelow(c, d, n)
    BY <1>2, <1>4, <1>7, CommittedSame
<1>9. ASSUME NEW v \in Voters PROVE SameBelow(replica'[v].log, d, replica'[v].hwm)
    <2>1. PICK h \in Nat, log \in Seq(Nat), g \in Nat :
                /\ h = replica'[v].hwm /\ log = replica'[v].log
                /\ Committed(grown, counted, h, log, g) /\ h <= m
        BY <1>5, <1>7
    <2>2. SameBelow(log, d, h)
        BY <1>2, <1>7, <2>1, CommittedSame
    <2> QED
        BY <2>1, <2>2
<1>10. ChosenPast(grown, counted)'
    BY <1>7 DEF ChosenPast
<1>11. ChosenInv'
    BY <1>1, <1>10 DEF ChosenInv
<1> QED
    BY <1>3, <1>7, <1>8, <1>9, <1>11

(***************************************************************************)
(* The refinement.                                                         *)
(***************************************************************************)

\* What one log has below an offset begins every log that agrees with it there.
LEMMA BeginsWith ==
    ASSUME NEW a \in Seq(Nat), NEW b \in Seq(Nat), NEW n \in Nat, SameBelow(a, b, n)
    PROVE  OneLog!IsPrefixOf(Prefix(a, n), b)
<1>1. n <= Len(a) /\ n <= Len(b) /\ n \in 0 .. Len(a)
    BY SameInside
<1>2. Len(Prefix(a, n)) = n
    BY <1>1, PrefixType
<1>3. Prefix(a, n) = Prefix(b, n)
    BY PrefixSame
<1> QED
    BY <1>1, <1>2, <1>3 DEF OneLog!IsPrefixOf, Prefix

LEMMA PrefixWhole ==
    ASSUME NEW a \in Seq(Nat)
    PROVE  Prefix(a, Len(a)) = a
<1>1. Len(a) \in 0 .. Len(a)
    OBVIOUS
<1>2. PICK p \in Seq(Nat) : /\ p = Prefix(a, Len(a)) /\ Len(p) = Len(a)
                            /\ \A k \in 1 .. Len(a) : p[k] = a[k]
    BY <1>1, PrefixType
<1>3. p = a
    BY SMTT(40), <1>2
<1> QED
    BY <1>2, <1>3

\* A beginning of a log, and a shorter one.
LEMMA BeginsWithin ==
    ASSUME NEW a \in Seq(Nat), NEW b \in Seq(Nat), NEW n \in Nat, NEW m \in Nat, n <= m,
           m <= Len(b), SameBelow(a, b, n)
    PROVE  OneLog!IsPrefixOf(Prefix(a, n), Prefix(b, m))
<1>1. m \in 0 .. Len(b)
    OBVIOUS
<1>2. PICK p \in Seq(Nat) : /\ p = Prefix(b, m) /\ Len(p) = m
                            /\ \A k \in 1 .. m : p[k] = b[k]
    BY <1>1, PrefixType
<1>3. SameBelow(b, p, n)
    <2>1. Len(p) = m /\ n <= Len(b) /\ \A k \in 1 .. n : k \in 1 .. m
        BY <1>2
    <2> QED
        BY <1>2, <2>1 DEF SameBelow
<1>4. SameBelow(a, p, n)
    BY <1>2, <1>3 DEF SameBelow
<1> QED
    BY <1>2, <1>4, BeginsWith

\* What the voters applied, and what was answered: the readers' side of OneLog.
AppliedLogs == [v \in Voters |-> Prefix(replica[v].log, replica[v].hwm)]
AnsweredPairs == {<<a.offset, a.epoch>> : a \in {b \in answers : b.outcome # "not_leader"}}

\* New answers are in the chosen log.
LEMMA AnswersChosen ==
    ASSUME TypeOK', AnswersRightly, chosen' \in Seq(Nat),
           \A v \in Voters : SameBelow(replica'[v].log, chosen', replica'[v].hwm)
    PROVE  OneLog!Answer
<1>1. AnsweredPairs \subseteq AnsweredPairs'
    BY DEF AnsweredPairs, AnswersRightly
<1>2. ASSUME NEW x \in AnsweredPairs' \ AnsweredPairs
      PROVE  x[1] \in 1 .. Len(chosen') /\ chosen'[x[1]] = x[2]
    <2>1. PICK a \in answers' : a.outcome # "not_leader" /\ x = <<a.offset, a.epoch>>
        BY <1>2 DEF AnsweredPairs
    <2>2. a \notin answers
        BY <1>2, <2>1 DEF AnsweredPairs
    <2>3. PICK v \in Voters : /\ a.offset \in 1 .. replica'[v].hwm
                              /\ replica'[v].log[a.offset] = a.epoch
        BY <2>1, <2>2 DEF AnswersRightly
    <2>4. /\ a.offset <= Len(chosen') /\ chosen'[a.offset] = a.epoch
        BY <2>3 DEF SameBelow
    <2>5. replica'[v].hwm \in Nat /\ Len(chosen') \in Nat
        BY ReplicaFields DEF TypeOK
    <2>6. a.offset \in 1 .. Len(chosen')
        BY <2>3, <2>4, <2>5
    <2> QED
        BY <2>1, <2>4, <2>6
<1> QED
    BY <1>1, <1>2 DEF OneLog!Answer, AnsweredPairs

\* Every step of the controllers is a step of the one log.
LEMMA OneLogStep ==
    ASSUME ~FetchesOverlap, TypeOK, TypeOK', VoteInv, VoteInv', ElectionSafety', KnownInv,
           PlanVoters, ParkInv, ChosenInv, [CommitNext]_allVars
    PROVE  ChosenInv' /\ OneLog!Next
<1>1. PICK led \in Histories, acked \in SUBSET Acks, seen \in SUBSET Sightings :
            CommitPast(led, acked, seen) /\ ChosenPast(led, acked)
    BY DEF ChosenInv
<1>2. [Next]_vars
    BY CommitKinds
<1>3. KeepsPast(led, acked)
    BY <1>1, <1>2, NextCommit
<1>4. PICK t \in Voters : Turns(t)
    BY <1>2, TurnOfOne
<1>5. AnswersRightly /\ (Choose \/ UNCHANGED <<vars, chosen>>)
    BY CommitTurns
<1>6. /\ ChosenInv' /\ SameBelow(chosen, chosen', Len(chosen))
      /\ chosen' = chosen \/ replica'[t].hwm > replica[t].hwm
      /\ \A v \in Voters : SameBelow(replica'[v].log, chosen', replica'[v].hwm)
    BY <1>1, <1>3, <1>4, <1>5, ChosenTurn
<1>7. chosen \in Seq(Nat) /\ chosen' \in Seq(Nat)
    BY <1>1, <1>6 DEF ChosenPast, ChosenInv
<1>8. OneLog!Answer
    BY <1>5, <1>6, <1>7, AnswersChosen
<1>9. PICK r \in Replica, q \in Replica : r = replica[t] /\ q = replica'[t]
    BY DEF TypeOK
<1>10. /\ r.log \in Seq(Nat) /\ q.log \in Seq(Nat) /\ r.hwm \in Nat /\ q.hwm \in Nat
    BY ReplicaFields
<1>11. r.hwm <= Len(r.log) /\ q.hwm <= Len(q.log)
    <2>1. HasCommitted(led, acked, r)
        BY <1>1, <1>9 DEF CommitPast, WatermarksPast
    <2>2. SameBelow(q.log, chosen', q.hwm)
        BY <1>6, <1>9
    <2> QED
        BY <1>7, <1>10, <2>1, <2>2, SameInside DEF HasCommitted
<1>12. SameBelow(r.log, q.log, r.hwm)
    BY <1>1, <1>3, <1>9, CutsNothing
<1>13. /\ AppliedLogs[t] = Prefix(r.log, r.hwm) /\ AppliedLogs'[t] = Prefix(q.log, q.hwm)
       /\ AppliedLogs' = [AppliedLogs EXCEPT ![t] = AppliedLogs'[t]]
    BY <1>4, <1>9 DEF AppliedLogs, Turns
<1>14. CASE q.hwm >= r.hwm
    <2>1. OneLog!IsPrefixOf(chosen, chosen')
        <3>1. Len(chosen) \in Nat /\ Prefix(chosen, Len(chosen)) = chosen
            BY <1>7, PrefixWhole
        <3>2. OneLog!IsPrefixOf(Prefix(chosen, Len(chosen)), chosen')
            BY <1>6, <1>7, <3>1, BeginsWith
        <3> QED
            BY <3>1, <3>2
    <2>2. OneLog!IsPrefixOf(AppliedLogs[t], AppliedLogs'[t])
        <3>1. r.hwm <= q.hwm
            BY <1>10, <1>14
        <3> QED
            BY <1>10, <1>11, <1>12, <1>13, <3>1, BeginsWithin
    <2>3. OneLog!IsPrefixOf(AppliedLogs'[t], chosen')
        <3>1. SameBelow(q.log, chosen', q.hwm)
            BY <1>6, <1>9
        <3> QED
            BY <1>7, <1>10, <1>13, <3>1, BeginsWith
    <2>4. OneLog!Advance(t)
        BY <1>7, <1>13, <2>1, <2>2, <2>3 DEF OneLog!Advance, AppliedLogs
    <2> QED
        BY <1>6, <1>8, <2>4 DEF OneLog!Next
<1>15. CASE ~(q.hwm >= r.hwm)
    <2>1. q.hwm <= r.hwm /\ ~(q.hwm > r.hwm)
        BY <1>10, <1>15
    <2>2. chosen' = chosen
        BY <1>6, <1>9, <2>1
    <2>3. SameBelow(q.log, r.log, q.hwm)
        <3>1. SameBelow(r.log, q.log, q.hwm)
            BY <1>10, <1>12, <2>1, SameLess
        <3> QED
            BY <1>10, <3>1, SameSym
    <2>4. OneLog!IsPrefixOf(AppliedLogs'[t], AppliedLogs[t])
        BY <1>10, <1>11, <1>13, <2>1, <2>3, BeginsWithin
    <2>5. OneLog!Forget(t)
        BY <1>13, <2>2, <2>4 DEF OneLog!Forget, AppliedLogs
    <2> QED
        BY <1>6, <1>8, <2>5 DEF OneLog!Next
<1> QED
    BY <1>14, <1>15

LEMMA InitChosen ==
    ASSUME Init, CommitInit
    PROVE  ChosenInv /\ ParkInv /\ PlanVoters /\ OneLog!Init
<1>1. PICK led \in Histories, acked \in SUBSET Acks, seen \in SUBSET Sightings :
            CommitPast(led, acked, seen)
    BY InitCommit DEF CommitInv, Acks, Sightings
<1>2. \A v \in Voters : replica[v].hwm = 0 /\ replica[v].log = <<>>
    BY DEF Init, BootstrapReplica
<1>3. chosen = <<>> /\ Len(chosen) = 0 /\ chosen \in Seq(Nat)
    BY DEF CommitInit
<1>4. ChosenPast(led, acked)
    BY <1>2, <1>3 DEF ChosenPast, Committed
<1>5. ParkInv /\ PlanVoters
    BY DEF CommitInit, ParkInv, NoWaiterIsStranded, PlanVoters
<1>6. ASSUME NEW v \in Voters PROVE Prefix(replica[v].log, replica[v].hwm) = <<>>
    <2>1. <<>> \in Seq(Nat) /\ Len(<<>>) = 0
        OBVIOUS
    <2>2. Prefix(<<>>, 0) = <<>>
        BY <2>1, PrefixWhole
    <2> QED
        BY <1>2, <2>2
<1>7. OneLog!Init
    BY <1>6 DEF OneLog!Init, CommitInit
<1> QED
    BY <1>1, <1>4, <1>5, <1>7 DEF ChosenInv

(***************************************************************************)
(* What the logs carry.  These hold whether or not Fetches overlap.        *)
(***************************************************************************)

\* This log has the batch of a submitted write.
Carried(log, w) == w.offset \in 1 .. Len(log) /\ log[w.offset] = w.epoch

\* A leader appends the batch of a write, whose name none of its batches has,
\* and which is parked or committed at once; a plan is the image of its log.
Writes(v, value, plan) ==
    /\ Submit(v) /\ writes' = writes \cup {NewWrite(v, value, plan)}
    /\ value \in Names =>
            /\ value \notin image(replica[v]) /\ value \notin waiting_names(v)
            /\ value \notin earlier_epoch_topic_names(replica[v])
            /\ \/ Len(replica[v].log) + 1 \in waiters'[v]
               \/ Len(replica[v].log) + 1 <= replica'[v].hwm
    /\ plan # Nil => plan = image(replica[v]) /\ uncommitted_tail_is_idle(replica[v])

\* A leader that goes on keeps the waiters above its watermark.
KeepsWaiting ==
    \A v \in Voters : \A o \in waiters[v] :
        /\ replica'[v].role.name = "Leader" /\ replica'[v].epoch = replica[v].epoch
        /\ ~(o <= replica'[v].hwm)
        => o \in waiters'[v]

\* Who is refused created a name that its log had before.
RefusesRightly ==
    \A a \in answers' \ answers : a.outcome = "rejected" =>
        \E v \in Voters : a.offset <= replica'[v].hwm /\ Rejected(replica'[v].log, a.offset)

\* What the watermark did not reach, and no lost leadership fails, still waits.
LEMMA WaitsOn ==
    ASSUME NEW v \in Voters, NEW parked, NEW o \in parked, ~(o <= replica'[v].hwm),
           ~LeadershipLost(v)
    PROVE  o \notin {a.offset : a \in Settled(v, parked)}
BY DEF Settled, try_resolve_waiters, fail_waiters_on_leadership_loss, AnswerOf

LEMMA SettleKeeps ==
    ASSUME NEW parked \in [Voters -> SUBSET Nat], Settle(parked)
    PROVE  /\ RefusesRightly
           /\ \A v \in Voters : \A o \in parked[v] :
                ~(o <= replica'[v].hwm) /\ ~LeadershipLost(v) => o \in waiters'[v]
<1>1. /\ waiters' = [v \in Voters |-> parked[v] \ {a.offset : a \in Settled(v, parked[v])}]
      /\ answers' = answers \cup UNION {Settled(v, parked[v]) : v \in Voters}
    BY DEF Settle
<1>2. ASSUME NEW a \in answers' \ answers, a.outcome = "rejected"
      PROVE  \E v \in Voters : a.offset <= replica'[v].hwm /\ Rejected(replica'[v].log, a.offset)
    <2>1. PICK v \in Voters : a \in Settled(v, parked[v])
        BY <1>1
    <2>2. a \in try_resolve_waiters(v, parked[v])
        BY <1>2, <2>1 DEF Settled, fail_waiters_on_leadership_loss, AnswerOf
    <2>3. PICK o \in parked[v] :
            /\ o <= replica'[v].hwm
            /\ a = AnswerOf(v, o, IF Rejected(replica'[v].log, o) THEN "rejected" ELSE "ok")
        BY <2>2 DEF try_resolve_waiters
    <2> QED
        BY <1>2, <2>3 DEF AnswerOf
<1>3. ASSUME NEW v \in Voters, NEW o \in parked[v], ~(o <= replica'[v].hwm), ~LeadershipLost(v)
      PROVE  o \in waiters'[v]
    <2>1. o \notin {a.offset : a \in Settled(v, parked[v])}
        BY <1>3, WaitsOn
    <2> QED
        BY <1>1, <2>1
<1> QED
    BY <1>2, <1>3 DEF RefusesRightly

\* What a settled turn keeps of the waiters it began with.
LEMMA SettleWaits ==
    ASSUME NEW parked \in [Voters -> SUBSET Nat], Settle(parked),
           \A v \in Voters : waiters[v] \subseteq parked[v]
    PROVE  KeepsWaiting /\ RefusesRightly
<1>1. \A v \in Voters : LeadershipLost(v) =>
            ~(replica'[v].role.name = "Leader" /\ replica'[v].epoch = replica[v].epoch)
    BY DEF LeadershipLost
<1> QED
    BY <1>1, SettleKeeps DEF KeepsWaiting

\* A leader that submits goes on to lead, with one batch more.
LEMMA SubmitLeads ==
    ASSUME TypeOK, TypeOK', NEW v \in Voters, Submit(v)
    PROVE  /\ IsLeader(v) /\ replica'[v].role.name = "Leader"
           /\ replica'[v].epoch = replica[v].epoch
           /\ replica'[v].log = Append(replica[v].log, replica[v].epoch)
<1>1. PICK q : /\ EndTurn(v, {}, Step(q, {})) /\ SameButLog(replica[v], q)
               /\ q.role.name = "Leader" /\ q.log = Append(replica[v].log, q.epoch)
    BY SubmitTurn
<1>2. PICK step : q = step.replica /\ EndTurn(v, {}, step)
    BY <1>1 DEF Step
<1>3. replica'[v] = q
    BY <1>2, OthersStay
<1> QED
    BY <1>1, <1>3 DEF SameButLog, IsLeader

\* Every step submits no write or one, and keeps who must wait waiting.
LEMMA WriteKinds ==
    ASSUME TypeOK, TypeOK', PlanVoters, waiters \in [Voters -> SUBSET Nat],
           [CommitNext]_allVars
    PROVE  /\ KeepsWaiting /\ RefusesRightly
           /\ \/ writes' = writes
              \/ \E v \in Voters : \E value, plan : Writes(v, value, plan)
<1>1. ASSUME Settle(waiters) PROVE KeepsWaiting /\ RefusesRightly
    BY <1>1, SettleWaits
<1>2. CASE Turn(QuorumTurn)
    BY <1>1, <1>2 DEF Turn
<1>3. ASSUME NEW v \in Voters, AppendNoOp(v)
      PROVE  KeepsWaiting /\ RefusesRightly /\ \E value, plan : Writes(v, value, plan)
    <2>1. Writes(v, NoOp, Nil)
        BY <1>3, NamesAssumption DEF AppendNoOp, Writes
    <2> QED
        BY <1>1, <1>3, <2>1 DEF AppendNoOp
<1>4. ASSUME NEW v \in Voters, NEW name \in Names, NEW plan, AdmitAndPark(v, name, plan),
             plan # Nil => plan = image(replica[v]) /\ uncommitted_tail_is_idle(replica[v])
      PROVE  KeepsWaiting /\ RefusesRightly /\ Writes(v, name, plan)
    <2>1. PICK r \in Replica, n \in Nat : r = replica[v] /\ n = Len(r.log) + 1
        BY ReplicaFields DEF TypeOK
    <2>2. PICK parked \in [Voters -> SUBSET Nat] : parked = [waiters EXCEPT ![v] = @ \cup {n}]
        OBVIOUS
    <2>3. Settle(parked) /\ Submit(v) /\ writes' = writes \cup {NewWrite(v, name, plan)}
        BY <1>4, <2>1, <2>2 DEF AdmitAndPark
    <2>4. n \in parked[v] /\ \A u \in Voters : waiters[u] \subseteq parked[u]
        BY <2>2
    <2>5. KeepsWaiting /\ RefusesRightly
        BY <2>3, <2>4, SettleWaits
    <2>6. ~LeadershipLost(v)
        BY <2>3, SubmitLeads DEF LeadershipLost
    <2>7. n \in waiters'[v] \/ n <= replica'[v].hwm
        BY <2>3, <2>4, <2>6, SettleKeeps
    <2> QED
        BY <1>4, <2>1, <2>3, <2>5, <2>7 DEF AdmitAndPark, Writes
<1>5. ASSUME NEW v \in Voters, ReadImage(v) PROVE KeepsWaiting /\ RefusesRightly /\ writes' = writes
    BY <1>5 DEF ReadImage, KeepsWaiting, RefusesRightly
<1>6. ASSUME NEW v \in Voters, RestartEngine(v)
      PROVE  KeepsWaiting /\ RefusesRightly /\ writes' = writes
    <2>1. /\ waiters' = [waiters EXCEPT ![v] = {}] /\ answers' = answers /\ writes' = writes
          /\ Restart(v)
        BY <1>6 DEF RestartEngine
    <2>2. replica'[v].role.name # "Leader"
        <3>1. replica[v] \in Replica
            BY DEF TypeOK
        <3>2. PICK hwm \in 0 .. replica[v].hwm :
                \E gone : EndTurn(v, gone, NoStep([replica[v] EXCEPT !.leaderId = Nil,
                                                      !.role = Unattached, !.hwm = hwm]))
            BY <2>1 DEF Restart
        <3>3. PICK b, gone : b.role = Unattached /\ EndTurn(v, gone, NoStep(b))
            BY <3>1, <3>2 DEF Replica
        <3>4. PICK step : b = step.replica /\ EndTurn(v, gone, step)
            BY <3>3 DEF NoStep, Step
        <3> QED
            BY <3>3, <3>4, OthersStay DEF Unattached
    <2> QED
        BY <2>1, <2>2 DEF KeepsWaiting, RefusesRightly
<1>7. ASSUME NEW v \in Voters, NEW name \in Names, SubmitChange(v, name)
      PROVE  KeepsWaiting /\ RefusesRightly /\ Writes(v, name, Nil)
    BY <1>4, <1>7 DEF SubmitChange
<1>8. ASSUME NEW p \in plans, NEW name \in Names, SubmitIfImage(p, name)
      PROVE  /\ KeepsWaiting /\ RefusesRightly
             /\ \E v \in Voters : \E value, plan : Writes(v, value, plan)
    <2>1. PICK v \in Voters : v = p.voter
        BY DEF PlanVoters
    <2>2. PICK plan : plan = p.image.names
        OBVIOUS
    <2>3. AdmitAndPark(v, name, plan)
        BY <1>8, <2>1, <2>2 DEF SubmitIfImage
    <2>4. plan = image(replica[v]) /\ uncommitted_tail_is_idle(replica[v])
        BY <1>8, <2>1, <2>2 DEF SubmitIfImage, PlanIsCurrent, published
    <2> QED
        BY <1>4, <2>3, <2>4
<1>9. CASE UNCHANGED allVars
    BY <1>9 DEF allVars, commitVars, KeepsWaiting, RefusesRightly
<1> QED
    BY <1>2, <1>3, <1>5, <1>6, <1>7, <1>8, <1>9 DEF CommitNext, Turn

\* Every write went into the log of its epoch's leader.
WritesLed(W, led) == \A w \in W : w.epoch \in Nat /\ Carried(led[w.epoch], w)

\* This log has no name twice.
NamesOnce(W, log) ==
    \A w, x \in W :
        Carried(log, w) /\ Carried(log, x) /\ w.value \in Names /\ x.value = w.value
        => x.offset = w.offset

\* The names that a log creates below an offset.
NamesBelow(W, log, offset) ==
    {w.value : w \in {x \in W : Carried(log, x) /\ x.offset < offset}} \cap Names

\* A planned write follows exactly the names of its plan.
PlansHold(W, led) ==
    \A w \in W : w.plan # Nil => NamesBelow(W, led[w.epoch], w.offset) = w.plan

\* What the leaders of the epochs wrote.
WritesPast(W, led) ==
    WritesLed(W, led) /\ PlansHold(W, led) /\ \A e \in Nat : NamesOnce(W, led[e])

\* What a leader wrote itself and has not committed is parked.
NamesWait ==
    \A v \in Voters : IsLeader(v) => \A w \in writes :
        /\ Carried(replica[v].log, w) /\ w.value \in Names
        /\ w.offset > replica[v].hwm /\ w.offset > replica[v].role.epochStart
        => w.epoch = replica[v].epoch /\ w.offset \in waiters[v]

\* Some history of the logs explains the state and what was written.
WritesInv ==
    /\ chosen \in Seq(Nat) /\ WatermarksReached /\ NamesWait
    /\ \E led \in Histories :
            LogPast(led) /\ WritesPast(writes, led) /\ Sourced(led, chosen)

\* A log carries what the leader of a write's epoch had below it.
LEMMA CarriedWith ==
    ASSUME NEW led \in Histories, NEW log \in Seq(Nat), Sourced(led, log), NEW w,
           w.epoch \in Nat, Carried(log, w)
    PROVE  /\ w.offset \in Nat /\ SameBelow(log, led[w.epoch], w.offset)
           /\ Carried(led[w.epoch], w)
           /\ \A x : x.offset \in 1 .. w.offset => (Carried(log, x) <=> Carried(led[w.epoch], x))
<1>1. led[w.epoch] \in Seq(Nat)
    BY DEF Histories
<1>2. w.offset \in 1 .. Len(log) /\ log[w.offset] = w.epoch
    BY DEF Carried
<1>3. SameBelow(log, led[w.epoch], w.offset)
    BY <1>2 DEF Sourced
<1>4. w.offset \in Nat /\ w.offset \in 1 .. w.offset
    BY <1>2
<1>5. ASSUME NEW x, x.offset \in 1 .. w.offset
      PROVE  Carried(log, x) <=> Carried(led[w.epoch], x)
    <2>1. /\ x.offset <= Len(log) /\ x.offset <= Len(led[w.epoch])
          /\ log[x.offset] = led[w.epoch][x.offset]
        BY <1>3, <1>5 DEF SameBelow
    <2>2. x.offset \in 1 .. Len(log) /\ x.offset \in 1 .. Len(led[w.epoch])
        BY <1>1, <1>4, <1>5, <2>1
    <2> QED
        BY <2>1, <2>2 DEF Carried
<1> QED
    BY <1>3, <1>4, <1>5

\* A log built from the leaders' logs has no name twice either.
LEMMA OnceInSourced ==
    ASSUME NEW W, NEW led \in Histories, NEW log \in Seq(Nat), Sourced(led, log),
           WritesLed(W, led), \A e \in Nat : NamesOnce(W, led[e])
    PROVE  NamesOnce(W, log)
<1>1. ASSUME NEW w \in W, NEW x \in W, Carried(log, w), Carried(log, x),
             x.value = w.value, w.value \in Names, x.offset <= w.offset
      PROVE  x.offset = w.offset
    <2>1. w.epoch \in Nat
        BY DEF WritesLed
    <2>2. x.offset \in 1 .. w.offset
        BY <1>1 DEF Carried
    <2>3. Carried(led[w.epoch], w) /\ Carried(led[w.epoch], x)
        BY <1>1, <2>1, <2>2, CarriedWith
    <2> QED
        BY <1>1, <2>1, <2>3 DEF NamesOnce
<1>2. ASSUME NEW w \in W, NEW x \in W, Carried(log, w), Carried(log, x)
      PROVE  x.offset <= w.offset \/ w.offset <= x.offset
    BY <1>2 DEF Carried
<1> QED
    BY <1>1, <1>2 DEF NamesOnce

\* No log carries what a leader is about to write.
LEMMA NewIsNowhere ==
    ASSUME TypeOK, NEW led \in Histories, NEW log \in Seq(Nat), Sourced(led, log), LogPast(led),
           NEW v \in Voters, IsLeader(v), NEW value, NEW plan
    PROVE  ~Carried(log, NewWrite(v, value, plan))
<1>1. PICK e \in Nat, own \in Seq(Nat) : e = replica[v].epoch /\ own = replica[v].log
    BY ReplicaFields DEF TypeOK
<1>2. own = led[e]
    BY <1>1 DEF LogPast, LeadersHold
<1>3. PICK x : x = NewWrite(v, value, plan) /\ x.epoch = e /\ x.offset = Len(own) + 1
    <2>1. PICK x : x = [epoch |-> e, offset |-> Len(own) + 1, value |-> value, plan |-> plan]
        OBVIOUS
    <2>2. x = NewWrite(v, value, plan)
        BY <1>1, <2>1 DEF NewWrite
    <2> QED
        BY <2>1, <2>2
<1>4. SUFFICES ASSUME Carried(log, x) PROVE FALSE
    BY <1>3
<1>5. SameBelow(log, led[e], x.offset) /\ x.offset \in Nat
    BY <1>3, <1>4, CarriedWith
<1>6. x.offset <= Len(own)
    BY <1>2, <1>5, SameInside
<1>7. Len(own) \in Nat
    OBVIOUS
<1> QED
    BY <1>3, <1>6, <1>7

\* Nobody led an epoch before the turn that starts to lead it.
LEMMA StartsUnled ==
    ASSUME TypeOK, TypeOK', VoteInv', ElectionSafety', NEW led \in Histories, LogPast(led),
           NEW t \in Voters, Turns(t), replica'[t].role.name = "Leader",
           StartsToLead(replica[t], replica'[t])
    PROVE  led[replica'[t].epoch] = <<>>
<1>1. PICK e \in Nat, f \in Nat : e = replica'[t].epoch /\ f = replica[t].epoch
    BY ReplicaFields DEF TypeOK
<1>2. SUFFICES ASSUME led[e] # <<>> PROVE FALSE
    BY <1>1
<1>3. PICK w \in Voters : <<e, w>> \in elected
    BY <1>2 DEF LogPast, LedWasElected, Histories
<1>4. <<e, t>> \in elected' /\ <<e, w>> \in elected'
    BY <1>1, <1>3 DEF VoteInv, LeadersWereElected, IsLeader, Turns
<1>5. w = t
    BY <1>4 DEF ElectionSafety
<1>6. NotCandidate(replica[t], e)
    BY <1>3, <1>5 DEF LogPast, ElectionsOver
<1> QED
    BY <1>1, <1>6 DEF NotCandidate, StartsToLead

\* The log that a leader's log, or another, of the grown history came from.
GrownFrom(led, grown, e, log) ==
    /\ log \in Seq(Nat) /\ Sourced(led, log)
    /\ \/ grown[e] = log
       \/ grown[e] = Append(log, e) /\ (led[e] = log \/ led[e] = <<>>)

LEMMA GrowsFrom ==
    ASSUME TypeOK, TypeOK', VoteInv', ElectionSafety', NEW led \in Histories, LogPast(led),
           NEW grown \in Histories, LogPast(grown)', NEW t \in Voters, Turns(t), NEW e \in Nat,
           \/ grown[e] = led[e]
           \/ \E v \in Voters : replica'[v].role.name = "Leader" /\ replica'[v].epoch = e
    PROVE  \E log : GrownFrom(led, grown, e, log)
<1>1. led[e] \in Seq(Nat) /\ Sourced(led, led[e])
    BY DEF Histories, LogPast, LedInOrder
<1>2. CASE grown[e] = led[e]
    BY <1>1, <1>2 DEF GrownFrom
<1>3. ASSUME NEW v \in Voters, replica'[v].role.name = "Leader", replica'[v].epoch = e
      PROVE  \E log : GrownFrom(led, grown, e, log)
    <2>1. grown[e] = replica'[v].log
        BY <1>3 DEF LogPast, LeadersHold, IsLeader
    <2>2. CASE v # t
        <3>1. replica'[v] = replica[v]
            BY <2>2 DEF Turns
        <3>2. grown[e] = led[e]
            BY <1>3, <2>1, <3>1 DEF LogPast, LeadersHold, IsLeader
        <3> QED
            BY <1>2, <3>2
    <2>3. CASE v = t
        <3>1. replica[t].log \in Seq(Nat) /\ Sourced(led, replica[t].log)
            BY ReplicaFields DEF TypeOK, LogPast, LogsSourced
        <3>2. StaysLeader(replica[t], replica'[t]) \/ StartsToLead(replica[t], replica'[t])
            BY <1>3, <2>3 DEF Turns, GoesTo
        <3>3. CASE StaysLeader(replica[t], replica'[t])
            <4>1. replica[t].log = led[e] /\ replica[t].role.name = "Leader"
                BY <1>3, <2>3, <3>3 DEF LogPast, LeadersHold, IsLeader, StaysLeader
            <4>2. grown[e] = led[e] \/ grown[e] = Append(led[e], e)
                BY <1>3, <2>1, <2>3, <4>1 DEF Turns, GoesTo
            <4> QED
                BY <1>1, <4>2 DEF GrownFrom
        <3>4. CASE StartsToLead(replica[t], replica'[t])
            <4>1. led[e] = <<>>
                BY <1>3, <2>3, <3>4, StartsUnled
            <4>2. grown[e] = Append(replica[t].log, e)
                BY <1>3, <2>1, <2>3, <3>4 DEF StartsToLead
            <4> QED
                BY <3>1, <4>1, <4>2 DEF GrownFrom
        <3> QED
            BY <3>2, <3>3, <3>4
    <2> QED
        BY <2>2, <2>3
<1> QED
    BY <1>2, <1>3

\* What a log with one batch more carries.
LEMMA CarriedAppend ==
    ASSUME NEW log \in Seq(Nat), NEW e \in Nat, NEW w, Carried(Append(log, e), w)
    PROVE  Carried(log, w) \/ (w.offset = Len(log) + 1 /\ w.epoch = e)
<1>1. /\ Append(log, e) \in Seq(Nat) /\ Len(Append(log, e)) = Len(log) + 1
      /\ Append(log, e)[Len(log) + 1] = e
      /\ SameBelow(log, Append(log, e), Len(log))
    BY SameAppend
<1>2. w.offset \in 1 .. Len(log) + 1 /\ Append(log, e)[w.offset] = w.epoch
    BY <1>1 DEF Carried
<1>3. CASE w.offset = Len(log) + 1
    BY <1>1, <1>2, <1>3
<1>4. CASE w.offset # Len(log) + 1
    <2>1. w.offset \in 1 .. Len(log)
        BY <1>2, <1>4
    <2> QED
        BY <1>1, <1>2, <2>1 DEF Carried, SameBelow
<1> QED
    BY <1>3, <1>4

\* A grown log carries the old writes of the log it came from only.
LEMMA OldWasCarried ==
    ASSUME NEW led \in Histories, NEW grown, WritesLed(writes, led), NEW e \in Nat, NEW log,
           GrownFrom(led, grown, e, log), NEW w \in writes, Carried(grown[e], w)
    PROVE  Carried(log, w)
<1>1. log \in Seq(Nat) /\ Len(log) \in Nat
    BY DEF GrownFrom
<1>2. SUFFICES ASSUME ~Carried(log, w) PROVE FALSE
    OBVIOUS
<1>3. grown[e] = Append(log, e) /\ (led[e] = log \/ led[e] = <<>>)
    BY <1>2 DEF GrownFrom
<1>4. w.offset = Len(log) + 1 /\ w.epoch = e
    BY <1>1, <1>2, <1>3, CarriedAppend
<1>5. w.offset \in 1 .. Len(led[e])
    BY <1>4 DEF WritesLed, Carried
<1>6. Len(led[e]) <= Len(log)
    BY <1>1, <1>3
<1> QED
    BY <1>1, <1>4, <1>5, <1>6

\* A leader's name is fresh: nothing that its log carries has it.
LEMMA FreshName ==
    ASSUME TypeOK, NEW v \in Voters, IsLeader(v), NamesWait, NEW value \in Names, NEW plan,
           Writes(v, value, plan), NEW w \in writes, Carried(replica[v].log, w)
    PROVE  w.value # value
<1>1. PICK r \in Replica : r = replica[v]
    BY DEF TypeOK
<1>2. r.hwm \in Nat /\ Len(r.log) \in Nat /\ r.role.epochStart \in Nat
    BY <1>1, ReplicaFields, RoleFields DEF IsLeader
<1>3. SUFFICES ASSUME w.value = value PROVE FALSE
    OBVIOUS
<1>4. w.offset \in 1 .. Len(r.log) /\ r.log[w.offset] = w.epoch
    BY <1>1 DEF Carried
<1>5. /\ value \notin image(r) /\ value \notin waiting_names(v)
      /\ value \notin earlier_epoch_topic_names(r)
    BY <1>1 DEF Writes
<1>6. CASE w.offset <= r.hwm
    <2>1. w \in WritesIn(r.log, 1, r.hwm)
        BY <1>2, <1>4, <1>6 DEF WritesIn
    <2> QED
        BY <1>3, <1>5, <2>1 DEF image, CreatedIn
<1>7. CASE w.offset > r.hwm /\ w.offset <= r.role.epochStart
    <2>1. w \in WritesIn(r.log, r.hwm + 1, r.role.epochStart)
        BY <1>2, <1>4, <1>7 DEF WritesIn
    <2> QED
        BY <1>3, <1>5, <2>1 DEF earlier_epoch_topic_names, CreatedIn
<1>8. CASE w.offset > r.hwm /\ w.offset > r.role.epochStart
    <2>1. w.epoch = r.epoch /\ w.offset \in waiters[v]
        BY <1>1, <1>3, <1>8 DEF NamesWait
    <2> QED
        BY <1>1, <1>3, <1>5, <2>1 DEF waiting_names
<1> QED
    BY <1>2, <1>4, <1>6, <1>7, <1>8

\* No leader's log gets a name twice.
LEMMA OnceGrows ==
    ASSUME TypeOK, TypeOK', VoteInv, VoteInv', ElectionSafety', NamesWait,
           NEW led \in Histories, LogPast(led), WritesPast(writes, led),
           NEW grown \in Histories, LogPast(grown)', NEW t \in Voters, Turns(t), NEW e \in Nat,
           \/ grown[e] = led[e]
           \/ \E v \in Voters : replica'[v].role.name = "Leader" /\ replica'[v].epoch = e,
           writes' = writes \/ \E v \in Voters : \E value, plan : Writes(v, value, plan)
    PROVE  NamesOnce(writes', grown[e])
<1>1. PICK log : GrownFrom(led, grown, e, log)
    BY GrowsFrom
<1>2. log \in Seq(Nat) /\ Sourced(led, log)
    BY <1>1 DEF GrownFrom
<1>3. NamesOnce(writes, log)
    BY <1>2, OnceInSourced DEF WritesPast
<1>4. \A w \in writes : Carried(grown[e], w) => Carried(log, w)
    BY <1>1, OldWasCarried DEF WritesPast
<1>5. NamesOnce(writes, grown[e])
    BY <1>3, <1>4 DEF NamesOnce
<1>6. ASSUME NEW v \in Voters, NEW value, NEW plan, Writes(v, value, plan)
      PROVE  NamesOnce(writes', grown[e])
    <2>1. PICK n : n = NewWrite(v, value, plan)
        OBVIOUS
    <2>2. n.epoch = replica[v].epoch /\ n.value = value
        BY <2>1 DEF NewWrite
    <2>3. writes' = writes \cup {n} /\ IsLeader(v)
        BY <1>6, <2>1, SubmitLeads DEF Writes
    <2>4. ASSUME Carried(grown[e], n), n.value \in Names, NEW w \in writes,
                 Carried(grown[e], w), w.value = n.value
          PROVE  FALSE
        <3>1. ~Carried(log, n)
            BY <1>2, <2>1, <2>3, NewIsNowhere
        <3>2. grown[e] = Append(log, e) /\ (led[e] = log \/ led[e] = <<>>)
            BY <1>1, <2>4, <3>1 DEF GrownFrom
        <3>3. n.epoch = e
            BY <1>2, <2>4, <3>1, <3>2, CarriedAppend
        <3>4. led[e] = replica[v].log /\ led[e] # <<>>
            BY ZenonT(60), <2>2, <2>3, <3>3, LeaderLed DEF IsLeader
        <3>5. Carried(replica[v].log, w)
            BY <1>4, <2>4, <3>2, <3>4
        <3>6. value \in Names /\ w.value = value
            BY <2>2, <2>4
        <3> QED
            BY <1>6, <2>3, <3>5, <3>6, FreshName
    <2> QED
        BY <1>5, <2>3, <2>4 DEF NamesOnce
<1> QED
    BY <1>5, <1>6

\* Growing logs go on carrying what they carried.
LEMMA CarriedGrows ==
    ASSUME NEW led \in Histories, NEW grown \in Histories, Grows(led, grown), NEW e \in Nat,
           NEW x, x.offset <= Len(led[e])
    PROVE  Carried(led[e], x) <=> Carried(grown[e], x)
<1>1. PICK a \in Seq(Nat), b \in Seq(Nat) : a = led[e] /\ b = grown[e]
    BY DEF Histories
<1>2. SameBelow(a, b, Len(a)) /\ Len(a) \in Nat /\ Len(b) \in Nat
    BY <1>1 DEF Grows
<1>3. Len(a) <= Len(b)
    BY <1>2, SameInside
<1>4. \A k : k \in 1 .. Len(b) /\ k <= Len(a) <=> k \in 1 .. Len(a)
    BY <1>2, <1>3
<1> QED
    BY <1>1, <1>2, <1>4 DEF Carried, SameBelow

\* What a leader appends for its write, and where it finds it again.
LEMMA NewWrites ==
    ASSUME TypeOK, TypeOK', VoteInv, NEW led \in Histories, LogPast(led),
           NEW grown \in Histories, LogPast(grown)', NEW v \in Voters, NEW value, NEW plan,
           Writes(v, value, plan), NEW n, n = NewWrite(v, value, plan)
    PROVE  /\ writes' = writes \cup {n} /\ IsLeader(v) /\ n.value = value /\ n.plan = plan
           /\ n.epoch \in Nat /\ n.offset \in Nat /\ n.epoch = replica[v].epoch
           /\ led[n.epoch] = replica[v].log /\ Len(led[n.epoch]) + 1 = n.offset
           /\ grown[n.epoch] = Append(led[n.epoch], n.epoch)
           /\ Carried(grown[n.epoch], n)
<1>1. PICK e \in Nat, log \in Seq(Nat) : e = replica[v].epoch /\ log = replica[v].log
    BY ReplicaFields DEF TypeOK
<1>2. /\ n.epoch = e /\ n.offset = Len(log) + 1 /\ n.value = value /\ n.plan = plan
    BY <1>1 DEF NewWrite
<1>3. /\ Submit(v) /\ writes' = writes \cup {n}
    BY DEF Writes
<1>4. /\ IsLeader(v) /\ replica'[v].role.name = "Leader" /\ replica'[v].epoch = e
      /\ replica'[v].log = Append(log, e)
    BY <1>1, <1>3, SubmitLeads
<1>5. led[e] = log
    BY <1>1, <1>4 DEF LogPast, LeadersHold
<1>6. grown[e] = Append(log, e)
    BY <1>4 DEF LogPast, LeadersHold, IsLeader
<1>7. Carried(Append(log, e), n)
    <2>1. /\ Append(log, e) \in Seq(Nat) /\ Len(Append(log, e)) = Len(log) + 1
          /\ Append(log, e)[Len(log) + 1] = e
        BY SameAppend
    <2>2. Len(log) + 1 \in 1 .. Len(log) + 1 /\ Len(log) + 1 \in Nat
        OBVIOUS
    <2> QED
        BY <1>2, <2>1, <2>2 DEF Carried
<1> QED
    BY <1>1, <1>2, <1>3, <1>4, <1>5, <1>6, <1>7

\* Old writes stay in their leaders' logs.
LEMMA OldWritesLed ==
    ASSUME NEW led \in Histories, WritesLed(writes, led), NEW grown \in Histories,
           Grows(led, grown)
    PROVE  WritesLed(writes, grown)
<1>1. ASSUME NEW w \in writes PROVE w.epoch \in Nat /\ Carried(grown[w.epoch], w)
    <2>1. PICK e \in Nat : e = w.epoch
        BY DEF WritesLed
    <2>2. Carried(led[e], w)
        BY <2>1 DEF WritesLed
    <2>3. w.offset <= Len(led[e])
        BY <2>2 DEF Carried
    <2> QED
        BY <2>1, <2>2, <2>3, CarriedGrows
<1> QED
    BY <1>1 DEF WritesLed

LEMMA LedLog ==
    ASSUME NEW led \in Histories, NEW e \in Nat
    PROVE  led[e] \in Seq(Nat) /\ Len(led[e]) \in Nat
<1>1. led[e] \in Seq(Nat)
    BY DEF Histories
<1> QED
    BY <1>1

\* What follows the names that a leader's log creates still does when the
\* leader writes more.
LEMMA SameNamesBelow ==
    ASSUME NEW led \in Histories, NEW grown \in Histories, Grows(led, grown),
           NEW e \in Nat, NEW offset \in Nat, offset <= Len(led[e]) + 1,
           writes \subseteq writes', \A n \in writes' \ writes : ~Carried(led[e], n)
    PROVE  NamesBelow(writes', grown[e], offset) = NamesBelow(writes, led[e], offset)
<1>1. Len(led[e]) \in Nat /\ Len(grown[e]) \in Nat
    BY LedLog
<1>2. ASSUME NEW x, Carried(led[e], x) \/ Carried(grown[e], x), x.offset < offset
      PROVE  Carried(led[e], x) <=> Carried(grown[e], x)
    <2>1. x.offset \in Nat
        BY <1>1, <1>2 DEF Carried
    <2>2. x.offset <= Len(led[e])
        BY <1>1, <1>2, <2>1
    <2> QED
        BY <2>2, CarriedGrows
<1>3. {x \in writes' : Carried(grown[e], x) /\ x.offset < offset}
        = {x \in writes : Carried(led[e], x) /\ x.offset < offset}
    BY <1>2
<1> QED
    BY <1>3 DEF NamesBelow

\* A plan taken with an idle tail is all that the log creates.
LEMMA NewPlanHolds ==
    ASSUME TypeOK, NEW v \in Voters, replica[v].hwm <= Len(replica[v].log),
           uncommitted_tail_is_idle(replica[v])
    PROVE  NamesBelow(writes, replica[v].log, Len(replica[v].log) + 1) = image(replica[v])
<1>1. PICK r \in Replica : r = replica[v]
    BY DEF TypeOK
<1>2. PICK log \in Seq(Nat), h \in Nat : log = r.log /\ h = r.hwm /\ h <= Len(log)
    BY <1>1, ReplicaFields
<1>3. Len(log) \in Nat
    OBVIOUS
<1>4. ASSUME NEW x PROVE Carried(log, x) /\ x.offset < Len(log) + 1 <=>
            \/ x.offset \in 1 .. h /\ log[x.offset] = x.epoch
            \/ x.offset \in h + 1 .. Len(log) /\ log[x.offset] = x.epoch
    <2>1. x.offset \in 1 .. Len(log) <=> x.offset \in 1 .. h \/ x.offset \in h + 1 .. Len(log)
        BY <1>2, <1>3
    <2>2. x.offset \in 1 .. Len(log) => x.offset < Len(log) + 1
        BY <1>3
    <2> QED
        BY <2>1, <2>2 DEF Carried
<1>5. {x \in writes : Carried(log, x) /\ x.offset < Len(log) + 1}
        = WritesIn(log, 1, h) \cup WritesIn(log, h + 1, Len(log))
    BY <1>4 DEF WritesIn
<1>6. NamesBelow(writes, log, Len(log) + 1) = CreatedIn(log, 1, h) \cup CreatedIn(log, h + 1, Len(log))
    BY <1>5 DEF NamesBelow, CreatedIn
<1>7. CreatedIn(log, h + 1, Len(log)) = {}
    BY <1>1, <1>2 DEF uncommitted_tail_is_idle
<1> QED
    BY <1>1, <1>2, <1>6, <1>7 DEF image

\* What was written goes on with the history of the logs.
LEMMA WritesGrow ==
    ASSUME TypeOK, TypeOK', VoteInv, VoteInv', ElectionSafety', NamesWait,
           \A v \in Voters : replica[v].hwm <= Len(replica[v].log),
           NEW led \in Histories, LogPast(led), WritesPast(writes, led),
           NEW grown \in Histories, LogPast(grown)', Grows(led, grown),
           NEW t \in Voters, Turns(t),
           \A e \in Nat : \/ grown[e] = led[e]
                          \/ \E v \in Voters : replica'[v].role.name = "Leader" /\ replica'[v].epoch = e,
           writes' = writes \/ \E v \in Voters : \E value, plan : Writes(v, value, plan)
    PROVE  WritesPast(writes', grown)
<1>1. \A e \in Nat : NamesOnce(writes', grown[e])
    BY OnceGrows
<1>2. WritesLed(writes, led) /\ PlansHold(writes, led) /\ WritesLed(writes, grown)
    BY OldWritesLed DEF WritesPast
<1>3. ASSUME writes \subseteq writes', NEW w \in writes, w.plan # Nil,
             \A n \in writes' \ writes : ~Carried(led[w.epoch], n)
      PROVE  NamesBelow(writes', grown[w.epoch], w.offset) = w.plan
    <2>1. PICK e \in Nat : e = w.epoch /\ Carried(led[e], w)
        BY <1>2 DEF WritesLed
    <2>2. w.offset \in Nat /\ w.offset <= Len(led[e]) + 1
        <3>1. Len(led[e]) \in Nat
            BY LedLog
        <3> QED
            BY <2>1, <3>1 DEF Carried
    <2>3. NamesBelow(writes, led[e], w.offset) = w.plan
        BY <1>2, <1>3, <2>1 DEF PlansHold
    <2> QED
        <3>1. NamesBelow(writes', grown[e], w.offset) = NamesBelow(writes, led[e], w.offset)
            BY SMTT(40), <1>3, <2>1, <2>2, SameNamesBelow
        <3> QED
            BY <2>1, <2>3, <3>1
<1>4. CASE writes' = writes
    BY <1>1, <1>2, <1>3, <1>4 DEF WritesPast, PlansHold
<1>5. ASSUME NEW v \in Voters, NEW value, NEW plan, Writes(v, value, plan)
      PROVE  WritesPast(writes', grown)
    <2>1. PICK n : n = NewWrite(v, value, plan)
        OBVIOUS
    <2>2. /\ writes' = writes \cup {n} /\ IsLeader(v) /\ n.value = value /\ n.plan = plan
          /\ n.epoch \in Nat /\ n.offset \in Nat /\ n.epoch = replica[v].epoch
          /\ led[n.epoch] = replica[v].log /\ Len(led[n.epoch]) + 1 = n.offset
          /\ Carried(grown[n.epoch], n)
        BY <1>5, <2>1, NewWrites
    <2>3. WritesLed(writes', grown)
        BY <1>2, <2>2 DEF WritesLed
    <2>4. \A e \in Nat : ~Carried(led[e], n)
        <3>1. \A e \in Nat : led[e] \in Seq(Nat) /\ Sourced(led, led[e])
            BY DEF Histories, LogPast, LedInOrder
        <3> QED
            BY <2>1, <2>2, <3>1, NewIsNowhere
    <2>5. \A w \in writes : w.plan # Nil => NamesBelow(writes', grown[w.epoch], w.offset) = w.plan
        BY <1>2, <1>3, <2>2, <2>4 DEF WritesLed
    <2>6. ASSUME n.plan # Nil PROVE NamesBelow(writes', grown[n.epoch], n.offset) = n.plan
        <3>1. plan = image(replica[v]) /\ uncommitted_tail_is_idle(replica[v])
            BY <1>5, <2>2, <2>6 DEF Writes
        <3>2. NamesBelow(writes, led[n.epoch], n.offset) = plan
            BY <2>2, <3>1, NewPlanHolds
        <3>3. PICK e \in Nat : e = n.epoch
            BY <2>2
        <3>4. NamesBelow(writes', grown[e], n.offset) = NamesBelow(writes, led[e], n.offset)
            <4>1. n.offset <= Len(led[e]) + 1
                BY <2>2, <3>3
            <4> QED
                BY <2>2, <2>4, <4>1, SameNamesBelow
        <3> QED
            BY <2>2, <3>2, <3>3, <3>4
    <2> QED
        BY <1>1, <2>2, <2>3, <2>5, <2>6 DEF WritesPast, PlansHold
<1> QED
    BY <1>4, <1>5

\* Who starts to lead wrote nothing itself, and who leads keeps what it wrote
\* parked: the waiters above its watermark are not settled.
LEMMA NamesWaitOn ==
    ASSUME TypeOK, TypeOK', VoteInv, VoteInv', ElectionSafety', NamesWait, KeepsWaiting,
           \A v \in Voters : replica[v].hwm <= Len(replica[v].log),
           NEW led \in Histories, LogPast(led), WritesPast(writes, led),
           NEW grown \in Histories, LogPast(grown)', NEW t \in Voters, Turns(t),
           writes' = writes \/ \E v \in Voters : \E value, plan : Writes(v, value, plan)
    PROVE  NamesWait'
<1>1. SUFFICES ASSUME NEW v \in Voters, replica'[v].role.name = "Leader", NEW w \in writes',
                      Carried(replica'[v].log, w), w.value \in Names,
                      w.offset > replica'[v].hwm, w.offset > replica'[v].role.epochStart
               PROVE  w.epoch = replica'[v].epoch /\ w.offset \in waiters'[v]
    BY DEF NamesWait, IsLeader
<1>2. PICK r \in Replica, q \in Replica : r = replica[v] /\ q = replica'[v]
    BY DEF TypeOK
<1>3. /\ r.log \in Seq(Nat) /\ r.hwm \in Nat /\ r.epoch \in Nat /\ Len(r.log) \in Nat
      /\ q.log \in Seq(Nat) /\ q.hwm \in Nat /\ q.epoch \in Nat /\ Len(q.log) \in Nat
      /\ q.role.epochStart \in Nat /\ w.offset \in Nat
    <2>1. /\ r.log \in Seq(Nat) /\ r.hwm \in Nat /\ r.epoch \in Nat
          /\ q.log \in Seq(Nat) /\ q.hwm \in Nat /\ q.epoch \in Nat /\ q.role \in Role
        BY ReplicaFields
    <2>2. q.role.epochStart \in Nat
        BY <1>1, <1>2, <2>1, RoleFields
    <2>3. Len(r.log) \in Nat /\ Len(q.log) \in Nat
        BY <2>1
    <2>4. w.offset \in 1 .. Len(q.log)
        BY <1>1, <1>2 DEF Carried
    <2> QED
        BY <2>1, <2>2, <2>3, <2>4
<1>4. \/ q = r \/ (v = t /\ (StaysLeader(r, q) \/ StartsToLead(r, q)))
    BY <1>1, <1>2 DEF Turns, GoesTo
<1>5. WritesLed(writes, led)
    BY DEF WritesPast
<1>6. ASSUME w \in writes PROVE w.epoch = q.epoch /\ w.offset \in waiters'[v]
    <2>1. PICK e \in Nat : e = w.epoch /\ Carried(led[e], w)
        BY <1>5, <1>6 DEF WritesLed
    <2>2. ASSUME r.role.name = "Leader", q.epoch = r.epoch, Carried(r.log, w), w.offset > r.hwm,
                 q.role.epochStart = r.role.epochStart
          PROVE  w.epoch = q.epoch /\ w.offset \in waiters'[v]
        <3>1. w.epoch = r.epoch /\ w.offset \in waiters[v]
            BY <1>1, <1>2, <1>6, <2>2 DEF NamesWait, IsLeader
        <3>2. ~(w.offset <= q.hwm)
            BY <1>1, <1>2, <1>3
        <3> QED
            BY <1>1, <1>2, <2>2, <3>1, <3>2 DEF KeepsWaiting
    <2>3. CASE q = r
        BY <1>1, <1>2, <2>2, <2>3
    <2>4. CASE v = t /\ StaysLeader(r, q)
        <3>1. r.role.name = "Leader" /\ q.epoch = r.epoch /\ q.role.epochStart = r.role.epochStart
            BY <2>4 DEF StaysLeader
        <3>2. q.hwm >= r.hwm
            BY <1>2, <2>4 DEF StaysLeader
        <3>3. w.offset > r.hwm
            BY <1>1, <1>2, <1>3, <3>2
        <3>4. q.log = r.log \/ q.log = Append(r.log, q.epoch)
            BY <1>2, <2>4, <3>1 DEF Turns, GoesTo
        <3>5. Carried(r.log, w)
            <4>1. SUFFICES ASSUME ~Carried(r.log, w) PROVE FALSE
                OBVIOUS
            <4>2. w.offset = Len(r.log) + 1 /\ w.epoch = r.epoch
                <5>1. q.log = Append(r.log, r.epoch)
                    BY <1>1, <1>2, <3>1, <3>4, <4>1
                <5>2. Carried(Append(r.log, r.epoch), w)
                    BY <1>1, <1>2, <5>1
                <5> QED
                    BY <1>3, <4>1, <5>2, CarriedAppend
            <4>3. led[r.epoch] = r.log
                BY <1>2, <3>1 DEF LogPast, LeadersHold, IsLeader
            <4> QED
                BY <2>1, <4>1, <4>2, <4>3
        <3> QED
            BY <2>2, <3>1, <3>3, <3>5
    <2>5. CASE v = t /\ StartsToLead(r, q)
        <3>1. q.log = Append(r.log, q.epoch) /\ q.role.epochStart = Len(r.log)
            BY <2>5 DEF StartsToLead
        <3>2. led[q.epoch] = <<>>
            BY <1>1, <1>2, <2>5, StartsUnled
        <3>3. ~Carried(r.log, w)
            BY <1>1, <1>2, <1>3, <3>1 DEF Carried
        <3>4. w.epoch = q.epoch
            BY <1>1, <1>2, <1>3, <3>1, <3>3, CarriedAppend
        <3>5. Carried(<<>>, w)
            BY <2>1, <3>2, <3>4
        <3> QED
            BY <3>5 DEF Carried
    <2> QED
        BY <1>4, <2>3, <2>4, <2>5
<1>7. ASSUME w \notin writes PROVE w.epoch = q.epoch /\ w.offset \in waiters'[v]
    <2>1. PICK u \in Voters : \E value, plan : Writes(u, value, plan)
        BY <1>7
    <2>2. PICK value, plan : Writes(u, value, plan)
        BY <2>1
    <2>3. PICK n : n = NewWrite(u, value, plan)
        OBVIOUS
    <2>4. /\ writes' = writes \cup {n} /\ IsLeader(u) /\ n.value = value
          /\ n.epoch = replica[u].epoch /\ led[n.epoch] = replica[u].log
          /\ Len(led[n.epoch]) + 1 = n.offset
        BY <2>2, <2>3, NewWrites
    <2>5. w = n
        BY <1>7, <2>4
    <2>6. Sourced(led, r.log)
        BY <1>2 DEF LogPast, LogsSourced
    <2>7. ~Carried(r.log, w)
        BY <1>3, <2>3, <2>4, <2>5, <2>6, NewIsNowhere
    <2>8. v = t /\ q # r
        BY <1>1, <1>2, <1>4, <2>7
    <2>9. u = t
        <3>1. SUFFICES ASSUME u # t PROVE FALSE
            OBVIOUS
        <3>2. replica'[u] = replica[u]
            BY <3>1 DEF Turns
        <3>3. PICK a \in Seq(Nat), f \in Nat : a = replica[u].log /\ f = replica[u].epoch
            BY ReplicaFields DEF TypeOK
        <3>4. Append(a, f) = a
            BY <2>2, <3>2, <3>3, SubmitLeads DEF Writes
        <3>5. Len(Append(a, f)) = Len(a) + 1 /\ Len(a) \in Nat
            BY SameAppend
        <3> QED
            BY <3>4, <3>5
    <2>10. w.offset = Len(r.log) + 1 /\ w.epoch = r.epoch /\ w.value = value
        BY <1>2, <2>4, <2>5, <2>8, <2>9
    <2>11. q.epoch = r.epoch
        BY <1>2, <2>2, <2>8, <2>9, SubmitLeads DEF Writes
    <2>12. Len(r.log) + 1 \in waiters'[v] \/ Len(r.log) + 1 <= q.hwm
        BY <1>1, <1>2, <2>2, <2>8, <2>9, <2>10 DEF Writes
    <2>13. ~(w.offset <= q.hwm)
        BY <1>1, <1>2, <1>3
    <2> QED
        BY <2>10, <2>11, <2>12, <2>13
<1> QED
    BY <1>2, <1>6, <1>7

\* What a voter has applied, like its log, came from the leaders.
LEMMA AppliedSourced ==
    ASSUME TypeOK', NEW grown \in Histories, LogPast(grown)', NEW v \in Voters,
           replica'[v].hwm <= Len(replica'[v].log)
    PROVE  AppliedBatches(v) \in Seq(Nat) /\ Sourced(grown, AppliedBatches(v))
<1>1. PICK q \in Replica : q = replica'[v]
    BY DEF TypeOK
<1>2. PICK log \in Seq(Nat), h \in Nat, e \in Nat : log = q.log /\ h = q.hwm /\ e = q.epoch
    BY ReplicaFields
<1>3. Sourced(grown, log) /\ Ordered(log, e)
    BY <1>1, <1>2 DEF LogPast, LogsSourced
<1>4. PICK p \in Seq(Nat) : p = Prefix(log, h) /\ Len(p) = h /\ SameBelow(p, log, h)
    BY <1>1, <1>2, AppliedLog
<1>5. Sourced(grown, p)
    BY <1>3, <1>4, BeginSourced DEF Begins
<1> QED
    BY <1>1, <1>2, <1>4, <1>5 DEF AppliedBatches

\* Nobody is refused.
LEMMA NobodyRefused ==
    ASSUME TypeOK', NEW grown \in Histories, LogPast(grown)', WritesPast(writes', grown),
           \A v \in Voters : replica'[v].hwm <= Len(replica'[v].log), RefusesRightly,
           NEW a \in answers' \ answers
    PROVE  a.outcome # "rejected"
<1>1. SUFFICES ASSUME a.outcome = "rejected" PROVE FALSE
    OBVIOUS
<1>2. PICK v \in Voters : a.offset <= replica'[v].hwm /\ Rejected(replica'[v].log, a.offset)
    BY <1>1 DEF RefusesRightly
<1>3. PICK log \in Seq(Nat), h \in Nat : log = replica'[v].log /\ h = replica'[v].hwm
    BY ReplicaFields DEF TypeOK
<1>4. PICK w \in writes', x \in writes' :
            /\ w.offset = a.offset /\ w.epoch = log[a.offset] /\ w.value \in Names
            /\ x.offset < a.offset /\ x.epoch = log[x.offset] /\ x.value = w.value
    BY <1>2, <1>3 DEF Rejected
<1>5. ASSUME NEW y \in writes' PROVE y.offset \in Nat /\ 1 <= y.offset
    <2>1. PICK e \in Nat : e = y.epoch /\ Carried(grown[e], y)
        BY DEF WritesPast, WritesLed
    <2>2. Len(grown[e]) \in Nat
        BY LedLog
    <2> QED
        BY <2>1, <2>2 DEF Carried
<1>6. h <= Len(log) /\ Len(log) \in Nat /\ w.offset <= h
    BY <1>2, <1>3, <1>4
<1>7. w.offset \in 1 .. Len(log) /\ x.offset \in 1 .. Len(log) /\ x.offset # w.offset
    BY <1>4, <1>5, <1>6
<1>8. Carried(log, w) /\ Carried(log, x)
    BY <1>4, <1>7 DEF Carried
<1>9. Sourced(grown, log)
    BY <1>3 DEF LogPast, LogsSourced
<1>10. NamesOnce(writes', log)
    BY <1>9, OnceInSourced DEF WritesPast
<1> QED
    BY <1>4, <1>7, <1>8, <1>10 DEF NamesOnce

\* Every step keeps names unique and plans in force, and refuses nobody.
LEMMA WritesStep ==
    ASSUME TypeOK, TypeOK', VoteInv, VoteInv', ElectionSafety', KnownInv, PlanVoters, ParkInv,
           WritesInv, [CommitNext]_allVars
    PROVE  WritesInv' /\ (AdmittedIsAccepted => AdmittedIsAccepted')
<1>1. PICK led \in Histories :
            LogPast(led) /\ WritesPast(writes, led) /\ Sourced(led, chosen)
    BY DEF WritesInv
<1>2. chosen \in Seq(Nat) /\ WatermarksReached /\ NamesWait
    BY DEF WritesInv
<1>3. \A v \in Voters : replica[v].hwm <= Len(replica[v].log)
    BY <1>2 DEF WatermarksReached
<1>4. [Next]_vars /\ (Choose \/ UNCHANGED <<vars, chosen>>)
    BY CommitKinds, CommitTurns
<1>5. PICK t \in Voters : Turns(t)
    BY <1>4, TurnOfOne
<1>6. /\ KeepsWaiting /\ RefusesRightly
      /\ writes' = writes \/ \E v \in Voters : \E value, plan : Writes(v, value, plan)
    BY WriteKinds DEF ParkInv
<1>7. PICK grown \in Histories :
        /\ LogPast(grown)' /\ Grows(led, grown)
        /\ \A e \in Nat : \/ grown[e] = led[e]
                          \/ \E v \in Voters : replica'[v].role.name = "Leader" /\ replica'[v].epoch = e
    <2>1. LogsGoOn(led)
        BY <1>1, <1>4, NextLog
    <2> QED
        BY <2>1 DEF LogsGoOn
<1>8. WritesPast(writes', grown)
    BY <1>1, <1>2, <1>3, <1>5, <1>6, <1>7, WritesGrow
<1>9. NamesWait'
    BY <1>1, <1>2, <1>3, <1>5, <1>6, <1>7, NamesWaitOn
<1>10. /\ WatermarksReached'
       /\ chosen' = chosen \/ \E v \in Voters : chosen' = AppliedBatches(v)
    BY <1>2, <1>4, <1>5, ChosenMoves
<1>11. \A v \in Voters : replica'[v].hwm <= Len(replica'[v].log)
    BY <1>10 DEF WatermarksReached
<1>12. chosen' \in Seq(Nat) /\ Sourced(grown, chosen')
    <2>1. CASE chosen' = chosen
        BY <1>1, <1>2, <1>7, <2>1, GrownSources
    <2>2. ASSUME NEW v \in Voters, chosen' = AppliedBatches(v)
          PROVE  chosen' \in Seq(Nat) /\ Sourced(grown, chosen')
        BY <1>7, <1>11, <2>2, AppliedSourced
    <2> QED
        BY <1>10, <2>1, <2>2
<1>13. WritesInv'
    BY <1>7, <1>8, <1>9, <1>10, <1>12 DEF WritesInv
<1>14. \A a \in answers' \ answers : a.outcome # "rejected"
    BY <1>6, <1>7, <1>8, <1>11, NobodyRefused
<1> QED
    BY <1>13, <1>14 DEF AdmittedIsAccepted

LEMMA InitWrites ==
    ASSUME Init, CommitInit
    PROVE  WritesInv /\ AdmittedIsAccepted
<1>1. PICK led \in Histories : LogPast(led)
    BY InitLog DEF LogInv
<1>2. \A v \in Voters : replica[v].hwm = 0 /\ replica[v].log = <<>>
    BY DEF Init, BootstrapReplica
<1>3. /\ chosen = <<>> /\ Len(chosen) = 0 /\ chosen \in Seq(Nat) /\ Len(<<>>) = 0 /\ 0 <= 0
    BY DEF CommitInit
<1>4. WatermarksReached
    BY <1>2, <1>3 DEF WatermarksReached
<1>5. writes = {} /\ answers = {}
    BY DEF CommitInit
<1>6. WritesPast(writes, led) /\ NamesWait /\ AdmittedIsAccepted
    BY <1>5 DEF WritesPast, WritesLed, NamesOnce, PlansHold, NamesWait, AdmittedIsAccepted
<1>7. Sourced(led, chosen)
    BY <1>3 DEF Sourced
<1> QED
    BY <1>1, <1>3, <1>4, <1>6, <1>7 DEF WritesInv

\* A planned write that was committed follows the names of its plan.
LEMMA PlansChosen ==
    ASSUME WritesInv
    PROVE  PlansCommitOnTheirImage
<1>1. PICK led \in Histories : WritesPast(writes, led) /\ Sourced(led, chosen)
    BY DEF WritesInv
<1>2. PICK log \in Seq(Nat) : log = chosen
    BY DEF WritesInv
<1>3. ASSUME NEW w \in writes, w.plan # Nil, w.offset <= Len(log), log[w.offset] = w.epoch
      PROVE  CreatedIn(log, 1, w.offset - 1) = w.plan
    <2>1. PICK e \in Nat : e = w.epoch /\ Carried(led[e], w)
        BY <1>1 DEF WritesPast, WritesLed
    <2>2. Len(led[e]) \in Nat /\ Len(log) \in Nat
        BY LedLog
    <2>3. w.offset \in Nat /\ w.offset \in 1 .. Len(log)
        BY <1>3, <2>1, <2>2 DEF Carried
    <2>4. Carried(log, w)
        BY <1>3, <2>3 DEF Carried
    <2>5. \A x : x.offset \in 1 .. w.offset => (Carried(log, x) <=> Carried(led[e], x))
        BY <1>1, <1>2, <2>1, <2>4, CarriedWith
    <2>6. ASSUME NEW x PROVE x.offset \in 1 .. w.offset - 1 /\ log[x.offset] = x.epoch
                                <=> Carried(led[e], x) /\ x.offset < w.offset
        <3>1. ASSUME Carried(led[e], x), x.offset < w.offset PROVE x.offset \in 1 .. w.offset - 1
            <4>1. x.offset \in 1 .. Len(led[e])
                BY <3>1 DEF Carried
            <4> QED
                BY <2>2, <2>3, <3>1, <4>1
        <3>2. ASSUME x.offset \in 1 .. w.offset - 1
              PROVE  /\ x.offset \in 1 .. w.offset /\ x.offset < w.offset
                     /\ x.offset \in 1 .. Len(log)
            BY <2>2, <2>3, <3>2
        <3> QED
            BY <2>5, <3>1, <3>2 DEF Carried
    <2>7. WritesIn(log, 1, w.offset - 1) = {x \in writes : Carried(led[e], x) /\ x.offset < w.offset}
        BY <2>6 DEF WritesIn
    <2>8. CreatedIn(log, 1, w.offset - 1) = NamesBelow(writes, led[e], w.offset)
        BY <2>7 DEF CreatedIn, NamesBelow
    <2>9. NamesBelow(writes, led[e], w.offset) = w.plan
        BY <1>1, <1>3, <2>1 DEF WritesPast, PlansHold
    <2> QED
        BY <2>8, <2>9
<1> QED
    BY <1>2, <1>3 DEF PlansCommitOnTheirImage

(***************************************************************************)
(* The theorems.                                                           *)
(***************************************************************************)

\* Every behaviour of the controllers is one of the quorum: submits, plans and
\* waiters decide when a turn is taken and what is answered, never what a turn
\* does to a replica (admit_and_append, advance_and_apply).
THEOREM ControllersAreQuorum == CommitSpec => Spec /\ []PlanVoters
<1>1. CommitInit => PlanVoters
    BY DEF CommitInit, PlanVoters
<1>2. PlanVoters /\ [CommitNext]_allVars => [Next]_vars /\ PlanVoters'
    BY CommitKinds
<1> QED
    BY <1>1, <1>2, PTL DEF CommitSpec, Spec

\* No turn leaves a waiter that nothing will settle: a parked submit is always
\* on the leader that took it, for a batch of its epoch above its watermark.
THEOREM NoWaiterStranded == CommitSpec => []NoWaiterIsStranded
<1>1. Init /\ CommitInit => ParkInv
    BY InitChosen
<1>2. /\ TypeOK /\ TypeOK' /\ KnownInv /\ PlanVoters /\ ParkInv /\ [CommitNext]_allVars
      => ParkInv'
    BY CommitTurns
<1>3. ParkInv => NoWaiterIsStranded
    BY DEF ParkInv
<1> QED
    BY <1>1, <1>2, <1>3, ControllersAreQuorum, TypeCorrect, KnownInvariant, PTL DEF CommitSpec

\* The quorum is one growing log: every voter applies a prefix of it, however
\* it restarts, and every submit answered as committed is in it.
THEOREM OneLogImplemented == ASSUME ~FetchesOverlap PROVE CommitSpec => ImplementsOneLog
<1>1. Init /\ CommitInit => ChosenInv /\ ParkInv /\ OneLog!Init
    BY InitChosen
<1>2. /\ TypeOK /\ TypeOK' /\ KnownInv /\ PlanVoters /\ ParkInv /\ [CommitNext]_allVars
      => ParkInv'
    BY CommitTurns
<1>3. /\ TypeOK /\ TypeOK' /\ VoteInv /\ VoteInv' /\ ElectionSafety' /\ KnownInv
      /\ PlanVoters /\ ParkInv /\ ChosenInv /\ [CommitNext]_allVars
      => ChosenInv' /\ OneLog!Next
    BY OneLogStep
<1> QED
    BY <1>1, <1>2, <1>3, ControllersAreQuorum, TypeCorrect, VotesInvariant, ElectionSafe,
       KnownInvariant, PTL DEF CommitSpec, ImplementsOneLog, OneLog!Spec

\* What the leaders wrote: some history of the logs explains the state, no log
\* has a name twice, and a planned write follows the names of its plan.
THEOREM WritesInvariant == CommitSpec => [](WritesInv /\ AdmittedIsAccepted)
<1>1. Init /\ CommitInit => WritesInv /\ AdmittedIsAccepted /\ ParkInv
    BY InitWrites, InitChosen
<1>2. /\ TypeOK /\ TypeOK' /\ KnownInv /\ PlanVoters /\ ParkInv /\ [CommitNext]_allVars
      => ParkInv'
    BY CommitTurns
<1>3. /\ TypeOK /\ TypeOK' /\ VoteInv /\ VoteInv' /\ ElectionSafety' /\ KnownInv
      /\ PlanVoters /\ ParkInv /\ WritesInv /\ AdmittedIsAccepted /\ [CommitNext]_allVars
      => WritesInv' /\ AdmittedIsAccepted'
    BY WritesStep
<1> QED
    BY <1>1, <1>2, <1>3, ControllersAreQuorum, TypeCorrect, VotesInvariant, ElectionSafe,
       KnownInvariant, PTL DEF CommitSpec

\* A submit that a leader admitted is never refused when it commits: its name
\* is in nothing that the leader's log may still commit (admit_and_append).
THEOREM AdmittedAccepted == CommitSpec => []AdmittedIsAccepted
BY WritesInvariant, PTL

\* A compare-and-set submit commits on top of exactly the image that its
\* caller planned it from (on_submit_change_if_image).
THEOREM PlansCommit == CommitSpec => []PlansCommitOnTheirImage
<1>1. WritesInv => PlansCommitOnTheirImage
    BY PlansChosen
<1> QED
    BY <1>1, WritesInvariant, PTL

=============================================================================
