---------------------------- MODULE KraftCommit ----------------------------
(***************************************************************************)
(* What the controllers of a KRaft quorum write, and what they answer: the *)
(* submits that a leader admits, the commit waiters it parks for them, and *)
(* the image each replica applies.  A turn of KraftQuorum ends by settling *)
(* the waiters: those the high watermark reached are answered, and the     *)
(* rest fail when the leadership or its epoch is lost.                     *)
(*                                                                         *)
(* The batch at an offset is identified by its epoch, so what batches      *)
(* carry is kept beside the logs: a topic's name, or a KIP-835 no-op; a    *)
(* batch with no write is a leader's LeaderChange.  An image is the set of *)
(* topic names it holds.  A compare-and-set submit names the image that    *)
(* its caller planned it from, which is republished, and so another one,   *)
(* whenever the role or the epoch changes.                                 *)
(***************************************************************************)
EXTENDS KraftQuorum

CONSTANTS
    Names,      \* topic names
    NoOp        \* what the leader appends when it is idle

ASSUME NamesAssumption == NoOp \notin Names /\ Nil \notin Names

VARIABLES
    writes,     \* every batch a leader submitted: epoch, offset, value, plan
    waiters,    \* waiters[v]: the offsets its parked submits need
    plans,      \* images read by callers: the voter, and what it published
    answers,    \* history: how each waiter was answered
    chosen      \* history: the longest log that any voter saw committed

commitVars == <<writes, waiters, plans, answers, chosen>>
allVars == <<vars, commitVars>>

(***************************************************************************)
(* Images.                                                                 *)
(***************************************************************************)
WritesIn(log, first, last) ==
    {w \in writes : w.offset \in first .. last /\ log[w.offset] = w.epoch}

\* The names that applying a part of a log adds; a name that exists is refused.
CreatedIn(log, first, last) == {w.value : w \in WritesIn(log, first, last)} \cap Names

\* The image after every committed batch is applied.
image(r) == CreatedIn(r.log, 1, r.hwm)

\* An image as its readers tell it apart: contents, and who published it.
published(r) == [names |-> image(r), epoch |-> r.epoch, leads |-> r.role.name = "Leader"]

\* Nothing but no-ops and LeaderChange batches above the high watermark.
uncommitted_tail_is_idle(r) == CreatedIn(r.log, r.hwm + 1, Len(r.log)) = {}

\* Mutant: a leader knows the names of its own submits only.
earlier_epoch_topic_names_none(r) == {}

\* The names in what earlier leaders left uncommitted in this leader's log.
earlier_epoch_topic_names(r) == CreatedIn(r.log, r.hwm + 1, r.role.epochStart)

\* The names that parked submits of this leader create.
waiting_names(v) ==
    {w.value : w \in {x \in writes : x.epoch = replica[v].epoch /\ x.offset \in waiters[v]}}

-----------------------------------------------------------------------------
(***************************************************************************)
(* The end of a turn.                                                      *)
(***************************************************************************)
LeadershipLost(v) ==
    /\ replica[v].role.name = "Leader"
    /\ replica'[v].role.name # "Leader" \/ replica'[v].epoch # replica[v].epoch

\* Whether the write at an offset created a name that the log held before.
Rejected(log, offset) ==
    \E w \in writes' : w.offset = offset /\ w.epoch = log[offset] /\ w.value \in Names
        /\ \E x \in writes' : x.offset < offset /\ x.epoch = log[x.offset] /\ x.value = w.value

AnswerOf(v, offset, outcome) ==
    [epoch |-> replica[v].epoch, offset |-> offset, outcome |-> outcome]

\* Mutant: the waiters are answered whatever the high watermark is.
try_resolve_waiters_early(v, parked) ==
    {AnswerOf(v, o, "ok") : o \in {p \in parked : p <= Len(replica'[v].log)}}

try_resolve_waiters(v, parked) ==
    {AnswerOf(v, o, IF Rejected(replica'[v].log, o) THEN "rejected" ELSE "ok") :
        o \in {p \in parked : p <= replica'[v].hwm}}

\* Mutant: waiters outlive the leadership they were parked under.
fail_waiters_on_leadership_loss_never(v, parked) == {}

fail_waiters_on_leadership_loss(v, parked) ==
    IF LeadershipLost(v) THEN {AnswerOf(v, o, "not_leader") : o \in parked} ELSE {}

\* What voter v settles of the waiters parked by the end of its turn.
Settled(v, parked) ==
    LET resolved == try_resolve_waiters(v, parked)
        rest     == parked \ {a.offset : a \in resolved}
    IN  resolved \cup fail_waiters_on_leadership_loss(v, rest)

\* A new watermark may show more of the log to be committed.
AppliedBatches(v) == Prefix(replica'[v].log, replica'[v].hwm)

Choose ==
    chosen' = IF \E v \in Voters : Len(AppliedBatches(v)) > Len(chosen)
              THEN AppliedBatches(CHOOSE v \in Voters :
                        \A w \in Voters : Len(AppliedBatches(v)) >= Len(AppliedBatches(w)))
              ELSE chosen

\* parked[v]: the waiters of each voter before its turn settles them.
Settle(parked) ==
    /\ waiters' = [v \in Voters |-> parked[v] \ {a.offset : a \in Settled(v, parked[v])}]
    /\ answers' = answers \cup UNION {Settled(v, parked[v]) : v \in Voters}
    /\ Choose

-----------------------------------------------------------------------------
CommitInit ==
    /\ writes = {} /\ plans = {} /\ answers = {} /\ chosen = <<>>
    /\ waiters = [v \in Voters |-> {}]

\* A turn of the engine that submits nothing.
Turn(A) ==
    /\ A
    /\ UNCHANGED <<writes, plans>>
    /\ Settle(waiters)

NewWrite(v, value, plan) ==
    [epoch |-> replica[v].epoch, offset |-> Len(replica[v].log) + 1, value |-> value,
     plan |-> plan]

\* append_noop: the idle leader's batch, which nobody waits for.
AppendNoOp(v) ==
    /\ Submit(v)
    /\ writes' = writes \cup {NewWrite(v, NoOp, Nil)}
    /\ UNCHANGED plans
    /\ Settle(waiters)

\* An admitted batch and its waiter.
AdmitAndPark(v, name, plan) ==
    /\ IsLeader(v)
    /\ name \notin image(replica[v]) \cup waiting_names(v) \cup earlier_epoch_topic_names(replica[v])
    /\ Submit(v)
    /\ writes' = writes \cup {NewWrite(v, name, plan)}
    /\ Settle([waiters EXCEPT ![v] = @ \cup {Len(replica[v].log) + 1}])

\* submit_change; the refusals change nothing.
SubmitChange(v, name) ==
    /\ AdmitAndPark(v, name, Nil)
    /\ UNCHANGED plans

\* A caller reads the image that voter v published last.
ReadImage(v) ==
    /\ plans' = plans \cup {[voter |-> v, image |-> published(replica[v])]}
    /\ UNCHANGED <<vars, writes, waiters, answers, chosen>>

\* Mutant: only the identity of the image is compared.
PlanIsCurrent_image_only(v, p) == p.image = published(replica[v])

PlanIsCurrent(v, p) ==
    /\ p.image = published(replica[v])
    /\ uncommitted_tail_is_idle(replica[v])

\* submit_change_if_image: a plan is taken while its image still stands.
SubmitIfImage(p, name) ==
    /\ PlanIsCurrent(p.voter, p)
    /\ AdmitAndPark(p.voter, name, p.image.names)
    /\ plans' = plans \ {p}

\* The process of v restarts: its callers are gone, and its waiters unanswered.
RestartEngine(v) ==
    /\ Restart(v)
    /\ waiters' = [waiters EXCEPT ![v] = {}]
    /\ plans' = {p \in plans : p.voter # v}
    /\ Choose
    /\ UNCHANGED <<writes, answers>>

QuorumTurn ==
    \/ \E v \in Voters :
        ElectionTimeout(v) \/ FetchTimeout(v) \/ Resign(v) \/ Heartbeat(v)
    \/ \E m \in net : Receive(m) \/ Lose(m)

CommitNext ==
    \/ Turn(QuorumTurn)
    \/ \E v \in Voters :
        \/ AppendNoOp(v) \/ ReadImage(v) \/ RestartEngine(v)
        \/ \E name \in Names : SubmitChange(v, name)
    \/ \E p \in plans : \E name \in Names : SubmitIfImage(p, name)

CommitSpec == Init /\ CommitInit /\ [][CommitNext]_allVars

-----------------------------------------------------------------------------
(***************************************************************************)
(* Properties.                                                             *)
(***************************************************************************)

\* The quorum is one growing log: no voter applies, and no waiter is answered
\* with, anything that is not in it, whatever the elections in between
\* (advance_and_apply, try_resolve_waiters).
OneLog == INSTANCE CommittedLog WITH
    Readers   <- Voters,
    Entries   <- Nat,
    committed <- chosen,
    applied   <- [v \in Voters |-> Prefix(replica[v].log, replica[v].hwm)],
    answered  <- {<<a.offset, a.epoch>> : a \in {b \in answers : b.outcome # "not_leader"}}

ImplementsOneLog == OneLog!Spec

\* A submit the leader admitted is never refused when it commits: the names
\* of everything its log may still commit were looked at (admit_and_append).
AdmittedIsAccepted == \A a \in answers : a.outcome # "rejected"

\* A compare-and-set submit commits on top of exactly the image that its
\* caller planned it from (on_submit_change_if_image).
PlansCommitOnTheirImage ==
    \A w \in writes :
        /\ w.plan # Nil
        /\ w.offset <= Len(chosen)
        /\ chosen[w.offset] = w.epoch
        => CreatedIn(chosen, 1, w.offset - 1) = w.plan

\* A submit is parked only where its answer is still to come: on the leader
\* that took it, for a batch of its own epoch that the high watermark has not
\* reached.  No turn leaves a waiter that nothing will settle
\* (try_resolve_waiters, fail_waiters_on_leadership_loss).
NoWaiterIsStranded ==
    \A v \in Voters : \A o \in waiters[v] :
        /\ IsLeader(v)
        /\ o \in replica[v].hwm + 1 .. Len(replica[v].log)
        /\ replica[v].log[o] = replica[v].epoch

=============================================================================
