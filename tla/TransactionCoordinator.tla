----------------------- MODULE TransactionCoordinator -----------------------
(***************************************************************************)
(* Transactions of one transactional id: the brokers that take turns as    *)
(* its coordinator, the log of the state partition they share, the marker  *)
(* fan-outs, the partitions that data and markers go to, and the producers *)
(* that come and go, of which a fenced one may still have requests on the  *)
(* way.                                                                    *)
(*                                                                         *)
(* A coordinator acts on the entry it has cached.  It changes the entry by *)
(* a write to the state partition, under a lock, and publishes it once the *)
(* record is committed in its own term.  Markers are sent without a lock,  *)
(* so an entry may change under a fan-out, and two fan-outs may overlap.   *)
(***************************************************************************)
EXTENDS TxnEntry, Sequences, SequencesExt

CONSTANTS
    Brokers,        \* the replicas of the state partition
    Partitions,     \* the partitions a transaction may write
    MaxPid          \* bound: the last producer id that is handed out

ASSUME TxnAssumption == Brokers # {} /\ Partitions # {} /\ MaxPid \in Nat \ {0}

VARIABLES
    leader,     \* the broker that leads the state partition, and the epoch
    log,        \* the last committed entry of the state partition, and the uncommitted ones
    coord,      \* per broker, its coordinator
    jobs,       \* the marker fan-outs in progress
    late,       \* markers on their way that nobody waits for
    part,       \* per partition and producer id, see TxnPartition
    produces,   \* the produce requests in progress
    fresh,      \* the next producer id
    given,      \* the identities that producers were given
    asked,      \* the EndTxn requests sent: <<identity, commit>>
    told,       \* the transactions whose producer was told they commit
    ended       \* [txn, partition, commit]: the data a marker ended

vars == <<leader, log, coord, jobs, late, part, produces, fresh, given, asked, told, ended>>

TP == INSTANCE TxnPartition

Pids == 1..MaxPid

NoWrite == [kind |-> "none", entry |-> NoEntry, epoch |-> 0, logged |-> FALSE, request |-> NoId]

(***************************************************************************)
(* epoch:   the leader epoch of the last image applied                     *)
(* status:  of this broker's term: none, loading or loaded                 *)
(* entry:   the cached entry                                               *)
(* write:   the write in progress, whose lock it holds                     *)
(* queued:  the transactional id is queued for the completion task         *)
(* stopped: (history) an answer that nobody expects stopped the last       *)
(*          fan-out of this term, and nothing was tried since              *)
(***************************************************************************)
new_coordinator ==
    [epoch |-> 0, status |-> "none", entry |-> NoEntry, write |-> NoWrite, queued |-> FALSE,
     stopped |-> FALSE]

Init ==
    /\ \E b \in Brokers : leader = [broker |-> b, epoch |-> 1]
    /\ log = <<NoEntry>>
    /\ coord = [b \in Brokers |-> new_coordinator]
    /\ jobs = {} /\ late = {} /\ produces = {}
    /\ part = [p \in Partitions |-> [pid \in Pids |-> TP!new_producer]]
    /\ fresh = 1
    /\ given = {} /\ asked = {} /\ told = {} /\ ended = {}

Leads(b, epoch) == leader = [broker |-> b, epoch |-> epoch]

\* The broker holds the state-partition lock of a loaded term, and its entry.
Holds(b) == coord[b].status = "loaded" /\ coord[b].write = NoWrite

\* The record of a write is in the log if the broker still leads it.
BeginWrite(b, live, kind, entry, request) ==
    /\ coord' = [coord EXCEPT
           ![b].entry = live,
           ![b].write = [kind |-> kind, entry |-> entry, epoch |-> coord[b].epoch,
                         logged |-> Leads(b, coord[b].epoch), request |-> request]]
    /\ log' = IF Leads(b, coord[b].epoch) THEN Append(log, entry) ELSE log

\* A step that allocates a producer id if the next identity of id needs one.
Allocates(id) ==
    LET rotates == next_producer_identity(id, fresh)[1] = fresh
    IN  /\ rotates => fresh <= MaxPid
        /\ fresh' = IF rotates THEN fresh + 1 ELSE fresh

------------------------------------------------------------------------------
(* The coordinator's term.                                                 *)

\* A leader is elected; the log it has holds the committed entry and some of the others.
Elect(b) ==
    /\ leader' = [broker |-> b, epoch |-> leader.epoch + 1]
    /\ \E n \in 1..Len(log) : log' = SubSeq(log, 1, n)
    /\ UNCHANGED <<coord, jobs, late, part, produces, fresh, given, asked, told, ended>>

\* A newer leader epoch in the image unloads the cache, and starts a load on the leader.
ApplyImage(b) ==
    /\ leader.epoch > coord[b].epoch
    /\ coord' = [coord EXCEPT
           ![b].epoch = leader.epoch, ![b].entry = NoEntry, ![b].stopped = FALSE,
           ![b].status = IF leader.broker = b THEN "loading" ELSE "none"]
    /\ UNCHANGED <<leader, log, jobs, late, part, produces, fresh, given, asked, told, ended>>

\* Mutant: a load leaves prepared transactions to whoever comes.
Load_unqueued(b) ==
    /\ coord[b].status = "loading" /\ coord[b].write = NoWrite
    /\ Leads(b, coord[b].epoch)
    /\ log' = <<Last(log)>>
    /\ coord' = [coord EXCEPT ![b].status = "loaded", ![b].entry = Last(log)]
    /\ UNCHANGED <<leader, jobs, late, part, produces, fresh, given, asked, told, ended>>

\* The load publishes what it replayed once all of it is committed, and queues
\* a prepared transaction for completion.
Load(b) ==
    /\ coord[b].status = "loading" /\ coord[b].write = NoWrite
    /\ Leads(b, coord[b].epoch)
    /\ log' = <<Last(log)>>
    /\ coord' = [coord EXCEPT ![b].status = "loaded", ![b].entry = Last(log),
                              ![b].queued = @ \/ Last(log).state \in Prepared]
    /\ UNCHANGED <<leader, jobs, late, part, produces, fresh, given, asked, told, ended>>

Crash(b) ==
    /\ coord' = [coord EXCEPT ![b] = new_coordinator]
    /\ jobs' = {j \in jobs : j.broker # b}
    /\ UNCHANGED <<leader, log, late, part, produces, fresh, given, asked, told, ended>>

------------------------------------------------------------------------------
(* The end of a write.                                                     *)

\* A fan-out reads the coordinator epoch when it starts.
NewJob(b, kind, entry) ==
    [broker |-> b, kind |-> kind, snap |-> entry, started |-> FALSE, epoch |-> 0,
     todo |-> entry.partitions, written |-> {}, failure |-> "none"]

AfterWrite(b, w) ==
    /\ jobs' = IF w.kind \in {"end", "fence"} THEN jobs \cup {NewJob(b, w.kind, w.entry)} ELSE jobs
    /\ given' = IF w.kind = "init" THEN given \cup {w.entry.id} ELSE given
    /\ produces' = IF w.kind = "add"
                   THEN {IF <<r.id, r.p>> = w.request
                         THEN [r EXCEPT !.verified = TRUE] ELSE r : r \in produces}
                   ELSE produces

\* Mutant: the entry is published when its record is appended.
FinishWrite_uncommitted(b) ==
    LET w == coord[b].write
    IN  /\ w # NoWrite /\ coord[b].status = "loaded" /\ coord[b].epoch = w.epoch
        /\ coord' = [coord EXCEPT ![b].entry = w.entry, ![b].write = NoWrite,
                                  ![b].queued = @ \/ w.kind = "reap", ![b].stopped = FALSE]
        /\ AfterWrite(b, w)
        /\ UNCHANGED <<leader, log, late, part, fresh, asked, told, ended>>

\* The record is committed, in the term that wrote it: it is published.
FinishWrite(b) ==
    LET w == coord[b].write
    IN  /\ w.logged /\ Leads(b, w.epoch)
        /\ coord[b].status = "loaded" /\ coord[b].epoch = w.epoch
        /\ log' = <<Last(log)>>
        /\ coord' = [coord EXCEPT ![b].entry = w.entry, ![b].write = NoWrite,
                                  ![b].queued = @ \/ w.kind = "reap", ![b].stopped = FALSE]
        /\ AfterWrite(b, w)
        /\ UNCHANGED <<leader, late, part, fresh, asked, told, ended>>

\* The write is given up: its term ended, or it was not committed in time.  The
\* record may stay in the log.  A completion is left to the completion task.
FailWrite(b) ==
    /\ coord[b].write # NoWrite
    /\ coord' = [coord EXCEPT ![b].write = NoWrite,
                              ![b].queued = @ \/ coord[b].write.kind = "complete"]
    /\ UNCHANGED <<leader, log, jobs, late, part, produces, fresh, given, asked, told, ended>>

TermEnded(b) == ~Leads(b, coord[b].write.epoch)

------------------------------------------------------------------------------
(* Producers: InitProducerId and EndTxn.                                   *)

InitProducerId(b, request) ==
    /\ Holds(b)
    /\ LET e == coord[b].entry
       IN  /\ e.state \notin Prepared          \* CONCURRENT_TRANSACTIONS or PRODUCER_FENCED
           /\ \/ /\ e.state = "none" /\ fresh <= MaxPid
                 /\ BeginWrite(b, e, "init", new_empty(<<fresh, 0>>), NoId)
                 /\ fresh' = fresh + 1 /\ UNCHANGED given
              \/ /\ e.state # "none" /\ identity_decision(e, request) = "retry"
                 /\ given' = given \cup {client_producer_identity(e)}
                 /\ UNCHANGED <<log, coord, fresh>>
              \/ /\ e.state # "none" /\ identity_decision(e, request) = "bump"
                 /\ IF e.state = "Ongoing"
                    THEN BeginWrite(b, e, "fence", prepare_server_abort(e, fresh), NoId)
                    ELSE BeginWrite(b, e, "init", bump_epoch(e, request, fresh), NoId)
                 /\ Allocates(e.id) /\ UNCHANGED given
    /\ UNCHANGED <<leader, jobs, late, part, produces, asked, told, ended>>

\* A producer asks once, and for a commit when its batches are answered.
Ask(id, commit) ==
    /\ \A c \in BOOLEAN : <<id, c>> \notin asked
    /\ commit => \A r \in produces : r.id # id
    /\ asked' = asked \cup {<<id, commit>>}
    /\ UNCHANGED <<leader, log, coord, jobs, late, part, produces, fresh, given, told, ended>>

Answer(id, commit, next) ==
    /\ given' = given \cup {next}
    /\ told' = IF commit THEN told \cup {id} ELSE told

\* A request that was sent may arrive late, or again.
EndTxn(b, id, commit) ==
    /\ Holds(b)
    /\ LET e == coord[b].entry
       IN  \/ /\ end_txn_decision(e, id, commit) = "prepare"
              /\ BeginWrite(b, e, "end", prepare_transaction(e, commit, fresh), NoId)
              /\ Allocates(e.id) /\ UNCHANGED <<given, told>>
           \/ /\ end_txn_decision(e, id, commit) = "complete"
              /\ Answer(id, commit, client_producer_identity(e))
              /\ UNCHANGED <<log, coord, fresh>>
    /\ UNCHANGED <<leader, jobs, late, part, produces, asked, ended>>

\* The transaction passed its timeout.
Reap(b) ==
    /\ Holds(b)
    /\ coord[b].entry.state = "Ongoing"
    /\ BeginWrite(b, coord[b].entry, "reap", prepare_server_abort(coord[b].entry, fresh), NoId)
    /\ Allocates(coord[b].entry.id)
    /\ UNCHANGED <<leader, jobs, late, part, produces, given, asked, told, ended>>

\* The sweep queues a prepared abort again.
ResumeAbort(b) ==
    /\ Holds(b) /\ coord[b].entry.state = "PrepareAbort" /\ ~coord[b].queued
    /\ coord' = [coord EXCEPT ![b].queued = TRUE]
    /\ UNCHANGED <<leader, log, jobs, late, part, produces, fresh, given, asked, told, ended>>

------------------------------------------------------------------------------
(* Producers: data.                                                        *)

\* The first batch of a transaction for a partition.  A fenced producer's, or
\* one of a transaction it asked to abort, may arrive late.
Produce(p, id) ==
    LET s == part[p][id[1]]
    IN  /\ <<id, TRUE>> \notin asked
        /\ TP!StartsVerification(s, id[2])
        /\ \A r \in produces : r.p # p \/ r.id # id
        /\ part' = [part EXCEPT ![p][id[1]] = TP!maybe_start_transaction_verification(s, id[2])]
        /\ produces' = produces \cup {[p |-> p, id |-> id, guard |-> TRUE, verified |-> FALSE]}
        /\ UNCHANGED <<leader, log, coord, jobs, late, fresh, given, asked, told, ended>>

\* The coordinator adds the partition, or finds it there without a write.
CheckWithCoordinator(r, b) ==
    LET e == coord[b].entry
    IN  /\ ~r.verified /\ Holds(b)
        /\ \/ /\ registration_decision(e, r.id, r.p) = "registered"
              /\ produces' = (produces \ {r}) \cup {[r EXCEPT !.verified = TRUE]}
              /\ UNCHANGED <<log, coord>>
           \/ /\ registration_decision(e, r.id, r.p) = "register"
              /\ BeginWrite(b, e, "add", stage_registration(e, r.p), <<r.id, r.p>>)
              /\ UNCHANGED produces
        /\ UNCHANGED <<leader, jobs, late, part, fresh, given, asked, told, ended>>

\* A batch of a producer that appends or a marker ends the verification in progress.
LoseGuards(p, pid, rs) ==
    {IF r.p = p /\ r.id[1] = pid THEN [r EXCEPT !.guard = FALSE] ELSE r : r \in rs}

AppendBatch(r) ==
    LET s == part[r.p][r.id[1]]
    IN  /\ r.verified
        /\ TP!check_transactional_append(s, r.id[2], r.guard)
        /\ part' = [part EXCEPT ![r.p][r.id[1]] = TP!AppendData(s, r.id[2])]
        /\ produces' = LoseGuards(r.p, r.id[1], produces \ {r})
        /\ UNCHANGED <<leader, log, coord, jobs, late, fresh, given, asked, told, ended>>

RefuseBatch(r) ==
    /\ r.verified
    /\ ~TP!check_transactional_append(part[r.p][r.id[1]], r.id[2], r.guard)
    /\ produces' = produces \ {r}
    /\ UNCHANGED <<leader, log, coord, jobs, late, part, fresh, given, asked, told, ended>>

------------------------------------------------------------------------------
(* Markers.                                                                *)

Marker(j, p) ==
    [p |-> p, id |-> j.snap.id, epoch |-> j.epoch, commit |-> j.snap.state = "PrepareCommit"]

MarkerDecision(m) == TP!transaction_marker_decision(part[m.p][m.id[1]], m.id[2], m.epoch)

\* The leader of the partition handles a marker.
ApplyMarker(m) ==
    LET pid == m.id[1]
        s   == part[m.p][pid]
    IN  IF MarkerDecision(m) = "append"
        THEN /\ part' = [part EXCEPT ![m.p][pid] = TP!AppendMarker(s, m.id[2], m.epoch)]
             /\ ended' = ended \cup {[txn |-> <<pid, e>>, p |-> m.p, commit |-> m.commit] : e \in s.open}
             /\ produces' = IF TP!KeepsVerification(s, m.id[2])
                            THEN produces ELSE LoseGuards(m.p, pid, produces)
        ELSE UNCHANGED <<part, ended, produces>>

StartFanOut(j) ==
    /\ ~j.started
    /\ jobs' = (jobs \ {j}) \cup
           {IF coord[j.broker].status = "loaded"
            THEN [j EXCEPT !.started = TRUE, !.epoch = coord[j.broker].epoch]
            ELSE [j EXCEPT !.started = TRUE, !.todo = {}, !.failure = "retriable"]}
    /\ UNCHANGED <<leader, log, coord, late, part, produces, fresh, given, asked, told, ended>>

\* A failure that fences the fan-out decides before one that may be retried,
\* and that before an answer that nobody expects.
Fail(j, failure) ==
    [j EXCEPT !.failure = IF \/ @ = "fenced"
                             \/ @ = "retriable" /\ failure = "unexpected"
                          THEN @ ELSE failure]

HandleMarker(j, p) ==
    /\ j.started /\ p \in j.todo
    /\ ApplyMarker(Marker(j, p))
    /\ LET k == [j EXCEPT !.todo = @ \ {p}]
       IN  jobs' = (jobs \ {j}) \cup
               {IF MarkerDecision(Marker(j, p)) = "fenced"
                THEN Fail(k, "fenced")
                ELSE [k EXCEPT !.written = @ \cup {p}]}
    /\ UNCHANGED <<leader, log, coord, late, fresh, given, asked, told>>

\* The connection fails or the wait ends; the marker may arrive later.
StopWaiting(j, p) ==
    /\ j.started /\ p \in j.todo
    /\ jobs' = (jobs \ {j}) \cup {Fail([j EXCEPT !.todo = @ \ {p}], "retriable")}
    /\ late' = late \cup {Marker(j, p)}
    /\ UNCHANGED <<leader, log, coord, part, produces, fresh, given, asked, told, ended>>

\* The leader answers a code that the coordinator does not expect (an illegal
\* state, an authorization that is refused), and writes nothing.
RefuseMarker(j, p) ==
    /\ j.started /\ p \in j.todo
    /\ jobs' = (jobs \ {j}) \cup {Fail([j EXCEPT !.todo = @ \ {p}], "unexpected")}
    /\ UNCHANGED <<leader, log, coord, late, part, produces, fresh, given, asked, told, ended>>

HandleLateMarker(m) ==
    /\ ApplyMarker(m)
    /\ late' = late \ {m}
    /\ UNCHANGED <<leader, log, coord, jobs, fresh, given, asked, told>>

------------------------------------------------------------------------------
(* The end of a fan-out.                                                   *)

\* What is left of the live entry and of the snapshot once their markers are written.
Live(j) == remove_marked_partitions(coord[j.broker].entry, j.snap, j.written)
Marked(j) == [j.snap EXCEPT !.partitions = @ \ j.written]

\* The answer of EndTxn does not depend on the completion that follows.
AnswerEnd(j) ==
    IF j.kind = "end"
    THEN Answer(TransactionOf(j.snap), j.snap.state = "PrepareCommit", client_producer_identity(j.snap))
    ELSE UNCHANGED <<given, told>>

\* Mutant: a fan-out that fails is left to the retry of the producer.
GiveUpFanOut_dropped(j) ==
    /\ j.started /\ j.todo = {} /\ j.failure # "none"
    /\ coord[j.broker].write = NoWrite
    /\ coord' = [coord EXCEPT ![j.broker].entry = Live(j),
                              ![j.broker].stopped = (j.failure = "unexpected")]
    /\ jobs' = jobs \ {j}
    /\ AnswerEnd(j)
    /\ UNCHANGED <<leader, log, late, part, produces, fresh, asked, ended>>

\* Not every marker is written: the completion task tries again, unless the
\* fan-out is superseded or every failure is an answer that nobody expects,
\* which leaves the transaction to the next load, and an abort to the sweep.
\* A fence always leaves the rest to the task.
GiveUpFanOut(j) ==
    /\ j.started /\ j.todo = {} /\ j.failure # "none"
    /\ coord[j.broker].write = NoWrite
    /\ coord' = [coord EXCEPT ![j.broker].entry = Live(j),
                              ![j.broker].queued = @ \/ j.failure = "retriable" \/ j.kind = "fence",
                              ![j.broker].stopped = (j.failure = "unexpected")]
    /\ jobs' = jobs \ {j}
    /\ AnswerEnd(j)
    /\ UNCHANGED <<leader, log, late, part, produces, fresh, asked, ended>>

\* The completion may be written if the entry is the one that was marked.
Completes(j) ==
    /\ coord[j.broker].status = "loaded"
    /\ IF j.kind = "end"
       THEN decide_end_txn_completion(Live(j), j.snap)
       ELSE completion_decision(Live(j), Marked(j))

CompleteTransaction(j) ==
    /\ j.started /\ j.todo = {} /\ j.failure = "none"
    /\ coord[j.broker].write = NoWrite
    /\ Completes(j)
    /\ BeginWrite(j.broker, Live(j), "complete", apply_completion(Live(j)), NoId)
    /\ jobs' = jobs \ {j}
    /\ AnswerEnd(j)
    /\ UNCHANGED <<leader, late, part, produces, fresh, asked, ended>>

\* The entry moved on: EndTxn answers if it is complete, and nothing is written.
SkipCompletion(j) ==
    /\ j.started /\ j.todo = {} /\ j.failure = "none"
    /\ coord[j.broker].write = NoWrite
    /\ ~Completes(j)
    /\ coord' = [coord EXCEPT ![j.broker].entry = Live(j)]
    /\ jobs' = jobs \ {j}
    /\ LET done == apply_completion(j.snap)
       IN  IF coord[j.broker].entry.id = done.id /\ coord[j.broker].entry.state = done.state
           THEN AnswerEnd(j) ELSE UNCHANGED <<given, told>>
    /\ UNCHANGED <<leader, log, late, part, produces, fresh, asked, ended>>

\* The completion task takes what is queued, one attempt at a time.
CompletionTask(b) ==
    /\ coord[b].queued /\ coord[b].write = NoWrite
    /\ \A j \in jobs : j.broker # b \/ j.kind # "task"
    /\ coord' = [coord EXCEPT ![b].queued = FALSE, ![b].stopped = FALSE]
    /\ jobs' = IF coord[b].entry.state \in Prepared
               THEN jobs \cup {NewJob(b, "task", coord[b].entry)} ELSE jobs
    /\ UNCHANGED <<leader, log, late, part, produces, fresh, given, asked, told, ended>>

------------------------------------------------------------------------------

Next ==
    \/ \E b \in Brokers :
       \/ Elect(b) \/ ApplyImage(b) \/ Load(b) \/ Crash(b)
       \/ FinishWrite(b) \/ FailWrite(b)
       \/ \E id \in given \cup {NoId} : InitProducerId(b, id)
       \/ \E a \in asked : EndTxn(b, a[1], a[2])
       \/ Reap(b) \/ ResumeAbort(b) \/ CompletionTask(b)
       \/ \E r \in produces : CheckWithCoordinator(r, b)
    \/ \E id \in given : \/ \E commit \in BOOLEAN : Ask(id, commit)
                         \/ \E p \in Partitions : Produce(p, id)
    \/ \E r \in produces : AppendBatch(r) \/ RefuseBatch(r)
    \/ \E j \in jobs : \/ StartFanOut(j) \/ GiveUpFanOut(j) \/ CompleteTransaction(j) \/ SkipCompletion(j)
                       \/ \E p \in Partitions : HandleMarker(j, p) \/ StopWaiting(j, p) \/ RefuseMarker(j, p)
    \/ \E m \in late : HandleLateMarker(m)

Spec == Init /\ [][Next]_vars

\* A step of the fan-outs of b.
FanOutStep(b) ==
    \E j \in jobs :
        /\ j.broker = b
        /\ \/ StartFanOut(j) \/ GiveUpFanOut(j) \/ CompleteTransaction(j) \/ SkipCompletion(j)
           \/ \E p \in Partitions : HandleMarker(j, p)

(***************************************************************************)
(* A broker follows the image and loads what it leads, its writes commit   *)
(* while it leads and fail when it does not, its sweep comes round to a    *)
(* transaction that passed its timeout, its completion task runs, and the  *)
(* leaders of the partitions answer.                                       *)
(***************************************************************************)
Fairness ==
    \A b \in Brokers :
        /\ WF_vars(ApplyImage(b)) /\ WF_vars(Load(b))
        /\ WF_vars(FinishWrite(b)) /\ WF_vars(TermEnded(b) /\ FailWrite(b))
        /\ WF_vars(Reap(b)) /\ WF_vars(ResumeAbort(b)) /\ WF_vars(CompletionTask(b))
        /\ WF_vars(FanOutStep(b))

FairSpec == Spec /\ Fairness

------------------------------------------------------------------------------
(* Properties.                                                             *)

Ids == Pids \X (0..MaxEpoch)

EntryOK(e) ==
    \/ e = NoEntry
    \/ /\ e.state \in {"Empty", "Ongoing"} \cup Prepared \cup Completed
       /\ e.id \in Ids /\ e.last \in -1..MaxEpoch /\ e.prev \in 0..MaxPid
       /\ e.partitions \in SUBSET Partitions
       \* The last epoch is left to the markers of a producer id that is given up.
       /\ e.id[2] = MaxEpoch => e.state \in Prepared /\ e.next \in Ids
       /\ e.next # NoId => e.state \in Prepared /\ e.next[2] = 0

\* No identity reaches the epoch at which it could not be fenced any more, in
\* an entry, a fan-out, or the hands of a producer.
TypeOK ==
    /\ leader \in [broker : Brokers, epoch : Nat]
    /\ \A i \in 1..Len(log) : EntryOK(log[i])
    /\ \A b \in Brokers :
           /\ coord[b].status \in {"none", "loading", "loaded"}
           /\ coord[b].epoch \in 0..leader.epoch
           /\ EntryOK(coord[b].entry) /\ EntryOK(coord[b].write.entry)
    /\ \A j \in jobs : EntryOK(j.snap) /\ j.snap.state \in Prepared
    /\ given \in SUBSET Ids /\ \A id \in given : id[2] < MaxEpoch
    /\ \A p \in Partitions, pid \in Pids : part[p][pid].epoch \in -1..MaxEpoch

Open(p) == UNION {{<<pid, e>> : e \in part[p][pid].open} : pid \in Pids}

\* Whether the entry is the transaction that id names, with p to be marked.
EndsAt(entry, id, p) ==
    /\ p \in entry.partitions
    /\ \/ entry.state = "Ongoing" /\ entry.id = id
       \/ entry.state \in Prepared /\ TransactionOf(entry) = id

\* A transaction commits on all of its partitions or on none, whichever
\* coordinators, late markers and repeated fan-outs end it.
AtomicOutcome == \A x, y \in ended : x.txn = y.txn => x.commit = y.commit

\* Only a transaction that its producer asked to commit is committed: no
\* marker of another transaction of the producer id ends it.
OnlyAskedIsCommitted == \A x \in ended : x.commit => <<x.txn, TRUE>> \in asked

\* A producer whose EndTxn was answered for a commit never has a batch of that
\* transaction aborted, and what is open is still to be committed by whichever
\* coordinator reads the log.
ToldIsCommitted ==
    \A t \in told :
        /\ \A x \in ended : x.txn = t => x.commit
        /\ \A p \in Partitions : t \in Open(p) =>
               \A i \in 1..Len(log) : log[i].state = "PrepareCommit" /\ EndsAt(log[i], t, p)

\* No transaction hangs: data that is open on a partition belongs to the
\* transaction in the log, whatever of it survives, and the partition will be
\* marked.  A batch that is verified for a transaction that then ends, or by a
\* coordinator that lost the state partition, never opens one.
OpenIsRegistered ==
    \A p \in Partitions : \A t \in Open(p) : \A i \in 1..Len(log) : EndsAt(log[i], t, p)

\* The commit waits for the next load: its leader's last fan-out was stopped by
\* an answer that nobody expects, nothing else is under way or queued, and the
\* sweep takes up aborts only
\* (MarkerFailureClass::Unexpected; "Known failure" in completion_model.rs).
WaitsForLoad ==
    \E b \in Brokers : /\ Leads(b, coord[b].epoch) /\ coord[b].stopped /\ ~coord[b].queued
                       /\ coord[b].entry.state = "PrepareCommit"
                       /\ \A j \in jobs : j.broker # b

\* Data that is open on a partition does not hold back its readers for ever:
\* the producer ends the transaction or the sweep does, and the markers get
\* there through elections, crashes, lost answers and unexpected ones.  Only a
\* commit that was stopped by an unexpected answer rests, until the next load.
EveryTransactionEnds ==
    \A p \in Partitions : (Open(p) # {}) ~> (Open(p) = {} \/ WaitsForLoad)

\* A transaction whose outcome is in the log is completed, which lets the
\* producer go on, also if every broker that knew of it stopped, or if its
\* commit rested after an unexpected answer and the partition is loaded again.
EveryPreparedCompletes ==
    (Last(log).state \in Prepared) ~> (Last(log).state \notin Prepared \/ WaitsForLoad)

=============================================================================
