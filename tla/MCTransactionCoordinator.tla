---------------------- MODULE MCTransactionCoordinator ----------------------
(***************************************************************************)
(* Small instances of TransactionCoordinator.  The steps that nothing else *)
(* starts each have a budget in a scenario; a run explores one scenario or *)
(* several.                                                                *)
(***************************************************************************)
EXTENDS TransactionCoordinator, TLC

CONSTANT Scenarios      \* the scenarios a run explores, by name

VARIABLES
    scenario,   \* the scenario of this behaviour
    spent       \* how much of each budget is used

MCvars == <<leader, log, coord, jobs, late, part, produces, fresh, given, asked, told, ended,
            scenario, spent>>

(***************************************************************************)
(* known:      whether a producer has its identity at the start            *)
(* inits:      InitProducerId requests                                     *)
(* named:      whether one may name an identity                            *)
(* produces:   first batches of a transaction for a partition              *)
(* asks:       EndTxn requests sent                                        *)
(* reaps:      transactions that pass their timeout                        *)
(* elections, crashes:  of coordinators                                    *)
(* timeouts:   writes that are not committed in time                       *)
(* losses:     markers that are not answered                               *)
(* refusals:   markers that are answered by a code nobody expects          *)
(***************************************************************************)
Quiet == [known |-> TRUE, inits |-> 0, named |-> FALSE, produces |-> 2, asks |-> 1, reaps |-> 0,
          elections |-> 0, crashes |-> 0, timeouts |-> 0, losses |-> 0, refusals |-> 0]

Unlimited == 99     \* no budget: the step is taken whenever it is enabled

Bounds ==
    [start    |-> [Quiet EXCEPT !.known = FALSE, !.named = TRUE, !.inits = 3, !.produces = 1],
     zombie   |-> [Quiet EXCEPT !.inits = 2, !.produces = 3],
     next     |-> [Quiet EXCEPT !.asks = 2, !.losses = 1],
     failover |-> [Quiet EXCEPT !.elections = 1, !.reaps = 1],
     timeout  |-> [Quiet EXCEPT !.reaps = 1, !.timeouts = 1],
     crash    |-> [Quiet EXCEPT !.crashes = 1, !.losses = 1],
     refused  |-> [Quiet EXCEPT !.asks = 2, !.losses = 1, !.refusals = 1],
     handover |-> [Quiet EXCEPT !.produces = 1, !.elections = 1, !.losses = 1, !.reaps = Unlimited],
     restart  |-> [Quiet EXCEPT !.produces = 1, !.crashes = 2, !.losses = 1, !.reaps = Unlimited],
     stopped  |-> [Quiet EXCEPT !.produces = 1, !.elections = 1, !.refusals = 1, !.reaps = Unlimited]]

Budgets == {"inits", "produces", "asks", "reaps", "elections", "crashes", "timeouts", "losses",
            "refusals"}

Spend(k) ==
    IF Bounds[scenario][k] = Unlimited
    THEN UNCHANGED spent
    ELSE spent[k] < Bounds[scenario][k] /\ spent' = [spent EXCEPT ![k] = @ + 1]

\* The coordinator is loaded; a known producer has its identity from it.
MCInit ==
    /\ scenario \in Scenarios
    /\ spent = [k \in Budgets |-> 0]
    /\ leader = [broker |-> CHOOSE b \in Brokers : TRUE, epoch |-> 1]
    /\ log = <<IF Bounds[scenario].known THEN new_empty(<<1, 0>>) ELSE NoEntry>>
    /\ coord = [b \in Brokers |->
           IF b = leader.broker
           THEN [new_coordinator EXCEPT !.epoch = 1, !.status = "loaded", !.entry = Last(log)]
           ELSE [new_coordinator EXCEPT !.epoch = 1]]
    /\ jobs = {} /\ late = {} /\ produces = {}
    /\ part = [p \in Partitions |-> [pid \in Pids |-> TP!new_producer]]
    /\ fresh = IF Bounds[scenario].known THEN 2 ELSE 1
    /\ given = IF Bounds[scenario].known THEN {<<1, 0>>} ELSE {}
    /\ asked = {} /\ told = {} /\ ended = {}

MCNext ==
    /\ UNCHANGED scenario
    /\ \/ \E b \in Brokers :
          \/ /\ \/ ApplyImage(b) \/ Load(b) \/ FinishWrite(b) \/ ResumeAbort(b) \/ CompletionTask(b)
                \/ \E a \in asked : EndTxn(b, a[1], a[2])
                \/ \E r \in produces : CheckWithCoordinator(r, b)
             /\ UNCHANGED spent
          \/ Elect(b) /\ Spend("elections")
          \/ Crash(b) /\ Spend("crashes")
          \/ FailWrite(b) /\ IF TermEnded(b) THEN UNCHANGED spent ELSE Spend("timeouts")
          \/ \E id \in IF Bounds[scenario].named THEN given \cup {NoId} ELSE {NoId} :
                InitProducerId(b, id) /\ Spend("inits")
          \/ Reap(b) /\ Spend("reaps")
       \/ \E id \in given :
          \/ \E commit \in BOOLEAN : Ask(id, commit) /\ Spend("asks")
          \/ \E p \in Partitions : Produce(p, id) /\ Spend("produces")
       \/ /\ \/ \E r \in produces : AppendBatch(r) \/ RefuseBatch(r)
             \/ \E j \in jobs :
                \/ StartFanOut(j) \/ GiveUpFanOut(j) \/ CompleteTransaction(j) \/ SkipCompletion(j)
                \/ \E p \in Partitions : HandleMarker(j, p)
             \/ \E m \in late : HandleLateMarker(m)
          /\ UNCHANGED spent
       \/ \E j \in jobs : \E p \in Partitions :
             \/ StopWaiting(j, p) /\ Spend("losses")
             \/ RefuseMarker(j, p) /\ Spend("refusals")

MCSpec == MCInit /\ [][MCNext]_MCvars

\* The bounds of a run of this are wide enough to disable no fair step.
MCFairSpec == MCSpec /\ Fairness

Symmetry == Permutations(Partitions)

=============================================================================
