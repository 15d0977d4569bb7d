----------------------- MODULE MCPartitionReplication -----------------------
(***************************************************************************)
(* Small instances of PartitionReplication.  A step may not pass the       *)
(* bounds of its scenario, and the steps that nothing else starts          *)
(* (produces, lapses of the lag bound, fences, crashes, restarts, losses)  *)
(* each have a budget.  A run explores one scenario or several.            *)
(***************************************************************************)
EXTENDS PartitionReplication, TLC

CONSTANT Scenarios      \* the scenarios a run explores, by name

VARIABLES
    scenario,   \* the scenario of this behaviour
    spent       \* how much of each budget is used

MCvars == <<partition, active, replica, up, net, acked, scenario, spent>>

(***************************************************************************)
(* up:         the brokers that are up; the others have been down for long *)
(* apart:      other steps may come between the two of an installation,    *)
(*             and between those of a read                                 *)
(* all:        whether appends are acks=all                                *)
(* epoch:      the last leader epoch an election may open                  *)
(* in_flight:  messages in the network                                     *)
(* The others are budgets: of appends, followers that pass the lag bound,  *)
(* sessions of running brokers that expire, processes that stop or start,  *)
(* and messages that are lost.                                             *)
(***************************************************************************)
Quiet == [up |-> {1, 2}, apart |-> TRUE, all |-> BOOLEAN, epoch |-> 2, in_flight |-> 1,
          produces |-> 1, lapses |-> 0, fences |-> 0, crashes |-> 0, restarts |-> 0, losses |-> 0]

Bounds ==
    [failover   |-> [Quiet EXCEPT !.up = Brokers, !.all = {TRUE}, !.fences = 1],
     lag        |-> [Quiet EXCEPT !.apart = FALSE, !.all = {TRUE}, !.lapses = 1, !.crashes = 1,
                                  !.restarts = 1],
     overlap    |-> [Quiet EXCEPT !.all = {TRUE}, !.produces = 2, !.lapses = 1, !.fences = 1],
     truncation |-> [Quiet EXCEPT !.apart = FALSE, !.all = {TRUE}, !.epoch = 3, !.produces = 2,
                                  !.fences = 2],
     divergence |-> [Quiet EXCEPT !.apart = FALSE, !.all = {FALSE}, !.epoch = 3, !.produces = 2,
                                  !.fences = 1],
     late       |-> [Quiet EXCEPT !.up = Brokers, !.all = {TRUE}, !.in_flight = 2, !.produces = 2],
     joining    |-> [Quiet EXCEPT !.up = Brokers, !.apart = FALSE, !.all = {TRUE}, !.in_flight = 2,
                                  !.lapses = 1],
     leaderless |-> [Quiet EXCEPT !.up = Brokers, !.apart = FALSE, !.all = {TRUE}],
     refill     |-> [Quiet EXCEPT !.up = Brokers, !.all = {FALSE}, !.in_flight = 2, !.produces = 2],
     recovery   |-> [Quiet EXCEPT !.apart = FALSE, !.epoch = 5, !.in_flight = 6, !.lapses = 1,
                                  !.crashes = 1, !.restarts = 1, !.losses = 1]]

Budgets == {"produces", "lapses", "fences", "crashes", "restarts", "losses"}

Spend(k) == spent[k] < Bounds[scenario][k] /\ spent' = [spent EXCEPT ![k] = @ + 1]

WithinBounds ==
    /\ partition.leader_epoch <= Bounds[scenario].epoch
    /\ Cardinality(net) <= Bounds[scenario].in_flight

Installed(b, row) ==
    LET r == install_role(new_replica(<<>>), b, row)
    IN  IF r.installing THEN install_isr(r, b) ELSE r

(***************************************************************************)
(* Where "refill" begins: the session of broker 2 expired, every broker    *)
(* installed that row, of a record that broker 1 then appended broker 2    *)
(* has a copy and broker 3 has none; broker 1 planned a read for broker 2  *)
(* at the end of that copy; then its session expired, and broker 3 leads.  *)
(***************************************************************************)
WithoutTwo == failover_one(NewPartition, 2, Brokers)

RowOfOne(b, isr, version) ==
    [leader |-> 1, leader_epoch |-> 1, isr |-> isr, partition_epoch |-> version,
     unfenced |-> IF b = 1 THEN isr ELSE {}]

Replicated(b) ==
    LET r == Installed(b, RowOfOne(b, WithoutTwo.isr, 1))
    IN  CASE b = 1 -> record_follower_position(append(r, FALSE), 2, 0, 1, FALSE)
          [] b = 2 -> append_records(r, <<1>>, 0)
          [] b = 3 -> Installed(b, Row(b))

PlannedRead ==
    [kind |-> "read", from |-> 2, to |-> 1, epoch |-> 1, offset |-> 1, leader_log_end |-> 1]

(***************************************************************************)
(* Where "divergence" begins: broker 1 appended a record that nobody       *)
(* copied, and its session expired; broker 2 leads and has not heard.      *)
(***************************************************************************)
Pair == [NewPartition EXCEPT !.isr = {1, 2}]

Diverged(b) ==
    CASE b = 1 -> append(Installed(b, RowOfOne(b, Pair.isr, 0)), FALSE)
      [] b = 2 -> Installed(b, RowOfOne(b, Pair.isr, 0))
      [] b = 3 -> new_replica(<<>>)

(***************************************************************************)
(* Where "leaderless" begins: the sessions of brokers 3, 2 and 1 expired   *)
(* in that order, so that broker 2, which only is slow, stayed eligible;   *)
(* broker 1, the leader, had stopped and started again; it and broker 3    *)
(* are alive again.                                                        *)
(***************************************************************************)
LeaderReturned ==
    [NewPartition EXCEPT !.isr = {1}, !.partition_epoch = 2, !.elr = {2}, !.last_known = {1}]

(***************************************************************************)
(* Otherwise every broker that is up has installed the first row; the      *)
(* others left the ISR, and so did broker 3 in "late" and "joining", where *)
(* it is back.                                                             *)
(***************************************************************************)
MCInit ==
    /\ scenario \in Scenarios
    /\ up = Bounds[scenario].up \cap Brokers
    /\ active = CASE scenario = "refill"     -> {3}
                  [] scenario = "divergence" -> {2}
                  [] scenario = "leaderless" -> {1, 3}
                  [] OTHER                   -> up
    /\ partition = CASE scenario = "refill"     -> failover_one(WithoutTwo, 1, {1, 3})
                     [] scenario = "divergence" -> failover_one(Pair, 1, {1, 2})
                     [] scenario = "leaderless" -> LeaderReturned
                     [] scenario \in {"late", "joining"} -> Pair
                     [] OTHER                   -> [NewPartition EXCEPT !.isr = up]
    /\ replica = [b \in Brokers |->
            CASE scenario = "refill"     -> Replicated(b)
              [] scenario = "divergence" -> Diverged(b)
              [] scenario = "leaderless" -> new_replica(<<>>)
              [] OTHER -> IF b \in up THEN Installed(b, Row(b)) ELSE new_replica(<<>>)]
    /\ net = IF scenario = "refill" THEN {PlannedRead} ELSE {}
    /\ acked = {}
    /\ spent = [k \in Budgets |-> 0]

\* A leader that installed its role only, or a read that sampled the log end.
HalfDone ==
    \/ \E b \in Brokers : replica[b].installing
    \/ \E m \in net : m.kind = "read"

MCNext ==
    /\ UNCHANGED scenario
    /\ \/ /\ HalfDone => Bounds[scenario].apart
          /\ \/ \E b \in Brokers :
                \/ /\ \/ InstallRole(b)
                      \/ \E offset \in replica[b].waiting : FinishAck(b, offset)
                      \/ Fetch(b) \/ Scan(b) \/ Unfence(b)
                   /\ UNCHANGED spent
                \/ \E all \in Bounds[scenario].all : Produce(b, all) /\ Spend("produces")
                \/ \E f \in Brokers : Lapse(b, f) /\ Spend("lapses")
                \/ Fence(b) /\ IF b \in up THEN Spend("fences") ELSE UNCHANGED spent
                \/ Crash(b) /\ Spend("crashes")
                \/ Restart(b) /\ Spend("restarts")
             \/ \E m \in net :
                \/ /\ \/ RefuseFetch(m) \/ AnswerDiverging(m) \/ StartRead(m)
                      \/ ApplyAnswer(m) \/ AlterPartition(m)
                   /\ UNCHANGED spent
                \/ Lose(m) /\ Spend("losses")
       \/ /\ \/ \E b \in Brokers : InstallIsr(b)
             \/ \E m \in net : \E recent \in BOOLEAN : FinishRead(m, recent)
          /\ UNCHANGED spent
    /\ WithinBounds'

MCSpec == MCInit /\ [][MCNext]_MCvars

\* The bounds of a run of this are wide enough to disable no fair step.
MCFairSpec == MCSpec /\ Fairness

=============================================================================
