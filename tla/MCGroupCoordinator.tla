-------------------------- MODULE MCGroupCoordinator --------------------------
(***************************************************************************)
(* Small instances of GroupCoordinator.  The steps that nothing else       *)
(* starts each have a budget in a scenario; a run explores one scenario or *)
(* several.                                                                *)
(***************************************************************************)
EXTENDS GroupCoordinator, TLC

CONSTANT Scenarios      \* the scenarios a run explores, by name

VARIABLES
    scenario,   \* the scenario of this behaviour
    spent       \* how much of each budget is used

MCvars == <<group, cache, log, image, notices, client, scenario, spent>>

(***************************************************************************)
(* exist:      the partitions that exist at the start                      *)
(* joins:      clients that start, in the order of their ids               *)
(* subscribes: subscriptions that change                                   *)
(* leaves, releases, stops:  clients that stop                             *)
(* expires:    sessions of running clients that expire                     *)
(* losses:     answers that do not arrive                                  *)
(* adds:       partitions added                                            *)
(* reloads:    loads of the group                                          *)
(* unwritten:  writes that fail                                            *)
(* timed_out:  writes that fail and are committed nevertheless             *)
(* delays:     heartbeats within the assignment interval                   *)
(***************************************************************************)
Quiet == [exist |-> Partitions, joins |-> 2, subscribes |-> 0, leaves |-> 0, releases |-> 0,
          stops |-> 0, expires |-> 0, losses |-> 0, adds |-> 0, reloads |-> 0, unwritten |-> 0,
          timed_out |-> 0, delays |-> 0]

Bounds ==
    [handoff  |-> [Quiet EXCEPT !.losses = 1, !.leaves = 1],
     grow     |-> [Quiet EXCEPT !.exist = {CHOOSE p \in Partitions : TRUE}, !.adds = 1],
     missed   |-> [Quiet EXCEPT !.exist = {CHOOSE p \in Partitions : TRUE}, !.joins = 1, !.adds = 1,
                                !.reloads = 1, !.delays = 1],
     topics   |-> [Quiet EXCEPT !.subscribes = 1],
     expire   |-> [Quiet EXCEPT !.expires = 1, !.losses = 1],
     reload   |-> [Quiet EXCEPT !.reloads = 1, !.unwritten = 1, !.stops = 1],
     return   |-> [Quiet EXCEPT !.exist = {CHOOSE p \in Partitions : TRUE}, !.expires = 1,
                                !.reloads = 1, !.leaves = 1],
     retry    |-> [Quiet EXCEPT !.exist = {CHOOSE p \in Partitions : TRUE}, !.expires = 1,
                                !.unwritten = 1],
     static   |-> [Quiet EXCEPT !.joins = 3, !.releases = 1],
     repeated |-> [Quiet EXCEPT !.reloads = 1, !.timed_out = 1]]

Budgets == DOMAIN Quiet \ {"exist"}

Spend(k) == spent[k] < Bounds[scenario][k] /\ spent' = [spent EXCEPT ![k] = @ + 1]

MCInit ==
    /\ scenario \in Scenarios
    /\ Init /\ image = Bounds[scenario].exist
    /\ spent = [k \in Budgets |-> 0]

Failure(committed) == IF committed THEN "timed_out" ELSE "unwritten"

MCNext ==
    /\ UNCHANGED scenario
    /\ \/ \E m \in Clients :
          \/ Heartbeat(m, FALSE) /\ UNCHANGED spent
          \/ Heartbeat(m, TRUE) /\ Spend("delays")
          \/ LoseAnswer(m, FALSE) /\ Spend("losses")
          \/ \E committed \in BOOLEAN : \/ FailHeartbeat(m, FALSE, committed) /\ Spend(Failure(committed))
                                        \/ FailExpire(m, committed) /\ Spend(Failure(committed))
          \/ (Rejoin(m) \/ GiveUp(m) \/ Apply(m)) /\ UNCHANGED spent
          \/ Leave(m) /\ Spend("leaves")
          \/ Release(m) /\ Spend("releases")
          \/ Stop(m) /\ Spend("stops")
          \/ Expire(m) /\ IF client[m].running THEN Spend("expires") ELSE UNCHANGED spent
          \/ m = spent.joins + 1 /\ Join(m, Topics) /\ Spend("joins")
          \/ \E topics \in Subscriptions : Subscribe(m, topics) /\ Spend("subscribes")
       \/ Reload /\ Spend("reloads")
       \/ \E p \in Partitions : AddPartition(p) /\ Spend("adds")
       \/ \E topic \in notices : on_metadata_update(topic) /\ UNCHANGED spent

MCSpec == MCInit /\ [][MCNext]_MCvars

\* The budgets disable no fair step.
MCFairSpec == MCSpec /\ Fairness

===============================================================================
