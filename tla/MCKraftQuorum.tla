--------------------------- MODULE MCKraftQuorum ---------------------------
(***************************************************************************)
(* Small instances of KraftQuorum.  The specification is unbounded; here a *)
(* step may not pass the bounds of its scenario, and the turns that no     *)
(* message starts (timers, submits, restarts) each have a budget.  A run   *)
(* explores one scenario or several side by side.                          *)
(***************************************************************************)
EXTENDS KraftQuorum, TLC

CONSTANT Scenarios      \* the scenarios a run explores, by name

VARIABLES
    scenario,   \* the scenario of this behaviour
    spent       \* how much of each budget is used

MCvars == <<replica, net, elected, ballots, scenario, spent>>

(***************************************************************************)
(* started:    the first election is over                                  *)
(* again:      a message may be received more than once                    *)
(* epoch:      the last epoch an election may open                         *)
(* log_end:    the longest log                                             *)
(* in_flight:  messages in the network                                     *)
(* The others are budgets: of election and fetch timeouts, check-quorum    *)
(* timeouts and shutdowns, repeated announcements of a leader, submitted   *)
(* batches and crashes.                                                    *)
(***************************************************************************)
Quiet == [started |-> FALSE, again |-> TRUE, epoch |-> 2, log_end |-> 1, in_flight |-> 3,
          timeouts |-> 2, resigns |-> 0, heartbeats |-> 0, submits |-> 0, restarts |-> 0]

Bounds ==
    [race        |-> [Quiet EXCEPT !.in_flight = 2],
     crash       |-> [Quiet EXCEPT !.again = FALSE, !.epoch = 1, !.restarts = 1],
     announce    |-> [Quiet EXCEPT !.started = TRUE, !.timeouts = 1, !.heartbeats = 1, !.in_flight = 2,
                                   !.restarts = 1],
     resignation |-> [Quiet EXCEPT !.started = TRUE, !.again = FALSE, !.log_end = 2, !.in_flight = 2,
                                   !.timeouts = 1, !.resigns = 1],
     replication |-> [Quiet EXCEPT !.started = TRUE, !.again = FALSE, !.log_end = 2, !.in_flight = 2,
                                   !.submits = 1],
     delay       |-> [Quiet EXCEPT !.started = TRUE, !.again = FALSE, !.log_end = 2, !.timeouts = 1,
                                   !.submits = 1],
     overlap     |-> [Quiet EXCEPT !.started = TRUE, !.timeouts = 3]]

Budgets == {"timeouts", "resigns", "heartbeats", "submits", "restarts"}

Spend(b) ==
    /\ spent[b] < Bounds[scenario][b]
    /\ spent' = [spent EXCEPT ![b] = @ + 1]

WithinBounds ==
    /\ Cardinality(net) <= Bounds[scenario].in_flight
    /\ \A v \in Voters : /\ replica[v].epoch <= Bounds[scenario].epoch
                         /\ Len(replica[v].log) <= Bounds[scenario].log_end

(***************************************************************************)
(* Where the first election ends: every voter voted for one, which leads   *)
(* epoch 1 with its LeaderChange batch in its log alone; the others have   *)
(* its announcement and sent it their first Fetch.                         *)
(***************************************************************************)
VotedFor(l) == [BootstrapReplica EXCEPT !.epoch = 1, !.votedKey = l, !.role = Voted]

Following(v, l) == handle_begin_quorum_epoch(v, VotedFor(l), l, 1)

Started ==
    \E l \in Voters :
        /\ replica = [v \in Voters |->
                IF v = l
                THEN promote_to_leader(l, [VotedFor(l) EXCEPT !.role = Candidate(Voters)]).replica
                ELSE Following(v, l).replica]
        /\ net = UNION {Following(v, l).send : v \in Voters \ {l}}
        /\ elected = {<<1, l>>}
        /\ ballots = {<<1, v, l>> : v \in Voters}

MCInit ==
    /\ scenario \in Scenarios
    /\ IF Bounds[scenario].started THEN Started ELSE Init
    /\ spent = [b \in Budgets |-> 0]

MCNext ==
    /\ \/ \E v \in Voters :
            \/ ElectionTimeout(v) /\ Spend("timeouts")
            \/ FetchTimeout(v) /\ Spend("timeouts")
            \/ Resign(v) /\ Spend("resigns")
            \/ Heartbeat(v) /\ Spend("heartbeats")
            \/ Submit(v) /\ Spend("submits")
            \/ Restart(v) /\ Spend("restarts")
       \/ \E m \in net : /\ Receive(m) \/ Lose(m)
                         /\ m \in net' => Bounds[scenario].again
                         /\ UNCHANGED spent
    /\ UNCHANGED scenario
    /\ WithinBounds'

MCSpec == MCInit /\ [][MCNext]_MCvars

VoterSymmetry == Permutations(Voters)

=============================================================================
