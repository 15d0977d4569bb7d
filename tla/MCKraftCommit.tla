--------------------------- MODULE MCKraftCommit ---------------------------
(***************************************************************************)
(* Small instances of KraftCommit, from the end of the first election on.  *)
(* A run explores one scenario or several, as in MCKraftQuorum.            *)
(***************************************************************************)
EXTENDS KraftCommit, TLC

CONSTANT Scenarios      \* the scenarios a run explores, by name

VARIABLES
    scenario,   \* the scenario of this behaviour
    spent       \* how much of each budget is used

MCvars == <<allVars, scenario, spent>>

(***************************************************************************)
(* epoch, log_end and in_flight bound the epochs, the logs and the         *)
(* network.  The others are budgets: of election and fetch timeouts,       *)
(* resignations, crashes, topics created, idle batches, images read for a  *)
(* compare-and-set and messages lost.                                      *)
(***************************************************************************)
Quiet == [epoch |-> 2, log_end |-> 3, in_flight |-> 3, timeouts |-> 1, resigns |-> 0,
          restarts |-> 0, submits |-> 1, noops |-> 0, reads |-> 0, losses |-> 0]

Bounds ==
    [plan  |-> [Quiet EXCEPT !.log_end = 4, !.submits = 2, !.reads = 1],
     crash |-> [Quiet EXCEPT !.log_end = 4, !.in_flight = 2, !.restarts = 1, !.submits = 2, !.reads = 1],
     loss  |-> [Quiet EXCEPT !.log_end = 4, !.submits = 2, !.losses = 1],
     idle  |-> [Quiet EXCEPT !.log_end = 4, !.submits = 2, !.noops = 1, !.reads = 1],
     quit  |-> [Quiet EXCEPT !.resigns = 1]]

Budgets == {"timeouts", "resigns", "restarts", "submits", "noops", "reads", "losses"}

Spend(b) == spent[b] < Bounds[scenario][b] /\ spent' = [spent EXCEPT ![b] = @ + 1]

WithinBounds ==
    /\ Cardinality(net) <= Bounds[scenario].in_flight
    /\ \A v \in Voters : /\ replica[v].epoch <= Bounds[scenario].epoch
                         /\ Len(replica[v].log) <= Bounds[scenario].log_end

(***************************************************************************)
(* Every voter voted for one, which leads epoch 1 with its LeaderChange    *)
(* batch in its log alone; the others sent it their first Fetch.           *)
(***************************************************************************)
VotedFor(l) == [BootstrapReplica EXCEPT !.epoch = 1, !.votedKey = l, !.role = Voted]

Following(v, l) == handle_begin_quorum_epoch(v, VotedFor(l), l, 1)

MCInit ==
    /\ scenario \in Scenarios
    /\ \E l \in Voters :
        /\ replica = [v \in Voters |->
                IF v = l
                THEN promote_to_leader(l, [VotedFor(l) EXCEPT !.role = Candidate(Voters)]).replica
                ELSE Following(v, l).replica]
        /\ net = UNION {Following(v, l).send : v \in Voters \ {l}}
        /\ elected = {<<1, l>>}
        /\ ballots = {<<1, v, l>> : v \in Voters}
    /\ CommitInit
    /\ spent = [b \in Budgets |-> 0]

MCNext ==
    /\ UNCHANGED scenario
    /\ \/ \E v \in Voters :
            \/ Turn(ElectionTimeout(v) \/ FetchTimeout(v)) /\ Spend("timeouts")
            \/ Turn(Resign(v)) /\ Spend("resigns")
            \/ RestartEngine(v) /\ Spend("restarts")
            \/ AppendNoOp(v) /\ Spend("noops")
            \/ ReadImage(v) /\ Spend("reads")
            \/ \E name \in Names : SubmitChange(v, name) /\ Spend("submits")
       \/ \E p \in plans : \E name \in Names : SubmitIfImage(p, name) /\ Spend("submits")
       \/ \E m \in net : \/ Turn(Receive(m)) /\ UNCHANGED spent
                         \/ Turn(Lose(m)) /\ Spend("losses")
    /\ WithinBounds'

MCSpec == MCInit /\ [][MCNext]_MCvars

Symmetry == Permutations(Voters) \cup Permutations(Names)

=============================================================================
