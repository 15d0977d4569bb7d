--------------------------- MODULE MCKraftPersist ---------------------------
(***************************************************************************)
(* A small instance of KraftPersist: elections up to an epoch, with a few  *)
(* timeouts and one restart.                                               *)
(***************************************************************************)
EXTENDS KraftPersist, TLC

CONSTANTS
    MaxEpoch,       \* the last epoch an election may open
    MaxInFlight,    \* messages in the network
    MaxTimeouts,    \* election and fetch timeouts
    MaxRestarts     \* crashes

VARIABLES timeouts, restarts

MCInit == Init /\ PersistInit /\ timeouts = 0 /\ restarts = 0

MCNext ==
    /\ \/ /\ PersistQuorumState(\E v \in Voters : ElectionTimeout(v) \/ FetchTimeout(v))
          /\ timeouts < MaxTimeouts /\ timeouts' = timeouts + 1
          /\ UNCHANGED restarts
       \/ /\ PersistQuorumState(\E m \in net : Receive(m) \/ Lose(m))
          /\ UNCHANGED <<timeouts, restarts>>
       \/ /\ \E v \in Voters : RestartFromFile(v)
          /\ restarts < MaxRestarts /\ restarts' = restarts + 1
          /\ UNCHANGED timeouts
    /\ Cardinality(net') <= MaxInFlight
    /\ \A v \in Voters : replica'[v].epoch <= MaxEpoch

MCSpec == MCInit /\ [][MCNext]_<<vars, durable, timeouts, restarts>>

VoterSymmetry == Permutations(Voters)

=============================================================================
