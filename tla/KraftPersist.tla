---------------------------- MODULE KraftPersist ----------------------------
(***************************************************************************)
(* The quorum-state file of every voter.  KraftQuorum takes the epoch and  *)
(* the vote to survive a restart; here a turn writes them to a file, the   *)
(* write may fail, and a restart reads the file.  A failed write is logged *)
(* and the turn goes on: what it answers is answered all the same.         *)
(***************************************************************************)
EXTENDS KraftQuorum

VARIABLE durable    \* durable[v]: the epoch and the vote in the file of v

\* A missing file reads as a voter in epoch 0 that has not voted.
PersistInit == durable = [v \in Voters |-> [epoch |-> 0, votedKey |-> Nil]]

QuorumStateOf(r) == [epoch |-> r.epoch, votedKey |-> r.votedKey]

\* The write at the end of a turn of this kind: done, or failed and logged.
PersistQuorumState(A) ==
    /\ A
    /\ \E failed \in SUBSET {v \in Voters : replica'[v] # replica[v]} :
        durable' = [v \in Voters |->
            IF v \in failed THEN durable[v] ELSE QuorumStateOf(replica'[v])]

\* A restart reads the file, whatever the voter had answered before.
RestartFromFile(v) ==
    /\ EndTurn(v, {m \in net : IsAnswer(m) /\ m.to = v},
               NoStep([replica[v] EXCEPT !.epoch = durable[v].epoch,
                                         !.votedKey = durable[v].votedKey,
                                         !.leaderId = Nil,
                                         !.role = Unattached]))
    /\ UNCHANGED durable

PersistNext ==
    \/ PersistQuorumState(
            \/ \E v \in Voters : ElectionTimeout(v) \/ FetchTimeout(v) \/ Resign(v) \/ Heartbeat(v)
            \/ \E m \in net : Receive(m) \/ Lose(m))
    \/ \E v \in Voters : RestartFromFile(v)

PersistSpec == Init /\ PersistInit /\ [][PersistNext]_<<vars, durable>>

\* A voter gives one vote in an epoch, restarts included: "Binding: persist
\* the vote, become Voted" (vote_request.rs), and "A missing file means the
\* node has not voted" (docs/persisted_formats.md).
OneVoteAcrossRestarts == OneBallot

=============================================================================
