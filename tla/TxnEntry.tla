------------------------------ MODULE TxnEntry ------------------------------
(***************************************************************************)
(* The entry the transaction coordinator keeps for a transactional id, and *)
(* the decisions it takes about it at transaction version 2.               *)
(*                                                                         *)
(* A producer identity is <<producer id, epoch>>.  Ending a transaction    *)
(* raises the epoch, so an identity names one transaction.  A producer     *)
(* whose epoch reaches MaxEpoch - 1 moves to a fresh producer id, and      *)
(* MaxEpoch, which is i16::MAX, is left to the markers of the last         *)
(* transaction of the old one.                                             *)
(***************************************************************************)
EXTENDS Integers

CONSTANT MaxEpoch

ASSUME MaxEpochAssumption == MaxEpoch \in Nat \ {0, 1}

NoId == <<0, -1>>       \* the identity -1/-1

Prepared == {"PrepareCommit", "PrepareAbort"}
Completed == {"CompleteCommit", "CompleteAbort"}

(***************************************************************************)
(* state:       of the transaction; "none" where there is no entry         *)
(* id:          the producer, at the epoch its markers carry               *)
(* last:        the epoch before id's                                      *)
(* prev:        the producer id before the last change of it               *)
(* next:        the identity a completion hands out, if not id             *)
(* partitions:  the partitions of the transaction that need a marker       *)
(***************************************************************************)
new_empty(id) ==
    [state |-> "Empty", id |-> id, last |-> -1, prev |-> 0, next |-> NoId, partitions |-> {}]

NoEntry == [new_empty(NoId) EXCEPT !.state = "none"]

\* The identity the client of the entry holds.
client_producer_identity(e) == IF e.next # NoId THEN e.next ELSE e.id

\* The transaction a prepared entry ends.
TransactionOf(e) == <<e.id[1], e.last>>

------------------------------------------------------------------------------

\* Mutant: the producer keeps its id at the last epoch.
next_producer_identity_unrotated(id, fresh) == <<id[1], id[2] + 1>>

next_producer_identity(id, fresh) ==
    IF id[2] >= MaxEpoch - 1 THEN <<fresh, 0>> ELSE <<id[1], id[2] + 1>>

prepare_completion_identities(e, fresh) ==
    LET completion == next_producer_identity(e.id, fresh)
    IN  [e EXCEPT !.last = e.id[2],
                  !.id   = <<e.id[1], IF e.id[2] < MaxEpoch THEN e.id[2] + 1 ELSE MaxEpoch>>,
                  !.next = IF completion[1] # e.id[1] THEN completion ELSE NoId]

\* The PrepareAbort that fences a producer or ends an expired transaction.
prepare_server_abort(e, fresh) ==
    prepare_completion_identities([e EXCEPT !.state = "PrepareAbort"], fresh)

\* EndTxn, phase 1: an abort that finds nothing ongoing has nothing to mark.
prepare_transaction(e, commit, fresh) ==
    prepare_completion_identities(
        [e EXCEPT !.state = IF commit THEN "PrepareCommit" ELSE "PrepareAbort",
                  !.partitions = IF e.state = "Ongoing" THEN @ ELSE {}], fresh)

apply_completion(e) ==
    LET id == client_producer_identity(e)
    IN  [e EXCEPT !.state = IF @ = "PrepareCommit" THEN "CompleteCommit" ELSE "CompleteAbort",
                  !.prev = IF id[1] # e.id[1] THEN e.id[1] ELSE @,
                  !.id = id, !.next = NoId, !.partitions = {}]

------------------------------------------------------------------------------

\* InitProducerId: what the identity of the request is to the entry.
identity_decision(e, request) ==
    LET held == client_producer_identity(e)
    IN  IF request = NoId \/ request = held
        THEN "bump"
        ELSE IF /\ \/ request[1] = held[1]
                   \/ request[1] = e.prev /\ request[2] >= MaxEpoch - 1
                /\ request[2] = e.last
             THEN "retry"
             ELSE "fenced"

bump_epoch(e, request, fresh) ==
    LET held == client_producer_identity(e)
        id   == next_producer_identity(held, fresh)
    IN  [new_empty(id) EXCEPT !.last = IF request # NoId THEN held[2] ELSE -1,
                              !.prev = IF id[1] # held[1] THEN held[1] ELSE 0]

(***************************************************************************)
(* EndTxn.  The request names the identity the transaction was written     *)
(* with; a retry finds the entry one epoch later, or at epoch 0 of the     *)
(* next producer id.                                                       *)
(***************************************************************************)
compared_identity(e, pid) ==
    IF e.state \in Prepared /\ e.next # NoId /\ e.id[1] = pid
    THEN e.id
    ELSE client_producer_identity(e)

\* Mutant: whatever completed is what the retry asked for.
end_txn_decision_blind(e, request, commit) ==
    LET held        == compared_identity(e, request[1])
        on_bump     == held = <<request[1], request[2] + 1>>
        on_overflow == e.prev = request[1] /\ request[2] = MaxEpoch - 1 /\ held[2] = 0
    IN  CASE held = request /\ e.state = "Ongoing" -> "prepare"
          [] held = request /\ e.state \in {"Empty"} \cup Completed /\ ~commit -> "prepare"
          [] (on_bump \/ on_overflow) /\ e.state \in Completed -> "complete"
          [] OTHER -> "refuse"

end_txn_decision(e, request, commit) ==
    LET held        == compared_identity(e, request[1])
        on_bump     == held = <<request[1], request[2] + 1>>
        on_overflow == e.prev = request[1] /\ request[2] = MaxEpoch - 1 /\ held[2] = 0
    IN  CASE held = request /\ e.state = "Ongoing" -> "prepare"
          [] held = request /\ e.state \in {"Empty"} \cup Completed /\ ~commit -> "prepare"
          [] /\ on_bump \/ on_overflow
             /\ e.state = IF commit THEN "CompleteCommit" ELSE "CompleteAbort" -> "complete"
          [] OTHER -> "refuse"

------------------------------------------------------------------------------

\* The states a registration may move to Ongoing; a staged identity is refused.
registration_decision(e, request, p) ==
    IF e.next # NoId \/ e.id # request
    THEN "refuse"
    ELSE CASE e.state = "Ongoing" /\ p \in e.partitions -> "registered"
           [] e.state = "Ongoing" /\ p \notin e.partitions -> "register"
           [] e.state \in {"Empty"} \cup Completed -> "register"
           [] OTHER -> "refuse"

stage_registration(e, p) ==
    [e EXCEPT !.state = "Ongoing",
              !.partitions = (IF e.state \in Completed THEN {} ELSE @) \cup {p}]

\* A marker that is written leaves the same prepared transaction only.
remove_marked_partitions(live, prepared, written) ==
    IF live.state \in Prepared /\ live.state = prepared.state /\ live.id = prepared.id
    THEN [live EXCEPT !.partitions = @ \ written]
    ELSE live

\* EndTxn, phase 3: the same identity in the same prepared state.
decide_end_txn_completion(live, prepared) ==
    live.id = prepared.id /\ live.state = prepared.state

\* The other completions ask for the exact snapshot they marked.
completion_decision(live, prepared) == live = prepared

=============================================================================
