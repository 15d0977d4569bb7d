---------------------------- MODULE TxnPartition ----------------------------
(***************************************************************************)
(* What the leader of a partition keeps of one producer id, and how it     *)
(* decides about its batches and about its transaction markers.            *)
(*                                                                         *)
(* epoch:        the producer epoch of the last batch or marker            *)
(* coordinator:  the coordinator epoch of the last marker                  *)
(* open:         the epochs of the data of the open transaction            *)
(* verifying:    the epoch of the verification in progress, or -1          *)
(***************************************************************************)
EXTENDS Integers

CONSTANT MaxEpoch

new_producer == [epoch |-> -1, coordinator |-> -1, open |-> {}, verifying |-> -1]

has_ongoing_transaction(s, epoch) == s.open # {} /\ s.epoch = epoch

\* A batch below the epoch of the log is refused; one of the open transaction needs no check.
StartsVerification(s, epoch) == epoch >= s.epoch /\ ~has_ongoing_transaction(s, epoch)

maybe_start_transaction_verification(s, epoch) ==
    [s EXCEPT !.verifying = IF epoch > @ THEN epoch ELSE @]

\* Mutant: a batch that was verified once may append.
check_transactional_append_unguarded(s, epoch, guard) == TRUE

\* guard: the verification the batch started is still the one in progress.
check_transactional_append(s, epoch, guard) ==
    \/ has_ongoing_transaction(s, epoch)
    \/ epoch >= s.epoch /\ s.verifying # -1 /\ guard

AppendData(s, epoch) == [s EXCEPT !.epoch = epoch, !.open = @ \cup {epoch}, !.verifying = -1]

------------------------------------------------------------------------------

\* Mutant: a marker ends a transaction of its own epoch.
transaction_marker_equal_epoch_fenced_never(s, epoch) == FALSE

transaction_marker_equal_epoch_fenced(s, epoch) ==
    epoch = s.epoch /\ s.open # {} /\ epoch # MaxEpoch

transaction_marker_decision(s, epoch, coordinator) ==
    CASE \/ transaction_marker_equal_epoch_fenced(s, epoch)
         \/ epoch < s.epoch
         \/ coordinator < s.coordinator -> "fenced"
      [] s.open = {} /\ epoch = s.epoch /\ coordinator = s.coordinator -> "retry"
      [] OTHER -> "append"

\* A verification of the transaction after the one the marker ends goes on.
KeepsVerification(s, epoch) == s.verifying = epoch

AppendMarker(s, epoch, coordinator) ==
    [epoch |-> epoch, coordinator |-> coordinator, open |-> {},
     verifying |-> IF KeepsVerification(s, epoch) THEN s.verifying ELSE -1]

=============================================================================
