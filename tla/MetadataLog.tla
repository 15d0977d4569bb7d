---------------------------- MODULE MetadataLog ----------------------------
(***************************************************************************)
(* The metadata log as the consensus core sees it (LogView), and the pure  *)
(* kernels that read it.  A log is the sequence of the leader epochs of    *)
(* its batches: log[k] is the epoch of the batch at offset k - 1.  What a  *)
(* batch carries is left out, because one leader writes an epoch, so the   *)
(* offset and the epoch of a batch identify it.  A batch fills one offset, *)
(* and the log starts at offset 0 (no snapshot has pruned it).             *)
(***************************************************************************)
EXTENDS Integers, Sequences, FiniteSets, FiniteSetsExt

\* A leader epoch and the offset after its last batch (LogOffsetMetadata).
OffsetAndEpoch == [offset : Nat, epoch : Nat]

end_offset(log) == Len(log)

\* Mutant: an empty log has the epoch -1.
last_epoch_unset(log) == IF log = <<>> THEN -1 ELSE log[Len(log)]

\* The epoch of the last batch, 0 for an empty log.
last_epoch(log) == IF log = <<>> THEN 0 ELSE log[Len(log)]

\* The batches below an offset.
Prefix(log, offset) == SubSeq(log, 1, offset)

(***************************************************************************)
(* Where an epoch ends: the start of the next larger epoch beside the      *)
(* largest epoch held at or below the one asked for, or the asked epoch    *)
(* itself when it is below every epoch held.  An epoch that no held epoch  *)
(* exceeds ends at the log end, beside the latest epoch.                   *)
(***************************************************************************)
end_offset_for_epoch(log, epoch) ==
    LET above == {k \in 1 .. Len(log) : log[k] > epoch}
        upTo  == {log[k] : k \in {j \in 1 .. Len(log) : log[j] <= epoch}}
    IN  IF above = {}
        THEN [offset |-> Len(log), epoch |-> last_epoch(log)]
        ELSE [offset |-> Min(above) - 1,
              epoch  |-> IF upTo = {} THEN epoch ELSE Max(upTo)]

\* Mutant: the offsets are not compared.
log_is_up_to_date_by_epoch(log, candEpoch, candOffset) == candEpoch >= last_epoch(log)

\* The higher last epoch wins; on a tie, the higher or equal end offset.
log_is_up_to_date(log, candEpoch, candOffset) ==
    \/ candEpoch > last_epoch(log)
    \/ candEpoch = last_epoch(log) /\ candOffset >= end_offset(log)

\* Mutant: only the offset of the fetch is checked.
Diverges_by_offset(log, fetchEpoch, fetchOffset) == fetchOffset > end_offset(log)

\* A fetch diverges unless the log holds its epoch up to its offset.
Diverges(log, fetchEpoch, fetchOffset) ==
    /\ fetchOffset > 0
    /\ LET end == end_offset_for_epoch(log, fetchEpoch)
       IN  end.epoch # fetchEpoch \/ end.offset < fetchOffset

\* Mutant: a follower that diverges starts over.
follower_truncation_to_start(hint, log) == 0

\* Where a follower cuts its log when the leader answers with this hint.
follower_truncation_offset(hint, log) ==
    LET local == end_offset_for_epoch(log, hint.epoch)
        Lesser(a, b) == IF a <= b THEN a ELSE b
    IN  CASE hint.epoch = 0           -> Lesser(hint.offset, end_offset(log))
          [] hint.epoch # 0 /\ local.epoch = hint.epoch
                                      -> Lesser(local.offset, hint.offset)
          [] OTHER                    -> local.offset

\* The monotonic move of a high watermark, never past the log end.
advance_high_watermark(previous, requested, logEnd) ==
    LET clamped == IF requested <= logEnd THEN requested ELSE logEnd
    IN  IF previous >= clamped THEN previous ELSE clamped

\* What a truncation leaves of the high watermark.
truncation_frontier(hwm, logEnd) == IF hwm <= logEnd THEN hwm ELSE logEnd

=============================================================================
