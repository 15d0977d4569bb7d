---------------------------- MODULE CommittedLog ----------------------------
(***************************************************************************)
(* What the metadata quorum promises to those who read and write it: there *)
(* is one log, it only grows, every reader has applied a prefix of it, and *)
(* a write that was answered is in it.  A reader that restarts applies the *)
(* log again from an earlier point.  How the log is agreed on, and that it *)
(* has leaders and epochs at all, is left out: an entry is any value.      *)
(***************************************************************************)
EXTENDS Naturals, Sequences

CONSTANTS
    Readers,    \* who applies the log
    Entries     \* what it holds

VARIABLES
    committed,  \* the log
    applied,    \* applied[r]: what reader r applied of it
    answered    \* the <<offset, entry>> pairs answered as committed

IsPrefixOf(s, t) == Len(s) <= Len(t) /\ s = SubSeq(t, 1, Len(s))

Init ==
    /\ committed = <<>>
    /\ applied = [r \in Readers |-> <<>>]
    /\ answered = {}

\* The log grows, by nothing or more, and reader r applies more of it.
Advance(r) ==
    /\ committed' \in Seq(Entries)
    /\ IsPrefixOf(committed, committed')
    /\ IsPrefixOf(applied[r], applied'[r]) /\ IsPrefixOf(applied'[r], committed')
    /\ applied' = [applied EXCEPT ![r] = applied'[r]]

\* Reader r restarts from an earlier point.
Forget(r) ==
    /\ IsPrefixOf(applied'[r], applied[r])
    /\ applied' = [applied EXCEPT ![r] = applied'[r]]
    /\ UNCHANGED committed

\* Writes are answered once the log holds them.
Answer ==
    /\ answered \subseteq answered'
    /\ \A a \in answered' \ answered : a[1] \in 1 .. Len(committed') /\ committed'[a[1]] = a[2]

Next == \E r \in Readers : (Advance(r) \/ Forget(r)) /\ Answer

Spec == Init /\ [][Next]_<<committed, applied, answered>>

=============================================================================
