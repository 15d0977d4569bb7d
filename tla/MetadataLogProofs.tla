------------------------- MODULE MetadataLogProofs -------------------------
(***************************************************************************)
(* What the log kernels return, for every log.                             *)
(***************************************************************************)
EXTENDS MetadataLog, TLAPS, WellFoundedInduction

\* A non-empty set of naturals has a least element.
LEMMA LeastExists ==
    ASSUME NEW S \in SUBSET Nat, S # {}
    PROVE  \E x \in S : \A y \in S : x <= y
<1> DEFINE R == OpToRel(<, Nat)
<1>1. IsWellFoundedOn(R, Nat)
    BY NatLessThanWellFounded
<1>2. \A x, y \in Nat : y < x => <<y, x>> \in R
    BY DEF OpToRel
<1> HIDE DEF R
<1>3. PICK x \in S : \A y \in S : ~ (<<y, x>> \in R)
    BY <1>1, WFMin
<1>4. ASSUME NEW y \in S PROVE x <= y
    <2>1. x \in Nat /\ y \in Nat
        OBVIOUS
    <2>2. ~ (y < x)
        BY <1>2, <1>3, <2>1
    <2> QED
        BY <2>1, <2>2
<1> QED
    BY <1>4

\* Min of naturals is their least element.
LEMMA MinIsLeast ==
    ASSUME NEW S \in SUBSET Nat, S # {}
    PROVE  Min(S) \in S /\ \A y \in S : Min(S) <= y
BY LeastExists DEF Min

\* Max of bounded naturals is their greatest element.
LEMMA MaxIsGreatest ==
    ASSUME NEW S \in SUBSET Nat, S # {}, NEW b \in Nat, \A x \in S : x <= b
    PROVE  Max(S) \in S /\ \A y \in S : Max(S) >= y
<1> DEFINE U == {n \in Nat : \A x \in S : x <= n}
<1>1. PICK u \in U : \A n \in U : u <= n
    <2>1. U \in SUBSET Nat /\ U # {}
        OBVIOUS
    <2> QED
        BY <2>1, LeastExists
<1>2. u \in S
    <2>1. SUFFICES ASSUME u \notin S PROVE FALSE
        OBVIOUS
    <2>2. PICK x \in S : TRUE
        OBVIOUS
    <2>3. \A y \in S : y < u
        BY <1>1, <2>1
    <2>4. u - 1 \in Nat /\ \A y \in S : y <= u - 1
        BY <2>2, <2>3
    <2> QED
        BY <2>4, <1>1
<1> QED
    BY <1>1, <1>2 DEF Max

\* The last epoch of a log is a natural.
LEMMA LastEpochType ==
    ASSUME NEW log \in Seq(Nat)
    PROVE  last_epoch(log) \in Nat /\ end_offset(log) \in Nat
BY DEF last_epoch, end_offset

\* A prefix of a log is a log no longer than the cut.
LEMMA PrefixType ==
    ASSUME NEW log \in Seq(Nat), NEW n \in 0 .. Len(log)
    PROVE  /\ Prefix(log, n) \in Seq(Nat)
           /\ Len(Prefix(log, n)) = n
           /\ \A k \in 1 .. n : Prefix(log, n)[k] = log[k]
BY DEF Prefix

\* The end of an epoch is an offset of the log, whatever epoch is asked for.
LEMMA EndOffsetForEpochInLog ==
    ASSUME NEW log \in Seq(Nat), NEW epoch \in Nat
    PROVE  /\ end_offset_for_epoch(log, epoch) \in OffsetAndEpoch
           /\ end_offset_for_epoch(log, epoch).offset \in 0 .. Len(log)
<1> DEFINE above == {k \in 1 .. Len(log) : log[k] > epoch}
           upTo  == {log[k] : k \in {j \in 1 .. Len(log) : log[j] <= epoch}}
<1>1. CASE above = {}
    BY <1>1, LastEpochType DEF end_offset_for_epoch, OffsetAndEpoch
<1>2. CASE above # {}
    <2>1. Min(above) \in 1 .. Len(log)
        <3>1. above \in SUBSET Nat /\ above \subseteq 1 .. Len(log)
            OBVIOUS
        <3> HIDE DEF above
        <3> QED
            BY <1>2, <3>1, MinIsLeast
    <2>2. (IF upTo = {} THEN epoch ELSE Max(upTo)) \in Nat
        <3>1. upTo \in SUBSET Nat /\ \A x \in upTo : x <= epoch
            OBVIOUS
        <3> QED
            BY <3>1, MaxIsGreatest
    <2> HIDE DEF above, upTo
    <2>3. end_offset_for_epoch(log, epoch) =
            [offset |-> Min(above) - 1, epoch |-> IF upTo = {} THEN epoch ELSE Max(upTo)]
        BY <1>2 DEF end_offset_for_epoch, above, upTo
    <2> QED
        BY <2>1, <2>2, <2>3 DEF OffsetAndEpoch
<1> QED
    BY <1>1, <1>2

\* A follower cuts its log at an offset the log has, for any hint.
LEMMA TruncationInLog ==
    ASSUME NEW log \in Seq(Nat), NEW hint \in OffsetAndEpoch
    PROVE  follower_truncation_offset(hint, log) \in 0 .. Len(log)
<1>1. hint.epoch \in Nat /\ hint.offset \in Nat
    BY DEF OffsetAndEpoch
<1>2. end_offset_for_epoch(log, hint.epoch).offset \in 0 .. Len(log)
    BY <1>1, EndOffsetForEpochInLog
<1> QED
    BY <1>1, <1>2 DEF follower_truncation_offset, end_offset

=============================================================================
