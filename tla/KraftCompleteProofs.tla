------------------------ MODULE KraftCompleteProofs -------------------------
(***************************************************************************)
(* How the history of a quorum goes on with a turn: what is proved here of *)
(* exchanges, votes, acknowledgements and high watermarks is about any     *)
(* turn of a voter whose log changes the way PastTurn says.  The second    *)
(* part takes every step through it.                                       *)
(***************************************************************************)
EXTENDS KraftLogProofs

(***************************************************************************)
(* Truncation hints.                                                       *)
(***************************************************************************)

\* An epoch ends no earlier than the batches up to it, in an epoch not below
\* theirs.
LEMMA EndAtLeast ==
    ASSUME NEW log \in Seq(Nat), NEW e \in Nat, Ordered(log, e), NEW k \in 1 .. Len(log),
           NEW ep \in Nat, log[k] <= ep
    PROVE  /\ end_offset_for_epoch(log, ep).offset >= k
           /\ end_offset_for_epoch(log, ep).epoch >= log[k]
<1> DEFINE above == {j \in 1 .. Len(log) : log[j] > ep}
           upTo  == {log[j] : j \in {i \in 1 .. Len(log) : log[i] <= ep}}
           end   == end_offset_for_epoch(log, ep)
<1>0. log[k] \in Nat /\ Len(log) \in Nat /\ k \in Nat
    OBVIOUS
<1>1. CASE above = {}
    <2>1. end = [offset |-> Len(log), epoch |-> last_epoch(log)]
        BY <1>1 DEF end_offset_for_epoch
    <2>2. last_epoch(log) = log[Len(log)] /\ Len(log) \in 1 .. Len(log)
        BY DEF last_epoch
    <2>3. log[k] <= log[Len(log)]
        BY <2>2 DEF Ordered
    <2> QED
        BY <1>0, <2>1, <2>2, <2>3
<1>2. CASE above # {}
    <2>1. above \in SUBSET Nat /\ upTo \in SUBSET Nat /\ \A x \in upTo : x <= ep
        OBVIOUS
    <2>2. end = [offset |-> Min(above) - 1, epoch |-> IF upTo = {} THEN ep ELSE Max(upTo)]
        BY <1>2 DEF end_offset_for_epoch
    <2>3. PICK a \in 1 .. Len(log) : a = Min(above) /\ log[a] > ep
        <3>1. Min(above) \in above
            BY <1>2, <2>1, MinIsLeast
        <3> QED
            BY <3>1
    <2>4. k < a
        <3>1. SUFFICES ASSUME a <= k PROVE FALSE
            BY <1>0
        <3>2. log[a] <= log[k] /\ log[a] \in Nat
            BY <3>1 DEF Ordered
        <3> QED
            BY <1>0, <2>3, <3>2
    <2>5. log[k] \in upTo
        BY <1>0
    <2>6. end.offset = a - 1 /\ end.epoch = Max(upTo)
        <3> HIDE DEF above, upTo, end
        <3> QED
            BY <2>2, <2>3, <2>5
    <2>7. Max(upTo) >= log[k]
        <3> HIDE DEF upTo
        <3> QED
            BY <2>1, <2>5, MaxIsGreatest
    <2> HIDE DEF end, upTo, above
    <2> QED
        BY <1>0, <2>4, <2>6, <2>7 DEF end
<1> QED
    BY <1>1, <1>2

\* The hint for a log, computed from the end of its last epoch, cuts nothing
\* that the two logs share.
LEMMA HintKeeps ==
    ASSUME NEW log \in Seq(Nat), NEW lead \in Seq(Nat), NEW d \in Nat, NEW e \in Nat,
           Ordered(log, d), Ordered(lead, e),
           NEW k \in 1 .. Len(log), SameBelow(log, lead, k)
    PROVE  k <= follower_truncation_offset(end_offset_for_epoch(lead, last_epoch(log)), log)
<1> DEFINE last == last_epoch(log)
           hint == end_offset_for_epoch(lead, last)
           local == end_offset_for_epoch(log, hint.epoch)
<1>1. last \in Nat /\ log[k] <= last
    <2>1. last = log[Len(log)] /\ Len(log) \in 1 .. Len(log)
        BY DEF last_epoch
    <2> QED
        BY <2>1, LastEpochType DEF Ordered
<1>2. k \in 1 .. Len(lead) /\ lead[k] = log[k]
    <2>1. k \in 1 .. k
        OBVIOUS
    <2> QED
        BY <2>1 DEF SameBelow
<1> HIDE DEF last
<1>3. hint.offset >= k /\ hint.epoch >= log[k]
    BY <1>1, <1>2, EndAtLeast
<1>4. hint.offset \in Nat /\ hint.epoch \in Nat
    BY <1>1, EndOffsetForEpochInLog DEF OffsetAndEpoch
<1> HIDE DEF hint
<1>5. local.offset >= k
    BY <1>3, <1>4, EndAtLeast
<1>6. local.offset \in Nat
    BY <1>4, EndOffsetForEpochInLog DEF OffsetAndEpoch
<1> HIDE DEF local
<1>7. k <= follower_truncation_offset(hint, log)
    BY <1>3, <1>4, <1>5, <1>6 DEF follower_truncation_offset, end_offset, local
<1> QED
    BY <1>7 DEF hint, last

(***************************************************************************)
(* What later leaders lack.                                                *)
(***************************************************************************)

\* A leader's log grows by batches of its own epoch.
GrowsInEpoch(led, grown) ==
    \A e \in Nat : \/ grown[e] = led[e]
                   \/ led[e] = <<>>
                   \/ grown[e] = Append(led[e], e)

\* A leader that came without a batch of an earlier epoch never gets it.
LEMMA LacksStays ==
    ASSUME NEW led \in Histories, NEW grown \in Histories, GrowsInEpoch(led, grown),
           NEW S \in Seq(Nat), NEW e \in Nat, Ordered(S, e), NEW k \in Nat,
           NEW x \in Nat, e < x, led[x] # <<>>, ~SameBelow(S, led[x], k)
    PROVE  grown[x] # <<>> /\ ~SameBelow(S, grown[x], k)
<1>1. PICK old \in Seq(Nat), new \in Seq(Nat) : old = led[x] /\ new = grown[x]
    BY DEF Histories
<1>2. CASE new = old
    BY <1>1, <1>2
<1>3. CASE new = Append(old, x)
    <2>1. Len(new) = Len(old) + 1 /\ new[Len(old) + 1] = x /\ SameBelow(old, new, Len(old))
        BY <1>3, SameAppend
    <2>2. new # <<>>
        BY <2>1
    <2>3. ASSUME SameBelow(S, new, k) PROVE FALSE
        <3>1. CASE k <= Len(old)
            <4>1. SameBelow(new, old, k)
                BY <2>1, <3>1, SameLess, SameSym
            <4> QED
                BY <1>1, <2>3, <4>1, SameTrans
        <3>2. CASE k > Len(old)
            <4>1. Len(old) + 1 \in 1 .. k
                BY <3>2
            <4>2. Len(old) + 1 \in 1 .. Len(S) /\ S[Len(old) + 1] = x
                BY <2>1, <2>3, <4>1 DEF SameBelow
            <4>3. x <= e
                BY <4>2 DEF Ordered
            <4> QED
                BY <4>3
        <3> QED
            BY <3>1, <3>2
    <2> QED
        BY <1>1, <2>2, <2>3
<1> QED
    BY <1>1, <1>2, <1>3 DEF GrowsInEpoch

\* What a log keeps, it keeps in the grown history.
LEMMA KeptGrows ==
    ASSUME NEW led \in Histories, NEW grown \in Histories, GrowsInEpoch(led, grown),
           NEW S \in Seq(Nat), NEW T \in Seq(Nat), NEW e \in Nat, Ordered(S, e), NEW k \in Nat,
           SameBelow(S, T, k), NEW log, NEW until \in Nat, NEW later \in Nat, until <= later,
           Kept(led, S, e, k, log, until)
    PROVE  Kept(grown, T, e, k, log, later)
<1>1. DOMAIN led = Nat /\ DOMAIN grown = Nat /\ SameBelow(T, S, k)
    BY SameSym DEF Histories
<1>2. CASE SameBelow(S, log, k)
    BY <1>1, <1>2, SameTrans DEF Kept
<1>3. CASE ~SameBelow(S, log, k)
    <2>1. PICK x \in Nat : e < x /\ x < until /\ led[x] # <<>> /\ ~SameBelow(S, led[x], k)
        BY <1>1, <1>3 DEF Kept
    <2>2. grown[x] # <<>> /\ ~SameBelow(S, grown[x], k)
        BY <2>1, LacksStays
    <2>3. ~SameBelow(T, grown[x], k)
        BY <2>2, SameTrans
    <2>4. x < later
        BY <2>1
    <2> QED
        BY <1>1, <2>1, <2>2, <2>3, <2>4 DEF Kept
<1> QED
    BY <1>2, <1>3

(***************************************************************************)
(* What a turn does to a log.                                              *)
(***************************************************************************)
Refetches(send) == \E m \in send : m.type = "Fetch"

\* A log is cut only where it differs from the log of its epoch's leader.
KeepsShared(led, r, q) ==
    \A k \in 1 .. Len(r.log) :
        \/ SameBelow(r.log, q.log, k)
        \/ q.epoch = r.epoch /\ led[r.epoch] # <<>> /\ ~SameBelow(r.log, led[r.epoch], k)

\* The log stays, or a leader appends to it, or a follower rewrites it and
\* fetches again, and then keeps what it shares with its leader.
PastTurn(led, r, q, send) ==
    /\ q.epoch >= r.epoch
    /\ q.log = r.log \/ q.role.name = "Leader" \/ Refetches(send)
    /\ q.role.name = "Leader" => Begins(r.log, q.log)
    /\ KeepsShared(led, r, q)
    /\ q.role.name = "Candidate" => q.log = r.log
    /\ q.role.name \in {"Candidate", "Leader"} =>
            \/ q.epoch > r.epoch
            \/ q.epoch = r.epoch /\ r.role.name \in {q.role.name, "Candidate"}

\* Who neither stands nor leads in an epoch will not.
LEMMA BystanderStays ==
    ASSUME NEW led, NEW r \in Replica, NEW q \in Replica, NEW send, PastTurn(led, r, q, send),
           NEW e \in Nat, Bystander(r, e)
    PROVE  Bystander(q, e)
<1>1. r.epoch \in Nat /\ q.epoch \in Nat
    BY ReplicaFields
<1> QED
    BY <1>1 DEF PastTurn, Bystander

\* A bystander's log stays, or it fetches again.
LEMMA BystanderLog ==
    ASSUME NEW led, NEW r \in Replica, NEW q \in Replica, NEW send, PastTurn(led, r, q, send),
           NEW e \in Nat, Bystander(r, e), q.epoch = e
    PROVE  r.epoch = e /\ (q.log = r.log \/ Refetches(send))
<1>1. r.epoch \in Nat /\ q.epoch \in Nat
    BY ReplicaFields
<1> QED
    BY <1>1 DEF PastTurn, Bystander

\* A log that had its leaders shares no more with a leader's log that grows.
LEMMA SharedStays ==
    ASSUME NEW led \in Histories, NEW grown \in Histories, GrowsInEpoch(led, grown),
           NEW log \in Seq(Nat), Sourced(led, log), NEW e \in Nat, led[e] # <<>>,
           NEW k \in Nat, SameBelow(log, grown[e], k)
    PROVE  SameBelow(log, led[e], k)
<1>1. PICK old \in Seq(Nat), new \in Seq(Nat) : old = led[e] /\ new = grown[e]
    BY DEF Histories
<1>2. CASE new = old
    BY <1>1, <1>2
<1>3. CASE new = Append(old, e)
    <2>1. Len(new) = Len(old) + 1 /\ new[Len(old) + 1] = e /\ SameBelow(old, new, Len(old))
        BY <1>3, SameAppend
    <2>2. CASE k <= Len(old)
        <3>1. SameBelow(old, new, k)
            BY <2>1, <2>2, SameLess
        <3>2. SameBelow(new, old, k)
            BY <3>1, SameSym
        <3> QED
            BY <1>1, <3>2, SameTrans
    <2>3. CASE k > Len(old)
        <3>1. Len(old) + 1 \in 1 .. k
            BY <2>3
        <3>2. Len(old) + 1 \in 1 .. Len(log) /\ log[Len(old) + 1] = e
            BY SMTT(40), <1>1, <2>1, <3>1 DEF SameBelow
        <3>3. SameBelow(log, old, Len(old) + 1)
            BY <1>1, <3>2 DEF Sourced
        <3>4. Len(old) + 1 <= Len(old)
            BY <3>3, SameInside
        <3> QED
            BY <3>4
    <2> QED
        BY <2>2, <2>3
<1> QED
    BY <1>1, <1>2, <1>3 DEF GrowsInEpoch

\* A history that grows gets no shorter.
LEMMA GrownLonger ==
    ASSUME NEW led \in Histories, NEW grown \in Histories, Grows(led, grown), NEW e \in Nat
    PROVE  Len(led[e]) <= Len(grown[e]) /\ (led[e] # <<>> => grown[e] # <<>>)
<1>1. PICK old \in Seq(Nat), new \in Seq(Nat) : old = led[e] /\ new = grown[e]
    BY DEF Histories
<1>2. SameBelow(old, new, Len(old)) /\ Len(old) \in Nat
    BY <1>1 DEF Grows
<1>3. Len(old) <= Len(new)
    BY <1>2, SameInside
<1> QED
    BY <1>1, <1>3

(***************************************************************************)
(* Exchanges.                                                              *)
(***************************************************************************)

\* A Fetch, or an answer, of an unchanged log stays current.
LEMMA FetchStaysCurrent ==
    ASSUME NEW led \in Histories, NEW grown \in Histories, Grows(led, grown),
           NEW r \in Replica, NEW q \in Replica, NEW m, m.epoch \in Nat, m.fetchEpoch \in Nat,
           m.fetchOffset \in Nat, FetchIsCurrent(led, r, m), Bystander(q, m.epoch),
           q.epoch = m.epoch => r.epoch = m.epoch /\ q.log = r.log
    PROVE  FetchIsCurrent(grown, q, m)
<1>1. PICK old \in Seq(Nat), new \in Seq(Nat) : old = led[m.fetchEpoch] /\ new = grown[m.fetchEpoch]
    BY DEF Histories
<1>2. Len(old) <= Len(new)
    BY <1>1, SameInside DEF Grows
<1> QED
    BY <1>1, <1>2 DEF FetchIsCurrent

LEMMA AnswerStaysCurrent ==
    ASSUME NEW led \in Histories, NEW grown \in Histories, Grows(led, grown),
           GrowsInEpoch(led, grown), NEW r \in Replica, NEW q \in Replica, Sourced(led, r.log),
           NEW m, m.epoch \in Nat, AnswerIsCurrent(led, r, m), Bystander(q, m.epoch),
           q.epoch = m.epoch => r.epoch = m.epoch /\ q.log = r.log
    PROVE  AnswerIsCurrent(grown, q, m)
<1>1. led[m.epoch] # <<>> /\ m.from # m.to
    BY DEF AnswerIsCurrent
<1>2. grown[m.epoch] # <<>>
    BY <1>1, GrownLonger
<1>3. ASSUME m.diverging # Nil, q.epoch = m.epoch, NEW k \in 1 .. Len(q.log),
             SameBelow(q.log, grown[m.epoch], k)
      PROVE  k <= follower_truncation_offset(m.diverging, q.log)
    <2>1. r.log \in Seq(Nat) /\ k \in Nat
        BY ReplicaFields
    <2>2. SameBelow(r.log, led[m.epoch], k)
        BY <1>1, <1>3, <2>1, SharedStays
    <2> QED
        BY <1>3, <2>2 DEF AnswerIsCurrent
<1> QED
    BY <1>1, <1>2, <1>3 DEF AnswerIsCurrent

\* What is in flight after a turn.
LEMMA InFlight ==
    ASSUME ~FetchesOverlap, NEW v, NEW gone, NEW step, EndTurn(v, gone, step), NEW m \in net'
    PROVE  \/ m \in step.send
           \/ m \in net /\ (Refetches(step.send) => ~IsFetchExchange(v, m))
BY DEF EndTurn, Superseded, Refetches

\* Exchanges stay current through every turn.
LEMMA ExchangeTurn ==
    ASSUME ~FetchesOverlap, TypeOK, TypeOK', NEW led \in Histories, NEW grown \in Histories,
           LogsSourced(led), ExchangesPast(led),
           NEW v \in Voters, NEW gone, NEW step, EndTurn(v, gone, step),
           LogTurn(led, grown, replica[v], step.replica), GrowsInEpoch(led, grown),
           PastTurn(led, replica[v], step.replica, step.send),
           \A m \in step.send : m.type = "Fetch" =>
                /\ FetchSaid(v, step.replica, m) /\ m.to # v
                /\ step.replica.role.name = "Follower",
           \A m \in step.send : IsServed(m) => AnswerIsCurrent(grown, replica'[m.to], m)
    PROVE  ExchangesPast(grown)'
<1> DEFINE r == replica[v]
           q == step.replica
<1>1. replica' = [replica EXCEPT ![v] = q]
    BY DEF EndTurn
<1>2. replica'[v] = q /\ \A w \in Voters \ {v} : replica'[w] = replica[w]
    BY <1>1 DEF TypeOK
<1>3. r \in Replica /\ q \in Replica /\ \A w \in Voters : replica[w] \in Replica
    BY <1>2 DEF TypeOK
<1>4. q.epoch \in Nat /\ q.log \in Seq(Nat)
    BY <1>3, ReplicaFields
<1>5. /\ Grows(led, grown) /\ Sourced(grown, q.log) /\ Ordered(q.log, q.epoch)
      /\ PastTurn(led, r, q, step.send) /\ Sourced(led, r.log)
    BY DEF LogTurn, LogsSourced
<1>6. \A m \in net' : m \in Message
    BY DEF TypeOK
<1> HIDE DEF r, q
<1>7. ASSUME NEW m \in net', m.type = "Fetch" PROVE FetchIsCurrent(grown, replica'[m.from], m)
    <2>1. m.from \in Voters /\ m.epoch \in Nat /\ m.fetchEpoch \in Nat /\ m.fetchOffset \in Nat
        BY <1>6, <1>7, MessageFields
    <2>2. CASE m \in step.send
        <3>1. /\ FetchSaid(v, q, m) /\ m.to # v /\ q.role.name = "Follower"
            BY <1>7, <2>2 DEF q
        <3>2. /\ m.from = v /\ m.epoch = q.epoch /\ m.fetchEpoch = last_epoch(q.log)
              /\ m.fetchOffset = Len(q.log) /\ Bystander(q, q.epoch)
            BY <3>1 DEF FetchSaid, Bystander
        <3>3. CASE q.log = <<>>
            <4>1. last_epoch(q.log) = 0 /\ Len(q.log) = 0
                BY <3>3 DEF last_epoch
            <4> QED
                BY <1>2, <1>4, <3>1, <3>2, <4>1 DEF FetchIsCurrent
        <3>4. CASE q.log # <<>>
            <4> DEFINE n == Len(q.log)
            <4>1. n \in 1 .. n /\ last_epoch(q.log) = q.log[n]
                BY <1>4, <3>4 DEF last_epoch
            <4>2. SameBelow(q.log, grown[m.fetchEpoch], n) /\ m.fetchEpoch <= m.epoch
                BY <1>5, <3>2, <4>1 DEF Sourced, Ordered
            <4>3. n <= Len(grown[m.fetchEpoch])
                BY <4>1, <4>2 DEF SameBelow
            <4> QED
                BY <1>2, <3>1, <3>2, <4>2, <4>3 DEF FetchIsCurrent
        <3> QED
            BY <3>3, <3>4
    <2>3. CASE m \in net /\ (Refetches(step.send) => ~IsFetchExchange(v, m))
        <3>1. FetchIsCurrent(led, replica[m.from], m)
            BY <1>7, <2>3 DEF ExchangesPast
        <3>2. Bystander(replica[m.from], m.epoch)
            BY <3>1 DEF FetchIsCurrent
        <3>3. CASE m.from = v
            <4>1. FetchIsCurrent(led, r, m) /\ Bystander(r, m.epoch)
                BY <3>1, <3>2, <3>3 DEF r
            <4>2. ~Refetches(step.send)
                BY <1>7, <2>3, <3>3 DEF IsFetchExchange
            <4>3. /\ Bystander(q, m.epoch)
                  /\ q.epoch = m.epoch => r.epoch = m.epoch /\ q.log = r.log
                BY <1>3, <1>5, <2>1, <4>1, <4>2, BystanderStays, BystanderLog
            <4> QED
                BY <1>2, <1>3, <1>5, <2>1, <3>3, <4>1, <4>3, FetchStaysCurrent
        <3>4. CASE m.from # v
            <4>1. PICK w \in Replica : w = replica[m.from] /\ w = replica'[m.from]
                BY <1>2, <1>3, <2>1, <3>4
            <4> QED
                BY <1>5, <2>1, <3>1, <3>2, <4>1, FetchStaysCurrent
        <3> QED
            BY <3>3, <3>4
    <2> QED
        BY <2>2, <2>3, InFlight
<1>8. ASSUME NEW m \in net', IsServed(m) PROVE AnswerIsCurrent(grown, replica'[m.to], m)
    <2>1. m.to \in Voters /\ m.epoch \in Nat
        BY <1>6, MessageFields
    <2>2. CASE m \in step.send
        BY <1>8, <2>2
    <2>3. CASE m \in net /\ (Refetches(step.send) => ~IsFetchExchange(v, m))
        <3>1. AnswerIsCurrent(led, replica[m.to], m)
            BY <1>8, <2>3 DEF ExchangesPast
        <3>2. Bystander(replica[m.to], m.epoch)
            BY <3>1 DEF AnswerIsCurrent
        <3>3. CASE m.to = v
            <4>1. AnswerIsCurrent(led, r, m) /\ Bystander(r, m.epoch)
                BY <3>1, <3>2, <3>3 DEF r
            <4>2. ~Refetches(step.send)
                BY <1>8, <2>3, <3>3 DEF IsFetchExchange, IsServed
            <4>3. /\ Bystander(q, m.epoch)
                  /\ q.epoch = m.epoch => r.epoch = m.epoch /\ q.log = r.log
                BY <1>3, <1>5, <2>1, <4>1, <4>2, BystanderStays, BystanderLog
            <4> QED
                BY <1>2, <1>3, <1>5, <2>1, <3>3, <4>1, <4>3, AnswerStaysCurrent
        <3>4. CASE m.to # v
            <4>1. PICK w \in Replica : /\ w = replica[m.to] /\ w = replica'[m.to]
                                       /\ Sourced(led, w.log)
                BY <1>2, <1>3, <2>1, <3>4 DEF LogsSourced
            <4> QED
                BY <1>5, <2>1, <3>1, <3>2, <4>1, AnswerStaysCurrent
        <3> QED
            BY <3>3, <3>4
    <2> QED
        BY <2>2, <2>3, InFlight
<1> QED
    BY <1>7, <1>8 DEF ExchangesPast, FetchIsCurrent, AnswerIsCurrent, IsServed, Bystander
(***************************************************************************)
(* Votes.                                                                  *)
(***************************************************************************)
Sightings == Nat \X Voters \X Voters \X Seq(Nat)

\* What a turn adds to the history: the log with which a voter voted first in
\* an epoch that nobody leads yet.
SeenBy(led, seen, v, r, q) ==
    IF q.votedKey # Nil /\ led[q.epoch] = <<>> /\ (q.epoch > r.epoch \/ r.votedKey = Nil)
    THEN seen \cup {<<q.epoch, v, q.votedKey, r.log>>}
    ELSE seen

\* A vote request sent at the end of the turn opens the candidate's epoch.
VoteSaid(v, r, q, m) ==
    /\ m.from = v /\ m.epoch = q.epoch /\ q.epoch > r.epoch
    /\ m.lastEpoch = last_epoch(r.log) /\ m.lastOffset = Len(r.log)

\* The vote stays, or is a candidate's own, or is for who asked rightly; a
\* leadership goes on or is won.
Polls(v, r, q) ==
    /\ KeepsVote(r, q)
    /\ q.votedKey # Nil =>
            \/ q.epoch = r.epoch /\ q.votedKey = r.votedKey
            \/ q.epoch > r.epoch /\ q.votedKey = v
            \/ \E m \in net : AsksRightly(m, r.log) /\ q.epoch = m.epoch /\ q.votedKey = m.from
    /\ q.role.name = "Leader" =>
            (q.epoch = r.epoch /\ r.role.name = "Leader") \/ Wins(v, r, q)

LEMMA PrefixSame ==
    ASSUME NEW a \in Seq(Nat), NEW b \in Seq(Nat), NEW k \in Nat, SameBelow(a, b, k)
    PROVE  Prefix(a, k) = Prefix(b, k)
<1>1. k \in 0 .. Len(a) /\ k \in 0 .. Len(b)
    BY SameInside
<1>2. /\ Prefix(a, k) \in Seq(Nat) /\ Prefix(b, k) \in Seq(Nat)
      /\ Len(Prefix(a, k)) = k /\ Len(Prefix(b, k)) = k
      /\ \A i \in 1 .. k : Prefix(a, k)[i] = a[i] /\ Prefix(b, k)[i] = b[i]
    BY <1>1, PrefixType
<1>3. \A i \in 1 .. k : Prefix(a, k)[i] = Prefix(b, k)[i]
    BY <1>2 DEF SameBelow
<1> DEFINE x == Prefix(a, k)
           y == Prefix(b, k)
<1> HIDE DEF x, y
<1>4. x = y
    BY <1>2, <1>3, SeqEqual DEF x, y
<1> QED
    BY <1>4 DEF x, y

\* How an election was won is settled.
LEMMA WonOverGrows ==
    ASSUME NEW led \in Histories, NEW grown \in Histories, Grows(led, grown),
           NEW e \in Nat, NEW log, WonOver(led, e, log)
    PROVE  WonOver(grown, e, log)
<1>1. PICK old \in Seq(Nat), new \in Seq(Nat) : old = led[e] /\ new = grown[e]
    BY DEF Histories
<1>2. SameBelow(old, new, Len(old)) /\ Len(old) \in Nat
    BY <1>1 DEF Grows
<1>3. PICK k \in 0 .. Len(old) :
            /\ last_epoch(Prefix(old, k)) < e
            /\ log_is_up_to_date(log, last_epoch(Prefix(old, k)), k)
    BY <1>1 DEF WonOver
<1>4. k \in Nat /\ SameBelow(old, new, k)
    BY <1>2, SameLess
<1>5. Prefix(old, k) = Prefix(new, k) /\ k \in 0 .. Len(new)
    BY <1>4, PrefixSame, SameInside
<1> QED
    BY <1>1, <1>3, <1>5 DEF WonOver

\* An election is won with the log before its LeaderChange batch.
LEMMA WonWith ==
    ASSUME NEW grown \in Histories, NEW e \in Nat, NEW log \in Seq(Nat),
           grown[e] = Append(log, e), last_epoch(log) < e,
           NEW old, log_is_up_to_date(old, last_epoch(log), Len(log))
    PROVE  WonOver(grown, e, old)
<1>1. PICK new \in Seq(Nat) : new = grown[e] /\ new = Append(log, e)
    BY SameAppend
<1>2. Len(new) = Len(log) + 1 /\ SameBelow(log, new, Len(log)) /\ Len(log) \in Nat
    BY <1>1, SameAppend
<1>3. Prefix(new, Len(log)) = Prefix(log, Len(log))
    BY <1>2, PrefixSame
<1>4. Prefix(log, Len(log)) = log
    BY <1>2 DEF Prefix
<1> QED
    BY <1>1, <1>2, <1>3, <1>4 DEF WonOver

\* The epochs of a log are no later than its replica's.
LEMMA LastEpochBound ==
    ASSUME NEW log \in Seq(Nat), NEW e \in Nat, Ordered(log, e)
    PROVE  last_epoch(log) <= e
<1>1. CASE log = <<>>
    BY <1>1 DEF last_epoch
<1>2. CASE log # <<>>
    <2>1. Len(log) \in 1 .. Len(log)
        BY <1>2
    <2> QED
        BY <1>2, <2>1 DEF last_epoch, Ordered
<1> QED
    BY <1>1, <1>2

\* Where a candidate stands after the turn, it stood before or opened the epoch.
LEMMA StandsWithLog ==
    ASSUME NEW led, NEW r \in Replica, NEW q \in Replica, NEW send, PastTurn(led, r, q, send),
           NEW e \in Nat, r.epoch >= e
    PROVE  /\ q.epoch >= e
           /\ q.epoch = e /\ q.role.name = "Candidate" =>
                r.epoch = e /\ r.role.name = "Candidate" /\ q.log = r.log
<1>1. r.epoch \in Nat /\ q.epoch \in Nat
    BY ReplicaFields
<1> QED
    BY <1>1 DEF PastTurn

LEMMA AsksStays ==
    ASSUME NEW led, NEW r \in Replica, NEW q \in Replica, NEW send, PastTurn(led, r, q, send),
           NEW m, m.epoch \in Nat, AsksForLog(r, m)
    PROVE  AsksForLog(q, m)
BY StandsWithLog DEF AsksForLog

LEMMA SeenStays ==
    ASSUME NEW led, NEW r \in Replica, NEW q \in Replica, NEW send, PastTurn(led, r, q, send),
           NEW x \in Sightings, SeenUpToDate(r, x)
    PROVE  SeenUpToDate(q, x)
<1>1. x[1] \in Nat
    BY DEF Sightings
<1> QED
    BY <1>1, StandsWithLog DEF SeenUpToDate

\* The vote requests in flight give the end of their candidates' logs.
LEMMA AsksTurn ==
    ASSUME TypeOK, TypeOK', NEW led, NEW seen, VotesPast(led, seen),
           NEW v \in Voters, NEW gone, NEW step, EndTurn(v, gone, step),
           PastTurn(led, replica[v], step.replica, step.send),
           \A m \in step.send : m.type = "Vote" /\ ~m.preVote =>
                VoteSaid(v, replica[v], step.replica, m),
           NEW m \in net \cup net', m.type = "Vote", ~m.preVote
    PROVE  AsksForLog(replica'[m.from], m)
<1>1. replica' = [replica EXCEPT ![v] = step.replica]
    BY DEF EndTurn
<1>2. replica'[v] = step.replica /\ \A w \in Voters \ {v} : replica'[w] = replica[w]
    BY <1>1 DEF TypeOK
<1>3. PICK r \in Replica, q \in Replica :
            r = replica[v] /\ q = step.replica /\ PastTurn(led, r, q, step.send)
    BY <1>2 DEF TypeOK
<1>4. m.from \in Voters /\ m.epoch \in Nat
    BY MessageFields DEF TypeOK
<1>5. m \in net \/ m \in step.send
    BY DEF EndTurn
<1>6. CASE m \in net
    <2>1. AsksForLog(replica[m.from], m)
        BY <1>6 DEF VotesPast
    <2> QED
        BY <1>2, <1>3, <1>4, <2>1, AsksStays
<1>7. CASE m \in step.send
    <2>1. VoteSaid(v, r, q, m)
        BY <1>3, <1>7
    <2>2. q.epoch \in Nat /\ (q.role.name = "Candidate" => q.log = r.log)
        BY <1>3, ReplicaFields DEF PastTurn
    <2> QED
        BY <1>2, <1>3, <2>1, <2>2 DEF AsksForLog, VoteSaid
<1> QED
    BY <1>5, <1>6, <1>7

\* A log is up to date with itself.
LEMMA UpToDateSelf ==
    ASSUME NEW log
    PROVE  log_is_up_to_date(log, last_epoch(log), Len(log))
BY DEF log_is_up_to_date, end_offset

\* What was seen stays up to date, and what the turn sees is.
LEMMA SightsTurn ==
    ASSUME TypeOK, TypeOK', NEW led \in Histories, NEW grown \in Histories,
           NEW seen \in SUBSET Sightings, LogsSourced(led), VotesPast(led, seen),
           NEW v \in Voters, NEW gone, NEW step, EndTurn(v, gone, step), Grows(led, grown),
           PastTurn(led, replica[v], step.replica, step.send),
           Polls(v, replica[v], step.replica),
           \A m \in step.send : m.type = "Vote" /\ ~m.preVote =>
                VoteSaid(v, replica[v], step.replica, m),
           NEW x \in SeenBy(led, seen, v, replica[v], step.replica)
    PROVE  /\ x \in Sightings
           /\ SeenSourced(grown, replica'[x[2]], x) /\ SeenUpToDate(replica'[x[3]], x)
<1>1. replica' = [replica EXCEPT ![v] = step.replica]
    BY DEF EndTurn
<1>2. replica'[v] = step.replica /\ \A w \in Voters \ {v} : replica'[w] = replica[w]
    BY <1>1 DEF TypeOK
<1>3. PICK r \in Replica, q \in Replica :
            /\ r = replica[v] /\ q = step.replica /\ PastTurn(led, r, q, step.send)
            /\ Polls(v, r, q) /\ Sourced(led, r.log) /\ Ordered(r.log, r.epoch)
    BY <1>2 DEF TypeOK, LogsSourced
<1>4. /\ r.epoch \in Nat /\ q.epoch \in Nat /\ r.log \in Seq(Nat) /\ q.epoch >= r.epoch
      /\ r.votedKey \in MaybeVoter /\ q.votedKey \in MaybeVoter
    BY <1>3, ReplicaFields DEF PastTurn
<1>5. CASE x \in seen
    <2>1. x \in Sightings /\ x[1] \in Nat /\ x[2] \in Voters /\ x[3] \in Voters /\ x[4] \in Seq(Nat)
        BY <1>5 DEF Sightings
    <2>2. SeenSourced(led, replica[x[2]], x) /\ SeenUpToDate(replica[x[3]], x)
        BY <1>5 DEF VotesPast
    <2>3. Sourced(grown, x[4])
        BY <2>1, <2>2, GrownSources DEF SeenSourced
    <2>4. SeenSourced(grown, replica'[x[2]], x)
        <3>1. CASE x[2] = v
            BY <1>2, <1>3, <1>4, <2>1, <2>2, <2>3, <3>1 DEF SeenSourced
        <3>2. CASE x[2] # v
            BY <1>2, <2>1, <2>2, <2>3, <3>2 DEF SeenSourced
        <3> QED
            BY <3>1, <3>2
    <2>5. SeenUpToDate(replica'[x[3]], x)
        <3>1. CASE x[3] = v
            BY <1>2, <1>3, <2>1, <2>2, <3>1, SeenStays
        <3>2. CASE x[3] # v
            BY <1>2, <2>1, <2>2, <3>2
        <3> QED
            BY <3>1, <3>2
    <2> QED
        BY <2>1, <2>4, <2>5
<1>6. CASE x \notin seen
    <2>1. x = <<q.epoch, v, q.votedKey, r.log>> /\ q.votedKey # Nil
          /\ (q.epoch > r.epoch \/ r.votedKey = Nil)
        BY <1>3, <1>6 DEF SeenBy
    <2>2. q.votedKey \in Voters
        BY <1>4, <2>1 DEF MaybeVoter
    <2>3. x[1] = q.epoch /\ x[2] = v /\ x[3] = q.votedKey /\ x[4] = r.log /\ x \in Sightings
        BY <1>4, <2>1, <2>2 DEF Sightings
    <2>4. Ordered(r.log, q.epoch)
        <3>1. \A k \in 1 .. Len(r.log) : r.log[k] \in Nat
            BY <1>4
        <3> QED
            BY SMTT(40), <1>3, <1>4, <3>1 DEF Ordered
    <2>5. SeenSourced(grown, replica'[x[2]], x)
        BY <1>2, <1>3, <1>4, <2>3, <2>4, GrownSources DEF SeenSourced
    <2>6. \/ q.epoch > r.epoch /\ q.votedKey = v
          \/ \E m \in net : AsksRightly(m, r.log) /\ q.epoch = m.epoch /\ q.votedKey = m.from
        BY <1>3, <1>4, <2>1 DEF Polls
    <2>7. CASE q.epoch > r.epoch /\ q.votedKey = v
        <3>1. q.role.name = "Candidate" => q.log = r.log
            BY <1>3 DEF PastTurn
        <3>2. log_is_up_to_date(r.log, last_epoch(r.log), Len(r.log))
            BY UpToDateSelf
        <3>3. SeenUpToDate(q, x)
            BY <1>4, <2>3, <3>1, <3>2 DEF SeenUpToDate
        <3>4. replica'[x[3]] = q
            BY <1>2, <1>3, <2>3, <2>7
        <3> QED
            BY <2>3, <2>5, <3>3, <3>4
    <2>8. ASSUME NEW m \in net, AsksRightly(m, r.log), q.epoch = m.epoch, q.votedKey = m.from
          PROVE  SeenUpToDate(replica'[x[3]], x)
        <3>1. AsksForLog(replica'[m.from], m)
            BY <2>8, AsksTurn DEF AsksRightly
        <3> QED
            BY <2>3, <2>8, <3>1 DEF AsksForLog, AsksRightly, SeenUpToDate
    <2> QED
        BY <2>3, <2>5, <2>6, <2>7, <2>8
<1> QED
    BY <1>5, <1>6

\* Every vote of an epoch that nobody led is in the history.
LEMMA BallotsTurn ==
    ASSUME TypeOK, TypeOK', VoteInv, NEW led \in Histories, NEW seen, VotesPast(led, seen),
           NEW v \in Voters, NEW gone, NEW step, EndTurn(v, gone, step),
           KeepsVote(replica[v], step.replica), NEW b \in ballots', led[b[1]] = <<>>
    PROVE  \E x \in SeenBy(led, seen, v, replica[v], step.replica) :
                x[1] = b[1] /\ x[2] = b[2] /\ x[3] = b[3]
<1>1. PICK r \in Replica, q \in Replica : r = replica[v] /\ q = step.replica
    <2>1. replica'[v] = step.replica
        BY DEF EndTurn, TypeOK
    <2> QED
        BY <2>1 DEF TypeOK
<1>2. seen \subseteq SeenBy(led, seen, v, r, q)
    BY DEF SeenBy
<1>3. CASE b \in ballots
    <2>1. \E x \in seen : x[1] = b[1] /\ x[2] = b[2] /\ x[3] = b[3]
        BY <1>3 DEF VotesPast
    <2> QED
        BY <1>1, <1>2, <2>1
<1>4. CASE b \notin ballots
    <2>1. b = <<q.epoch, v, q.votedKey>> /\ q.votedKey # Nil
        BY <1>1, <1>4 DEF EndTurn
    <2>2. q.epoch > r.epoch \/ r.votedKey = Nil
        <3>1. SUFFICES ASSUME q.epoch = r.epoch, r.votedKey # Nil PROVE FALSE
            BY <1>1, ReplicaFields DEF KeepsVote
        <3>2. q.votedKey = r.votedKey
            BY <1>1, <3>1 DEF KeepsVote
        <3> QED
            BY <1>1, <1>4, <2>1, <3>1, <3>2 DEF VoteInv, VotesAreBallots
    <2>3. <<q.epoch, v, q.votedKey, r.log>> \in SeenBy(led, seen, v, r, q)
        BY <2>1, <2>2 DEF SeenBy
    <2> QED
        BY <1>1, <2>1, <2>3
<1> QED
    BY <1>3, <1>4

\* An election won in this turn.
LEMMA NewlyElected ==
    ASSUME TypeOK, TypeOK', VoteInv, ElectionSafety', NEW led \in Histories, LogPast(led),
           NEW v \in Voters, NEW gone, NEW step, EndTurn(v, gone, step),
           Polls(v, replica[v], step.replica), NEW y \in elected', y \notin elected
    PROVE  /\ y = <<step.replica.epoch, v>> /\ step.replica.role.name = "Leader"
           /\ Wins(v, replica[v], step.replica) /\ led[step.replica.epoch] = <<>>
<1>1. y = <<step.replica.epoch, v>> /\ step.replica.role.name = "Leader"
    BY DEF EndTurn
<1>2. PICK r \in Replica, q \in Replica : r = replica[v] /\ q = step.replica
    <2>1. replica'[v] = step.replica
        BY DEF EndTurn, TypeOK
    <2> QED
        BY <2>1 DEF TypeOK
<1>3. Wins(v, r, q)
    <2>1. SUFFICES ASSUME q.epoch = r.epoch, r.role.name = "Leader" PROVE FALSE
        BY <1>1, <1>2 DEF Polls
    <2>2. <<r.epoch, v>> \in elected
        BY <1>2, <2>1 DEF VoteInv, LeadersWereElected, IsLeader
    <2> QED
        BY <1>1, <1>2, <2>1, <2>2
<1> QED
    BY <1>1, <1>2, <1>3, WonUnled

\* Who wins has a log up to date with every log seen.
LEMMA WinsOver ==
    ASSUME TypeOK, NEW led \in Histories, NEW grown \in Histories, NEW seen \in SUBSET Sightings,
           LogsSourced(led), VotesPast(led, seen), NEW v \in Voters,
           NEW q \in Replica, Wins(v, replica[v], q), grown[q.epoch] = q.log,
           NEW x \in SeenBy(led, seen, v, replica[v], q), x[1] = q.epoch, x[3] = v
    PROVE  WonOver(grown, x[1], x[4])
<1>1. PICK r \in Replica : /\ r = replica[v] /\ Wins(v, r, q)
                           /\ Sourced(led, r.log) /\ Ordered(r.log, r.epoch)
    BY DEF TypeOK, LogsSourced
<1>2. r.log \in Seq(Nat) /\ q.epoch \in Nat /\ r.epoch \in Nat
    BY ReplicaFields
<1>3. grown[q.epoch] = Append(r.log, q.epoch)
    BY <1>1 DEF Wins
<1>4. last_epoch(r.log) < q.epoch
    <2>1. CASE q.epoch > r.epoch
        BY <1>1, <1>2, <2>1, LastEpochBound, LastEpochType
    <2>2. CASE q.epoch = r.epoch /\ r.role.name = "Candidate"
        BY <1>1, <2>2 DEF VotesPast
    <2> QED
        BY <1>1, <2>1, <2>2 DEF Wins
<1>5. log_is_up_to_date(x[4], last_epoch(r.log), Len(r.log))
    <2>1. CASE x \in seen
        <3>1. x[1] \in Nat /\ SeenUpToDate(r, x)
            BY <1>1, <2>1 DEF VotesPast, Sightings
        <3> QED
            BY <1>1, <1>2, <3>1 DEF SeenUpToDate, Wins
    <2>2. CASE x \notin seen
        <3>1. x[4] = r.log
            BY <1>1, <2>2 DEF SeenBy
        <3> QED
            BY <3>1, UpToDateSelf
    <2> QED
        BY <2>1, <2>2
<1> QED
    BY <1>2, <1>3, <1>4, <1>5, WonWith

\* Votes and elections stay explained through every turn.
LEMMA VotesTurn ==
    ASSUME TypeOK, TypeOK', VoteInv, VoteInv', ElectionSafety', NEW led \in Histories,
           NEW grown \in Histories, NEW seen \in SUBSET Sightings, LogPast(led),
           VotesPast(led, seen), NEW v \in Voters, NEW gone, NEW step, EndTurn(v, gone, step),
           LogTurn(led, grown, replica[v], step.replica),
           PastTurn(led, replica[v], step.replica, step.send),
           Polls(v, replica[v], step.replica),
           \A m \in step.send : m.type = "Vote" /\ ~m.preVote =>
                VoteSaid(v, replica[v], step.replica, m),
           NEW now, now = SeenBy(led, seen, v, replica[v], step.replica)
    PROVE  now \in SUBSET Sightings /\ VotesPast(grown, now)'
<1>1. replica' = [replica EXCEPT ![v] = step.replica]
    BY DEF EndTurn
<1>2. replica'[v] = step.replica /\ \A w \in Voters \ {v} : replica'[w] = replica[w]
    BY <1>1 DEF TypeOK
<1>3. PICK r \in Replica, q \in Replica :
            /\ r = replica[v] /\ q = step.replica /\ PastTurn(led, r, q, step.send)
            /\ Polls(v, r, q) /\ Sourced(led, r.log) /\ Ordered(r.log, r.epoch)
    BY <1>2 DEF TypeOK, LogPast, LogsSourced
<1>4. r.epoch \in Nat /\ q.epoch \in Nat /\ r.log \in Seq(Nat)
    BY ReplicaFields
<1>5. Grows(led, grown) /\ (q.role.name = "Leader" => grown[q.epoch] = q.log) /\ LogsSourced(led)
    BY <1>3 DEF LogTurn, LogPast
<1>6. seen \subseteq now /\ now \in SUBSET Sightings
    <2>1. seen \subseteq now
        BY DEF SeenBy
    <2> QED
        BY <1>5, <2>1, SightsTurn
<1>7. \A m \in net' : m.type = "Vote" /\ ~m.preVote => AsksForLog(replica'[m.from], m)
    BY AsksTurn
<1>8. \A x \in now : SeenSourced(grown, replica'[x[2]], x) /\ SeenUpToDate(replica'[x[3]], x)
    BY <1>5, SightsTurn
<1>9. ASSUME NEW x \in now, <<x[1], x[3]>> \in elected' PROVE WonOver(grown, x[1], x[4])
    <2>1. x[1] \in Nat /\ x[3] \in Voters
        BY <1>6 DEF Sightings
    <2>2. CASE <<x[1], x[3]>> \in elected
        <3>1. x \in seen
            <4>1. SUFFICES ASSUME x \notin seen PROVE FALSE
                OBVIOUS
            <4>2. led[x[1]] = <<>>
                BY <4>1 DEF SeenBy
            <4> QED
                BY <2>2, <4>2 DEF LogPast, LedWasElected
        <3> QED
            BY <1>5, <2>1, <2>2, <3>1, WonOverGrows DEF VotesPast
    <2>3. CASE <<x[1], x[3]>> \notin elected
        <3>1. <<x[1], x[3]>> = <<q.epoch, v>> /\ q.role.name = "Leader" /\ Wins(v, r, q)
            BY <1>3, <1>9, <2>3, NewlyElected
        <3> QED
            BY <1>3, <1>5, <3>1, WinsOver
    <2> QED
        BY <2>2, <2>3
<1>10. ASSUME NEW w \in Voters, replica'[w].role.name = "Candidate"
       PROVE  last_epoch(replica'[w].log) < replica'[w].epoch
    <2>1. CASE w # v
        BY <1>2, <1>10, <2>1 DEF VotesPast
    <2>2. CASE w = v
        <3>1. q.log = r.log /\ (q.epoch > r.epoch \/ (q.epoch = r.epoch /\ r.role.name = "Candidate"))
            BY <1>2, <1>3, <1>10, <2>2 DEF PastTurn
        <3>2. CASE q.epoch > r.epoch
            BY <1>2, <1>3, <1>4, <2>2, <3>1, <3>2, LastEpochBound, LastEpochType
        <3>3. CASE q.epoch = r.epoch /\ r.role.name = "Candidate"
            BY <1>2, <1>3, <2>2, <3>1, <3>3 DEF VotesPast
        <3> QED
            BY <3>1, <3>2, <3>3
    <2> QED
        BY <2>1, <2>2
<1>11. \A b \in ballots' : led[b[1]] = <<>> => \E x \in now : x[1] = b[1] /\ x[2] = b[2] /\ x[3] = b[3]
    BY <1>3, BallotsTurn DEF Polls
<1>12. \A e \in Nat : grown[e] = <<>> => led[e] = <<>>
    BY <1>5, GrownLonger
<1>13. \A b \in ballots' : b[1] \in Nat
    BY DEF TypeOK
<1>14. ASSUME NEW y \in elected'
       PROVE  HasQuorum({w \in Voters : \E x \in now : x[1] = y[1] /\ x[2] = w /\ x[3] = y[2]})
    <2>1. CASE y \in elected
        <3> DEFINE S == {w \in Voters : \E x \in seen : x[1] = y[1] /\ x[2] = w /\ x[3] = y[2]}
                   T == {w \in Voters : \E x \in now : x[1] = y[1] /\ x[2] = w /\ x[3] = y[2]}
        <3>1. HasQuorum(S)
            BY <2>1 DEF VotesPast
        <3>2. S \subseteq T /\ T \in SUBSET Voters
            BY <1>6
        <3> HIDE DEF S, T
        <3>3. HasQuorum(T)
            BY <3>1, <3>2, QuorumGrows
        <3> QED
            BY <3>3 DEF T
    <2>2. CASE y \notin elected
        <3> DEFINE S == {w \in Voters : <<y[1], w, y[2]>> \in ballots'}
                   T == {w \in Voters : \E x \in now : x[1] = y[1] /\ x[2] = w /\ x[3] = y[2]}
        <3>1. led[y[1]] = <<>>
            BY <1>3, <2>2, NewlyElected
        <3>2. HasQuorum(S)
            BY DEF VoteInv, ElectedByQuorum
        <3>3. S \subseteq T /\ T \in SUBSET Voters
            BY <1>11, <3>1
        <3> HIDE DEF S, T
        <3>4. HasQuorum(T)
            BY <3>2, <3>3, QuorumGrows
        <3> QED
            BY <3>4 DEF T
    <2> QED
        BY <2>1, <2>2
<1>15. \A b \in ballots' : grown[b[1]] = <<>> =>
            \E x \in now : x[1] = b[1] /\ x[2] = b[2] /\ x[3] = b[3]
    BY <1>11, <1>12, <1>13
<1> QED
    BY <1>6, <1>7, <1>8, <1>9, <1>10, <1>14, <1>15
       DEF VotesPast, AsksForLog, SeenSourced, SeenUpToDate, HasQuorum

(***************************************************************************)
(* Acknowledgements.                                                       *)
(***************************************************************************)
Acks == Nat \X Voters \X Nat

\* What a turn adds to the history: all that a leader counts after it.
AckedBy(acked, v, q) ==
    IF q.role.name = "Leader"
    THEN acked \cup {<<q.epoch, v, Len(q.log)>>}
               \cup {<<q.epoch, w, q.role.replicas[w]>> : w \in Voters \ {v}}
    ELSE acked

\* A leader between e and this epoch came without the first k batches of S.
Lacked(led, S, e, k, until) ==
    \E x \in Nat : e < x /\ x < until /\ led[x] # <<>> /\ ~SameBelow(S, led[x], k)

LEMMA KeptOrLacked ==
    ASSUME NEW led \in Histories, NEW S, NEW e, NEW k, NEW log, NEW until
    PROVE  Kept(led, S, e, k, log, until) <=> SameBelow(S, log, k) \/ Lacked(led, S, e, k, until)
BY DEF Kept, Lacked, Histories

LEMMA LackedStays ==
    ASSUME NEW led \in Histories, NEW grown \in Histories, GrowsInEpoch(led, grown),
           NEW S \in Seq(Nat), NEW T \in Seq(Nat), NEW e \in Nat, Ordered(S, e), NEW k \in Nat,
           SameBelow(S, T, k), NEW until \in Nat, NEW later \in Nat, until <= later,
           Lacked(led, S, e, k, until)
    PROVE  Lacked(grown, T, e, k, later)
<1>1. PICK x \in Nat : e < x /\ x < until /\ led[x] # <<>> /\ ~SameBelow(S, led[x], k)
    BY DEF Lacked
<1>2. grown[x] # <<>> /\ ~SameBelow(S, grown[x], k)
    BY <1>1, LacksStays
<1>3. ~SameBelow(T, grown[x], k)
    BY <1>2, SameTrans
<1>4. x < later
    BY <1>1
<1> QED
    BY <1>1, <1>2, <1>3, <1>4 DEF Lacked

\* What a voter's log held of S, it holds after the turn, or a leader lacks it.
KeepsHeld(led, r, q, S, e, k) ==
    SameBelow(S, r.log, k) => SameBelow(S, q.log, k) \/ Lacked(led, S, e, k, q.epoch + 1)

\* The votes seen since are the old ones, those of others and the one of this
\* turn, with the log before it.
Witnesses(led, seen, now, w, r, q) ==
    \A x \in now : \/ x \in seen
                   \/ x[2] # w
                   \/ x[1] = q.epoch /\ x[4] = r.log /\ led[q.epoch] = <<>>

LEMMA HoldsStays ==
    ASSUME NEW led \in Histories, NEW grown \in Histories, GrowsInEpoch(led, grown),
           NEW seen \in SUBSET Sightings, NEW now \in SUBSET Sightings,
           NEW S \in Seq(Nat), NEW T \in Seq(Nat), NEW e \in Nat, Ordered(S, e), NEW k \in Nat,
           SameBelow(S, T, k), NEW w \in Voters, NEW r \in Replica, NEW q \in Replica,
           q.epoch >= r.epoch, KeepsHeld(led, r, q, S, e, k), Witnesses(led, seen, now, w, r, q),
           Holds(led, seen, w, r, S, e, k)
    PROVE  Holds(grown, now, w, q, T, e, k)
<1>1. /\ r.epoch \in Nat /\ q.epoch \in Nat /\ r.log \in Seq(Nat) /\ q.log \in Seq(Nat)
      /\ r.epoch + 1 \in Nat /\ q.epoch + 1 \in Nat
    BY SMTT(40), ReplicaFields
<1>2. r.epoch >= e /\ Kept(led, S, e, k, r.log, r.epoch + 1)
    BY DEF Holds
<1>3. SameBelow(T, S, k)
    BY SameSym
<1>4. Kept(grown, T, e, k, q.log, q.epoch + 1)
    <2>1. CASE SameBelow(S, q.log, k)
        BY <1>3, <2>1, SameTrans, KeptOrLacked
    <2>2. CASE Lacked(led, S, e, k, q.epoch + 1)
        BY <1>1, <2>2, LackedStays, KeptOrLacked
    <2>3. CASE Lacked(led, S, e, k, r.epoch + 1)
        <3>1. r.epoch + 1 <= q.epoch + 1
            BY <1>1
        <3> QED
            BY <1>1, <2>3, <3>1, LackedStays, KeptOrLacked
    <2>4. SameBelow(S, r.log, k) \/ Lacked(led, S, e, k, r.epoch + 1)
        BY <1>2, KeptOrLacked
    <2> QED
        BY <2>1, <2>2, <2>3, <2>4 DEF KeepsHeld
<1>5. ASSUME NEW x \in now, x[2] = w, x[1] > e PROVE Kept(grown, T, e, k, x[4], x[1])
    <2>1. x[1] \in Nat
        BY DEF Sightings
    <2>2. CASE x \in seen
        <3>1. Kept(led, S, e, k, x[4], x[1])
            BY <1>5, <2>2 DEF Holds
        <3> QED
            BY <2>1, <3>1, KeptGrows
    <2>3. CASE x[1] = q.epoch /\ x[4] = r.log /\ led[q.epoch] = <<>>
        <3>1. CASE SameBelow(S, r.log, k)
            BY <1>3, <2>3, <3>1, SameTrans, KeptOrLacked
        <3>2. CASE Lacked(led, S, e, k, r.epoch + 1)
            <4>1. Lacked(led, S, e, k, q.epoch)
                <5>1. PICK y \in Nat : e < y /\ y < r.epoch + 1 /\ led[y] # <<>> /\ ~SameBelow(S, led[y], k)
                    BY <3>2 DEF Lacked
                <5>2. y # q.epoch
                    BY <2>3, <5>1
                <5>3. y < r.epoch + 1 /\ q.epoch >= r.epoch
                    BY <5>1
                <5>4. y < q.epoch
                    BY <1>1, <5>2, <5>3
                <5> QED
                    BY <5>1, <5>4 DEF Lacked
            <4> QED
                BY <1>1, <2>3, <4>1, LackedStays, KeptOrLacked
        <3> QED
            BY <1>2, <3>1, <3>2, KeptOrLacked
    <2> QED
        BY <1>5, <2>2, <2>3 DEF Witnesses
<1> QED
    BY <1>1, <1>2, <1>4, <1>5 DEF Holds

\* A turn keeps what it shares with the leader of its epoch.
LEMMA TurnKeepsHeld ==
    ASSUME NEW led \in Histories, NEW r \in Replica, NEW q \in Replica, NEW send,
           PastTurn(led, r, q, send), NEW S \in Seq(Nat), NEW e \in Nat, NEW k \in Nat \ {0},
           r.epoch >= e, SameBelow(S, led[e], k) \/ (q.epoch = e => q.log = r.log)
    PROVE  KeepsHeld(led, r, q, S, e, k)
<1>1. r.epoch \in Nat /\ q.epoch \in Nat /\ r.log \in Seq(Nat) /\ q.log \in Seq(Nat)
    BY ReplicaFields
<1>2. SUFFICES ASSUME SameBelow(S, r.log, k), ~SameBelow(S, q.log, k)
               PROVE  Lacked(led, S, e, k, q.epoch + 1)
    BY DEF KeepsHeld
<1>3. k \in 1 .. Len(r.log)
    BY <1>1, <1>2, SameInside
<1>4. ~SameBelow(r.log, q.log, k)
    BY <1>2, SameTrans
<1>5. q.epoch = r.epoch /\ led[r.epoch] # <<>> /\ ~SameBelow(r.log, led[r.epoch], k)
    BY <1>3, <1>4 DEF PastTurn, KeepsShared
<1>6. ~SameBelow(S, led[r.epoch], k)
    BY <1>2, <1>5, SameSym, SameTrans
<1>7. r.epoch # e
    BY <1>2, <1>5, <1>6
<1>8. e < r.epoch /\ r.epoch < q.epoch + 1
    BY <1>1, <1>5, <1>7
<1> QED
    BY <1>1, <1>5, <1>6, <1>8 DEF Lacked

\* A turn adds no vote of another voter, and its own with the log before it.
LEMMA TurnWitnesses ==
    ASSUME NEW led, NEW seen, NEW v \in Voters, NEW r, NEW q, NEW w \in Voters, NEW p, NEW t,
           w = v => p = r /\ t = q
    PROVE  Witnesses(led, seen, SeenBy(led, seen, v, r, q), w, p, t)
BY DEF Witnesses, SeenBy

\* What voter w holds of S after a turn of voter v.
LEMMA HoldsTurn ==
    ASSUME TypeOK, TypeOK', NEW led \in Histories, NEW grown \in Histories,
           GrowsInEpoch(led, grown), NEW seen \in SUBSET Sightings, NEW now \in SUBSET Sightings,
           NEW v \in Voters, NEW gone, NEW step, EndTurn(v, gone, step),
           PastTurn(led, replica[v], step.replica, step.send),
           now = SeenBy(led, seen, v, replica[v], step.replica),
           NEW S \in Seq(Nat), NEW T \in Seq(Nat), NEW e \in Nat, Ordered(S, e),
           NEW k \in Nat \ {0}, SameBelow(S, T, k), NEW w \in Voters,
           Holds(led, seen, w, replica[w], S, e, k),
           \/ SameBelow(S, led[e], k)
           \/ replica'[w].epoch = e => replica'[w].log = replica[w].log
    PROVE  Holds(grown, now, w, replica'[w], T, e, k)
<1>1. replica' = [replica EXCEPT ![v] = step.replica]
    BY DEF EndTurn
<1>2. replica'[v] = step.replica /\ \A u \in Voters \ {v} : replica'[u] = replica[u]
    BY <1>1 DEF TypeOK
<1>3. PICK r \in Replica, q \in Replica : r = replica[w] /\ q = replica'[w]
    BY DEF TypeOK
<1>4. Witnesses(led, seen, now, w, r, q)
    BY <1>2, <1>3, TurnWitnesses
<1>5. r.epoch >= e /\ r.epoch \in Nat
    BY <1>3, ReplicaFields DEF Holds
<1>6. q.epoch >= r.epoch /\ KeepsHeld(led, r, q, S, e, k)
    <2>1. CASE w = v
        <3>1. PastTurn(led, r, q, step.send)
            BY <1>2, <1>3, <2>1
        <3> QED
            BY <1>3, <1>5, <3>1, TurnKeepsHeld DEF PastTurn
    <2>2. CASE w # v
        BY <1>2, <1>3, <1>5, <2>2 DEF KeepsHeld
    <2> QED
        BY <2>1, <2>2
<1> QED
    BY <1>3, <1>4, <1>6, HoldsStays

\* Acknowledgements stay held.
LEMMA AckTurn ==
    ASSUME TypeOK, TypeOK', NEW led \in Histories, NEW grown \in Histories, LedInOrder(led),
           Grows(led, grown),
           GrowsInEpoch(led, grown), NEW seen \in SUBSET Sightings, NEW now \in SUBSET Sightings,
           NEW v \in Voters, NEW gone, NEW step, EndTurn(v, gone, step),
           PastTurn(led, replica[v], step.replica, step.send),
           now = SeenBy(led, seen, v, replica[v], step.replica),
           NEW a \in Acks, AckHeld(led, seen, replica[a[2]], a)
    PROVE  AckHeld(grown, now, replica'[a[2]], a)
<1>1. PICK e \in Nat, w \in Voters, o \in Nat : e = a[1] /\ w = a[2] /\ o = a[3]
    BY DEF Acks
<1>2. PICK S \in Seq(Nat), T \in Seq(Nat) : S = led[e] /\ T = grown[e]
    BY DEF Histories
<1>3. o <= Len(S) /\ Len(S) <= Len(T) /\ SameBelow(S, T, Len(S)) /\ Ordered(S, e)
    BY <1>1, <1>2, GrownLonger DEF AckHeld, Grows, LedInOrder, Histories
<1>4. ASSUME NEW k \in 1 .. o PROVE Holds(grown, now, w, replica'[w], T, e, k)
    <2>1. k \in Nat \ {0} /\ k \in 0 .. Len(S) /\ k <= Len(S) /\ Len(S) \in Nat
        BY <1>3
    <2>2. SameBelow(S, T, k) /\ SameBelow(S, led[e], k)
        BY <1>2, <1>3, <2>1, SameLess, SameSelf
    <2>3. Holds(led, seen, w, replica[w], S, e, k)
        BY <1>1, <1>2, <1>4 DEF AckHeld
    <2> QED
        BY <1>3, <2>1, <2>2, <2>3, HoldsTurn
<1>5. o <= Len(T)
    BY <1>2, <1>3
<1> QED
    BY <1>1, <1>2, <1>4, <1>5 DEF AckHeld

\* What a voter holds at the end of its turn, it held in no later vote.
LEMMA HoldsNow ==
    ASSUME NEW grown \in Histories, NEW now \in SUBSET Sightings, NEW w \in Voters,
           NEW q \in Replica, NEW S \in Seq(Nat), NEW k \in Nat, SameBelow(S, q.log, k),
           \A x \in now : x[2] = w => x[1] <= q.epoch
    PROVE  Holds(grown, now, w, q, S, q.epoch, k)
<1>1. q.epoch \in Nat /\ \A x \in now : x[1] \in Nat
    BY ReplicaFields DEF Sightings
<1> QED
    BY <1>1 DEF Holds, Kept

\* A Fetch in flight stays held: its sender's log is as it was, or the Fetch
\* is superseded.
LEMMA FetchHeldTurn ==
    ASSUME ~FetchesOverlap, TypeOK, TypeOK', NEW led \in Histories, NEW grown \in Histories,
           LedInOrder(led), Grows(led, grown), GrowsInEpoch(led, grown), ExchangesPast(led),
           NEW seen \in SUBSET Sightings, NEW now \in SUBSET Sightings,
           NEW v \in Voters, NEW gone, NEW step, EndTurn(v, gone, step),
           PastTurn(led, replica[v], step.replica, step.send),
           now = SeenBy(led, seen, v, replica[v], step.replica),
           NEW m \in net, m.type = "Fetch", Refetches(step.send) => ~IsFetchExchange(v, m),
           FetchHeld(led, seen, replica[m.from], m)
    PROVE  FetchHeld(grown, now, replica'[m.from], m)
<1>1. PICK w \in Voters, e \in Nat, fe \in Nat, o \in Nat :
            w = m.from /\ e = m.epoch /\ fe = m.fetchEpoch /\ o = m.fetchOffset
    BY MessageFields DEF TypeOK
<1>2. PICK S \in Seq(Nat), T \in Seq(Nat) : S = led[fe] /\ T = grown[fe]
    BY DEF Histories
<1>3. FetchIsCurrent(led, replica[w], m)
    BY <1>1 DEF ExchangesPast
<1>4. Bystander(replica[w], e) /\ fe <= e /\ (o > 0 => o <= Len(S))
    BY <1>1, <1>2, <1>3 DEF FetchIsCurrent
<1>5. SameBelow(S, T, Len(S)) /\ Ordered(S, fe)
    BY <1>2 DEF Grows, LedInOrder, Histories
<1>6. Ordered(S, e)
    <2>1. \A k \in 1 .. Len(S) : S[k] \in Nat
        OBVIOUS
    <2> QED
        BY <1>4, <1>5, <2>1 DEF Ordered
<1>7. replica' = [replica EXCEPT ![v] = step.replica]
    BY DEF EndTurn
<1>8. replica'[v] = step.replica /\ \A u \in Voters \ {v} : replica'[u] = replica[u]
    BY <1>7 DEF TypeOK
<1>9. replica'[w].epoch = e => replica'[w].log = replica[w].log
    <2>1. CASE w = v
        <3>1. PICK r \in Replica, q \in Replica :
                    r = replica[v] /\ q = step.replica /\ PastTurn(led, r, q, step.send)
            BY <1>8 DEF TypeOK
        <3>2. ~Refetches(step.send)
            BY <1>1, <2>1 DEF IsFetchExchange
        <3> QED
            BY <1>4, <1>8, <2>1, <3>1, <3>2, BystanderLog
    <2>2. CASE w # v
        BY <1>8, <2>2
    <2> QED
        BY <2>1, <2>2
<1>10. ASSUME NEW k \in 1 .. o PROVE Holds(grown, now, w, replica'[w], T, e, k)
    <2>1. k \in Nat \ {0} /\ k <= Len(S) /\ Len(S) \in Nat
        BY <1>4
    <2>2. SameBelow(S, T, k)
        BY <1>5, <2>1, SameLess
    <2>3. Holds(led, seen, w, replica[w], S, e, k)
        BY <1>1, <1>2, <1>10 DEF FetchHeld
    <2> QED
        BY <1>6, <1>9, <2>1, <2>2, <2>3, HoldsTurn
<1> QED
    BY <1>1, <1>2, <1>10 DEF FetchHeld

\* What a leader counts after a turn, beside its own log, was held before it.
Counts(led, seen, v, q) ==
    q.role.name = "Leader" =>
        /\ \A w \in Voters \ {v} :
                AckHeld(led, seen, replica[w], <<q.epoch, w, q.role.replicas[w]>>)
        /\ \A k \in 1 .. Len(q.log) : k > q.role.epochStart => q.log[k] = q.epoch

\* Acknowledgements stay explained through every turn.
LEMMA AcksTurn ==
    ASSUME ~FetchesOverlap, TypeOK, TypeOK', NEW led \in Histories, NEW grown \in Histories,
           LedInOrder(led), GrowsInEpoch(led, grown), ExchangesPast(led),
           NEW seen \in SUBSET Sightings, NEW now \in SUBSET Sightings,
           NEW acked \in SUBSET Acks, AcksPast(led, acked, seen),
           NEW v \in Voters, NEW gone, NEW step, EndTurn(v, gone, step),
           LogTurn(led, grown, replica[v], step.replica),
           PastTurn(led, replica[v], step.replica, step.send),
           now = SeenBy(led, seen, v, replica[v], step.replica), VotesPast(grown, now)',
           \A m \in step.send : m.type = "Fetch" => FetchSaid(v, step.replica, m),
           Counts(led, seen, v, step.replica),
           NEW counted, counted = AckedBy(acked, v, step.replica)
    PROVE  counted \in SUBSET Acks /\ AcksPast(grown, counted, now)'
<1>1. replica' = [replica EXCEPT ![v] = step.replica]
    BY DEF EndTurn
<1>2. replica'[v] = step.replica /\ \A w \in Voters \ {v} : replica'[w] = replica[w]
    BY <1>1 DEF TypeOK
<1>3. PICK q \in Replica : q = step.replica /\ counted = AckedBy(acked, v, q)
    BY <1>2 DEF TypeOK
<1>4. /\ q.epoch \in Nat /\ q.log \in Seq(Nat) /\ Len(q.log) \in Nat
      /\ q.role.name = "Leader" => \A w \in Voters : q.role.replicas[w] \in Nat
    BY ReplicaFields, RoleFields
<1>5. /\ Grows(led, grown) /\ Sourced(grown, q.log)
      /\ q.role.name = "Leader" => grown[q.epoch] = q.log
    BY <1>3 DEF LogTurn
<1>6. \A x \in now : x[2] = v => x[1] <= q.epoch
    <2> SUFFICES ASSUME NEW x \in now, x[2] = v PROVE x[1] <= q.epoch
        OBVIOUS
    <2>1. SeenSourced(grown, replica'[x[2]], x)
        BY DEF VotesPast, SeenSourced
    <2>2. q.epoch >= x[1] /\ x[1] \in Nat
        BY <1>2, <1>3, <2>1 DEF SeenSourced, Sightings
    <2> QED
        BY <1>4, <2>2
<1>7. ASSUME NEW a \in acked PROVE a \in Acks /\ AckHeld(grown, now, replica'[a[2]], a)
    <2>1. AckHeld(led, seen, replica[a[2]], a)
        BY DEF AcksPast
    <2> QED
        BY <1>5, <2>1, AckTurn
<1>8. ASSUME q.role.name = "Leader", NEW w \in Voters \ {v},
             NEW a, a = <<q.epoch, w, q.role.replicas[w]>>
      PROVE  a \in Acks /\ AckHeld(grown, now, replica'[a[2]], a)
    <2>1. a \in Acks /\ a[2] = w
        BY <1>4, <1>8 DEF Acks
    <2>2. AckHeld(led, seen, replica[a[2]], a)
        BY <1>3, <1>8, <2>1 DEF Counts
    <2> QED
        BY <1>5, <2>1, <2>2, AckTurn
<1>9. ASSUME q.role.name = "Leader", NEW a, a = <<q.epoch, v, Len(q.log)>>
      PROVE  a \in Acks /\ AckHeld(grown, now, replica'[a[2]], a)
    <2>1. a \in Acks /\ a[1] = q.epoch /\ a[2] = v /\ a[3] = Len(q.log)
        BY <1>4, <1>9 DEF Acks
    <2>2. ASSUME NEW k \in 1 .. Len(q.log) PROVE Holds(grown, now, v, q, q.log, q.epoch, k)
        <3>1. k \in Nat /\ SameBelow(q.log, q.log, k)
            BY <1>4, SameSelf
        <3> QED
            BY <1>4, <1>6, <3>1, HoldsNow
    <2> QED
        BY <1>2, <1>3, <1>4, <1>5, <1>9, <2>1, <2>2 DEF AckHeld
<1>10. \A a \in counted : a \in Acks /\ AckHeld(grown, now, replica'[a[2]], a)
    BY <1>3, <1>7, <1>8, <1>9 DEF AckedBy
<1>11. ASSUME NEW m \in net', m.type = "Fetch" PROVE FetchHeld(grown, now, replica'[m.from], m)
    <2>1. CASE m \in step.send
        <3>1. /\ m.from = v /\ m.epoch = q.epoch /\ m.fetchEpoch = last_epoch(q.log)
              /\ m.fetchOffset = Len(q.log)
            BY <1>3, <1>11, <2>1 DEF FetchSaid
        <3>2. ASSUME NEW k \in 1 .. Len(q.log)
              PROVE  Holds(grown, now, v, q, grown[m.fetchEpoch], q.epoch, k)
            <4>1. Len(q.log) \in 1 .. Len(q.log) /\ last_epoch(q.log) = q.log[Len(q.log)]
                BY <1>4 DEF last_epoch
            <4>2. PICK S \in Seq(Nat) : S = grown[m.fetchEpoch]
                BY <1>4, <3>1, LastEpochType DEF Histories
            <4>3. SameBelow(q.log, S, Len(q.log))
                BY <1>5, <3>1, <4>1, <4>2 DEF Sourced
            <4>4. k \in Nat /\ k <= Len(q.log)
                BY <1>4
            <4>5. SameBelow(q.log, S, k)
                BY <1>4, <4>3, <4>4, SameLess
            <4>6. SameBelow(S, q.log, k)
                BY <4>4, <4>5, SameSym
            <4> QED
                BY <1>6, <4>2, <4>4, <4>6, HoldsNow
        <3> QED
            BY <1>2, <1>3, <3>1, <3>2 DEF FetchHeld
    <2>2. CASE m \in net /\ (Refetches(step.send) => ~IsFetchExchange(v, m))
        <3>1. FetchHeld(led, seen, replica[m.from], m)
            BY <1>11, <2>2 DEF AcksPast
        <3> QED
            BY <1>5, <1>11, <2>2, <3>1, FetchHeldTurn
    <2> QED
        BY <2>1, <2>2, InFlight
<1>12. ASSUME NEW w \in Voters, replica'[w].role.name = "Leader"
       PROVE  LeaderCounts(counted, w, replica'[w])
    <2>1. CASE w = v
        <3>1. replica'[w] = q /\ q.role.name = "Leader"
            BY <1>2, <1>3, <1>12, <2>1
        <3>2. /\ <<q.epoch, v, Len(q.log)>> \in counted
              /\ \A u \in Voters \ {v} : <<q.epoch, u, q.role.replicas[u]>> \in counted
            BY <1>3, <3>1 DEF AckedBy
        <3>3. \A k \in 1 .. Len(q.log) : k > q.role.epochStart => q.log[k] = q.epoch
            BY <1>3, <3>1 DEF Counts
        <3> QED
            BY <2>1, <3>1, <3>2, <3>3 DEF LeaderCounts
    <2>2. CASE w # v
        <3>1. replica'[w] = replica[w] /\ LeaderCounts(acked, w, replica[w])
            BY <1>2, <1>12, <2>2 DEF AcksPast, IsLeader
        <3>2. acked \subseteq counted
            BY <1>3 DEF AckedBy
        <3> QED
            BY <3>1, <3>2 DEF LeaderCounts
    <2> QED
        BY <2>1, <2>2
<1> QED
    BY <1>10, <1>11, <1>12 DEF AcksPast, AckHeld, FetchHeld, LeaderCounts, IsLeader
-----------------------------------------------------------------------------
(***************************************************************************)
(* What is committed stays committed, in a quorum whose Fetches do not     *)
(* overlap: the history of KraftPast goes on with every step, and in it    *)
(* every later leader has what a majority acknowledged.                    *)
(***************************************************************************)

(***************************************************************************)
(* High watermarks.                                                        *)
(***************************************************************************)

\* The voters that acknowledged an offset to the leader of epoch e.
Ackers(acked, e, o) == {v \in Voters : \E a \in acked : a[1] = e /\ a[2] = v /\ a[3] >= o}

LEMMA CommitAtGrows ==
    ASSUME NEW led \in Histories, NEW grown \in Histories, Grows(led, grown),
           NEW acked, NEW counted, acked \subseteq counted, NEW e \in Nat,
           NEW o \in 1 .. Len(led[e]), CommitAt(led, acked, e, o)
    PROVE  CommitAt(grown, counted, e, o) /\ o \in 1 .. Len(grown[e])
<1>1. PICK old \in Seq(Nat), new \in Seq(Nat) : old = led[e] /\ new = grown[e]
    BY DEF Histories
<1>2. SameBelow(old, new, Len(old)) /\ o \in 1 .. Len(old)
    BY <1>1 DEF Grows
<1>3. o <= Len(new) /\ new[o] = old[o]
    BY <1>2 DEF SameBelow
<1>4. Ackers(acked, e, o) \subseteq Ackers(counted, e, o) /\ Ackers(counted, e, o) \in SUBSET Voters
    BY DEF Ackers
<1>5. HasQuorum(Ackers(acked, e, o)) /\ old[o] = e
    BY <1>1 DEF CommitAt, Ackers
<1>6. HasQuorum(Ackers(counted, e, o))
    BY <1>4, <1>5, QuorumGrows
<1> QED
    BY <1>1, <1>2, <1>3, <1>5, <1>6 DEF CommitAt, Ackers

LEMMA GrowsSelf ==
    ASSUME NEW led \in Histories
    PROVE  Grows(led, led) /\ GrowsInEpoch(led, led)
<1>1. \A e \in Nat : led[e] \in Seq(Nat) /\ Len(led[e]) \in 0 .. Len(led[e])
    BY DEF Histories
<1> QED
    BY <1>1, SameSelf DEF Grows, GrowsInEpoch

\* What is committed stays so, and so is what lies below it.
LEMMA CommittedStays ==
    ASSUME NEW led \in Histories, NEW grown \in Histories, Grows(led, grown),
           NEW acked, NEW counted, acked \subseteq counted,
           NEW o \in Nat, NEW n \in Nat, n <= o, NEW e \in Nat, NEW f \in Nat, e <= f,
           NEW old \in Seq(Nat), NEW new \in Seq(Nat), SameBelow(new, old, n),
           Committed(led, acked, o, old, e)
    PROVE  Committed(grown, counted, n, new, f)
<1>0. DOMAIN led = Nat /\ DOMAIN grown = Nat
    BY DEF Histories
<1>1. CASE o = 0
    <2>1. n = 0
        BY <1>1
    <2> QED
        BY <2>1 DEF Committed
<1>2. CASE o # 0
    <2>1. PICK x \in Nat :
            /\ x <= e /\ SameBelow(old, led[x], o)
            /\ \E p \in 1 .. Len(led[x]) : p >= o /\ CommitAt(led, acked, x, p)
        BY <1>0, <1>2 DEF Committed
    <2>2. PICK p \in 1 .. Len(led[x]) : p >= o /\ CommitAt(led, acked, x, p)
        BY <2>1
    <2>3. CommitAt(grown, counted, x, p) /\ p \in 1 .. Len(grown[x])
        BY <2>2, CommitAtGrows
    <2>4. p >= n /\ x <= f
        <3>1. p \in Nat
            BY <2>2 DEF Histories
        <3> QED
            BY <2>1, <2>2, <3>1
    <2>5. SameBelow(old, grown[x], n)
        <3>1. SameBelow(old, led[x], n)
            BY <2>1, SameLess
        <3> QED
            BY <3>1, GrownAgrees
    <2>6. SameBelow(new, grown[x], n)
        BY <2>5, SameTrans
    <2> QED
        BY <1>0, <2>3, <2>4, <2>6 DEF Committed
<1> QED
    BY <1>1, <1>2

\* What a majority acknowledged to the leader of an epoch, up to a batch of
\* that epoch, is committed.
LEMMA CommittedNow ==
    ASSUME NEW grown \in Histories, NEW counted, NEW e \in Nat, NEW log \in Seq(Nat),
           grown[e] = log, NEW o \in 1 .. Len(log), log[o] = e,
           NEW Q, HasQuorum(Q), Q \subseteq Ackers(counted, e, o)
    PROVE  Committed(grown, counted, o, log, e)
<1>1. Ackers(counted, e, o) \in SUBSET Voters
    BY DEF Ackers
<1>2. HasQuorum(Ackers(counted, e, o))
    BY <1>1, QuorumGrows
<1>3. CommitAt(grown, counted, e, o)
    BY <1>2 DEF CommitAt, Ackers
<1>4. SameBelow(log, log, o) /\ DOMAIN grown = Nat /\ o >= o /\ e <= e
    BY SameSelf DEF Histories
<1> QED
    BY <1>3, <1>4 DEF Committed

\* High watermarks stay explained through every turn.
LEMMA WatermarksTurn ==
    ASSUME TypeOK, TypeOK', NEW led \in Histories, NEW grown \in Histories, Grows(led, grown),
           NEW acked, NEW counted, acked \subseteq counted, WatermarksPast(led, acked),
           NEW v \in Voters, NEW gone, NEW step, EndTurn(v, gone, step),
           HasCommitted(grown, counted, step.replica),
           \A m \in step.send : IsServed(m) /\ m.diverging = Nil => TellsCommitted(grown, counted, m)
    PROVE  WatermarksPast(grown, counted)'
<1>1. replica' = [replica EXCEPT ![v] = step.replica]
    BY DEF EndTurn
<1>2. replica'[v] = step.replica /\ \A w \in Voters \ {v} : replica'[w] = replica[w]
    BY <1>1 DEF TypeOK
<1>3. ASSUME NEW w \in Voters PROVE HasCommitted(grown, counted, replica'[w])
    <2>1. CASE w = v
        BY <1>2, <2>1
    <2>2. CASE w # v
        <3>1. PICK r \in Replica : r = replica[w] /\ r = replica'[w] /\ HasCommitted(led, acked, r)
            BY <1>2, <2>2 DEF TypeOK, WatermarksPast
        <3>2. r.hwm \in Nat /\ r.epoch \in Nat /\ r.log \in Seq(Nat)
            BY <3>1, ReplicaFields
        <3>3. SameBelow(r.log, r.log, r.hwm) /\ r.epoch <= r.epoch /\ r.hwm <= r.hwm
            BY <3>1, <3>2, SameSelf DEF HasCommitted
        <3>4. Committed(grown, counted, r.hwm, r.log, r.epoch)
            BY <3>1, <3>2, <3>3, CommittedStays DEF HasCommitted
        <3> QED
            BY <3>1, <3>4 DEF HasCommitted
    <2> QED
        BY <2>1, <2>2
<1>4. ASSUME NEW m \in net', IsServed(m), m.diverging = Nil PROVE TellsCommitted(grown, counted, m)
    <2>1. CASE m \in step.send
        BY <1>4, <2>1
    <2>2. CASE m \in net
        <3>1. TellsCommitted(led, acked, m)
            BY <1>4, <2>2 DEF WatermarksPast
        <3>2. PICK o \in Nat, e \in Nat : o = m.hwm /\ e = m.epoch
            BY <2>2, <3>1, MessageFields DEF TellsCommitted, TypeOK
        <3>3. PICK old \in Seq(Nat), new \in Seq(Nat) : old = led[e] /\ new = grown[e]
            BY DEF Histories
        <3>4. Committed(led, acked, o, old, e)
            BY <3>1, <3>2, <3>3 DEF TellsCommitted
        <3>5. o <= Len(old)
            <4>1. CASE o = 0
                BY <4>1
            <4>2. CASE o # 0
                <5>1. PICK x \in DOMAIN led : SameBelow(old, led[x], o)
                    BY <3>4, <4>2 DEF Committed
                <5>2. o \in 1 .. o
                    BY <4>2
                <5> QED
                    BY <5>1, <5>2 DEF SameBelow
            <4> QED
                BY <4>1, <4>2
        <3>6. SameBelow(old, new, Len(old)) /\ Len(old) \in Nat
            BY <3>3 DEF Grows
        <3>7. SameBelow(old, new, o)
            BY <3>5, <3>6, SameLess
        <3>8. SameBelow(new, old, o) /\ e <= e /\ o <= o
            BY <3>7, SameSym
        <3>9. Committed(grown, counted, o, new, e)
            BY <3>4, <3>8, CommittedStays
        <3> QED
            BY <3>2, <3>3, <3>9 DEF TellsCommitted
    <2> QED
        BY <2>1, <2>2 DEF EndTurn
<1> QED
    BY <1>3, <1>4 DEF WatermarksPast, HasCommitted, TellsCommitted, IsServed

(***************************************************************************)
(* Completeness.                                                           *)
(***************************************************************************)

\* The last epoch of the first k batches.
LEMMA PrefixLast ==
    ASSUME NEW log \in Seq(Nat), NEW k \in 1 .. Len(log)
    PROVE  last_epoch(Prefix(log, k)) = log[k]
<1>1. k \in 0 .. Len(log) /\ k \in Nat /\ k \in 1 .. k
    OBVIOUS
<1>2. PICK p \in Seq(Nat) : p = Prefix(log, k) /\ Len(p) = k /\ p[k] = log[k]
    BY <1>1, PrefixType
<1>3. p # <<>>
    BY <1>2
<1> QED
    BY <1>2, <1>3 DEF last_epoch

\* A log L that has the first o batches of S, the last of them of epoch e, and
\* a leader's log F that won over L: so has F, unless a leader between lacks
\* them.
LEMMA WinnerHolds ==
    ASSUME NEW led \in Histories, LedInOrder(led), NEW e \in Nat, NEW f \in Nat, e < f,
           NEW o \in 1 .. Len(led[e]), led[e][o] = e,
           NEW L \in Seq(Nat), Sourced(led, L), Ordered(L, f), SameBelow(led[e], L, o),
           WonOver(led, f, L), ~Lacked(led, led[e], e, o, f)
    PROVE  SameBelow(led[e], led[f], o)
<1>1. PICK S \in Seq(Nat), F \in Seq(Nat) : S = led[e] /\ F = led[f]
    BY DEF Histories
<1>2. o \in Nat /\ o \in 1 .. o /\ o <= Len(L) /\ L[o] = e /\ o \in 1 .. Len(L)
    <2>1. o \in Nat /\ o \in 1 .. o
        BY <1>1
    <2> QED
        BY <1>1, <2>1 DEF SameBelow
<1>3. PICK k \in 0 .. Len(F) :
            /\ last_epoch(Prefix(F, k)) < f
            /\ log_is_up_to_date(L, last_epoch(Prefix(F, k)), k)
    BY <1>1 DEF WonOver
<1>4. PICK n \in 1 .. Len(L) : n = Len(L) /\ last_epoch(L) = L[n] /\ L[n] >= e /\ n >= o
    <2>1. Len(L) \in 1 .. Len(L) /\ L # <<>>
        BY <1>2
    <2>2. L[o] <= L[Len(L)]
        BY <1>2, <2>1 DEF Ordered
    <2>3. last_epoch(L) = L[Len(L)]
        BY <2>1 DEF last_epoch
    <2>4. L[Len(L)] >= e /\ Len(L) >= o
        <3>1. L[Len(L)] \in Nat /\ Len(L) \in Nat
            BY <2>1
        <3> QED
            BY <1>2, <2>2, <3>1
    <2> QED
        BY <2>1, <2>3, <2>4
<1>5. n \in Nat /\ L[n] \in Nat
    OBVIOUS
<1>6. CASE k = 0
    <2>1. last_epoch(Prefix(F, k)) = 0
        <3>1. Len(Prefix(F, 0)) = 0 /\ Prefix(F, 0) \in Seq(Nat)
            BY PrefixType
        <3>2. Prefix(F, 0) = <<>>
            BY <3>1
        <3> QED
            BY <1>6, <3>2 DEF last_epoch
    <2>2. 0 > L[n] \/ 0 >= n
        BY <1>3, <1>4, <1>6, <2>1 DEF log_is_up_to_date, end_offset
    <2> QED
        BY <1>5, <2>2
<1>7. CASE k # 0
    <2>1. k \in 1 .. Len(F) /\ k \in Nat
        BY <1>7
    <2>2. PICK g \in Nat : g = F[k] /\ g = last_epoch(Prefix(F, k))
        BY <2>1, PrefixLast
    <2>3. PICK G \in Seq(Nat) : G = led[g] /\ SameBelow(F, G, k) /\ Ordered(G, g)
        BY <1>1, <2>1, <2>2 DEF LedInOrder, Sourced, Histories
    <2>4. k \in 1 .. Len(G) /\ G[k] = g
        <3>1. k \in 1 .. k /\ k >= 1
            BY <2>1
        <3>2. k <= Len(G) /\ F[k] = G[k]
            BY <2>3, <3>1 DEF SameBelow
        <3>3. Len(G) \in Nat /\ k \in 1 .. Len(G)
            BY <2>1, <3>1, <3>2
        <3> QED
            BY <2>2, <3>2, <3>3
    <2>5. g > L[n] \/ (g = L[n] /\ k >= n)
        BY <1>3, <1>4, <2>2 DEF log_is_up_to_date, end_offset
    <2>6. CASE g > L[n]
        <3>1. e < g /\ g < f
            BY <1>3, <1>4, <1>5, <2>2, <2>6
        <3>2. SameBelow(S, G, o)
            <4>1. G # <<>>
                BY <2>4
            <4> QED
                BY <1>1, <2>3, <3>1, <4>1 DEF Lacked
        <3>3. o \in 1 .. Len(G) /\ G[o] = e
            BY SMTT(40), <1>1, <1>2, <3>2 DEF SameBelow
        <3>4. o <= k
            <4>1. SUFFICES ASSUME k <= o PROVE o = k
                BY SMTT(40), <1>2, <2>1
            <4>2. k \in 1 .. o
                BY <2>1, <4>1
            <4>3. G[k] <= G[o]
                BY <2>3, <3>3, <4>2 DEF Ordered
            <4>4. g <= e
                BY <2>4, <3>3, <4>3
            <4> QED
                BY <3>1, <4>4
        <3>5. SameBelow(F, G, o)
            BY <1>2, <2>1, <2>3, <3>4, SameLess
        <3>6. SameBelow(G, F, o)
            BY <1>2, <3>5, SameSym
        <3> QED
            BY <1>1, <1>2, <3>2, <3>6, SameTrans
    <2>7. CASE g = L[n] /\ k >= n
        <3>1. SameBelow(L, G, n)
            BY <2>3, <2>7 DEF Sourced
        <3>2. SameBelow(L, G, o)
            BY <1>2, <1>4, <1>5, <3>1, SameLess
        <3>3. o <= k
            BY <1>2, <1>4, <1>5, <2>1, <2>7
        <3>4. SameBelow(F, G, o)
            BY <1>2, <2>1, <2>3, <3>3, SameLess
        <3>5. SameBelow(G, F, o)
            BY <1>2, <3>4, SameSym
        <3>6. SameBelow(L, F, o)
            BY <1>2, <3>2, <3>5, SameTrans
        <3> QED
            BY <1>1, <1>2, <3>6, SameTrans
    <2> QED
        BY <2>5, <2>6, <2>7
<1> QED
    BY <1>6, <1>7

\* The voters that cast a vote seen for candidate c in epoch e.
Seers(seen, e, c) == {v \in Voters : \E x \in seen : x[1] = e /\ x[2] = v /\ x[3] = c}

\* What was committed in an epoch, every later leader has: the first that had
\* not would have won over a voter that acknowledged it.
LEMMA CompleteFollows ==
    ASSUME TypeOK, NEW led \in Histories, NEW acked \in SUBSET Acks,
           NEW seen \in SUBSET Sightings, CommitPast(led, acked, seen)
    PROVE  Complete(led, acked)
<1>0. DOMAIN led = Nat /\ LogPast(led) /\ VotesPast(led, seen) /\ AcksPast(led, acked, seen)
    BY DEF Histories, CommitPast
<1>1. SUFFICES ASSUME NEW e \in Nat, NEW o \in 1 .. Len(led[e]), CommitAt(led, acked, e, o),
                      NEW z \in Nat, e < z, led[z] # <<>>, ~SameBelow(led[e], led[z], o)
               PROVE  FALSE
    BY <1>0 DEF Complete
<1> DEFINE bad == {f \in Nat : e < f /\ led[f] # <<>> /\ ~SameBelow(led[e], led[f], o)}
<1>2. PICK f \in Nat : /\ e < f /\ led[f] # <<>> /\ ~SameBelow(led[e], led[f], o)
                       /\ \A y \in bad : f <= y
    <2>1. bad \in SUBSET Nat /\ bad # {}
        BY <1>1
    <2>2. PICK f \in bad : \A y \in bad : f <= y
        <3> HIDE DEF bad
        <3> QED
            BY <2>1, LeastExists
    <2> QED
        BY <2>2
<1>3. ~Lacked(led, led[e], e, o, f)
    <2>1. SUFFICES ASSUME NEW x \in Nat, e < x, x < f, led[x] # <<>>, ~SameBelow(led[e], led[x], o)
                   PROVE  FALSE
        BY DEF Lacked
    <2>2. f <= x
        BY <1>2, <2>1
    <2> QED
        BY <2>1, <2>2
<1>4. PICK c \in Voters : <<f, c>> \in elected
    BY <1>0, <1>2 DEF LogPast, LedWasElected
<1>5. HasQuorum(Seers(seen, f, c)) /\ Seers(seen, f, c) \in SUBSET Voters
    BY <1>0, <1>4 DEF VotesPast, Seers
<1>6. HasQuorum(Ackers(acked, e, o)) /\ Ackers(acked, e, o) \in SUBSET Voters /\ led[e][o] = e
    BY <1>1 DEF CommitAt, Ackers
<1>7. PICK w \in Voters : w \in Seers(seen, f, c) /\ w \in Ackers(acked, e, o)
    BY <1>5, <1>6, QuorumsIntersect
<1>8. PICK x \in seen : x[1] = f /\ x[2] = w /\ x[3] = c
    BY <1>7 DEF Seers
<1>9. PICK a \in acked : a[1] = e /\ a[2] = w /\ a[3] >= o
    BY <1>7 DEF Ackers
<1>10. o \in 1 .. a[3]
    <2>1. a[3] \in Nat /\ o \in Nat /\ o >= 1
        BY DEF Acks, Histories
    <2> QED
        BY <1>9, <2>1
<1>11. Holds(led, seen, w, replica[w], led[e], e, o)
    BY <1>0, <1>9, <1>10 DEF AcksPast, AckHeld
<1>12. Kept(led, led[e], e, o, x[4], f)
    BY <1>2, <1>8, <1>11 DEF Holds
<1>13. SameBelow(led[e], x[4], o)
    BY <1>3, <1>12, KeptOrLacked
<1>14. x[4] \in Seq(Nat) /\ Sourced(led, x[4]) /\ Ordered(x[4], f) /\ WonOver(led, f, x[4])
    BY <1>0, <1>4, <1>8 DEF VotesPast, SeenSourced, Sightings
<1>15. LedInOrder(led)
    BY <1>0 DEF LogPast
<1> QED
    BY <1>2, <1>3, <1>6, <1>13, <1>14, <1>15, WinnerHolds

(***************************************************************************)
(* What the history says of the state.                                     *)
(***************************************************************************)

\* A history that explains the state, with what follows from it.
Explains(led, acked, seen) ==
    /\ led \in Histories /\ acked \in SUBSET Acks /\ seen \in SUBSET Sightings
    /\ CommitPast(led, acked, seen) /\ Complete(led, acked)

LEMMA History ==
    ASSUME TypeOK, CommitInv
    PROVE  \E led, acked, seen : Explains(led, acked, seen)
<1>1. PICK led \in Histories, acked \in SUBSET Acks, seen \in SUBSET Sightings :
            CommitPast(led, acked, seen)
    BY DEF CommitInv, Acks, Sightings
<1> QED
    BY <1>1, CompleteFollows DEF Explains

\* What was committed up to an epoch, whoever led that epoch has.
LEMMA CommittedIsLed ==
    ASSUME NEW led \in Histories, NEW acked, Complete(led, acked), NEW o \in Nat,
           NEW log \in Seq(Nat), NEW e \in Nat, Committed(led, acked, o, log, e), led[e] # <<>>
    PROVE  SameBelow(log, led[e], o)
<1>1. CASE o = 0
    BY <1>1 DEF SameBelow
<1>2. CASE o # 0
    <2>1. PICK x \in Nat :
            /\ x <= e /\ SameBelow(log, led[x], o)
            /\ \E p \in 1 .. Len(led[x]) : p >= o /\ CommitAt(led, acked, x, p)
        BY <1>2 DEF Committed, Histories
    <2>2. PICK p \in 1 .. Len(led[x]) : p >= o /\ CommitAt(led, acked, x, p)
        BY <2>1
    <2>3. CASE x = e
        BY <2>1, <2>3
    <2>4. CASE x # e
        <3>1. x < e
            BY <2>1, <2>4
        <3>2. SameBelow(led[x], led[e], p) /\ p \in Nat
            BY <2>2, <3>1 DEF Complete, Histories
        <3>3. SameBelow(led[x], led[e], o)
            BY <2>2, <3>2, SameLess
        <3> QED
            BY <2>1, <3>3, SameTrans
    <2> QED
        BY <2>3, <2>4
<1> QED
    BY <1>1, <1>2

\* Two logs agree where both are committed.
LEMMA CommittedSame ==
    ASSUME NEW led \in Histories, NEW acked, Complete(led, acked), NEW n \in Nat, NEW o \in Nat,
           NEW a \in Seq(Nat), NEW b \in Seq(Nat), NEW e \in Nat, NEW f \in Nat,
           n <= o, Committed(led, acked, n, a, e), Committed(led, acked, o, b, f)
    PROVE  SameBelow(a, b, n)
<1>1. CASE n = 0
    BY <1>1 DEF SameBelow
<1>2. CASE n # 0
    <2>1. o # 0
        BY <1>2
    <2>2. PICK x \in Nat, p \in Nat : /\ SameBelow(a, led[x], n) /\ CommitAt(led, acked, x, p)
                                      /\ p \in 1 .. Len(led[x]) /\ p >= n
        BY <1>2 DEF Committed, Histories
    <2>3. PICK y \in Nat, s \in Nat : /\ SameBelow(b, led[y], o) /\ CommitAt(led, acked, y, s)
                                      /\ s \in 1 .. Len(led[y]) /\ s >= o
        BY <2>1 DEF Committed, Histories
    <2>4. PICK X \in Seq(Nat), Y \in Seq(Nat) :
            X = led[x] /\ Y = led[y] /\ p \in 1 .. Len(X) /\ s \in 1 .. Len(Y)
        BY <2>2, <2>3 DEF Histories
    <2>5. p \in Nat /\ s \in Nat /\ s >= n /\ X # <<>> /\ Y # <<>>
        BY SMTT(40), <2>2, <2>3, <2>4
    <2>6. SameBelow(X, Y, n)
        <3>1. CASE x = y
            <4>1. n \in 0 .. Len(X)
                BY <2>2, <2>4
            <4> QED
                BY <2>4, <3>1, <4>1, SameSelf
        <3>2. CASE x < y
            <4>1. SameBelow(X, Y, p)
                BY <2>2, <2>4, <2>5, <3>2 DEF Complete, Histories
            <4> QED
                BY <2>2, <2>5, <4>1, SameLess
        <3>3. CASE y < x
            <4>1. SameBelow(Y, X, s)
                BY <2>3, <2>4, <2>5, <3>3 DEF Complete, Histories
            <4>2. SameBelow(Y, X, n)
                BY <2>5, <4>1, SameLess
            <4> QED
                BY <4>2, SameSym
        <3> QED
            BY <3>1, <3>2, <3>3
    <2>7. SameBelow(b, Y, n)
        BY <2>3, <2>4, SameLess
    <2>8. SameBelow(Y, b, n)
        BY <2>7, SameSym
    <2>9. SameBelow(a, Y, n)
        BY <2>2, <2>4, <2>6, SameTrans
    <2> QED
        BY <2>8, <2>9, SameTrans
<1> QED
    BY <1>1, <1>2

LEMMA LeadersAreComplete ==
    ASSUME TypeOK, CommitInv, VoteInv
    PROVE  LeaderCompleteness
<1>1. PICK led, acked, seen : Explains(led, acked, seen)
    BY History
<1>2. ASSUME NEW v \in Voters, NEW w \in Voters, replica[w].role.name = "Leader",
             replica[w].epoch >= replica[v].epoch
      PROVE  SameBelow(replica[v].log, replica[w].log, replica[v].hwm)
    <2>1. PICK r \in Replica, l \in Replica : r = replica[v] /\ l = replica[w]
        BY DEF TypeOK
    <2>2. /\ r.hwm \in Nat /\ r.log \in Seq(Nat) /\ r.epoch \in Nat
          /\ l.log \in Seq(Nat) /\ l.epoch \in Nat /\ l.epoch >= r.epoch
        BY <1>2, <2>1, ReplicaFields
    <2>3. led \in Histories /\ LogPast(led) /\ WatermarksPast(led, acked) /\ Complete(led, acked)
        BY <1>1 DEF Explains, CommitPast
    <2>4. l.log = led[l.epoch] /\ l.log # <<>>
        BY <1>2, <2>1, <2>3, LeaderLed
    <2>5. Committed(led, acked, r.hwm, r.log, r.epoch) /\ r.hwm <= Len(r.log)
        BY <2>1, <2>3 DEF WatermarksPast, HasCommitted
    <2>6. Grows(led, led) /\ acked \subseteq acked /\ r.hwm <= r.hwm /\ SameBelow(r.log, r.log, r.hwm)
        BY <2>2, <2>3, <2>5, SameSelf, GrowsSelf
    <2>7. Committed(led, acked, r.hwm, r.log, l.epoch)
        BY <2>2, <2>3, <2>5, <2>6, CommittedStays
    <2>8. SameBelow(r.log, led[l.epoch], r.hwm)
        BY <2>2, <2>3, <2>4, <2>7, CommittedIsLed
    <2> QED
        BY <2>1, <2>4, <2>8
<1> QED
    BY <1>2 DEF LeaderCompleteness, IsLeader

LEMMA CommittedAgrees ==
    ASSUME TypeOK, CommitInv
    PROVE  CommittedAgree
<1>1. PICK led, acked, seen : Explains(led, acked, seen)
    BY History
<1>2. ASSUME NEW v \in Voters, NEW w \in Voters
      PROVE  SameBelow(replica[v].log, replica[w].log,
                       truncation_frontier(replica[v].hwm, replica[w].hwm))
    <2>1. PICK a \in Replica, b \in Replica : a = replica[v] /\ b = replica[w]
        BY DEF TypeOK
    <2>2. /\ a.hwm \in Nat /\ a.log \in Seq(Nat) /\ a.epoch \in Nat
          /\ b.hwm \in Nat /\ b.log \in Seq(Nat) /\ b.epoch \in Nat
        BY <2>1, ReplicaFields
    <2>3. led \in Histories /\ WatermarksPast(led, acked) /\ Complete(led, acked)
        BY <1>1 DEF Explains, CommitPast
    <2>4. /\ Committed(led, acked, a.hwm, a.log, a.epoch)
          /\ Committed(led, acked, b.hwm, b.log, b.epoch)
        BY <2>1, <2>3 DEF WatermarksPast, HasCommitted
    <2>5. CASE a.hwm <= b.hwm
        <3>1. SameBelow(a.log, b.log, a.hwm)
            BY <2>2, <2>3, <2>4, <2>5, CommittedSame
        <3> QED
            BY <2>1, <2>5, <3>1 DEF truncation_frontier
    <2>6. CASE ~(a.hwm <= b.hwm)
        <3>1. b.hwm <= a.hwm
            BY <2>2, <2>6
        <3>2. SameBelow(b.log, a.log, b.hwm)
            BY <2>2, <2>3, <2>4, <3>1, CommittedSame
        <3>3. SameBelow(a.log, b.log, b.hwm)
            BY <2>2, <3>2, SameSym
        <3> QED
            BY <2>1, <2>6, <3>3 DEF truncation_frontier
    <2> QED
        BY <2>5, <2>6
<1> QED
    BY <1>2 DEF CommittedAgree

LEMMA AcknowledgedHeld ==
    ASSUME TypeOK, CommitInv, VoteInv
    PROVE  AcknowledgedIsHeld
<1>1. PICK led, acked, seen : Explains(led, acked, seen)
    BY History
<1>2. ASSUME NEW w \in Voters, replica[w].role.name = "Leader", NEW v \in Voters \ {w},
             ~(replica[v].epoch > replica[w].epoch)
      PROVE  SameBelow(replica[v].log, replica[w].log, replica[w].role.replicas[v])
    <2>1. PICK r \in Replica, l \in Replica : r = replica[v] /\ l = replica[w]
        BY DEF TypeOK
    <2>2. PICK e \in Nat, o \in Nat : e = l.epoch /\ o = l.role.replicas[v]
        BY <1>2, <2>1, ReplicaFields, RoleFields
    <2>3. r.epoch \in Nat /\ r.log \in Seq(Nat) /\ l.log \in Seq(Nat) /\ ~(r.epoch > e)
        BY <1>2, <2>1, <2>2, ReplicaFields
    <2>4. led \in Histories /\ LogPast(led) /\ AcksPast(led, acked, seen)
        BY <1>1 DEF Explains, CommitPast
    <2>5. l.log = led[e]
        BY <1>2, <2>1, <2>2, <2>4, LeaderLed
    <2>6. <<e, v, o>> \in acked
        BY <1>2, <2>1, <2>2, <2>4 DEF AcksPast, LeaderCounts, IsLeader
    <2>7. AckHeld(led, seen, r, <<e, v, o>>)
        BY <2>1, <2>4, <2>6 DEF AcksPast
    <2>8. CASE o = 0
        BY <2>1, <2>2, <2>8 DEF SameBelow
    <2>9. CASE o # 0
        <3>1. o \in 1 .. o
            BY <2>9
        <3>2. Holds(led, seen, v, r, l.log, e, o)
            BY <2>5, <2>7, <3>1 DEF AckHeld
        <3>3. r.epoch = e /\ Kept(led, l.log, e, o, r.log, r.epoch + 1)
            BY <2>3, <3>2 DEF Holds
        <3>4. ~Lacked(led, l.log, e, o, r.epoch + 1)
            BY <3>3 DEF Lacked
        <3>5. SameBelow(l.log, r.log, o)
            BY <2>4, <3>3, <3>4, KeptOrLacked
        <3>6. SameBelow(r.log, l.log, o)
            BY <3>5, SameSym
        <3> QED
            BY <2>1, <2>2, <3>6
    <2> QED
        BY <2>8, <2>9
<1> QED
    BY <1>2 DEF AcknowledgedIsHeld, IsLeader

(***************************************************************************)
(* The history goes on.                                                    *)
(***************************************************************************)

\* What all turns have in common, beside the messages they send.
GoesOn(led, acked, seen, v, r, q, send) ==
    LET grown == GrownBy(led, q)
    IN  /\ grown \in Histories /\ LogTurn(led, grown, r, q) /\ GrowsInEpoch(led, grown)
        /\ PastTurn(led, r, q, send) /\ Polls(v, r, q) /\ Counts(led, seen, v, q)
        /\ HasCommitted(grown, AckedBy(acked, v, q), q)

\* What a request sent at the end of the turn says.
Requests(v, r, q, m) ==
    /\ m.type = "Fetch" => FetchSaid(v, q, m) /\ m.to # v /\ q.role.name = "Follower"
    /\ m.type = "Vote" /\ ~m.preVote => VoteSaid(v, r, q, m)

\* An answer that a leader q gives tells its receiver nothing wrong.
Answers(led, q, m) ==
    IsServed(m) =>
        /\ q.role.name = "Leader"
        /\ AnswerIsCurrent(GrownBy(led, q), replica'[m.to], m)
        /\ m.diverging = Nil =>
                /\ FitsAnswer(GrownBy(led, q), replica'[m.to], m)
                /\ m.hwm = q.hwm /\ m.epoch = q.epoch

\* Some history that extends this one explains the next state, and no log was
\* cut where it agrees with the log of its epoch's leader.
KeepsPast(led, acked) ==
    /\ \E grown \in Histories, counted \in SUBSET Acks, now \in SUBSET Sightings :
            Grows(led, grown) /\ acked \subseteq counted /\ CommitPast(grown, counted, now)'
    /\ \A w \in Voters : KeepsShared(led, replica[w], replica'[w])

LEMMA CommitTurn ==
    ASSUME ~FetchesOverlap, TypeOK, TypeOK', VoteInv, VoteInv', ElectionSafety',
           NEW led \in Histories, NEW acked \in SUBSET Acks, NEW seen \in SUBSET Sightings,
           CommitPast(led, acked, seen), NEW v \in Voters, NEW gone, NEW step,
           EndTurn(v, gone, step),
           GoesOn(led, acked, seen, v, replica[v], step.replica, step.send),
           \A m \in step.send : /\ Requests(v, replica[v], step.replica, m)
                                /\ Answers(led, step.replica, m)
    PROVE  KeepsPast(led, acked)
<1> DEFINE r == replica[v]
           q == step.replica
<1>1. PICK grown \in Histories : grown = GrownBy(led, q)
    BY DEF GoesOn
<1>2. PICK counted : counted = AckedBy(acked, v, q)
    OBVIOUS
<1>3. PICK now : now = SeenBy(led, seen, v, r, q)
    OBVIOUS
<1>4. /\ LogTurn(led, grown, r, q) /\ GrowsInEpoch(led, grown) /\ PastTurn(led, r, q, step.send)
      /\ Polls(v, r, q) /\ Counts(led, seen, v, q) /\ HasCommitted(grown, counted, q)
    BY <1>1, <1>2 DEF GoesOn
<1>5. /\ LogPast(led) /\ ExchangesPast(led) /\ VotesPast(led, seen)
      /\ AcksPast(led, acked, seen) /\ WatermarksPast(led, acked)
      /\ LogsSourced(led) /\ LedInOrder(led)
    BY DEF CommitPast, LogPast
<1>6. Grows(led, grown) /\ acked \subseteq counted
    BY <1>2, <1>4 DEF LogTurn, AckedBy
<1>7. replica' = [replica EXCEPT ![v] = q]
    BY DEF EndTurn
<1>8. replica'[v] = q /\ q \in Replica /\ \A w \in Voters \ {v} : replica'[w] = replica[w]
    BY <1>7 DEF TypeOK
<1>9. \A m \in step.send :
        /\ m.type = "Fetch" => FetchSaid(v, q, m) /\ m.to # v /\ q.role.name = "Follower"
        /\ m.type = "Vote" /\ ~m.preVote => VoteSaid(v, r, q, m)
        /\ IsServed(m) => AnswerIsCurrent(grown, replica'[m.to], m)
        /\ IsServed(m) /\ m.diverging = Nil => FitsAnswer(grown, replica'[m.to], m)
    BY <1>1 DEF Requests, Answers
<1>10. \A m \in step.send : IsServed(m) /\ m.diverging = Nil => TellsCommitted(grown, counted, m)
    <2> SUFFICES ASSUME NEW m \in step.send, IsServed(m), m.diverging = Nil
                 PROVE  TellsCommitted(grown, counted, m)
        OBVIOUS
    <2>1. q.role.name = "Leader" /\ m.hwm = q.hwm /\ m.epoch = q.epoch
        BY DEF Answers
    <2>2. q.hwm \in Nat /\ q.log = grown[q.epoch]
        BY <1>4, <1>8, <2>1, ReplicaFields DEF LogTurn
    <2> QED
        BY <1>4, <2>1, <2>2 DEF HasCommitted, TellsCommitted
<1>11. LogPast(grown)'
    BY <1>4, <1>5, <1>9, LogPastTurn
<1>12. ExchangesPast(grown)'
    BY <1>4, <1>5, <1>9, ExchangeTurn
<1>13. now \in SUBSET Sightings /\ VotesPast(grown, now)'
    BY <1>3, <1>4, <1>5, <1>9, VotesTurn
<1>14. counted \in SUBSET Acks /\ AcksPast(grown, counted, now)'
    BY <1>2, <1>3, <1>4, <1>5, <1>9, <1>13, AcksTurn
<1>15. WatermarksPast(grown, counted)'
    BY <1>4, <1>5, <1>6, <1>10, WatermarksTurn
<1>16. CommitPast(grown, counted, now)'
    BY <1>11, <1>12, <1>13, <1>14, <1>15 DEF CommitPast
<1>17. ASSUME NEW w \in Voters PROVE KeepsShared(led, replica[w], replica'[w])
    <2>1. CASE w = v
        BY <1>4, <1>8, <2>1 DEF PastTurn
    <2>2. CASE w # v
        <3>1. replica[w].log \in Seq(Nat)
            BY ReplicaFields DEF TypeOK
        <3>2. \A k \in 1 .. Len(replica[w].log) : SameBelow(replica[w].log, replica[w].log, k)
            BY <3>1, SameSelf
        <3> QED
            BY <1>8, <2>2, <3>2 DEF KeepsShared
    <2> QED
        BY <2>1, <2>2
<1> QED
    BY <1>6, <1>13, <1>14, <1>16, <1>17 DEF KeepsPast

(***************************************************************************)
(* Each kind of turn.                                                      *)
(***************************************************************************)

\* What a majority of the offsets that a leader counts has reached, in its own
\* epoch, is committed.
LEMMA MajorityCommits ==
    ASSUME NEW grown \in Histories, NEW acked, NEW v \in Voters, NEW q \in Replica,
           q.role.name = "Leader", grown[q.epoch] = q.log,
           NEW o \in 1 .. Len(q.log), q.log[o] = q.epoch,
           HasQuorum({v} \cup {w \in other_voters(v) : q.role.replicas[w] >= o})
    PROVE  Committed(grown, AckedBy(acked, v, q), o, q.log, q.epoch)
<1> DEFINE Q == {v} \cup {w \in other_voters(v) : q.role.replicas[w] >= o}
           counted == AckedBy(acked, v, q)
<1>1. q.epoch \in Nat /\ q.log \in Seq(Nat) /\ Len(q.log) >= o
    BY ReplicaFields
<1>2. /\ <<q.epoch, v, Len(q.log)>> \in counted
      /\ \A w \in other_voters(v) : <<q.epoch, w, q.role.replicas[w]>> \in counted
    BY DEF AckedBy, other_voters
<1> HIDE DEF counted
<1>3. \A w \in Q : w \in Ackers(counted, q.epoch, o)
    <2> SUFFICES ASSUME NEW w \in Q PROVE w \in Ackers(counted, q.epoch, o)
        OBVIOUS
    <2>1. CASE w = v
        BY <1>1, <1>2, <2>1 DEF Ackers
    <2>2. CASE w # v
        <3>1. w \in Voters /\ w \in other_voters(v) /\ q.role.replicas[w] >= o
            BY <2>2 DEF other_voters
        <3> QED
            BY <1>2, <3>1 DEF Ackers
    <2> QED
        BY <2>1, <2>2
<1> HIDE DEF Q
<1>4. HasQuorum(Q) /\ Q \subseteq Ackers(counted, q.epoch, o)
    BY <1>3 DEF Q
<1> QED
    BY <1>1, <1>4, CommittedNow DEF counted

\* A lone voter commits what it appends.
LEMMA LoneCommits ==
    ASSUME NEW grown \in Histories, NEW acked, NEW v \in Voters, NEW q \in Replica,
           q.role.name = "Leader", grown[q.epoch] = q.log, q.log # <<>>,
           q.log[Len(q.log)] = q.epoch, majority = 1
    PROVE  Committed(grown, AckedBy(acked, v, q), Len(q.log), q.log, q.epoch)
<1> DEFINE n == Len(q.log)
           Q == {v} \cup {w \in other_voters(v) : q.role.replicas[w] >= n}
<1>1. n \in 1 .. Len(q.log)
    BY ReplicaFields
<1>2. Cardinality({v}) = 1
    BY FS_Singleton
<1>3. HasQuorum({v})
    BY <1>2 DEF HasQuorum
<1>4. {v} \subseteq Q /\ Q \in SUBSET Voters
    BY DEF other_voters
<1> HIDE DEF Q
<1>5. HasQuorum(Q)
    BY <1>3, <1>4, QuorumGrows
<1> QED
    BY <1>1, <1>5, MajorityCommits DEF Q

\* The high watermark of a turn that keeps what it committed.
LEMMA KeepsCommitted ==
    ASSUME NEW led \in Histories, NEW grown \in Histories, Grows(led, grown), NEW acked,
           NEW v, NEW r \in Replica, NEW q \in Replica, HasCommitted(led, acked, r),
           q.epoch >= r.epoch, q.hwm <= r.hwm, SameBelow(q.log, r.log, q.hwm)
    PROVE  HasCommitted(grown, AckedBy(acked, v, q), q)
<1>1. /\ r.hwm \in Nat /\ r.epoch \in Nat /\ r.log \in Seq(Nat)
      /\ q.hwm \in Nat /\ q.epoch \in Nat /\ q.log \in Seq(Nat) /\ r.epoch <= q.epoch
    BY ReplicaFields
<1>2. acked \subseteq AckedBy(acked, v, q)
    BY DEF AckedBy
<1>3. Committed(grown, AckedBy(acked, v, q), q.hwm, q.log, q.epoch)
    BY <1>1, <1>2, CommittedStays DEF HasCommitted
<1>4. q.hwm <= Len(q.log)
    BY <1>1, SameInside
<1> QED
    BY <1>3, <1>4 DEF HasCommitted

\* The history of the leaders grows in this turn's epoch only.
LEMMA GrownInEpoch ==
    ASSUME NEW led \in Histories, NEW q \in Replica,
           q.role.name = "Leader" => \/ led[q.epoch] = q.log \/ led[q.epoch] = <<>>
                                     \/ q.log = Append(led[q.epoch], q.epoch)
    PROVE  GrowsInEpoch(led, GrownBy(led, q))
<1>1. q.epoch \in Nat
    BY ReplicaFields
<1> QED
    BY <1>1 DEF GrownBy, GrowsInEpoch, Histories

\* A leader that goes on in its role counts what it counted.
LEMMA StillCounts ==
    ASSUME TypeOK, NEW led, NEW acked, NEW seen, AcksPast(led, acked, seen), NEW v \in Voters,
           replica[v].role.name = "Leader", NEW q \in Replica, q.role = replica[v].role,
           q.epoch = replica[v].epoch,
           q.log = replica[v].log \/ q.log = Append(replica[v].log, q.epoch)
    PROVE  Counts(led, seen, v, q)
<1>1. PICK r \in Replica : r = replica[v]
    BY DEF TypeOK
<1>2. LeaderCounts(acked, v, r)
    BY <1>1 DEF AcksPast, IsLeader
<1>3. ASSUME NEW w \in Voters \ {v}
      PROVE  AckHeld(led, seen, replica[w], <<q.epoch, w, q.role.replicas[w]>>)
    <2>1. PICK a \in acked : a = <<q.epoch, w, q.role.replicas[w]>>
        BY <1>1, <1>2 DEF LeaderCounts
    <2>2. AckHeld(led, seen, replica[a[2]], a)
        BY DEF AcksPast
    <2> QED
        BY <2>1, <2>2
<1>4. ASSUME NEW k \in 1 .. Len(q.log), k > q.role.epochStart PROVE q.log[k] = q.epoch
    <2>1. PICK log \in Seq(Nat), e \in Nat : log = r.log /\ e = q.epoch
        BY ReplicaFields
    <2>2. \A j \in 1 .. Len(log) : j > q.role.epochStart => log[j] = e
        BY <1>1, <1>2, <2>1 DEF LeaderCounts
    <2>3. CASE q.log = log
        BY <1>4, <2>1, <2>2, <2>3
    <2>4. CASE q.log = Append(log, e)
        BY <1>4, <2>1, <2>2, <2>4
    <2> QED
        BY <1>1, <2>1, <2>3, <2>4
<1> QED
    BY <1>3, <1>4 DEF Counts

\* A log and what is appended to it.
LEMMA AppendKeeps ==
    ASSUME NEW a \in Seq(Nat), NEW b \in Seq(Nat), NEW e \in Nat, b = a \/ b = Append(a, e)
    PROVE  /\ Begins(a, b)
           /\ \A k \in 0 .. Len(a) : SameBelow(a, b, k) /\ SameBelow(b, a, k)
<1>0. Len(a) \in Nat /\ Len(a) \in 0 .. Len(a)
    OBVIOUS
<1>1. SameBelow(a, b, Len(a))
    <2>1. CASE b = a
        BY <1>0, <2>1, SameSelf
    <2>2. CASE b = Append(a, e)
        BY <2>2, SameAppend
    <2> QED
        BY <2>1, <2>2
<1>2. ASSUME NEW k \in 0 .. Len(a) PROVE SameBelow(a, b, k) /\ SameBelow(b, a, k)
    <2>1. k \in Nat /\ k <= Len(a)
        OBVIOUS
    <2>2. SameBelow(a, b, k)
        BY <1>0, <1>1, <2>1, SameLess
    <2> QED
        BY <2>1, <2>2, SameSym
<1> QED
    BY <1>1, <1>2 DEF Begins

\* A turn that keeps the log or appends its own batch to it.
LEMMA AppendPast ==
    ASSUME NEW led, NEW r \in Replica, NEW q \in Replica, NEW send, q.epoch >= r.epoch,
           q.log = r.log \/ (q.role.name = "Leader" /\ q.log = Append(r.log, q.epoch)),
           q.role.name \in {"Candidate", "Leader"} =>
                \/ q.epoch > r.epoch
                \/ q.epoch = r.epoch /\ r.role.name \in {q.role.name, "Candidate"}
    PROVE  PastTurn(led, r, q, send)
<1>1. q.epoch \in Nat /\ r.log \in Seq(Nat) /\ q.log \in Seq(Nat)
    BY ReplicaFields
<1>2. /\ Begins(r.log, q.log)
      /\ \A k \in 0 .. Len(r.log) : SameBelow(r.log, q.log, k)
    BY <1>1, AppendKeeps
<1>3. KeepsShared(led, r, q)
    BY <1>1, <1>2 DEF KeepsShared
<1> QED
    BY <1>2, <1>3 DEF PastTurn

LEMMA CoreGoesOn ==
    ASSUME TypeOK, TypeOK', VoteInv, ElectionSafety',
           NEW led \in Histories, NEW acked \in SUBSET Acks, NEW seen \in SUBSET Sightings,
           CommitPast(led, acked, seen), NEW v \in Voters, NEW gone, NEW step, NEW W, NEW told,
           NEW asking, EndTurn(v, gone, step), VoteStep(v, replica[v], step, W),
           CoreTurn(v, replica[v], step, told, asking),
           \A x \in asking : \E m \in net :
                AsksRightly(m, replica[v].log) /\ x = <<m.epoch, m.from>>
    PROVE  GoesOn(led, acked, seen, v, replica[v], step.replica, step.send)
<1>1. PICK r \in Replica, q \in Replica : r = replica[v] /\ q = step.replica
    <2>1. replica'[v] = step.replica
        BY DEF EndTurn, TypeOK
    <2> QED
        BY <2>1 DEF TypeOK
<1>2. /\ LogPast(led) /\ AcksPast(led, acked, seen) /\ WatermarksPast(led, acked)
      /\ HasCommitted(led, acked, r)
    BY <1>1 DEF CommitPast, WatermarksPast
<1>3. PICK grown \in Histories : grown = GrownBy(led, q) /\ LogTurn(led, grown, r, q)
    BY <1>1, <1>2, CoreLogTurn
<1>4. /\ KeepsVote(r, q) /\ Candidacy(v, r, q, W) /\ Leadership(v, r, q, W)
      /\ Votes(v, r, q, asking) /\ (KeepsLog(r, q) \/ Wins(v, r, q))
    BY <1>1 DEF VoteStep, CoreTurn
<1>5. /\ r.epoch \in Nat /\ q.epoch \in Nat /\ q.epoch >= r.epoch
      /\ r.log \in Seq(Nat) /\ q.log \in Seq(Nat) /\ r.hwm \in Nat /\ q.hwm \in Nat
    BY <1>4, ReplicaFields DEF KeepsVote
<1>6. /\ q.role.name \in {"Candidate", "Leader"} =>
            \/ q.epoch > r.epoch
            \/ q.epoch = r.epoch /\ r.role.name \in {q.role.name, "Candidate"}
    BY <1>4 DEF Candidacy, Leadership
<1>7. /\ Grows(led, grown)
      /\ q.role.name = "Leader" => /\ grown[q.epoch] = q.log /\ q.log # <<>>
                                   /\ q.log[Len(q.log)] = q.epoch
    BY <1>3 DEF LogTurn
<1>8. KeepsLog(r, q) /\ q.role.name = "Leader" =>
            /\ q.role = r.role /\ q.epoch = r.epoch /\ r.role.name = "Leader"
    BY DEF KeepsLog
<1>9. Wins(v, r, q) => /\ q.role.name = "Leader" /\ q.log = Append(r.log, q.epoch)
                       /\ led[q.epoch] = <<>>
    BY <1>1, <1>2, WonUnled DEF Wins, Leader
<1>10. q.log = r.log \/ (q.role.name = "Leader" /\ q.log = Append(r.log, q.epoch))
    BY <1>4, <1>9 DEF KeepsLog
<1>11. PastTurn(led, r, q, step.send)
    BY <1>5, <1>6, <1>10, AppendPast
<1>12. GrowsInEpoch(led, grown)
    <2>1. q.role.name = "Leader" => led[q.epoch] = q.log \/ led[q.epoch] = <<>>
        <3>1. CASE Wins(v, r, q)
            BY <1>9, <3>1
        <3>2. CASE KeepsLog(r, q) /\ q.role.name = "Leader"
            <4>1. r.log = led[r.epoch]
                BY <1>1, <1>2, <1>8, <3>2, LeaderLed
            <4> QED
                BY <1>8, <3>2, <4>1 DEF KeepsLog
        <3> QED
            BY <1>4, <3>1, <3>2
    <2> QED
        BY <1>3, <2>1, GrownInEpoch
<1>13. Polls(v, r, q)
    <2>1. ASSUME <<q.epoch, q.votedKey>> \in asking
          PROVE  \E m \in net : AsksRightly(m, r.log) /\ q.epoch = m.epoch /\ q.votedKey = m.from
        <3>1. PICK m \in net : AsksRightly(m, r.log) /\ <<q.epoch, q.votedKey>> = <<m.epoch, m.from>>
            BY <1>1, <2>1
        <3> QED
            BY <3>1
    <2>2. q.votedKey # Nil =>
            \/ q.epoch = r.epoch /\ q.votedKey = r.votedKey
            \/ q.epoch > r.epoch /\ q.votedKey = v
            \/ \E m \in net : AsksRightly(m, r.log) /\ q.epoch = m.epoch /\ q.votedKey = m.from
        BY <1>4, <2>1 DEF Votes
    <2>3. q.role.name = "Leader" => (q.epoch = r.epoch /\ r.role.name = "Leader") \/ Wins(v, r, q)
        BY <1>4, <1>8
    <2> QED
        BY <1>4, <2>2, <2>3 DEF Polls
<1>14. Counts(led, seen, v, q)
    <2>1. CASE KeepsLog(r, q) /\ q.role.name = "Leader"
        BY <1>1, <1>2, <1>8, <2>1, StillCounts DEF KeepsLog
    <2>2. CASE Wins(v, r, q)
        <3>1. q.role.replicas = [w \in Voters |-> 0] /\ q.role.epochStart = Len(r.log)
            BY <2>2 DEF Wins, Leader
        <3>2. ASSUME NEW w \in Voters \ {v}
              PROVE  AckHeld(led, seen, replica[w], <<q.epoch, w, q.role.replicas[w]>>)
            <4>1. q.role.replicas[w] = 0
                BY <3>1
            <4>2. PICK S \in Seq(Nat) : S = led[q.epoch]
                BY <1>5 DEF Histories
            <4>3. 0 <= Len(S)
                OBVIOUS
            <4> QED
                BY <4>1, <4>2, <4>3 DEF AckHeld
        <3>3. \A k \in 1 .. Len(q.log) : k > q.role.epochStart => q.log[k] = q.epoch
            BY <1>5, <1>9, <2>2, <3>1
        <3> QED
            BY <3>2, <3>3 DEF Counts
    <2> QED
        BY <1>4, <2>1, <2>2 DEF Counts
<1>15. HasCommitted(grown, AckedBy(acked, v, q), q)
    <2>1. CASE q.hwm <= r.hwm
        <3>1. q.hwm \in 0 .. Len(r.log)
            BY <1>2, <1>5, <2>1 DEF HasCommitted
        <3>2. SameBelow(q.log, r.log, q.hwm)
            BY <1>5, <1>10, <3>1, AppendKeeps
        <3> QED
            BY <1>2, <1>5, <1>7, <2>1, <3>2, KeepsCommitted
    <2>2. CASE Wins(v, r, q) /\ majority = 1 /\ q.hwm = Len(q.log)
        <3>1. Committed(grown, AckedBy(acked, v, q), Len(q.log), q.log, q.epoch)
            BY <1>7, <1>9, <2>2, LoneCommits
        <3> QED
            BY <1>5, <2>2, <3>1 DEF HasCommitted
    <2>3. q.hwm <= r.hwm \/ (Wins(v, r, q) /\ majority = 1 /\ q.hwm = Len(q.log))
        BY <1>4, <1>5 DEF KeepsLog, Wins
    <2> QED
        BY <2>1, <2>2, <2>3
<1> QED
    BY <1>1, <1>3, <1>11, <1>12, <1>13, <1>14, <1>15 DEF GoesOn

LEMMA SubmitGoesOn ==
    ASSUME TypeOK, VoteInv,
           NEW led \in Histories, NEW acked \in SUBSET Acks, NEW seen \in SUBSET Sightings,
           CommitPast(led, acked, seen), NEW v \in Voters, NEW q \in Replica,
           SameButLog(replica[v], q), q.role.name = "Leader",
           q.log = Append(replica[v].log, q.epoch),
           q.hwm = replica[v].hwm \/ (majority = 1 /\ q.hwm = Len(q.log))
    PROVE  GoesOn(led, acked, seen, v, replica[v], q, {})
<1>1. PICK r \in Replica : r = replica[v]
    BY DEF TypeOK
<1>2. /\ LogPast(led) /\ AcksPast(led, acked, seen) /\ HasCommitted(led, acked, r)
    BY <1>1 DEF CommitPast, WatermarksPast
<1>3. PICK grown \in Histories : grown = GrownBy(led, q) /\ LogTurn(led, grown, r, q)
    BY <1>1, <1>2, SubmitLogTurn
<1>4. /\ q.epoch = r.epoch /\ q.votedKey = r.votedKey /\ q.role = r.role
      /\ r.role.name = "Leader" /\ q.log = Append(r.log, q.epoch)
    BY <1>1 DEF SameButLog
<1>5. /\ q.epoch \in Nat /\ q.epoch >= r.epoch
      /\ r.log \in Seq(Nat) /\ q.log \in Seq(Nat) /\ r.hwm \in Nat /\ q.hwm \in Nat
    <2>1. q.epoch \in Nat /\ r.log \in Seq(Nat) /\ r.hwm \in Nat /\ q.hwm \in Nat
        BY ReplicaFields
    <2>2. q.epoch >= r.epoch
        BY <1>4, <2>1
    <2>3. q.log \in Seq(Nat)
        BY <1>4, <2>1, SameAppend
    <2> QED
        BY <2>1, <2>2, <2>3
<1>6. PastTurn(led, r, q, {})
    BY <1>4, <1>5, AppendPast
<1>7. GrowsInEpoch(led, grown)
    <2>1. r.log = led[r.epoch]
        BY <1>1, <1>2, <1>4, LeaderLed
    <2> QED
        BY <1>3, <1>4, <2>1, GrownInEpoch
<1>8. Polls(v, r, q)
    BY <1>4, <1>5 DEF Polls, KeepsVote
<1>9. Counts(led, seen, v, q)
    BY <1>1, <1>2, <1>4, StillCounts
<1>10. HasCommitted(grown, AckedBy(acked, v, q), q)
    <2>1. /\ Grows(led, grown) /\ grown[q.epoch] = q.log /\ q.log # <<>>
          /\ q.log[Len(q.log)] = q.epoch
        BY <1>3 DEF LogTurn
    <2>2. CASE q.hwm = r.hwm
        <3>1. q.hwm \in 0 .. Len(r.log)
            BY <1>2, <1>5, <2>2 DEF HasCommitted
        <3>2. SameBelow(q.log, r.log, q.hwm)
            BY <1>4, <1>5, <3>1, AppendKeeps
        <3>3. q.hwm <= r.hwm
            BY <1>5, <2>2
        <3> QED
            BY <1>2, <1>5, <2>1, <3>2, <3>3, KeepsCommitted
    <2>3. CASE majority = 1 /\ q.hwm = Len(q.log)
        <3>1. Committed(grown, AckedBy(acked, v, q), Len(q.log), q.log, q.epoch)
            BY <2>1, <2>3, LoneCommits
        <3> QED
            BY <1>5, <2>3, <3>1 DEF HasCommitted
    <2> QED
        BY <1>1, <2>2, <2>3
<1> QED
    BY <1>1, <1>3, <1>6, <1>7, <1>8, <1>9, <1>10 DEF GoesOn

\* A Fetch that does not diverge acknowledges what its sender holds.
LEMMA ServedHeld ==
    ASSUME TypeOK, VoteInv,
           NEW led \in Histories, NEW acked \in SUBSET Acks, NEW seen \in SUBSET Sightings,
           CommitPast(led, acked, seen), NEW m \in net, ServeFetch(m),
           NEW w \in Voters, w = m.from, NEW e \in Nat, e = m.epoch, NEW o \in Nat, o = m.fetchOffset
    PROVE  AckHeld(led, seen, replica[w], <<e, w, o>>)
<1>1. PICK l \in Voters, r \in Replica, fe \in Nat :
            /\ l = m.to /\ r = replica[l] /\ r.role.name = "Leader" /\ fe = m.fetchEpoch
            /\ e = r.epoch /\ fe <= e /\ m.type = "Fetch" /\ ~Diverges(r.log, fe, o)
    BY ServableFetch DEF ServeFetch
<1>2. LogPast(led) /\ LedInOrder(led) /\ AcksPast(led, acked, seen)
    BY DEF CommitPast, LogPast
<1>3. PICK T \in Seq(Nat), S \in Seq(Nat) : T = led[e] /\ S = led[fe] /\ T = r.log
    <2>1. r.log = led[e]
        BY <1>1, <1>2, LeaderLed
    <2> QED
        BY <2>1 DEF Histories
<1>4. Ordered(T, e) /\ Ordered(S, fe) /\ Sourced(led, T)
    BY <1>2, <1>3 DEF LedInOrder, Histories
<1>5. CASE o = 0
    <2>1. 0 <= Len(T)
        OBVIOUS
    <2> QED
        BY <1>3, <1>5, <2>1 DEF AckHeld
<1>6. CASE o # 0
    <2>1. PICK p \in 1 .. Len(T) : p >= o /\ T[p] = fe
        <3>1. o > 0 /\ ~Diverges(T, fe, o)
            BY <1>1, <1>3, <1>6
        <3> QED
            BY <1>4, <3>1, NotDiverging
    <2>2. p \in Nat /\ p <= Len(T) /\ o <= Len(T)
        BY <2>1
    <2>3. SameBelow(T, S, p)
        BY <1>3, <1>4, <2>1 DEF Sourced
    <2>4. Ordered(S, e)
        <3>1. \A k \in 1 .. Len(S) : S[k] \in Nat
            OBVIOUS
        <3> QED
            BY SMTT(40), <1>1, <1>4, <3>1 DEF Ordered
    <2>5. ASSUME NEW k \in 1 .. o PROVE Holds(led, seen, w, replica[w], T, e, k)
        <3>1. k \in Nat /\ k <= p
            BY <2>1, <2>2
        <3>2. SameBelow(T, S, k)
            BY <2>2, <2>3, <3>1, SameLess
        <3>3. SameBelow(S, T, k)
            BY <3>1, <3>2, SameSym
        <3>4. Holds(led, seen, w, replica[w], S, e, k)
            BY <1>1, <1>2, <1>3, <2>5 DEF AcksPast, FetchHeld
        <3>5. PICK t \in Replica : t = replica[w] /\ t.epoch \in Nat /\ t.epoch >= t.epoch
            BY SMTT(30), ReplicaFields DEF TypeOK
        <3>6. KeepsHeld(led, t, t, S, e, k) /\ Witnesses(led, seen, seen, w, t, t)
            BY DEF KeepsHeld, Witnesses
        <3>7. GrowsInEpoch(led, led)
            BY GrowsSelf
        <3>8. Holds(led, seen, w, t, S, e, k)
            BY <3>4, <3>5
        <3>9. k \in Nat /\ t.epoch >= t.epoch
            BY <3>1, <3>5
        <3>10. Holds(led, seen, w, t, T, e, k)
            BY <2>4, <3>3, <3>6, <3>7, <3>8, <3>9, HoldsStays
        <3> QED
            BY <3>5, <3>10
    <2> QED
        BY <1>3, <2>2, <2>5 DEF AckHeld
<1> QED
    BY <1>5, <1>6

\* A leader that answers a Fetch keeps its log; what it counts, and the high
\* watermark, may have moved.
LEMMA ServeGoesOn ==
    ASSUME TypeOK, VoteInv,
           NEW led \in Histories, NEW acked \in SUBSET Acks, NEW seen \in SUBSET Sightings,
           CommitPast(led, acked, seen), NEW l \in Voters, NEW r \in Replica, r = replica[l],
           r.role.name = "Leader", NEW q \in Replica, q.role.name = "Leader",
           q.epoch = r.epoch, q.log = r.log, q.votedKey = r.votedKey, NEW send,
           Counts(led, seen, l, q),
           \/ q.hwm = r.hwm
           \/ /\ q.hwm \in MajorityOffsets(l, q.role.replicas, Len(q.log))
              /\ q.hwm > q.role.epochStart
    PROVE  GoesOn(led, acked, seen, l, r, q, send)
<1>1. LogPast(led) /\ HasCommitted(led, acked, r)
    BY DEF CommitPast, WatermarksPast
<1>2. PICK grown \in Histories : grown = GrownBy(led, q) /\ LogTurn(led, grown, r, q)
    BY <1>1, ServeLogTurn
<1>3. r.log = led[r.epoch]
    BY <1>1, LeaderLed
<1>4. /\ q.epoch \in Nat /\ q.epoch >= r.epoch /\ r.log \in Seq(Nat) /\ q.log \in Seq(Nat)
      /\ q.hwm \in Nat /\ r.hwm \in Nat /\ q.role.epochStart \in Nat
    BY ReplicaFields, RoleFields
<1>5. PastTurn(led, r, q, send)
    BY <1>4, AppendPast
<1>6. GrowsInEpoch(led, grown)
    BY <1>2, <1>3, GrownInEpoch
<1>7. Polls(l, r, q)
    BY <1>4 DEF Polls, KeepsVote
<1>8. HasCommitted(grown, AckedBy(acked, l, q), q)
    <2>1. Grows(led, grown) /\ grown[q.epoch] = q.log
        BY <1>2 DEF LogTurn
    <2>2. CASE q.hwm = r.hwm
        <3>1. q.hwm \in 0 .. Len(r.log) /\ q.hwm <= r.hwm
            BY <1>1, <1>4, <2>2 DEF HasCommitted
        <3>2. SameBelow(q.log, r.log, q.hwm)
            BY <1>4, <3>1, SameSelf
        <3> QED
            BY <1>1, <1>4, <2>1, <3>1, <3>2, KeepsCommitted
    <2>3. CASE /\ q.hwm \in MajorityOffsets(l, q.role.replicas, Len(q.log))
               /\ q.hwm > q.role.epochStart
        <3>1. /\ q.hwm <= Len(q.log)
              /\ HasQuorum({l} \cup {v \in other_voters(l) : q.role.replicas[v] >= q.hwm})
            BY <2>3 DEF MajorityOffsets
        <3>2. q.hwm \in 1 .. Len(q.log)
            BY <1>4, <2>3, <3>1
        <3>3. q.log[q.hwm] = q.epoch
            BY <2>3, <3>2 DEF Counts
        <3> QED
            BY <2>1, <3>1, <3>2, <3>3, MajorityCommits DEF HasCommitted
    <2> QED
        BY <2>2, <2>3
<1> QED
    BY <1>2, <1>5, <1>6, <1>7, <1>8 DEF GoesOn

\* What the answer to a Fetch says of its receiver.
LEMMA AnswerCurrent ==
    ASSUME TypeOK, TypeOK', NEW led \in Histories, NEW grown \in Histories, LogsSourced(led),
           ExchangesPast(led), NEW m \in net, m.type = "Fetch",
           NEW l \in Voters, l = m.to, NEW q \in Replica, replica' = [replica EXCEPT ![l] = q],
           q.epoch = m.epoch, grown[q.epoch] = q.log, q.log # <<>>, Ordered(q.log, q.epoch),
           NEW a, ServesFetch(q, m, a),
           a.diverging = Nil \/ a.diverging = end_offset_for_epoch(q.log, m.fetchEpoch)
    PROVE  AnswerIsCurrent(grown, replica'[a.to], a)
<1>1. PICK w \in Voters, t \in Replica : w = m.from /\ t = replica[w]
    BY MessageFields DEF TypeOK
<1>2. FetchIsCurrent(led, t, m)
    BY <1>1 DEF ExchangesPast
<1>3. a.from = l /\ a.to = w /\ a.epoch = q.epoch /\ w # l /\ Bystander(t, a.epoch)
    BY <1>1, <1>2 DEF ServesFetch, FetchIsCurrent
<1>4. replica'[a.to] = t
    BY <1>1, <1>3 DEF TypeOK
<1>5. ASSUME a.diverging # Nil, t.epoch = a.epoch, NEW k \in 1 .. Len(t.log),
             SameBelow(t.log, grown[a.epoch], k)
      PROVE  k <= follower_truncation_offset(a.diverging, t.log)
    <2>1. m.fetchEpoch = last_epoch(t.log) /\ a.diverging = end_offset_for_epoch(q.log, m.fetchEpoch)
        BY <1>2, <1>3, <1>5 DEF FetchIsCurrent
    <2>2. Ordered(t.log, t.epoch) /\ SameBelow(t.log, q.log, k)
        BY <1>1, <1>3, <1>5 DEF LogsSourced
    <2>3. /\ t.log \in Seq(Nat) /\ q.log \in Seq(Nat) /\ t.epoch \in Nat /\ q.epoch \in Nat
        BY ReplicaFields
    <2> QED
        BY <2>1, <2>2, <2>3, HintKeeps
<1> QED
    BY <1>3, <1>4, <1>5 DEF AnswerIsCurrent

\* A follower that appends keeps what it has.
LEMMA AppendedBegins ==
    ASSUME NEW log \in Seq(Nat), NEW base \in Nat, NEW records \in Seq(Nat)
    PROVE  Begins(log, append_fetched(log, base, records))
<1> DEFINE held == Len(log) - base
           n == Len(records)
           tail == SubSeq(records, held + 1, n)
<1>1. CASE base <= Len(log) /\ held < n
    <2>1. held \in Nat /\ n \in Nat /\ Len(log) \in Nat
        BY <1>1
    <2>2. \A i \in held + 1 .. n : records[i] \in Nat
        BY <2>1
    <2>3. tail \in Seq(Nat)
        <3>1. held + 1 \in Int /\ n \in Int
            BY <2>1
        <3> QED
            BY <2>2, <3>1, SubSeqProperties
    <2> HIDE DEF tail
    <2>4. append_fetched(log, base, records) = log \o tail
        BY <1>1 DEF append_fetched, tail
    <2>5. /\ Len(log) <= Len(log \o tail)
          /\ \A k \in 1 .. Len(log) : (log \o tail)[k] = log[k]
        BY <2>1, <2>3
    <2>6. \A k \in 1 .. Len(log) : k <= Len(log) /\ k <= Len(log \o tail)
        BY <2>1, <2>3
    <2> QED
        BY <2>4, <2>5, <2>6 DEF Begins, SameBelow
<1>2. CASE ~(base <= Len(log) /\ held < n)
    <2>1. Len(log) \in 0 .. Len(log)
        OBVIOUS
    <2> QED
        BY <1>2, <2>1, SameSelf DEF append_fetched, Begins
<1> QED
    BY <1>1, <1>2

\* A cut at a hint keeps what the follower shares with the leader.
LEMMA CutGoesOn ==
    ASSUME NEW led \in Histories, NEW acked, NEW v, NEW r \in Replica, NEW q \in Replica, NEW m,
           m.epoch = r.epoch, m.diverging # Nil, AnswerIsCurrent(led, r, m),
           HasCommitted(led, acked, r), NEW cut \in 0 .. Len(r.log),
           cut = follower_truncation_offset(m.diverging, r.log),
           q.epoch = r.epoch, q.log = Prefix(r.log, cut),
           q.hwm = truncation_frontier(r.hwm, Len(q.log))
    PROVE  KeepsShared(led, r, q) /\ HasCommitted(led, AckedBy(acked, v, q), q)
<1>1. /\ r.log \in Seq(Nat) /\ q.log \in Seq(Nat) /\ r.hwm \in Nat /\ q.hwm \in Nat
      /\ q.epoch >= r.epoch
    BY ReplicaFields
<1>2. Len(q.log) = cut /\ \A k \in 1 .. cut : q.log[k] = r.log[k]
    BY <1>1, PrefixType
<1>3. ASSUME NEW k \in 0 .. cut PROVE SameBelow(r.log, q.log, k) /\ SameBelow(q.log, r.log, k)
    BY SMTT(40), <1>1, <1>2 DEF SameBelow
<1>4. KeepsShared(led, r, q)
    <2>1. SUFFICES ASSUME NEW k \in 1 .. Len(r.log), SameBelow(r.log, led[r.epoch], k)
                   PROVE  SameBelow(r.log, q.log, k)
        BY DEF KeepsShared, AnswerIsCurrent
    <2>2. k <= cut /\ k \in Nat
        BY <2>1 DEF AnswerIsCurrent
    <2>3. k \in 0 .. cut
        BY <2>2
    <2> QED
        BY <1>3, <2>3
<1>5. q.hwm <= r.hwm /\ q.hwm \in 0 .. cut
    BY <1>1, <1>2 DEF truncation_frontier
<1>6. SameBelow(q.log, r.log, q.hwm)
    BY <1>3, <1>5
<1> QED
    BY <1>1, <1>4, <1>5, <1>6, GrowsSelf, KeepsCommitted

\* What a follower appends keeps its log, and commits what its leader has.
LEMMA AppendGoesOn ==
    ASSUME NEW led \in Histories, NEW acked, NEW v, NEW r \in Replica, NEW q \in Replica, NEW m,
           m.epoch = r.epoch, m.base \in Nat, m.records \in Seq(Nat), FitsAnswer(led, r, m),
           TellsCommitted(led, acked, m), HasCommitted(led, acked, r),
           q.epoch = r.epoch, q.log = append_fetched(r.log, m.base, m.records),
           q.hwm = advance_high_watermark(r.hwm, m.hwm, Len(q.log))
    PROVE  KeepsShared(led, r, q) /\ HasCommitted(led, AckedBy(acked, v, q), q)
<1>1. /\ r.log \in Seq(Nat) /\ q.log \in Seq(Nat) /\ r.hwm \in Nat /\ q.hwm \in Nat
      /\ q.epoch >= r.epoch /\ r.epoch \in Nat /\ q.epoch \in Nat
    BY ReplicaFields
<1>2. PICK base \in Nat, records \in Seq(Nat), log \in Seq(Nat), lead \in Seq(Nat), h \in Nat :
            /\ base = m.base /\ records = m.records /\ log = r.log /\ lead = led[r.epoch]
            /\ h = m.hwm /\ q.log = append_fetched(log, base, records)
    BY <1>1 DEF Histories, TellsCommitted
<1>3. Begins(log, q.log)
    BY <1>2, AppendedBegins
<1>4. Begins(q.log, lead)
    <2>1. /\ Begins(log, lead)
          /\ \A k \in 1 .. Len(records) : base + k <= Len(lead) /\ records[k] = lead[base + k]
        BY <1>2 DEF FitsAnswer
    <2>2. Begins(append_fetched(log, base, records), lead)
        BY <2>1, AppendBegins
    <2> QED
        BY <1>2, <2>2
<1>5. Len(log) \in Nat /\ Len(q.log) \in Nat /\ Len(log) <= Len(q.log)
    BY <1>1, <1>3, SameInside DEF Begins
<1>6. ASSUME NEW k \in 0 .. Len(log) PROVE SameBelow(log, q.log, k)
    BY <1>3, <1>5, <1>6, SameLess DEF Begins
<1>7. KeepsShared(led, r, q)
    BY <1>2, <1>5, <1>6 DEF KeepsShared
<1>8. HasCommitted(led, AckedBy(acked, v, q), q)
    <2>1. CASE q.hwm = r.hwm
        <3>1. q.hwm \in 0 .. Len(log) /\ q.hwm <= r.hwm
            BY <1>1, <1>2, <1>5, <2>1 DEF HasCommitted
        <3>2. SameBelow(q.log, r.log, q.hwm)
            BY <1>1, <1>2, <1>6, <3>1, SameSym
        <3> QED
            BY <1>1, <3>1, <3>2, GrowsSelf, KeepsCommitted
    <2>2. CASE q.hwm <= h /\ q.hwm <= Len(q.log)
        <3>1. Committed(led, acked, h, lead, q.epoch)
            BY <1>2 DEF TellsCommitted
        <3>2. SameBelow(q.log, lead, q.hwm)
            BY <1>1, <1>4, <1>5, <2>2, SameLess DEF Begins
        <3>3. acked \subseteq AckedBy(acked, v, q) /\ q.epoch <= q.epoch /\ Grows(led, led)
            BY <1>1, GrowsSelf DEF AckedBy
        <3>4. PICK counted : counted = AckedBy(acked, v, q)
            OBVIOUS
        <3>5. Committed(led, counted, q.hwm, q.log, q.epoch)
            BY <1>1, <2>2, <3>1, <3>2, <3>3, <3>4, CommittedStays
        <3> QED
            BY <2>2, <3>4, <3>5 DEF HasCommitted
    <2>3. q.hwm = r.hwm \/ (q.hwm <= h /\ q.hwm <= Len(q.log))
        BY <1>1, <1>2, <1>5 DEF advance_high_watermark
    <2> QED
        BY <2>1, <2>2, <2>3
<1> QED
    BY <1>7, <1>8

LEMMA ApplyGoesOn ==
    ASSUME TypeOK, NEW led \in Histories, NEW acked, NEW seen, CommitPast(led, acked, seen),
           NEW m \in net, NEW l \in Voters, l = m.to, NEW w \in Voters, w = m.from,
           NEW r \in Replica, r = replica[l], NEW q \in Replica,
           r.role.name = "Follower", m.epoch = r.epoch, IsServed(m),
           q.epoch = r.epoch, q.votedKey = r.votedKey, q.role.name = "Follower",
           NEW cut, cut = follower_truncation_offset(m.diverging, r.log),
           \/ /\ m.diverging # Nil /\ cut \in 0 .. Len(r.log)
              /\ q.log = Prefix(r.log, cut)
              /\ q.hwm = truncation_frontier(r.hwm, Len(q.log))
           \/ /\ m.diverging = Nil
              /\ q.log = append_fetched(r.log, m.base, m.records)
              /\ q.hwm = advance_high_watermark(r.hwm, m.hwm, Len(q.log))
    PROVE  GoesOn(led, acked, seen, l, r, q, send_fetch(l, w, q))
<1>1. m.base \in Nat /\ m.records \in Seq(Nat)
    BY MessageFields DEF TypeOK, IsServed
<1>2. /\ LedInOrder(led) /\ Sourced(led, r.log) /\ Ordered(r.log, r.epoch)
      /\ HasCommitted(led, acked, r) /\ AnswerIsCurrent(led, r, m)
      /\ m.diverging = Nil => FitsAnswer(led, r, m) /\ TellsCommitted(led, acked, m)
    BY DEF CommitPast, LogPast, LogsSourced, AnswersFit, WatermarksPast, ExchangesPast
<1>3. GrownBy(led, q) = led /\ LogTurn(led, led, r, q)
    <2>1. \/ \E c \in 0 .. Len(r.log) : q.log = Prefix(r.log, c)
          \/ FitsAnswer(led, r, m) /\ q.log = append_fetched(r.log, m.base, m.records)
        BY <1>2
    <2> QED
        BY <1>1, <1>2, <2>1, ApplyLogTurn
<1>4. KeepsShared(led, r, q) /\ HasCommitted(led, AckedBy(acked, l, q), q)
    <2>1. CASE m.diverging # Nil
        BY <1>2, <2>1, CutGoesOn
    <2>2. CASE m.diverging = Nil
        BY <1>1, <1>2, <2>2, AppendGoesOn
    <2> QED
        BY <2>1, <2>2
<1>5. Refetches(send_fetch(l, w, q))
    BY <1>2 DEF AnswerIsCurrent, Refetches, send_fetch
<1>6. q.epoch >= r.epoch
    BY ReplicaFields
<1>7. PastTurn(led, r, q, send_fetch(l, w, q))
    BY <1>4, <1>5, <1>6 DEF PastTurn
<1>8. Polls(l, r, q) /\ Counts(led, seen, l, q)
    BY <1>6 DEF Polls, KeepsVote, Counts
<1>9. GrowsInEpoch(led, led)
    BY GrowsSelf
<1> QED
    BY <1>3, <1>4, <1>7, <1>8, <1>9 DEF GoesOn

(***************************************************************************)
(* Every step goes on with some history.                                   *)
(***************************************************************************)

\* The network at most forgets.
LEMMA QuietCommit ==
    ASSUME TypeOK, NEW led \in Histories, NEW acked \in SUBSET Acks, NEW seen \in SUBSET Sightings,
           CommitPast(led, acked, seen), QuietStep
    PROVE  KeepsPast(led, acked)
<1>1. LogPast(led)'
    BY DEF CommitPast, QuietStep, LogPast, LedWasElected, LedInOrder, LogsSourced, LeadersHold,
        ElectionsOver, FetchesFit, AnswersFit, IsLeader
<1>2. ExchangesPast(led)'
    BY DEF CommitPast, QuietStep, ExchangesPast
<1>3. VotesPast(led, seen)'
    BY DEF CommitPast, QuietStep, VotesPast
<1>4. AcksPast(led, acked, seen)'
    BY DEF CommitPast, QuietStep, AcksPast, IsLeader
<1>5. WatermarksPast(led, acked)'
    BY DEF CommitPast, QuietStep, WatermarksPast
<1>6. Grows(led, led) /\ acked \subseteq acked /\ CommitPast(led, acked, seen)'
    BY <1>1, <1>2, <1>3, <1>4, <1>5, GrowsSelf DEF CommitPast
<1>7. ASSUME NEW w \in Voters PROVE KeepsShared(led, replica[w], replica'[w])
    <2>1. replica[w].log \in Seq(Nat) /\ replica'[w] = replica[w]
        BY ReplicaFields DEF TypeOK, QuietStep
    <2>2. \A k \in 1 .. Len(replica[w].log) : SameBelow(replica[w].log, replica[w].log, k)
        BY <2>1, SameSelf
    <2> QED
        BY <2>1, <2>2 DEF KeepsShared
<1> QED
    BY <1>6, <1>7 DEF KeepsPast

\* A leader answers one Fetch.
LEMMA AnswerCommit ==
    ASSUME ~FetchesOverlap, TypeOK, TypeOK', VoteInv, VoteInv', ElectionSafety',
           NEW led \in Histories, NEW acked \in SUBSET Acks, NEW seen \in SUBSET Sightings,
           CommitPast(led, acked, seen), NEW m \in net, m.type = "Fetch",
           NEW l \in Voters, l = m.to, NEW r \in Replica, r = replica[l],
           r.role.name = "Leader", m.epoch = r.epoch, NEW q, q.role.name = "Leader",
           NEW gone, NEW a, EndTurn(l, gone, Step(q, {a})), ServesFetch(q, m, a),
           q.epoch = r.epoch, q.log = r.log, q.votedKey = r.votedKey,
           Counts(led, seen, l, q),
           \/ q.hwm = r.hwm
           \/ /\ q.hwm \in MajorityOffsets(l, q.role.replicas, Len(q.log))
              /\ q.hwm > q.role.epochStart,
           a.diverging = Nil \/ a.diverging = end_offset_for_epoch(q.log, m.fetchEpoch),
           a.diverging = Nil => /\ FitsAnswer(GrownBy(led, q), replica'[a.to], a)
                                /\ a.hwm = q.hwm
    PROVE  KeepsPast(led, acked)
<1> DEFINE s == Step(q, {a})
<1>1. s.replica = q /\ s.send = {a} /\ EndTurn(l, gone, s)
    BY DEF Step
<1> HIDE DEF s
<1>2. q \in Replica /\ replica' = [replica EXCEPT ![l] = q]
    BY ZenonT(60), <1>1 DEF EndTurn, TypeOK
<1>3. LogPast(led) /\ ExchangesPast(led) /\ LogsSourced(led)
    BY DEF CommitPast, LogPast
<1>4. GoesOn(led, acked, seen, l, r, q, {a})
    BY <1>2, ServeGoesOn
<1>5. PICK grown \in Histories : grown = GrownBy(led, q) /\ LogTurn(led, grown, r, q)
    BY <1>4 DEF GoesOn
<1>6. grown[q.epoch] = q.log /\ q.log # <<>> /\ Ordered(q.log, q.epoch)
    BY <1>5 DEF LogTurn
<1>7. AnswerIsCurrent(grown, replica'[a.to], a)
    BY <1>2, <1>3, <1>6, AnswerCurrent
<1>8. a.type = "FetchAnswer" /\ a.epoch = q.epoch
    BY DEF ServesFetch
<1>9. Requests(l, r, q, a) /\ Answers(led, q, a)
    BY <1>5, <1>7, <1>8 DEF Requests, Answers
<1> QED
    BY <1>1, <1>4, <1>9, CommitTurn

\* Every step goes on with some history, and cuts no log where it agrees with
\* the log of its epoch's leader.
LEMMA NextCommit ==
    ASSUME ~FetchesOverlap, TypeOK, TypeOK', VoteInv, VoteInv', ElectionSafety', KnownInv,
           NEW led \in Histories, NEW acked \in SUBSET Acks, NEW seen \in SUBSET Sightings,
           CommitPast(led, acked, seen), [Next]_vars
    PROVE  KeepsPast(led, acked)
<1>1. CASE QuietStep
    BY <1>1, QuietCommit
<1>2. ASSUME NEW v \in Voters, CoreAct(v) PROVE KeepsPast(led, acked)
    <2>1. PICK gone, step, W, told, asking :
                /\ EndTurn(v, gone, step) /\ VoteStep(v, replica[v], step, W)
                /\ CoreTurn(v, replica[v], step, told, asking)
                /\ \A x \in asking : \E m \in net :
                        AsksRightly(m, replica[v].log) /\ x = <<m.epoch, m.from>>
        BY <1>2 DEF CoreAct
    <2>2. GoesOn(led, acked, seen, v, replica[v], step.replica, step.send)
        BY <2>1, CoreGoesOn
    <2>3. ASSUME NEW m \in step.send
          PROVE  Requests(v, replica[v], step.replica, m) /\ Answers(led, step.replica, m)
        <3>1. Says(v, replica[v], step.replica, m)
            BY <2>1 DEF CoreTurn
        <3> QED
            BY <3>1 DEF Says, Requests, Answers, FetchSaid, VoteSaid
    <2> QED
        BY <2>1, <2>2, <2>3, CommitTurn
<1>3. ASSUME NEW v \in Voters, Submit(v) PROVE KeepsPast(led, acked)
    <2>1. PICK q : /\ EndTurn(v, {}, Step(q, {})) /\ SameButLog(replica[v], q)
                   /\ q.role.name = "Leader" /\ q.log = Append(replica[v].log, q.epoch)
                   /\ q.hwm = replica[v].hwm \/ (majority = 1 /\ q.hwm = Len(q.log))
        BY <1>3, SubmitTurn
    <2> DEFINE s == Step(q, {})
    <2>2. s.replica = q /\ s.send = {} /\ EndTurn(v, {}, s)
        BY <2>1 DEF Step
    <2> HIDE DEF s
    <2>3. q \in Replica
        BY <2>2 DEF EndTurn, TypeOK
    <2>4. GoesOn(led, acked, seen, v, replica[v], q, {})
        BY <2>1, <2>3, SubmitGoesOn
    <2> QED
        BY <2>2, <2>4, CommitTurn
<1>4. ASSUME NEW m \in net, DivergingFetch(m) PROVE KeepsPast(led, acked)
    <2>1. PICK l \in Voters, r \in Replica :
                /\ l = m.to /\ r = replica[l] /\ r.role.name = "Leader"
                /\ m.epoch = r.epoch /\ m.type = "Fetch"
        BY <1>4, ServableFetch DEF DivergingFetch
    <2>2. PICK gone, a :
                /\ EndTurn(l, gone, Step(r, {a})) /\ ServesFetch(r, m, a)
                /\ a.diverging = end_offset_for_epoch(r.log, m.fetchEpoch)
        BY <1>4, <2>1, DivergingTurn
    <2>3. a.diverging # Nil
        <3>1. r.log \in Seq(Nat) /\ m.fetchEpoch \in Nat
            BY <1>4, <2>1, ReplicaFields, ServableFetch DEF DivergingFetch
        <3> QED
            BY <2>2, <3>1, EndOffsetForEpochInLog, NilAssumption
    <2>4. Counts(led, seen, l, r)
        BY <2>1, StillCounts DEF CommitPast
    <2> QED
        BY <2>1, <2>2, <2>3, <2>4, AnswerCommit
<1>5. ASSUME NEW m \in net, ServeFetch(m) PROVE KeepsPast(led, acked)
    <2>1. PICK l \in Voters, r \in Replica, w \in Voters, o \in Nat :
                /\ l = m.to /\ r = replica[l] /\ r.role.name = "Leader"
                /\ w = m.from /\ o = m.fetchOffset /\ m.epoch = r.epoch /\ m.type = "Fetch"
        BY <1>5, ServableFetch DEF ServeFetch
    <2>2. PICK q, gone, a :
              /\ Records(l, r, w, o, q)
              /\ EndTurn(l, gone, Step(q, {a})) /\ ServesFetch(q, m, a)
              /\ a.diverging = Nil /\ a.hwm = q.hwm /\ Carries(r.log, m.fetchOffset, a)
        BY <1>5, <2>1, ServeTurn, HandleFetchLog
    <2>3. /\ q.epoch = r.epoch /\ q.log = r.log /\ q.role.name = "Leader"
          /\ q.votedKey = r.votedKey /\ q.role.epochStart = r.role.epochStart
          /\ q.role.replicas = [r.role.replicas EXCEPT ![w] = o]
          /\ \/ q.hwm = r.hwm
             \/ /\ q.hwm \in MajorityOffsets(l, q.role.replicas, Len(q.log))
                /\ q.hwm > q.role.epochStart
        BY <2>2 DEF Records
    <2>4. replica' = [replica EXCEPT ![l] = q]
        BY <2>2 DEF EndTurn, Step
    <2>5. q \in Replica
        BY <2>4 DEF TypeOK
    <2>6. FitsAnswer(GrownBy(led, q), replica'[a.to], a)
        BY <1>5, <2>1, <2>2, <2>3, <2>4, <2>5, ServedFits DEF CommitPast
    <2>7. Counts(led, seen, l, q)
        <3>1. Counts(led, seen, l, r)
            BY <2>1, StillCounts DEF CommitPast
        <3>2. PICK e \in Nat : e = m.epoch /\ e = q.epoch
            BY <2>1, <2>3, ReplicaFields
        <3>3. AckHeld(led, seen, replica[w], <<e, w, o>>)
            BY <1>5, <2>1, <3>2, ServedHeld
        <3>4. r.role.replicas \in [Voters -> Nat]
            BY <2>1, ReplicaFields, RoleFields
        <3>5. ASSUME NEW x \in Voters \ {l}
              PROVE  AckHeld(led, seen, replica[x], <<q.epoch, x, q.role.replicas[x]>>)
            <4>1. CASE x = w
                BY <2>3, <3>2, <3>3, <3>4, <4>1
            <4>2. CASE x # w
                BY <2>1, <2>3, <3>1, <3>4, <4>2 DEF Counts
            <4> QED
                BY <4>1, <4>2
        <3>6. \A k \in 1 .. Len(q.log) : k > q.role.epochStart => q.log[k] = q.epoch
            BY <2>1, <2>3, <3>1 DEF Counts
        <3> QED
            BY <3>5, <3>6 DEF Counts
    <2> QED
        BY <2>1, <2>2, <2>3, <2>6, <2>7, AnswerCommit
<1>6. ASSUME NEW m \in net, ApplyFetchAnswer(m) PROVE KeepsPast(led, acked)
    <2>1. PICK l \in Voters, w \in Voters, r \in Replica : l = m.to /\ w = m.from /\ r = replica[l]
        BY MessageFields DEF TypeOK
    <2>2. PICK cut : cut = follower_truncation_offset(m.diverging, r.log)
        OBVIOUS
    <2>3. PICK gone, q :
            /\ EndTurn(l, gone, Step(q, send_fetch(l, w, q)))
            /\ r.role.name = "Follower" /\ m.epoch = r.epoch /\ IsServed(m)
            /\ q.epoch = r.epoch /\ q.votedKey = r.votedKey /\ q.role.name = "Follower"
            /\ \/ /\ m.diverging # Nil /\ cut \in 0 .. Len(r.log)
                  /\ q.log = Prefix(r.log, cut)
                  /\ q.hwm = truncation_frontier(r.hwm, Len(q.log))
               \/ /\ m.diverging = Nil
                  /\ q.log = append_fetched(r.log, m.base, m.records)
                  /\ q.hwm = advance_high_watermark(r.hwm, m.hwm, Len(q.log))
        BY <1>6, <2>1, <2>2, ApplyTurn
    <2> DEFINE s == Step(q, send_fetch(l, w, q))
    <2>4. s.replica = q /\ s.send = send_fetch(l, w, q) /\ EndTurn(l, gone, s)
        BY <2>3 DEF Step
    <2> HIDE DEF s
    <2>5. q \in Replica
        BY <2>4 DEF EndTurn, TypeOK
    <2>6. GoesOn(led, acked, seen, l, r, q, send_fetch(l, w, q))
        BY <2>1, <2>2, <2>3, <2>5, ApplyGoesOn
    <2>7. ASSUME NEW x \in s.send PROVE Requests(l, r, q, x) /\ Answers(led, q, x)
        <3>1. x.type = "Fetch" /\ FetchSaid(l, q, x) /\ x.to # l
            BY <2>4 DEF send_fetch, FetchSaid, end_offset
        <3> QED
            BY <2>3, <3>1 DEF Requests, Answers, IsServed
    <2> QED
        BY <2>1, <2>4, <2>6, <2>7, CommitTurn
<1> QED
    BY <1>1, <1>2, <1>3, <1>4, <1>5, <1>6, StepKinds

\* Before the first election nothing was led, acknowledged or voted.
LEMMA InitCommit ==
    ASSUME Init
    PROVE  CommitInv
<1> DEFINE led == [e \in Nat |-> <<>>]
<1>1. led \in Histories /\ DOMAIN led = Nat /\ \A e \in Nat : led[e] = <<>>
    BY DEF Histories
<1> HIDE DEF led
<1>2. \A v \in Voters : /\ replica[v].log = <<>> /\ replica[v].hwm = 0
                        /\ replica[v].role.name = "Unattached"
    BY DEF Init, BootstrapReplica, Unattached
<1>3. \A e \in Nat : Sourced(led, <<>>) /\ Ordered(<<>>, e)
    BY DEF Sourced, Ordered
<1>4. \A v \in Voters : Ordered(replica[v].log, replica[v].epoch)
    BY DEF Init, BootstrapReplica, Ordered
<1>5. LogPast(led)
    BY <1>1, <1>2, <1>3, <1>4 DEF Init, LogPast, LedWasElected, LedInOrder, LogsSourced,
        LeadersHold, ElectionsOver, FetchesFit, AnswersFit, IsLeader
<1>6. ExchangesPast(led) /\ VotesPast(led, {}) /\ AcksPast(led, {}, {})
    BY <1>2 DEF Init, ExchangesPast, VotesPast, AcksPast, IsLeader
<1>7. WatermarksPast(led, {})
    BY <1>2 DEF Init, WatermarksPast, HasCommitted, Committed
<1>8. CommitPast(led, {}, {})
    BY <1>5, <1>6, <1>7 DEF CommitPast
<1> QED
    BY <1>1, <1>8 DEF CommitInv

\* No turn cuts what its voter has committed: a log is cut only where it
\* differs from the log of its epoch's leader, who has all that is committed.
LEMMA CutsNothing ==
    ASSUME TypeOK, NEW led \in Histories, NEW acked \in SUBSET Acks, NEW seen \in SUBSET Sightings,
           CommitPast(led, acked, seen), KeepsPast(led, acked), NEW v \in Voters
    PROVE  SameBelow(replica[v].log, replica'[v].log, replica[v].hwm)
<1>1. PICK r \in Replica : r = replica[v]
    BY DEF TypeOK
<1>2. PICK h \in Nat, log \in Seq(Nat), e \in Nat : h = r.hwm /\ log = r.log /\ e = r.epoch
    BY ReplicaFields
<1>3. h <= Len(log) /\ Committed(led, acked, h, log, e)
    BY <1>1, <1>2 DEF CommitPast, WatermarksPast, HasCommitted
<1>4. CASE h = 0
    BY <1>1, <1>2, <1>4 DEF SameBelow
<1>5. CASE h # 0
    <2>1. h \in 1 .. Len(log)
        BY <1>3, <1>5
    <2>2. led[e] # <<>> => SameBelow(log, led[e], h)
        BY <1>3, CommittedIsLed, CompleteFollows
    <2>3. KeepsShared(led, r, replica'[v])
        BY <1>1 DEF KeepsPast
    <2>4. SameBelow(log, replica'[v].log, h)
        BY <1>2, <2>1, <2>2, <2>3 DEF KeepsShared
    <2> QED
        BY <1>1, <1>2, <2>4
<1> QED
    BY <1>4, <1>5

\* A step of a quorum whose Fetches do not overlap.
LEMMA NextHistory ==
    ASSUME ~FetchesOverlap, TypeOK, TypeOK', VoteInv, VoteInv', ElectionSafety', KnownInv,
           CommitInv, [Next]_vars
    PROVE  /\ CommitInv'
           /\ \A v \in Voters : SameBelow(replica[v].log, replica'[v].log, replica[v].hwm)
<1>1. PICK led \in Histories, acked \in SUBSET Acks, seen \in SUBSET Sightings :
            CommitPast(led, acked, seen)
    BY DEF CommitInv, Acks, Sightings
<1>2. KeepsPast(led, acked)
    BY <1>1, NextCommit
<1>3. CommitInv'
    BY <1>2 DEF KeepsPast, CommitInv, Acks, Sightings
<1> QED
    BY <1>1, <1>2, <1>3, CutsNothing

(***************************************************************************)
(* The theorems, for every quorum whose Fetches do not overlap.            *)
(***************************************************************************)

\* Some history of logs, acknowledgements and votes explains every state: the
\* inductive invariant behind the four theorems below.
THEOREM CommitInvariant == ASSUME ~FetchesOverlap PROVE Spec => []CommitInv
<1>1. Init => CommitInv
    BY InitCommit
<1>2. /\ TypeOK /\ TypeOK' /\ VoteInv /\ VoteInv' /\ ElectionSafety' /\ KnownInv /\ CommitInv
      /\ [Next]_vars
      => CommitInv'
    BY NextHistory
<1> QED
    BY <1>1, <1>2, TypeCorrect, VotesInvariant, ElectionSafe, KnownInvariant, PTL DEF Spec

\* What one voter has applied as committed, no leader of its epoch or of a
\* later one lacks: a candidate without it wins no majority, whoever crashed,
\* resigned or was cut off between the commit and the election.
THEOREM LeadersComplete == ASSUME ~FetchesOverlap PROVE Spec => []LeaderCompleteness
<1>1. TypeOK /\ CommitInv /\ VoteInv => LeaderCompleteness
    BY LeadersAreComplete
<1> QED
    BY <1>1, TypeCorrect, VotesInvariant, CommitInvariant, PTL

\* Two voters never apply different batches at an offset.
THEOREM CommittedAgreement == ASSUME ~FetchesOverlap PROVE Spec => []CommittedAgree
<1>1. TypeOK /\ CommitInv => CommittedAgree
    BY CommittedAgrees
<1> QED
    BY <1>1, TypeCorrect, CommitInvariant, PTL

\* The offset a leader counts for a voter is one the voter holds, batch for
\* batch, until it leaves that leader's epoch: an acknowledgement is never
\* stale when the high watermark is computed from it.
THEOREM AcknowledgedHolds == ASSUME ~FetchesOverlap PROVE Spec => []AcknowledgedIsHeld
<1>1. TypeOK /\ CommitInv /\ VoteInv => AcknowledgedIsHeld
    BY AcknowledgedHeld
<1> QED
    BY <1>1, TypeCorrect, VotesInvariant, CommitInvariant, PTL

\* No truncation, restart or election removes or changes a batch below a
\* voter's high watermark.
THEOREM CommittedNeverCut == ASSUME ~FetchesOverlap PROVE Spec => CommittedIsNeverCut
<1> DEFINE Keeps == \A v \in Voters : SameBelow(replica[v].log, replica'[v].log, replica[v].hwm)
<1>1. /\ TypeOK /\ TypeOK' /\ VoteInv /\ VoteInv' /\ ElectionSafety' /\ KnownInv /\ CommitInv
      /\ [Next]_vars
      => [Keeps]_vars
    BY NextHistory
<1> QED
    BY <1>1, TypeCorrect, VotesInvariant, ElectionSafe, KnownInvariant, CommitInvariant, PTL
        DEF Spec, CommittedIsNeverCut

=============================================================================
