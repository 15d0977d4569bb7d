------------------------- MODULE TransactionProofs -------------------------
(***************************************************************************)
(* What TransactionCoordinator promises, proved for any brokers,           *)
(* partitions and bounds.                                                  *)
(*                                                                         *)
(* The identity of the producer orders the entries of a transactional id.  *)
(* What a coordinator publishes, sends as a marker, or answers, decides a  *)
(* transaction whose identity is before that of every entry in the log,    *)
(* except of the entries that decide it the same way.  So no entry that    *)
(* the log may still come to decides it again, and a marker that is late   *)
(* finds no transaction of its producer but the one it was sent for.       *)
(***************************************************************************)
EXTENDS TransactionCoordinator, SequenceTheorems, TLAPS

USE MaxEpochAssumption, TxnAssumption

------------------------------------------------------------------------------
(* Entries.                                                                *)

EntryState == {"none", "Empty", "Ongoing"} \cup Prepared \cup Completed

Identity == Int \X Int

Entry ==
    [state : EntryState, id : Identity, last : Int, prev : Int, next : Identity,
     partitions : SUBSET Partitions]

\* What is known of an entry when f is the next producer id.
Formed(e, f) ==
    /\ e \in Entry
    /\ \/ e = NoEntry
       \/ /\ e.state # "none"
          /\ e.id[1] \in 1..(f - 1) /\ e.id[2] \in 0..MaxEpoch
          /\ e.last \in -1..MaxEpoch /\ e.prev \in 0..(f - 1)
          /\ e.state \notin Prepared => e.next = NoId /\ e.id[2] < MaxEpoch
          /\ e.state \in Prepared =>
                 /\ e.last >= 0 /\ e.id[2] = e.last + 1
                 /\ IF e.id[2] = MaxEpoch
                    THEN e.next[2] = 0 /\ e.next[1] \in (e.id[1] + 1)..(f - 1)
                    ELSE e.next = NoId
          /\ e.state \in Completed =>
                 IF e.id[2] = 0
                 THEN e.prev \in 1..(e.id[1] - 1) /\ e.last = MaxEpoch - 1
                 ELSE e.last = e.id[2] - 1

Before(a, b) == a[1] < b[1] \/ (a[1] = b[1] /\ a[2] < b[2])

\* The entry decides a transaction: which one, and how.
Decides(e) == e.state \in Prepared \cup Completed
Txn(e) == IF e.state \in Completed /\ e.id[2] = 0 THEN <<e.prev, e.last>> ELSE TransactionOf(e)
Commits(e) == e.state \in {"PrepareCommit", "CompleteCommit"}

\* The next producer id after a step that may allocate one for id.
Allocated(id, f) == IF next_producer_identity(id, f)[1] = f THEN f + 1 ELSE f

LEMMA FormedLater ==
    ASSUME NEW f \in Nat, NEW g \in Nat, f <= g, NEW e, Formed(e, f)
    PROVE  Formed(e, g)
  BY DEF Formed, Entry, Identity

LEMMA NoEntryFormed == \A f \in Nat : Formed(NoEntry, f)
  BY DEF Formed, Entry, Identity, NoEntry, new_empty, NoId, EntryState

LEMMA NewEmptyFormed ==
    ASSUME NEW f \in Nat \ {0}
    PROVE  /\ Formed(new_empty(<<f, 0>>), f + 1) /\ new_empty(<<f, 0>>).state = "Empty"
  BY DEF Formed, Entry, Identity, new_empty, NoId, EntryState, Prepared, Completed

\* The identity of the client of an entry.
LEMMA ClientIdentity ==
    ASSUME NEW f \in Nat, NEW e, Formed(e, f)
    PROVE  /\ client_producer_identity(e) \in Identity
           /\ e.state \notin Prepared => client_producer_identity(e) = e.id
           /\ e.state # "none" => /\ client_producer_identity(e)[1] \in 1..(f - 1)
                                  /\ client_producer_identity(e)[2] \in 0..(MaxEpoch - 1)
           /\ e.state = "none" => client_producer_identity(e) = NoId
  <1>1. e \in Entry /\ NoId \in Identity
    BY DEF Formed, NoId, Identity
  <1>2. CASE e.state = "none"
    BY <1>2 DEF Formed, client_producer_identity, NoEntry, NoId, new_empty, Identity, Prepared
  <1>3. CASE e.state # "none" /\ e.state \notin Prepared
    <2>1. e.next = NoId /\ e # NoEntry
      BY <1>3 DEF Formed, NoEntry, new_empty
    <2>. QED
      BY <1>1, <1>3, <2>1 DEF Formed, Entry, Identity, client_producer_identity
  <1>4. CASE e.state \in Prepared
    <2>1. e.state # "none" /\ e # NoEntry
      BY <1>4 DEF Prepared, NoEntry, new_empty
    <2>2. e.id \in Identity /\ e.next \in Identity
      BY <1>1 DEF Entry
    <2>. QED
      BY <1>1, <1>4, <2>1, <2>2 DEF Formed, Identity, client_producer_identity, NoId
  <1>. QED
    BY <1>2, <1>3, <1>4

\* An entry that is prepared.
LEMMA PrepareForms ==
    ASSUME NEW f \in Nat, NEW e, Formed(e, f), e.state # "none", e.state \notin Prepared,
           NEW y \in Entry, y.state \in Prepared, y.id = e.id, y.prev = e.prev,
           NEW x, x = prepare_completion_identities(y, f)
    PROVE  /\ Formed(x, Allocated(e.id, f))
           /\ x.state = y.state /\ x.partitions = y.partitions
           /\ TransactionOf(x) = e.id
           /\ Before(e.id, client_producer_identity(x))
  <1>1. PICK i \in Int, k \in Int : e.id = <<i, k>>
    BY DEF Formed, Entry, Identity
  <1>2. /\ i \in 1..(f - 1) /\ k \in 0..(MaxEpoch - 1) /\ e.prev \in 0..(f - 1)
    BY <1>1 DEF Formed, NoEntry, new_empty
  <1>3. next_producer_identity(e.id, f) = IF k >= MaxEpoch - 1 THEN <<f, 0>> ELSE <<i, k + 1>>
    BY <1>1 DEF next_producer_identity
  <1>4. Allocated(e.id, f) = IF k >= MaxEpoch - 1 THEN f + 1 ELSE f
    BY <1>2, <1>3 DEF Allocated
  <1>5. x = [y EXCEPT !.last = k, !.id = <<i, k + 1>>,
                      !.next = IF k >= MaxEpoch - 1 THEN <<f, 0>> ELSE NoId]
    <2>1. x = [y EXCEPT !.last = e.id[2],
                        !.id = <<e.id[1], IF e.id[2] < MaxEpoch THEN e.id[2] + 1 ELSE MaxEpoch>>,
                        !.next = IF next_producer_identity(e.id, f)[1] # e.id[1]
                                 THEN next_producer_identity(e.id, f) ELSE NoId]
      BY DEF prepare_completion_identities
    <2>2. e.id[2] = k /\ e.id[1] = i /\ (IF e.id[2] < MaxEpoch THEN e.id[2] + 1 ELSE MaxEpoch) = k + 1
      BY <1>1, <1>2
    <2>3. (IF next_producer_identity(e.id, f)[1] # e.id[1] THEN next_producer_identity(e.id, f) ELSE NoId)
             = IF k >= MaxEpoch - 1 THEN <<f, 0>> ELSE NoId
      BY <1>1, <1>2, <1>3
    <2>. QED
      BY <2>1, <2>2, <2>3
  <1>6. /\ x \in Entry /\ x.state = y.state /\ x.partitions = y.partitions /\ x.prev = e.prev
        /\ x.last = k /\ x.id = <<i, k + 1>>
        /\ x.next = IF k >= MaxEpoch - 1 THEN <<f, 0>> ELSE NoId
    <2>1. <<i, k + 1>> \in Identity /\ (IF k >= MaxEpoch - 1 THEN <<f, 0>> ELSE NoId) \in Identity
      BY DEF Identity, NoId
    <2>. QED
      BY <1>5, <2>1 DEF Entry
  <1>7. Formed(x, Allocated(e.id, f))
    BY <1>2, <1>4, <1>6 DEF Formed, Prepared, Completed
  <1>8. TransactionOf(x) = e.id
    BY <1>1, <1>6 DEF TransactionOf
  <1>9. Before(e.id, client_producer_identity(x))
    BY <1>1, <1>2, <1>6 DEF Before, client_producer_identity, NoId
  <1>. QED
    BY <1>6, <1>7, <1>8, <1>9

LEMMA ServerAbortForms ==
    ASSUME NEW f \in Nat, NEW e, Formed(e, f), e.state = "Ongoing",
           NEW x, x = prepare_server_abort(e, f)
    PROVE  /\ Formed(x, Allocated(e.id, f))
           /\ x.state = "PrepareAbort" /\ x.partitions = e.partitions
           /\ TransactionOf(x) = e.id
           /\ Before(e.id, client_producer_identity(x))
  <1>1. e \in Entry
    BY DEF Formed
  <1>2. PICK y : y = [e EXCEPT !.state = "PrepareAbort"]
    OBVIOUS
  <1>3. /\ y \in Entry /\ y.state = "PrepareAbort" /\ y.id = e.id /\ y.prev = e.prev
        /\ y.partitions = e.partitions
    BY <1>1, <1>2 DEF Entry, EntryState, Prepared
  <1>4. e.state # "none" /\ e.state \notin Prepared /\ y.state \in Prepared
    BY <1>3 DEF Prepared
  <1>5. x = prepare_completion_identities(y, f)
    BY <1>2 DEF prepare_server_abort
  <1>. QED
    BY <1>3, <1>4, <1>5, PrepareForms

LEMMA TransactionForms ==
    ASSUME NEW f \in Nat, NEW e, Formed(e, f), e.state # "none", e.state \notin Prepared,
           NEW commit \in BOOLEAN, NEW x, x = prepare_transaction(e, commit, f)
    PROVE  /\ Formed(x, Allocated(e.id, f))
           /\ x.state = IF commit THEN "PrepareCommit" ELSE "PrepareAbort"
           /\ e.state = "Ongoing" => x.partitions = e.partitions
           /\ TransactionOf(x) = e.id
           /\ Before(e.id, client_producer_identity(x))
  <1>1. e \in Entry
    BY DEF Formed
  <1>2. PICK y : y = [e EXCEPT !.state = IF commit THEN "PrepareCommit" ELSE "PrepareAbort",
                               !.partitions = IF e.state = "Ongoing" THEN @ ELSE {}]
    OBVIOUS
  <1>3. /\ y \in Entry /\ y.state = (IF commit THEN "PrepareCommit" ELSE "PrepareAbort")
        /\ y.id = e.id /\ y.prev = e.prev
        /\ e.state = "Ongoing" => y.partitions = e.partitions
    BY <1>1, <1>2 DEF Entry, EntryState, Prepared
  <1>4. y.state \in Prepared
    BY <1>3 DEF Prepared
  <1>5. x = prepare_completion_identities(y, f)
    BY <1>2 DEF prepare_transaction
  <1>6. /\ Formed(x, Allocated(e.id, f)) /\ x.state = y.state /\ x.partitions = y.partitions
        /\ TransactionOf(x) = e.id /\ Before(e.id, client_producer_identity(x))
    BY <1>3, <1>4, <1>5, PrepareForms
  <1>. QED
    BY <1>3, <1>6

\* An entry that is bumped.
LEMMA BumpForms ==
    ASSUME NEW f \in Nat, NEW e, Formed(e, f), e.state # "none", e.state \notin Prepared,
           NEW request, NEW x, x = bump_epoch(e, request, f)
    PROVE  /\ Formed(x, Allocated(e.id, f)) /\ x.state = "Empty"
           /\ Before(e.id, client_producer_identity(x))
  <1>1. PICK i \in Int, k \in Int : e.id = <<i, k>>
    BY DEF Formed, Entry, Identity
  <1>2. /\ i \in 1..(f - 1) /\ k \in 0..(MaxEpoch - 1)
    BY <1>1 DEF Formed, NoEntry, new_empty
  <1>3. client_producer_identity(e) = <<i, k>>
    BY <1>1, ClientIdentity
  <1>4. next_producer_identity(<<i, k>>, f) = IF k >= MaxEpoch - 1 THEN <<f, 0>> ELSE <<i, k + 1>>
    BY DEF next_producer_identity
  <1>5. Allocated(e.id, f) = IF k >= MaxEpoch - 1 THEN f + 1 ELSE f
    BY <1>1, <1>2, <1>4 DEF Allocated
  <1>6. x = [new_empty(IF k >= MaxEpoch - 1 THEN <<f, 0>> ELSE <<i, k + 1>>) EXCEPT
                !.last = IF request # NoId THEN k ELSE -1,
                !.prev = IF k >= MaxEpoch - 1 THEN i ELSE 0]
    <2>1. x = [new_empty(next_producer_identity(<<i, k>>, f)) EXCEPT
                  !.last = IF request # NoId THEN k ELSE -1,
                  !.prev = IF next_producer_identity(<<i, k>>, f)[1] # i THEN i ELSE 0]
      BY <1>3 DEF bump_epoch
    <2>2. (IF next_producer_identity(<<i, k>>, f)[1] # i THEN i ELSE 0) = IF k >= MaxEpoch - 1 THEN i ELSE 0
      BY <1>2, <1>4
    <2>. QED
      BY <1>4, <2>1, <2>2
  <1>7. /\ x \in Entry /\ x.state = "Empty" /\ x.next = NoId
        /\ x.id = (IF k >= MaxEpoch - 1 THEN <<f, 0>> ELSE <<i, k + 1>>)
        /\ x.last = (IF request # NoId THEN k ELSE -1)
        /\ x.prev = (IF k >= MaxEpoch - 1 THEN i ELSE 0)
    <2>1. (IF k >= MaxEpoch - 1 THEN <<f, 0>> ELSE <<i, k + 1>>) \in Identity /\ NoId \in Identity
      BY DEF Identity, NoId
    <2>2. PICK z \in Identity : z = IF k >= MaxEpoch - 1 THEN <<f, 0>> ELSE <<i, k + 1>>
      BY <2>1
    <2>3. PICK l \in Int : l = IF request # NoId THEN k ELSE -1
      OBVIOUS
    <2>4. PICK v \in Int : v = IF k >= MaxEpoch - 1 THEN i ELSE 0
      OBVIOUS
    <2>5. x = [state |-> "Empty", id |-> z, last |-> l, prev |-> v, next |-> NoId, partitions |-> {}]
      BY <1>6, <2>2, <2>3, <2>4 DEF new_empty
    <2>. QED
      BY <2>1, <2>2, <2>3, <2>4, <2>5 DEF Entry, EntryState
  <1>8. Formed(x, Allocated(e.id, f))
    BY <1>2, <1>5, <1>7 DEF Formed, Prepared, Completed
  <1>9. Before(e.id, client_producer_identity(x))
    BY <1>1, <1>2, <1>7 DEF Before, client_producer_identity
  <1>. QED
    BY <1>7, <1>8, <1>9

\* An entry with one more partition.
LEMMA RegistrationForms ==
    ASSUME NEW f \in Nat, NEW e, Formed(e, f), e.state \in {"Empty", "Ongoing"} \cup Completed,
           NEW p \in Partitions, NEW x, x = stage_registration(e, p)
    PROVE  /\ Formed(x, f) /\ x.state = "Ongoing" /\ x.id = e.id /\ p \in x.partitions
           /\ e.state = "Ongoing" => e.partitions \subseteq x.partitions
           /\ client_producer_identity(x) = client_producer_identity(e)
  <1>1. e \in Entry /\ e.state # "none" /\ e # NoEntry /\ e.state \notin Prepared
    BY DEF Formed, Completed, NoEntry, new_empty, Prepared
  <1>2. x = [e EXCEPT !.state = "Ongoing",
                      !.partitions = (IF e.state \in Completed THEN {} ELSE @) \cup {p}]
    BY DEF stage_registration
  <1>3. /\ x \in Entry /\ x.state = "Ongoing" /\ x.id = e.id /\ x.last = e.last /\ x.prev = e.prev
        /\ x.next = e.next
        /\ x.partitions = (IF e.state \in Completed THEN {} ELSE e.partitions) \cup {p}
    <2>1. (IF e.state \in Completed THEN {} ELSE e.partitions) \cup {p} \in SUBSET Partitions
      BY <1>1 DEF Entry
    <2>. QED
      BY <1>1, <1>2, <2>1 DEF Entry, EntryState
  <1>4. Formed(x, f)
    BY <1>1, <1>3 DEF Formed, Prepared, Completed
  <1>5. client_producer_identity(x) = client_producer_identity(e)
    BY <1>3 DEF client_producer_identity
  <1>. QED
    BY <1>3, <1>4, <1>5 DEF Completed

\* A prepared entry that completes.
LEMMA CompletionForms ==
    ASSUME NEW f \in Nat, NEW e, Formed(e, f), e.state \in Prepared,
           NEW x, x = apply_completion(e)
    PROVE  /\ Formed(x, f) /\ x.state \in Completed /\ Commits(x) = Commits(e)
           /\ Txn(x) = TransactionOf(e) /\ Txn(e) = TransactionOf(e)
           /\ client_producer_identity(x) = client_producer_identity(e)
  <1>1. e \in Entry /\ e.state # "none" /\ e # NoEntry /\ e.state \notin Completed
    BY DEF Formed, Completed, NoEntry, new_empty, Prepared
  <1>2. PICK i \in Int, k \in Int : e.id = <<i, k>>
    BY <1>1 DEF Entry, Identity
  <1>3. PICK a \in Int, c \in Int : e.next = <<a, c>>
    BY <1>1 DEF Entry, Identity
  <1>4. /\ i \in 1..(f - 1) /\ k \in 1..MaxEpoch /\ e.last = k - 1 /\ e.prev \in 0..(f - 1)
        /\ IF k = MaxEpoch THEN c = 0 /\ a \in (i + 1)..(f - 1) ELSE a = 0 /\ c = -1
    BY <1>1, <1>2, <1>3 DEF Formed, NoId
  <1>5. client_producer_identity(e) = IF k = MaxEpoch THEN <<a, 0>> ELSE <<i, k>>
    BY <1>2, <1>3, <1>4 DEF client_producer_identity, NoId
  <1>6. /\ x \in Entry /\ x.state = (IF e.state = "PrepareCommit" THEN "CompleteCommit" ELSE "CompleteAbort")
        /\ x.prev = (IF k = MaxEpoch THEN i ELSE e.prev) /\ x.last = k - 1
        /\ x.id = (IF k = MaxEpoch THEN <<a, 0>> ELSE <<i, k>>) /\ x.next = NoId
    <2>3. (IF client_producer_identity(e)[1] # e.id[1] THEN e.id[1] ELSE e.prev)
             = IF k = MaxEpoch THEN i ELSE e.prev
      BY <1>2, <1>4, <1>5
    <2>4. x = [e EXCEPT !.state = IF e.state = "PrepareCommit" THEN "CompleteCommit" ELSE "CompleteAbort",
                        !.prev = IF client_producer_identity(e)[1] # e.id[1] THEN e.id[1] ELSE e.prev,
                        !.id = client_producer_identity(e),
                        !.next = NoId, !.partitions = {}]
      BY DEF apply_completion
    <2>1. x = [e EXCEPT !.state = IF e.state = "PrepareCommit" THEN "CompleteCommit" ELSE "CompleteAbort",
                        !.prev = IF k = MaxEpoch THEN i ELSE e.prev,
                        !.id = IF k = MaxEpoch THEN <<a, 0>> ELSE <<i, k>>,
                        !.next = NoId, !.partitions = {}]
      BY <1>5, <2>3, <2>4
    <2>2. (IF k = MaxEpoch THEN <<a, 0>> ELSE <<i, k>>) \in Identity /\ NoId \in Identity
      BY DEF Identity, NoId
    <2>. QED
      BY <1>1, <1>4, <2>1, <2>2 DEF Entry, EntryState, Completed
  <1>7. x.state \in Completed /\ x.state \notin Prepared /\ x.state # "none"
    BY <1>6 DEF Completed, Prepared
  <1>8. Formed(x, f)
    BY <1>4, <1>6, <1>7 DEF Formed
  <1>9. Commits(x) = Commits(e)
    BY <1>6, <1>1 DEF Commits, Prepared
  <1>10. Txn(x) = TransactionOf(e) /\ Txn(e) = TransactionOf(e)
    BY <1>1, <1>2, <1>4, <1>6, <1>7 DEF Txn, TransactionOf
  <1>11. client_producer_identity(x) = client_producer_identity(e)
    BY <1>5, <1>6 DEF client_producer_identity
  <1>. QED
    BY <1>7, <1>8, <1>9, <1>10, <1>11

------------------------------------------------------------------------------
(* Types.                                                                  *)

Kinds == {"none", "init", "end", "fence", "reap", "add", "complete"}

Requests == {NoId} \cup (Identity \X Partitions)

Write == [kind : Kinds, entry : Entry, epoch : Nat, logged : BOOLEAN, request : Requests]

Coordinator ==
    [epoch : Nat, status : {"none", "loading", "loaded"}, entry : Entry, write : Write,
     queued : BOOLEAN, stopped : BOOLEAN]

Job ==
    [broker : Brokers, kind : {"end", "fence", "task"}, snap : Entry, started : BOOLEAN,
     epoch : Nat, todo : SUBSET Partitions, written : SUBSET Partitions,
     failure : {"none", "unexpected", "retriable", "fenced"}]

Late == [p : Partitions, id : Identity, epoch : Nat, commit : BOOLEAN]

Producer == [epoch : Int, coordinator : Int, open : SUBSET Int, verifying : Int]

Batch == [p : Partitions, id : Identity, guard : BOOLEAN, verified : BOOLEAN]

\* What a write of a kind puts in the log.
KindOK(kind, x, request) ==
    /\ kind \in {"end", "fence"} => x.state \in Prepared
    /\ kind = "init" => x.state = "Empty"
    /\ kind = "add" => x.state = "Ongoing" /\ x.id = request[1] /\ request[2] \in x.partitions

CoordOK(c, f, n) ==
    /\ c \in Coordinator
    /\ Formed(c.entry, f) /\ Formed(c.write.entry, f)
    /\ KindOK(c.write.kind, c.write.entry, c.write.request)
    /\ c.epoch <= n /\ c.write.epoch <= n

JobOK(j, f) == j \in Job /\ Formed(j.snap, f) /\ j.snap.state \in Prepared

LateOK(m, f) == m \in Late /\ m.id[1] \in 1..(f - 1) /\ m.id[2] \in 1..MaxEpoch

GivenOK(id, f) == id \in Identity /\ id[1] \in 1..(f - 1) /\ id[2] \in 0..(MaxEpoch - 1)

Entries == {log[i] : i \in 1..Len(log)}

Typed ==
    /\ leader \in [broker : Brokers, epoch : Nat]
    /\ fresh \in 1..(MaxPid + 1)
    /\ log \in Seq(Entry) /\ log # <<>>
    /\ \A e \in Entries : Formed(e, fresh)
    /\ coord \in [Brokers -> Coordinator]
    /\ \A b \in Brokers : CoordOK(coord[b], fresh, leader.epoch)
    /\ \A j \in jobs : JobOK(j, fresh)
    /\ \A m \in late : LateOK(m, fresh)
    /\ part \in [Partitions -> [Pids -> Producer]]
    /\ \A r \in produces : r \in Batch /\ r.id \in given
    /\ \A id \in given : GivenOK(id, fresh)
    /\ \A a \in asked : a \in Identity \X BOOLEAN /\ a[1] \in given
    /\ told \in SUBSET Identity
    /\ ended \in SUBSET [txn : Identity, p : Partitions, commit : BOOLEAN]

LEMMA RequestsType == NoId \in Requests /\ \A id \in Identity, p \in Partitions : <<id, p>> \in Requests
  BY DEF Requests

LEMMA CoordOKLater ==
    ASSUME NEW f \in Nat, NEW g \in Nat, f <= g, NEW n \in Nat, NEW m \in Nat, n <= m,
           NEW c, CoordOK(c, f, n)
    PROVE  CoordOK(c, g, m)
  <1>1. c.epoch \in Nat /\ c.write.epoch \in Nat
    BY DEF CoordOK, Coordinator, Write
  <1>. QED
    BY <1>1, FormedLater DEF CoordOK

LEMMA NoWriteOK ==
    /\ NoWrite \in Write /\ KindOK(NoWrite.kind, NoWrite.entry, NoWrite.request)
    /\ NoWrite.epoch = 0 /\ NoWrite.entry = NoEntry /\ NoWrite.logged = FALSE
  BY RequestsType, NoEntryFormed DEF NoWrite, Write, Kinds, KindOK, Formed

LEMMA NewCoordinatorOK == \A f, n \in Nat : CoordOK(new_coordinator, f, n)
  <1>1. NoWrite \in Write /\ NoEntry \in Entry
    BY NoEntryFormed, RequestsType DEF NoWrite, Write, Kinds, Formed
  <1>2. new_coordinator \in Coordinator
    BY <1>1 DEF new_coordinator, Coordinator
  <1>3. KindOK(NoWrite.kind, NoWrite.entry, NoWrite.request)
    BY DEF KindOK, NoWrite
  <1>. QED
    BY <1>2, <1>3, NoEntryFormed DEF CoordOK, new_coordinator, NoWrite

\* The entries of the log as it grows and shrinks.
LEMMA LastIsEntry ==
    ASSUME log \in Seq(Entry), log # <<>>
    PROVE  Last(log) \in Entries /\ log[1] \in Entries /\ Len(log) \in Nat \ {0}
  <1>1. Len(log) \in Nat \ {0} /\ Last(log) = log[Len(log)]
    BY DEF Last
  <1>. QED
    BY <1>1 DEF Entries

LEMMA TakeLast ==
    ASSUME log \in Seq(Entry), log # <<>>, log' = <<Last(log)>>
    PROVE  /\ log' \in Seq(Entry) /\ log' # <<>> /\ log'[1] = Last(log) /\ Last(log') = Last(log)
           /\ Entries' = {Last(log)}
  <1>1. Last(log) \in Entry
    BY DEF Last
  <1>2. log' \in Seq(Entry) /\ Len(log') = 1 /\ log'[1] = Last(log)
    BY <1>1
  <1>3. Last(log') = log'[1]
    BY <1>2 DEF Last
  <1>. QED
    BY <1>2, <1>3 DEF Entries

LEMMA TakePrefix ==
    ASSUME log \in Seq(Entry), log # <<>>, NEW n \in 1..Len(log), log' = SubSeq(log, 1, n)
    PROVE  /\ log' \in Seq(Entry) /\ log' # <<>> /\ log'[1] = log[1]
           /\ Entries' \subseteq Entries
  <1>1. log' \in Seq(Entry) /\ Len(log') = n /\ \A i \in 1..n : log'[i] = log[i]
    OBVIOUS
  <1>2. n \in Nat /\ n >= 1 /\ n <= Len(log)
    OBVIOUS
  <1>. QED
    BY <1>1, <1>2 DEF Entries

LEMMA GrowLog ==
    ASSUME log \in Seq(Entry), log # <<>>, NEW x \in Entry, log' = Append(log, x)
    PROVE  /\ log' \in Seq(Entry) /\ log' # <<>> /\ log'[1] = log[1] /\ Last(log') = x
           /\ Entries' = Entries \cup {x}
  <1>1. /\ log' \in Seq(Entry) /\ Len(log') = Len(log) + 1 /\ log'[Len(log) + 1] = x
        /\ \A i \in 1..Len(log) : log'[i] = log[i]
    OBVIOUS
  <1>2. Len(log) \in Nat \ {0}
    OBVIOUS
  <1>3. Last(log') = x
    BY <1>1, <1>2 DEF Last
  <1>4. Entries' = Entries \cup {x}
    <2>1. ASSUME NEW y, y \in Entries' PROVE y \in Entries \cup {x}
      <3>1. PICK i \in 1..Len(log') : y = log'[i]
        BY <2>1 DEF Entries
      <3>2. i \in 1..Len(log) \/ i = Len(log) + 1
        BY <1>1, <1>2
      <3>. QED
        BY <1>1, <3>1, <3>2 DEF Entries
    <2>2. ASSUME NEW y, y \in Entries \cup {x} PROVE y \in Entries'
      <3>1. CASE y = x
        <4>1. Len(log) + 1 \in 1..Len(log')
          BY <1>1, <1>2
        <4>. QED
          BY <1>1, <3>1, <4>1 DEF Entries
      <3>2. CASE y \in Entries
        <4>1. PICK i \in 1..Len(log) : y = log[i]
          BY <3>2 DEF Entries
        <4>2. i \in 1..Len(log') /\ y = log'[i]
          BY <1>1, <1>2, <4>1
        <4>. QED
          BY <4>2 DEF Entries
      <3>. QED
        BY <2>2, <3>1, <3>2
    <2>. QED
      BY <2>1, <2>2
  <1>. QED
    BY <1>1, <1>2, <1>3, <1>4

------------------------------------------------------------------------------
(* Steps keep the types.                                                   *)

\* What the start of a write does.
LEMMA WriteEffect ==
    ASSUME Typed, NEW b \in Brokers, NEW live \in Entry, NEW kind \in Kinds, NEW x \in Entry,
           NEW request \in Requests, BeginWrite(b, live, kind, x, request)
    PROVE  /\ coord' \in [Brokers -> Coordinator]
           /\ \A c \in Brokers : c # b => coord'[c] = coord[c]
           /\ coord'[b].entry = live /\ coord'[b].epoch = coord[b].epoch
           /\ coord'[b].status = coord[b].status
           /\ coord'[b].write = [kind |-> kind, entry |-> x, epoch |-> coord[b].epoch,
                                 logged |-> Leads(b, coord[b].epoch), request |-> request]
           /\ log' \in Seq(Entry) /\ log' # <<>> /\ log'[1] = log[1]
           /\ Leads(b, coord[b].epoch) => Last(log') = x /\ Entries' = Entries \cup {x}
           /\ ~Leads(b, coord[b].epoch) => log' = log
  <1>1. coord \in [Brokers -> Coordinator] /\ coord[b] \in Coordinator /\ log \in Seq(Entry) /\ log # <<>>
    BY DEF Typed
  <1>2. Leads(b, coord[b].epoch) \in BOOLEAN /\ coord[b].epoch \in Nat
    BY <1>1 DEF Leads, Coordinator
  <1>3. PICK w : w = [kind |-> kind, entry |-> x, epoch |-> coord[b].epoch,
                      logged |-> Leads(b, coord[b].epoch), request |-> request]
    OBVIOUS
  <1>4. w \in Write
    BY <1>2, <1>3 DEF Write
  <1>5. coord' = [coord EXCEPT ![b].entry = live, ![b].write = w]
    BY <1>3 DEF BeginWrite
  <1>6. /\ coord' \in [Brokers -> Coordinator]
        /\ \A c \in Brokers : c # b => coord'[c] = coord[c]
        /\ coord'[b].entry = live /\ coord'[b].epoch = coord[b].epoch
        /\ coord'[b].status = coord[b].status /\ coord'[b].write = w
    BY <1>1, <1>4, <1>5 DEF Coordinator
  <1>7. CASE Leads(b, coord[b].epoch)
    <2>1. log' = Append(log, x)
      BY <1>7 DEF BeginWrite
    <2>. QED
      BY <1>1, <1>3, <1>6, <1>7, <2>1, GrowLog
  <1>8. CASE ~Leads(b, coord[b].epoch)
    <2>1. log' = log
      BY <1>8 DEF BeginWrite
    <2>. QED
      BY <1>1, <1>3, <1>6, <1>8, <2>1
  <1>. QED
    BY <1>7, <1>8

\* A step that changes no entry but by a write.
LEMMA WriteTyped ==
    ASSUME Typed, NEW b \in Brokers, NEW live, NEW kind \in Kinds, NEW x,
           NEW request \in Requests, BeginWrite(b, live, kind, x, request),
           fresh' \in fresh..(MaxPid + 1), Formed(live, fresh), Formed(x, fresh'),
           KindOK(kind, x, request),
           jobs' \subseteq jobs, UNCHANGED <<leader, late, part, produces, asked, ended>>,
           given \subseteq given', \A id \in given' : GivenOK(id, fresh'), told' \in SUBSET Identity
    PROVE  Typed'
  <1>0. /\ fresh \in Nat /\ fresh' \in Nat /\ fresh <= fresh' /\ leader.epoch \in Nat
        /\ fresh' \in 1..(MaxPid + 1)
    BY DEF Typed
  <1>1. live \in Entry /\ x \in Entry
    BY DEF Formed
  <1>2. /\ coord' \in [Brokers -> Coordinator]
        /\ \A c \in Brokers : c # b => coord'[c] = coord[c]
        /\ coord'[b].entry = live /\ coord'[b].epoch = coord[b].epoch
        /\ coord'[b].write = [kind |-> kind, entry |-> x, epoch |-> coord[b].epoch,
                              logged |-> Leads(b, coord[b].epoch), request |-> request]
        /\ log' \in Seq(Entry) /\ log' # <<>>
        /\ Leads(b, coord[b].epoch) => Entries' = Entries \cup {x}
        /\ ~Leads(b, coord[b].epoch) => log' = log
    BY <1>1, WriteEffect
  <1>3. ASSUME NEW e \in Entries' PROVE Formed(e, fresh')
    <2>1. e \in Entries \/ e = x
      BY <1>2 DEF Entries
    <2>. QED
      BY <1>0, <2>1, FormedLater DEF Typed
  <1>4. ASSUME NEW c \in Brokers PROVE CoordOK(coord'[c], fresh', leader.epoch)
    <2>0. CoordOK(coord[c], fresh, leader.epoch)
      BY DEF Typed
    <2>1. CASE c # b
      BY <1>0, <1>2, <2>0, <2>1, CoordOKLater
    <2>2. CASE c = b
      <3>1. Formed(coord'[b].entry, fresh')
        BY <1>0, <1>2, FormedLater
      <3>2. /\ coord'[b].write.entry = x /\ coord'[b].write.kind = kind
            /\ coord'[b].write.request = request /\ coord'[b].write.epoch = coord[b].epoch
        BY <1>2
      <3>. QED
        BY <1>2, <2>0, <2>2, <3>1, <3>2 DEF CoordOK
    <2>. QED
      BY <2>1, <2>2
  <1>5. ASSUME NEW j \in jobs' PROVE JobOK(j, fresh')
    BY <1>0, FormedLater DEF Typed, JobOK
  <1>6. ASSUME NEW m \in late PROVE LateOK(m, fresh')
    BY <1>0 DEF Typed, LateOK
  <1>. QED
    BY <1>0, <1>2, <1>3, <1>4, <1>5, <1>6 DEF Typed

\* A step that does not write, and changes the coordinator of one broker.
LEMMA CoordTyped ==
    ASSUME Typed, NEW b \in Brokers, NEW c, coord' = [coord EXCEPT ![b] = c],
           CoordOK(c, fresh, leader'.epoch), leader' = leader, fresh' = fresh,
           log' \in Seq(Entry), log' # <<>>, Entries' \subseteq Entries,
           \A j \in jobs' : JobOK(j, fresh), late' = late, part' = part,
           \A r \in produces' : r \in Batch /\ r.id \in given',
           given \subseteq given', \A id \in given' : GivenOK(id, fresh),
           asked' = asked, told' \in SUBSET Identity, ended' = ended
    PROVE  Typed'
  <1>1. c \in Coordinator /\ coord \in [Brokers -> Coordinator]
    BY DEF Typed, CoordOK
  <1>2. coord' \in [Brokers -> Coordinator] /\ \A d \in Brokers : coord'[d] = IF d = b THEN c ELSE coord[d]
    BY <1>1
  <1>3. \A d \in Brokers : CoordOK(coord'[d], fresh, leader.epoch)
    BY <1>2 DEF Typed
  <1>. QED
    BY <1>2, <1>3 DEF Typed

LEMMA ElectTyped ==
    ASSUME Typed, NEW b \in Brokers, Elect(b)
    PROVE  Typed'
  <1>1. leader' \in [broker : Brokers, epoch : Nat] /\ leader'.epoch = leader.epoch + 1 /\ leader.epoch \in Nat
    BY DEF Typed, Elect
  <1>2. /\ log' \in Seq(Entry) /\ log' # <<>> /\ Entries' \subseteq Entries
    <2>1. PICK n \in 1..Len(log) : log' = SubSeq(log, 1, n)
      BY DEF Elect
    <2>. QED
      BY <2>1, TakePrefix DEF Typed
  <1>3. \A c \in Brokers : CoordOK(coord[c], fresh, leader'.epoch)
    BY <1>1, CoordOKLater DEF Typed
  <1>4. \A e \in Entries' : Formed(e, fresh)
    BY <1>2 DEF Typed
  <1>. QED
    BY <1>1, <1>2, <1>3, <1>4 DEF Typed, Elect

LEMMA ApplyImageTyped ==
    ASSUME Typed, NEW b \in Brokers, ApplyImage(b)
    PROVE  Typed'
  <1>1. PICK c : c = [coord[b] EXCEPT !.epoch = leader.epoch, !.entry = NoEntry, !.stopped = FALSE,
                         !.status = IF leader.broker = b THEN "loading" ELSE "none"]
    OBVIOUS
  <1>2. coord[b] \in Coordinator /\ CoordOK(coord[b], fresh, leader.epoch) /\ leader.epoch \in Nat
    BY DEF Typed
  <1>3. NoEntry \in Entry /\ Formed(NoEntry, fresh)
    BY NoEntryFormed DEF Typed, Formed
  <1>4. CoordOK(c, fresh, leader.epoch)
    <2>1. PICK status \in {"none", "loading", "loaded"} : status = IF leader.broker = b THEN "loading" ELSE "none"
      OBVIOUS
    <2>2. /\ c \in Coordinator /\ c.entry = NoEntry /\ c.epoch = leader.epoch
          /\ c.write = coord[b].write
      BY <1>1, <1>2, <1>3, <2>1 DEF Coordinator
    <2>. QED
      BY <1>2, <1>3, <2>2 DEF CoordOK
  <1>5. coord' = [coord EXCEPT ![b] = c]
    BY <1>1 DEF ApplyImage
  <1>6. UNCHANGED <<leader, log, jobs, late, part, produces, fresh, given, asked, told, ended>> /\ Entries' = Entries
    BY DEF ApplyImage, Entries
  <1>. QED
    BY <1>4, <1>5, <1>6, CoordTyped DEF Typed

LEMMA LoadTyped ==
    ASSUME Typed, NEW b \in Brokers, Load(b)
    PROVE  Typed'
  <1>0. log \in Seq(Entry) /\ log # <<>>
    BY DEF Typed
  <1>1. PICK c : c = [coord[b] EXCEPT !.status = "loaded", !.entry = Last(log),
                                      !.queued = @ \/ Last(log).state \in Prepared]
    OBVIOUS
  <1>2. coord[b] \in Coordinator /\ CoordOK(coord[b], fresh, leader.epoch) /\ leader.epoch \in Nat
    BY DEF Typed
  <1>3. Last(log) \in Entry /\ Formed(Last(log), fresh) /\ Last(log) \in Entries
    BY <1>0, LastIsEntry DEF Typed, Formed
  <1>4. CoordOK(c, fresh, leader.epoch)
    BY <1>1, <1>2, <1>3 DEF CoordOK, Coordinator
  <1>5. coord' = [coord EXCEPT ![b] = c]
    BY <1>1 DEF Load
  <1>6. UNCHANGED <<leader, jobs, late, part, produces, fresh, given, asked, told, ended>>
    BY DEF Load
  <1>7. log' \in Seq(Entry) /\ log' # <<>> /\ Entries' \subseteq Entries
    BY <1>0, <1>3, TakeLast DEF Load
  <1>. QED
    BY <1>4, <1>5, <1>6, <1>7, CoordTyped DEF Typed

LEMMA CrashTyped ==
    ASSUME Typed, NEW b \in Brokers, Crash(b)
    PROVE  Typed'
  <1>1. CoordOK(new_coordinator, fresh, leader.epoch)
    BY NewCoordinatorOK DEF Typed
  <1>2. UNCHANGED <<leader, log, late, part, produces, fresh, given, asked, told, ended>> /\ Entries' = Entries
    BY DEF Crash, Entries
  <1>3. coord' = [coord EXCEPT ![b] = new_coordinator] /\ jobs' \subseteq jobs
    BY DEF Crash
  <1>. QED
    BY <1>1, <1>2, <1>3, CoordTyped DEF Typed

LEMMA NewJobOK ==
    ASSUME NEW b \in Brokers, NEW kind \in {"end", "fence", "task"}, NEW f, NEW e, Formed(e, f),
           e.state \in Prepared
    PROVE  JobOK(NewJob(b, kind, e), f)
  <1>1. e \in Entry /\ e.partitions \in SUBSET Partitions
    BY DEF Formed, Entry
  <1>. QED
    BY <1>1 DEF NewJob, JobOK, Job

\* A verified batch is a batch of the same transaction.
LEMMA VerifiedBatch ==
    ASSUME NEW r \in Batch
    PROVE  /\ [r EXCEPT !.verified = TRUE] \in Batch
           /\ [r EXCEPT !.verified = TRUE].id = r.id /\ [r EXCEPT !.verified = TRUE].p = r.p
           /\ [r EXCEPT !.verified = TRUE].verified = TRUE
  BY DEF Batch

LEMMA FinishWriteTyped ==
    ASSUME Typed, NEW b \in Brokers, FinishWrite(b)
    PROVE  Typed'
  <1>0. log \in Seq(Entry) /\ log # <<>>
    BY DEF Typed
  <1>1. PICK w : w = coord[b].write
    OBVIOUS
  <1>2. coord[b] \in Coordinator /\ CoordOK(coord[b], fresh, leader.epoch) /\ leader.epoch \in Nat /\ fresh \in Nat
    BY DEF Typed
  <1>3. w \in Write /\ Formed(w.entry, fresh) /\ KindOK(w.kind, w.entry, w.request) /\ w.entry \in Entry
    BY <1>1, <1>2 DEF CoordOK, Coordinator, Formed
  <1>4. PICK c : c = [coord[b] EXCEPT !.entry = w.entry, !.write = NoWrite,
                                      !.queued = @ \/ w.kind = "reap", !.stopped = FALSE]
    OBVIOUS
  <1>5. CoordOK(c, fresh, leader.epoch)
    <2>2. c \in Coordinator /\ c.entry = w.entry /\ c.write = NoWrite /\ c.epoch = coord[b].epoch
      BY <1>2, <1>3, <1>4, NoWriteOK DEF Coordinator
    <2>. QED
      BY <1>2, <1>3, <2>2, NoWriteOK, NoEntryFormed DEF CoordOK
  <1>6. coord' = [coord EXCEPT ![b] = c]
    BY <1>1, <1>4 DEF FinishWrite
  <1>7. UNCHANGED <<leader, late, part, fresh, asked, told, ended>> /\ AfterWrite(b, w)
    BY <1>1 DEF FinishWrite
  <1>8. log' \in Seq(Entry) /\ log' # <<>> /\ Entries' \subseteq Entries
    BY <1>0, LastIsEntry, TakeLast DEF FinishWrite
  <1>9. ASSUME NEW j \in jobs' PROVE JobOK(j, fresh)
    <2>1. CASE j \in jobs
      BY <2>1 DEF Typed
    <2>2. CASE j \notin jobs
      <3>1. w.kind \in {"end", "fence"} /\ j = NewJob(b, w.kind, w.entry)
        BY <1>7, <2>2 DEF AfterWrite
      <3>2. w.entry.state \in Prepared /\ w.kind \in {"end", "fence", "task"}
        BY <1>3, <3>1 DEF KindOK
      <3>. QED
        BY <1>3, <3>1, <3>2, NewJobOK
    <2>. QED
      BY <2>1, <2>2
  <1>10. given \subseteq given' /\ \A id \in given' : GivenOK(id, fresh)
    <2>1. ASSUME w.kind = "init" PROVE GivenOK(w.entry.id, fresh)
      <3>1. w.entry.state = "Empty"
        BY <1>3, <2>1 DEF KindOK
      <3>. QED
        BY <1>2, <1>3, <3>1 DEF Formed, Entry, Identity, GivenOK, Prepared, NoEntry, new_empty
    <2>. QED
      BY <1>7, <2>1 DEF AfterWrite, Typed
  <1>11. \A r \in produces' : r \in Batch /\ r.id \in given'
    <2>1. \A r \in produces : r \in Batch /\ r.id \in given'
      BY <1>10 DEF Typed
    <2>2. ASSUME NEW r \in produces' PROVE \E q \in produces : r = q \/ r = [q EXCEPT !.verified = TRUE]
      BY <1>7 DEF AfterWrite
    <2>. QED
      BY <2>1, <2>2, VerifiedBatch
  <1>. QED
    BY <1>5, <1>6, <1>7, <1>8, <1>9, <1>10, <1>11, CoordTyped DEF Typed

LEMMA FailWriteTyped ==
    ASSUME Typed, NEW b \in Brokers, FailWrite(b)
    PROVE  Typed'
  <1>2. coord[b] \in Coordinator /\ CoordOK(coord[b], fresh, leader.epoch) /\ leader.epoch \in Nat /\ fresh \in Nat
    BY DEF Typed
  <1>4. PICK c : c = [coord[b] EXCEPT !.write = NoWrite, !.queued = @ \/ coord[b].write.kind = "complete"]
    OBVIOUS
  <1>5. CoordOK(c, fresh, leader.epoch)
    <2>2. c \in Coordinator /\ c.entry = coord[b].entry /\ c.write = NoWrite /\ c.epoch = coord[b].epoch
      BY <1>2, <1>4, NoWriteOK DEF Coordinator
    <2>. QED
      BY <1>2, <2>2, NoWriteOK, NoEntryFormed DEF CoordOK
  <1>6. coord' = [coord EXCEPT ![b] = c]
    BY <1>4 DEF FailWrite
  <1>7. UNCHANGED <<leader, log, jobs, late, part, produces, fresh, given, asked, told, ended>> /\ Entries' = Entries
    BY DEF FailWrite, Entries
  <1>. QED
    BY <1>5, <1>6, <1>7, CoordTyped DEF Typed

\* A step that allocates leaves the next producer id in its bounds.
LEMMA AllocatesBound ==
    ASSUME Typed, NEW id, Allocates(id)
    PROVE  fresh' = Allocated(id, fresh) /\ fresh' \in fresh..(MaxPid + 1)
  BY DEF Typed, Allocates, Allocated

LEMMA InitProducerIdTyped ==
    ASSUME Typed, NEW b \in Brokers, NEW request, InitProducerId(b, request)
    PROVE  Typed'
  <1>1. PICK e : e = coord[b].entry
    OBVIOUS
  <1>2. Formed(e, fresh) /\ e.state \notin Prepared /\ fresh \in Nat \ {0}
    BY <1>1 DEF Typed, CoordOK, InitProducerId
  <1>3. UNCHANGED <<leader, jobs, late, part, produces, asked, told, ended>>
    BY DEF InitProducerId
  <1>4. CASE e.state = "none"
    <2>1. /\ BeginWrite(b, e, "init", new_empty(<<fresh, 0>>), NoId)
          /\ fresh' = fresh + 1 /\ fresh <= MaxPid /\ UNCHANGED given
      BY <1>1, <1>4 DEF InitProducerId
    <2>2. PICK x : x = new_empty(<<fresh, 0>>)
      OBVIOUS
    <2>3. Formed(x, fresh') /\ KindOK("init", x, NoId) /\ "init" \in Kinds
      BY <1>2, <2>1, <2>2, NewEmptyFormed DEF KindOK, Kinds
    <2>4. fresh' \in fresh..(MaxPid + 1) /\ \A id \in given' : GivenOK(id, fresh')
      BY <1>2, <2>1 DEF Typed, GivenOK
    <2>5. BeginWrite(b, e, "init", x, NoId)
      BY <2>1, <2>2
    <2>. QED
      BY <1>2, <1>3, <2>1, <2>3, <2>4, <2>5, WriteTyped, RequestsType DEF Typed
  <1>5. CASE e.state # "none" /\ identity_decision(e, request) = "retry"
    <2>1. given' = given \cup {client_producer_identity(e)} /\ UNCHANGED <<log, coord, fresh>>
      BY <1>1, <1>5 DEF InitProducerId, identity_decision
    <2>2. GivenOK(client_producer_identity(e), fresh)
      BY <1>2, <1>5, ClientIdentity DEF GivenOK, Identity
    <2>3. Entries' = Entries
      BY <2>1 DEF Entries
    <2>. QED
      BY <1>3, <2>1, <2>2, <2>3 DEF Typed
  <1>6. CASE e.state # "none" /\ identity_decision(e, request) = "bump"
    <2>1. /\ IF e.state = "Ongoing"
             THEN BeginWrite(b, e, "fence", prepare_server_abort(e, fresh), NoId)
             ELSE BeginWrite(b, e, "init", bump_epoch(e, request, fresh), NoId)
          /\ Allocates(e.id) /\ UNCHANGED given
      BY <1>1, <1>6 DEF InitProducerId, identity_decision
    <2>2. fresh' = Allocated(e.id, fresh) /\ fresh' \in fresh..(MaxPid + 1)
      BY <2>1, AllocatesBound
    <2>3. \A id \in given' : GivenOK(id, fresh')
      BY <1>2, <2>1, <2>2 DEF Typed, GivenOK
    <2>4. CASE e.state = "Ongoing"
      <3>1. PICK x : x = prepare_server_abort(e, fresh)
        OBVIOUS
      <3>2. Formed(x, fresh') /\ x.state = "PrepareAbort"
        BY <1>2, <2>2, <2>4, <3>1, ServerAbortForms
      <3>3. KindOK("fence", x, NoId) /\ "fence" \in Kinds /\ BeginWrite(b, e, "fence", x, NoId)
        BY <2>1, <2>4, <3>1, <3>2 DEF KindOK, Kinds, Prepared
      <3>. QED
        BY <1>2, <1>3, <2>1, <2>2, <2>3, <3>2, <3>3, WriteTyped, RequestsType DEF Typed
    <2>5. CASE e.state # "Ongoing"
      <3>1. PICK x : x = bump_epoch(e, request, fresh)
        OBVIOUS
      <3>2. Formed(x, fresh') /\ x.state = "Empty"
        BY <1>2, <1>6, <2>2, <3>1, BumpForms
      <3>3. KindOK("init", x, NoId) /\ "init" \in Kinds /\ BeginWrite(b, e, "init", x, NoId)
        BY <2>1, <2>5, <3>1, <3>2 DEF KindOK, Kinds
      <3>. QED
        BY <1>2, <1>3, <2>1, <2>2, <2>3, <3>2, <3>3, WriteTyped, RequestsType DEF Typed
    <2>. QED
      BY <2>4, <2>5
  <1>. QED
    BY <1>1, <1>4, <1>5, <1>6 DEF InitProducerId

LEMMA AskTyped ==
    ASSUME Typed, NEW id \in given, NEW commit \in BOOLEAN, Ask(id, commit)
    PROVE  Typed'
  <1>1. UNCHANGED <<leader, log, coord, jobs, late, part, produces, fresh, given, told, ended>> /\ Entries' = Entries
    BY DEF Ask, Entries
  <1>2. \A a \in asked' : a \in Identity \X BOOLEAN /\ a[1] \in given
    BY DEF Ask, Typed, GivenOK
  <1>. QED
    BY <1>1, <1>2 DEF Typed

\* What EndTxn finds.
LEMMA EndTxnPrepares ==
    ASSUME NEW f \in Nat, NEW e, Formed(e, f), NEW id, GivenOK(id, f), NEW commit \in BOOLEAN,
           end_txn_decision(e, id, commit) = "prepare"
    PROVE  e.state # "none" /\ e.state \notin Prepared /\ e.id = id /\ (commit => e.state = "Ongoing")
  <1>1. /\ compared_identity(e, id[1]) = id
        /\ e.state = "Ongoing" \/ (e.state \in {"Empty"} \cup Completed /\ ~commit)
    BY DEF end_txn_decision
  <1>2. e.state # "none" /\ e.state \notin Prepared
    BY <1>1 DEF Completed, Prepared
  <1>3. compared_identity(e, id[1]) = e.id
    BY <1>2, ClientIdentity DEF compared_identity
  <1>. QED
    BY <1>1, <1>2, <1>3

LEMMA EndTxnCompletes ==
    ASSUME NEW f \in Nat, NEW e, Formed(e, f), NEW id, GivenOK(id, f), NEW commit \in BOOLEAN,
           end_txn_decision(e, id, commit) = "complete"
    PROVE  e.state \in Completed /\ Txn(e) = id /\ Commits(e) = commit
  <1>1. /\ \/ compared_identity(e, id[1]) = <<id[1], id[2] + 1>>
           \/ e.prev = id[1] /\ id[2] = MaxEpoch - 1 /\ compared_identity(e, id[1])[2] = 0
        /\ e.state = IF commit THEN "CompleteCommit" ELSE "CompleteAbort"
    BY DEF end_txn_decision
  <1>2. e.state \in Completed /\ e.state \notin Prepared /\ e.state # "none" /\ Commits(e) = commit
    BY <1>1 DEF Completed, Prepared, Commits
  <1>3. compared_identity(e, id[1]) = e.id
    BY <1>2, ClientIdentity DEF compared_identity
  <1>4. PICK i \in Int, k \in Int : id = <<i, k>>
    BY DEF GivenOK, Identity
  <1>5. PICK a \in Int, c \in Int : e.id = <<a, c>>
    BY DEF Formed, Entry, Identity
  <1>6. IF c = 0 THEN e.last = MaxEpoch - 1 ELSE e.last = c - 1
    BY <1>2, <1>5 DEF Formed, NoEntry, new_empty
  <1>7. Txn(e) = IF c = 0 THEN <<e.prev, e.last>> ELSE <<a, e.last>>
    BY <1>2, <1>5 DEF Txn, TransactionOf
  <1>8. k >= 0
    BY <1>4 DEF GivenOK
  <1>9. \/ a = i /\ c = k + 1
        \/ e.prev = i /\ k = MaxEpoch - 1 /\ c = 0
    BY <1>1, <1>3, <1>4, <1>5
  <1>10. Txn(e) = id
    BY <1>4, <1>6, <1>7, <1>8, <1>9
  <1>. QED
    BY <1>2, <1>10

LEMMA EndTxnTyped ==
    ASSUME Typed, NEW b \in Brokers, NEW a \in asked, EndTxn(b, a[1], a[2])
    PROVE  Typed'
  <1>1. PICK e : e = coord[b].entry
    OBVIOUS
  <1>2. Formed(e, fresh) /\ fresh \in Nat
    BY <1>1 DEF Typed, CoordOK
  <1>3. PICK id \in given, commit \in BOOLEAN : a[1] = id /\ a[2] = commit
    BY DEF Typed
  <1>4. GivenOK(id, fresh) /\ id \in Identity
    BY DEF Typed, GivenOK
  <1>5. UNCHANGED <<leader, jobs, late, part, produces, asked, ended>>
    BY DEF EndTxn
  <1>6. CASE end_txn_decision(e, id, commit) = "prepare"
    <2>1. /\ BeginWrite(b, e, "end", prepare_transaction(e, commit, fresh), NoId)
          /\ Allocates(e.id) /\ UNCHANGED <<given, told>>
      BY <1>1, <1>3, <1>6 DEF EndTxn
    <2>2. fresh' = Allocated(e.id, fresh) /\ fresh' \in fresh..(MaxPid + 1)
      BY <2>1, AllocatesBound
    <2>3. \A i \in given' : GivenOK(i, fresh')
      BY <1>2, <2>1, <2>2 DEF Typed, GivenOK
    <2>4. e.state # "none" /\ e.state \notin Prepared
      BY <1>2, <1>4, <1>6, EndTxnPrepares
    <2>5. PICK x : x = prepare_transaction(e, commit, fresh)
      OBVIOUS
    <2>6. Formed(x, fresh') /\ x.state \in Prepared
      BY <1>2, <2>2, <2>4, <2>5, TransactionForms DEF Prepared
    <2>7. KindOK("end", x, NoId) /\ "end" \in Kinds /\ BeginWrite(b, e, "end", x, NoId)
      BY <2>1, <2>5, <2>6 DEF KindOK, Kinds
    <2>. QED
      BY <1>2, <1>5, <2>1, <2>2, <2>3, <2>6, <2>7, WriteTyped, RequestsType DEF Typed
  <1>7. CASE end_txn_decision(e, id, commit) = "complete"
    <2>1. Answer(id, commit, client_producer_identity(e)) /\ UNCHANGED <<log, coord, fresh>>
      BY <1>1, <1>3, <1>7 DEF EndTxn
    <2>2. e.state # "none"
      BY <1>2, <1>4, <1>7, EndTxnCompletes DEF Completed
    <2>3. GivenOK(client_producer_identity(e), fresh)
      BY <1>2, <2>2, ClientIdentity DEF GivenOK, Identity
    <2>4. Entries' = Entries
      BY <2>1 DEF Entries
    <2>5. given' = given \cup {client_producer_identity(e)} /\ told' \in SUBSET Identity
      BY <1>4, <2>1 DEF Answer, Typed
    <2>. QED
      BY <1>5, <2>1, <2>3, <2>4, <2>5 DEF Typed
  <1>. QED
    BY <1>1, <1>3, <1>6, <1>7 DEF EndTxn

LEMMA ReapTyped ==
    ASSUME Typed, NEW b \in Brokers, Reap(b)
    PROVE  Typed'
  <1>1. PICK e : e = coord[b].entry
    OBVIOUS
  <1>2. Formed(e, fresh) /\ fresh \in Nat /\ e.state = "Ongoing"
    BY <1>1 DEF Typed, CoordOK, Reap
  <1>3. UNCHANGED <<leader, jobs, late, part, produces, given, asked, told, ended>> /\ Allocates(e.id)
    BY <1>1 DEF Reap
  <1>4. fresh' = Allocated(e.id, fresh) /\ fresh' \in fresh..(MaxPid + 1)
    BY <1>3, AllocatesBound
  <1>5. \A i \in given' : GivenOK(i, fresh')
    BY <1>2, <1>3, <1>4 DEF Typed, GivenOK
  <1>6. PICK x : x = prepare_server_abort(e, fresh)
    OBVIOUS
  <1>7. Formed(x, fresh') /\ x.state = "PrepareAbort"
    BY <1>2, <1>4, <1>6, ServerAbortForms
  <1>8. KindOK("reap", x, NoId) /\ "reap" \in Kinds /\ BeginWrite(b, e, "reap", x, NoId)
    BY <1>1, <1>6, <1>7 DEF KindOK, Kinds, Prepared, Reap
  <1>. QED
    BY <1>2, <1>3, <1>4, <1>5, <1>7, <1>8, WriteTyped, RequestsType DEF Typed

LEMMA ResumeAbortTyped ==
    ASSUME Typed, NEW b \in Brokers, ResumeAbort(b)
    PROVE  Typed'
  <1>1. CoordOK(coord[b], fresh, leader.epoch)
    BY DEF Typed
  <1>2. PICK c : c = [coord[b] EXCEPT !.queued = TRUE]
    OBVIOUS
  <1>3. CoordOK(c, fresh, leader.epoch)
    BY <1>1, <1>2 DEF CoordOK, Coordinator
  <1>4. coord' = [coord EXCEPT ![b] = c]
    BY <1>2 DEF ResumeAbort
  <1>5. UNCHANGED <<leader, log, jobs, late, part, produces, fresh, given, asked, told, ended>> /\ Entries' = Entries
    BY DEF ResumeAbort, Entries
  <1>. QED
    BY <1>3, <1>4, <1>5, CoordTyped DEF Typed

\* What a partition keeps of a producer after a step.
LEMMA PartChanges ==
    ASSUME part \in [Partitions -> [Pids -> Producer]], NEW p \in Partitions, NEW pid \in Pids,
           NEW s \in Producer, part' = [part EXCEPT ![p][pid] = s]
    PROVE  /\ part' \in [Partitions -> [Pids -> Producer]] /\ part'[p][pid] = s
           /\ \A q \in Partitions, i \in Pids : <<q, i>> # <<p, pid>> => part'[q][i] = part[q][i]
  OBVIOUS

\* A step of batches and markers.
LEMMA DataTyped ==
    ASSUME Typed, UNCHANGED <<leader, log, coord, fresh, given, asked, told>>,
           \A j \in jobs' : JobOK(j, fresh), \A m \in late' : LateOK(m, fresh),
           part' \in [Partitions -> [Pids -> Producer]],
           \A r \in produces' : r \in Batch /\ r.id \in given,
           ended' \in SUBSET [txn : Identity, p : Partitions, commit : BOOLEAN]
    PROVE  Typed'
  <1>1. Entries' = Entries
    BY DEF Entries
  <1>. QED
    BY <1>1 DEF Typed

LEMMA GivenPid ==
    ASSUME Typed, NEW id \in given
    PROVE  id[1] \in Pids /\ id[2] \in Int /\ id[2] < MaxEpoch /\ id[2] >= 0 /\ id = <<id[1], id[2]>>
  BY DEF Typed, GivenOK, Identity, Pids

LEMMA ProduceTyped ==
    ASSUME Typed, NEW id \in given, NEW p \in Partitions, Produce(p, id)
    PROVE  Typed'
  <1>1. PICK pid \in Pids, k \in Int : id[1] = pid /\ id[2] = k
    BY GivenPid
  <1>2. PICK s \in Producer : s = part[p][pid]
    BY DEF Typed
  <1>3. PICK t : t = TP!maybe_start_transaction_verification(s, k)
    OBVIOUS
  <1>4. t \in Producer
    BY <1>3 DEF TP!maybe_start_transaction_verification, Producer
  <1>5. part' = [part EXCEPT ![p][pid] = t]
    BY <1>1, <1>2, <1>3 DEF Produce
  <1>6. part' \in [Partitions -> [Pids -> Producer]]
    BY <1>4, <1>5, PartChanges DEF Typed
  <1>7. \A r \in produces' : r \in Batch /\ r.id \in given
    <2>1. PICK q : q = [p |-> p, id |-> id, guard |-> TRUE, verified |-> FALSE]
      OBVIOUS
    <2>2. q \in Batch /\ q.id = id
      BY <2>1 DEF Batch, Typed, GivenOK
    <2>3. produces' = produces \cup {q}
      BY <2>1 DEF Produce
    <2>. QED
      BY <2>2, <2>3 DEF Typed
  <1>8. UNCHANGED <<leader, log, coord, jobs, late, fresh, given, asked, told, ended>>
    BY DEF Produce
  <1>. QED
    BY <1>6, <1>7, <1>8, DataTyped DEF Typed

LEMMA RegistrationDecides ==
    ASSUME NEW e, NEW id, NEW p
    PROVE  /\ registration_decision(e, id, p) = "registered" =>
                  e.id = id /\ e.state = "Ongoing" /\ p \in e.partitions
           /\ registration_decision(e, id, p) = "register" =>
                  e.id = id /\ e.state \in {"Empty", "Ongoing"} \cup Completed
  BY DEF registration_decision

LEMMA CheckTyped ==
    ASSUME Typed, NEW b \in Brokers, NEW r \in produces, CheckWithCoordinator(r, b)
    PROVE  Typed'
  <1>1. PICK e : e = coord[b].entry
    OBVIOUS
  <1>2. Formed(e, fresh) /\ fresh \in Nat /\ r \in Batch /\ r.id \in Identity /\ r.p \in Partitions
    BY <1>1 DEF Typed, CoordOK, Batch
  <1>3. UNCHANGED <<leader, jobs, late, part, fresh, given, asked, told, ended>>
    BY DEF CheckWithCoordinator
  <1>4. CASE registration_decision(e, r.id, r.p) = "registered"
    <2>1. produces' = (produces \ {r}) \cup {[r EXCEPT !.verified = TRUE]} /\ UNCHANGED <<log, coord>>
      BY <1>1, <1>4 DEF CheckWithCoordinator
    <2>2. \A q \in produces' : q \in Batch /\ q.id \in given
      BY <1>2, <2>1, VerifiedBatch DEF Typed
    <2>. QED
      BY <1>3, <2>1, <2>2, DataTyped DEF Typed
  <1>5. CASE registration_decision(e, r.id, r.p) = "register"
    <2>1. BeginWrite(b, e, "add", stage_registration(e, r.p), <<r.id, r.p>>) /\ UNCHANGED produces
      BY <1>1, <1>5 DEF CheckWithCoordinator
    <2>2. e.id = r.id /\ e.state \in {"Empty", "Ongoing"} \cup Completed
      BY <1>5, RegistrationDecides
    <2>3. PICK x : x = stage_registration(e, r.p)
      OBVIOUS
    <2>4. Formed(x, fresh) /\ x.state = "Ongoing" /\ x.id = r.id /\ r.p \in x.partitions
      BY <1>2, <2>2, <2>3, RegistrationForms
    <2>5. KindOK("add", x, <<r.id, r.p>>) /\ "add" \in Kinds /\ <<r.id, r.p>> \in Requests
      BY <1>2, <2>4, RequestsType DEF KindOK, Kinds
    <2>6. BeginWrite(b, e, "add", x, <<r.id, r.p>>) /\ fresh' \in fresh..(MaxPid + 1)
          /\ \A id \in given' : GivenOK(id, fresh')
      BY <1>3, <2>1, <2>3 DEF Typed
    <2>. QED
      BY <1>2, <1>3, <2>1, <2>4, <2>5, <2>6, WriteTyped DEF Typed
  <1>. QED
    BY <1>1, <1>4, <1>5 DEF CheckWithCoordinator

\* Batches that lose their guard are the same batches.
LEMMA LoseGuardsKeeps ==
    ASSUME NEW rs, NEW p, NEW pid, \A r \in rs : r \in Batch, NEW q \in LoseGuards(p, pid, rs)
    PROVE  q \in Batch /\ \E r \in rs : q.id = r.id /\ q.p = r.p /\ q.verified = r.verified
  <1>1. PICK r \in rs : q = IF r.p = p /\ r.id[1] = pid THEN [r EXCEPT !.guard = FALSE] ELSE r
    BY DEF LoseGuards
  <1>2. r \in Batch
    OBVIOUS
  <1>3. /\ [r EXCEPT !.guard = FALSE] \in Batch
        /\ [r EXCEPT !.guard = FALSE].id = r.id /\ [r EXCEPT !.guard = FALSE].p = r.p
        /\ [r EXCEPT !.guard = FALSE].verified = r.verified
    BY <1>2 DEF Batch
  <1>. QED
    BY <1>1, <1>2, <1>3

LEMMA AppendBatchTyped ==
    ASSUME Typed, NEW r \in produces, AppendBatch(r)
    PROVE  Typed'
  <1>1. PICK pid \in Pids, k \in Int : r.id[1] = pid /\ r.id[2] = k
    BY GivenPid DEF Typed
  <1>2. r.p \in Partitions
    BY DEF Typed, Batch
  <1>3. PICK s \in Producer : s = part[r.p][pid]
    BY <1>2 DEF Typed
  <1>4. PICK t : t = TP!AppendData(s, k)
    OBVIOUS
  <1>5. t \in Producer
    <2>1. s.open \cup {k} \in SUBSET Int
      BY DEF Producer
    <2>2. PICK o \in SUBSET Int : o = s.open \cup {k}
      BY <2>1
    <2>3. t = [s EXCEPT !.epoch = k, !.open = o, !.verifying = -1]
      BY <1>4, <2>2 DEF TP!AppendData
    <2>4. t = [epoch |-> k, coordinator |-> s.coordinator, open |-> o, verifying |-> -1]
      BY <2>3 DEF Producer
    <2>5. s.coordinator \in Int /\ -1 \in Int
      BY DEF Producer
    <2>. QED
      BY <2>4, <2>5 DEF Producer
  <1>6. part' = [part EXCEPT ![r.p][pid] = t]
    BY <1>1, <1>3, <1>4 DEF AppendBatch
  <1>7. part' \in [Partitions -> [Pids -> Producer]]
    BY <1>2, <1>5, <1>6, PartChanges DEF Typed
  <1>8. \A q \in produces' : q \in Batch /\ q.id \in given
    <2>1. produces' = LoseGuards(r.p, r.id[1], produces \ {r}) /\ \A q \in produces : q \in Batch /\ q.id \in given
      BY DEF AppendBatch, Typed
    <2>. QED
      BY <2>1, LoseGuardsKeeps
  <1>9. UNCHANGED <<leader, log, coord, jobs, late, fresh, given, asked, told, ended>>
    BY DEF AppendBatch
  <1>. QED
    BY <1>7, <1>8, <1>9, DataTyped DEF Typed

LEMMA RefuseBatchTyped ==
    ASSUME Typed, NEW r \in produces, RefuseBatch(r)
    PROVE  Typed'
  BY DataTyped DEF Typed, RefuseBatch

LEMMA StartFanOutTyped ==
    ASSUME Typed, NEW j \in jobs, StartFanOut(j)
    PROVE  Typed'
  <1>1. JobOK(j, fresh) /\ coord[j.broker].epoch \in Nat
    BY DEF Typed, JobOK, Job, Coordinator
  <1>2. /\ JobOK([j EXCEPT !.started = TRUE, !.epoch = coord[j.broker].epoch], fresh)
        /\ JobOK([j EXCEPT !.started = TRUE, !.todo = {}, !.failure = "retriable"], fresh)
    BY <1>1 DEF JobOK, Job
  <1>3. \A i \in jobs' : JobOK(i, fresh)
    BY <1>2 DEF StartFanOut, Typed
  <1>. QED
    BY <1>3, DataTyped DEF Typed, StartFanOut

LEMMA MarkerOK ==
    ASSUME NEW f \in Nat, NEW j, JobOK(j, f), NEW p \in Partitions
    PROVE  LateOK(Marker(j, p), f)
  <1>1. j \in Job /\ j.snap.state # "none" /\ j.snap # NoEntry /\ j.snap \in Entry
    BY DEF JobOK, Formed, Prepared, NoEntry, new_empty
  <1>2. j.snap.id \in Identity /\ j.snap.id[1] \in 1..(f - 1) /\ j.snap.id[2] \in 1..MaxEpoch
    BY <1>1 DEF JobOK, Formed, Entry
  <1>. QED
    BY <1>1, <1>2 DEF Marker, LateOK, Late, Job

LEMMA LatePid ==
    ASSUME Typed, NEW m, LateOK(m, fresh)
    PROVE  m.id[1] \in Pids /\ m.id[2] \in 1..MaxEpoch /\ m.id = <<m.id[1], m.id[2]>>
  <1>1. fresh \in 1..(MaxPid + 1) /\ m.id \in Identity /\ m.id[1] \in 1..(fresh - 1)
    BY DEF Typed, LateOK, Late
  <1>2. m.id[1] \in Pids
    BY <1>1 DEF Pids
  <1>. QED
    BY <1>1, <1>2 DEF Identity, LateOK

\* What the leader of a partition does with a marker keeps the types.
LEMMA ApplyMarkerTyped ==
    ASSUME Typed, NEW m, LateOK(m, fresh), ApplyMarker(m)
    PROVE  /\ part' \in [Partitions -> [Pids -> Producer]]
           /\ \A r \in produces' : r \in Batch /\ r.id \in given
           /\ ended' \in SUBSET [txn : Identity, p : Partitions, commit : BOOLEAN]
  <1>1. PICK pid \in Pids, k \in Int : m.id[1] = pid /\ m.id[2] = k
    BY LatePid
  <1>2. m.p \in Partitions /\ m.epoch \in Nat /\ m.commit \in BOOLEAN
    BY DEF LateOK, Late
  <1>3. PICK s \in Producer : s = part[m.p][pid]
    BY <1>2 DEF Typed
  <1>4. CASE MarkerDecision(m) # "append"
    BY <1>4 DEF ApplyMarker, Typed
  <1>5. CASE MarkerDecision(m) = "append"
    <2>1. PICK t : t = TP!AppendMarker(s, k, m.epoch)
      OBVIOUS
    <2>2. t \in Producer
      BY <1>2, <2>1 DEF TP!AppendMarker, Producer
    <2>3. part' = [part EXCEPT ![m.p][pid] = t]
      BY <1>1, <1>3, <1>5, <2>1 DEF ApplyMarker
    <2>4. part' \in [Partitions -> [Pids -> Producer]]
      BY <1>2, <2>2, <2>3, PartChanges DEF Typed
    <2>5. \A r \in produces : r \in Batch /\ r.id \in given
      BY DEF Typed
    <2>6. produces' = produces \/ produces' = LoseGuards(m.p, pid, produces)
      BY <1>1, <1>5 DEF ApplyMarker
    <2>7. \A r \in produces' : r \in Batch /\ r.id \in given
      BY <2>5, <2>6, LoseGuardsKeeps
    <2>8. ended' = ended \cup {[txn |-> <<pid, e>>, p |-> m.p, commit |-> m.commit] : e \in s.open}
      BY <1>1, <1>3, <1>5 DEF ApplyMarker
    <2>9. \A e \in s.open : <<pid, e>> \in Identity
      BY DEF Producer, Identity, Pids
    <2>10. ended' \in SUBSET [txn : Identity, p : Partitions, commit : BOOLEAN]
      BY <1>2, <2>8, <2>9 DEF Typed
    <2>. QED
      BY <2>4, <2>7, <2>10
  <1>. QED
    BY <1>4, <1>5

\* A fan-out with one partition less to do.
LEMMA JobProgress ==
    ASSUME NEW f, NEW j, JobOK(j, f), NEW p \in Partitions, 
           NEW failure \in {"unexpected", "retriable", "fenced"}
    PROVE  /\ JobOK(Fail([j EXCEPT !.todo = @ \ {p}], failure), f)
           /\ JobOK([[j EXCEPT !.todo = @ \ {p}] EXCEPT !.written = @ \cup {p}], f)
  BY DEF JobOK, Job, Fail

LEMMA HandleMarkerTyped ==
    ASSUME Typed, NEW j \in jobs, NEW p \in Partitions, HandleMarker(j, p)
    PROVE  Typed'
  <1>1. JobOK(j, fresh) /\ fresh \in Nat
    BY DEF Typed
  <1>2. LateOK(Marker(j, p), fresh) /\ ApplyMarker(Marker(j, p))
    BY <1>1, MarkerOK DEF HandleMarker
  <1>3. \A i \in jobs' : JobOK(i, fresh)
    <2>1. \A i \in jobs' : \/ i \in jobs \/ i = Fail([j EXCEPT !.todo = @ \ {p}], "fenced")
                           \/ i = [[j EXCEPT !.todo = @ \ {p}] EXCEPT !.written = @ \cup {p}]
      BY DEF HandleMarker
    <2>2. /\ JobOK(Fail([j EXCEPT !.todo = @ \ {p}], "fenced"), fresh)
          /\ JobOK([[j EXCEPT !.todo = @ \ {p}] EXCEPT !.written = @ \cup {p}], fresh)
      BY <1>1, JobProgress
    <2>. QED
      BY <2>1, <2>2 DEF Typed
  <1>4. UNCHANGED <<leader, log, coord, late, fresh, given, asked, told>>
    BY DEF HandleMarker
  <1>. QED
    BY <1>2, <1>3, <1>4, ApplyMarkerTyped, DataTyped DEF Typed

LEMMA StopWaitingTyped ==
    ASSUME Typed, NEW j \in jobs, NEW p \in Partitions, StopWaiting(j, p)
    PROVE  Typed'
  <1>1. JobOK(j, fresh) /\ fresh \in Nat
    BY DEF Typed
  <1>2. \A m \in late' : LateOK(m, fresh)
    BY <1>1, MarkerOK DEF StopWaiting, Typed
  <1>3. \A i \in jobs' : JobOK(i, fresh)
    <2>1. \A i \in jobs' : i \in jobs \/ i = Fail([j EXCEPT !.todo = @ \ {p}], "retriable")
      BY DEF StopWaiting
    <2>2. JobOK(Fail([j EXCEPT !.todo = @ \ {p}], "retriable"), fresh)
      BY <1>1, JobProgress
    <2>. QED
      BY <2>1, <2>2 DEF Typed
  <1>4. UNCHANGED <<leader, log, coord, part, produces, fresh, given, asked, told, ended>>
    BY DEF StopWaiting
  <1>. QED
    BY <1>2, <1>3, <1>4, DataTyped DEF Typed

LEMMA RefuseMarkerTyped ==
    ASSUME Typed, NEW j \in jobs, NEW p \in Partitions, RefuseMarker(j, p)
    PROVE  Typed'
  <1>1. JobOK(j, fresh) /\ fresh \in Nat
    BY DEF Typed
  <1>2. \A i \in jobs' : JobOK(i, fresh)
    <2>1. \A i \in jobs' : i \in jobs \/ i = Fail([j EXCEPT !.todo = @ \ {p}], "unexpected")
      BY DEF RefuseMarker
    <2>2. JobOK(Fail([j EXCEPT !.todo = @ \ {p}], "unexpected"), fresh)
      BY <1>1, JobProgress
    <2>. QED
      BY <2>1, <2>2 DEF Typed
  <1>3. UNCHANGED <<leader, log, coord, late, part, produces, fresh, given, asked, told, ended>>
    BY DEF RefuseMarker
  <1>. QED
    BY <1>2, <1>3, DataTyped DEF Typed

LEMMA HandleLateMarkerTyped ==
    ASSUME Typed, NEW m \in late, HandleLateMarker(m)
    PROVE  Typed'
  <1>1. LateOK(m, fresh) /\ ApplyMarker(m)
    BY DEF Typed, HandleLateMarker
  <1>2. UNCHANGED <<leader, log, coord, jobs, fresh, given, asked, told>> /\ late' \subseteq late
    BY DEF HandleLateMarker
  <1>. QED
    BY <1>1, <1>2, ApplyMarkerTyped, DataTyped DEF Typed

\* What the end of a fan-out leaves of the live entry.
LEMMA LiveForms ==
    ASSUME NEW f \in Nat, NEW e, Formed(e, f), NEW x, NEW written, NEW y,
           y = remove_marked_partitions(e, x, written)
    PROVE  /\ Formed(y, f)
           /\ y = [e EXCEPT !.partitions = y.partitions]
           /\ y.state = e.state /\ y.id = e.id /\ y.last = e.last /\ y.prev = e.prev /\ y.next = e.next
           /\ y.partitions \subseteq e.partitions
           /\ e.state \notin Prepared \/ e.state # x.state \/ e.id # x.id => y = e
           /\ e.state \in Prepared /\ e.state = x.state /\ e.id = x.id => y.partitions = e.partitions \ written
  <1>1. e \in Entry
    BY DEF Formed
  <1>2. CASE e.state \in Prepared /\ e.state = x.state /\ e.id = x.id
    <2>1. y = [e EXCEPT !.partitions = e.partitions \ written]
      BY <1>2 DEF remove_marked_partitions
    <2>2. /\ y \in Entry
          /\ y.state = e.state /\ y.id = e.id /\ y.last = e.last /\ y.prev = e.prev /\ y.next = e.next
          /\ y.partitions = e.partitions \ written
      BY <1>1, <2>1 DEF Entry
    <2>3. e # NoEntry
      BY <1>2 DEF NoEntry, new_empty, Prepared
    <2>4. Formed(y, f)
      BY <2>2, <2>3 DEF Formed
    <2>. QED
      BY <1>2, <2>1, <2>2, <2>4
  <1>3. CASE ~(e.state \in Prepared /\ e.state = x.state /\ e.id = x.id)
    <2>1. y = e
      BY <1>3 DEF remove_marked_partitions
    <2>2. e = [e EXCEPT !.partitions = e.partitions]
      BY <1>1 DEF Entry
    <2>. QED
      BY <1>3, <2>1, <2>2
  <1>. QED
    BY <1>2, <1>3

\* What a fan-out answers.
LEMMA AnswerEndTyped ==
    ASSUME Typed, NEW j \in jobs, AnswerEnd(j) \/ UNCHANGED <<given, told>>
    PROVE  given \subseteq given' /\ (\A id \in given' : GivenOK(id, fresh)) /\ told' \in SUBSET Identity
  <1>1. JobOK(j, fresh) /\ fresh \in Nat
    BY DEF Typed
  <1>2. j.snap.state # "none" /\ Formed(j.snap, fresh)
    BY <1>1 DEF JobOK, Prepared
  <1>3. GivenOK(client_producer_identity(j.snap), fresh)
    BY <1>1, <1>2, ClientIdentity DEF GivenOK, Identity
  <1>4. TransactionOf(j.snap) \in Identity
    BY <1>2 DEF TransactionOf, Formed, Entry, Identity
  <1>. QED
    BY <1>3, <1>4 DEF AnswerEnd, Answer, Typed

LEMMA GiveUpTyped ==
    ASSUME Typed, NEW j \in jobs, GiveUpFanOut(j) \/ SkipCompletion(j)
    PROVE  Typed'
  <1>a. j \in Job
    BY DEF Typed, JobOK
  <1>1. PICK b \in Brokers : b = j.broker
    BY <1>a DEF Job
  <1>2. CoordOK(coord[b], fresh, leader.epoch) /\ fresh \in Nat
    BY DEF Typed
  <1>3. PICK y : y = Live(j)
    OBVIOUS
  <1>4. Formed(y, fresh)
    BY <1>1, <1>2, <1>3, LiveForms DEF CoordOK, Live
  <1>5. PICK q \in BOOLEAN, s \in BOOLEAN :
             coord' = [coord EXCEPT ![b].entry = y, ![b].queued = q, ![b].stopped = s]
    <2>1. CASE GiveUpFanOut(j)
      <3>1. coord' = [coord EXCEPT ![b].entry = y,
                          ![b].queued = coord[b].queued \/ j.failure = "retriable" \/ j.kind = "fence",
                          ![b].stopped = (j.failure = "unexpected")]
        BY <1>1, <1>3, <2>1 DEF GiveUpFanOut
      <3>2. /\ (coord[b].queued \/ j.failure = "retriable" \/ j.kind = "fence") \in BOOLEAN
            /\ (j.failure = "unexpected") \in BOOLEAN
        OBVIOUS
      <3>. QED
        BY <3>1, <3>2
    <2>2. CASE SkipCompletion(j)
      <3>1. coord' = [coord EXCEPT ![b].entry = y]
        BY <1>1, <1>3, <2>2 DEF SkipCompletion
      <3>2. coord[b].queued \in BOOLEAN /\ coord[b].stopped \in BOOLEAN /\ coord \in [Brokers -> Coordinator]
        BY DEF Typed, Coordinator
      <3>3. coord' = [coord EXCEPT ![b].entry = y, ![b].queued = coord[b].queued,
                                     ![b].stopped = coord[b].stopped]
        BY <3>1, <3>2 DEF Coordinator
      <3>. QED
        BY <3>2, <3>3
    <2>. QED
      BY <2>1, <2>2
  <1>6. PICK c : c = [coord[b] EXCEPT !.entry = y, !.queued = q, !.stopped = s]
    OBVIOUS
  <1>7. CoordOK(c, fresh, leader.epoch)
    <2>1. y \in Entry
      BY <1>4 DEF Formed
    <2>2. c \in Coordinator /\ c.entry = y /\ c.write = coord[b].write /\ c.epoch = coord[b].epoch
      BY <1>2, <1>6, <2>1 DEF CoordOK, Coordinator
    <2>. QED
      BY <1>2, <1>4, <2>2 DEF CoordOK
  <1>8. coord' = [coord EXCEPT ![b] = c]
    BY <1>5, <1>6
  <1>9. /\ UNCHANGED <<leader, log, late, part, produces, fresh, asked, ended>> /\ Entries' = Entries
        /\ jobs' \subseteq jobs /\ (AnswerEnd(j) \/ UNCHANGED <<given, told>>)
    BY DEF GiveUpFanOut, SkipCompletion, Entries
  <1>10. given \subseteq given' /\ (\A id \in given' : GivenOK(id, fresh)) /\ told' \in SUBSET Identity
    BY <1>9, AnswerEndTyped
  <1>. QED
    BY <1>7, <1>8, <1>9, <1>10, CoordTyped DEF Typed

\* A fan-out completes a transaction that is prepared.
LEMMA CompletesPrepared ==
    ASSUME Typed, NEW j \in jobs, Completes(j)
    PROVE  /\ Live(j).state = j.snap.state /\ Live(j).id = j.snap.id /\ j.snap.state \in Prepared
           /\ Formed(Live(j), fresh) /\ coord[j.broker].status = "loaded"
           /\ coord[j.broker].entry.state = j.snap.state /\ coord[j.broker].entry.id = j.snap.id
           /\ Live(j).partitions = coord[j.broker].entry.partitions \ j.written
  <1>1. PICK b \in Brokers : b = j.broker
    BY SMTT(40) DEF Typed, JobOK, Job
  <1>2. Formed(coord[b].entry, fresh) /\ fresh \in Nat /\ j.snap \in Entry /\ j.snap.state \in Prepared
    BY DEF Typed, CoordOK, JobOK, Formed
  <1>3. PICK y : y = Live(j)
    OBVIOUS
  <1>4. y = remove_marked_partitions(coord[b].entry, j.snap, j.written)
    BY <1>1, <1>3 DEF Live
  <1>5. /\ Formed(y, fresh) /\ y.state = coord[b].entry.state /\ y.id = coord[b].entry.id
        /\ coord[b].entry.state \in Prepared /\ coord[b].entry.state = j.snap.state /\ coord[b].entry.id = j.snap.id
              => y.partitions = coord[b].entry.partitions \ j.written
    BY <1>2, <1>4, LiveForms
  <1>6. y.state = j.snap.state /\ y.id = j.snap.id /\ coord[b].status = "loaded"
    <2>1. CASE j.kind = "end"
      BY <1>1, <1>3, <2>1 DEF Completes, decide_end_txn_completion
    <2>2. CASE j.kind # "end"
      <3>1. y = [j.snap EXCEPT !.partitions = @ \ j.written] /\ coord[b].status = "loaded"
        BY <1>1, <1>3, <2>2 DEF Completes, completion_decision, Marked
      <3>. QED
        BY <1>2, <3>1 DEF Entry
    <2>. QED
      BY <2>1, <2>2
  <1>. QED
    BY <1>1, <1>2, <1>3, <1>5, <1>6

LEMMA CompleteTyped ==
    ASSUME Typed, NEW j \in jobs, CompleteTransaction(j)
    PROVE  Typed'
  <1>a. j \in Job
    BY DEF Typed, JobOK
  <1>1. PICK b \in Brokers : b = j.broker
    BY <1>a DEF Job
  <1>2. PICK y : y = Live(j)
    OBVIOUS
  <1>3. Formed(y, fresh) /\ y.state \in Prepared /\ fresh \in Nat
    BY <1>2, CompletesPrepared DEF CompleteTransaction, Typed
  <1>4. PICK x : x = apply_completion(y)
    OBVIOUS
  <1>5. Formed(x, fresh)
    BY <1>3, <1>4, CompletionForms
  <1>6. KindOK("complete", x, NoId) /\ "complete" \in Kinds /\ BeginWrite(b, y, "complete", x, NoId)
    BY <1>1, <1>2, <1>4 DEF KindOK, Kinds, CompleteTransaction
  <1>7. /\ UNCHANGED <<leader, late, part, produces, fresh, asked, ended>>
        /\ jobs' \subseteq jobs /\ AnswerEnd(j)
    BY DEF CompleteTransaction
  <1>8. given \subseteq given' /\ (\A id \in given' : GivenOK(id, fresh)) /\ told' \in SUBSET Identity
    BY <1>7, AnswerEndTyped
  <1>9. fresh' \in fresh..(MaxPid + 1)
    BY <1>7 DEF Typed
  <1>. QED
    BY <1>3, <1>5, <1>6, <1>7, <1>8, <1>9, WriteTyped, RequestsType

LEMMA CompletionTaskTyped ==
    ASSUME Typed, NEW b \in Brokers, CompletionTask(b)
    PROVE  Typed'
  <1>1. CoordOK(coord[b], fresh, leader.epoch)
    BY DEF Typed
  <1>2. PICK c : c = [coord[b] EXCEPT !.queued = FALSE, !.stopped = FALSE]
    OBVIOUS
  <1>3. CoordOK(c, fresh, leader.epoch)
    BY <1>1, <1>2 DEF CoordOK, Coordinator
  <1>4. coord' = [coord EXCEPT ![b] = c]
    BY <1>2 DEF CompletionTask
  <1>5. UNCHANGED <<leader, log, late, part, produces, fresh, given, asked, told, ended>> /\ Entries' = Entries
    BY DEF CompletionTask, Entries
  <1>6. \A j \in jobs' : JobOK(j, fresh)
    <2>1. \A j \in jobs' : j \in jobs \/ (coord[b].entry.state \in Prepared /\ j = NewJob(b, "task", coord[b].entry))
      BY DEF CompletionTask
    <2>2. Formed(coord[b].entry, fresh)
      BY <1>1 DEF CoordOK
    <2>. QED
      BY <2>1, <2>2, NewJobOK DEF Typed
  <1>. QED
    BY <1>3, <1>4, <1>5, <1>6, CoordTyped DEF Typed

LEMMA InitTyped == Init => Typed
  <1>. SUFFICES ASSUME Init PROVE Typed
    OBVIOUS
  <1>1. leader \in [broker : Brokers, epoch : Nat] /\ fresh = 1 /\ fresh \in 1..(MaxPid + 1)
    BY DEF Init
  <1>2. NoEntry \in Entry /\ Formed(NoEntry, fresh)
    BY <1>1, NoEntryFormed DEF Formed
  <1>3. log \in Seq(Entry) /\ log # <<>> /\ Entries = {NoEntry}
    BY <1>2 DEF Init, Entries
  <1>4. coord \in [Brokers -> Coordinator] /\ \A b \in Brokers : CoordOK(coord[b], fresh, leader.epoch)
    BY <1>1, NewCoordinatorOK DEF Init, CoordOK
  <1>5. TP!new_producer \in Producer
    BY DEF TP!new_producer, Producer
  <1>6. part \in [Partitions -> [Pids -> Producer]]
    BY <1>5 DEF Init
  <1>. QED
    BY <1>1, <1>2, <1>3, <1>4, <1>6 DEF Init, Typed

LEMMA TypedStep == Typed /\ [Next]_vars => Typed'
  <1>. SUFFICES ASSUME Typed, [Next]_vars PROVE Typed'
    OBVIOUS
  <1>1. CASE UNCHANGED vars
    <2>1. Entries' = Entries
      BY <1>1 DEF vars, Entries
    <2>. QED
      BY <1>1, <2>1 DEF vars, Typed
  <1>2. ASSUME NEW b \in Brokers,
               \/ Elect(b) \/ ApplyImage(b) \/ Load(b) \/ Crash(b)
               \/ FinishWrite(b) \/ FailWrite(b)
               \/ Reap(b) \/ ResumeAbort(b) \/ CompletionTask(b)
        PROVE  Typed'
    BY <1>2, ElectTyped, ApplyImageTyped, LoadTyped, CrashTyped, FinishWriteTyped, FailWriteTyped,
       ReapTyped, ResumeAbortTyped, CompletionTaskTyped
  <1>3. ASSUME NEW b \in Brokers,
               \/ \E id \in given \cup {NoId} : InitProducerId(b, id)
               \/ \E a \in asked : EndTxn(b, a[1], a[2])
               \/ \E r \in produces : CheckWithCoordinator(r, b)
        PROVE  Typed'
    BY <1>3, InitProducerIdTyped, EndTxnTyped, CheckTyped
  <1>4. ASSUME NEW id \in given,
               \/ \E commit \in BOOLEAN : Ask(id, commit)
               \/ \E p \in Partitions : Produce(p, id)
        PROVE  Typed'
    BY <1>4, AskTyped, ProduceTyped
  <1>5. ASSUME NEW r \in produces, AppendBatch(r) \/ RefuseBatch(r)
        PROVE  Typed'
    BY <1>5, AppendBatchTyped, RefuseBatchTyped
  <1>6. ASSUME NEW j \in jobs,
               \/ StartFanOut(j) \/ GiveUpFanOut(j) \/ CompleteTransaction(j) \/ SkipCompletion(j)
               \/ \E p \in Partitions : HandleMarker(j, p) \/ StopWaiting(j, p) \/ RefuseMarker(j, p)
        PROVE  Typed'
    BY <1>6, StartFanOutTyped, GiveUpTyped, CompleteTyped, HandleMarkerTyped, StopWaitingTyped,
       RefuseMarkerTyped
  <1>7. ASSUME NEW m \in late, HandleLateMarker(m) PROVE Typed'
    BY <1>7, HandleLateMarkerTyped
  <1>. QED
    BY <1>1, <1>2, <1>3, <1>4, <1>5, <1>6, <1>7 DEF Next

------------------------------------------------------------------------------
(* The steps that write.                                                   *)

\* e is x, without some of the partitions it marked.
Same(e, x) ==
    /\ e.state = x.state /\ e.id = x.id /\ e.last = x.last /\ e.prev = x.prev /\ e.next = x.next
    /\ e.partitions \subseteq x.partitions
    /\ e.state \notin Prepared => e.partitions = x.partitions

LEMMA SameIsSame ==
    /\ \A e : Same(e, e)
    /\ \A e, x, y : Same(e, x) /\ Same(x, y) => Same(e, y)
  BY DEF Same

LEMMA LiveIsSame ==
    ASSUME NEW f \in Nat, NEW e, Formed(e, f), NEW x, NEW written
    PROVE  Same(remove_marked_partitions(e, x, written), e)
  BY LiveForms DEF Same

\* The entries that a coordinator writes after the entry e.
Starts(e, x) ==
    /\ x.state = "Empty" /\ e.state \notin Prepared \cup {"Ongoing"}
    /\ e.state = "none" \/ Before(e.id, client_producer_identity(x))

Registers(e, x) ==
    /\ x.state = "Ongoing" /\ e.state \in {"Empty", "Ongoing"} \cup Completed /\ x.id = e.id
    /\ client_producer_identity(x) = client_producer_identity(e)
    /\ e.state = "Ongoing" => e.partitions \subseteq x.partitions

Prepares(e, x) ==
    /\ x.state \in Prepared /\ e.state # "none" /\ e.state \notin Prepared
    /\ TransactionOf(x) = e.id /\ Before(e.id, client_producer_identity(x))
    /\ e.state = "Ongoing" => x.partitions = e.partitions
    /\ Commits(x) => <<e.id, TRUE>> \in asked

Finishes(b, e, x) ==
    /\ x.state \in Completed /\ e.state \in Prepared
    /\ Txn(x) = TransactionOf(e) /\ Commits(x) = Commits(e)
    /\ client_producer_identity(x) = client_producer_identity(e)
    /\ \E j \in jobs : /\ j.todo = {} /\ j.failure = "none"
                       /\ coord[b].entry.state = j.snap.state /\ coord[b].entry.id = j.snap.id
                       /\ e.partitions = coord[b].entry.partitions \ j.written

\* The producer of a fan-out may be told.
ToldBefore == \A t \in told' : t \in told \/ \E j \in jobs : Commits(j.snap) /\ t = TransactionOf(j.snap)

Writes(b, live, kind, x, request) ==
    /\ BeginWrite(b, live, kind, x, request)
    /\ coord[b].status = "loaded" /\ Same(live, coord[b].entry)
    /\ live \in Entry /\ x \in Entry
    /\ Starts(live, x) \/ Registers(live, x) \/ Prepares(live, x) \/ Finishes(b, live, x)
    /\ ToldBefore /\ jobs' \subseteq jobs
    /\ UNCHANGED <<leader, late, part, produces, asked, ended>>

SomeWrite ==
    \E b \in Brokers, kind \in Kinds, request \in Requests, live \in Entry, x \in Entry :
        Writes(b, live, kind, x, request)

\* An answer that is given from the cached entry.
SomeAnswer ==
    /\ UNCHANGED <<leader, log, coord, jobs, late, part, asked, ended>>
    /\ \/ UNCHANGED <<produces, told>>
       \/ /\ UNCHANGED produces
          /\ \E b \in Brokers : /\ coord[b].entry.state \in Completed
                                /\ told' \subseteq told \cup {Txn(coord[b].entry)}
                                /\ Commits(coord[b].entry) \/ told' = told
       \/ /\ UNCHANGED told
          /\ \E b \in Brokers, r \in produces :
                 /\ coord[b].entry.state = "Ongoing" /\ coord[b].entry.id = r.id /\ r.p \in coord[b].entry.partitions
                 /\ produces' = (produces \ {r}) \cup {[r EXCEPT !.verified = TRUE]}

LEMMA InitProducerIdWrites ==
    ASSUME Typed, NEW b \in Brokers, NEW request, InitProducerId(b, request)
    PROVE  SomeWrite \/ SomeAnswer
  <1>1. PICK e \in Entry : e = coord[b].entry
    BY DEF Typed, CoordOK, Formed
  <1>2. /\ Formed(e, fresh) /\ e.state \notin Prepared /\ fresh \in Nat \ {0}
        /\ coord[b].status = "loaded" /\ Same(e, coord[b].entry)
    BY <1>1, SameIsSame DEF Typed, CoordOK, InitProducerId, Holds
  <1>3. UNCHANGED <<leader, jobs, late, part, produces, asked, told, ended>> /\ ToldBefore
    BY DEF InitProducerId, ToldBefore
  <1>4. CASE e.state = "none"
    <2>1. PICK x : x = new_empty(<<fresh, 0>>)
      OBVIOUS
    <2>2. x \in Entry /\ x.state = "Empty"
      BY <1>2, <2>1, NewEmptyFormed DEF Formed
    <2>3. Starts(e, x) /\ "init" \in Kinds /\ BeginWrite(b, e, "init", x, NoId)
      BY <1>1, <1>2, <1>4, <2>1, <2>2 DEF Starts, Kinds, InitProducerId
    <2>4. Writes(b, e, "init", x, NoId)
      BY <1>2, <1>3, <2>2, <2>3 DEF Writes
    <2>. QED
      BY <2>2, <2>3, <2>4, RequestsType DEF SomeWrite
  <1>5. CASE e.state # "none" /\ identity_decision(e, request) = "retry"
    BY <1>1, <1>3, <1>5 DEF InitProducerId, SomeAnswer, identity_decision
  <1>6. CASE e.state = "Ongoing" /\ identity_decision(e, request) = "bump"
    <2>1. PICK x : x = prepare_server_abort(e, fresh)
      OBVIOUS
    <2>2. /\ Formed(x, Allocated(e.id, fresh)) /\ x.state = "PrepareAbort" /\ x.partitions = e.partitions
          /\ TransactionOf(x) = e.id /\ Before(e.id, client_producer_identity(x))
      BY <1>2, <1>6, <2>1, ServerAbortForms
    <2>3. Prepares(e, x) /\ x \in Entry
      BY <1>2, <1>6, <2>2 DEF Prepares, Prepared, Commits, Formed
    <2>4. "fence" \in Kinds /\ BeginWrite(b, e, "fence", x, NoId)
      BY <1>1, <1>6, <2>1 DEF Kinds, InitProducerId, identity_decision
    <2>5. Writes(b, e, "fence", x, NoId)
      BY <1>2, <1>3, <2>3, <2>4 DEF Writes
    <2>. QED
      BY <2>3, <2>4, <2>5, RequestsType DEF SomeWrite
  <1>7. CASE e.state # "none" /\ e.state # "Ongoing" /\ identity_decision(e, request) = "bump"
    <2>1. PICK x : x = bump_epoch(e, request, fresh)
      OBVIOUS
    <2>2. Formed(x, Allocated(e.id, fresh)) /\ x.state = "Empty" /\ Before(e.id, client_producer_identity(x))
      BY <1>2, <1>7, <2>1, BumpForms
    <2>3. Starts(e, x) /\ x \in Entry
      BY <1>2, <1>7, <2>2 DEF Starts, Formed
    <2>4. "init" \in Kinds /\ BeginWrite(b, e, "init", x, NoId)
      BY <1>1, <1>7, <2>1 DEF Kinds, InitProducerId, identity_decision
    <2>5. Writes(b, e, "init", x, NoId)
      BY <1>2, <1>3, <2>3, <2>4 DEF Writes
    <2>. QED
      BY <2>3, <2>4, <2>5, RequestsType DEF SomeWrite
  <1>. QED
    BY <1>1, <1>4, <1>5, <1>6, <1>7 DEF InitProducerId

LEMMA EndTxnWrites ==
    ASSUME Typed, NEW b \in Brokers, NEW a \in asked, EndTxn(b, a[1], a[2])
    PROVE  SomeWrite \/ SomeAnswer
  <1>1. PICK e \in Entry : e = coord[b].entry
    BY DEF Typed, CoordOK, Formed
  <1>2. /\ Formed(e, fresh) /\ fresh \in Nat /\ coord[b].status = "loaded" /\ Same(e, coord[b].entry)
    BY <1>1, SameIsSame DEF Typed, CoordOK, EndTxn, Holds
  <1>3. PICK id \in given, commit \in BOOLEAN : a[1] = id /\ a[2] = commit /\ a = <<id, commit>>
    BY DEF Typed
  <1>4. GivenOK(id, fresh)
    BY DEF Typed
  <1>5. UNCHANGED <<leader, jobs, late, part, produces, asked, ended>>
    BY DEF EndTxn
  <1>6. CASE end_txn_decision(e, id, commit) = "prepare"
    <2>1. PICK x : x = prepare_transaction(e, commit, fresh)
      OBVIOUS
    <2>2. e.state # "none" /\ e.state \notin Prepared /\ e.id = id
      BY <1>2, <1>4, <1>6, EndTxnPrepares
    <2>3. /\ Formed(x, Allocated(e.id, fresh)) /\ x.state = (IF commit THEN "PrepareCommit" ELSE "PrepareAbort")
          /\ e.state = "Ongoing" => x.partitions = e.partitions
          /\ TransactionOf(x) = e.id /\ Before(e.id, client_producer_identity(x))
      BY <1>2, <2>1, <2>2, TransactionForms
    <2>4. Commits(x) => commit
      BY <2>3 DEF Commits
    <2>5. Commits(x) => <<e.id, TRUE>> \in asked
      BY <1>3, <2>2, <2>4
    <2>6. Prepares(e, x) /\ x \in Entry
      BY <2>2, <2>3, <2>5 DEF Prepares, Prepared, Formed
    <2>7. /\ "end" \in Kinds /\ BeginWrite(b, e, "end", x, NoId) /\ UNCHANGED told
      BY <1>1, <1>3, <1>6, <2>1 DEF Kinds, EndTxn
    <2>8. Writes(b, e, "end", x, NoId)
      BY <1>2, <1>5, <2>6, <2>7 DEF Writes, ToldBefore
    <2>. QED
      BY <2>6, <2>7, <2>8, RequestsType DEF SomeWrite
  <1>7. CASE end_txn_decision(e, id, commit) = "complete"
    <2>1. e.state \in Completed /\ Txn(e) = id /\ Commits(e) = commit
      BY <1>2, <1>4, <1>7, EndTxnCompletes
    <2>2. told' = (IF commit THEN told \cup {id} ELSE told) /\ UNCHANGED <<log, coord>>
      BY <1>1, <1>3, <1>7 DEF EndTxn, Answer
    <2>. QED
      BY <1>1, <1>5, <2>1, <2>2 DEF SomeAnswer
  <1>. QED
    BY <1>1, <1>3, <1>6, <1>7 DEF EndTxn

LEMMA ReapWrites ==
    ASSUME Typed, NEW b \in Brokers, Reap(b)
    PROVE  SomeWrite
  <1>1. PICK e \in Entry : e = coord[b].entry
    BY DEF Typed, CoordOK, Formed
  <1>2. /\ Formed(e, fresh) /\ e.state = "Ongoing" /\ fresh \in Nat
        /\ coord[b].status = "loaded" /\ Same(e, coord[b].entry)
    BY <1>1, SameIsSame DEF Typed, CoordOK, Reap, Holds
  <1>3. PICK x : x = prepare_server_abort(e, fresh)
    OBVIOUS
  <1>4. /\ Formed(x, Allocated(e.id, fresh)) /\ x.state = "PrepareAbort" /\ x.partitions = e.partitions
        /\ TransactionOf(x) = e.id /\ Before(e.id, client_producer_identity(x))
    BY <1>2, <1>3, ServerAbortForms
  <1>5. Prepares(e, x) /\ x \in Entry
    BY <1>2, <1>4 DEF Prepares, Prepared, Commits, Formed
  <1>6. "reap" \in Kinds /\ Writes(b, e, "reap", x, NoId)
    BY <1>1, <1>2, <1>3, <1>5 DEF Kinds, Reap, Writes, ToldBefore
  <1>. QED
    BY <1>5, <1>6, RequestsType DEF SomeWrite

LEMMA CheckWrites ==
    ASSUME Typed, NEW b \in Brokers, NEW r \in produces, CheckWithCoordinator(r, b)
    PROVE  SomeWrite \/ SomeAnswer
  <1>1. PICK e \in Entry : e = coord[b].entry
    BY DEF Typed, CoordOK, Formed
  <1>2. /\ Formed(e, fresh) /\ fresh \in Nat /\ coord[b].status = "loaded" /\ Same(e, coord[b].entry)
        /\ r.id \in Identity /\ r.p \in Partitions
    BY <1>1, SameIsSame DEF Typed, CoordOK, CheckWithCoordinator, Holds, Batch
  <1>3. UNCHANGED <<leader, jobs, late, part, asked, told, ended>>
    BY DEF CheckWithCoordinator
  <1>4. CASE registration_decision(e, r.id, r.p) = "registered"
    <2>1. produces' = (produces \ {r}) \cup {[r EXCEPT !.verified = TRUE]} /\ UNCHANGED <<log, coord>>
      BY <1>1, <1>4 DEF CheckWithCoordinator
    <2>2. e.id = r.id /\ e.state = "Ongoing" /\ r.p \in e.partitions
      BY <1>4, RegistrationDecides
    <2>. QED
      BY <1>1, <1>3, <2>1, <2>2 DEF SomeAnswer
  <1>5. CASE registration_decision(e, r.id, r.p) = "register"
    <2>1. PICK x : x = stage_registration(e, r.p)
      OBVIOUS
    <2>2. e.state \in {"Empty", "Ongoing"} \cup Completed
      BY <1>5, RegistrationDecides
    <2>3. /\ Formed(x, fresh) /\ x.state = "Ongoing" /\ x.id = e.id
          /\ e.state = "Ongoing" => e.partitions \subseteq x.partitions
          /\ client_producer_identity(x) = client_producer_identity(e)
      BY <1>2, <2>1, <2>2, RegistrationForms
    <2>4. Registers(e, x) /\ x \in Entry
      BY <2>2, <2>3 DEF Registers, Formed
    <2>5. "add" \in Kinds /\ <<r.id, r.p>> \in Requests
      BY <1>2, RequestsType DEF Kinds
    <2>6. BeginWrite(b, e, "add", x, <<r.id, r.p>>) /\ UNCHANGED produces
      BY <1>1, <1>5, <2>1 DEF CheckWithCoordinator
    <2>7. Writes(b, e, "add", x, <<r.id, r.p>>)
      BY <1>2, <1>3, <2>4, <2>6 DEF Writes, ToldBefore
    <2>. QED
      BY <2>4, <2>5, <2>7 DEF SomeWrite
  <1>. QED
    BY <1>1, <1>4, <1>5 DEF CheckWithCoordinator

\* What a fan-out answers is what its snapshot decided.
LEMMA AnswerEndTold ==
    ASSUME NEW j \in jobs, AnswerEnd(j) \/ UNCHANGED <<given, told>>
    PROVE  ToldBefore
  BY DEF AnswerEnd, Answer, ToldBefore, Commits

LEMMA CompleteWrites ==
    ASSUME Typed, NEW j \in jobs, CompleteTransaction(j)
    PROVE  SomeWrite
  <1>a. j \in Job
    BY DEF Typed, JobOK
  <1>1. PICK b \in Brokers : b = j.broker
    BY <1>a DEF Job
  <1>2. PICK y : y = Live(j)
    OBVIOUS
  <1>3. /\ Formed(coord[b].entry, fresh) /\ fresh \in Nat /\ j.todo = {} /\ j.failure = "none"
    BY DEF Typed, CoordOK, CompleteTransaction
  <1>4. Same(y, coord[b].entry)
    BY <1>1, <1>2, <1>3, LiveIsSame DEF Live
  <1>5. /\ Formed(y, fresh) /\ y.state \in Prepared /\ coord[b].status = "loaded"
        /\ coord[b].entry.state = j.snap.state /\ coord[b].entry.id = j.snap.id
        /\ y.partitions = coord[b].entry.partitions \ j.written
    BY <1>1, <1>2, CompletesPrepared DEF CompleteTransaction
  <1>6. PICK x : x = apply_completion(y)
    OBVIOUS
  <1>7. /\ Formed(x, fresh) /\ x.state \in Completed /\ Commits(x) = Commits(y)
        /\ Txn(x) = TransactionOf(y) /\ client_producer_identity(x) = client_producer_identity(y)
    BY <1>3, <1>5, <1>6, CompletionForms
  <1>8. Finishes(b, y, x)
    BY <1>3, <1>5, <1>7 DEF Finishes
  <1>9. /\ BeginWrite(b, y, "complete", x, NoId) /\ jobs' \subseteq jobs /\ AnswerEnd(j)
        /\ UNCHANGED <<leader, late, part, produces, asked, ended>>
    BY <1>1, <1>2, <1>6 DEF CompleteTransaction
  <1>10. y \in Entry /\ x \in Entry /\ "complete" \in Kinds
    BY <1>5, <1>7 DEF Formed, Kinds
  <1>11. Writes(b, y, "complete", x, NoId)
    BY <1>4, <1>5, <1>8, <1>9, <1>10, AnswerEndTold DEF Writes
  <1>. QED
    BY <1>10, <1>11, RequestsType DEF SomeWrite

\* The steps by what they change of the log and of the coordinators.
LEMMA StepKinds ==
    ASSUME Typed, [Next]_vars
    PROVE  \/ SomeWrite \/ SomeAnswer
           \/ \E b \in Brokers : \/ Elect(b) \/ ApplyImage(b) \/ Load(b) \/ Crash(b)
                                 \/ FinishWrite(b) \/ FailWrite(b) \/ ResumeAbort(b) \/ CompletionTask(b)
           \/ \E j \in jobs : GiveUpFanOut(j) \/ SkipCompletion(j)
           \/ \E id \in given : \/ \E commit \in BOOLEAN : Ask(id, commit)
                                \/ \E p \in Partitions : Produce(p, id)
           \/ \E r \in produces : AppendBatch(r) \/ RefuseBatch(r)
           \/ \E j \in jobs : \/ StartFanOut(j)
                              \/ \E p \in Partitions : HandleMarker(j, p) \/ StopWaiting(j, p) \/ RefuseMarker(j, p)
           \/ \E m \in late : HandleLateMarker(m)
           \/ UNCHANGED vars
  BY InitProducerIdWrites, EndTxnWrites, ReapWrites, CheckWrites, CompleteWrites DEF Next

\* What the steps that do not write do to a coordinator.
LEMMA ApplyImageEffect ==
    ASSUME Typed, NEW b \in Brokers, ApplyImage(b)
    PROVE  /\ \A d \in Brokers : d # b => coord'[d] = coord[d]
           /\ coord'[b].entry = NoEntry /\ coord'[b].status # "loaded" /\ coord'[b].write = coord[b].write
  <1>1. coord \in [Brokers -> Coordinator] /\ coord[b] \in Coordinator
    BY DEF Typed
  <1>2. PICK c : c = [coord[b] EXCEPT !.epoch = leader.epoch, !.entry = NoEntry, !.stopped = FALSE,
                         !.status = IF leader.broker = b THEN "loading" ELSE "none"]
    OBVIOUS
  <1>3. coord' = [coord EXCEPT ![b] = c]
    BY <1>2 DEF ApplyImage
  <1>4. coord'[b] = c /\ \A d \in Brokers : d # b => coord'[d] = coord[d]
    BY <1>1, <1>3
  <1>5. c.entry = NoEntry /\ c.status # "loaded" /\ c.write = coord[b].write
    BY <1>1, <1>2 DEF Coordinator
  <1>. QED
    BY <1>4, <1>5

LEMMA LoadEffect ==
    ASSUME Typed, NEW b \in Brokers, Load(b)
    PROVE  /\ \A d \in Brokers : d # b => coord'[d] = coord[d]
           /\ coord'[b].entry = Last(log) /\ coord'[b].write = coord[b].write
  <1>1. coord \in [Brokers -> Coordinator] /\ coord[b] \in Coordinator
    BY DEF Typed
  <1>2. PICK c : c = [coord[b] EXCEPT !.status = "loaded", !.entry = Last(log),
                                      !.queued = @ \/ Last(log).state \in Prepared]
    OBVIOUS
  <1>3. coord' = [coord EXCEPT ![b] = c]
    BY <1>2 DEF Load
  <1>4. coord'[b] = c /\ \A d \in Brokers : d # b => coord'[d] = coord[d]
    BY <1>1, <1>3
  <1>5. c.entry = Last(log) /\ c.write = coord[b].write
    BY <1>1, <1>2 DEF Coordinator
  <1>. QED
    BY <1>4, <1>5

LEMMA FinishWriteEffect ==
    ASSUME Typed, NEW b \in Brokers, FinishWrite(b)
    PROVE  /\ \A d \in Brokers : d # b => coord'[d] = coord[d]
           /\ coord'[b].entry = coord[b].write.entry /\ coord'[b].write = NoWrite
  <1>1. coord \in [Brokers -> Coordinator] /\ coord[b] \in Coordinator
    BY DEF Typed
  <1>2. PICK c : c = [coord[b] EXCEPT !.entry = coord[b].write.entry, !.write = NoWrite,
                                      !.queued = @ \/ coord[b].write.kind = "reap", !.stopped = FALSE]
    OBVIOUS
  <1>3. coord' = [coord EXCEPT ![b] = c]
    BY <1>2 DEF FinishWrite
  <1>4. coord'[b] = c /\ \A d \in Brokers : d # b => coord'[d] = coord[d]
    BY <1>1, <1>3
  <1>5. c.entry = coord[b].write.entry /\ c.write = NoWrite
    BY <1>1, <1>2 DEF Coordinator
  <1>. QED
    BY <1>4, <1>5

LEMMA FailWriteEffect ==
    ASSUME Typed, NEW b \in Brokers, FailWrite(b)
    PROVE  /\ \A d \in Brokers : d # b => coord'[d] = coord[d]
           /\ coord'[b].entry = coord[b].entry /\ coord'[b].write = NoWrite /\ coord'[b].status = coord[b].status /\ coord'[b].epoch = coord[b].epoch
  <1>1. coord \in [Brokers -> Coordinator] /\ coord[b] \in Coordinator
    BY DEF Typed
  <1>2. PICK c : c = [coord[b] EXCEPT !.write = NoWrite, !.queued = @ \/ coord[b].write.kind = "complete"]
    OBVIOUS
  <1>3. coord' = [coord EXCEPT ![b] = c]
    BY <1>2 DEF FailWrite
  <1>4. coord'[b] = c /\ \A d \in Brokers : d # b => coord'[d] = coord[d]
    BY <1>1, <1>3
  <1>5. c.entry = coord[b].entry /\ c.write = NoWrite /\ c.status = coord[b].status /\ c.epoch = coord[b].epoch
    BY <1>1, <1>2 DEF Coordinator
  <1>. QED
    BY <1>4, <1>5

LEMMA ResumeAbortEffect ==
    ASSUME Typed, NEW b \in Brokers, ResumeAbort(b)
    PROVE  /\ \A d \in Brokers : d # b => coord'[d] = coord[d]
           /\ coord'[b].entry = coord[b].entry /\ coord'[b].write = coord[b].write /\ coord'[b].status = coord[b].status /\ coord'[b].epoch = coord[b].epoch
  <1>1. coord \in [Brokers -> Coordinator] /\ coord[b] \in Coordinator
    BY DEF Typed
  <1>2. PICK c : c = [coord[b] EXCEPT !.queued = TRUE]
    OBVIOUS
  <1>3. coord' = [coord EXCEPT ![b] = c]
    BY <1>2 DEF ResumeAbort
  <1>4. coord'[b] = c /\ \A d \in Brokers : d # b => coord'[d] = coord[d]
    BY <1>1, <1>3
  <1>5. c.entry = coord[b].entry /\ c.write = coord[b].write /\ c.status = coord[b].status /\ c.epoch = coord[b].epoch
    BY <1>1, <1>2 DEF Coordinator
  <1>. QED
    BY <1>4, <1>5

LEMMA CompletionTaskEffect ==
    ASSUME Typed, NEW b \in Brokers, CompletionTask(b)
    PROVE  /\ \A d \in Brokers : d # b => coord'[d] = coord[d]
           /\ coord'[b].entry = coord[b].entry /\ coord'[b].write = coord[b].write /\ coord'[b].status = coord[b].status /\ coord'[b].epoch = coord[b].epoch
  <1>1. coord \in [Brokers -> Coordinator] /\ coord[b] \in Coordinator
    BY DEF Typed
  <1>2. PICK c : c = [coord[b] EXCEPT !.queued = FALSE, !.stopped = FALSE]
    OBVIOUS
  <1>3. coord' = [coord EXCEPT ![b] = c]
    BY <1>2 DEF CompletionTask
  <1>4. coord'[b] = c /\ \A d \in Brokers : d # b => coord'[d] = coord[d]
    BY <1>1, <1>3
  <1>5. c.entry = coord[b].entry /\ c.write = coord[b].write /\ c.status = coord[b].status /\ c.epoch = coord[b].epoch
    BY <1>1, <1>2 DEF Coordinator
  <1>. QED
    BY <1>4, <1>5

LEMMA GiveUpEffect ==
    ASSUME Typed, NEW j \in jobs, NEW b \in Brokers, b = j.broker, GiveUpFanOut(j)
    PROVE  /\ \A d \in Brokers : d # b => coord'[d] = coord[d]
           /\ coord'[b].entry = Live(j) /\ coord'[b].write = coord[b].write /\ coord'[b].status = coord[b].status /\ coord'[b].epoch = coord[b].epoch
  <1>1. coord \in [Brokers -> Coordinator] /\ coord[b] \in Coordinator
    BY DEF Typed
  <1>2. PICK c : c = [coord[b] EXCEPT !.entry = Live(j), 
                         !.queued = @ \/ j.failure = "retriable" \/ j.kind = "fence",
                         !.stopped = (j.failure = "unexpected")]
    OBVIOUS
  <1>3. coord' = [coord EXCEPT ![b] = c]
    BY <1>2 DEF GiveUpFanOut
  <1>4. coord'[b] = c /\ \A d \in Brokers : d # b => coord'[d] = coord[d]
    BY <1>1, <1>3
  <1>5. c.entry = Live(j) /\ c.write = coord[b].write /\ c.status = coord[b].status /\ c.epoch = coord[b].epoch
    BY <1>1, <1>2 DEF Coordinator
  <1>. QED
    BY <1>4, <1>5

LEMMA SkipEffect ==
    ASSUME Typed, NEW j \in jobs, NEW b \in Brokers, b = j.broker, SkipCompletion(j)
    PROVE  /\ \A d \in Brokers : d # b => coord'[d] = coord[d]
           /\ coord'[b].entry = Live(j) /\ coord'[b].write = coord[b].write /\ coord'[b].status = coord[b].status /\ coord'[b].epoch = coord[b].epoch
  <1>1. coord \in [Brokers -> Coordinator] /\ coord[b] \in Coordinator
    BY DEF Typed
  <1>2. PICK c : c = [coord[b] EXCEPT !.entry = Live(j)]
    OBVIOUS
  <1>3. coord' = [coord EXCEPT ![b] = c]
    BY <1>2 DEF SkipCompletion
  <1>4. coord'[b] = c /\ \A d \in Brokers : d # b => coord'[d] = coord[d]
    BY <1>1, <1>3
  <1>5. c.entry = Live(j) /\ c.write = coord[b].write /\ c.status = coord[b].status /\ c.epoch = coord[b].epoch
    BY <1>1, <1>2 DEF Coordinator
  <1>. QED
    BY <1>4, <1>5

------------------------------------------------------------------------------
(* The coordinator that leads.                                             *)

\* The leader of the state partition caches its committed entry, and its write is the last of the log.
Current ==
    \A b \in Brokers :
        /\ Leads(b, coord[b].epoch) /\ coord[b].status = "loaded" => Same(coord[b].entry, log[1])
        /\ coord[b].write.logged /\ Leads(b, coord[b].write.epoch) => Last(log) = coord[b].write.entry

\* One broker leads, and in one epoch.
LEMMA OneLeader ==
    ASSUME NEW b, NEW c, NEW m, NEW n, Leads(b, m), Leads(c, n)
    PROVE  b = c /\ m = n
  BY DEF Leads

LEMMA WriteCurrent ==
    ASSUME Typed, Current, NEW b \in Brokers, NEW live \in Entry, NEW kind \in Kinds, NEW x \in Entry,
           NEW request \in Requests, BeginWrite(b, live, kind, x, request),
           Same(live, coord[b].entry), leader' = leader
    PROVE  Current'
  <1>1. /\ \A c \in Brokers : c # b => coord'[c] = coord[c]
        /\ coord'[b].entry = live /\ coord'[b].epoch = coord[b].epoch
        /\ coord'[b].status = coord[b].status
        /\ coord'[b].write = [kind |-> kind, entry |-> x, epoch |-> coord[b].epoch,
                              logged |-> Leads(b, coord[b].epoch), request |-> request]
        /\ log'[1] = log[1]
        /\ Leads(b, coord[b].epoch) => Last(log') = x
        /\ ~Leads(b, coord[b].epoch) => log' = log
    BY WriteEffect
  <1>2. \A c, n : Leads(c, n)' <=> Leads(c, n)
    BY DEF Leads
  <1>3. ASSUME NEW c \in Brokers, c # b
        PROVE  /\ Leads(c, coord'[c].epoch) /\ coord'[c].status = "loaded" => Same(coord'[c].entry, log'[1])
               /\ coord'[c].write.logged /\ Leads(c, coord'[c].write.epoch) => Last(log') = coord'[c].write.entry
    BY <1>1, <1>3, OneLeader DEF Current
  <1>4. Leads(b, coord'[b].epoch) /\ coord'[b].status = "loaded" => Same(coord'[b].entry, log'[1])
    BY <1>1, SameIsSame DEF Current
  <1>5. coord'[b].write.logged /\ Leads(b, coord'[b].write.epoch) => Last(log') = coord'[b].write.entry
    BY <1>1
  <1>6. ASSUME NEW c \in Brokers
        PROVE  /\ Leads(c, coord'[c].epoch) /\ coord'[c].status = "loaded" => Same(coord'[c].entry, log'[1])
               /\ coord'[c].write.logged /\ Leads(c, coord'[c].write.epoch) => Last(log') = coord'[c].write.entry
    BY <1>3, <1>4, <1>5
  <1>. QED
    BY <1>2, <1>6 DEF Current, Leads

\* A step that does not write.
LEMMA CoordCurrent ==
    ASSUME Typed, Current, NEW b \in Brokers, leader' = leader,
           \A c \in Brokers : c # b => coord'[c] = coord[c],
           log' = log \/ ((\E n : Leads(b, n)) /\ log' = <<Last(log)>>),
           Leads(b, coord'[b].epoch) /\ coord'[b].status = "loaded" => Same(coord'[b].entry, log'[1]),
           coord'[b].write.logged => coord'[b].write = coord[b].write /\ log' = log
    PROVE  Current'
  <1>1. ASSUME NEW c \in Brokers
        PROVE  /\ Leads(c, coord'[c].epoch) /\ coord'[c].status = "loaded" => Same(coord'[c].entry, log'[1])
               /\ coord'[c].write.logged /\ Leads(c, coord'[c].write.epoch) => Last(log') = coord'[c].write.entry
    <2>1. CASE c = b
      BY <2>1 DEF Current
    <2>2. CASE c # b /\ log' = log
      BY <2>2 DEF Current
    <2>3. CASE c # b /\ \E n : Leads(b, n)
      BY <2>3, OneLeader
    <2>. QED
      BY <2>1, <2>2, <2>3
  <1>. QED
    BY <1>1 DEF Current, Leads

LEMMA CurrentStep == Typed /\ Current /\ [Next]_vars => Current'
  <1>. SUFFICES ASSUME Typed, Current, [Next]_vars PROVE Current'
    OBVIOUS
  <1>0. /\ coord \in [Brokers -> Coordinator] /\ leader.epoch \in Nat /\ fresh \in Nat
        /\ log \in Seq(Entry) /\ log # <<>>
    BY SMTT(40) DEF Typed
  <1>a. \A b \in Brokers : Formed(coord[b].entry, fresh) /\ coord[b].entry \in Entry
    BY DEF Typed, CoordOK, Formed
  <1>1. CASE UNCHANGED <<leader, log, coord>>
    BY <1>1 DEF Current, Leads
  <1>2. ASSUME NEW b \in Brokers, Elect(b) PROVE Current'
    <2>1. ASSUME NEW c \in Brokers PROVE ~Leads(c, coord[c].epoch)' /\ ~Leads(c, coord[c].write.epoch)'
      <3>1. coord[c].epoch <= leader.epoch /\ coord[c].write.epoch <= leader.epoch
            /\ coord[c].epoch \in Nat /\ coord[c].write.epoch \in Nat
        BY <1>0 DEF Typed, CoordOK, Coordinator, Write
      <3>2. leader'.epoch = leader.epoch + 1 /\ coord' = coord
        BY <1>2 DEF Elect
      <3>. QED
        BY <1>0, <3>1, <3>2 DEF Leads
    <2>. QED
      BY <2>1 DEF Current
  <1>3. ASSUME NEW b \in Brokers, ApplyImage(b) PROVE Current'
    <2>1. /\ \A c \in Brokers : c # b => coord'[c] = coord[c]
          /\ coord'[b].status # "loaded" /\ coord'[b].write = coord[b].write
          /\ leader' = leader /\ log' = log
      BY <1>3, ApplyImageEffect DEF ApplyImage
    <2>2. ~(Leads(b, coord'[b].epoch) /\ coord'[b].status = "loaded")
      BY <2>1
    <2>3. coord'[b].write.logged => coord'[b].write = coord[b].write /\ log' = log
      BY <2>1
    <2>. QED
      BY <2>1, <2>2, <2>3, CoordCurrent
  <1>4. ASSUME NEW b \in Brokers, Load(b) PROVE Current'
    <2>1. /\ \A c \in Brokers : c # b => coord'[c] = coord[c]
          /\ coord'[b].entry = Last(log) /\ coord'[b].write = NoWrite
          /\ leader' = leader /\ log' = <<Last(log)>> /\ Leads(b, coord[b].epoch)
      BY <1>4, LoadEffect DEF Load
    <2>2. log'[1] = Last(log)
      BY <2>1
    <2>3. Same(coord'[b].entry, log'[1])
      BY <1>0, <2>1, <2>2, SameIsSame, LastIsEntry
    <2>4. ~coord'[b].write.logged /\ \E n : Leads(b, n)
      BY <2>1, NoWriteOK
    <2>. QED
      BY <2>1, <2>3, <2>4, CoordCurrent
  <1>5. ASSUME NEW b \in Brokers, Crash(b) PROVE Current'
    <2>1. /\ \A c \in Brokers : c # b => coord'[c] = coord[c]
          /\ coord'[b] = new_coordinator /\ leader' = leader /\ log' = log
      BY <1>0, <1>5 DEF Crash
    <2>2. coord'[b].status # "loaded" /\ ~coord'[b].write.logged
      BY <2>1, NoWriteOK DEF new_coordinator
    <2>. QED
      BY <2>1, <2>2, CoordCurrent
  <1>6. ASSUME NEW b \in Brokers, FinishWrite(b) PROVE Current'
    <2>1. PICK w : w = coord[b].write
      OBVIOUS
    <2>2. /\ \A c \in Brokers : c # b => coord'[c] = coord[c]
          /\ coord'[b].entry = w.entry /\ coord'[b].write = NoWrite
          /\ leader' = leader /\ log' = <<Last(log)>> /\ Leads(b, w.epoch) /\ w.logged
      BY <1>6, <2>1, FinishWriteEffect DEF FinishWrite
    <2>3. log'[1] = w.entry
      BY <2>1, <2>2 DEF Current
    <2>. QED
      BY <2>2, <2>3, CoordCurrent, SameIsSame, NoWriteOK
  <1>7. ASSUME NEW b \in Brokers, FailWrite(b) PROVE Current'
    <2>1. /\ \A c \in Brokers : c # b => coord'[c] = coord[c]
          /\ coord'[b].entry = coord[b].entry /\ coord'[b].write = NoWrite
          /\ coord'[b].status = coord[b].status /\ coord'[b].epoch = coord[b].epoch
          /\ leader' = leader /\ log' = log
      BY <1>7, FailWriteEffect DEF FailWrite
    <2>. QED
      BY <2>1, CoordCurrent, NoWriteOK DEF Current
  <1>8. ASSUME NEW b \in Brokers, ResumeAbort(b) \/ CompletionTask(b) PROVE Current'
    <2>1. /\ \A c \in Brokers : c # b => coord'[c] = coord[c]
          /\ coord'[b].entry = coord[b].entry /\ coord'[b].write = coord[b].write
          /\ coord'[b].status = coord[b].status /\ coord'[b].epoch = coord[b].epoch
          /\ leader' = leader /\ log' = log
      BY <1>8, ResumeAbortEffect, CompletionTaskEffect DEF ResumeAbort, CompletionTask
    <2>. QED
      BY <2>1, CoordCurrent DEF Current
  <1>9. ASSUME NEW j \in jobs, GiveUpFanOut(j) \/ SkipCompletion(j) PROVE Current'
    <2>1. PICK b \in Brokers : b = j.broker
      BY DEF Typed, JobOK, Job
    <2>2. PICK y : y = Live(j)
      OBVIOUS
    <2>3. Same(y, coord[b].entry)
      BY <1>0, <1>a, <2>1, <2>2, LiveIsSame DEF Live
    <2>4. /\ \A c \in Brokers : c # b => coord'[c] = coord[c]
          /\ coord'[b].entry = y /\ coord'[b].write = coord[b].write
          /\ coord'[b].status = coord[b].status /\ coord'[b].epoch = coord[b].epoch
          /\ leader' = leader /\ log' = log
      BY <1>9, <2>1, <2>2, GiveUpEffect, SkipEffect DEF GiveUpFanOut, SkipCompletion
    <2>5. Leads(b, coord'[b].epoch) /\ coord'[b].status = "loaded" => Same(coord'[b].entry, log'[1])
      BY <2>3, <2>4, SameIsSame DEF Current
    <2>. QED
      BY <2>4, <2>5, CoordCurrent
  <1>10. ASSUME SomeWrite PROVE Current'
    BY <1>10, WriteCurrent DEF SomeWrite, Writes
  <1>11. CASE SomeAnswer
    BY <1>1, <1>11 DEF SomeAnswer
  <1>12. ASSUME \/ \E id \in given : \/ \E commit \in BOOLEAN : Ask(id, commit)
                                     \/ \E p \in Partitions : Produce(p, id)
                \/ \E r \in produces : AppendBatch(r) \/ RefuseBatch(r)
                \/ \E j \in jobs : \/ StartFanOut(j)
                                   \/ \E p \in Partitions : HandleMarker(j, p) \/ StopWaiting(j, p) \/ RefuseMarker(j, p)
                \/ \E m \in late : HandleLateMarker(m)
                \/ UNCHANGED vars
         PROVE  Current'
    BY <1>1, <1>12 DEF Ask, Produce, AppendBatch, RefuseBatch, StartFanOut, HandleMarker, StopWaiting, RefuseMarker,
       HandleLateMarker, vars
  <1>. QED
    BY <1>2, <1>3, <1>4, <1>5, <1>6, <1>7, <1>8, <1>9, <1>10, <1>11, <1>12, StepKinds

------------------------------------------------------------------------------
(* What a coordinator publishes.                                           *)

\* The entries that coordinators and fan-outs act on.
Published == {coord[b].entry : b \in Brokers} \cup {j.snap : j \in jobs}

\* The partition has the marker of the prepared entry x, or a later one.
Reached(x, p) == part[p][x.id[1]].epoch >= x.id[2]

\* The entry x asks for the markers that the entries in the log ask for, but those that are written.
Covers(x) ==
    \A e \in Entries : e.state \in Prepared /\ TransactionOf(e) = TransactionOf(x) =>
        \A p \in e.partitions \ x.partitions : Reached(x, p)

JobMarks(j) ==
    /\ \A p \in j.written : Reached(j.snap, p)
    /\ j.failure = "none" => j.todo \cup j.written = j.snap.partitions

Marks ==
    /\ \A x \in Published : x.state \in Prepared => Covers(x)
    /\ \A j \in jobs : JobMarks(j)

\* Where an entry that is published after a step comes from.
Kept(y, z) == Same(y, z) /\ \A p \in z.partitions \ y.partitions : Reached(z, p)
From(y) ==
    \/ y = NoEntry
    \/ y = Last(log) /\ log' = <<Last(log)>>
    \/ \E z \in Published : Kept(y, z)

LEMMA OldFrom == \A y \in Published : From(y)
  BY SameIsSame DEF From, Kept

LEMMA PublishedFrom ==
    ASSUME NEW b \in Brokers, \A c \in Brokers : c # b => coord'[c].entry = coord[c].entry,
           From(coord'[b].entry), \A j \in jobs' : From(j.snap)
    PROVE  \A y \in Published' : From(y)
  <1>1. \A c \in Brokers : From(coord'[c].entry)
    BY OldFrom DEF Published
  <1>2. \A y \in Published' : (\E c \in Brokers : y = coord'[c].entry) \/ (\E j \in jobs' : y = j.snap)
    BY DEF Published
  <1>. QED
    BY <1>1, <1>2

\* The live entry of a fan-out leaves the partitions it marked.
LEMMA LiveKept ==
    ASSUME Typed, Marks, NEW j \in jobs, NEW b \in Brokers, NEW y \in Entry, Same(y, coord[b].entry),
           \/ y.partitions = coord[b].entry.partitions
           \/ /\ coord[b].entry.id = j.snap.id
              /\ y.partitions = coord[b].entry.partitions \ j.written
    PROVE  From(y)
  <1>1. coord[b].entry \in Published
    BY DEF Published
  <1>2. CASE y.partitions = coord[b].entry.partitions
    BY <1>1, <1>2 DEF From, Kept
  <1>3. CASE coord[b].entry.id = j.snap.id /\ y.partitions = coord[b].entry.partitions \ j.written
    <2>1. \A p \in j.written : Reached(j.snap, p)
      BY DEF Marks, JobMarks
    <2>2. \A p \in j.written : Reached(coord[b].entry, p)
      BY <1>3, <2>1 DEF Reached
    <2>. QED
      BY <1>1, <1>3, <2>2 DEF From, Kept
  <1>. QED
    BY <1>2, <1>3

LEMMA PublishedStep ==
    ASSUME Typed, Current, Marks, [Next]_vars
    PROVE  \A y \in Published' : From(y)
  <1>0. coord \in [Brokers -> Coordinator] /\ fresh \in Nat /\ Brokers # {}
    BY SMTT(40) DEF Typed
  <1>a. \A b \in Brokers : Formed(coord[b].entry, fresh) /\ coord[b].entry \in Entry
    BY DEF Typed, CoordOK, Formed
  <1>b. \A j \in jobs : From(j.snap)
    BY OldFrom DEF Published
  <1>c. \A b \in Brokers : From(coord[b].entry)
    BY OldFrom DEF Published
  <1>1. CASE coord' = coord /\ \A j \in jobs' : From(j.snap)
    BY <1>0, <1>1, <1>c, PublishedFrom
  <1>2. ASSUME NEW j \in jobs, NEW k, jobs' = (jobs \ {j}) \cup {k}, k.snap = j.snap, coord' = coord
        PROVE  \A y \in Published' : From(y)
    BY <1>b, <1>1, <1>2
  <1>3. ASSUME NEW j \in jobs, StartFanOut(j) PROVE \A y \in Published' : From(y)
    <2>1. j \in Job
      BY DEF Typed, JobOK
    <2>2. PICK k : k = IF coord[j.broker].status = "loaded"
                       THEN [j EXCEPT !.started = TRUE, !.epoch = coord[j.broker].epoch]
                       ELSE [j EXCEPT !.started = TRUE, !.todo = {}, !.failure = "retriable"]
      OBVIOUS
    <2>3. k.snap = j.snap
      BY <2>1, <2>2 DEF Job
    <2>. QED
      BY <1>2, <1>3, <2>2, <2>3 DEF StartFanOut
  <1>4. ASSUME NEW j \in jobs, NEW p \in Partitions, HandleMarker(j, p)
        PROVE  \A y \in Published' : From(y)
    <2>1. j \in Job
      BY DEF Typed, JobOK
    <2>2. PICK k : k = IF MarkerDecision(Marker(j, p)) = "fenced"
                       THEN Fail([j EXCEPT !.todo = @ \ {p}], "fenced")
                       ELSE [[j EXCEPT !.todo = @ \ {p}] EXCEPT !.written = @ \cup {p}]
      OBVIOUS
    <2>3. k.snap = j.snap
      BY <2>1, <2>2 DEF Job, Fail
    <2>. QED
      BY <1>2, <1>4, <2>2, <2>3 DEF HandleMarker
  <1>5. ASSUME NEW j \in jobs, NEW p \in Partitions, StopWaiting(j, p) \/ RefuseMarker(j, p)
        PROVE  \A y \in Published' : From(y)
    <2>1. j \in Job
      BY DEF Typed, JobOK
    <2>2. PICK k : /\ k = Fail([j EXCEPT !.todo = @ \ {p}], "retriable")
                      \/ k = Fail([j EXCEPT !.todo = @ \ {p}], "unexpected")
                   /\ jobs' = (jobs \ {j}) \cup {k}
      BY <1>5 DEF StopWaiting, RefuseMarker
    <2>3. k.snap = j.snap
      BY <2>1, <2>2 DEF Job, Fail
    <2>. QED
      BY <1>2, <1>5, <2>2, <2>3 DEF StopWaiting, RefuseMarker
  <1>6. ASSUME NEW b \in Brokers, Elect(b) PROVE \A y \in Published' : From(y)
    BY <1>1, <1>6, <1>b DEF Elect
  <1>7. ASSUME NEW b \in Brokers, ApplyImage(b) PROVE \A y \in Published' : From(y)
    <2>1. (\A c \in Brokers : c # b => coord'[c] = coord[c]) /\ coord'[b].entry = NoEntry /\ jobs' = jobs
      BY <1>7, ApplyImageEffect DEF ApplyImage
    <2>. QED
      BY <1>b, <2>1, PublishedFrom DEF From
  <1>8. ASSUME NEW b \in Brokers, Load(b) PROVE \A y \in Published' : From(y)
    <2>1. /\ \A c \in Brokers : c # b => coord'[c] = coord[c]
          /\ coord'[b].entry = Last(log) /\ log' = <<Last(log)>> /\ jobs' = jobs
      BY <1>8, LoadEffect DEF Load
    <2>2. From(coord'[b].entry)
      BY <2>1 DEF From
    <2>. QED
      BY <1>b, <2>1, <2>2, PublishedFrom
  <1>9. ASSUME NEW b \in Brokers, Crash(b) PROVE \A y \in Published' : From(y)
    <2>1. (\A c \in Brokers : c # b => coord'[c] = coord[c]) /\ coord'[b] = new_coordinator /\ jobs' \subseteq jobs
      BY <1>0, <1>9 DEF Crash
    <2>2. From(coord'[b].entry)
      BY <2>1 DEF From, new_coordinator
    <2>. QED
      BY <1>b, <2>1, <2>2, PublishedFrom
  <1>10. ASSUME NEW b \in Brokers, FinishWrite(b) PROVE \A y \in Published' : From(y)
    <2>1. PICK w : w = coord[b].write
      BY SMTT(40)
    <2>2. /\ \A c \in Brokers : c # b => coord'[c] = coord[c]
          /\ coord'[b].entry = w.entry /\ log' = <<Last(log)>> /\ Leads(b, w.epoch) /\ w.logged
          /\ jobs' \subseteq jobs \cup {NewJob(b, w.kind, w.entry)}
      BY <1>10, <2>1, FinishWriteEffect DEF FinishWrite, AfterWrite
    <2>3. Last(log) = w.entry
      BY <2>1, <2>2 DEF Current
    <2>4. From(w.entry) /\ NewJob(b, w.kind, w.entry).snap = w.entry
      BY <2>2, <2>3 DEF From, NewJob
    <2>. QED
      BY <1>b, <2>2, <2>4, PublishedFrom
  <1>11. ASSUME NEW b \in Brokers, FailWrite(b) PROVE \A y \in Published' : From(y)
    <2>1. (\A c \in Brokers : c # b => coord'[c] = coord[c]) /\ coord'[b].entry = coord[b].entry /\ jobs' = jobs
      BY <1>11, FailWriteEffect DEF FailWrite
    <2>. QED
      BY <1>b, <1>c, <2>1, PublishedFrom
  <1>12. ASSUME NEW b \in Brokers, ResumeAbort(b) PROVE \A y \in Published' : From(y)
    <2>1. (\A c \in Brokers : c # b => coord'[c] = coord[c]) /\ coord'[b].entry = coord[b].entry /\ jobs' = jobs
      BY <1>12, ResumeAbortEffect DEF ResumeAbort
    <2>. QED
      BY <1>b, <1>c, <2>1, PublishedFrom
  <1>13. ASSUME NEW b \in Brokers, CompletionTask(b) PROVE \A y \in Published' : From(y)
    <2>1. /\ \A c \in Brokers : c # b => coord'[c] = coord[c]
          /\ coord'[b].entry = coord[b].entry
          /\ jobs' \subseteq jobs \cup {NewJob(b, "task", coord[b].entry)}
      BY <1>13, CompletionTaskEffect DEF CompletionTask
    <2>2. NewJob(b, "task", coord[b].entry).snap = coord[b].entry
      BY DEF NewJob
    <2>. QED
      BY <1>b, <1>c, <2>1, <2>2, PublishedFrom
  <1>14. ASSUME NEW j \in jobs, GiveUpFanOut(j) \/ SkipCompletion(j) PROVE \A y \in Published' : From(y)
    <2>1. PICK b \in Brokers : b = j.broker
      BY DEF Typed, JobOK, Job
    <2>2. PICK y : y = Live(j)
      OBVIOUS
    <2>3. (\A c \in Brokers : c # b => coord'[c] = coord[c]) /\ coord'[b].entry = y /\ jobs' \subseteq jobs
      BY <1>14, <2>1, <2>2, GiveUpEffect, SkipEffect DEF GiveUpFanOut, SkipCompletion
    <2>4. y = remove_marked_partitions(coord[b].entry, j.snap, j.written)
      BY <2>1, <2>2 DEF Live
    <2>5. Same(y, coord[b].entry)
      BY <1>0, <1>a, <2>4, LiveIsSame
    <2>6. /\ y \in Entry
          /\ \/ y.partitions = coord[b].entry.partitions
             \/ coord[b].entry.id = j.snap.id /\ y.partitions = coord[b].entry.partitions \ j.written
      BY SMTT(40), <1>0, <1>a, <2>4, LiveForms DEF Formed
    <2>. QED
      BY <1>b, <2>3, <2>5, <2>6, LiveKept, PublishedFrom
  <1>15. ASSUME SomeWrite PROVE \A y \in Published' : From(y)
    <2>1. PICK b \in Brokers, kind \in Kinds, request \in Requests, live \in Entry, x \in Entry :
              Writes(b, live, kind, x, request)
      BY <1>15 DEF SomeWrite
    <2>2. (\A c \in Brokers : c # b => coord'[c] = coord[c]) /\ coord'[b].entry = live /\ jobs' \subseteq jobs
      BY <2>1, WriteEffect DEF Writes
    <2>3. CASE live.state \notin Prepared
      <3>1. Same(live, coord[b].entry)
        BY <2>1 DEF Writes
      <3>2. Kept(live, coord[b].entry)
        BY <2>3, <3>1 DEF Kept, Same
      <3>. QED
        BY <1>b, <2>2, <3>2, PublishedFrom DEF From, Published
    <2>4. CASE live.state \in Prepared
      <3>1. Finishes(b, live, x) /\ Same(live, coord[b].entry)
        BY <2>1, <2>4 DEF Writes, Starts, Registers, Prepares, Prepared, Completed
      <3>2. PICK j \in jobs : coord[b].entry.id = j.snap.id /\ live.partitions = coord[b].entry.partitions \ j.written
        BY <3>1 DEF Finishes
      <3>3. From(live)
        BY <3>1, <3>2, LiveKept
      <3>. QED
        BY <1>b, <2>2, <3>3, PublishedFrom
    <2>. QED
      BY <2>3, <2>4
  <1>16. ASSUME \/ SomeAnswer
                \/ \E id \in given : \/ \E commit \in BOOLEAN : Ask(id, commit)
                                     \/ \E p \in Partitions : Produce(p, id)
                \/ \E r \in produces : AppendBatch(r) \/ RefuseBatch(r)
                \/ \E m \in late : HandleLateMarker(m)
                \/ UNCHANGED vars
         PROVE  \A y \in Published' : From(y)
    <2>1. coord' = coord /\ jobs' = jobs
      BY <1>16 DEF SomeAnswer, Ask, Produce, AppendBatch, RefuseBatch, HandleLateMarker, vars
    <2>. QED
      BY <1>1, <1>b, <2>1
  <1>. QED
    BY <1>3, <1>4, <1>5, <1>6, <1>7, <1>8, <1>9, <1>10, <1>11, <1>12, <1>13, <1>14, <1>15, <1>16, StepKinds

------------------------------------------------------------------------------
(* What has been decided, and what is open.                                *)

\* The transaction t is decided, to commit or not, for whoever acts on what is published,
\* for a marker that is on its way, on a partition, or for its producer.
Decided(t, c) ==
    \/ \E e \in Published : Decides(e) /\ Txn(e) = t /\ (Commits(e) <=> c)
    \/ \E m \in late : <<m.id[1], m.id[2] - 1>> = t /\ (m.commit <=> c)
    \/ \E x \in ended : x.txn = t /\ (x.commit <=> c)
    \/ t \in told /\ c

\* The entry e is of a later identity than t, and if it decides t it decides it this way.
Settled(t, c, e) ==
    /\ Before(t, client_producer_identity(e))
    /\ Decides(e) /\ Txn(e) = t => (Commits(e) <=> c)

Outcomes ==
    /\ \A t, c : c \in BOOLEAN /\ Decided(t, c) =>
           /\ t \in Identity /\ t[1] >= 1
           /\ \A e \in Entries : Settled(t, c, e)
           /\ c => <<t, TRUE>> \in asked
    /\ \A t : ~(Decided(t, TRUE) /\ Decided(t, FALSE))
    /\ \A e \in Entries : Commits(e) => <<Txn(e), TRUE>> \in asked

\* A batch of the transaction id may be appended on p: it is too late, or p will be marked.
Registered(id, p) == part[p][id[1]].epoch > id[2] \/ \A e \in Entries : EndsAt(e, id, p)

ProducerOpen(p, pid) ==
    /\ part[p][pid].epoch \in -1..MaxEpoch
    /\ \A e \in part[p][pid].open :
           /\ e = part[p][pid].epoch /\ e \in 0..(MaxEpoch - 1)
           /\ \A x \in Entries : EndsAt(x, <<pid, e>>, p)

Registrations ==
    /\ \A p \in Partitions, pid \in Pids : ProducerOpen(p, pid)
    /\ \A r \in produces : r.verified => Registered(r.id, r.p)
    /\ \A b \in Brokers : coord[b].entry.state = "Ongoing" =>
           \A p \in coord[b].entry.partitions : Registered(coord[b].entry.id, p)

\* A prepared entry ends the transaction one epoch before its own.
LEMMA PreparedTxn ==
    ASSUME NEW f \in Nat, NEW e, Formed(e, f), e.state \in Prepared
    PROVE  /\ Decides(e) /\ Txn(e) = TransactionOf(e) /\ TransactionOf(e) = <<e.id[1], e.id[2] - 1>>
           /\ e.id \in Identity /\ e.id[1] \in Nat \ {0} /\ e.id[2] \in 1..MaxEpoch /\ e.last = e.id[2] - 1
           /\ Commits(e) <=> e.state = "PrepareCommit"
  <1>1. e \in Entry /\ e # NoEntry
    BY DEF Formed, NoEntry, new_empty, Prepared
  <1>2. e.id \in Identity /\ e.id[1] \in Nat \ {0} /\ e.id[2] \in 1..MaxEpoch /\ e.last = e.id[2] - 1
    BY <1>1 DEF Formed, Entry, Identity
  <1>3. Decides(e) /\ (Commits(e) <=> e.state = "PrepareCommit") /\ Txn(e) = TransactionOf(e)
    BY DEF Decides, Commits, Txn, Prepared, Completed
  <1>. QED
    BY <1>2, <1>3 DEF TransactionOf

\* An entry that decides a transaction is of a later identity.
LEMMA DecidesBefore ==
    ASSUME NEW f \in Nat, NEW e, Formed(e, f), Decides(e)
    PROVE  Txn(e) \in Identity /\ Txn(e)[1] >= 1 /\ Before(Txn(e), client_producer_identity(e))
  <1>1. e \in Entry /\ e # NoEntry
    BY DEF Formed, NoEntry, new_empty, Prepared, Completed, Decides
  <1>2. /\ e.id \in Identity /\ e.id[1] \in Nat \ {0} /\ e.id[2] \in 0..MaxEpoch
        /\ e.last \in -1..MaxEpoch /\ e.prev \in Int /\ e.next \in Identity
    BY <1>1 DEF Formed, Entry, Identity
  <1>3. CASE e.state \in Prepared
    <2>1. Txn(e) = <<e.id[1], e.id[2] - 1>>
      BY <1>3, PreparedTxn
    <2>2. CASE e.id[2] = MaxEpoch
      <3>1. e.next[1] \in Int /\ e.next[1] > e.id[1]
        BY <1>1, <1>2, <1>3, <2>2 DEF Formed, Identity
      <3>2. e.next # NoId
        BY <1>1, <1>2, <3>1 DEF NoId
      <3>. QED
        BY <1>2, <2>1, <3>1, <3>2 DEF client_producer_identity, Before, Identity
    <2>3. CASE e.id[2] # MaxEpoch
      <3>1. e.next = NoId
        BY <1>1, <1>3, <2>3 DEF Formed
      <3>. QED
        BY <1>2, <2>1, <3>1 DEF client_producer_identity, Before, Identity
    <2>. QED
      BY <2>2, <2>3
  <1>4. CASE e.state \in Completed
    <2>1. client_producer_identity(e) = e.id
      BY <1>4, ClientIdentity DEF Prepared, Completed
    <2>2. CASE e.id[2] = 0
      <3>1. Txn(e) = <<e.prev, e.last>> /\ e.prev >= 1 /\ e.prev < e.id[1]
        BY <1>1, <1>2, <1>4, <2>2 DEF Txn, Formed
      <3>. QED
        BY <1>2, <2>1, <3>1 DEF Before, Identity
    <2>3. CASE e.id[2] # 0
      <3>1. Txn(e) = <<e.id[1], e.last>> /\ e.last = e.id[2] - 1
        BY <1>1, <1>2, <1>4, <2>3 DEF Txn, Formed, TransactionOf
      <3>. QED
        BY <1>2, <2>1, <3>1 DEF Before, Identity
    <2>. QED
      BY <2>2, <2>3
  <1>. QED
    BY <1>3, <1>4 DEF Decides

LEMMA SameDecides ==
    ASSUME NEW y, NEW z, Same(y, z)
    PROVE  /\ Decides(y) <=> Decides(z)
           /\ Txn(y) = Txn(z) /\ (Commits(y) <=> Commits(z)) /\ TransactionOf(y) = TransactionOf(z)
           /\ client_producer_identity(y) = client_producer_identity(z)
  BY DEF Same, Decides, Txn, Commits, TransactionOf, client_producer_identity

\* Every entry that is cached or in a fan-out is well formed.
LEMMA PublishedFormed ==
    ASSUME Typed
    PROVE  fresh \in Nat /\ \A y \in Published : Formed(y, fresh)
  BY DEF Typed, CoordOK, JobOK, Published

LEMMA LateStep ==
    ASSUME Typed, [Next]_vars
    PROVE  \A m \in late' : m \in late \/ \E j \in jobs, p \in Partitions : m = Marker(j, p)
  <1>1. ASSUME NEW j \in jobs, NEW p \in Partitions, StopWaiting(j, p)
        PROVE  \A m \in late' : m \in late \/ \E i \in jobs, q \in Partitions : m = Marker(i, q)
    BY <1>1 DEF StopWaiting
  <1>2. CASE late' \subseteq late
    BY <1>2
  <1>3. CASE SomeWrite
    BY <1>2, <1>3 DEF SomeWrite, Writes
  <1>4. CASE SomeAnswer
    BY <1>2, <1>4 DEF SomeAnswer
  <1>5. CASE \E b \in Brokers : \/ Elect(b) \/ ApplyImage(b) \/ Load(b) \/ Crash(b)
                               \/ FinishWrite(b) \/ FailWrite(b) \/ ResumeAbort(b) \/ CompletionTask(b)
    BY <1>2, <1>5 DEF Elect, ApplyImage, Load, Crash, FinishWrite, FailWrite, ResumeAbort, CompletionTask
  <1>6. CASE \E j \in jobs : GiveUpFanOut(j) \/ SkipCompletion(j)
    BY <1>2, <1>6 DEF GiveUpFanOut, SkipCompletion
  <1>7. CASE \/ \E id \in given : \/ \E commit \in BOOLEAN : Ask(id, commit)
                                  \/ \E p \in Partitions : Produce(p, id)
             \/ \E r \in produces : AppendBatch(r) \/ RefuseBatch(r)
             \/ UNCHANGED vars
    BY <1>2, <1>7 DEF Ask, Produce, AppendBatch, RefuseBatch, vars
  <1>8. CASE \E j \in jobs : \/ StartFanOut(j)
                            \/ \E p \in Partitions : HandleMarker(j, p) \/ RefuseMarker(j, p)
    BY <1>2, <1>8 DEF StartFanOut, HandleMarker, RefuseMarker
  <1>9. CASE \E m \in late : HandleLateMarker(m)
    BY <1>2, <1>9 DEF HandleLateMarker
  <1>. QED
    BY <1>1, <1>3, <1>4, <1>5, <1>6, <1>7, <1>8, <1>9, StepKinds

\* A marker carries a decision.
LEMMA MarkerDecided ==
    ASSUME Typed, NEW m, m \in late \/ \E j \in jobs, p \in Partitions : m = Marker(j, p)
    PROVE  LateOK(m, fresh) /\ Decided(<<m.id[1], m.id[2] - 1>>, m.commit)
  <1>1. CASE m \in late
    <2>1. LateOK(m, fresh)
      BY <1>1 DEF Typed
    <2>. QED
      BY <1>1, <2>1 DEF Decided
  <1>2. ASSUME NEW j \in jobs, NEW p \in Partitions, m = Marker(j, p)
        PROVE  LateOK(m, fresh) /\ Decided(<<m.id[1], m.id[2] - 1>>, m.commit)
    <2>1. JobOK(j, fresh) /\ fresh \in Nat /\ j.snap \in Published
      BY DEF Typed, Published
    <2>2. LateOK(m, fresh)
      BY <1>2, <2>1, MarkerOK
    <2>3. m.id = j.snap.id /\ m.commit = (j.snap.state = "PrepareCommit")
      BY <1>2 DEF Marker
    <2>4. /\ Decides(j.snap) /\ Txn(j.snap) = <<j.snap.id[1], j.snap.id[2] - 1>>
          /\ Commits(j.snap) <=> j.snap.state = "PrepareCommit"
      BY <2>1, PreparedTxn DEF JobOK
    <2>. QED
      BY <2>1, <2>2, <2>3, <2>4 DEF Decided
  <1>. QED
    BY <1>1, <1>2

LEMMA ToldStep ==
    ASSUME Typed, [Next]_vars
    PROVE  \A t \in told' : Decided(t, TRUE)
  <1>1. \A t \in told : Decided(t, TRUE)
    BY DEF Decided
  <1>2. ASSUME NEW y \in Published, Decides(y), Commits(y) PROVE Decided(Txn(y), TRUE)
    BY <1>2 DEF Decided
  <1>3. ASSUME NEW j \in jobs, Commits(j.snap) PROVE Decided(TransactionOf(j.snap), TRUE)
    <2>1. JobOK(j, fresh) /\ fresh \in Nat /\ j.snap \in Published
      BY DEF Typed, Published
    <2>2. Decides(j.snap) /\ Txn(j.snap) = TransactionOf(j.snap)
      BY <2>1, PreparedTxn DEF JobOK
    <2>. QED
      BY <1>2, <1>3, <2>1, <2>2
  <1>4. CASE ToldBefore
    BY <1>1, <1>3, <1>4 DEF ToldBefore
  <1>5. CASE told' = told
    BY <1>1, <1>5
  <1>6. CASE SomeWrite
    BY <1>4, <1>6 DEF SomeWrite, Writes
  <1>7. CASE SomeAnswer
    <2>1. ASSUME NEW b \in Brokers, coord[b].entry.state \in Completed,
                 told' \subseteq told \cup {Txn(coord[b].entry)}, Commits(coord[b].entry)
          PROVE  \A t \in told' : Decided(t, TRUE)
      BY <1>1, <1>2, <2>1 DEF Published, Decides
    <2>. QED
      BY <1>5, <1>7, <2>1 DEF SomeAnswer
  <1>8. ASSUME NEW j \in jobs, AnswerEnd(j) \/ UNCHANGED <<given, told>>
        PROVE  \A t \in told' : Decided(t, TRUE)
    <2>1. CASE told' = told
      BY <1>5, <2>1
    <2>2. CASE told' = told \cup {TransactionOf(j.snap)} /\ j.snap.state = "PrepareCommit"
      BY <1>1, <1>3, <2>2 DEF Commits
    <2>. QED
      BY <1>8, <2>1, <2>2 DEF AnswerEnd, Answer
  <1>9. CASE \E j \in jobs : GiveUpFanOut(j) \/ SkipCompletion(j)
    BY <1>8, <1>9 DEF GiveUpFanOut, SkipCompletion
  <1>10. CASE \E b \in Brokers : \/ Elect(b) \/ ApplyImage(b) \/ Load(b) \/ Crash(b)
                                 \/ FinishWrite(b) \/ FailWrite(b) \/ ResumeAbort(b) \/ CompletionTask(b)
    BY <1>5, <1>10 DEF Elect, ApplyImage, Load, Crash, FinishWrite, FailWrite, ResumeAbort, CompletionTask
  <1>11. CASE \/ \E id \in given : \/ \E commit \in BOOLEAN : Ask(id, commit)
                                   \/ \E p \in Partitions : Produce(p, id)
              \/ \E r \in produces : AppendBatch(r) \/ RefuseBatch(r)
              \/ UNCHANGED vars
    BY <1>5, <1>11 DEF Ask, Produce, AppendBatch, RefuseBatch, vars
  <1>12. CASE \/ \E j \in jobs : \/ StartFanOut(j)
                                 \/ \E p \in Partitions : HandleMarker(j, p) \/ StopWaiting(j, p) \/ RefuseMarker(j, p)
              \/ \E m \in late : HandleLateMarker(m)
    BY <1>5, <1>12 DEF StartFanOut, HandleMarker, StopWaiting, RefuseMarker, HandleLateMarker
  <1>. QED
    BY <1>6, <1>7, <1>9, <1>10, <1>11, <1>12, StepKinds

\* A marker that is appended ends the transaction it was sent for, and no other.
LEMMA MarkerEnds ==
    ASSUME Typed, Outcomes, Registrations, NEW m, ApplyMarker(m),
           m \in late \/ \E j \in jobs, p \in Partitions : m = Marker(j, p)
    PROVE  \A x \in ended' : x \in ended \/ (x.txn = <<m.id[1], m.id[2] - 1>> /\ x.commit = m.commit)
  <1>1. LateOK(m, fresh) /\ Decided(<<m.id[1], m.id[2] - 1>>, m.commit)
    BY MarkerDecided
  <1>2. PICK pid \in Pids, k \in 1..MaxEpoch : m.id[1] = pid /\ m.id[2] = k
    BY <1>1, LatePid
  <1>3. m.p \in Partitions /\ m.commit \in BOOLEAN /\ k \in Int /\ pid \in Int
    BY <1>1 DEF LateOK, Late, Pids
  <1>4. PICK s \in Producer : s = part[m.p][pid]
    BY <1>3 DEF Typed
  <1>5. CASE MarkerDecision(m) # "append"
    BY <1>5 DEF ApplyMarker
  <1>6. CASE MarkerDecision(m) = "append"
    <2>1. ended' = ended \cup {[txn |-> <<pid, e>>, p |-> m.p, commit |-> m.commit] : e \in s.open}
      BY <1>2, <1>4, <1>6 DEF ApplyMarker
    <2>2. TP!transaction_marker_decision(s, k, m.epoch) = "append"
      BY <1>2, <1>4, <1>6 DEF MarkerDecision
    <2>3. s.epoch \in Int /\ ~(k < s.epoch) /\ ~(k = s.epoch /\ s.open # {} /\ k # MaxEpoch)
      BY <2>2 DEF TP!transaction_marker_decision, TP!transaction_marker_equal_epoch_fenced, Producer
    <2>4. ASSUME NEW e \in s.open PROVE e = k - 1
      <3>1. e = s.epoch /\ e \in 0..(MaxEpoch - 1) /\ \A x \in Entries : EndsAt(x, <<pid, e>>, m.p)
        BY <1>3, <1>4 DEF Registrations, ProducerOpen
      <3>2. PICK x \in Entries : x = log[1]
        BY LastIsEntry DEF Typed
      <3>3. Formed(x, fresh) /\ fresh \in Nat /\ x \in Entry
        BY DEF Typed, Formed
      <3>4. Before(<<pid, k - 1>>, client_producer_identity(x))
        BY <1>1, <1>2, <1>3 DEF Outcomes, Settled
      <3>5. e < k
        BY <2>3, <3>1
      <3>6. CASE x.state = "Ongoing" /\ x.id = <<pid, e>>
        <4>1. client_producer_identity(x) = <<pid, e>>
          BY <3>3, <3>6, ClientIdentity DEF Prepared
        <4>. QED
          BY <1>3, <3>1, <3>4, <3>5, <4>1 DEF Before
      <3>7. CASE x.state \in Prepared /\ TransactionOf(x) = <<pid, e>>
        <4>1. x.id[1] = pid /\ x.id[2] = e + 1 /\ x.id \in Identity
          BY <3>1, <3>3, <3>7, PreparedTxn DEF Identity
        <4>2. CASE e + 1 = MaxEpoch
          BY <1>3, <3>1, <3>5, <4>2
        <4>3. CASE e + 1 # MaxEpoch
          <5>1. x.next = NoId
            BY <3>3, <3>7, <4>1, <4>3 DEF Formed, NoEntry, new_empty, Prepared
          <5>2. client_producer_identity(x)[1] = pid /\ client_producer_identity(x)[2] = e + 1
            BY <4>1, <5>1 DEF client_producer_identity
          <5>. QED
            BY <1>3, <3>1, <3>4, <3>5, <5>2 DEF Before
        <4>. QED
          BY <4>2, <4>3
      <3>. QED
        BY <3>1, <3>6, <3>7 DEF EndsAt
    <2>5. ASSUME NEW x \in ended', x \notin ended
          PROVE  x.txn = <<m.id[1], m.id[2] - 1>> /\ x.commit = m.commit
      <3>1. PICK e \in s.open : x = [txn |-> <<pid, e>>, p |-> m.p, commit |-> m.commit]
        BY <2>1, <2>5
      <3>2. e = k - 1
        BY <2>4
      <3>. QED
        BY <1>2, <3>1, <3>2
    <2>. QED
      BY <2>5
  <1>. QED
    BY <1>5, <1>6

LEMMA EndedStep ==
    ASSUME Typed, Outcomes, Registrations, [Next]_vars
    PROVE  \A x \in ended' : \A c \in BOOLEAN : (x.commit <=> c) => Decided(x.txn, c)
  <1>1. \A x \in ended : \A c \in BOOLEAN : (x.commit <=> c) => Decided(x.txn, c)
    BY DEF Decided
  <1>2. ASSUME NEW m, ApplyMarker(m), m \in late \/ \E j \in jobs, p \in Partitions : m = Marker(j, p)
        PROVE  \A x \in ended' : \A c \in BOOLEAN : (x.commit <=> c) => Decided(x.txn, c)
    <2>1. LateOK(m, fresh) /\ Decided(<<m.id[1], m.id[2] - 1>>, m.commit) /\ m.commit \in BOOLEAN
      BY <1>2, MarkerDecided DEF LateOK, Late
    <2>2. \A x \in ended' : x \in ended \/ (x.txn = <<m.id[1], m.id[2] - 1>> /\ x.commit = m.commit)
      BY <1>2, MarkerEnds
    <2>. QED
      BY <1>1, <2>1, <2>2
  <1>3. CASE ended' = ended
    BY <1>1, <1>3
  <1>4. CASE SomeWrite
    BY <1>3, <1>4 DEF SomeWrite, Writes
  <1>5. CASE SomeAnswer
    BY <1>3, <1>5 DEF SomeAnswer
  <1>6. CASE \E j \in jobs : GiveUpFanOut(j) \/ SkipCompletion(j)
    BY <1>3, <1>6 DEF GiveUpFanOut, SkipCompletion
  <1>7. CASE \E b \in Brokers : \/ Elect(b) \/ ApplyImage(b) \/ Load(b) \/ Crash(b)
                                \/ FinishWrite(b) \/ FailWrite(b) \/ ResumeAbort(b) \/ CompletionTask(b)
    BY <1>3, <1>7 DEF Elect, ApplyImage, Load, Crash, FinishWrite, FailWrite, ResumeAbort, CompletionTask
  <1>8. CASE \/ \E id \in given : \/ \E commit \in BOOLEAN : Ask(id, commit)
                                  \/ \E p \in Partitions : Produce(p, id)
             \/ \E r \in produces : AppendBatch(r) \/ RefuseBatch(r)
             \/ UNCHANGED vars
    BY <1>3, <1>8 DEF Ask, Produce, AppendBatch, RefuseBatch, vars
  <1>9. CASE \E j \in jobs : StartFanOut(j) \/ \E p \in Partitions : StopWaiting(j, p) \/ RefuseMarker(j, p)
    BY <1>3, <1>9 DEF StartFanOut, StopWaiting, RefuseMarker
  <1>10. CASE \E j \in jobs, p \in Partitions : HandleMarker(j, p)
    BY <1>2, <1>10 DEF HandleMarker
  <1>11. CASE \E m \in late : HandleLateMarker(m)
    BY <1>2, <1>11 DEF HandleLateMarker
  <1>. QED
    BY <1>4, <1>5, <1>6, <1>7, <1>8, <1>9, <1>10, <1>11, StepKinds

\* A decision is one that was there, or that of the committed entry that is published.
LEMMA DecidedStep ==
    ASSUME Typed, Current, Outcomes, Registrations, Marks, [Next]_vars, NEW t, NEW c \in BOOLEAN, Decided(t, c)'
    PROVE  \/ Decided(t, c)
           \/ /\ log' = <<Last(log)>> /\ Decides(Last(log)) /\ Txn(Last(log)) = t
              /\ Commits(Last(log)) <=> c
  <1>1. CASE t \in told' /\ c
    BY <1>1, ToldStep
  <1>2. ASSUME NEW x \in ended', x.txn = t, x.commit <=> c PROVE Decided(t, c)
    BY <1>2, EndedStep
  <1>3. ASSUME NEW m \in late', <<m.id[1], m.id[2] - 1>> = t, m.commit <=> c PROVE Decided(t, c)
    <2>1. m \in late \/ \E j \in jobs, p \in Partitions : m = Marker(j, p)
      BY LateStep
    <2>2. LateOK(m, fresh) /\ Decided(<<m.id[1], m.id[2] - 1>>, m.commit) /\ m.commit \in BOOLEAN
      BY <2>1, MarkerDecided DEF LateOK, Late
    <2>. QED
      BY <1>3, <2>2
  <1>4. ASSUME NEW e \in Published', Decides(e), Txn(e) = t, Commits(e) <=> c
        PROVE  \/ Decided(t, c)
               \/ /\ log' = <<Last(log)>> /\ Decides(Last(log)) /\ Txn(Last(log)) = t
                  /\ Commits(Last(log)) <=> c
    <2>1. From(e)
      BY PublishedStep
    <2>2. e # NoEntry
      BY <1>4 DEF Decides, NoEntry, new_empty, Prepared, Completed
    <2>3. ASSUME NEW z \in Published, Kept(e, z) PROVE Decided(t, c)
      <3>1. Decides(z) /\ Txn(z) = t /\ (Commits(z) <=> c)
        BY <1>4, <2>3, SameDecides DEF Kept
      <3>. QED
        BY <3>1 DEF Decided
    <2>. QED
      BY <1>4, <2>1, <2>2, <2>3 DEF From
  <1>. QED
    BY <1>1, <1>2, <1>3, <1>4 DEF Decided

\* A step that writes after the committed entry, which is live without some of its partitions.
Grows(b, live, x) ==
    /\ Entries' = Entries \cup {x} /\ part' = part
    /\ Same(live, log[1]) /\ Same(live, coord[b].entry)
    /\ Starts(live, x) \/ Registers(live, x) \/ Prepares(live, x) \/ Finishes(b, live, x)

LEMMA EntriesStep ==
    ASSUME Typed, Current, [Next]_vars
    PROVE  Entries' \subseteq Entries \/ \E b \in Brokers, live \in Entry, x \in Entry : Grows(b, live, x)
  <1>0. log \in Seq(Entry) /\ log # <<>>
    BY DEF Typed
  <1>1. CASE log' = log
    BY <1>1 DEF Entries
  <1>2. CASE log' = <<Last(log)>>
    BY <1>0, <1>2, TakeLast, LastIsEntry
  <1>3. CASE SomeWrite
    <2>1. PICK b \in Brokers, kind \in Kinds, request \in Requests, live \in Entry, x \in Entry :
              Writes(b, live, kind, x, request)
      BY <1>3 DEF SomeWrite
    <2>2. CASE ~Leads(b, coord[b].epoch)
      BY <1>1, <2>1, <2>2 DEF Writes, BeginWrite
    <2>3. CASE Leads(b, coord[b].epoch)
      <3>1. log' = Append(log, x)
        BY <2>1, <2>3 DEF Writes, BeginWrite
      <3>2. Entries' = Entries \cup {x}
        BY <1>0, <3>1, GrowLog
      <3>3. Same(coord[b].entry, log[1])
        BY <2>1, <2>3 DEF Writes, Current
      <3>4. Same(live, coord[b].entry) /\ part' = part
            /\ (Starts(live, x) \/ Registers(live, x) \/ Prepares(live, x) \/ Finishes(b, live, x))
        BY <2>1 DEF Writes
      <3>5. Same(live, log[1])
        BY <3>3, <3>4, SameIsSame
      <3>6. Grows(b, live, x)
        BY <3>2, <3>4, <3>5 DEF Grows
      <3>. QED
        BY <3>6
    <2>. QED
      BY <2>2, <2>3
  <1>4. ASSUME NEW b \in Brokers, Elect(b) PROVE Entries' \subseteq Entries
    <2>1. PICK n \in 1..Len(log) : log' = SubSeq(log, 1, n)
      BY <1>4 DEF Elect
    <2>. QED
      BY <1>0, <2>1, TakePrefix
  <1>5. CASE \E b \in Brokers : \/ ApplyImage(b) \/ Load(b) \/ Crash(b)
                                \/ FinishWrite(b) \/ FailWrite(b) \/ ResumeAbort(b) \/ CompletionTask(b)
    BY <1>1, <1>2, <1>5 DEF ApplyImage, Load, Crash, FinishWrite, FailWrite, ResumeAbort, CompletionTask
  <1>6. CASE SomeAnswer \/ \E j \in jobs : GiveUpFanOut(j) \/ SkipCompletion(j)
    BY <1>1, <1>6 DEF SomeAnswer, GiveUpFanOut, SkipCompletion
  <1>7. CASE \/ \E id \in given : \/ \E commit \in BOOLEAN : Ask(id, commit)
                                  \/ \E p \in Partitions : Produce(p, id)
             \/ \E r \in produces : AppendBatch(r) \/ RefuseBatch(r)
             \/ UNCHANGED vars
    BY <1>1, <1>7 DEF Ask, Produce, AppendBatch, RefuseBatch, vars
  <1>8. CASE \/ \E j \in jobs : \/ StartFanOut(j)
                                \/ \E p \in Partitions : HandleMarker(j, p) \/ StopWaiting(j, p) \/ RefuseMarker(j, p)
             \/ \E m \in late : HandleLateMarker(m)
    BY <1>1, <1>8 DEF StartFanOut, HandleMarker, StopWaiting, RefuseMarker, HandleLateMarker
  <1>. QED
    BY <1>3, <1>4, <1>5, <1>6, <1>7, <1>8, StepKinds

LEMMA AskedStep ==
    ASSUME Typed, [Next]_vars
    PROVE  asked \subseteq asked'
  <1>3. CASE SomeWrite
    BY <1>3 DEF SomeWrite, Writes
  <1>5. CASE \E b \in Brokers : \/ Elect(b) \/ ApplyImage(b) \/ Load(b) \/ Crash(b)
                                \/ FinishWrite(b) \/ FailWrite(b) \/ ResumeAbort(b) \/ CompletionTask(b)
    BY <1>5 DEF Elect, ApplyImage, Load, Crash, FinishWrite, FailWrite, ResumeAbort, CompletionTask
  <1>6. CASE SomeAnswer \/ \E j \in jobs : GiveUpFanOut(j) \/ SkipCompletion(j)
    BY <1>6 DEF SomeAnswer, GiveUpFanOut, SkipCompletion
  <1>7. CASE \/ \E id \in given : \/ \E commit \in BOOLEAN : Ask(id, commit)
                                  \/ \E p \in Partitions : Produce(p, id)
             \/ \E r \in produces : AppendBatch(r) \/ RefuseBatch(r)
             \/ UNCHANGED vars
    BY <1>7 DEF Ask, Produce, AppendBatch, RefuseBatch, vars
  <1>8. CASE \/ \E j \in jobs : \/ StartFanOut(j)
                                \/ \E p \in Partitions : HandleMarker(j, p) \/ StopWaiting(j, p) \/ RefuseMarker(j, p)
             \/ \E m \in late : HandleLateMarker(m)
    BY <1>8 DEF StartFanOut, HandleMarker, StopWaiting, RefuseMarker, HandleLateMarker
  <1>. QED
    BY <1>3, <1>5, <1>6, <1>7, <1>8, StepKinds

LEMMA BeforeOrder ==
    ASSUME NEW t \in Identity, NEW a \in Identity, NEW b \in Identity, Before(t, a)
    PROVE  t # a /\ (Before(a, b) => Before(t, b))
  BY DEF Identity, Before

\* The entry that a coordinator writes leaves what is decided.
LEMMA WriteSettled ==
    ASSUME Typed, Outcomes, NEW b \in Brokers, NEW live \in Entry, NEW x \in Entry, Grows(b, live, x),
           NEW f \in Nat, Formed(x, f), NEW t, NEW c \in BOOLEAN, Decided(t, c)
    PROVE  Settled(t, c, x)
  <1>1. log[1] \in Entries /\ Formed(log[1], fresh) /\ fresh \in Nat
    BY LastIsEntry DEF Typed
  <1>2. PICK e \in Entries : e = log[1]
    BY <1>1
  <1>3. t \in Identity /\ t[1] >= 1 /\ Settled(t, c, e)
    BY DEF Outcomes
  <1>4. Same(live, e)
    BY <1>2 DEF Grows
  <1>5. PICK i \in Identity, k \in Identity : i = client_producer_identity(e) /\ k = client_producer_identity(x)
    BY <1>1, <1>2, ClientIdentity
  <1>6. i = client_producer_identity(live) /\ (e.state \notin Prepared => i = live.id) /\ (e.state = "none" => i = NoId)
    BY <1>1, <1>2, <1>4, <1>5, SameDecides, ClientIdentity DEF Same
  <1>7. Before(t, i) /\ live.state = e.state
    BY <1>3, <1>4, <1>5 DEF Settled, Same
  <1>8. CASE Starts(live, x)
    <2>1. e.state # "none"
      BY <1>3, <1>6, <1>7 DEF Before, NoId, Identity
    <2>2. i = live.id
      BY <1>6, <1>7, <1>8 DEF Starts
    <2>3. Before(i, k)
      BY <1>5, <1>7, <1>8, <2>1, <2>2 DEF Starts
    <2>4. Before(t, k)
      BY <1>3, <1>7, <2>3, BeforeOrder
    <2>5. ~Decides(x)
      BY <1>8 DEF Starts, Decides, Prepared, Completed
    <2>. QED
      BY <1>5, <2>4, <2>5 DEF Settled
  <1>9. CASE Registers(live, x)
    <2>1. k = i
      BY <1>5, <1>6, <1>9 DEF Registers
    <2>2. ~Decides(x)
      BY <1>9 DEF Registers, Decides, Prepared, Completed
    <2>. QED
      BY <1>5, <1>7, <2>1, <2>2 DEF Settled
  <1>10. CASE Prepares(live, x)
    <2>1. i = live.id
      BY <1>6, <1>7, <1>10 DEF Prepares
    <2>2. Before(i, k) /\ Txn(x) = i
      BY <1>5, <1>10, <2>1, PreparedTxn DEF Prepares
    <2>3. Before(t, k) /\ t # i
      BY <1>3, <1>7, <2>2, BeforeOrder
    <2>. QED
      BY <1>5, <2>2, <2>3 DEF Settled
  <1>11. CASE Finishes(b, live, x)
    <2>1. live.state \in Prepared /\ Txn(x) = TransactionOf(live) /\ Commits(x) = Commits(live) /\ k = i
      BY <1>5, <1>6, <1>11 DEF Finishes
    <2>2. e.state \in Prepared
      BY <1>7, <2>1
    <2>3. Decides(e) /\ Txn(e) = TransactionOf(e)
      BY <1>1, <1>2, <2>2, PreparedTxn
    <2>4. Txn(x) = Txn(e) /\ (Commits(x) <=> Commits(e))
      BY <1>4, <2>1, <2>3, SameDecides
    <2>. QED
      BY <1>3, <1>5, <1>7, <2>1, <2>3, <2>4 DEF Settled
  <1>. QED
    BY <1>8, <1>9, <1>10, <1>11 DEF Grows

LEMMA WriteAsked ==
    ASSUME Typed, Outcomes, NEW b \in Brokers, NEW live \in Entry, NEW x \in Entry, Grows(b, live, x),
           NEW f \in Nat, Formed(x, f), Commits(x)
    PROVE  <<Txn(x), TRUE>> \in asked
  <1>1. log[1] \in Entries /\ Formed(log[1], fresh) /\ fresh \in Nat
    BY LastIsEntry DEF Typed
  <1>2. PICK e \in Entries : e = log[1]
    BY <1>1
  <1>3. Same(live, e)
    BY <1>2 DEF Grows
  <1>4. CASE Prepares(live, x)
    <2>1. Txn(x) = live.id
      BY <1>4, PreparedTxn DEF Prepares
    <2>. QED
      BY <1>4, <2>1 DEF Prepares
  <1>5. CASE Finishes(b, live, x)
    <2>1. live.state \in Prepared /\ Txn(x) = TransactionOf(live) /\ Commits(x) = Commits(live)
      BY <1>5 DEF Finishes
    <2>2. e.state \in Prepared
      BY <1>3, <2>1 DEF Same
    <2>3. Txn(e) = TransactionOf(e)
      BY <1>1, <1>2, <2>2, PreparedTxn
    <2>4. Txn(x) = Txn(e) /\ Commits(e)
      BY <1>3, <2>1, <2>3, SameDecides
    <2>. QED
      BY <2>4 DEF Outcomes
  <1>6. CASE Starts(live, x) \/ Registers(live, x)
    BY <1>6 DEF Starts, Registers, Commits
  <1>. QED
    BY <1>4, <1>5, <1>6 DEF Grows

LEMMA OutcomesStep ==
    ASSUME Typed, Current, Outcomes, Registrations, Marks, [Next]_vars
    PROVE  Outcomes'
  <1>1. Typed' /\ fresh' \in Nat /\ \A e \in Entries' : Formed(e, fresh')
    BY TypedStep DEF Typed
  <1>2. asked \subseteq asked'
    BY AskedStep
  <1>3. \A e \in Entries' : e \in Entries \/ \E b \in Brokers, live \in Entry : e \in Entry /\ Grows(b, live, e)
    BY EntriesStep DEF Grows
  <1>4. Last(log) \in Entries /\ Formed(Last(log), fresh) /\ fresh \in Nat
    BY LastIsEntry DEF Typed
  <1>5. log' = <<Last(log)>> => Entries' = {Last(log)}
    BY TakeLast DEF Typed
  <1>6. ASSUME NEW t, NEW c \in BOOLEAN, Decided(t, c)
        PROVE  /\ t \in Identity /\ t[1] >= 1
               /\ \A e \in Entries' : Settled(t, c, e)
               /\ c => <<t, TRUE>> \in asked'
    <2>1. t \in Identity /\ t[1] >= 1 /\ (\A e \in Entries : Settled(t, c, e)) /\ (c => <<t, TRUE>> \in asked)
      BY <1>6 DEF Outcomes
    <2>2. ASSUME NEW e \in Entries' PROVE Settled(t, c, e)
      <3>1. ASSUME NEW b \in Brokers, NEW live \in Entry, e \in Entry, Grows(b, live, e)
            PROVE  Settled(t, c, e)
        BY <1>1, <1>6, <3>1, WriteSettled
      <3>. QED
        BY <1>3, <2>1, <3>1
    <2>. QED
      BY <1>2, <2>1, <2>2
  <1>7. ASSUME NEW t, NEW c \in BOOLEAN, log' = <<Last(log)>>, Decides(Last(log)), Txn(Last(log)) = t,
               Commits(Last(log)) <=> c
        PROVE  /\ t \in Identity /\ t[1] >= 1
               /\ \A e \in Entries' : Settled(t, c, e)
               /\ c => <<t, TRUE>> \in asked'
    <2>1. t \in Identity /\ t[1] >= 1 /\ Before(t, client_producer_identity(Last(log)))
      BY <1>4, <1>7, DecidesBefore
    <2>2. Settled(t, c, Last(log))
      BY <1>7, <2>1 DEF Settled
    <2>3. c => <<t, TRUE>> \in asked
      BY <1>4, <1>7 DEF Outcomes
    <2>. QED
      BY <1>2, <1>5, <1>7, <2>1, <2>2, <2>3
  <1>8. ASSUME NEW t, NEW c \in BOOLEAN, Decided(t, c)'
        PROVE  /\ t \in Identity /\ t[1] >= 1
               /\ \A e \in Entries' : Settled(t, c, e)
               /\ c => <<t, TRUE>> \in asked'
    <2>1. \/ Decided(t, c)
          \/ log' = <<Last(log)>> /\ Decides(Last(log)) /\ Txn(Last(log)) = t /\ (Commits(Last(log)) <=> c)
      BY <1>8, DecidedStep
    <2>2. CASE Decided(t, c)
      BY <1>6, <2>2
    <2>3. CASE log' = <<Last(log)>> /\ Decides(Last(log)) /\ Txn(Last(log)) = t /\ (Commits(Last(log)) <=> c)
      BY <1>7, <2>3
    <2>. QED
      BY <2>1, <2>2, <2>3
  <1>9. ASSUME NEW t, Decided(t, TRUE)', Decided(t, FALSE)' PROVE FALSE
    <2>1. ASSUME NEW c \in BOOLEAN, Decided(t, c), Decides(Last(log)), Txn(Last(log)) = t
          PROVE  Commits(Last(log)) <=> c
      BY <1>4, <2>1 DEF Outcomes, Settled
    <2>2. \/ Decided(t, TRUE)
          \/ Decides(Last(log)) /\ Txn(Last(log)) = t /\ Commits(Last(log))
      BY <1>9, DecidedStep
    <2>3. \/ Decided(t, FALSE)
          \/ Decides(Last(log)) /\ Txn(Last(log)) = t /\ ~Commits(Last(log))
      BY <1>9, DecidedStep
    <2>. QED
      BY <2>1, <2>2, <2>3 DEF Outcomes
  <1>10. ASSUME NEW e \in Entries', Commits(e) PROVE <<Txn(e), TRUE>> \in asked'
    <2>1. CASE e \in Entries
      BY <1>2, <1>10, <2>1 DEF Outcomes
    <2>2. ASSUME NEW b \in Brokers, NEW live \in Entry, e \in Entry, Grows(b, live, e)
          PROVE  <<Txn(e), TRUE>> \in asked'
      BY <1>1, <1>2, <1>10, <2>2, WriteAsked
    <2>. QED
      BY <1>3, <2>1, <2>2
  <1>. QED
    BY <1>8, <1>9, <1>10 DEF Outcomes, Settled

------------------------------------------------------------------------------
(* What a step does to a partition.                                        *)

\* The epoch of a producer does not go back, and what is opened is registered.
Moved(p, pid) ==
    \/ part'[p][pid].epoch = part[p][pid].epoch /\ part'[p][pid].open = part[p][pid].open
    \/ /\ part'[p][pid].epoch \in -1..MaxEpoch /\ part'[p][pid].epoch >= part[p][pid].epoch
       /\ \A e \in part'[p][pid].open :
              /\ e = part'[p][pid].epoch /\ e \in 0..(MaxEpoch - 1)
              /\ \A x \in Entries : EndsAt(x, <<pid, e>>, p)
       /\ log' = log

\* The marker of a fan-out is written unless it is fenced.
LEMMA MarkerMoves ==
    ASSUME Typed, NEW m, LateOK(m, fresh), ApplyMarker(m), log' = log
    PROVE  /\ \A p \in Partitions, pid \in Pids : Moved(p, pid)
           /\ MarkerDecision(m) # "fenced" => part'[m.p][m.id[1]].epoch >= m.id[2]
           /\ \A r \in produces' : \E q \in produces : r.id = q.id /\ r.p = q.p /\ r.verified = q.verified
  <1>1. PICK pid \in Pids, k \in 1..MaxEpoch : m.id[1] = pid /\ m.id[2] = k
    BY LatePid
  <1>2. m.p \in Partitions /\ m.epoch \in Nat /\ k \in Int
    BY DEF LateOK, Late
  <1>3. PICK s \in Producer : s = part[m.p][pid]
    BY <1>2 DEF Typed
  <1>4. s.epoch \in Int /\ MarkerDecision(m) = TP!transaction_marker_decision(s, k, m.epoch)
    BY <1>1, <1>3 DEF MarkerDecision, Producer
  <1>5. MarkerDecision(m) # "fenced" => k >= s.epoch
    BY <1>2, <1>4 DEF TP!transaction_marker_decision
  <1>6. CASE MarkerDecision(m) # "append"
    <2>1. part' = part /\ produces' = produces
      BY <1>6 DEF ApplyMarker
    <2>2. MarkerDecision(m) # "fenced" => s.epoch = k
      BY <1>2, <1>4, <1>6 DEF TP!transaction_marker_decision
    <2>. QED
      BY <1>1, <1>2, <1>3, <1>4, <2>1, <2>2 DEF Moved
  <1>7. CASE MarkerDecision(m) = "append"
    <2>1. PICK t : t = TP!AppendMarker(s, k, m.epoch)
      OBVIOUS
    <2>2. t \in Producer /\ t.epoch = k /\ t.open = {}
      BY <1>2, <2>1 DEF TP!AppendMarker, Producer
    <2>3. part' = [part EXCEPT ![m.p][pid] = t]
      BY <1>1, <1>3, <1>7, <2>1 DEF ApplyMarker
    <2>4. /\ part'[m.p][pid] = t
          /\ \A q \in Partitions, i \in Pids : <<q, i>> # <<m.p, pid>> => part'[q][i] = part[q][i]
      BY <1>2, <2>2, <2>3, PartChanges DEF Typed
    <2>5. k >= s.epoch /\ k \in -1..MaxEpoch
      BY <1>2, <1>5, <1>7
    <2>6. Moved(m.p, pid)
      BY <1>3, <2>2, <2>4, <2>5 DEF Moved
    <2>7. \A q \in Partitions, i \in Pids : Moved(q, i)
      BY <2>4, <2>6 DEF Moved
    <2>8. produces' = produces \/ produces' = LoseGuards(m.p, pid, produces)
      BY <1>1, <1>7 DEF ApplyMarker
    <2>9. \A r \in produces' : \E q \in produces : r.id = q.id /\ r.p = q.p /\ r.verified = q.verified
      BY <2>8, LoseGuardsKeeps DEF Typed
    <2>. QED
      BY <1>1, <1>2, <2>2, <2>4, <2>7, <2>9
  <1>. QED
    BY <1>6, <1>7

\* One entry ends one transaction.
LEMMA EndsOne ==
    ASSUME NEW x, NEW i, NEW k, NEW p, EndsAt(x, i, p), EndsAt(x, k, p)
    PROVE  i = k
  BY DEF EndsAt, Prepared

LEMMA BatchMoves ==
    ASSUME Typed, Registrations, NEW r \in produces, AppendBatch(r)
    PROVE  /\ \A p \in Partitions, pid \in Pids : Moved(p, pid)
           /\ \A q \in produces' : \E i \in produces : q.id = i.id /\ q.p = i.p /\ q.verified = i.verified
  <1>1. r \in Batch /\ r.id \in Identity /\ r.p \in Partitions /\ GivenOK(r.id, fresh) /\ fresh \in 1..(MaxPid + 1)
    BY DEF Typed, Batch
  <1>2. PICK pid \in Pids, k \in 0..(MaxEpoch - 1) : r.id = <<pid, k>>
    BY <1>1 DEF GivenOK, Identity, Pids
  <1>3. PICK s \in Producer : s = part[r.p][pid]
    BY <1>1 DEF Typed
  <1>4. PICK o \in SUBSET Int : o = s.open
    BY DEF Producer
  <1>5. s.epoch \in Int /\ k \in Int /\ pid \in Int /\ log' = log
    BY DEF Producer, Pids, AppendBatch
  <1>6. k >= s.epoch
    <2>1. TP!check_transactional_append(s, k, r.guard)
      BY <1>2, <1>3 DEF AppendBatch
    <2>. QED
      BY <1>5, <2>1 DEF TP!check_transactional_append, TP!has_ongoing_transaction
  <1>7. \A x \in Entries : EndsAt(x, <<pid, k>>, r.p)
    <2>1. Registered(r.id, r.p)
      BY DEF Registrations, AppendBatch
    <2>. QED
      BY <1>2, <1>3, <1>5, <1>6, <2>1 DEF Registered
  <1>8. \A e \in o : e = k
    <2>1. ASSUME NEW e \in o PROVE e = k
      <3>1. \A x \in Entries : EndsAt(x, <<pid, e>>, r.p)
        BY <1>1, <1>3, <1>4 DEF Registrations, ProducerOpen
      <3>2. PICK x \in Entries : x = log[1]
        BY LastIsEntry DEF Typed
      <3>3. <<pid, e>> = <<pid, k>>
        BY <1>7, <3>1, EndsOne
      <3>. QED
        BY <3>3
    <2>. QED
      BY <2>1
  <1>9. PICK t : t = TP!AppendData(s, k)
    OBVIOUS
  <1>10. t \in Producer /\ t.epoch = k /\ t.open = o \cup {k}
    <2>1. t = [epoch |-> k, coordinator |-> s.coordinator, open |-> o \cup {k}, verifying |-> -1]
      BY <1>4, <1>9 DEF TP!AppendData, Producer
    <2>2. o \cup {k} \in SUBSET Int /\ s.coordinator \in Int
      BY <1>4, <1>5 DEF Producer
    <2>. QED
      BY <1>5, <2>1, <2>2 DEF Producer
  <1>11. part' = [part EXCEPT ![r.p][pid] = t]
    BY <1>2, <1>3, <1>9 DEF AppendBatch
  <1>12. /\ part'[r.p][pid] = t
         /\ \A q \in Partitions, i \in Pids : <<q, i>> # <<r.p, pid>> => part'[q][i] = part[q][i]
    BY <1>1, <1>10, <1>11, PartChanges DEF Typed
  <1>13. Moved(r.p, pid)
    <2>1. \A e \in t.open : e = k
      BY <1>8, <1>10
    <2>2. k \in -1..MaxEpoch
      BY <1>5
    <2>. QED
      BY <1>3, <1>5, <1>6, <1>7, <1>10, <1>12, <2>1, <2>2 DEF Moved
  <1>14. \A q \in Partitions, i \in Pids : Moved(q, i)
    BY <1>12, <1>13 DEF Moved
  <1>15. \A q \in produces' : \E i \in produces : q.id = i.id /\ q.p = i.p /\ q.verified = i.verified
    <2>1. produces' = LoseGuards(r.p, r.id[1], produces \ {r}) /\ \A q \in produces : q \in Batch
      BY DEF AppendBatch, Typed
    <2>. QED
      BY <2>1, LoseGuardsKeeps
  <1>. QED
    BY <1>14, <1>15

LEMMA ProduceMoves ==
    ASSUME Typed, NEW p \in Partitions, NEW id \in given, Produce(p, id)
    PROVE  /\ \A q \in Partitions, i \in Pids : Moved(q, i)
           /\ \A r \in produces' : r.verified => r \in produces
  <1>1. GivenOK(id, fresh) /\ fresh \in 1..(MaxPid + 1)
    BY DEF Typed
  <1>2. PICK pid \in Pids, k \in Int : id = <<pid, k>>
    BY <1>1 DEF GivenOK, Identity, Pids
  <1>3. PICK s \in Producer : s = part[p][pid]
    BY DEF Typed
  <1>4. PICK t : t = TP!maybe_start_transaction_verification(s, k)
    OBVIOUS
  <1>5. t \in Producer /\ t.epoch = s.epoch /\ t.open = s.open
    BY <1>4 DEF TP!maybe_start_transaction_verification, Producer
  <1>6. part' = [part EXCEPT ![p][pid] = t]
    BY <1>2, <1>3, <1>4 DEF Produce
  <1>7. /\ part'[p][pid] = t
        /\ \A q \in Partitions, i \in Pids : <<q, i>> # <<p, pid>> => part'[q][i] = part[q][i]
    BY <1>5, <1>6, PartChanges DEF Typed
  <1>8. \A q \in Partitions, i \in Pids : Moved(q, i)
    BY <1>3, <1>5, <1>7 DEF Moved
  <1>9. \A r \in produces' : r.verified => r \in produces
    BY DEF Produce
  <1>. QED
    BY <1>8, <1>9

LEMMA PartStep ==
    ASSUME Typed, Registrations, [Next]_vars
    PROVE  \A p \in Partitions, pid \in Pids : Moved(p, pid)
  <1>1. CASE part' = part
    BY <1>1 DEF Moved
  <1>2. CASE SomeWrite \/ SomeAnswer
    BY <1>1, <1>2 DEF SomeWrite, Writes, SomeAnswer
  <1>3. CASE \E b \in Brokers : \/ Elect(b) \/ ApplyImage(b) \/ Load(b) \/ Crash(b)
                                \/ FinishWrite(b) \/ FailWrite(b) \/ ResumeAbort(b) \/ CompletionTask(b)
    BY <1>1, <1>3 DEF Elect, ApplyImage, Load, Crash, FinishWrite, FailWrite, ResumeAbort, CompletionTask
  <1>4. CASE \E j \in jobs : GiveUpFanOut(j) \/ SkipCompletion(j) \/ StartFanOut(j)
    BY <1>1, <1>4 DEF GiveUpFanOut, SkipCompletion, StartFanOut
  <1>5. CASE \/ \E id \in given, commit \in BOOLEAN : Ask(id, commit)
             \/ \E r \in produces : RefuseBatch(r)
             \/ \E j \in jobs, p \in Partitions : StopWaiting(j, p) \/ RefuseMarker(j, p)
             \/ UNCHANGED vars
    BY <1>1, <1>5 DEF Ask, RefuseBatch, StopWaiting, RefuseMarker, vars
  <1>6. CASE \E id \in given, p \in Partitions : Produce(p, id)
    BY <1>6, ProduceMoves
  <1>7. CASE \E r \in produces : AppendBatch(r)
    BY <1>7, BatchMoves
  <1>8. ASSUME NEW j \in jobs, NEW p \in Partitions, HandleMarker(j, p)
        PROVE  \A q \in Partitions, pid \in Pids : Moved(q, pid)
    <2>1. LateOK(Marker(j, p), fresh)
      BY MarkerDecided
    <2>. QED
      BY <1>8, <2>1, MarkerMoves DEF HandleMarker
  <1>9. ASSUME NEW m \in late, HandleLateMarker(m)
        PROVE  \A q \in Partitions, pid \in Pids : Moved(q, pid)
    <2>1. LateOK(m, fresh)
      BY MarkerDecided
    <2>. QED
      BY <1>9, <2>1, MarkerMoves DEF HandleLateMarker
  <1>. QED
    BY <1>2, <1>3, <1>4, <1>5, <1>6, <1>7, <1>8, <1>9, StepKinds

LEMMA EpochsGrow ==
    ASSUME Typed, Registrations, [Next]_vars, NEW p \in Partitions, NEW pid \in Pids
    PROVE  /\ part[p][pid].epoch \in Int /\ part'[p][pid].epoch \in Int
           /\ part'[p][pid].epoch >= part[p][pid].epoch
  <1>1. part[p][pid].epoch \in Int
    BY DEF Typed, Producer
  <1>. QED
    BY <1>1, PartStep DEF Moved

\* The entry that is written after the end of a transaction on p keeps it, unless p is marked.
LEMMA GrowEnds ==
    ASSUME Typed, Marks, NEW b \in Brokers, NEW live \in Entry, NEW x \in Entry, Grows(b, live, x),
           NEW id, NEW p \in Partitions, EndsAt(log[1], id, p)
    PROVE  EndsAt(x, id, p) \/ part[p][id[1]].epoch > id[2]
  <1>1. log[1] \in Entries /\ Formed(log[1], fresh) /\ fresh \in Nat
    BY LastIsEntry DEF Typed
  <1>2. PICK e \in Entries : e = log[1]
    BY <1>1
  <1>3. Same(live, e) /\ Same(live, coord[b].entry)
    BY <1>2 DEF Grows
  <1>4. CASE e.state = "Ongoing"
    <2>1. live.state = "Ongoing" /\ live.id = id /\ p \in live.partitions
      BY <1>2, <1>3, <1>4 DEF EndsAt, Same, Prepared
    <2>2. ~Starts(live, x) /\ ~Finishes(b, live, x)
      BY <2>1 DEF Starts, Finishes, Prepared
    <2>3. CASE Registers(live, x)
      BY <2>1, <2>3 DEF Registers, EndsAt
    <2>4. CASE Prepares(live, x)
      BY <2>1, <2>4 DEF Prepares, EndsAt
    <2>. QED
      BY <2>2, <2>3, <2>4 DEF Grows
  <1>5. CASE e.state # "Ongoing"
    <2>1. e.state \in Prepared /\ TransactionOf(e) = id /\ p \in e.partitions
      BY <1>2, <1>5 DEF EndsAt
    <2>2. live.state \in Prepared
      BY <1>3, <2>1 DEF Same
    <2>3. Finishes(b, live, x)
      BY <2>2 DEF Grows, Starts, Registers, Prepares, Prepared, Completed
    <2>4. PICK j \in jobs : /\ j.todo = {} /\ j.failure = "none"
                            /\ coord[b].entry.state = j.snap.state /\ coord[b].entry.id = j.snap.id
      BY <2>3 DEF Finishes
    <2>5. j.snap.id = e.id /\ j.snap.state \in Prepared /\ Formed(j.snap, fresh) /\ j.snap \in Published
      BY <1>3, <2>2, <2>4 DEF Same, Typed, JobOK, Published
    <2>6. TransactionOf(j.snap) = TransactionOf(e)
      BY <1>1, <1>2, <2>1, <2>5, PreparedTxn
    <2>7. j.written = j.snap.partitions /\ \A q \in j.written : Reached(j.snap, q)
      BY <2>4 DEF Marks, JobMarks
    <2>8. Covers(j.snap)
      BY <2>5 DEF Marks
    <2>9. Reached(j.snap, p)
      BY <2>1, <2>6, <2>7, <2>8 DEF Covers
    <2>10. PICK i \in Nat \ {0}, k \in 1..MaxEpoch : e.id[1] = i /\ e.id[2] = k /\ id = <<i, k - 1>>
      BY <1>1, <1>2, <2>1, PreparedTxn
    <2>11. i \in Pids
      BY <1>1, <1>2, <2>1, <2>10 DEF Formed, NoEntry, new_empty, Prepared, Pids, Typed
    <2>12. part[p][i].epoch \in Int /\ part[p][i].epoch >= k
      BY <2>5, <2>9, <2>10, <2>11 DEF Reached, Typed, Producer
    <2>. QED
      BY <2>10, <2>12
  <1>. QED
    BY <1>4, <1>5

\* Once a batch may be appended, it may be appended or is too late.
LEMMA RegisteredStep ==
    ASSUME Typed, Current, Registrations, Marks, [Next]_vars, NEW id \in Pids \X Int, NEW p \in Partitions,
           Registered(id, p)
    PROVE  Registered(id, p)'
  <1>1. id[1] \in Pids /\ id[2] \in Int
    OBVIOUS
  <1>2. /\ part[p][id[1]].epoch \in Int /\ part'[p][id[1]].epoch \in Int
        /\ part'[p][id[1]].epoch >= part[p][id[1]].epoch
    BY <1>1, EpochsGrow
  <1>3. CASE part[p][id[1]].epoch > id[2]
    BY <1>1, <1>2, <1>3 DEF Registered
  <1>4. CASE ~(part[p][id[1]].epoch > id[2])
    <2>1. \A e \in Entries : EndsAt(e, id, p)
      BY <1>4 DEF Registered
    <2>2. CASE Entries' \subseteq Entries
      BY <2>1, <2>2 DEF Registered
    <2>3. ASSUME NEW b \in Brokers, NEW live \in Entry, NEW x \in Entry, Grows(b, live, x)
          PROVE  Registered(id, p)'
      <3>1. log[1] \in Entries
        BY LastIsEntry DEF Typed
      <3>2. EndsAt(x, id, p)
        BY <1>4, <2>1, <2>3, <3>1, GrowEnds
      <3>3. Entries' = Entries \cup {x}
        BY <2>3 DEF Grows
      <3>. QED
        BY <2>1, <3>2, <3>3 DEF Registered
    <2>. QED
      BY <2>2, <2>3, EntriesStep
  <1>. QED
    BY <1>3, <1>4

\* Where a batch is verified.
Verifies(e, r) == e.state = "Ongoing" /\ e.id = r.id /\ r.p \in e.partitions

LEMMA ProducesStep ==
    ASSUME Typed, Current, Registrations, [Next]_vars, NEW r \in produces', r.verified
    PROVE  \/ \E q \in produces : q.id = r.id /\ q.p = r.p /\ q.verified
           \/ \E b \in Brokers : Verifies(coord[b].entry, r)
           \/ log' = <<Last(log)>> /\ Verifies(Last(log), r)
  <1>0. \A q \in produces : q \in Batch
    BY DEF Typed
  <1>1. CASE r \in produces
    BY <1>1
  <1>2. CASE \E q \in produces : q.id = r.id /\ q.p = r.p /\ q.verified = r.verified
    BY <1>2
  <1>3. CASE SomeWrite
    BY <1>1, <1>3 DEF SomeWrite, Writes
  <1>4. CASE SomeAnswer
    <2>1. CASE produces' = produces
      BY <1>1, <2>1
    <2>2. ASSUME NEW b \in Brokers, NEW q \in produces, coord[b].entry.state = "Ongoing", coord[b].entry.id = q.id,
                 q.p \in coord[b].entry.partitions,
                 produces' = (produces \ {q}) \cup {[q EXCEPT !.verified = TRUE]}
          PROVE  \/ \E i \in produces : i.id = r.id /\ i.p = r.p /\ i.verified
                 \/ \E c \in Brokers : Verifies(coord[c].entry, r)
      <3>1. r \in produces \/ r = [q EXCEPT !.verified = TRUE]
        BY <2>2
      <3>2. r \in produces \/ (r.id = q.id /\ r.p = q.p)
        BY <1>0, <3>1, VerifiedBatch
      <3>3. r.id = q.id /\ r.p = q.p => Verifies(coord[b].entry, r)
        BY <2>2 DEF Verifies
      <3>. QED
        BY <3>2, <3>3
    <2>. QED
      BY <1>4, <2>1, <2>2 DEF SomeAnswer
  <1>5. CASE \E b \in Brokers : \/ Elect(b) \/ ApplyImage(b) \/ Load(b) \/ Crash(b)
                                \/ FailWrite(b) \/ ResumeAbort(b) \/ CompletionTask(b)
    BY <1>1, <1>5 DEF Elect, ApplyImage, Load, Crash, FailWrite, ResumeAbort, CompletionTask
  <1>6. ASSUME NEW b \in Brokers, FinishWrite(b)
        PROVE  \/ \E q \in produces : q.id = r.id /\ q.p = r.p /\ q.verified
               \/ log' = <<Last(log)>> /\ Verifies(Last(log), r)
    <2>1. PICK w : w = coord[b].write
      OBVIOUS
    <2>2. /\ log' = <<Last(log)>> /\ Leads(b, w.epoch) /\ w.logged /\ AfterWrite(b, w)
          /\ KindOK(w.kind, w.entry, w.request)
      BY <1>6, <2>1 DEF FinishWrite, Typed, CoordOK
    <2>3. Last(log) = w.entry
      BY <2>1, <2>2 DEF Current
    <2>4. CASE w.kind # "add"
      BY <1>1, <2>2, <2>4 DEF AfterWrite
    <2>5. CASE w.kind = "add"
      <3>1. produces' = {IF <<q.id, q.p>> = w.request
                         THEN [q EXCEPT !.verified = TRUE] ELSE q : q \in produces}
        BY <2>2, <2>5 DEF AfterWrite
      <3>2. PICK q \in produces : r = IF <<q.id, q.p>> = w.request THEN [q EXCEPT !.verified = TRUE] ELSE q
        BY <3>1
      <3>3. CASE r = q
        BY <1>1, <3>3
      <3>4. CASE <<q.id, q.p>> = w.request /\ r = [q EXCEPT !.verified = TRUE]
        <4>1. r.id = w.request[1] /\ r.p = w.request[2]
          BY <1>0, <3>4, VerifiedBatch
        <4>2. Verifies(w.entry, r)
          BY <2>2, <2>5, <4>1 DEF KindOK, Verifies
        <4>. QED
          BY <2>2, <2>3, <4>2
      <3>. QED
        BY <3>2, <3>3, <3>4
    <2>. QED
      BY <2>4, <2>5
  <1>7. CASE \E j \in jobs : GiveUpFanOut(j) \/ SkipCompletion(j) \/ StartFanOut(j)
    BY <1>1, <1>7 DEF GiveUpFanOut, SkipCompletion, StartFanOut
  <1>8. CASE \/ \E id \in given, commit \in BOOLEAN : Ask(id, commit)
             \/ \E q \in produces : RefuseBatch(q)
             \/ \E j \in jobs, p \in Partitions : StopWaiting(j, p) \/ RefuseMarker(j, p)
             \/ UNCHANGED vars
    BY <1>1, <1>8 DEF Ask, RefuseBatch, StopWaiting, RefuseMarker, vars
  <1>9. CASE \E id \in given, p \in Partitions : Produce(p, id)
    BY <1>1, <1>9, ProduceMoves
  <1>10. CASE \E q \in produces : AppendBatch(q)
    BY <1>2, <1>10, BatchMoves
  <1>11. ASSUME NEW j \in jobs, NEW p \in Partitions, HandleMarker(j, p)
         PROVE  \E q \in produces : q.id = r.id /\ q.p = r.p /\ q.verified = r.verified
    <2>1. LateOK(Marker(j, p), fresh)
      BY MarkerDecided
    <2>. QED
      BY <1>11, <2>1, MarkerMoves DEF HandleMarker
  <1>12. ASSUME NEW m \in late, HandleLateMarker(m)
         PROVE  \E q \in produces : q.id = r.id /\ q.p = r.p /\ q.verified = r.verified
    <2>1. LateOK(m, fresh)
      BY MarkerDecided
    <2>. QED
      BY <1>12, <2>1, MarkerMoves DEF HandleLateMarker
  <1>. QED
    BY <1>2, <1>3, <1>4, <1>5, <1>6, <1>7, <1>8, <1>9, <1>10, <1>11, <1>12, StepKinds

LEMMA ProducerOpenStep ==
    ASSUME Typed, Current, Registrations, Marks, [Next]_vars, NEW p \in Partitions, NEW pid \in Pids
    PROVE  ProducerOpen(p, pid)'
  <1>1. ProducerOpen(p, pid) /\ Moved(p, pid)
    BY PartStep DEF Registrations
  <1>2. CASE part'[p][pid].epoch = part[p][pid].epoch /\ part'[p][pid].open = part[p][pid].open
    <2>1. ASSUME NEW e \in part[p][pid].open, NEW x \in Entries' PROVE EndsAt(x, <<pid, e>>, p)
      <3>1. e = part[p][pid].epoch /\ e \in Int /\ \A y \in Entries : EndsAt(y, <<pid, e>>, p)
        BY <1>1 DEF ProducerOpen
      <3>2. CASE x \in Entries
        BY <3>1, <3>2
      <3>3. ASSUME NEW b \in Brokers, NEW live \in Entry, x \in Entry, Grows(b, live, x)
            PROVE  EndsAt(x, <<pid, e>>, p)
        <4>1. log[1] \in Entries
          BY LastIsEntry DEF Typed
        <4>2. EndsAt(x, <<pid, e>>, p) \/ part[p][<<pid, e>>[1]].epoch > <<pid, e>>[2]
          BY <3>1, <3>3, <4>1, GrowEnds
        <4>. QED
          BY <3>1, <4>2
      <3>. QED
        BY <3>2, <3>3, EntriesStep DEF Grows
    <2>. QED
      BY <1>1, <1>2, <2>1 DEF ProducerOpen
  <1>3. CASE /\ part'[p][pid].epoch \in -1..MaxEpoch
             /\ \A e \in part'[p][pid].open :
                    /\ e = part'[p][pid].epoch /\ e \in 0..(MaxEpoch - 1)
                    /\ \A x \in Entries : EndsAt(x, <<pid, e>>, p)
             /\ log' = log
    <2>1. Entries' = Entries
      BY <1>3 DEF Entries
    <2>. QED
      BY <1>3, <2>1 DEF ProducerOpen
  <1>. QED
    BY <1>1, <1>2, <1>3 DEF Moved

\* The identity of a request, and of an entry that is ongoing.
LEMMA OngoingIdentity ==
    ASSUME Typed
    PROVE  /\ \A e : Formed(e, fresh) /\ e.state # "none" => e.id \in Pids \X Int
           /\ \A r \in produces : r.id \in Pids \X Int /\ r.p \in Partitions
  <1>0. fresh \in 1..(MaxPid + 1) /\ fresh - 1 \in 0..MaxPid
    BY DEF Typed
  <1>1. ASSUME NEW e, Formed(e, fresh), e.state # "none" PROVE e.id \in Pids \X Int
    <2>1. e.id \in Identity /\ e.id[1] \in 1..(fresh - 1)
      BY <1>1 DEF Formed, Entry, NoEntry, new_empty
    <2>. QED
      BY <1>0, <2>1 DEF Identity, Pids
  <1>2. ASSUME NEW r \in produces PROVE r.id \in Pids \X Int /\ r.p \in Partitions
    BY <1>0 DEF Typed, GivenOK, Identity, Pids, Batch
  <1>. QED
    BY <1>1, <1>2

LEMMA RegistrationsStep ==
    ASSUME Typed, Current, Registrations, Marks, [Next]_vars
    PROVE  Registrations'
  <1>0. fresh \in Nat /\ \A b \in Brokers : Formed(coord[b].entry, fresh)
    BY DEF Typed, CoordOK
  <1>1. \A p \in Partitions, pid \in Pids : ProducerOpen(p, pid)'
    BY ProducerOpenStep
  <1>2. ASSUME log' = <<Last(log)>>, NEW id, NEW p, Last(log).state = "Ongoing", Last(log).id = id,
               p \in Last(log).partitions
        PROVE  Registered(id, p)'
    <2>1. Entries' = {Last(log)}
      BY <1>2, TakeLast DEF Typed
    <2>2. EndsAt(Last(log), id, p)
      BY <1>2 DEF EndsAt
    <2>3. \A e \in Entries' : EndsAt(e, id, p)
      BY <2>1, <2>2
    <2>. QED
      BY <2>3 DEF Registered
  <1>3. ASSUME NEW b \in Brokers, NEW id, NEW p, coord[b].entry.state = "Ongoing", coord[b].entry.id = id,
               p \in coord[b].entry.partitions
        PROVE  Registered(id, p)'
    <2>1. id \in Pids \X Int /\ p \in Partitions
      BY <1>0, <1>3, OngoingIdentity DEF Formed, Entry
    <2>2. Registered(id, p)
      BY <1>3 DEF Registrations
    <2>. QED
      BY <2>1, <2>2, RegisteredStep
  <1>4. ASSUME NEW r \in produces', r.verified PROVE Registered(r.id, r.p)'
    <2>1. ASSUME NEW q \in produces, q.id = r.id, q.p = r.p, q.verified PROVE Registered(r.id, r.p)'
      <3>1. r.id \in Pids \X Int /\ r.p \in Partitions
        BY <2>1, OngoingIdentity
      <3>2. Registered(r.id, r.p)
        BY <2>1 DEF Registrations
      <3>. QED
        BY <3>1, <3>2, RegisteredStep
    <2>2. ASSUME NEW b \in Brokers, Verifies(coord[b].entry, r) PROVE Registered(r.id, r.p)'
      BY <1>3, <2>2 DEF Verifies
    <2>3. CASE log' = <<Last(log)>> /\ Verifies(Last(log), r)
      BY <1>2, <2>3 DEF Verifies
    <2>. QED
      BY <1>4, <2>1, <2>2, <2>3, ProducesStep
  <1>5. ASSUME NEW b \in Brokers, NEW id, NEW p, coord'[b].entry.state = "Ongoing", coord'[b].entry.id = id,
               p \in coord'[b].entry.partitions
        PROVE  Registered(id, p)'
    <2>1. PICK y \in Published' : y = coord'[b].entry
      BY DEF Published
    <2>2. From(y)
      BY PublishedStep
    <2>3. y # NoEntry
      BY <1>5, <2>1 DEF NoEntry, new_empty
    <2>4. CASE y = Last(log) /\ log' = <<Last(log)>>
      BY <1>2, <1>5, <2>1, <2>4
    <2>5. ASSUME NEW z \in Published, Kept(y, z) PROVE Registered(id, p)'
      <3>1. z.state = "Ongoing" /\ z.id = id /\ p \in z.partitions
        BY <1>5, <2>1, <2>5 DEF Kept, Same
      <3>2. PICK c \in Brokers : z = coord[c].entry
        BY <3>1 DEF Published, Typed, JobOK, Prepared
      <3>. QED
        BY <1>3, <3>1, <3>2
    <2>. QED
      BY <2>2, <2>3, <2>4, <2>5 DEF From
  <1>. QED
    BY <1>1, <1>4, <1>5 DEF Registrations

------------------------------------------------------------------------------
(* What a step does to the fan-outs.                                       *)

\* A marker that was written stays written.
LEMMA ReachedStep ==
    ASSUME Typed, Registrations, [Next]_vars, NEW x, Formed(x, fresh), x.state # "none",
           NEW p \in Partitions, Reached(x, p)
    PROVE  Reached(x, p)'
  <1>1. PICK pid \in Pids, k \in Int : x.id[1] = pid /\ x.id[2] = k
    BY OngoingIdentity
  <1>2. /\ part[p][pid].epoch \in Int /\ part'[p][pid].epoch \in Int
        /\ part'[p][pid].epoch >= part[p][pid].epoch
    BY EpochsGrow
  <1>. QED
    BY <1>1, <1>2 DEF Reached

\* No entry is prepared for a transaction whose outcome is published.
LEMMA PreparedOnce ==
    ASSUME Typed, Outcomes, NEW b \in Brokers, NEW live \in Entry, NEW x \in Entry, Grows(b, live, x),
           x.state \in Prepared, NEW z \in Published, z.state \in Prepared
    PROVE  TransactionOf(x) # TransactionOf(z)
  <1>1. log[1] \in Entries /\ Formed(log[1], fresh) /\ fresh \in Nat /\ Formed(z, fresh)
    BY LastIsEntry, PublishedFormed DEF Typed
  <1>2. PICK e \in Entries : e = log[1]
    BY <1>1
  <1>3. Prepares(live, x) /\ Same(live, e)
    BY <1>2 DEF Grows, Starts, Registers, Finishes, Prepared, Completed
  <1>4. PICK t : \E c \in BOOLEAN : t = TransactionOf(z) /\ (Commits(z) <=> c)
    BY DEF Commits
  <1>a. PICK c \in BOOLEAN : t = TransactionOf(z) /\ (Commits(z) <=> c)
    BY <1>4
  <1>5. Decided(t, c)
    BY <1>1, <1>a, PreparedTxn DEF Decided
  <1>6. t \in Identity /\ Before(t, client_producer_identity(e))
    BY <1>5 DEF Outcomes, Settled
  <1>7. client_producer_identity(e) \in Identity /\ client_producer_identity(e) = live.id
    BY <1>1, <1>2, <1>3, ClientIdentity DEF Prepares, Same
  <1>8. t # live.id
    BY <1>6, <1>7, BeforeOrder
  <1>. QED
    BY <1>3, <1>4, <1>8 DEF Prepares

LEMMA CoversStep ==
    ASSUME Typed, Current, Outcomes, Registrations, Marks, [Next]_vars,
           NEW y \in Published', y.state \in Prepared
    PROVE  Covers(y)'
  <1>1. From(y) /\ y # NoEntry
    BY PublishedStep DEF NoEntry, new_empty, Prepared
  <1>2. CASE y = Last(log) /\ log' = <<Last(log)>>
    <2>1. Entries' = {y}
      BY <1>2, TakeLast DEF Typed
    <2>. QED
      BY <2>1 DEF Covers
  <1>3. ASSUME NEW z \in Published, Kept(y, z) PROVE Covers(y)'
    <2>1. /\ z.state \in Prepared /\ y.id = z.id /\ TransactionOf(y) = TransactionOf(z)
          /\ \A p \in z.partitions \ y.partitions : Reached(z, p)
      BY <1>3 DEF Kept, Same, TransactionOf
    <2>2. Covers(z) /\ Formed(z, fresh) /\ z.state # "none"
      BY <2>1, PublishedFormed DEF Marks, Prepared
    <2>3. ASSUME NEW e \in Entries', e.state \in Prepared, TransactionOf(e) = TransactionOf(y),
                 NEW p \in e.partitions \ y.partitions
          PROVE  Reached(y, p)'
      <3>1. CASE e \in Entries
        <4>1. p \in Partitions
          BY <3>1 DEF Typed, Formed, Entry
        <4>2. Reached(z, p)
          BY <2>1, <2>2, <2>3, <3>1 DEF Covers
        <4>3. Reached(z, p)'
          BY <2>2, <4>1, <4>2, ReachedStep
        <4>. QED
          BY <2>1, <4>3 DEF Reached
      <3>2. ASSUME NEW b \in Brokers, NEW live \in Entry, e \in Entry, Grows(b, live, e) PROVE FALSE
        BY <2>1, <2>3, <3>2, PreparedOnce
      <3>. QED
        BY <3>1, <3>2, EntriesStep DEF Grows
    <2>. QED
      BY <2>3 DEF Covers
  <1>. QED
    BY <1>1, <1>2, <1>3 DEF From

LEMMA JobMarksStep ==
    ASSUME Typed, Current, Registrations, Marks, [Next]_vars, NEW k \in jobs'
    PROVE  JobMarks(k)'
  <1>1. ASSUME NEW j \in jobs
        PROVE  /\ \A p \in j.written : Reached(j.snap, p)'
               /\ j.failure = "none" => j.todo \cup j.written = j.snap.partitions
               /\ j \in Job
    <2>1. JobMarks(j) /\ j \in Job /\ Formed(j.snap, fresh) /\ j.snap.state # "none"
      BY DEF Marks, Typed, JobOK, Prepared
    <2>2. \A p \in j.written : p \in Partitions
      BY <2>1 DEF Job
    <2>3. ASSUME NEW p \in j.written PROVE Reached(j.snap, p)'
      BY <2>1, <2>2, ReachedStep DEF JobMarks
    <2>. QED
      BY <2>1, <2>3 DEF JobMarks
  <1>2. ASSUME k \in jobs PROVE JobMarks(k)'
    BY <1>1, <1>2 DEF JobMarks
  <1>3. ASSUME NEW b, NEW kind, NEW e, k = NewJob(b, kind, e) PROVE JobMarks(k)'
    <2>1. k.written = {} /\ k.todo = k.snap.partitions
      BY <1>3 DEF NewJob
    <2>. QED
      BY <2>1 DEF JobMarks
  <1>4. CASE SomeWrite \/ SomeAnswer
    <2>1. jobs' \subseteq jobs
      BY <1>4 DEF SomeWrite, Writes, SomeAnswer
    <2>. QED
      BY <1>2, <2>1
  <1>5. CASE \E b \in Brokers : \/ Elect(b) \/ ApplyImage(b) \/ Load(b) \/ Crash(b)
                                \/ FailWrite(b) \/ ResumeAbort(b)
    BY <1>2, <1>5 DEF Elect, ApplyImage, Load, Crash, FailWrite, ResumeAbort
  <1>6. CASE \E b \in Brokers : FinishWrite(b) \/ CompletionTask(b)
    <2>1. k \in jobs \/ \E b, kind, e : k = NewJob(b, kind, e)
      <3>1. ASSUME NEW b \in Brokers, FinishWrite(b) PROVE k \in jobs \/ \E c, kind, e : k = NewJob(c, kind, e)
        BY <3>1 DEF FinishWrite, AfterWrite
      <3>2. ASSUME NEW b \in Brokers, CompletionTask(b) PROVE k \in jobs \/ \E c, kind, e : k = NewJob(c, kind, e)
        BY <3>2 DEF CompletionTask
      <3>. QED
        BY <1>6, <3>1, <3>2
    <2>. QED
      BY <1>2, <1>3, <2>1
  <1>7. CASE \E j \in jobs : GiveUpFanOut(j) \/ SkipCompletion(j)
    BY <1>2, <1>7 DEF GiveUpFanOut, SkipCompletion
  <1>8. ASSUME NEW j \in jobs, StartFanOut(j) PROVE JobMarks(k)'
    <2>1. PICK i : i = IF coord[j.broker].status = "loaded"
                       THEN [j EXCEPT !.started = TRUE, !.epoch = coord[j.broker].epoch]
                       ELSE [j EXCEPT !.started = TRUE, !.todo = {}, !.failure = "retriable"]
      OBVIOUS
    <2>2. i.snap = j.snap /\ i.written = j.written /\ (i.failure = "none" => i.todo = j.todo /\ j.failure = "none")
      BY <1>1, <2>1 DEF Job
    <2>3. k \in jobs \/ k = i
      BY <1>8, <2>1 DEF StartFanOut
    <2>4. CASE k = i
      BY <1>1, <2>2, <2>4 DEF JobMarks
    <2>. QED
      BY <1>2, <2>3, <2>4
  <1>9. ASSUME NEW j \in jobs, NEW p \in Partitions, StopWaiting(j, p) \/ RefuseMarker(j, p)
        PROVE  JobMarks(k)'
    <2>1. PICK i : /\ i = Fail([j EXCEPT !.todo = @ \ {p}], "retriable")
                      \/ i = Fail([j EXCEPT !.todo = @ \ {p}], "unexpected")
                   /\ jobs' = (jobs \ {j}) \cup {i}
      BY <1>9 DEF StopWaiting, RefuseMarker
    <2>2. i.snap = j.snap /\ i.written = j.written /\ i.failure # "none"
      BY <1>1, <2>1 DEF Job, Fail
    <2>3. k \in jobs \/ k = i
      BY <2>1
    <2>4. CASE k = i
      BY <1>1, <2>2, <2>4 DEF JobMarks
    <2>. QED
      BY <1>2, <2>3, <2>4
  <1>10. ASSUME NEW j \in jobs, NEW p \in Partitions, HandleMarker(j, p) PROVE JobMarks(k)'
    <2>1. PICK i : i = IF MarkerDecision(Marker(j, p)) = "fenced"
                       THEN Fail([j EXCEPT !.todo = @ \ {p}], "fenced")
                       ELSE [[j EXCEPT !.todo = @ \ {p}] EXCEPT !.written = @ \cup {p}]
      OBVIOUS
    <2>2. k \in jobs \/ k = i
      BY <1>10, <2>1 DEF HandleMarker
    <2>3. CASE k = i /\ MarkerDecision(Marker(j, p)) = "fenced"
      <3>1. i.snap = j.snap /\ i.written = j.written /\ i.failure # "none"
        BY <1>1, <2>1, <2>3 DEF Job, Fail
      <3>. QED
        BY <1>1, <2>3, <3>1 DEF JobMarks
    <2>4. CASE k = i /\ MarkerDecision(Marker(j, p)) # "fenced"
      <3>1. /\ i.snap = j.snap /\ i.written = j.written \cup {p} /\ i.todo = j.todo \ {p}
            /\ i.failure = j.failure
        BY <1>1, <2>1, <2>4 DEF Job
      <3>2. p \in j.todo
        BY <1>10 DEF HandleMarker
      <3>3. i.failure = "none" => i.todo \cup i.written = i.snap.partitions
        BY <1>1, <3>1, <3>2
      <3>4. LateOK(Marker(j, p), fresh)
        BY MarkerDecided
      <3>5. part'[Marker(j, p).p][Marker(j, p).id[1]].epoch >= Marker(j, p).id[2]
        BY <1>10, <2>4, <3>4, MarkerMoves DEF HandleMarker
      <3>6. Reached(i.snap, p)'
        BY <3>1, <3>5 DEF Marker, Reached
      <3>7. \A q \in i.written : Reached(i.snap, q)'
        BY <1>1, <3>1, <3>6
      <3>. QED
        BY <2>4, <3>3, <3>7 DEF JobMarks
    <2>. QED
      BY <1>2, <2>2, <2>3, <2>4
  <1>11. CASE \/ \E id \in given : \/ \E commit \in BOOLEAN : Ask(id, commit)
                                   \/ \E p \in Partitions : Produce(p, id)
              \/ \E r \in produces : AppendBatch(r) \/ RefuseBatch(r)
              \/ \E m \in late : HandleLateMarker(m)
              \/ UNCHANGED vars
    BY <1>2, <1>11 DEF Ask, Produce, AppendBatch, RefuseBatch, HandleLateMarker, vars
  <1>. QED
    BY <1>4, <1>5, <1>6, <1>7, <1>8, <1>9, <1>10, <1>11, StepKinds

LEMMA MarksStep ==
    ASSUME Typed, Current, Outcomes, Registrations, Marks, [Next]_vars
    PROVE  Marks'
  BY CoversStep, JobMarksStep DEF Marks

------------------------------------------------------------------------------
(* The invariant, and what follows from it.                                *)

TxnInv == Typed /\ Current /\ Outcomes /\ Registrations /\ Marks

LEMMA InitTxnInv == Init => TxnInv
  <1>. SUFFICES ASSUME Init PROVE TxnInv
    OBVIOUS
  <1>1. Typed
    BY InitTyped
  <1>2. /\ \A b \in Brokers : coord[b] = new_coordinator
        /\ jobs = {} /\ late = {} /\ ended = {} /\ told = {} /\ produces = {}
        /\ part = [p \in Partitions |-> [pid \in Pids |-> TP!new_producer]]
    BY DEF Init
  <1>3. Entries = {NoEntry}
    BY DEF Init, Entries
  <1>4. Published \subseteq {NoEntry}
    BY <1>2 DEF Published, new_coordinator
  <1>5. NoEntry.state = "none" /\ "none" \notin Prepared \cup Completed /\ ~Commits(NoEntry) /\ ~Decides(NoEntry)
    BY DEF NoEntry, new_empty, Prepared, Completed, Commits, Decides
  <1>6. Current
    <2>1. \A b \in Brokers : coord[b].status = "none" /\ ~coord[b].write.logged
      BY <1>2, NoWriteOK DEF new_coordinator
    <2>. QED
      BY <2>1 DEF Current
  <1>7. \A t, c : ~Decided(t, c)
    BY <1>2, <1>4, <1>5 DEF Decided
  <1>8. Outcomes
    BY <1>3, <1>5, <1>7 DEF Outcomes
  <1>9. Registrations
    <2>1. ASSUME NEW p \in Partitions, NEW pid \in Pids PROVE ProducerOpen(p, pid)
      <3>1. part[p][pid].epoch = -1 /\ part[p][pid].open = {}
        BY <1>2 DEF TP!new_producer
      <3>. QED
        BY <3>1 DEF ProducerOpen
    <2>2. \A b \in Brokers : coord[b].entry.state = "none"
      BY <1>2, <1>5 DEF new_coordinator
    <2>. QED
      BY <1>2, <2>1, <2>2 DEF Registrations
  <1>10. Marks
    BY <1>2, <1>4, <1>5 DEF Marks
  <1>. QED
    BY <1>1, <1>6, <1>8, <1>9, <1>10 DEF TxnInv

LEMMA TxnInvStep == TxnInv /\ [Next]_vars => TxnInv'
  BY TypedStep, CurrentStep, OutcomesStep, RegistrationsStep, MarksStep DEF TxnInv

LEMMA TxnInvariant == Spec => []TxnInv
  BY InitTxnInv, TxnInvStep, PTL DEF Spec

LEMMA FormedOK ==
    ASSUME NEW f \in 1..(MaxPid + 1), NEW e, Formed(e, f)
    PROVE  EntryOK(e)
  <1>1. CASE e = NoEntry
    BY <1>1 DEF EntryOK
  <1>2. CASE e # NoEntry
    <2>1. /\ e \in Entry /\ e.state \in {"Empty", "Ongoing"} \cup Prepared \cup Completed
          /\ e.id \in Identity /\ e.next \in Identity /\ e.partitions \in SUBSET Partitions
      BY <1>2 DEF Formed, Entry, EntryState
    <2>2. f - 1 \in 0..MaxPid
      OBVIOUS
    <2>3. e.id \in Ids /\ e.last \in -1..MaxEpoch /\ e.prev \in 0..MaxPid
      BY <1>2, <2>1, <2>2 DEF Formed, Identity, Ids, Pids
    <2>4. e.id[2] = MaxEpoch => e.state \in Prepared /\ e.next[2] = 0 /\ e.next[1] \in (e.id[1] + 1)..(f - 1)
      BY <1>2, <2>1 DEF Formed
    <2>5. e.id[2] = MaxEpoch => e.state \in Prepared /\ e.next \in Ids
      BY <2>1, <2>2, <2>3, <2>4 DEF Ids, Pids, Identity
    <2>6. e.next # NoId => e.state \in Prepared /\ e.next[2] = 0
      BY <1>2 DEF Formed
    <2>. QED
      BY <2>1, <2>3, <2>5, <2>6 DEF EntryOK
  <1>. QED
    BY <1>1, <1>2

LEMMA InvTypeOK == TxnInv => TypeOK
  <1>. SUFFICES ASSUME TxnInv PROVE TypeOK
    OBVIOUS
  <1>1. Typed /\ Registrations /\ fresh \in 1..(MaxPid + 1)
    BY DEF TxnInv, Typed
  <1>2. \A i \in 1..Len(log) : EntryOK(log[i])
    BY <1>1, FormedOK DEF Typed, Entries
  <1>3. \A b \in Brokers :
           /\ coord[b].status \in {"none", "loading", "loaded"} /\ coord[b].epoch \in 0..leader.epoch
           /\ EntryOK(coord[b].entry) /\ EntryOK(coord[b].write.entry)
    BY <1>1, FormedOK DEF Typed, CoordOK, Coordinator
  <1>4. \A j \in jobs : EntryOK(j.snap) /\ j.snap.state \in Prepared
    BY <1>1, FormedOK DEF Typed, JobOK
  <1>5. given \in SUBSET Ids /\ \A id \in given : id[2] < MaxEpoch
    <2>1. ASSUME NEW id \in given PROVE id \in Ids /\ id[2] < MaxEpoch
      BY <1>1 DEF Typed, GivenOK, Identity, Ids, Pids
    <2>. QED
      BY <2>1
  <1>6. \A p \in Partitions, pid \in Pids : part[p][pid].epoch \in -1..MaxEpoch
    BY <1>1 DEF Registrations, ProducerOpen
  <1>7. leader \in [broker : Brokers, epoch : Nat]
    BY <1>1 DEF Typed
  <1>. QED
    BY <1>2, <1>3, <1>4, <1>5, <1>6, <1>7 DEF TypeOK

\* What is open is in a producer's state.
LEMMA OpenTxn ==
    ASSUME TxnInv, NEW p \in Partitions, NEW t \in Open(p), NEW i \in 1..Len(log)
    PROVE  EndsAt(log[i], t, p)
  <1>1. PICK pid \in Pids : t \in {<<pid, e>> : e \in part[p][pid].open}
    BY DEF Open
  <1>2. PICK e \in part[p][pid].open : t = <<pid, e>>
    BY <1>1
  <1>3. ProducerOpen(p, pid)
    BY DEF TxnInv, Registrations
  <1>. QED
    BY <1>2, <1>3 DEF ProducerOpen, Entries

LEMMA InvOpenIsRegistered == TxnInv => OpenIsRegistered
  BY OpenTxn DEF OpenIsRegistered

LEMMA EndedDecided ==
    ASSUME TxnInv, NEW x \in ended
    PROVE  x.commit \in BOOLEAN /\ Decided(x.txn, x.commit)
  <1>1. x.commit \in BOOLEAN
    BY DEF TxnInv, Typed
  <1>. QED
    BY <1>1 DEF Decided

LEMMA InvAtomicOutcome == TxnInv => AtomicOutcome
  <1>. SUFFICES ASSUME TxnInv, NEW x \in ended, NEW y \in ended, x.txn = y.txn PROVE x.commit = y.commit
    BY DEF AtomicOutcome
  <1>1. /\ x.commit \in BOOLEAN /\ Decided(x.txn, x.commit)
        /\ y.commit \in BOOLEAN /\ Decided(x.txn, y.commit)
    BY EndedDecided
  <1>2. ~(Decided(x.txn, TRUE) /\ Decided(x.txn, FALSE))
    BY DEF TxnInv, Outcomes
  <1>. QED
    BY <1>1, <1>2

LEMMA InvOnlyAsked == TxnInv => OnlyAskedIsCommitted
  <1>. SUFFICES ASSUME TxnInv, NEW x \in ended, x.commit PROVE <<x.txn, TRUE>> \in asked
    BY DEF OnlyAskedIsCommitted
  <1>1. Decided(x.txn, TRUE)
    BY EndedDecided
  <1>. QED
    BY <1>1 DEF TxnInv, Outcomes

LEMMA InvToldIsCommitted == TxnInv => ToldIsCommitted
  <1>. SUFFICES ASSUME TxnInv, NEW t \in told
                PROVE  /\ \A x \in ended : x.txn = t => x.commit
                       /\ \A p \in Partitions : t \in Open(p) =>
                              \A i \in 1..Len(log) : log[i].state = "PrepareCommit" /\ EndsAt(log[i], t, p)
    BY DEF ToldIsCommitted
  <1>1. Decided(t, TRUE)
    BY DEF Decided
  <1>2. ASSUME NEW x \in ended, x.txn = t PROVE x.commit
    <2>1. x.commit \in BOOLEAN /\ Decided(t, x.commit)
      BY <1>2, EndedDecided
    <2>2. ~(Decided(t, TRUE) /\ Decided(t, FALSE))
      BY DEF TxnInv, Outcomes
    <2>. QED
      BY <1>1, <2>1, <2>2
  <1>3. ASSUME NEW p \in Partitions, t \in Open(p), NEW i \in 1..Len(log)
        PROVE  log[i].state = "PrepareCommit" /\ EndsAt(log[i], t, p)
    <2>1. EndsAt(log[i], t, p)
      BY <1>3, OpenTxn
    <2>2. PICK e \in Entries : e = log[i]
      BY DEF Entries
    <2>3. Formed(e, fresh) /\ fresh \in Nat
      BY DEF TxnInv, Typed
    <2>4. t \in Identity /\ Settled(t, TRUE, e)
      BY <1>1 DEF TxnInv, Outcomes
    <2>5. client_producer_identity(e) \in Identity /\ Before(t, client_producer_identity(e))
      BY <2>3, <2>4, ClientIdentity DEF Settled
    <2>6. client_producer_identity(e) # t
      BY <2>4, <2>5, BeforeOrder
    <2>7. e.state # "Ongoing"
      BY <2>1, <2>2, <2>3, <2>6, ClientIdentity DEF EndsAt, Prepared
    <2>8. e.state \in Prepared /\ TransactionOf(e) = t
      BY <2>1, <2>2, <2>7 DEF EndsAt
    <2>9. Commits(e)
      BY <2>3, <2>4, <2>8, PreparedTxn DEF Settled
    <2>. QED
      BY <2>1, <2>2, <2>8, <2>9 DEF Commits, Prepared
  <1>. QED
    BY <1>2, <1>3

\* Every entry, fan-out and identity the coordinators handle is well formed,
\* and none reaches the last epoch but to mark the last transaction of a
\* producer id (TypeOK), for any brokers, partitions and bounds.
THEOREM TransactionTypes == Spec => []TypeOK
  BY TxnInvariant, InvTypeOK, PTL

\* A transaction commits on all of its partitions or on none: markers of
\* overlapping and superseded fan-outs of any coordinators, late ones too,
\* never end it both ways (AtomicOutcome).
THEOREM TransactionAtomicity == Spec => []AtomicOutcome
  BY TxnInvariant, InvAtomicOutcome, PTL

\* What is committed on a partition was asked for by the EndTxn of the producer
\* that wrote it (OnlyAskedIsCommitted).
THEOREM TransactionIntegrity == Spec => []OnlyAskedIsCommitted
  BY TxnInvariant, InvOnlyAsked, PTL

\* A commit that was answered is never undone: no partition aborts it, and
\* what is open is still committed by whichever coordinator reads the log
\* (ToldIsCommitted).
THEOREM TransactionDurability == Spec => []ToldIsCommitted
  BY TxnInvariant, InvToldIsCommitted, PTL

\* No transaction hangs: what is open on a partition is of the transaction in
\* every entry of the log, which has the partition to mark (OpenIsRegistered).
THEOREM NoHangingTransaction == Spec => []OpenIsRegistered
  BY TxnInvariant, InvOpenIsRegistered, PTL

=============================================================================
