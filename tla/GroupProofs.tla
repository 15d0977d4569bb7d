----------------------------- MODULE GroupProofs -----------------------------
(***************************************************************************)
(* What GroupCoordinator promises, proved for any clients, topics and      *)
(* bounds, if a write that timed out is never committed.                   *)
(*                                                                         *)
(* The log and the actor agree on the members, their subscriptions, their  *)
(* assignments and the epochs, so that a load or a failed write gives back *)
(* the group the clients were last told of.  A reconciliation gives a      *)
(* member only what nobody else holds, and takes from it only what its     *)
(* client reports it has given up.                                         *)
(***************************************************************************)
EXTENDS GroupCoordinator, FiniteSetTheorems, TLAPS

USE GroupAssumption

------------------------------------------------------------------------------
(* Functions over members.                                                 *)

IsFun(f) == f = [k \in DOMAIN f |-> f[k]]

LEMMA WithoutFacts ==
    ASSUME NEW f, NEW keys
    PROVE  /\ IsFun(Without(f, keys)) /\ DOMAIN Without(f, keys) = DOMAIN f \ keys
           /\ \A k \in DOMAIN f \ keys : Without(f, keys)[k] = f[k]
  BY DEF Without, Restrict, IsFun

LEMMA SameFunction ==
    ASSUME NEW f, NEW g, IsFun(f), IsFun(g), DOMAIN f = DOMAIN g, \A k \in DOMAIN f : f[k] = g[k]
    PROVE  f = g
  <1>1. f = [k \in DOMAIN f |-> f[k]] /\ g = [k \in DOMAIN f |-> g[k]]
    BY DEF IsFun
  <1>2. [k \in DOMAIN f |-> f[k]] = [k \in DOMAIN f |-> g[k]]
    OBVIOUS
  <1>. QED
    BY <1>1, <1>2

\* The records of the members that changed make the one function the other.
LEMMA RecordsOfChanges ==
    ASSUME NEW f, NEW h, IsFun(f), IsFun(h), NEW touched, NEW gone, NEW moved,
           gone = (touched \cap DOMAIN f) \ DOMAIN h,
           moved = {m \in touched \cap DOMAIN h : m \notin DOMAIN f \/ f[m] # h[m]},
           \A k : k \notin touched => ((k \in DOMAIN f <=> k \in DOMAIN h) /\ (k \in DOMAIN f => f[k] = h[k]))
    PROVE  Put(Without(f, gone), h, moved) = h
  <1>1. PICK w : w = Without(f, gone)
    OBVIOUS
  <1>2. IsFun(w) /\ DOMAIN w = DOMAIN f \ gone /\ \A k \in DOMAIN f \ gone : w[k] = f[k]
    BY <1>1, WithoutFacts
  <1>3. PICK u : u = Put(w, h, moved)
    OBVIOUS
  <1>4. /\ IsFun(u) /\ DOMAIN u = DOMAIN w \cup moved
        /\ \A k \in moved : u[k] = h[k]
        /\ \A k \in DOMAIN w \ moved : u[k] = w[k]
    <2>1. /\ IsFun(Put(w, h, moved)) /\ DOMAIN Put(w, h, moved) = DOMAIN w \cup moved
          /\ \A k \in moved : Put(w, h, moved)[k] = h[k]
          /\ \A k \in DOMAIN w \ moved : Put(w, h, moved)[k] = w[k]
      BY DEF Put, IsFun
    <2>. QED
      BY <1>3, <2>1, Zenon
  <1>5. ASSUME NEW k PROVE k \in DOMAIN u <=> k \in DOMAIN h
    <2>1. CASE k \in touched
      BY <1>2, <1>4, <2>1
    <2>2. CASE k \notin touched
      BY <1>2, <1>4, <2>2
    <2>. QED
      BY <2>1, <2>2
  <1>6. ASSUME NEW k \in DOMAIN u PROVE u[k] = h[k]
    <2>1. k \in DOMAIN h
      BY <1>5
    <2>2. CASE k \in moved
      BY <1>4, <2>2
    <2>3. CASE k \notin moved
      <3>1. k \in DOMAIN w /\ u[k] = w[k]
        BY <1>4, <2>3
      <3>2. k \in DOMAIN f /\ w[k] = f[k]
        BY <1>2, <3>1
      <3>3. f[k] = h[k]
        BY <2>1, <2>3, <3>2
      <3>. QED
        BY <3>1, <3>2, <3>3
    <2>. QED
      BY <2>2, <2>3
  <1>7. DOMAIN u = DOMAIN h
    BY <1>5
  <1>. QED
    BY <1>1, <1>3, <1>4, <1>6, <1>7, SameFunction

------------------------------------------------------------------------------
(* Groups.                                                                 *)

Group(epoch, hash, refresh, target_epoch, target, topics, current) ==
    [epoch |-> epoch, hash |-> hash, refresh |-> refresh, target_epoch |-> target_epoch,
     target |-> target, topics |-> topics, current |-> current]

IsGroup(g) == g = Group(g.epoch, g.hash, g.refresh, g.target_epoch, g.target, g.topics, g.current)

MemberRecord ==
    [epoch : Int, prev : Int, state : {"Stable", "Unrevoked", "Unreleased"},
     assigned : SUBSET Partitions, pending : SUBSET Partitions]

\* The current assignment of a member when t is the epoch of the target.
MemberOK(c, t) ==
    /\ c \in MemberRecord
    /\ c.epoch \in -2..t /\ c.prev \in -2..t
    /\ c.assigned \cap c.pending = {}
    /\ c.pending # {} => c.state = "Unrevoked"

GroupOK(g) ==
    /\ IsGroup(g) /\ IsFun(g.topics) /\ IsFun(g.current)
    /\ g.epoch \in Nat /\ g.target_epoch \in 0..g.epoch
    /\ Members(g) \subseteq Clients /\ DOMAIN g.current = Members(g)
    /\ \A m \in DOMAIN g.target : g.target[m] \in SUBSET Partitions
    /\ \A m \in Members(g) : MemberOK(g.current[m], g.target_epoch)
    /\ HeldOnce(g)
    /\ \A m, n \in Members(g) \cap Statics : m = n

\* A member that was answered has a member epoch, unless it left for a while.
Answers(g) ==
    /\ \A m \in Members(g) : /\ g.current[m].epoch = -2 \/ g.current[m].epoch > 0
                             /\ g.current[m].epoch = -2 => m \in Statics
    /\ Members(g) # {} => g.target_epoch > 0

------------------------------------------------------------------------------
(* Reconciliation.                                                         *)

\* What a reconciliation of m with the reported partitions may make of it.
Reconciles(g, m, owned, n) ==
    /\ MemberOK(n, g.target_epoch)
    /\ n.epoch = g.current[m].epoch \/ n.epoch = g.target_epoch
    /\ \A p \in n.assigned \cup n.pending : p \in Held(g, m) \/ p \notin held_by_others(g, m)
    /\ \A uses : uses \subseteq Held(g, m) /\ (owned = <<>> \/ owned = <<uses>>) =>
           uses \subseteq n.assigned \cup n.pending

LEMMA NextAssignment ==
    ASSUME NEW g, GroupOK(g), NEW m \in Members(g), NEW owned,
           g.current[m].pending = {} \/ ~owns_any(owned, g.current[m].pending),
           NEW n, n = compute_next_assignment(g, m, owned)
    PROVE  /\ Reconciles(g, m, owned, n)
           /\ owned = <<{}>> => n.epoch = g.target_epoch
  <1>1. PICK c : c = g.current[m]
    OBVIOUS
  <1>2. MemberOK(c, g.target_epoch) /\ c \in MemberRecord /\ g.target_epoch \in Nat
    BY <1>1 DEF GroupOK, MemberOK
  <1>3. PICK a \in SUBSET Partitions, q \in SUBSET Partitions : a = c.assigned /\ q = c.pending
    BY <1>2 DEF MemberRecord
  <1>4. PICK target \in SUBSET Partitions : target = {p \in TargetOf(g, m) : p[1] \in g.topics[m]}
    BY DEF TargetOf, GroupOK
  <1>5. PICK others : others = held_by_others(g, m)
    OBVIOUS
  <1>6. PICK unreleased : unreleased = ((target \ a) \cap others) \ q
    OBVIOUS
  <1>7. Held(g, m) = a \cup q
    BY <1>1, <1>3 DEF Held
  <1>8. q = {} \/ ~owns_any(owned, q)
    BY <1>1, <1>3
  <1>9. n = IF a \ target # {} /\ owns_any(owned, a \ target)
            THEN [c EXCEPT !.prev = c.epoch, !.state = "Unrevoked", !.assigned = a \cap target, !.pending = a \ target]
            ELSE [epoch |-> g.target_epoch, prev |-> c.epoch,
                  state |-> IF unreleased = {} THEN "Stable" ELSE "Unreleased",
                  assigned |-> (a \cap target) \cup ((target \ a) \ unreleased), pending |-> {}]
    BY <1>1, <1>3, <1>4, <1>5, <1>6 DEF compute_next_assignment
  <1>10. c.epoch \in Int /\ c.epoch \in -2..g.target_epoch
    BY <1>2 DEF MemberOK
  <1>11. CASE a \ target # {} /\ owns_any(owned, a \ target)
    <2>1. n = [epoch |-> c.epoch, prev |-> c.epoch, state |-> "Unrevoked", assigned |-> a \cap target,
               pending |-> a \ target]
      BY <1>2, <1>9, <1>11 DEF MemberRecord
    <2>2. MemberOK(n, g.target_epoch)
      BY <1>10, <2>1 DEF MemberOK, MemberRecord
    <2>3. n.assigned \cup n.pending = a
      BY <2>1
    <2>4. owned # <<{}>>
      BY <1>11 DEF owns_any
    <2>5. ASSUME NEW uses, uses \subseteq a \cup q, owned = <<>> \/ owned = <<uses>> PROVE uses \subseteq a
      BY <1>8, <2>5 DEF owns_any
    <2>. QED
      BY <1>1, <1>7, <2>1, <2>2, <2>3, <2>4, <2>5 DEF Reconciles
  <1>12. CASE ~(a \ target # {} /\ owns_any(owned, a \ target))
    <2>1. PICK s \in {"Stable", "Unreleased"} : s = IF unreleased = {} THEN "Stable" ELSE "Unreleased"
      OBVIOUS
    <2>2. PICK b \in SUBSET Partitions : b = (a \cap target) \cup ((target \ a) \ unreleased)
      OBVIOUS
    <2>3. n = [epoch |-> g.target_epoch, prev |-> c.epoch, state |-> s, assigned |-> b, pending |-> {}]
      BY <1>9, <1>12, <2>1, <2>2
    <2>4. MemberOK(n, g.target_epoch)
      BY <1>2, <1>10, <2>3 DEF MemberOK, MemberRecord
    <2>5. n.assigned \cup n.pending = b
      BY <2>3
    <2>6. \A p \in b : p \in a \cup q \/ p \notin others
      BY <1>6, <2>2
    <2>7. ASSUME NEW uses, uses \subseteq a \cup q, owned = <<>> \/ owned = <<uses>> PROVE uses \subseteq b
      BY <1>8, <1>12, <2>2, <2>7 DEF owns_any
    <2>. QED
      BY <1>1, <1>5, <1>7, <2>3, <2>4, <2>5, <2>6, <2>7 DEF Reconciles
  <1>. QED
    BY <1>11, <1>12

LEMMA UpdateAssignment ==
    ASSUME NEW g, GroupOK(g), NEW m \in Members(g), NEW owned, NEW n,
           n = update_current_assignment(g, m, owned)
    PROVE  Reconciles(g, m, owned, n)
  <1>1. PICK c : c = g.current[m]
    OBVIOUS
  <1>2. MemberOK(c, g.target_epoch) /\ c \in MemberRecord
    BY <1>1 DEF GroupOK, MemberOK
  <1>3. PICK a \in SUBSET Partitions, q \in SUBSET Partitions : a = c.assigned /\ q = c.pending
    BY <1>2 DEF MemberRecord
  <1>4. PICK removed \in SUBSET a : removed = {p \in a : p[1] \notin g.topics[m]}
    OBVIOUS
  <1>5. Held(g, m) = a \cup q
    BY <1>1, <1>3 DEF Held
  <1>6. n = CASE removed = {} -> c
              [] removed # {} /\ owns_any(owned, q \cup removed) ->
                     [c EXCEPT !.prev = c.epoch, !.state = "Unrevoked", !.assigned = @ \ removed, !.pending = q \cup removed]
              [] OTHER -> [c EXCEPT !.prev = c.epoch, !.assigned = @ \ removed]
    BY <1>1, <1>3, <1>4 DEF update_current_assignment
  <1>7. CASE removed = {}
    <2>1. n = c
      BY <1>6, <1>7
    <2>. QED
      BY <1>1, <1>2, <1>3, <1>5, <2>1 DEF Reconciles
  <1>8. CASE removed # {} /\ owns_any(owned, q \cup removed)
    <2>1. n = [c EXCEPT !.prev = c.epoch, !.state = "Unrevoked", !.assigned = @ \ removed, !.pending = q \cup removed]
      BY <1>6, <1>8
    <2>2. n = [epoch |-> c.epoch, prev |-> c.epoch, state |-> "Unrevoked", assigned |-> a \ removed,
               pending |-> q \cup removed]
      BY <1>2, <1>3, <2>1 DEF MemberRecord
    <2>3. MemberOK(n, g.target_epoch)
      BY <1>2, <1>3, <2>2 DEF MemberOK, MemberRecord
    <2>4. n.assigned \cup n.pending = a \cup q /\ n.epoch = c.epoch
      BY <2>2
    <2>. QED
      BY <1>1, <1>5, <2>3, <2>4 DEF Reconciles
  <1>9. CASE removed # {} /\ ~owns_any(owned, q \cup removed)
    <2>1. n = [c EXCEPT !.prev = c.epoch, !.assigned = @ \ removed]
      BY <1>6, <1>9
    <2>2. n = [epoch |-> c.epoch, prev |-> c.epoch, state |-> c.state, assigned |-> a \ removed, pending |-> q]
      BY <1>2, <1>3, <2>1 DEF MemberRecord
    <2>3. MemberOK(n, g.target_epoch)
      BY <1>2, <1>3, <2>2 DEF MemberOK, MemberRecord
    <2>4. n.assigned \cup n.pending = (a \ removed) \cup q /\ n.epoch = c.epoch
      BY <2>2
    <2>5. ASSUME NEW uses, uses \subseteq a \cup q, owned = <<>> \/ owned = <<uses>>
          PROVE  uses \subseteq (a \ removed) \cup q
      BY <1>9, <2>5 DEF owns_any
    <2>. QED
      BY <1>1, <1>5, <2>3, <2>4, <2>5 DEF Reconciles
  <1>. QED
    BY <1>7, <1>8, <1>9

\* The group in which only the current assignment of m is another.
WithCurrent(g, m, n) == [g EXCEPT !.current[m] = n]

LEMMA CurrentReplaced ==
    ASSUME NEW g, GroupOK(g), NEW m \in Members(g), NEW n
    PROVE  /\ WithCurrent(g, m, n) = Group(g.epoch, g.hash, g.refresh, g.target_epoch, g.target, g.topics,
                                           [g.current EXCEPT ![m] = n])
           /\ DOMAIN [g.current EXCEPT ![m] = n] = Members(g) /\ IsFun([g.current EXCEPT ![m] = n])
           /\ [g.current EXCEPT ![m] = n][m] = n
           /\ \A k \in Members(g) \ {m} : [g.current EXCEPT ![m] = n][k] = g.current[k]
  <1>1. PICK c : c = g.current
    OBVIOUS
  <1>2. g = Group(g.epoch, g.hash, g.refresh, g.target_epoch, g.target, g.topics, c)
    BY <1>1 DEF GroupOK, IsGroup
  <1>3. IsFun(c) /\ DOMAIN c = Members(g)
    BY <1>1 DEF GroupOK
  <1>4. [g EXCEPT !.current[m] = n] = Group(g.epoch, g.hash, g.refresh, g.target_epoch, g.target,
                                            g.topics, [c EXCEPT ![m] = n])
    BY <1>2 DEF Group
  <1>5. /\ DOMAIN [c EXCEPT ![m] = n] = Members(g) /\ IsFun([c EXCEPT ![m] = n])
        /\ [c EXCEPT ![m] = n][m] = n
        /\ \A k \in Members(g) \ {m} : [c EXCEPT ![m] = n][k] = c[k]
    BY <1>3 DEF IsFun
  <1>. QED
    BY <1>1, <1>4, <1>5 DEF WithCurrent

\* h is g with another current assignment of m.
OnlyMember(g, h, m) ==
    /\ Members(h) = Members(g) /\ h.topics = g.topics
    /\ h.epoch = g.epoch /\ h.target_epoch = g.target_epoch /\ h.target = g.target
    /\ \A k \in Members(g) \ {m} : h.current[k] = g.current[k]

LEMMA ReconciledGroup ==
    ASSUME NEW g, GroupOK(g), NEW m \in Members(g), NEW owned, NEW n, Reconciles(g, m, owned, n),
           NEW h, h = WithCurrent(g, m, n)
    PROVE  GroupOK(h) /\ OnlyMember(g, h, m) /\ h.current[m] = n
  <1>1. PICK c : c = [g.current EXCEPT ![m] = n]
    OBVIOUS
  <1>2. h = Group(g.epoch, g.hash, g.refresh, g.target_epoch, g.target, g.topics, c)
    BY <1>1, CurrentReplaced
  <1>3. DOMAIN c = Members(g) /\ IsFun(c) /\ c[m] = n /\ \A k \in Members(g) \ {m} : c[k] = g.current[k]
    BY <1>1, CurrentReplaced
  <1>4. /\ IsGroup(h) /\ h.epoch = g.epoch /\ h.target_epoch = g.target_epoch
        /\ h.target = g.target /\ h.topics = g.topics /\ h.current = c
    BY <1>2 DEF Group, IsGroup
  <1>5. Members(h) = Members(g)
    BY <1>4 DEF Members
  <1>6. \A k \in Members(g) : MemberOK(c[k], g.target_epoch)
    BY <1>3 DEF GroupOK, Reconciles
  <1>7. \A k \in Members(g) \ {m} : Held(h, k) = Held(g, k)
    BY <1>3, <1>4 DEF Held
  <1>8. \A k \in Members(g) \ {m} : Held(h, m) \cap Held(h, k) = {}
    <2>1. SUFFICES ASSUME NEW k \in Members(g) \ {m}, NEW p, p \in Held(h, m), p \in Held(g, k) PROVE FALSE
      BY <1>7
    <2>2. p \in n.assigned \cup n.pending
      BY <1>3, <1>4, <2>1 DEF Held
    <2>3. p \in held_by_others(g, m)
      BY <2>1 DEF Held, held_by_others
    <2>4. p \in Held(g, m)
      BY <2>2, <2>3 DEF Reconciles
    <2>. QED
      BY <2>1, <2>4 DEF GroupOK, HeldOnce
  <1>9. HeldOnce(h)
    <2>1. SUFFICES ASSUME NEW k \in Members(g), NEW o \in Members(g), k # o PROVE Held(h, k) \cap Held(h, o) = {}
      BY <1>5 DEF HeldOnce
    <2>2. HeldOnce(g)
      BY DEF GroupOK
    <2>3. CASE k = m
      BY <1>8, <2>1, <2>3
    <2>4. CASE o = m
      BY <1>8, <2>1, <2>4
    <2>5. CASE k # m /\ o # m
      BY <1>7, <2>1, <2>2, <2>5 DEF HeldOnce
    <2>. QED
      BY <2>3, <2>4, <2>5
  <1>10. GroupOK(h)
    BY <1>3, <1>4, <1>5, <1>6, <1>9 DEF GroupOK
  <1>. QED
    BY <1>3, <1>4, <1>5, <1>10 DEF OnlyMember

LEMMA ReconcileMember ==
    ASSUME NEW g, GroupOK(g), NEW m \in Members(g), NEW owned, NEW changed \in BOOLEAN,
           NEW h, h = reconcile_member(g, m, owned, changed)
    PROVE  /\ GroupOK(h) /\ OnlyMember(g, h, m)
           /\ Reconciles(g, m, owned, h.current[m])
           /\ owned = <<{}>> /\ g.current[m].epoch = 0 /\ g.target_epoch > 0 => h.current[m].epoch = g.target_epoch
  <1>1. PICK c : c = g.current[m]
    OBVIOUS
  <1>2. MemberOK(c, g.target_epoch) /\ c \in MemberRecord /\ g.target_epoch \in Nat
    BY <1>1 DEF GroupOK, MemberOK
  <1>3. PICK a, b : a = compute_next_assignment(g, m, owned) /\ b = update_current_assignment(g, m, owned)
    OBVIOUS
  <1>4. Reconciles(g, m, owned, b)
    BY <1>3, UpdateAssignment
  <1>5. Reconciles(g, m, owned, c)
    BY <1>1, <1>2 DEF Reconciles, Held
  <1>6. c.pending = {} \/ ~owns_any(owned, c.pending) =>
            Reconciles(g, m, owned, a) /\ (owned = <<{}>> => a.epoch = g.target_epoch)
    BY <1>1, <1>3, NextAssignment
  <1>7. PICK n : n = CASE c.state = "Stable" /\ c.epoch # g.target_epoch -> a
                       [] \/ c.state = "Stable" /\ c.epoch = g.target_epoch
                          \/ c.state = "Unrevoked" /\ owns_any(owned, c.pending) -> IF changed THEN b ELSE c
                       [] OTHER -> a
    OBVIOUS
  <1>8. h = WithCurrent(g, m, n)
    BY <1>1, <1>3, <1>7 DEF reconcile_member, WithCurrent
  <1>9. c.state \in {"Stable", "Unrevoked", "Unreleased"} /\ (c.pending # {} => c.state = "Unrevoked")
    BY <1>2 DEF MemberOK, MemberRecord
  <1>10. ~owns_any(<<{}>>, c.pending)
    BY DEF owns_any
  <1>11. ASSUME Reconciles(g, m, owned, n) PROVE GroupOK(h) /\ OnlyMember(g, h, m) /\ h.current[m] = n
    BY <1>8, <1>11, ReconciledGroup
  <1>12. CASE c.state = "Stable" /\ c.epoch # g.target_epoch
    <2>1. n = a
      BY <1>7, <1>12
    <2>2. c.pending = {}
      BY <1>9, <1>12
    <2>. QED
      BY <1>1, <1>6, <1>11, <2>1, <2>2
  <1>13. CASE \/ c.state = "Stable" /\ c.epoch = g.target_epoch
              \/ c.state = "Unrevoked" /\ owns_any(owned, c.pending)
    <2>1. n = b \/ n = c
      BY <1>7, <1>13
    <2>2. ~(owned = <<{}>> /\ c.epoch = 0 /\ g.target_epoch > 0)
      BY <1>10, <1>13
    <2>3. Reconciles(g, m, owned, n)
      BY <1>4, <1>5, <2>1
    <2>. QED
      BY <1>1, <1>11, <2>2, <2>3
  <1>14. CASE /\ ~(c.state = "Stable" /\ c.epoch # g.target_epoch)
              /\ ~(\/ c.state = "Stable" /\ c.epoch = g.target_epoch
                   \/ c.state = "Unrevoked" /\ owns_any(owned, c.pending))
    <2>1. n = a
      BY <1>7, <1>14
    <2>2. c.pending = {} \/ ~owns_any(owned, c.pending)
      BY <1>9, <1>14
    <2>. QED
      BY <1>1, <1>6, <1>11, <2>1, <2>2
  <1>. QED
    BY <1>12, <1>13, <1>14

------------------------------------------------------------------------------
(* The other steps of a transition.                                        *)

Apart(c, d) == (c.assigned \cup c.pending) \cap (d.assigned \cup d.pending) = {}

\* Outside touched the two groups have the same members.
Beside(g, h, touched) ==
    \A k : k \notin touched =>
        /\ k \in Members(g) <=> k \in Members(h)
        /\ k \in Members(g) => h.topics[k] = g.topics[k] /\ h.current[k] = g.current[k]

LEMMA MakeGroup ==
    ASSUME NEW e \in Nat, NEW hash, NEW r, NEW te \in 0..e, NEW ta, NEW to, NEW c, NEW h,
           h = Group(e, hash, r, te, ta, to, c),
           IsFun(to), IsFun(c), DOMAIN to \subseteq Clients, DOMAIN c = DOMAIN to,
           \A m \in DOMAIN ta : ta[m] \in SUBSET Partitions,
           \A m \in DOMAIN to : MemberOK(c[m], te),
           \A m, n \in DOMAIN to : m # n => Apart(c[m], c[n]),
           \A m, n \in DOMAIN to \cap Statics : m = n
    PROVE  GroupOK(h)
  <1>1. /\ IsGroup(h) /\ h.epoch = e /\ h.target_epoch = te
        /\ h.target = ta /\ h.topics = to /\ h.current = c
    BY DEF Group, IsGroup
  <1>2. Members(h) = DOMAIN to
    BY <1>1 DEF Members
  <1>3. HeldOnce(h)
    BY <1>1, <1>2 DEF HeldOnce, Held, Apart
  <1>. QED
    BY <1>1, <1>2, <1>3 DEF GroupOK

LEMMA PartsOfGroup ==
    ASSUME NEW g, GroupOK(g)
    PROVE  /\ g = Group(g.epoch, g.hash, g.refresh, g.target_epoch, g.target, g.topics, g.current)
           /\ g.epoch \in Nat /\ g.target_epoch \in 0..g.epoch
           /\ IsFun(g.topics) /\ IsFun(g.current)
           /\ DOMAIN g.topics \subseteq Clients /\ DOMAIN g.current = DOMAIN g.topics
           /\ \A m \in DOMAIN g.target : g.target[m] \in SUBSET Partitions
           /\ \A m \in DOMAIN g.topics : MemberOK(g.current[m], g.target_epoch)
           /\ \A m, n \in DOMAIN g.topics : m # n => Apart(g.current[m], g.current[n])
           /\ \A m, n \in DOMAIN g.topics \cap Statics : m = n
  <1>1. \A m, n \in DOMAIN g.topics : m # n => Apart(g.current[m], g.current[n])
    BY SMTT(40) DEF GroupOK, HeldOnce, Held, Apart, Members
  <1>. QED
    BY <1>1 DEF GroupOK, IsGroup, Members

LEMMA AddMember ==
    ASSUME NEW g, GroupOK(g), NEW m \in Clients \ Members(g), NEW topics,
           m \in Statics => Members(g) \cap Statics = {},
           NEW h, h = add_member(g, m, topics)
    PROVE  /\ GroupOK(h) /\ Members(h) = Members(g) \cup {m} /\ Beside(g, h, {m})
           /\ h.epoch = g.epoch /\ h.target_epoch = g.target_epoch
           /\ h.current[m] = new_member /\ h.topics[m] = topics
  <1>1. PICK e, te, hash, r, ta, to, c :
            /\ e = g.epoch /\ te = g.target_epoch /\ hash = g.hash /\ r = g.refresh
            /\ ta = g.target /\ to = g.topics /\ c = g.current
    OBVIOUS
  <1>2. /\ g = Group(e, hash, r, te, ta, to, c) /\ Members(g) = DOMAIN to
        /\ e \in Nat /\ te \in 0..e /\ DOMAIN to \subseteq Clients /\ DOMAIN c = DOMAIN to
        /\ \A k \in DOMAIN ta : ta[k] \in SUBSET Partitions
        /\ \A k \in DOMAIN to : MemberOK(c[k], te)
        /\ \A k, o \in DOMAIN to : k # o => Apart(c[k], c[o])
        /\ \A k, o \in DOMAIN to \cap Statics : k = o
    BY <1>1, PartsOfGroup DEF Members
  <1>3. PICK to2, c2 : to2 = Put(to, [k \in {m} |-> topics], {m}) /\ c2 = Put(c, [k \in {m} |-> new_member], {m})
    OBVIOUS
  <1>4. h = Group(e, hash, r, te, ta, to2, c2)
    BY <1>2, <1>3 DEF add_member, Group
  <1>5. /\ IsFun(to2) /\ IsFun(c2) /\ DOMAIN to2 = DOMAIN to \cup {m} /\ DOMAIN c2 = DOMAIN to2
        /\ to2[m] = topics /\ c2[m] = new_member
        /\ \A k \in DOMAIN to : k # m => to2[k] = to[k] /\ c2[k] = c[k]
    BY <1>2, <1>3 DEF Put, IsFun
  <1>6. MemberOK(new_member, te)
    BY <1>2 DEF new_member, MemberOK, MemberRecord
  <1>7. \A k : Apart(new_member, k) /\ Apart(k, new_member)
    BY DEF Apart, new_member
  <1>8. \A k \in DOMAIN to2 : MemberOK(c2[k], te)
    BY <1>2, <1>5, <1>6
  <1>9. \A k, o \in DOMAIN to2 : k # o => Apart(c2[k], c2[o])
    BY <1>2, <1>5, <1>7
  <1>10. \A k, o \in DOMAIN to2 \cap Statics : k = o
    BY <1>2, <1>5
  <1>11. GroupOK(h)
    BY <1>2, <1>4, <1>5, <1>8, <1>9, <1>10, MakeGroup
  <1>12. h.epoch = e /\ h.target_epoch = te /\ h.topics = to2 /\ h.current = c2 /\ Members(h) = DOMAIN to2
    BY SMTT(40), <1>4 DEF Group, Members
  <1>. QED
    BY <1>1, <1>2, <1>5, <1>11, <1>12 DEF Beside

LEMMA ReplaceStaticMember ==
    ASSUME NEW g, GroupOK(g), NEW m \in Statics, NEW previous \in Members(g) \cap Statics,
           NEW h, h = replace_static_member(g, previous, m)
    PROVE  /\ GroupOK(h) /\ Members(h) = (Members(g) \ {previous}) \cup {m} /\ Beside(g, h, {m, previous})
           /\ h.epoch = g.epoch /\ h.target_epoch = g.target_epoch
           /\ h.current[m].epoch = 0
  <1>1. PICK e, te, hash, r, ta, to, c :
            /\ e = g.epoch /\ te = g.target_epoch /\ hash = g.hash /\ r = g.refresh
            /\ ta = g.target /\ to = g.topics /\ c = g.current
    OBVIOUS
  <1>2. /\ g = Group(e, hash, r, te, ta, to, c) /\ Members(g) = DOMAIN to
        /\ e \in Nat /\ te \in 0..e /\ DOMAIN to \subseteq Clients /\ DOMAIN c = DOMAIN to
        /\ IsFun(to) /\ IsFun(c)
        /\ \A k \in DOMAIN ta : ta[k] \in SUBSET Partitions
        /\ \A k \in DOMAIN to : MemberOK(c[k], te)
        /\ \A k, o \in DOMAIN to : k # o => Apart(c[k], c[o])
        /\ \A k, o \in DOMAIN to \cap Statics : k = o
    BY <1>1, PartsOfGroup DEF Members
  <1>3. PICK copy : copy = [c[previous] EXCEPT !.epoch = 0, !.prev = 0]
    OBVIOUS
  <1>4. PICK to2, c2 : /\ to2 = Put(Without(to, {previous}), [k \in {m} |-> to[previous]], {m})
                       /\ c2 = Put(Without(c, {previous}), [k \in {m} |-> copy], {m})
    OBVIOUS
  <1>5. PICK ta2 : ta2 = IF previous \in DOMAIN ta
                         THEN Put(Without(ta, {previous}), [k \in {m} |-> ta[previous]], {m}) ELSE ta
    OBVIOUS
  <1>6. h = Group(e, hash, r, te, ta2, to2, c2)
    BY <1>2, <1>3, <1>4, <1>5 DEF replace_static_member, Group
  <1>7. /\ IsFun(to2) /\ IsFun(c2) /\ DOMAIN to2 = (DOMAIN to \ {previous}) \cup {m} /\ DOMAIN c2 = DOMAIN to2
        /\ c2[m] = copy
        /\ \A k \in DOMAIN to \ {previous} : k # m => to2[k] = to[k] /\ c2[k] = c[k]
    BY <1>2, <1>4 DEF Put, Without, Restrict, IsFun
  <1>8. \A k \in DOMAIN ta2 : ta2[k] \in SUBSET Partitions
    <2>1. CASE previous \in DOMAIN ta
      <3>1. ta2 = Put(Without(ta, {previous}), [k \in {m} |-> ta[previous]], {m})
        BY <1>5, <2>1
      <3>. QED
        BY <1>2, <2>1, <3>1 DEF Put, Without, Restrict
    <2>2. CASE previous \notin DOMAIN ta
      BY <1>2, <1>5, <2>2
    <2>. QED
      BY <2>1, <2>2
  <1>9. PICK d : d = c[previous]
    OBVIOUS
  <1>10. MemberOK(d, te) /\ d \in MemberRecord
    BY <1>2, <1>9 DEF MemberOK
  <1>11. copy = [epoch |-> 0, prev |-> 0, state |-> d.state, assigned |-> d.assigned, pending |-> d.pending]
    BY <1>3, <1>9, <1>10 DEF MemberRecord
  <1>12. MemberOK(copy, te)
    BY <1>2, <1>10, <1>11 DEF MemberOK, MemberRecord
  <1>13. \A k \in DOMAIN to \ {previous} : Apart(copy, c[k]) /\ Apart(c[k], copy)
    <2>1. copy.assigned = d.assigned /\ copy.pending = d.pending
      BY <1>11
    <2>. QED
      BY <1>2, <1>9, <2>1 DEF Apart
  <1>14. \A k \in DOMAIN to2 : MemberOK(c2[k], te)
    BY <1>2, <1>7, <1>12
  <1>15. \A k, o \in DOMAIN to2 : k # o => Apart(c2[k], c2[o])
    BY <1>2, <1>7, <1>13
  <1>16. \A k, o \in DOMAIN to2 \cap Statics : k = o
    BY <1>2, <1>7
  <1>17. DOMAIN to2 \subseteq Clients
    BY <1>2, <1>7
  <1>18. GroupOK(h)
    BY <1>2, <1>6, <1>7, <1>8, <1>14, <1>15, <1>16, <1>17, MakeGroup
  <1>19. h.epoch = e /\ h.target_epoch = te /\ h.topics = to2 /\ h.current = c2 /\ Members(h) = DOMAIN to2
    BY <1>6 DEF Group, Members
  <1>20. copy.epoch = 0
    BY SMTT(40), <1>11
  <1>. QED
    <2>1. Beside(g, h, {m, previous})
      BY <1>1, <1>2, <1>7, <1>19 DEF Beside
    <2>. QED
      BY ZenonT(60), <1>1, <1>2, <1>7, <1>18, <1>19, <1>20, <2>1

\* The group in which only the subscription of m is another.
WithTopics(g, m, topics) == [g EXCEPT !.topics[m] = topics]

LEMMA NameTopics ==
    ASSUME NEW g, GroupOK(g), NEW m \in Members(g), NEW topics,
           NEW h, h = WithTopics(g, m, topics)
    PROVE  /\ GroupOK(h) /\ Members(h) = Members(g) /\ Beside(g, h, {m})
           /\ h.epoch = g.epoch /\ h.target_epoch = g.target_epoch /\ h.current = g.current
  <1>1. PICK e, te, hash, r, ta, to, c :
            /\ e = g.epoch /\ te = g.target_epoch /\ hash = g.hash /\ r = g.refresh
            /\ ta = g.target /\ to = g.topics /\ c = g.current
    OBVIOUS
  <1>2. /\ g = Group(e, hash, r, te, ta, to, c) /\ Members(g) = DOMAIN to
        /\ e \in Nat /\ te \in 0..e /\ DOMAIN to \subseteq Clients /\ DOMAIN c = DOMAIN to
        /\ IsFun(to) /\ IsFun(c)
        /\ \A k \in DOMAIN ta : ta[k] \in SUBSET Partitions
        /\ \A k \in DOMAIN to : MemberOK(c[k], te)
        /\ \A k, o \in DOMAIN to : k # o => Apart(c[k], c[o])
        /\ \A k, o \in DOMAIN to \cap Statics : k = o
    BY <1>1, PartsOfGroup DEF Members
  <1>3. PICK to2 : to2 = [to EXCEPT ![m] = topics]
    OBVIOUS
  <1>4. h = Group(e, hash, r, te, ta, to2, c)
    BY <1>2, <1>3 DEF Group, WithTopics
  <1>5. IsFun(to2) /\ DOMAIN to2 = DOMAIN to /\ \A k \in DOMAIN to \ {m} : to2[k] = to[k]
    BY <1>2, <1>3 DEF IsFun
  <1>6. GroupOK(h)
    BY <1>2, <1>4, <1>5, MakeGroup
  <1>7. h.epoch = e /\ h.target_epoch = te /\ h.topics = to2 /\ h.current = c /\ Members(h) = DOMAIN to2
    BY <1>4 DEF Group, Members
  <1>. QED
    BY <1>1, <1>2, <1>5, <1>6, <1>7 DEF Beside

LEMMA UpdateSubscription ==
    ASSUME NEW g, GroupOK(g), NEW parts, NEW bump \in BOOLEAN,
           NEW h, h = update_subscription(g, parts, bump)
    PROVE  /\ GroupOK(h) /\ h.topics = g.topics /\ h.current = g.current /\ h.target_epoch = g.target_epoch
           /\ bump => h.epoch > h.target_epoch
  <1>1. PICK e, te, hash, r, ta, to, c :
            /\ e = g.epoch /\ te = g.target_epoch /\ hash = g.hash /\ r = g.refresh
            /\ ta = g.target /\ to = g.topics /\ c = g.current
    OBVIOUS
  <1>2. /\ g = Group(e, hash, r, te, ta, to, c) /\ Members(g) = DOMAIN to
        /\ e \in Nat /\ te \in 0..e /\ DOMAIN to \subseteq Clients /\ DOMAIN c = DOMAIN to
        /\ IsFun(to) /\ IsFun(c)
        /\ \A k \in DOMAIN ta : ta[k] \in SUBSET Partitions
        /\ \A k \in DOMAIN to : MemberOK(c[k], te)
        /\ \A k, o \in DOMAIN to : k # o => Apart(c[k], c[o])
        /\ \A k, o \in DOMAIN to \cap Statics : k = o
    BY <1>1, PartsOfGroup DEF Members
  <1>3. CASE bump \/ r
    <2>1. PICK hash2 : hash2 = metadata_hash(g, parts)
      OBVIOUS
    <2>2. PICK e2 : e2 = IF bump \/ hash2 # hash THEN e + 1 ELSE e
      OBVIOUS
    <2>3. h = Group(e2, hash2, FALSE, te, ta, to, c)
      <3>1. h = [g EXCEPT !.epoch = e2, !.hash = hash2, !.refresh = FALSE]
        BY <1>1, <1>3, <2>1, <2>2 DEF update_subscription
      <3>. QED
        BY <1>2, <3>1 DEF Group
    <2>4. e2 \in Nat /\ te \in 0..e2 /\ (bump => e2 > te)
      BY <1>2, <2>2
    <2>5. GroupOK(h)
      BY <1>2, <2>3, <2>4, MakeGroup
    <2>6. h.epoch = e2 /\ h.target_epoch = te /\ h.topics = to /\ h.current = c
      BY <2>3 DEF Group
    <2>. QED
      BY <1>1, <2>4, <2>5, <2>6
  <1>4. CASE ~(bump \/ r)
    BY <1>1, <1>4 DEF update_subscription
  <1>. QED
    BY <1>3, <1>4

LEMMA LaterTarget ==
    ASSUME NEW c, NEW t \in Nat, NEW u \in Nat, t <= u, MemberOK(c, t)
    PROVE  MemberOK(c, u)
  BY DEF MemberOK

LEMMA InstallTarget ==
    ASSUME NEW g, GroupOK(g), NEW parts \in SUBSET Partitions, NEW target \in assign(g, parts),
           NEW h, h = install_target(g, target)
    PROVE  /\ GroupOK(h) /\ h.topics = g.topics /\ h.current = g.current /\ h.epoch = g.epoch
           /\ h.target_epoch = g.epoch
  <1>1. PICK e, te, hash, r, ta, to, c :
            /\ e = g.epoch /\ te = g.target_epoch /\ hash = g.hash /\ r = g.refresh
            /\ ta = g.target /\ to = g.topics /\ c = g.current
    OBVIOUS
  <1>2. /\ g = Group(e, hash, r, te, ta, to, c) /\ Members(g) = DOMAIN to
        /\ e \in Nat /\ te \in 0..e /\ DOMAIN to \subseteq Clients /\ DOMAIN c = DOMAIN to
        /\ IsFun(to) /\ IsFun(c)
        /\ \A k \in DOMAIN ta : ta[k] \in SUBSET Partitions
        /\ \A k \in DOMAIN to : MemberOK(c[k], te)
        /\ \A k, o \in DOMAIN to : k # o => Apart(c[k], c[o])
        /\ \A k, o \in DOMAIN to \cap Statics : k = o
    BY <1>1, PartsOfGroup DEF Members
  <1>3. h = Group(e, hash, r, e, target, to, c)
    BY <1>1, <1>2 DEF install_target, Group
  <1>4. \A k \in DOMAIN target : target[k] \in SUBSET Partitions
    BY DEF assign, metadata_hash
  <1>5. \A k \in DOMAIN to : MemberOK(c[k], e)
    BY <1>2, LaterTarget
  <1>6. GroupOK(h)
    BY <1>2, <1>3, <1>4, <1>5, MakeGroup
  <1>7. h.epoch = e /\ h.target_epoch = e /\ h.topics = to /\ h.current = c
    BY <1>3 DEF Group
  <1>. QED
    BY <1>1, <1>6, <1>7

LEMMA BumpedGroup ==
    ASSUME NEW e, NEW hash, NEW r, NEW te, NEW ta, NEW to, NEW c, NEW f, f = Group(e, hash, r, te, ta, to, c),
           NEW parts, NEW h, h = bump_with_metadata_hash(f, parts)
    PROVE  h = Group(e + 1, metadata_hash(f, parts), r, te, ta, to, c)
  <1>1. PICK i, hash2 : i = f.epoch + 1 /\ hash2 = metadata_hash(f, parts)
    OBVIOUS
  <1>2. h = [f EXCEPT !.epoch = i, !.hash = hash2]
    BY <1>1 DEF bump_with_metadata_hash
  <1>3. f.epoch = e
    BY DEF Group
  <1>4. h = Group(i, hash2, r, te, ta, to, c)
    BY <1>2 DEF Group
  <1>. QED
    BY <1>1, <1>3, <1>4

Fenced(g, m, parts) == bump_with_metadata_hash(remove_member(g, m), parts)

LEMMA RemoveMember ==
    ASSUME NEW g, GroupOK(g), NEW m \in Members(g), NEW parts,
           NEW h, h = Fenced(g, m, parts)
    PROVE  /\ GroupOK(h) /\ Members(h) = Members(g) \ {m} /\ Beside(g, h, {m})
           /\ h.target_epoch = g.target_epoch
  <1>1. PICK e, te, hash, r, ta, to, c :
            /\ e = g.epoch /\ te = g.target_epoch /\ hash = g.hash /\ r = g.refresh
            /\ ta = g.target /\ to = g.topics /\ c = g.current
    OBVIOUS
  <1>2. /\ g = Group(e, hash, r, te, ta, to, c) /\ Members(g) = DOMAIN to
        /\ e \in Nat /\ te \in 0..e /\ DOMAIN to \subseteq Clients /\ DOMAIN c = DOMAIN to
        /\ IsFun(to) /\ IsFun(c)
        /\ \A k \in DOMAIN ta : ta[k] \in SUBSET Partitions
        /\ \A k \in DOMAIN to : MemberOK(c[k], te)
        /\ \A k, o \in DOMAIN to : k # o => Apart(c[k], c[o])
        /\ \A k, o \in DOMAIN to \cap Statics : k = o
    BY <1>1, PartsOfGroup DEF Members
  <1>3. PICK to2, c2 : to2 = Without(to, {m}) /\ c2 = Without(c, {m})
    OBVIOUS
  <1>4. PICK f : f = remove_member(g, m)
    OBVIOUS
  <1>5. PICK hash2 : hash2 = metadata_hash(f, parts)
    OBVIOUS
  <1>6. f = Group(e, hash, r, te, ta, to2, c2)
    BY ZenonT(60), <1>2, <1>3, <1>4 DEF remove_member, Group
  <1>7. h = Group(e + 1, hash2, r, te, ta, to2, c2)
    <2>1. h = bump_with_metadata_hash(f, parts)
      BY <1>4 DEF Fenced
    <2>. QED
      BY <1>5, <1>6, <2>1, BumpedGroup
  <1>8. /\ IsFun(to2) /\ IsFun(c2) /\ DOMAIN to2 = DOMAIN to \ {m} /\ DOMAIN c2 = DOMAIN to2
        /\ \A k \in DOMAIN to \ {m} : to2[k] = to[k] /\ c2[k] = c[k]
    BY <1>2, <1>3 DEF Without, Restrict, IsFun
  <1>9. e + 1 \in Nat /\ te \in 0..(e + 1)
    BY <1>2
  <1>10. GroupOK(h)
    BY <1>2, <1>7, <1>8, <1>9, MakeGroup
  <1>11. h.target_epoch = te /\ h.topics = to2 /\ h.current = c2 /\ Members(h) = DOMAIN to2
    BY SMTT(40), <1>7 DEF Group, Members
  <1>. QED
    BY <1>1, <1>2, <1>8, <1>10, <1>11 DEF Beside

LEMMA ReleaseStaticMember ==
    ASSUME NEW g, GroupOK(g), NEW m \in Members(g), NEW h, h = release_static_member(g, m)
    PROVE  /\ GroupOK(h) /\ Members(h) = Members(g) /\ Beside(g, h, {m})
           /\ h.target_epoch = g.target_epoch /\ h.current[m].epoch = -2
  <1>1. PICK e, te, hash, r, ta, to, c :
            /\ e = g.epoch /\ te = g.target_epoch /\ hash = g.hash /\ r = g.refresh
            /\ ta = g.target /\ to = g.topics /\ c = g.current
    OBVIOUS
  <1>2. /\ g = Group(e, hash, r, te, ta, to, c) /\ Members(g) = DOMAIN to
        /\ e \in Nat /\ te \in 0..e /\ DOMAIN to \subseteq Clients /\ DOMAIN c = DOMAIN to
        /\ IsFun(to) /\ IsFun(c)
        /\ \A k \in DOMAIN ta : ta[k] \in SUBSET Partitions
        /\ \A k \in DOMAIN to : MemberOK(c[k], te)
        /\ \A k, o \in DOMAIN to : k # o => Apart(c[k], c[o])
        /\ \A k, o \in DOMAIN to \cap Statics : k = o
    BY <1>1, PartsOfGroup DEF Members
  <1>3. PICK d : d = c[m]
    OBVIOUS
  <1>4. MemberOK(d, te) /\ d \in MemberRecord
    BY <1>2, <1>3 DEF MemberOK
  <1>5. PICK n : n = [epoch |-> -2, prev |-> d.prev, state |-> d.state, assigned |-> d.assigned, pending |-> {}]
    OBVIOUS
  <1>6. PICK c2 : c2 = [c EXCEPT ![m] = n]
    OBVIOUS
  <1>7. [d EXCEPT !.epoch = -2, !.pending = {}] = n
    <2>1. PICK z : z = -2
      OBVIOUS
    <2>2. PICK x : x = [d EXCEPT !.epoch = z, !.pending = {}]
      OBVIOUS
    <2>3. x = [epoch |-> z, prev |-> d.prev, state |-> d.state, assigned |-> d.assigned, pending |-> {}]
      BY <1>4, <2>2 DEF MemberRecord
    <2>. QED
      BY <1>5, <2>1, <2>2, <2>3
  <1>8. [c EXCEPT ![m].epoch = -2, ![m].pending = {}] = c2
    <2>1. [c EXCEPT ![m].epoch = -2, ![m].pending = {}] = [c EXCEPT ![m] = [d EXCEPT !.epoch = -2, !.pending = {}]]
      BY <1>2, <1>3 DEF IsFun
    <2>. QED
      BY <1>6, <1>7, <2>1
  <1>9. h = Group(e, hash, r, te, ta, to, c2)
    <2>1. h = Group(e, hash, r, te, ta, to, [c EXCEPT ![m].epoch = -2, ![m].pending = {}])
      BY <1>2 DEF release_static_member, Group
    <2>. QED
      BY <1>8, <2>1
  <1>10. IsFun(c2) /\ DOMAIN c2 = DOMAIN to /\ c2[m] = n /\ \A k \in DOMAIN to \ {m} : c2[k] = c[k]
    BY <1>2, <1>6 DEF IsFun
  <1>11. MemberOK(n, te)
    BY <1>2, <1>4, <1>5 DEF MemberOK, MemberRecord
  <1>12. n.assigned = d.assigned /\ n.pending = {} /\ n.epoch = -2
    BY <1>5
  <1>13. \A k \in DOMAIN to \ {m} : Apart(n, c[k]) /\ Apart(c[k], n)
    BY <1>2, <1>3, <1>12 DEF Apart
  <1>14. \A k \in DOMAIN to : MemberOK(c2[k], te)
    BY <1>2, <1>10, <1>11
  <1>15. \A k, o \in DOMAIN to : k # o => Apart(c2[k], c2[o])
    BY <1>2, <1>10, <1>13
  <1>16. GroupOK(h)
    BY <1>2, <1>9, <1>10, <1>14, <1>15, MakeGroup
  <1>17. h.target_epoch = te /\ h.topics = to /\ h.current = c2 /\ Members(h) = DOMAIN to
    BY <1>9 DEF Group, Members
  <1>. QED
    <2>1. Beside(g, h, {m})
      BY <1>1, <1>2, <1>10, <1>17 DEF Beside
    <2>. QED
      BY <1>1, <1>2, <1>10, <1>12, <1>16, <1>17, <2>1

------------------------------------------------------------------------------
(* The log.                                                                *)

Agree(a, b) == /\ a.topics = b.topics /\ a.current = b.current
               /\ a.epoch = b.epoch /\ a.target_epoch = b.target_epoch

LEMMA ApplySeed ==
    ASSUME NEW g, GroupOK(g), NEW h, h = apply_seed(g)
    PROVE  GroupOK(h) /\ Agree(g, h)
  <1>1. PICK e, te, hash, r, ta, to, c :
            /\ e = g.epoch /\ te = g.target_epoch /\ hash = g.hash /\ r = g.refresh
            /\ ta = g.target /\ to = g.topics /\ c = g.current
    OBVIOUS
  <1>2. /\ g = Group(e, hash, r, te, ta, to, c) /\ Members(g) = DOMAIN to
        /\ e \in Nat /\ te \in 0..e /\ DOMAIN to \subseteq Clients /\ DOMAIN c = DOMAIN to
        /\ IsFun(to) /\ IsFun(c)
        /\ \A k \in DOMAIN ta : ta[k] \in SUBSET Partitions
        /\ \A k \in DOMAIN to : MemberOK(c[k], te)
        /\ \A k, o \in DOMAIN to : k # o => Apart(c[k], c[o])
        /\ \A k, o \in DOMAIN to \cap Statics : k = o
    BY <1>1, PartsOfGroup DEF Members
  <1>3. [k \in DOMAIN to |-> IF k \in DOMAIN c THEN c[k] ELSE new_member] = c
    <2>1. [k \in DOMAIN to |-> IF k \in DOMAIN c THEN c[k] ELSE new_member] = [k \in DOMAIN c |-> c[k]]
      BY <1>2
    <2>. QED
      BY <1>2, <2>1 DEF IsFun
  <1>4. h = Group(e, hash, TRUE, te, ta, to, c)
    <2>1. h = Group(e, hash, TRUE, te, ta, to, [k \in DOMAIN to |-> IF k \in DOMAIN c THEN c[k] ELSE new_member])
      BY <1>2 DEF apply_seed, Group
    <2>. QED
      BY <1>3, <2>1
  <1>5. GroupOK(h)
    BY <1>2, <1>4, MakeGroup
  <1>6. h.epoch = e /\ h.target_epoch = te /\ h.topics = to /\ h.current = c
    BY <1>4 DEF Group
  <1>. QED
    BY <1>1, <1>5, <1>6 DEF Agree

\* The records of a transition make of a log that agrees with the group before
\* it one that agrees with the group after it.
LEMMA WrittenAgrees ==
    ASSUME NEW l, GroupOK(l), NEW g, GroupOK(g), Agree(l, g), NEW h, GroupOK(h),
           NEW touched, NEW computed \in BOOLEAN, NEW targets, Beside(g, h, touched),
           ~computed => h.target_epoch = g.target_epoch,
           NEW w, w = Written(l, g, h, touched, computed, targets)
    PROVE  GroupOK(w) /\ Agree(w, h)
  <1>1. PICK to, c, to2, c2 : to = g.topics /\ c = g.current /\ to2 = h.topics /\ c2 = h.current
    OBVIOUS
  <1>2. /\ IsFun(to) /\ IsFun(c) /\ DOMAIN c = DOMAIN to /\ Members(g) = DOMAIN to
        /\ l.topics = to /\ l.current = c /\ l.epoch = g.epoch /\ l.target_epoch = g.target_epoch
    BY <1>1, PartsOfGroup DEF Members, Agree
  <1>3. IsFun(to2) /\ IsFun(c2) /\ DOMAIN c2 = DOMAIN to2 /\ Members(h) = DOMAIN to2
    BY <1>1, PartsOfGroup DEF Members
  <1>4. PICK gone : gone = (touched \cap DOMAIN to) \ DOMAIN to2
    OBVIOUS
  <1>5. PICK mt, mc : /\ mt = {m \in touched \cap DOMAIN to2 : m \notin DOMAIN to \/ to[m] # to2[m]}
                      /\ mc = {m \in touched \cap DOMAIN c2 : m \notin DOMAIN c \/ c[m] # c2[m]}
    OBVIOUS
  <1>6. /\ \A k : k \notin touched => ((k \in DOMAIN to <=> k \in DOMAIN to2) /\ (k \in DOMAIN to => to[k] = to2[k]))
        /\ \A k : k \notin touched => ((k \in DOMAIN c <=> k \in DOMAIN c2) /\ (k \in DOMAIN c => c[k] = c2[k]))
    BY <1>1, <1>2, <1>3 DEF Beside
  <1>7. Put(Without(to, gone), to2, mt) = to2
    BY SMTT(40), <1>2, <1>3, <1>4, <1>5, <1>6, RecordsOfChanges
  <1>8. gone = (touched \cap DOMAIN c) \ DOMAIN c2
    BY <1>2, <1>3, <1>4
  <1>9. Put(Without(c, gone), c2, mc) = c2
    <2>1. IsFun(c) /\ IsFun(c2)
      BY <1>2, <1>3
    <2>2. mc = {m \in touched \cap DOMAIN c2 : m \notin DOMAIN c \/ c[m] # c2[m]}
      BY <1>5
    <2>3. \A k : k \notin touched => ((k \in DOMAIN c <=> k \in DOMAIN c2) /\ (k \in DOMAIN c => c[k] = c2[k]))
      BY <1>6
    <2>. QED
      BY <1>8, <2>1, <2>2, <2>3, RecordsOfChanges
  <1>10. PICK ta : ta = Put(Without(l.target, gone), [m \in targets |-> TargetOf(h, m)], targets)
    OBVIOUS
  <1>11. PICK hash : hash = IF h.epoch # g.epoch THEN h.hash ELSE l.hash
    OBVIOUS
  <1>12. l = Group(g.epoch, l.hash, l.refresh, g.target_epoch, l.target, to, c)
    BY <1>2, PartsOfGroup
  <1>13. w = Group(IF h.epoch # g.epoch THEN h.epoch ELSE g.epoch, hash, l.refresh,
                   IF computed THEN h.target_epoch ELSE g.target_epoch, ta,
                   Put(Without(to, gone), to2, mt), Put(Without(c, gone), c2, mc))
    <2>1. PICK e, te, lh, lr, lt : e = g.epoch /\ te = g.target_epoch /\ lh = l.hash /\ lr = l.refresh /\ lt = l.target
      OBVIOUS
    <2>2. l = Group(e, lh, lr, te, lt, to, c)
      BY <1>12, <2>1
    <2>3. mc = {m \in touched \cap DOMAIN to2 : m \notin DOMAIN to \/ c[m] # c2[m]}
      BY <1>2, <1>3, <1>5
    <2>4. w = [l EXCEPT !.epoch = IF h.epoch # e THEN h.epoch ELSE e,
                        !.hash = hash,
                        !.target_epoch = IF computed THEN h.target_epoch ELSE te,
                        !.topics = Put(Without(to, gone), to2, mt),
                        !.current = Put(Without(c, gone), c2, mc),
                        !.target = ta]
      BY <1>1, <1>2, <1>3, <1>4, <1>5, <1>10, <1>11, <2>1, <2>3 DEF Written
    <2>. QED
      BY <2>1, <2>2, <2>4 DEF Group
  <1>14. w = Group(h.epoch, hash, l.refresh, h.target_epoch, ta, to2, c2)
    <2>1. (IF h.epoch # g.epoch THEN h.epoch ELSE g.epoch) = h.epoch
      OBVIOUS
    <2>2. (IF computed THEN h.target_epoch ELSE g.target_epoch) = h.target_epoch
      OBVIOUS
    <2>. QED
      BY <1>7, <1>9, <1>13, <2>1, <2>2
  <1>15. \A k \in DOMAIN ta : ta[k] \in SUBSET Partitions
    <2>1. \A k \in targets : TargetOf(h, k) \in SUBSET Partitions
      BY PartsOfGroup DEF TargetOf
    <2>2. \A k \in DOMAIN l.target : l.target[k] \in SUBSET Partitions
      BY PartsOfGroup
    <2>. QED
      BY <1>10, <2>1, <2>2 DEF Put, Without, Restrict
  <1>16. GroupOK(w)
    <2>1. PICK e, te : e = h.epoch /\ te = h.target_epoch
      OBVIOUS
    <2>2. /\ e \in Nat /\ te \in 0..e /\ DOMAIN to2 \subseteq Clients
          /\ \A m \in DOMAIN to2 : MemberOK(c2[m], te)
          /\ \A m, n \in DOMAIN to2 : m # n => Apart(c2[m], c2[n])
          /\ \A m, n \in DOMAIN to2 \cap Statics : m = n
      BY <1>1, <2>1, PartsOfGroup
    <2>3. w = Group(e, hash, l.refresh, te, ta, to2, c2)
      BY <1>14, <2>1
    <2>. QED
      BY <1>3, <1>15, <2>2, <2>3, MakeGroup
  <1>17. w.epoch = h.epoch /\ w.target_epoch = h.target_epoch /\ w.topics = to2 /\ w.current = c2
    BY <1>14 DEF Group
  <1>. QED
    BY <1>1, <1>16, <1>17 DEF Agree

------------------------------------------------------------------------------
(* The inductive invariant.                                                *)

ClientRecord ==
    [running : BOOLEAN, topics : SUBSET Topics, epoch : Nat, told : SUBSET Partitions,
     owned : SUBSET Partitions, report : {"all", "owned", "none"}]

\* A client that joins uses nothing.
Idle(c) == c.epoch = 0 => c.owned = {} /\ c.told = {} /\ c.report = "all"

ClientHolds(g, c, m) == m \in Members(g) => c.owned \cup c.told \subseteq Held(g, m)

\* The actor and what a load of the log would build agree.
ServerOK(g, c, l) == GroupOK(g) /\ Answers(g) /\ GroupOK(l) /\ Agree(l, g) /\ c = l

\* The group holds for every client that is a member what it uses.
ClientsOK(cl, g) ==
    /\ cl \in [Clients -> ClientRecord]
    /\ \A m \in Clients : Idle(cl[m]) /\ ClientHolds(g, cl[m], m)

GroupInv ==
    /\ ServerOK(group, cache, log)
    /\ ClientsOK(client, group)
    /\ image \in SUBSET Partitions

------------------------------------------------------------------------------
(* Heartbeats.                                                             *)

LEMMA Reported ==
    ASSUME GroupInv, NEW m \in Clients
    PROVE  /\ ReportedOwned(m) = <<>> \/ ReportedOwned(m) = <<client[m].owned \cup client[m].told>>
           /\ client[m].epoch = 0 =>
                  ReportedOwned(m) = <<{}>> /\ client[m].owned \cup client[m].told = {}
  <1>1. PICK c \in ClientRecord : c = client[m]
    BY DEF GroupInv, ServerOK, ClientsOK
  <1>2. Idle(c)
    BY <1>1 DEF GroupInv, ServerOK, ClientsOK
  <1>3. ReportedOwned(m) = IF c.report # "none" /\ c.owned = c.told THEN <<c.owned>> ELSE <<>>
    BY <1>1 DEF ReportedOwned
  <1>4. c.owned = c.told => c.owned = c.owned \cup c.told
    OBVIOUS
  <1>. QED
    BY <1>1, <1>2, <1>3, <1>4 DEF Idle

\* What is known of the group with the member of the heartbeat in it.
IsResolved(g, m, touched) ==
    /\ GroupOK(g) /\ m \in Members(g) /\ Beside(group, g, touched) /\ m \in touched
    /\ g.target_epoch = group.target_epoch
    /\ \A k \in Members(g) \ {m} : k \in Members(group) /\ g.current[k] = group.current[k]
    /\ client[m].owned \cup client[m].told \subseteq Held(g, m)
    /\ \/ g.current[m].epoch > 0 /\ g.target_epoch > 0
       \/ g.current[m].epoch = 0 /\ ReportedOwned(m) = <<{}>>
          /\ (resolve_member(m) = "new" \/ g.target_epoch > 0)

Touched(m) == {m} \cup (IF resolve_member(m) = "replaces" THEN Holders(m) ELSE {})

LEMMA NewMember ==
    ASSUME GroupInv, NEW m \in Clients, resolve_member(m) = "new"
    PROVE  IsResolved(Resolved(m), m, Touched(m))
  <1>1. PICK g : g = add_member(group, m, client[m].topics)
    OBVIOUS
  <1>2. Resolved(m) = g /\ Touched(m) = {m}
    BY <1>1 DEF Resolved, Touched
  <1>3. client[m].epoch = 0 /\ m \notin Members(group) /\ (m \in Statics => Members(group) \cap Statics = {})
    BY DEF resolve_member, Holders
  <1>4. /\ GroupOK(g) /\ Members(g) = Members(group) \cup {m} /\ Beside(group, g, {m})
        /\ g.epoch = group.epoch /\ g.target_epoch = group.target_epoch
        /\ g.current[m] = new_member
    <2>1. GroupOK(group) /\ m \in Clients \ Members(group)
      BY <1>3 DEF GroupInv, ServerOK, ClientsOK
    <2>2. PICK topics, f : topics = client[m].topics /\ f = group
      OBVIOUS
    <2>3. GroupOK(f) /\ m \in Clients \ Members(f) /\ g = add_member(f, m, topics)
          /\ (m \in Statics => Members(f) \cap Statics = {})
      BY <1>1, <1>3, <2>1, <2>2
    <2>4. /\ GroupOK(g) /\ Members(g) = Members(f) \cup {m} /\ Beside(f, g, {m})
          /\ g.epoch = f.epoch /\ g.target_epoch = f.target_epoch
          /\ g.current[m] = new_member
      BY <2>3, AddMember
    <2>. QED
      BY <2>2, <2>4
  <1>5. \A k \in Members(g) \ {m} : k \in Members(group) /\ g.current[k] = group.current[k]
    BY <1>4 DEF Beside
  <1>6. new_member.epoch = 0
    BY DEF new_member
  <1>. QED
    BY <1>2, <1>3, <1>4, <1>5, <1>6, Reported DEF IsResolved

LEMMA ReplacingMember ==
    ASSUME GroupInv, NEW m \in Clients, resolve_member(m) = "replaces"
    PROVE  IsResolved(Resolved(m), m, Touched(m))
  <1>1. PICK previous : previous = CHOOSE h \in Holders(m) : TRUE
    OBVIOUS
  <1>2. client[m].epoch = 0 /\ m \in Statics /\ Holders(m) # {}
    BY DEF resolve_member
  <1>3. previous \in Members(group) \cap Statics
    BY <1>1, <1>2 DEF Holders
  <1>4. Holders(m) = {previous}
    BY <1>2, <1>3 DEF Holders, GroupInv, ServerOK, ClientsOK, GroupOK
  <1>5. PICK g : g = replace_static_member(group, previous, m)
    OBVIOUS
  <1>6. Resolved(m) = g
    BY <1>1, <1>5 DEF Resolved
  <1>7. Touched(m) = {m, previous}
    BY <1>4 DEF Touched
  <1>8. /\ GroupOK(g) /\ Members(g) = (Members(group) \ {previous}) \cup {m} /\ Beside(group, g, {m, previous})
        /\ g.epoch = group.epoch /\ g.target_epoch = group.target_epoch
        /\ g.current[m].epoch = 0
    BY <1>2, <1>3, <1>5, ReplaceStaticMember DEF GroupInv, ServerOK, ClientsOK
  <1>9. \A k \in Members(g) \ {m} : k \in Members(group) /\ g.current[k] = group.current[k]
    BY <1>8 DEF Beside
  <1>10. group.target_epoch > 0
    BY <1>3 DEF GroupInv, ServerOK, ClientsOK, Answers
  <1>. QED
    BY <1>2, <1>6, <1>7, <1>8, <1>9, <1>10, Reported DEF IsResolved

LEMMA ExistingMember ==
    ASSUME GroupInv, NEW m \in Clients, resolve_member(m) = "existing"
    PROVE  IsResolved(Resolved(m), m, Touched(m))
  <1>1. Resolved(m) = group /\ Touched(m) = {m}
    BY DEF Resolved, Touched
  <1>2. PICK c \in ClientRecord : c = client[m]
    BY DEF GroupInv, ServerOK, ClientsOK
  <1>3. PICK e \in Int : e = group.current[m].epoch
    <2>1. m \in Members(group)
      BY DEF resolve_member
    <2>2. MemberOK(group.current[m], group.target_epoch)
      BY <2>1 DEF GroupInv, ServerOK, ClientsOK, GroupOK
    <2>. QED
      BY <2>2 DEF MemberOK
  <1>4. /\ m \in Members(group)
        /\ ~(c.epoch = 0 /\ m \in Statics)
        /\ c.epoch \in {0, e} \/ c.epoch < e
    BY <1>2, <1>3 DEF resolve_member, validate_epoch
  <1>5. (e = -2 \/ e > 0) /\ (e = -2 => m \in Statics) /\ group.target_epoch > 0
    BY <1>3, <1>4 DEF GroupInv, ServerOK, ClientsOK, Answers
  <1>6. c.epoch \in Nat
    BY DEF ClientRecord
  <1>7. e > 0
    BY <1>4, <1>5, <1>6
  <1>8. client[m].owned \cup client[m].told \subseteq Held(group, m)
    BY <1>4 DEF GroupInv, ServerOK, ClientsOK, ClientHolds
  <1>9. Beside(group, group, {m}) /\ GroupOK(group)
    BY DEF Beside, GroupInv, ServerOK, ClientsOK
  <1>. QED
    BY <1>1, <1>3, <1>4, <1>5, <1>7, <1>8, <1>9 DEF IsResolved

\* The group of which the member is reconciled: with the subscription of the
\* heartbeat, and with a new target if there is one.
IsTargeted(start, m, changed, updated, g) ==
    /\ GroupOK(g) /\ Members(g) = Members(start) /\ g.current = start.current
    /\ Beside(start, g, {m}) /\ GroupOK(updated)
    /\ updated.target_epoch = start.target_epoch /\ updated.epoch \in Nat
    /\ changed => updated.epoch > updated.target_epoch
    /\ g = updated \/ g.target_epoch = updated.epoch
    /\ g.target_epoch >= start.target_epoch

LEMMA TargetedGroup ==
    ASSUME NEW start, GroupOK(start), NEW m \in Members(start), NEW topics, NEW changed \in BOOLEAN,
           NEW parts \in SUBSET Partitions, NEW named, named = WithTopics(start, m, topics),
           NEW updated, updated = update_subscription(named, parts, changed), NEW g,
           g = updated \/ \E target \in assign(updated, parts) : g = install_target(updated, target)
    PROVE  IsTargeted(start, m, changed, updated, g)
  <1>1. /\ GroupOK(named) /\ Members(named) = Members(start) /\ Beside(start, named, {m})
        /\ named.target_epoch = start.target_epoch /\ named.current = start.current
    BY NameTopics
  <1>2. /\ GroupOK(updated) /\ updated.topics = named.topics /\ updated.current = named.current
        /\ updated.target_epoch = named.target_epoch
        /\ changed => updated.epoch > updated.target_epoch
    BY <1>1, UpdateSubscription
  <1>3. updated.epoch \in Nat /\ updated.target_epoch \in 0..updated.epoch
    BY <1>2 DEF GroupOK
  <1>4. /\ GroupOK(g) /\ g.topics = updated.topics /\ g.current = updated.current
        /\ g = updated \/ g.target_epoch = updated.epoch
    <2>1. CASE g = updated
      BY <1>2, <2>1
    <2>2. ASSUME NEW target \in assign(updated, parts), g = install_target(updated, target)
          PROVE  GroupOK(g) /\ g.topics = updated.topics /\ g.current = updated.current /\ g.target_epoch = updated.epoch
      BY <1>2, <2>2, InstallTarget
    <2>. QED
      BY <2>1, <2>2
  <1>5. Members(g) = Members(start) /\ Beside(start, g, {m})
    BY <1>1, <1>2, <1>4 DEF Beside, Members
  <1>. QED
    BY <1>1, <1>2, <1>3, <1>4, <1>5 DEF IsTargeted

\* A transition of the group that the log follows.
IsTransition(t) ==
    /\ GroupOK(t.group) /\ Answers(t.group)
    /\ t.computed \in BOOLEAN /\ Beside(group, t.group, t.touched)
    /\ ~t.computed => t.group.target_epoch = group.target_epoch

\* A transition after which the client of m still has what it uses.
Serves(t, m) ==
    /\ m \in Members(t.group) /\ t.group.current[m].epoch > 0
    /\ \A k \in Members(t.group) \ {m} : k \in Members(group) /\ t.group.current[k] = group.current[k]
    /\ client[m].owned \cup client[m].told \subseteq Held(t.group, m)

\* The steps of a heartbeat from the group with its member in it.
LEMMA HeartbeatForm ==
    ASSUME NEW m, NEW delayed, NEW t \in HeartbeatSteps(m, delayed), NEW start, start = Resolved(m)
    PROVE  \E changed, stale \in BOOLEAN : \E named, updated, g :
               /\ resolve_member(m) = "new" => changed
               /\ named = WithTopics(start, m, client[m].topics)
               /\ updated = update_subscription(named, image, changed)
               /\ stale = (target_is_stale(updated) /\ ~(delayed /\ updated.target_epoch > 0))
               /\ IF stale THEN \E target \in assign(updated, image) : g = install_target(updated, target)
                           ELSE g = updated
               /\ t.group = reconcile_member(g, m, ReportedOwned(m), changed)
               /\ t.computed = stale /\ t.touched = Touched(m)
  <1>1. PICK changed \in BOOLEAN : changed = (resolve_member(m) = "new" \/ start.topics[m] # client[m].topics)
    OBVIOUS
  <1>2. PICK named : named = WithTopics(start, m, client[m].topics)
    OBVIOUS
  <1>3. PICK updated : updated = update_subscription(named, image, changed)
    OBVIOUS
  <1>4. PICK stale \in BOOLEAN : stale = (target_is_stale(updated) /\ ~(delayed /\ updated.target_epoch > 0))
    OBVIOUS
  <1>5. PICK always : always = IF resolve_member(m) = "replaces" THEN {m} ELSE {}
    OBVIOUS
  <1>6. t \in IF stale
              THEN {[group |-> reconcile_member(install_target(updated, x), m, ReportedOwned(m), changed),
                     touched |-> Touched(m), computed |-> stale, targets |-> ChangedTargets(updated, x) \cup always] :
                        x \in assign(updated, image)}
              ELSE {[group |-> reconcile_member(updated, m, ReportedOwned(m), changed),
                     touched |-> Touched(m), computed |-> stale, targets |-> {} \cup always]}
    BY <1>1, <1>2, <1>3, <1>4, <1>5 DEF HeartbeatSteps, Touched, WithTopics
  <1>7. CASE stale
    <2>1. PICK x \in assign(updated, image) :
              t = [group |-> reconcile_member(install_target(updated, x), m, ReportedOwned(m), changed),
                   touched |-> Touched(m), computed |-> stale, targets |-> ChangedTargets(updated, x) \cup always]
      BY <1>6, <1>7
    <2>2. PICK g : g = install_target(updated, x)
      OBVIOUS
    <2>3. t.group = reconcile_member(g, m, ReportedOwned(m), changed) /\ t.computed = stale /\ t.touched = Touched(m)
      BY <2>1, <2>2
    <2>. QED
      BY <1>1, <1>2, <1>3, <1>4, <1>7, <2>2, <2>3
  <1>8. CASE ~stale
    <2>1. t = [group |-> reconcile_member(updated, m, ReportedOwned(m), changed),
               touched |-> Touched(m), computed |-> stale, targets |-> {} \cup always]
      BY <1>6, <1>8
    <2>2. t.group = reconcile_member(updated, m, ReportedOwned(m), changed) /\ t.computed = stale /\ t.touched = Touched(m)
      BY <2>1
    <2>. QED
      BY <1>1, <1>2, <1>3, <1>4, <1>8, <2>2
  <1>. QED
    BY <1>7, <1>8

LEMMA HeartbeatTransition ==
    ASSUME GroupInv, NEW m \in Clients, NEW delayed \in BOOLEAN, Accepted(m), NEW t \in HeartbeatSteps(m, delayed)
    PROVE  IsTransition(t) /\ Serves(t, m)
  <1>1. PICK start, touched : start = Resolved(m) /\ touched = Touched(m)
    OBVIOUS
  <1>2. IsResolved(start, m, touched)
    <2>1. resolve_member(m) \in {"new", "existing", "replaces"}
      BY DEF Accepted
    <2>. QED
      BY <1>1, <2>1, NewMember, ExistingMember, ReplacingMember
  <1>3. PICK changed, stale \in BOOLEAN : \E named, updated, g :
            /\ resolve_member(m) = "new" => changed
            /\ named = WithTopics(start, m, client[m].topics)
            /\ updated = update_subscription(named, image, changed)
            /\ stale = (target_is_stale(updated) /\ ~(delayed /\ updated.target_epoch > 0))
            /\ IF stale THEN \E target \in assign(updated, image) : g = install_target(updated, target)
                        ELSE g = updated
            /\ t.group = reconcile_member(g, m, ReportedOwned(m), changed)
            /\ t.computed = stale /\ t.touched = Touched(m)
    BY <1>1, HeartbeatForm
  <1>4. PICK named, updated, g :
            /\ resolve_member(m) = "new" => changed
            /\ named = WithTopics(start, m, client[m].topics)
            /\ updated = update_subscription(named, image, changed)
            /\ stale = (target_is_stale(updated) /\ ~(delayed /\ updated.target_epoch > 0))
            /\ IF stale THEN \E target \in assign(updated, image) : g = install_target(updated, target)
                        ELSE g = updated
            /\ t.group = reconcile_member(g, m, ReportedOwned(m), changed)
            /\ t.computed = stale /\ t.touched = Touched(m)
    BY <1>3
  <1>5. PICK topics, parts, owned : topics = client[m].topics /\ parts = image /\ owned = ReportedOwned(m)
    OBVIOUS
  <1>6. GroupOK(start) /\ m \in Members(start) /\ parts \in SUBSET Partitions
    BY <1>2, <1>5 DEF IsResolved, GroupInv, ServerOK, ClientsOK
  <1>7. /\ named = WithTopics(start, m, topics) /\ updated = update_subscription(named, parts, changed)
        /\ g = updated \/ \E target \in assign(updated, parts) : g = install_target(updated, target)
    BY <1>4, <1>5
  <1>8. /\ GroupOK(g) /\ Members(g) = Members(start) /\ g.current = start.current
        /\ Beside(start, g, {m}) /\ GroupOK(updated)
        /\ updated.target_epoch = start.target_epoch /\ updated.epoch \in Nat
        /\ changed => updated.epoch > updated.target_epoch
        /\ g = updated \/ g.target_epoch = updated.epoch
        /\ g.target_epoch >= start.target_epoch
    <2>1. IsTargeted(start, m, changed, updated, g)
      BY <1>6, <1>7, TargetedGroup
    <2>. QED
      BY <2>1 DEF IsTargeted
  <1>9. start.target_epoch \in Nat /\ g.target_epoch \in Nat
    BY <1>6, <1>8 DEF GroupOK
  <1>10. g.target_epoch > 0
    <2>1. CASE start.target_epoch > 0
      BY <1>8, <1>9, <2>1
    <2>2. CASE start.target_epoch = 0
      <3>1. resolve_member(m) = "new"
        BY <1>2, <2>2 DEF IsResolved
      <3>2. updated.epoch > 0 /\ updated.target_epoch = 0
        BY <1>4, <1>8, <2>2, <3>1
      <3>3. stale
        <4>1. target_is_stale(updated) /\ ~(updated.target_epoch > 0)
          BY <3>2 DEF target_is_stale
        <4>2. stale = (target_is_stale(updated) /\ ~(delayed /\ updated.target_epoch > 0))
          BY <1>4
        <4>. QED
          BY <4>1, <4>2
      <3>4. PICK target \in assign(updated, parts) : g = install_target(updated, target)
        BY <1>4, <1>5, <3>3
      <3>5. g.target_epoch = updated.epoch
        BY <1>6, <1>8, <3>4, InstallTarget
      <3>. QED
        BY <3>2, <3>5
    <2>. QED
      BY <1>9, <2>1, <2>2
  <1>11. PICK h : h = t.group
    OBVIOUS
  <1>12. h = reconcile_member(g, m, owned, changed) /\ m \in Members(g)
    BY <1>4, <1>5, <1>6, <1>8, <1>11
  <1>13. /\ GroupOK(h) /\ OnlyMember(g, h, m) /\ Reconciles(g, m, owned, h.current[m])
         /\ owned = <<{}>> /\ g.current[m].epoch = 0 /\ g.target_epoch > 0 => h.current[m].epoch = g.target_epoch
    BY <1>8, <1>12, ReconcileMember
  <1>14. Beside(g, h, {m})
    BY <1>13 DEF OnlyMember, Beside
  <1>15. Beside(group, h, touched)
    BY <1>2, <1>8, <1>14 DEF Beside, IsResolved
  <1>16. h.current[m].epoch > 0
    BY <1>2, <1>5, <1>8, <1>10, <1>13 DEF IsResolved, Reconciles
  <1>17. m \in Members(h) /\ \A k \in Members(h) \ {m} : k \in Members(group) /\ h.current[k] = group.current[k]
    BY <1>2, <1>8, <1>12, <1>13 DEF IsResolved, OnlyMember
  <1>18. Answers(h)
    <2>1. \A k \in Members(h) \ {m} : /\ h.current[k].epoch = -2 \/ h.current[k].epoch > 0
                                      /\ h.current[k].epoch = -2 => k \in Statics
      BY <1>17 DEF GroupInv, ServerOK, ClientsOK, Answers
    <2>2. h.target_epoch > 0
      BY <1>10, <1>13 DEF OnlyMember
    <2>3. h.current[m].epoch # -2
      BY <1>16
    <2>. QED
      BY <1>16, <2>1, <2>2, <2>3 DEF Answers
  <1>19. ~stale => h.target_epoch = group.target_epoch
    BY <1>2, <1>4, <1>8, <1>13 DEF IsResolved, OnlyMember
  <1>20. client[m].owned \cup client[m].told \subseteq Held(h, m)
    <2>1. PICK uses : uses = client[m].owned \cup client[m].told
      OBVIOUS
    <2>2. uses \subseteq Held(g, m)
      BY <1>2, <1>8, <2>1 DEF IsResolved, Held
    <2>3. owned = <<>> \/ owned = <<uses>>
      BY <1>5, <2>1, Reported
    <2>4. uses \subseteq h.current[m].assigned \cup h.current[m].pending
      BY <1>13, <2>2, <2>3 DEF Reconciles
    <2>. QED
      BY <2>1, <2>4 DEF Held
  <1>21. t.computed \in BOOLEAN /\ t.touched = touched
    BY <1>1, <1>4
  <1>. QED
    BY <1>4, <1>11, <1>13, <1>15, <1>16, <1>17, <1>18, <1>19, <1>20, <1>21 DEF IsTransition, Serves

------------------------------------------------------------------------------
(* Commits and clients.                                                    *)

LEMMA CommitKeeps ==
    ASSUME GroupInv, NEW t, IsTransition(t), Commit(t)
    PROVE  ServerOK(group', cache', log') /\ group' = t.group
  <1>1. PICK g, l, h : g = group /\ l = log /\ h = t.group
    OBVIOUS
  <1>2. PICK touched, computed, targets : touched = t.touched /\ computed = t.computed /\ targets = t.targets
    OBVIOUS
  <1>3. GroupOK(g) /\ GroupOK(l) /\ Agree(l, g) /\ cache = l
    BY <1>1 DEF GroupInv, ServerOK
  <1>4. /\ GroupOK(h) /\ Answers(h) /\ computed \in BOOLEAN /\ Beside(g, h, touched)
        /\ ~computed => h.target_epoch = g.target_epoch
    BY <1>1, <1>2 DEF IsTransition
  <1>5. PICK w : w = Written(l, g, h, touched, computed, targets)
    OBVIOUS
  <1>6. GroupOK(w) /\ Agree(w, h)
    BY <1>3, <1>4, <1>5, WrittenAgrees
  <1>7. group' = h /\ log' = w /\ cache' = w
    BY <1>1, <1>2, <1>3, <1>5 DEF Commit, NewRecords
  <1>. QED
    BY <1>1, <1>4, <1>6, <1>7 DEF ServerOK

LEMMA LoadKeeps ==
    ASSUME GroupInv, NEW h, h = apply_seed(log)
    PROVE  ServerOK(h, cache, log) /\ Agree(group, h)
  <1>1. GroupOK(log) /\ Agree(log, group) /\ Answers(group) /\ cache = log
    BY DEF GroupInv, ServerOK
  <1>2. GroupOK(h) /\ Agree(log, h)
    BY <1>1, ApplySeed
  <1>3. Agree(group, h)
    BY <1>1, <1>2 DEF Agree
  <1>4. Answers(h)
    BY <1>1, <1>3 DEF Answers, Agree, Members
  <1>. QED
    BY <1>1, <1>2, <1>3, <1>4 DEF ServerOK

LEMMA FailKeeps ==
    ASSUME WritesSettle, GroupInv, NEW t, NEW committed \in BOOLEAN, FailCommit(t, committed)
    PROVE  ServerOK(group', cache', log') /\ Agree(group, group')
  <1>1. group' = apply_seed(log) /\ log' = log /\ cache' = cache
    BY DEF FailCommit, GroupInv, ServerOK
  <1>2. PICK h : h = apply_seed(log)
    OBVIOUS
  <1>3. ServerOK(h, cache, log) /\ Agree(group, h)
    BY <1>2, LoadKeeps
  <1>. QED
    BY <1>1, <1>2, <1>3

\* The members of h, m aside, are members of g with the same assignment.
Keeps(g, h, m) == \A k \in Members(h) \ {m} : k \in Members(g) /\ h.current[k] = g.current[k]

LEMMA ClientMoves ==
    ASSUME NEW cl, NEW g, ClientsOK(cl, g), NEW m \in Clients, NEW c \in ClientRecord, Idle(c),
           NEW h, ClientHolds(h, c, m), Keeps(g, h, m)
    PROVE  ClientsOK([cl EXCEPT ![m] = c], h)
  <1>1. PICK x : x = [cl EXCEPT ![m] = c]
    OBVIOUS
  <1>2. x \in [Clients -> ClientRecord] /\ x[m] = c /\ \A k \in Clients \ {m} : x[k] = cl[k]
    BY <1>1 DEF ClientsOK
  <1>3. \A k \in Clients \ {m} : Idle(cl[k]) /\ ClientHolds(h, cl[k], k)
    BY DEF ClientsOK, ClientHolds, Keeps, Held
  <1>. QED
    BY <1>1, <1>2, <1>3 DEF ClientsOK

LEMMA ClientsStay ==
    ASSUME NEW cl, NEW g, ClientsOK(cl, g), NEW h,
           \A k \in Members(h) : k \in Members(g) /\ h.current[k] = g.current[k]
    PROVE  ClientsOK(cl, h)
  BY DEF ClientsOK, ClientHolds, Held

LEMMA AgreeingKeeps ==
    ASSUME NEW g, NEW h, Agree(g, h)
    PROVE  \A k \in Members(h) : k \in Members(g) /\ h.current[k] = g.current[k]
  BY DEF Agree, Members

\* A client that starts, or starts again, uses nothing.
LEMMA Fresh ==
    ASSUME NEW topics \in SUBSET Topics, NEW g, NEW m
    PROVE  /\ NotRunning \in ClientRecord /\ Idle(NotRunning) /\ ClientHolds(g, NotRunning, m)
           /\ Joining(topics) \in ClientRecord /\ Idle(Joining(topics)) /\ ClientHolds(g, Joining(topics), m)
  <1>1. NotRunning \in ClientRecord /\ Idle(NotRunning) /\ ClientHolds(g, NotRunning, m)
    BY DEF NotRunning, ClientRecord, Idle, ClientHolds
  <1>2. PICK c : c = Joining(topics)
    OBVIOUS
  <1>3. c = [running |-> TRUE, topics |-> topics, epoch |-> 0, told |-> {}, owned |-> {}, report |-> "all"]
    BY <1>2 DEF Joining, NotRunning
  <1>4. c \in ClientRecord /\ Idle(c) /\ ClientHolds(g, c, m)
    BY <1>3 DEF ClientRecord, Idle, ClientHolds
  <1>. QED
    BY <1>1, <1>2, <1>4

\* A client that sends everything again uses what it used.
LEMMA Resending ==
    ASSUME NEW c \in ClientRecord, Idle(c), NEW d, d = [c EXCEPT !.report = "all"]
    PROVE  d \in ClientRecord /\ Idle(d) /\ d.owned = c.owned /\ d.told = c.told
  <1>1. d = [running |-> c.running, topics |-> c.topics, epoch |-> c.epoch, told |-> c.told, owned |-> c.owned,
             report |-> "all"]
    BY DEF ClientRecord
  <1>. QED
    BY <1>1 DEF ClientRecord, Idle

\* A client that is answered has what it was told.
LEMMA AnsweredClient ==
    ASSUME GroupInv, NEW m \in Clients, NEW t, IsTransition(t), Serves(t, m), NEW d, d = Answered(m, t)
    PROVE  d \in ClientRecord /\ Idle(d) /\ ClientHolds(t.group, d, m)
  <1>1. PICK c \in ClientRecord : c = client[m]
    BY DEF GroupInv, ClientsOK
  <1>2. PICK n : n = t.group.current[m]
    OBVIOUS
  <1>3. n \in MemberRecord /\ n.epoch \in Int /\ n.epoch > 0
    BY <1>2 DEF IsTransition, Serves, GroupOK, MemberOK, MemberRecord
  <1>4. PICK included \in BOOLEAN :
            included = (\/ client[m].epoch = 0 \/ IsFullRequest(m)
                        \/ resolve_member(m) # "existing" \/ group.current[m].assigned # n.assigned)
    OBVIOUS
  <1>5. PICK told \in SUBSET Partitions : told = IF included THEN n.assigned ELSE c.told
    BY <1>3 DEF MemberRecord, ClientRecord
  <1>6. PICK kept \in {"all", "owned", "none"} : kept = IF ReportedOwned(m) = <<>> THEN c.report ELSE "none"
    BY DEF ClientRecord
  <1>7. PICK report \in {"all", "owned", "none"} : report = CASE kept # "all" /\ told # c.told -> "owned" [] OTHER -> kept
    OBVIOUS
  <1>8. d = [c EXCEPT !.epoch = n.epoch, !.told = told, !.report = report]
    BY <1>1, <1>2, <1>4, <1>5, <1>6, <1>7 DEF Answered
  <1>9. d = [running |-> c.running, topics |-> c.topics, epoch |-> n.epoch, told |-> told, owned |-> c.owned,
             report |-> report]
    BY <1>8 DEF ClientRecord
  <1>10. d \in ClientRecord /\ Idle(d)
    BY <1>3, <1>9 DEF ClientRecord, Idle
  <1>11. d.owned = c.owned /\ (d.told = c.told \/ d.told = n.assigned)
    BY <1>5, <1>9
  <1>12. c.owned \cup c.told \subseteq Held(t.group, m) /\ n.assigned \subseteq Held(t.group, m)
    BY <1>1, <1>2 DEF Serves, Held
  <1>. QED
    BY <1>10, <1>11, <1>12 DEF ClientHolds

------------------------------------------------------------------------------
(* The actions.                                                            *)

LEMMA InitGroupInv == Init => GroupInv
  <1>1. SUFFICES ASSUME Init PROVE GroupInv
    OBVIOUS
  <1>2. PICK none : none = Nobody
    OBVIOUS
  <1>3. IsFun(none) /\ DOMAIN none = {}
    BY <1>2 DEF Nobody, IsFun
  <1>4. PICK g : g = Group(0, {}, TRUE, 0, none, none, none)
    OBVIOUS
  <1>5. group = g /\ cache = g /\ log = g
    BY <1>1, <1>2, <1>4 DEF Init, new_group, Group
  <1>6. GroupOK(g)
    <2>1. 0 \in Nat /\ 0 \in 0..0 /\ DOMAIN none \subseteq Clients
      BY <1>3
    <2>2. /\ \A m \in DOMAIN none : none[m] \in SUBSET Partitions /\ MemberOK(none[m], 0)
          /\ \A m, n \in DOMAIN none : m # n => Apart(none[m], none[n])
          /\ \A m, n \in DOMAIN none \cap Statics : m = n
      BY <1>3
    <2>. QED
      BY <1>3, <1>4, <2>1, <2>2, MakeGroup
  <1>7. Members(g) = {}
    BY <1>3, <1>4 DEF Group, Members
  <1>8. ServerOK(g, g, g)
    BY <1>6, <1>7 DEF ServerOK, Answers, Agree
  <1>9. NotRunning \in ClientRecord /\ Idle(NotRunning)
    BY DEF NotRunning, ClientRecord, Idle
  <1>10. ClientsOK(client, g)
    BY <1>1, <1>7, <1>9 DEF Init, ClientsOK, ClientHolds
  <1>. QED
    BY <1>1, <1>5, <1>8, <1>10 DEF Init, GroupInv

\* The client of m changes to c, and the group does not.
LEMMA OneClientMoves ==
    ASSUME GroupInv, UNCHANGED <<group, cache, log, image>>, NEW m \in Clients, NEW c \in ClientRecord,
           Idle(c), ClientHolds(group, c, m), client' = [client EXCEPT ![m] = c]
    PROVE  GroupInv'
  <1>1. Keeps(group, group, m)
    BY DEF Keeps
  <1>2. ClientsOK([client EXCEPT ![m] = c], group)
    BY <1>1, ClientMoves DEF GroupInv
  <1>. QED
    BY <1>2 DEF GroupInv

LEMMA HeartbeatStep ==
    ASSUME GroupInv, NEW m \in Clients, NEW delayed \in BOOLEAN, Heartbeat(m, delayed)
    PROVE  GroupInv'
  <1>1. PICK t \in HeartbeatSteps(m, delayed) : Commit(t) /\ client' = [client EXCEPT ![m] = Answered(m, t)]
    BY DEF Heartbeat
  <1>2. IsTransition(t) /\ Serves(t, m)
    BY HeartbeatTransition DEF Heartbeat
  <1>3. ServerOK(group', cache', log') /\ group' = t.group
    BY <1>1, <1>2, CommitKeeps
  <1>4. PICK d, h : d = Answered(m, t) /\ h = t.group
    OBVIOUS
  <1>5. d \in ClientRecord /\ Idle(d) /\ ClientHolds(h, d, m)
    BY <1>2, <1>4, AnsweredClient
  <1>6. Keeps(group, h, m)
    BY <1>2, <1>4 DEF Serves, Keeps
  <1>7. ClientsOK([client EXCEPT ![m] = d], h)
    BY <1>5, <1>6, ClientMoves DEF GroupInv
  <1>. QED
    BY <1>1, <1>3, <1>4, <1>7 DEF GroupInv, Heartbeat

LEMMA ResendingClient ==
    ASSUME GroupInv, NEW m \in Clients
    PROVE  \E d \in ClientRecord :
               /\ [client EXCEPT ![m].report = "all"] = [client EXCEPT ![m] = d]
               /\ Idle(d) /\ d.owned = client[m].owned /\ d.told = client[m].told
  <1>1. PICK c \in ClientRecord : c = client[m] /\ Idle(c)
    BY DEF GroupInv, ClientsOK
  <1>2. PICK d : d = [c EXCEPT !.report = "all"]
    OBVIOUS
  <1>3. d \in ClientRecord /\ Idle(d) /\ d.owned = c.owned /\ d.told = c.told
    BY <1>1, <1>2, Resending
  <1>4. [client EXCEPT ![m].report = "all"] = [client EXCEPT ![m] = d]
    BY <1>1, <1>2 DEF GroupInv, ClientsOK
  <1>. QED
    BY <1>1, <1>3, <1>4

LEMMA LoseAnswerStep ==
    ASSUME GroupInv, NEW m \in Clients, NEW delayed \in BOOLEAN, LoseAnswer(m, delayed)
    PROVE  GroupInv'
  <1>1. PICK t \in HeartbeatSteps(m, delayed) : Commit(t)
    BY DEF LoseAnswer
  <1>2. IsTransition(t) /\ Serves(t, m)
    BY HeartbeatTransition DEF LoseAnswer
  <1>3. ServerOK(group', cache', log') /\ group' = t.group
    BY <1>1, <1>2, CommitKeeps
  <1>4. PICK d \in ClientRecord :
            /\ [client EXCEPT ![m].report = "all"] = [client EXCEPT ![m] = d]
            /\ Idle(d) /\ d.owned = client[m].owned /\ d.told = client[m].told
    BY ResendingClient
  <1>5. PICK h : h = t.group
    OBVIOUS
  <1>6. Keeps(group, h, m) /\ ClientHolds(h, d, m)
    BY <1>2, <1>4, <1>5 DEF Serves, Keeps, ClientHolds
  <1>7. ClientsOK([client EXCEPT ![m] = d], h)
    BY <1>4, <1>6, ClientMoves DEF GroupInv
  <1>. QED
    BY <1>3, <1>4, <1>5, <1>7 DEF GroupInv, LoseAnswer

LEMMA FailHeartbeatStep ==
    ASSUME WritesSettle, GroupInv, NEW m \in Clients, NEW delayed \in BOOLEAN, NEW committed \in BOOLEAN,
           FailHeartbeat(m, delayed, committed)
    PROVE  GroupInv'
  <1>1. PICK t \in HeartbeatSteps(m, delayed) : FailCommit(t, committed)
    BY DEF FailHeartbeat
  <1>2. ServerOK(group', cache', log') /\ Agree(group, group')
    BY <1>1, FailKeeps
  <1>3. PICK d \in ClientRecord :
            /\ [client EXCEPT ![m].report = "all"] = [client EXCEPT ![m] = d]
            /\ Idle(d) /\ d.owned = client[m].owned /\ d.told = client[m].told
    BY ResendingClient
  <1>4. ClientHolds(group, client[m], m)
    BY DEF GroupInv, ClientsOK
  <1>5. Keeps(group, group', m) /\ ClientHolds(group', d, m)
    BY <1>2, <1>3, <1>4 DEF Agree, Members, Keeps, ClientHolds, Held
  <1>6. ClientsOK([client EXCEPT ![m] = d], group')
    BY <1>3, <1>5, ClientMoves DEF GroupInv
  <1>. QED
    BY <1>2, <1>3, <1>6 DEF GroupInv, FailHeartbeat

\* A member that goes, or goes for a while, and the clients of the others.
LEMMA FencedTransition ==
    ASSUME GroupInv, NEW m \in Members(group), NEW t, t = fence_members(m)
    PROVE  IsTransition(t) /\ Members(t.group) = Members(group) \ {m} /\ Keeps(group, t.group, m)
  <1>1. PICK g, parts, h : g = group /\ parts = image /\ h = Fenced(g, m, parts)
    OBVIOUS
  <1>2. t.group = h /\ t.touched = {m} /\ t.computed = FALSE
    BY <1>1 DEF fence_members, Fenced
  <1>3. GroupOK(g) /\ Answers(g) /\ m \in Members(g)
    BY <1>1 DEF GroupInv, ServerOK
  <1>4. /\ GroupOK(h) /\ Members(h) = Members(g) \ {m} /\ Beside(g, h, {m})
        /\ h.target_epoch = g.target_epoch
    <2>1. h = Fenced(g, m, parts)
      BY <1>1
    <2>. QED
      BY <1>3, <2>1, RemoveMember
  <1>5. Keeps(g, h, m)
    BY <1>4 DEF Keeps, Beside
  <1>6. Answers(h)
    BY <1>3, <1>4, <1>5 DEF Answers, Keeps
  <1>. QED
    BY <1>1, <1>2, <1>4, <1>5, <1>6 DEF IsTransition

LEMMA ReleasedTransition ==
    ASSUME GroupInv, NEW m \in Members(group) \cap Statics, NEW t,
           t = [group |-> release_static_member(group, m), touched |-> {m}, computed |-> FALSE, targets |-> {}]
    PROVE  IsTransition(t) /\ Keeps(group, t.group, m)
  <1>1. PICK g, h : g = group /\ h = release_static_member(g, m)
    OBVIOUS
  <1>2. t.group = h /\ t.touched = {m} /\ t.computed = FALSE
    BY <1>1
  <1>3. GroupOK(g) /\ Answers(g) /\ m \in Members(g)
    BY <1>1 DEF GroupInv, ServerOK
  <1>4. /\ GroupOK(h) /\ Members(h) = Members(g) /\ Beside(g, h, {m})
        /\ h.target_epoch = g.target_epoch /\ h.current[m].epoch = -2
    BY <1>1, <1>3, ReleaseStaticMember
  <1>5. Keeps(g, h, m)
    BY <1>4 DEF Keeps, Beside
  <1>6. Answers(h)
    BY <1>3, <1>4, <1>5 DEF Answers, Keeps
  <1>. QED
    BY <1>1, <1>2, <1>4, <1>5, <1>6 DEF IsTransition

LEMMA LeaveStep ==
    ASSUME GroupInv, NEW m \in Clients, Leave(m) \/ Release(m)
    PROVE  GroupInv'
  <1>1. PICK t : IsTransition(t) /\ Keeps(group, t.group, m) /\ Commit(t)
    <2>1. CASE Leave(m)
      BY <2>1, FencedTransition DEF Leave
    <2>2. CASE Release(m)
      BY <2>2, ReleasedTransition DEF Release
    <2>. QED
      BY <2>1, <2>2
  <1>2. ServerOK(group', cache', log') /\ group' = t.group
    BY <1>1, CommitKeeps
  <1>3. PICK h : h = t.group
    OBVIOUS
  <1>4. NotRunning \in ClientRecord /\ Idle(NotRunning) /\ ClientHolds(h, NotRunning, m)
    BY DEF NotRunning, ClientRecord, Idle, ClientHolds
  <1>5. ClientsOK([client EXCEPT ![m] = NotRunning], h)
    BY <1>1, <1>3, <1>4, ClientMoves DEF GroupInv
  <1>. QED
    BY <1>2, <1>3, <1>5 DEF GroupInv, Leave, Release

LEMMA ExpireStep ==
    ASSUME GroupInv, NEW m \in Clients, Expire(m)
    PROVE  GroupInv'
  <1>1. PICK t : t = fence_members(m)
    OBVIOUS
  <1>2. m \in Members(group) /\ Commit(t)
    BY <1>1 DEF Expire
  <1>3. IsTransition(t) /\ Members(t.group) = Members(group) \ {m} /\ Keeps(group, t.group, m)
    BY <1>1, <1>2, FencedTransition
  <1>4. ServerOK(group', cache', log') /\ group' = t.group
    BY <1>2, <1>3, CommitKeeps
  <1>5. PICK h : h = t.group
    OBVIOUS
  <1>6. \A k \in Members(h) : k \in Members(group) /\ h.current[k] = group.current[k]
    BY <1>3, <1>5 DEF Keeps
  <1>7. ClientsOK(client, h)
    BY <1>6, ClientsStay DEF GroupInv
  <1>. QED
    BY <1>4, <1>5, <1>7 DEF GroupInv, Expire

LEMMA LoadStep ==
    ASSUME WritesSettle, GroupInv, Reload \/ \E m \in Clients, committed \in BOOLEAN : FailExpire(m, committed)
    PROVE  GroupInv'
  <1>1. ServerOK(group', cache', log') /\ Agree(group, group')
    <2>1. CASE Reload
      <3>1. PICK h : h = apply_seed(log)
        OBVIOUS
      <3>2. ServerOK(h, cache, log) /\ Agree(group, h)
        BY <3>1, LoadKeeps
      <3>3. cache = log
        BY DEF GroupInv, ServerOK
      <3>. QED
        BY <2>1, <3>1, <3>2, <3>3 DEF Reload
    <2>2. ASSUME NEW m \in Clients, NEW committed \in BOOLEAN, FailExpire(m, committed)
          PROVE  ServerOK(group', cache', log') /\ Agree(group, group')
      <3>1. FailCommit(fence_members(m), committed)
        BY <2>2 DEF FailExpire
      <3>. QED
        BY <3>1, FailKeeps
    <2>. QED
      BY <2>1, <2>2
  <1>2. \A k \in Members(group') : k \in Members(group) /\ (group').current[k] = group.current[k]
    BY <1>1 DEF Agree, Members
  <1>3. ClientsOK(client, group')
    BY <1>2, ClientsStay DEF GroupInv
  <1>4. UNCHANGED <<client, image>>
    BY DEF Reload, FailExpire
  <1>. QED
    BY <1>1, <1>3, <1>4 DEF GroupInv

LEMMA ClientStep ==
    ASSUME GroupInv, NEW m \in Clients,
           \/ Rejoin(m) \/ GiveUp(m) \/ Stop(m) \/ Apply(m)
           \/ \E topics \in Subscriptions : Join(m, topics) \/ Subscribe(m, topics)
    PROVE  GroupInv'
  <1>1. UNCHANGED <<group, cache, log, image>>
    BY DEF Rejoin, GiveUp, Stop, Apply, Join, Subscribe
  <1>2. PICK c \in ClientRecord : c = client[m] /\ Idle(c) /\ ClientHolds(group, c, m)
    BY DEF GroupInv, ClientsOK
  <1>3. \E d \in ClientRecord : Idle(d) /\ ClientHolds(group, d, m) /\ client' = [client EXCEPT ![m] = d]
    <2>1. CASE Rejoin(m)
      <3>1. PICK topics \in SUBSET Topics : topics = c.topics
        BY DEF ClientRecord
      <3>2. client' = [client EXCEPT ![m] = Joining(topics)]
        BY <1>2, <2>1, <3>1 DEF Rejoin
      <3>. QED
        BY <3>2, Fresh
    <2>2. CASE GiveUp(m) \/ Stop(m)
      <3>1. client' = [client EXCEPT ![m] = NotRunning]
        BY <2>2 DEF GiveUp, Stop
      <3>2. NotRunning \in ClientRecord /\ Idle(NotRunning) /\ ClientHolds(group, NotRunning, m)
        BY DEF NotRunning, ClientRecord, Idle, ClientHolds
      <3>. QED
        BY <3>1, <3>2
    <2>3. CASE Apply(m)
      <3>1. PICK d : d = [c EXCEPT !.owned = c.told]
        OBVIOUS
      <3>2. d = [running |-> c.running, topics |-> c.topics, epoch |-> c.epoch, told |-> c.told, owned |-> c.told,
                 report |-> c.report]
        BY <3>1 DEF ClientRecord
      <3>3. d \in ClientRecord /\ Idle(d) /\ ClientHolds(group, d, m)
        BY <1>2, <3>2 DEF ClientRecord, Idle, ClientHolds
      <3>4. client' = [client EXCEPT ![m] = d]
        BY <1>2, <2>3, <3>1 DEF Apply, GroupInv, ClientsOK
      <3>. QED
        BY <3>3, <3>4
    <2>4. ASSUME NEW topics \in Subscriptions, Join(m, topics)
          PROVE  \E d \in ClientRecord : Idle(d) /\ ClientHolds(group, d, m) /\ client' = [client EXCEPT ![m] = d]
      <3>1. topics \in SUBSET Topics /\ client' = [client EXCEPT ![m] = Joining(topics)]
        BY <2>4 DEF Join, Subscriptions
      <3>. QED
        BY <3>1, Fresh
    <2>5. ASSUME NEW topics \in Subscriptions, Subscribe(m, topics)
          PROVE  \E d \in ClientRecord : Idle(d) /\ ClientHolds(group, d, m) /\ client' = [client EXCEPT ![m] = d]
      <3>1. PICK d : d = [c EXCEPT !.topics = topics]
        OBVIOUS
      <3>2. d = [running |-> c.running, topics |-> topics, epoch |-> c.epoch, told |-> c.told, owned |-> c.owned,
                 report |-> c.report]
        BY <3>1 DEF ClientRecord
      <3>3. d \in ClientRecord /\ Idle(d) /\ ClientHolds(group, d, m)
        BY <1>2, <3>2 DEF ClientRecord, Idle, ClientHolds, Subscriptions
      <3>4. client' = [client EXCEPT ![m] = d]
        BY <1>2, <2>5, <3>1 DEF Subscribe, GroupInv, ClientsOK
      <3>. QED
        BY <3>3, <3>4
    <2>. QED
      BY <2>1, <2>2, <2>3, <2>4, <2>5
  <1>4. PICK d \in ClientRecord : Idle(d) /\ ClientHolds(group, d, m) /\ client' = [client EXCEPT ![m] = d]
    BY <1>3
  <1>. QED
    BY <1>1, <1>4, OneClientMoves

LEMMA MetadataStep ==
    ASSUME GroupInv, (\E p \in Partitions : AddPartition(p)) \/ (\E topic \in notices : on_metadata_update(topic))
    PROVE  GroupInv'
  <1>1. ASSUME NEW p \in Partitions, AddPartition(p) PROVE GroupInv'
    BY <1>1 DEF AddPartition, GroupInv
  <1>2. ASSUME NEW topic \in notices, on_metadata_update(topic) PROVE GroupInv'
    <2>1. PICK g, l : g = group /\ l = log
      OBVIOUS
    <2>2. PICK refresh : group' = [g EXCEPT !.refresh = refresh]
      BY <1>2, <2>1 DEF on_metadata_update
    <2>3. GroupOK(g) /\ Answers(g) /\ GroupOK(l) /\ Agree(l, g) /\ cache = l
      BY <2>1 DEF GroupInv, ServerOK
    <2>4. PICK h : h = Group(g.epoch, g.hash, refresh, g.target_epoch, g.target, g.topics, g.current)
      OBVIOUS
    <2>5. group' = h
      BY <2>2, <2>3, <2>4, PartsOfGroup DEF Group
    <2>6. Agree(g, h)
      BY <2>4 DEF Agree, Group
    <2>7. GroupOK(h)
      BY <2>3, <2>4, PartsOfGroup, MakeGroup
    <2>8. Answers(h)
      BY <2>3, <2>6 DEF Answers, Agree, Members
    <2>9. ServerOK(h, l, l)
      BY <2>3, <2>6, <2>7, <2>8 DEF ServerOK, Agree
    <2>10. ClientsOK(client, h)
      BY <2>1, <2>6, AgreeingKeeps, ClientsStay DEF GroupInv
    <2>. QED
      BY <1>2, <2>1, <2>3, <2>5, <2>9, <2>10 DEF on_metadata_update, GroupInv
  <1>. QED
    BY <1>1, <1>2

LEMMA GroupInvStep ==
    ASSUME WritesSettle, GroupInv, [Next]_vars
    PROVE  GroupInv'
  <1>1. CASE UNCHANGED vars
    BY <1>1 DEF vars, GroupInv
  <1>2. ASSUME NEW m \in Clients, NEW delayed \in BOOLEAN, Heartbeat(m, delayed) PROVE GroupInv'
    BY <1>2, HeartbeatStep
  <1>3. ASSUME NEW m \in Clients, NEW delayed \in BOOLEAN, LoseAnswer(m, delayed) PROVE GroupInv'
    BY <1>3, LoseAnswerStep
  <1>4. ASSUME NEW m \in Clients, NEW delayed \in BOOLEAN, NEW committed \in BOOLEAN,
               FailHeartbeat(m, delayed, committed)
        PROVE  GroupInv'
    BY <1>4, FailHeartbeatStep
  <1>5. ASSUME NEW m \in Clients, Leave(m) \/ Release(m) PROVE GroupInv'
    BY <1>5, LeaveStep
  <1>6. ASSUME NEW m \in Clients, Expire(m) PROVE GroupInv'
    BY <1>6, ExpireStep
  <1>7. ASSUME NEW m \in Clients,
               \/ Rejoin(m) \/ GiveUp(m) \/ Stop(m) \/ Apply(m)
               \/ \E topics \in Subscriptions : Join(m, topics) \/ Subscribe(m, topics)
        PROVE  GroupInv'
    BY <1>7, ClientStep
  <1>8. CASE Reload \/ \E m \in Clients, committed \in BOOLEAN : FailExpire(m, committed)
    BY <1>8, LoadStep
  <1>9. CASE (\E p \in Partitions : AddPartition(p)) \/ (\E topic \in notices : on_metadata_update(topic))
    BY <1>9, MetadataStep
  <1>. QED
    BY <1>1, <1>2, <1>3, <1>4, <1>5, <1>6, <1>7, <1>8, <1>9 DEF Next

------------------------------------------------------------------------------
(* What the group promises.                                                *)

LEMMA GroupInvariant ==
    ASSUME WritesSettle
    PROVE  Spec => []GroupInv
  <1>1. Init => GroupInv
    BY InitGroupInv
  <1>2. GroupInv /\ [Next]_vars => GroupInv'
    BY GroupInvStep
  <1>. QED
    BY <1>1, <1>2, PTL DEF Spec

\* If a write that timed out is never committed, the epochs of the members, of
\* the target and of the group stay in order, only a member that is to give up
\* partitions has some to give up, and one member at a time holds the static
\* instance id, through replaced and released members, failed writes and loads.
THEOREM GroupTypes ==
    ASSUME WritesSettle
    PROVE  Spec => []TypeOK
  <1>1. GroupInv => TypeOK
    <2>1. SUFFICES ASSUME GroupInv PROVE TypeOK
      OBVIOUS
    <2>2. GroupOK(group) /\ image \in SUBSET Partitions
      BY <2>1 DEF GroupInv, ServerOK
    <2>3. PICK g, e, te : g = group /\ e = g.epoch /\ te = g.target_epoch
      OBVIOUS
    <2>4. e \in Nat /\ te \in 0..e /\ DOMAIN g.current = Members(g)
      BY <2>2, <2>3 DEF GroupOK
    <2>5. ASSUME NEW m \in Members(g), NEW c, c = g.current[m]
          PROVE  /\ c \in [epoch : -2..e, prev : -2..e, state : {"Stable", "Unrevoked", "Unreleased"},
                           assigned : SUBSET Partitions, pending : SUBSET Partitions]
                 /\ c.epoch <= te /\ c.assigned \cap c.pending = {} /\ (c.pending # {} => c.state = "Unrevoked")
      <3>1. MemberOK(c, te)
        BY <2>2, <2>3, <2>5 DEF GroupOK
      <3>. QED
        BY <2>4, <3>1 DEF MemberOK, MemberRecord
    <2>6. Cardinality(Members(g) \cap Statics) <= 1
      <3>1. \A m, n \in Members(g) \cap Statics : m = n
        BY <2>2, <2>3 DEF GroupOK
      <3>2. CASE Members(g) \cap Statics = {}
        BY <3>2, FS_EmptySet
      <3>3. CASE Members(g) \cap Statics # {}
        <4>1. PICK m : m \in Members(g) \cap Statics
          BY <3>3
        <4>2. Members(g) \cap Statics = {m}
          BY <3>1, <4>1
        <4>. QED
          <5>1. Cardinality({m}) = 1
            BY FS_Singleton
          <5>. QED
            BY <4>2, <5>1
      <3>. QED
        BY <3>2, <3>3
    <2>. QED
      BY <2>2, <2>3, <2>4, <2>5, <2>6 DEF TypeOK, Current
  <1>. QED
    BY <1>1, GroupInvariant, PTL

\* If a write that timed out is never committed, no partition is held by two
\* members, in the actor and in the group that a load of the log builds:
\* reconcile_member gives a member only what held_by_others does not name.
THEOREM PartitionHasOneHolder ==
    ASSUME WritesSettle
    PROVE  Spec => []OneHolder
  <1>1. GroupInv => OneHolder
    <2>1. SUFFICES ASSUME GroupInv PROVE OneHolder
      OBVIOUS
    <2>2. PICK h : h = apply_seed(log)
      OBVIOUS
    <2>3. GroupOK(group) /\ GroupOK(log)
      BY <2>1 DEF GroupInv, ServerOK
    <2>4. GroupOK(h)
      BY <2>2, <2>3, ApplySeed
    <2>. QED
      BY <2>2, <2>3, <2>4 DEF OneHolder, GroupOK
  <1>. QED
    BY <1>1, GroupInvariant, PTL

\* If a write that timed out is never committed, what a client consumes or was
\* told to stays with its member until the client has given it up, whichever
\* answers are lost, writes fail, members expire and brokers load the log.
THEOREM ClientsOwnWhatIsHeld ==
    ASSUME WritesSettle
    PROVE  Spec => []OwnedIsHeld
  <1>1. GroupInv => OwnedIsHeld
    <2>1. SUFFICES ASSUME GroupInv PROVE OwnedIsHeld
      OBVIOUS
    <2>2. PICK h : h = apply_seed(log)
      OBVIOUS
    <2>3. GroupOK(log) /\ Agree(log, group)
      BY <2>1 DEF GroupInv, ServerOK
    <2>4. Agree(log, h)
      BY <2>2, <2>3, ApplySeed
    <2>5. \A m \in Clients : ClientHolds(group, client[m], m)
      BY <2>1 DEF GroupInv, ClientsOK
    <2>6. Members(log) = Members(group) /\ \A m : Held(h, m) = Held(group, m)
      BY <2>3, <2>4 DEF Agree, Members, Held
    <2>. QED
      BY <2>2, <2>5, <2>6 DEF OwnedIsHeld, ClientHolds
  <1>. QED
    BY <1>1, GroupInvariant, PTL

=============================================================================
