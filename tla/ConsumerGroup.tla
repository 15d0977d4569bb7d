---------------------------- MODULE ConsumerGroup ----------------------------
(***************************************************************************)
(* The state of a next-generation (KIP-848) consumer group, and how it     *)
(* moves a member from the partitions it holds to those of its target.     *)
(*                                                                         *)
(* A partition is <<topic, index>>.  A group is a record of                *)
(*   epoch:         the group epoch                                        *)
(*   hash:          the metadata hash, as the partitions it is taken over  *)
(*   refresh:       the next heartbeat takes the hash again                *)
(*   target_epoch:  the epoch of the target                                *)
(*   target:        per member, the partitions it shall have               *)
(*   topics:        per member, the topics it subscribes to                *)
(*   current:       per member, its current assignment                     *)
(* where the last three are functions over the members that have an entry. *)
(***************************************************************************)
EXTENDS Integers, Functions

\* An empty function.
Nobody == [m \in {} |-> {}]

new_group ==
    [epoch |-> 0, hash |-> {}, refresh |-> TRUE, target_epoch |-> 0,
     target |-> Nobody, topics |-> Nobody, current |-> Nobody]

Members(g) == DOMAIN g.topics

(***************************************************************************)
(* epoch:     the member epoch, -2 for a static member that left for a     *)
(*            while                                                        *)
(* prev:      the epoch before it                                          *)
(* state:     Stable, Unrevoked (it has partitions to give up) or          *)
(*            Unreleased (it waits for partitions of others)               *)
(* assigned:  what the member may use                                      *)
(* pending:   what it must give up and has not                             *)
(***************************************************************************)
new_member ==
    [epoch |-> 0, prev |-> 0, state |-> "Stable", assigned |-> {}, pending |-> {}]

\* f with the entries of g for keys.
Put(f, g, keys) == [k \in DOMAIN f \cup keys |-> IF k \in keys THEN g[k] ELSE f[k]]

Without(f, keys) == Restrict(f, DOMAIN f \ keys)

------------------------------------------------------------------------------
(* Membership.                                                             *)

add_member(g, m, topics) ==
    [g EXCEPT !.topics = Put(@, [k \in {m} |-> topics], {m}),
              !.current = Put(@, [k \in {m} |-> new_member], {m})]

\* The target of a member that goes stays until the next target.
remove_member(g, m) ==
    [g EXCEPT !.topics = Without(@, {m}), !.current = Without(@, {m})]

\* Mutant: the member it takes over from stays.
replace_static_member_keeping(g, previous, m) ==
    LET copy == [g.current[previous] EXCEPT !.epoch = 0, !.prev = 0]
    IN  [g EXCEPT !.topics = Put(@, [k \in {m} |-> @[previous]], {m}),
                  !.current = Put(@, [k \in {m} |-> copy], {m})]

\* The member that takes over a static member that left for a while.
replace_static_member(g, previous, m) ==
    LET Moved(f) == Put(Without(f, {previous}), [k \in {m} |-> f[previous]], {m})
        copy     == [g.current[previous] EXCEPT !.epoch = 0, !.prev = 0]
    IN  [g EXCEPT !.topics = Moved(@),
                  !.current = Put(Without(@, {previous}), [k \in {m} |-> copy], {m}),
                  !.target = IF previous \in DOMAIN @ THEN Moved(@) ELSE @]

release_static_member(g, m) ==
    [g EXCEPT !.current[m].epoch = -2, !.current[m].pending = {}]

------------------------------------------------------------------------------
(* The target.                                                             *)

\* The partitions of the topics the group subscribes to.
metadata_hash(g, image) == {p \in image : \E m \in Members(g) : p[1] \in g.topics[m]}

update_subscription(g, image, bump) ==
    LET hash == metadata_hash(g, image)
    IN  IF bump \/ g.refresh
        THEN [g EXCEPT !.epoch = IF bump \/ hash # g.hash THEN @ + 1 ELSE @,
                       !.hash = hash, !.refresh = FALSE]
        ELSE g

bump_with_metadata_hash(g, image) ==
    [g EXCEPT !.epoch = @ + 1, !.hash = metadata_hash(g, image)]

\* What an assignor may return: every partition goes to one of its subscribers.
assign(g, image) ==
    LET parts == metadata_hash(g, image)
    IN  {[m \in Members(g) |-> {p \in parts : to[p] = m}] :
            to \in {f \in [parts -> Members(g)] : \A p \in parts : p[1] \in g.topics[f[p]]}}

install_target(g, target) == [g EXCEPT !.target = target, !.target_epoch = g.epoch]

\* The members whose target differs from the one they held, or that held none.
ChangedTargets(g, target) ==
    {m \in DOMAIN target : m \notin DOMAIN g.target \/ g.target[m] # target[m]}

target_is_stale(g) == g.epoch > g.target_epoch

------------------------------------------------------------------------------
(* Reconciliation.  owned is what a heartbeat reports: <<partitions>>, or  *)
(* <<>> if it reports nothing.                                             *)

\* Mutant: a member that reports nothing owns nothing.
owns_any_reported(owned, parts) == owned # <<>> /\ owned[1] \cap parts # {}

owns_any(owned, parts) == owned = <<>> \/ owned[1] \cap parts # {}

\* Mutant: what a member must give up is free.
held_by_others_assigned(g, m) == UNION {g.current[o].assigned : o \in Members(g) \ {m}}

held_by_others(g, m) ==
    UNION {g.current[o].assigned \cup g.current[o].pending : o \in Members(g) \ {m}}

TargetOf(g, m) == IF m \in DOMAIN g.target THEN g.target[m] ELSE {}

compute_next_assignment(g, m, owned) ==
    LET c          == g.current[m]
        target     == {p \in TargetOf(g, m) : p[1] \in g.topics[m]}
        kept       == c.assigned \cap target
        to_revoke  == c.assigned \ target
        wanted     == target \ c.assigned
        unreleased == (wanted \cap held_by_others(g, m)) \ c.pending
    IN  IF to_revoke # {} /\ owns_any(owned, to_revoke)
        THEN [c EXCEPT !.prev = c.epoch, !.state = "Unrevoked",
                       !.assigned = kept, !.pending = to_revoke]
        ELSE [epoch |-> g.target_epoch, prev |-> c.epoch,
              state |-> IF unreleased = {} THEN "Stable" ELSE "Unreleased",
              assigned |-> kept \cup (wanted \ unreleased), pending |-> {}]

\* Topics the member no longer subscribes to go at once.
update_current_assignment(g, m, owned) ==
    LET c       == g.current[m]
        removed == {p \in c.assigned : p[1] \notin g.topics[m]}
        pending == c.pending \cup removed
    IN  CASE removed = {} -> c
          [] removed # {} /\ owns_any(owned, pending) ->
                 [c EXCEPT !.prev = c.epoch, !.state = "Unrevoked",
                           !.assigned = @ \ removed, !.pending = pending]
          [] OTHER -> [c EXCEPT !.prev = c.epoch, !.assigned = @ \ removed]

\* changed: the heartbeat changed the subscription of the member.
reconcile_member(g, m, owned, changed) ==
    LET c    == g.current[m]
        next == CASE c.state = "Stable" /\ c.epoch # g.target_epoch ->
                         compute_next_assignment(g, m, owned)
                  [] \/ c.state = "Stable" /\ c.epoch = g.target_epoch
                     \/ c.state = "Unrevoked" /\ owns_any(owned, c.pending) ->
                         IF changed THEN update_current_assignment(g, m, owned) ELSE c
                  [] OTHER -> compute_next_assignment(g, m, owned)
    IN  [g EXCEPT !.current[m] = next]

------------------------------------------------------------------------------
(* Who a heartbeat comes from.                                             *)

\* An epoch the member left is taken if its answer may have been lost.
validate_epoch(c, epoch, owned) ==
    \/ epoch \in {0, c.epoch}
    \/ epoch < c.epoch /\ epoch = c.prev /\ owned # <<>> /\ owned[1] \subseteq c.assigned

------------------------------------------------------------------------------
(* The log.                                                                *)

(***************************************************************************)
(* The group that replaying the log builds has a record only where a       *)
(* transition changed something: of the members it touched, and of the     *)
(* target records it asked for.                                            *)
(*   log:       the group that the log built before the transition         *)
(*   touched:   the members the transition may have changed                *)
(*   computed:  it computed a target                                       *)
(*   targets:   the members whose target it writes                         *)
(***************************************************************************)
Written(log, before, after, touched, computed, targets) ==
    LET gone       == (touched \cap Members(before)) \ Members(after)
        stays      == touched \cap Members(after)
        Moved(f,h) == {m \in stays : m \notin Members(before) \/ f[m] # h[m]}
        bumped     == after.epoch # before.epoch
    IN  [log EXCEPT
            !.epoch  = IF bumped THEN after.epoch ELSE @,
            !.hash   = IF bumped THEN after.hash ELSE @,
            !.target_epoch = IF computed THEN after.target_epoch ELSE @,
            !.topics  = Put(Without(@, gone), after.topics, Moved(before.topics, after.topics)),
            !.current = Put(Without(@, gone), after.current, Moved(before.current, after.current)),
            !.target  = Put(Without(@, gone), [m \in targets |-> TargetOf(after, m)], targets)]

\* Mutant: a loaded group waits for a change of the metadata.
apply_seed_unrefreshed(log) ==
    [log EXCEPT !.refresh = FALSE,
                !.current = [m \in Members(log) |->
                                IF m \in DOMAIN @ THEN @[m] ELSE new_member]]

\* A load takes the members of the log, and takes the metadata hash again.
apply_seed(log) ==
    [log EXCEPT !.refresh = TRUE,
                !.current = [m \in Members(log) |->
                                IF m \in DOMAIN @ THEN @[m] ELSE new_member]]

=============================================================================
