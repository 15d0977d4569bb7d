--------------------------- MODULE GroupCoordinator ---------------------------
(***************************************************************************)
(* A consumer group between its clients and its log.  The actor of the     *)
(* group handles one heartbeat, leave or timeout at a time, and waits for  *)
(* its records to be committed before it answers.  If they are not, it     *)
(* stops, and the next actor starts from the group as of the last write    *)
(* that succeeded.  A load of the partition builds the group from the log. *)
(***************************************************************************)
EXTENDS ConsumerGroup, FiniteSets

CONSTANTS
    Clients,        \* the member ids
    Statics,        \* the member ids that share the one static instance id
    Topics,
    PerTopic,       \* bound: the partitions a topic may have
    WritesSettle    \* whether a write that timed out is never committed

ASSUME GroupAssumption ==
    /\ Clients # {} /\ Statics \subseteq Clients
    /\ Topics # {} /\ PerTopic \in Nat \ {0}
    /\ WritesSettle \in BOOLEAN

VARIABLES
    group,      \* the group in the actor
    cache,      \* the group as of the last write that succeeded
    log,        \* the group a load of the partition builds
    image,      \* the partitions that exist
    notices,    \* the topics that changed and the actor has not heard of
    client      \* per member id, its client

vars == <<group, cache, log, image, notices, client>>

Partitions == Topics \X (1..PerTopic)

(***************************************************************************)
(* running:  the client is a member or wants to be                         *)
(* topics:   what it subscribes to                                         *)
(* epoch:    the member epoch of the last answer, 0 to join                *)
(* told:     the assignment of the last answer that had one                *)
(* owned:    the partitions it consumes                                    *)
(* report:   "owned" if told changed since owned was sent, "all" if the    *)
(*           client joins or its last request failed                       *)
(***************************************************************************)
NotRunning ==
    [running |-> FALSE, topics |-> {}, epoch |-> 0, told |-> {}, owned |-> {}, report |-> "all"]

Joining(topics) == [NotRunning EXCEPT !.running = TRUE, !.topics = topics]

Init ==
    /\ group = new_group
    /\ cache = new_group /\ log = new_group
    /\ image \in SUBSET Partitions /\ notices = {}
    /\ client = [m \in Clients |-> NotRunning]

------------------------------------------------------------------------------
(* A transition of the group, and its records.                             *)

(***************************************************************************)
(* t.group:     the group after the transition                             *)
(* t.touched, t.computed, t.targets:  see Written                          *)
(***************************************************************************)
NewRecords(l, t) == Written(l, group, t.group, t.touched, t.computed, t.targets)

Commit(t) ==
    /\ group' = t.group
    /\ log' = NewRecords(log, t)
    /\ cache' = NewRecords(cache, t)

\* The write fails.  A write that timed out is in the log and may be committed.
FailCommit(t, committed) ==
    /\ NewRecords(cache, t) # cache
    /\ committed => ~WritesSettle
    /\ group' = apply_seed(cache)
    /\ log' = IF committed THEN NewRecords(log, t) ELSE log
    /\ UNCHANGED cache

------------------------------------------------------------------------------
(* A heartbeat.                                                            *)

\* A client that still has an assignment to take up does not report.
ReportedOwned(m) ==
    IF client[m].report # "none" /\ client[m].owned = client[m].told
    THEN <<client[m].owned>> ELSE <<>>

IsFullRequest(m) == client[m].report = "all" /\ ReportedOwned(m) # <<>>

\* The members that hold the static instance id.
Holders(m) == IF m \in Statics THEN Members(group) \cap Statics ELSE {}

\* Kafka's lookup of the member: new, existing, replaces or refused.
resolve_member(m) ==
    LET epoch    == client[m].epoch
        accepted == /\ m \in Members(group)
                    /\ validate_epoch(group.current[m], epoch, ReportedOwned(m))
    IN  CASE epoch = 0 /\ m \in Statics ->
                 IF Holders(m) = {} THEN "new"
                 ELSE IF \A h \in Holders(m) : group.current[h].epoch = -2
                      THEN "replaces" ELSE "unreleased"
          [] epoch = 0 /\ m \notin Statics \cup Members(group) -> "new"
          [] OTHER -> IF accepted THEN "existing" ELSE "fenced"

\* The group with the member of the heartbeat in it.
Resolved(m) ==
    CASE resolve_member(m) = "new" -> add_member(group, m, client[m].topics)
      [] resolve_member(m) = "replaces" ->
             replace_static_member(group, CHOOSE h \in Holders(m) : TRUE, m)
      [] OTHER -> group

\* The transitions of a heartbeat, one for each target an assignor may return.
\* delayed: the assignment interval since the last target has not passed, which
\* holds back every target but the first.
HeartbeatSteps(m, delayed) ==
    LET start   == Resolved(m)
        changed == resolve_member(m) = "new" \/ start.topics[m] # client[m].topics
        named   == [start EXCEPT !.topics[m] = client[m].topics]
        updated == update_subscription(named, image, changed)
        stale   == target_is_stale(updated) /\ ~(delayed /\ updated.target_epoch > 0)
        touched == {m} \cup (IF resolve_member(m) = "replaces" THEN Holders(m) ELSE {})
        always  == IF resolve_member(m) = "replaces" THEN {m} ELSE {}
        Step(g, targets) ==
            [group |-> reconcile_member(g, m, ReportedOwned(m), changed),
             touched |-> touched, computed |-> stale, targets |-> targets \cup always]
    IN  IF stale
        THEN {Step(install_target(updated, t), ChangedTargets(updated, t)) : t \in assign(updated, image)}
        ELSE {Step(updated, {})}

\* The answer carries the assignment to a client that joins or sends a full
\* request, and if it changed.
Answered(m, t) ==
    LET assigned == t.group.current[m].assigned
        changed  == resolve_member(m) # "existing" \/ group.current[m].assigned # assigned
        included == client[m].epoch = 0 \/ IsFullRequest(m) \/ changed
        told     == IF included THEN assigned ELSE client[m].told
        kept     == IF ReportedOwned(m) = <<>> THEN client[m].report ELSE "none"
    IN  [client[m] EXCEPT !.epoch = t.group.current[m].epoch,
                          !.told = told,
                          !.report = CASE kept # "all" /\ told # client[m].told -> "owned"
                                       [] OTHER -> kept]

Accepted(m) == client[m].running /\ resolve_member(m) \in {"new", "existing", "replaces"}

Heartbeat(m, delayed) ==
    /\ Accepted(m)
    /\ \E t \in HeartbeatSteps(m, delayed) :
           Commit(t) /\ client' = [client EXCEPT ![m] = Answered(m, t)]
    /\ UNCHANGED <<image, notices>>

\* The answer does not arrive: the client sends everything again.
LoseAnswer(m, delayed) ==
    /\ Accepted(m)
    /\ \E t \in HeartbeatSteps(m, delayed) : Commit(t)
    /\ client' = [client EXCEPT ![m].report = "all"]
    /\ UNCHANGED <<image, notices>>

FailHeartbeat(m, delayed, committed) ==
    /\ Accepted(m)
    /\ \E t \in HeartbeatSteps(m, delayed) : FailCommit(t, committed)
    /\ client' = [client EXCEPT ![m].report = "all"]
    /\ UNCHANGED <<image, notices>>

\* A client that is fenced gives up what it owns and joins again.
Rejoin(m) ==
    /\ client[m].running /\ resolve_member(m) = "fenced"
    /\ client' = [client EXCEPT ![m] = Joining(@.topics)]
    /\ UNCHANGED <<group, cache, log, image, notices>>

\* A client that is told that its instance id is in use stops.
GiveUp(m) ==
    /\ client[m].running /\ resolve_member(m) = "unreleased"
    /\ client' = [client EXCEPT ![m] = NotRunning]
    /\ UNCHANGED <<group, cache, log, image, notices>>

------------------------------------------------------------------------------
(* Members that go.                                                        *)

fence_members(m) ==
    [group |-> bump_with_metadata_hash(remove_member(group, m), image),
     touched |-> {m}, computed |-> FALSE, targets |-> {}]

\* A member leaves (-1) after it gave up its partitions.
Leave(m) ==
    /\ client[m].running /\ m \in Members(group)
    /\ Commit(fence_members(m))
    /\ client' = [client EXCEPT ![m] = NotRunning]
    /\ UNCHANGED <<image, notices>>

\* A static member leaves for a while (-2).
Release(m) ==
    /\ client[m].running /\ m \in Members(group) \cap Statics
    /\ Commit([group |-> release_static_member(group, m), touched |-> {m},
               computed |-> FALSE, targets |-> {}])
    /\ client' = [client EXCEPT ![m] = NotRunning]
    /\ UNCHANGED <<image, notices>>

\* The session of a member expires, or it took too long to give up partitions.
Expire(m) ==
    /\ m \in Members(group)
    /\ Commit(fence_members(m))
    /\ UNCHANGED <<image, notices, client>>

FailExpire(m, committed) ==
    /\ m \in Members(group)
    /\ FailCommit(fence_members(m), committed)
    /\ UNCHANGED <<image, notices, client>>

------------------------------------------------------------------------------
(* The partition of the group, and the metadata.                           *)

\* This broker, or another one, loads the partition.
Reload ==
    /\ group' = apply_seed(log) /\ cache' = log
    /\ UNCHANGED <<log, image, notices, client>>

AddPartition(p) ==
    /\ p \notin image
    /\ image' = image \cup {p} /\ notices' = notices \cup {p[1]}
    /\ UNCHANGED <<group, cache, log, client>>

on_metadata_update(topic) ==
    /\ notices' = notices \ {topic}
    /\ group' = [group EXCEPT !.refresh = @ \/ \E m \in Members(group) : topic \in group.topics[m]]
    /\ UNCHANGED <<cache, log, image, client>>

------------------------------------------------------------------------------
(* Clients.                                                                *)

Join(m, topics) ==
    /\ ~client[m].running
    /\ m \in Members(group) => m \in Statics
    /\ client' = [client EXCEPT ![m] = Joining(topics)]
    /\ UNCHANGED <<group, cache, log, image, notices>>

Subscribe(m, topics) ==
    /\ client[m].running /\ client[m].topics # topics
    /\ client' = [client EXCEPT ![m].topics = topics]
    /\ UNCHANGED <<group, cache, log, image, notices>>

\* The client takes up what it was told, and gives up the rest.
Apply(m) ==
    /\ client[m].owned # client[m].told
    /\ client' = [client EXCEPT ![m].owned = client[m].told]
    /\ UNCHANGED <<group, cache, log, image, notices>>

\* The client stops without a word.
Stop(m) ==
    /\ client[m].running
    /\ client' = [client EXCEPT ![m] = NotRunning]
    /\ UNCHANGED <<group, cache, log, image, notices>>

------------------------------------------------------------------------------

Subscriptions == SUBSET Topics \ {{}}

Next ==
    \/ \E m \in Clients :
       \/ \E delayed \in BOOLEAN :
              \/ Heartbeat(m, delayed) \/ LoseAnswer(m, delayed)
              \/ \E committed \in BOOLEAN : FailHeartbeat(m, delayed, committed)
       \/ Rejoin(m) \/ GiveUp(m) \/ Leave(m) \/ Release(m) \/ Apply(m) \/ Stop(m)
       \/ Expire(m) \/ \E committed \in BOOLEAN : FailExpire(m, committed)
       \/ \E topics \in Subscriptions : Join(m, topics) \/ Subscribe(m, topics)
    \/ Reload
    \/ \E p \in Partitions : AddPartition(p)
    \/ \E topic \in notices : on_metadata_update(topic)

Spec == Init /\ [][Next]_vars

\* A running client keeps sending heartbeats and takes up what it is told, the
\* session of one that stopped expires, and the metadata watcher keeps up.
Fairness ==
    /\ \A m \in Clients :
           /\ WF_vars(Heartbeat(m, FALSE) \/ Rejoin(m) \/ GiveUp(m)
                        \/ (~client[m].running /\ Expire(m)))
           /\ WF_vars(Apply(m))
    /\ WF_vars(\E topic \in notices : on_metadata_update(topic))

FairSpec == Spec /\ Fairness

------------------------------------------------------------------------------
(* Properties.                                                             *)

Current ==
    [epoch : -2..group.epoch, prev : -2..group.epoch, state : {"Stable", "Unrevoked", "Unreleased"},
     assigned : SUBSET Partitions, pending : SUBSET Partitions]

\* The epochs of members, target and group are in order, and a member has
\* partitions to give up only while it waits for its client to do so.
TypeOK ==
    /\ group.target_epoch \in 0..group.epoch
    /\ DOMAIN group.current = Members(group)
    /\ \A m \in Members(group) :
           LET c == group.current[m]
           IN  /\ c \in Current
               /\ c.epoch <= group.target_epoch
               /\ c.assigned \cap c.pending = {}
               /\ c.pending # {} => c.state = "Unrevoked"
    /\ Cardinality(Members(group) \cap Statics) <= 1
    /\ image \subseteq Partitions

Held(g, m) == g.current[m].assigned \cup g.current[m].pending

HeldOnce(g) == \A m, n \in Members(g) : m # n => Held(g, m) \cap Held(g, n) = {}

\* No partition is held by two members, in the actor and in what a load of the
\* log would build: "the broker never advertises one partition to two members
\* at once" (reconcile.rs).
OneHolder == HeldOnce(group) /\ HeldOnce(apply_seed(log))

\* What a client consumes, or was told to, is held by its member until the
\* client has given it up: in the actor, and for whoever loads the log next.
OwnedIsHeld ==
    \A m \in Clients :
        LET uses == client[m].owned \cup client[m].told
        IN  /\ m \in Members(group) => uses \subseteq Held(group, m)
            /\ m \in Members(log) => uses \subseteq Held(apply_seed(log), m)

\* "the broker never advertises one partition to two members at once"
\* (consumer_state/reconcile.rs), nor after a write that timed out and "is only
\* repeated" (actor/persistence.rs).
AdvertisedToOne ==
    \A m, n \in Members(group) : m # n => client[m].told \cap client[n].told = {}

\* The next epoch is to compute the targets again: a member that was fenced and
\* came back under its id is given the target that the actor still kept for it,
\* for which it writes no record (ChangedTargets; the records of the old one are
\* gone), so that a load leaves it with none and p with nobody.
TargetLost(p) ==
    /\ ~target_is_stale(group) /\ group.hash = metadata_hash(group, image)
    /\ ~(Members(group) \subseteq DOMAIN group.target)
    /\ \A m \in Members(group) : p \notin TargetOf(group, m) \cup Held(group, m)

\* Every partition of a topic that the group subscribes to is consumed in the
\* end, through lost answers, expired members, failed writes and loads, with
\* one exception: the target of a member that was fenced and came back may be
\* lost in a load or a failed write, and its partitions rest until the next epoch.
EveryPartitionIsConsumed ==
    \A p \in Partitions :
        (p \in metadata_hash(group, image)) ~>
            \/ p \notin metadata_hash(group, image)
            \/ \E m \in Members(group) : p \in client[m].owned
            \/ TargetLost(p)

===============================================================================
