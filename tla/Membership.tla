------------------------------ MODULE Membership ------------------------------
(***************************************************************************)
(* Who is in the cluster: the phi accrual failure detector                 *)
(* (failure_detector.rs) and the membership bookkeeping that Chitchat does *)
(* around it (lib.rs: report_heartbeat, update_nodes_liveness).            *)
(*                                                                         *)
(* What a node records of one peer never depends on what it records of     *)
(* another, so one peer is followed, the subject, through the eyes of a    *)
(* set of observers.  The subject may crash.  It does not come back: the   *)
(* igniter restarts under a fresh ChitchatId, which is another subject.    *)
(* Of the datagrams only what they say of the subject is kept: its entry   *)
(* in the digest and whether the delta mentions it.                        *)
(*                                                                         *)
(* A tick is the unit of time.  The interval timer of the server task runs *)
(* at least one gossip round of every observer in each tick.               *)
(*                                                                         *)
(* phi is the time since the last heartbeat over a mean of past intervals. *)
(* Its value is abstracted: while the heartbeats were AliveFor ticks apart *)
(* or less the verdict is "alive", after DeadAfter ticks it is "dead", and *)
(* in between it depends on the mean, so that either may come out.         *)
(***************************************************************************)
EXTENDS Integers, FiniteSets

CONSTANTS
    Observer,       \* the nodes that watch the subject
    Subject,        \* the node that is watched
    Contents,       \* what the datagrams in use say of the subject
    GracePeriod,    \* dead_node_grace_period, in ticks
    MaxInterval,    \* max_interval: longer intervals are not sampled
    AliveFor,       \* phi is below its threshold for this long
    DeadAfter,      \* phi is above its threshold after this long
    MaxHeartbeat,   \* bound on the subject's heartbeat counter
    MaxDelay,       \* a datagram is delivered within this many ticks, or never
    MaxInFlight     \* bound on the number of datagrams in flight

ASSUME ObserverAssumption == IsFiniteSet(Observer) /\ Subject \notin Observer
ASSUME ContentsAssumption ==
    Contents \subseteq [digest: BOOLEAN, delta: {"none", "update", "reset"}]
ASSUME TimeAssumption ==
    /\ {GracePeriod, MaxInterval, AliveFor, DeadAfter, MaxHeartbeat} \subseteq Nat \ {0}
    /\ AliveFor <= DeadAfter
    /\ MaxDelay \in Nat /\ MaxInFlight \in Nat

VARIABLES
    running,        \* the subject has not crashed
    heartbeat,      \* the subject's own heartbeat counter
    view,           \* view[o]: what o records of the subject
    ran,            \* observers that had a gossip round in this tick
    network         \* datagrams in flight that say something of the subject

vars == <<running, heartbeat, view, ran, network>>

\* Longer than every interval that makes a difference; also the silence of a
\* window that has no last_heartbeat yet.
Forever == MaxInterval + DeadAfter + 1

\* time_of_death is kept as an age, which goes on counting for the properties
\* after the node is forgotten.
Ancient == 2 * GracePeriod

Views == [known: BOOLEAN,               \* cluster_state has a NodeState for it
          heartbeat: 0..MaxHeartbeat,   \* the heartbeat of that NodeState
          sampled: BOOLEAN,             \* the sampling window holds intervals
          silence: 0..Forever,          \* ticks since its last_heartbeat
          live: BOOLEAN,                \* in live_nodes
          dead: BOOLEAN,                \* in dead_nodes
          age: 0..Ancient,              \* ticks since the time of death
          watched: BOOLEAN,             \* in the set last sent to the watchers
          \* For the properties only: how many growing heartbeats have come in
          \* a row, the ticks since the last one, and whether the subject has
          \* been forgotten before.
          heard: 0..3,
          since: 0..Forever,
          gone: BOOLEAN]

Messages == [src: Observer \cup {Subject}, dst: Observer, ttl: 0..MaxDelay,
             heartbeat: 0..MaxHeartbeat, content: Contents]

\* Every variable has the shape of the Rust fields it stands for, and no record
\* of the subject's heartbeat is ahead of the subject.
TypeOK ==
    /\ running \in BOOLEAN
    /\ heartbeat \in 0..MaxHeartbeat
    /\ view \in [Observer -> Views]
    /\ ran \subseteq Observer
    /\ network \subseteq Messages
    /\ \A o \in Observer : view[o].heartbeat <= heartbeat
    /\ \A m \in network : m.heartbeat <= heartbeat

Unknown == [known |-> FALSE, heartbeat |-> 0, sampled |-> FALSE, silence |-> Forever,
            live |-> FALSE, dead |-> FALSE, age |-> 0, watched |-> FALSE,
            heard |-> 0, since |-> Forever, gone |-> FALSE]

\* Chitchat::with_chitchat_id_and_seeds counts one heartbeat of its own.
Init ==
    /\ running = TRUE
    /\ heartbeat = 1
    /\ view = [o \in Observer |-> Unknown]
    /\ ran = {}
    /\ network = {}

-----------------------------------------------------------------------------
(* The failure detector, on the record of one observer *)

\* SamplingWindow::report_heartbeat.
ReportHeartbeat(v) ==
    [v EXCEPT !.sampled = @ \/ v.silence <= MaxInterval,
              !.silence = 0,
              !.since = 0,
              !.heard = IF @ >= 2 /\ v.since > MaxInterval THEN 2 ELSE IF @ = 3 THEN 3 ELSE @ + 1]

\* Faulty variant: a heartbeat that is merely repeated counts as an update.
TrySetRepeatedHeartbeat(v, h) ==
    IF v.heartbeat = 0
    THEN [v EXCEPT !.known = TRUE, !.heartbeat = h, !.heard = IF h = 0 THEN 0 ELSE 1]
    ELSE IF h >= v.heartbeat THEN ReportHeartbeat([v EXCEPT !.heartbeat = h]) ELSE v

\* report_heartbeat: the state is created if need be; the first heartbeat it
\* gets is not an update.
TrySetHeartbeat(v, h) ==
    IF v.heartbeat = 0
    THEN [v EXCEPT !.known = TRUE, !.heartbeat = h, !.heard = IF h = 0 THEN 0 ELSE 1]
    ELSE IF h > v.heartbeat THEN ReportHeartbeat([v EXCEPT !.heartbeat = h]) ELSE v

\* A delta creates the state, too; one that resets it starts from heartbeat 0.
ApplyDelta(v, delta) ==
    IF delta = "reset" THEN [v EXCEPT !.known = TRUE, !.heartbeat = 0, !.heard = 0]
    ELSE [v EXCEPT !.known = @ \/ delta = "update"]

\* The verdicts that phi allows.  A window without intervals has no phi, which
\* counts as dead.
Verdicts(v) ==
    {alive \in BOOLEAN :
        /\ alive => v.sampled /\ v.silence <= DeadAfter
        /\ ~alive => ~v.sampled \/ v.silence > AliveFor}

\* Faulty variant: the whole window starts over when a node is found dead.
UpdateForgettingLastHeartbeat(v, alive) ==
    IF alive THEN [v EXCEPT !.live = TRUE, !.dead = FALSE]
    ELSE [v EXCEPT !.live = FALSE, !.dead = TRUE, !.sampled = FALSE, !.silence = Forever,
                   !.age = IF v.dead THEN @ ELSE 0]

\* update_node_liveness.  The window loses its intervals when the node is
\* found dead, not its last_heartbeat.
UpdateNodeLiveness(v, alive) ==
    IF alive THEN [v EXCEPT !.live = TRUE, !.dead = FALSE]
    ELSE [v EXCEPT !.live = FALSE, !.dead = TRUE, !.sampled = FALSE,
                   !.age = IF v.dead THEN @ ELSE 0]

\* Faulty variant: dead nodes are shared for as long as they are known.
NeverScheduledForDeletion(v) == v.dead /\ v.age > GracePeriod

ScheduledForDeletion(v) == v.dead /\ 2 * v.age > GracePeriod

\* Faulty variant: the time of death outlives the node state.
CollectKeepingDeath(v) ==
    IF v.dead /\ v.age >= GracePeriod
    THEN [Unknown EXCEPT !.live = v.live, !.dead = TRUE, !.age = v.age, !.watched = v.watched,
                         !.gone = TRUE]
    ELSE v

\* Faulty variant: nodes are collected as soon as they are no longer shared.
CollectAtHalf(v) ==
    IF v.dead /\ 2 * v.age >= GracePeriod
    THEN [Unknown EXCEPT !.live = v.live, !.age = v.age, !.watched = v.watched, !.gone = TRUE]
    ELSE v

\* garbage_collect, and remove_node on the cluster state.
GarbageCollect(v) ==
    IF v.dead /\ v.age >= GracePeriod
    THEN [Unknown EXCEPT !.live = v.live, !.age = v.age, !.watched = v.watched, !.gone = TRUE]
    ELSE v

-----------------------------------------------------------------------------
(* The subject *)

\* update_self_heartbeat, on every gossip round and every message it handles.
Beat ==
    /\ running
    /\ heartbeat < MaxHeartbeat
    /\ heartbeat' = heartbeat + 1
    /\ UNCHANGED <<running, view, ran, network>>

Crash ==
    /\ running
    /\ running' = FALSE
    /\ UNCHANGED <<heartbeat, view, ran, network>>

-----------------------------------------------------------------------------
(* Gossip *)

Send(messages) ==
    /\ Cardinality(messages) <= MaxInFlight
    /\ network' = messages

\* Faulty variant: the digest announces the heartbeat that comes next.
SubjectGossipsAhead(o, content) ==
    /\ running
    /\ Send(network \cup {[src |-> Subject, dst |-> o, ttl |-> MaxDelay,
                           heartbeat |-> heartbeat + 1, content |-> content]})
    /\ UNCHANGED <<running, heartbeat, view, ran>>

\* The subject gossips about itself.
SubjectGossips(o, content) ==
    /\ running
    /\ Send(network \cup {[src |-> Subject, dst |-> o, ttl |-> MaxDelay,
                           heartbeat |-> heartbeat, content |-> content]})
    /\ UNCHANGED <<running, heartbeat, view, ran>>

\* An observer passes on what it knows, unless the subject is scheduled for
\* deletion: then neither its digests nor its deltas mention it.
Gossip(o, p, content) ==
    /\ o # p
    /\ view[o].known /\ ~ScheduledForDeletion(view[o])
    /\ Send(network \cup {[src |-> o, dst |-> p, ttl |-> MaxDelay,
                           heartbeat |-> view[o].heartbeat, content |-> content]})
    /\ UNCHANGED <<running, heartbeat, view, ran>>

\* process_message: the heartbeats of the digest are reported, then the delta
\* is applied.
Receive(m, duplicated) ==
    LET v == view[m.dst]
        reported == IF m.content.digest THEN TrySetHeartbeat(v, m.heartbeat) ELSE v
    IN  /\ view' = [view EXCEPT ![m.dst] = ApplyDelta(reported, m.content.delta)]
        /\ network' = IF duplicated THEN network ELSE network \ {m}
        /\ UNCHANGED <<running, heartbeat, ran>>

Lose(m) ==
    /\ network' = network \ {m}
    /\ UNCHANGED <<running, heartbeat, view, ran>>

\* The end of a gossip round: update_nodes_liveness judges the nodes that have
\* a state, tells the watchers which of them are live, and forgets the nodes
\* that have been dead for the whole grace period.
UpdateNodesLiveness(o) ==
    LET v == view[o]
        Watched(u) == [u EXCEPT !.watched = u.live /\ u.known]
    IN  /\ \E judged \in IF v.known THEN {UpdateNodeLiveness(v, alive) : alive \in Verdicts(v)}
                                    ELSE {v} :
              view' = [view EXCEPT ![o] = GarbageCollect(Watched(judged))]
        /\ ran' = ran \cup {o}
        /\ UNCHANGED <<running, heartbeat, network>>

Later(n, bound) == IF n < bound THEN n + 1 ELSE n

\* Time passes, once every observer has had a round.
Tick ==
    /\ ran = Observer
    /\ ran' = {}
    /\ view' = [o \in Observer |->
                   [view[o] EXCEPT !.silence = Later(@, Forever),
                                   !.since = Later(@, Forever),
                                   !.age = IF view[o].dead \/ view[o].gone
                                           THEN Later(@, Ancient) ELSE @]]
    /\ network' = {[m EXCEPT !.ttl = @ - 1] : m \in {d \in network : d.ttl > 0}}
    /\ UNCHANGED <<running, heartbeat>>

Next ==
    \/ Beat
    \/ Crash
    \/ \E o \in Observer, content \in Contents : SubjectGossips(o, content)
    \/ \E o, p \in Observer, content \in Contents : Gossip(o, p, content)
    \/ \E m \in network, duplicated \in BOOLEAN : Receive(m, duplicated)
    \/ \E m \in network : Lose(m)
    \/ \E o \in Observer : UpdateNodesLiveness(o)
    \/ Tick

Spec == Init /\ [][Next]_vars

\* The interval timers keep firing, and every observer keeps hearing from the
\* others as long as they send.
Fairness ==
    /\ WF_vars(Tick)
    /\ \A o \in Observer : /\ WF_vars(o \notin ran /\ UpdateNodesLiveness(o))
                           /\ SF_vars(\E m \in network : m.dst = o /\ Receive(m, FALSE))

FairSpec == Spec /\ Fairness

-----------------------------------------------------------------------------
(* Safety *)

\* live_nodes, dead_nodes and the node states agree, and the watchers were told
\* of exactly the live nodes: a forgotten node leaves nothing behind, and the
\* warning "node state for ... is absent" is never logged.
ListsAgree ==
    \A o \in Observer :
        LET v == view[o]
        IN  /\ v.live \/ v.dead => v.known
            /\ ~(v.live /\ v.dead)
            /\ v.watched = v.live

\* Three growing heartbeats, the last two of them at most max_interval apart,
\* make a node live after the next round and for as long as phi allows, whatever
\* it was before: unknown, dead, scheduled for deletion or just forgotten.  Two
\* ticks after a heartbeat a round must have followed it.
HeardIsLive ==
    \A o \in Observer :
        view[o].heard = 3 /\ view[o].since \in 2..AliveFor => view[o].live

\* What a node itself said of the subject is no longer in flight by the time it
\* forgets it: its own words do not come back to it through its peers' replies
\* before they have stopped repeating them (MaxDelay is below half the grace
\* period).
NoEcho ==
    \A o \in Observer, m \in network : m.src = o => ~view[o].gone \/ view[o].known

\* Nothing more will be heard from the subject itself.
Silent == ~running /\ \A m \in network : m.src # Subject

\* Once the subject has crashed and its last datagrams have arrived or are lost,
\* a node that has forgotten it learns of it again only from an observer that
\* noticed the death too late: by at least half of the grace period, less the
\* delay of a datagram.  This is the tolerance that the
\* two thresholds, half the period and all of it, are meant to provide.
RelearnedFromLateObserver ==
    [][\A o \in Observer :
          Silent /\ view[o].gone /\ ~view[o].known /\ view'[o].known =>
              \E p \in Observer \ {o} :
                 \/ view[p].known /\ ~view[p].dead
                 \/ 2 * (view[o].age - view[p].age) >= GracePeriod - 2 * MaxDelay]_vars

-----------------------------------------------------------------------------
(* Liveness *)

\* A crash is noticed: from some point on no observer counts a crashed subject
\* among the live nodes again.
CrashDetected ==
    <>[](~running => \A o \in Observer : ~view[o].live)

\* A crashed subject is eventually forgotten by everyone for good.
ForgottenForGood ==
    <>[](~running => \A o \in Observer : ~view[o].known)

=============================================================================
