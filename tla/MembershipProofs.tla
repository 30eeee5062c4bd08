--------------------------- MODULE MembershipProofs ---------------------------
(***************************************************************************)
(* Proofs about Membership, for every set of observers, every grace period *)
(* and every bound: the safety properties and the action property that the *)
(* runs check, from one inductive invariant.                               *)
(***************************************************************************)
EXTENDS Membership, TLAPS

-----------------------------------------------------------------------------
(* The inductive invariant *)

\* What is true of the record that an observer keeps: the two clocks of its
\* window never part, heartbeats and the record of them come and go together,
\* and a node that was forgotten had been dead for the whole grace period.
RecordSound(v) ==
    /\ v.silence = v.since
    /\ v.heard = 0 <=> v.heartbeat = 0
    /\ v.heard > 0 => v.known
    /\ v.gone /\ ~v.known => v.age >= GracePeriod

\* What three growing heartbeats lead to, before HeardIsLive can see it: the
\* window keeps an interval for as long as phi is low, and the first round that
\* runs a tick after the last of them finds the node alive.
WindowSound(v, judged) ==
    v.heard = 3 /\ v.since <= AliveFor =>
        /\ v.sampled
        /\ v.since >= 2 \/ (v.since = 1 /\ judged) => v.live

\* A datagram in flight was sent by a node that knew of the subject, to another
\* one.  A sender that has found the subject dead did so at most half a grace
\* period and the time already spent in flight ago.
DatagramSound(m) ==
    m.src \in Observer =>
        LET v == view[m.src]
        IN  /\ m.src # m.dst
            /\ v.known \/ v.gone
            /\ v.dead \/ ~v.known => 2 * (v.age + m.ttl) <= GracePeriod + 2 * MaxDelay

MembershipInv ==
    /\ TypeOK
    /\ ListsAgree
    /\ \A o \in Observer : RecordSound(view[o]) /\ WindowSound(view[o], o \in ran)
    /\ \A m \in network : DatagramSound(m)

-----------------------------------------------------------------------------
(* What the operators on one record do *)

\* The bounds of the clocks.
LEMMA Bounds ==
    /\ Forever \in Nat /\ Ancient \in Nat
    /\ GracePeriod \in Nat /\ MaxInterval \in Nat /\ AliveFor \in Nat /\ DeadAfter \in Nat
    /\ MaxHeartbeat \in Nat /\ MaxDelay \in Nat
    /\ AliveFor <= DeadAfter /\ MaxHeartbeat > 0 /\ GracePeriod > 0
    /\ AliveFor < Forever /\ MaxInterval < Forever /\ GracePeriod <= Ancient
BY TimeAssumption DEF Forever, Ancient

\* The fields of a record can be changed one after the other.
LEMMA ChangeFields ==
    ASSUME NEW v \in Views, NEW known \in BOOLEAN, NEW h \in 0..MaxHeartbeat,
           NEW silence \in 0..Forever, NEW since \in 0..Forever
    PROVE  /\ [v EXCEPT !.known = known, !.heartbeat = h] \in Views
           /\ [v EXCEPT !.silence = silence, !.since = since] \in Views
BY DEF Views

\* A digest entry leaves the lists and the time of death alone and keeps the
\* record sound (TrySetHeartbeat, report_heartbeat).
LEMMA TrySetHeartbeatFacts ==
    ASSUME NEW v \in Views, NEW h \in 0..MaxHeartbeat, RecordSound(v)
    PROVE  LET r == TrySetHeartbeat(v, h)
           IN  /\ r \in Views
               /\ r.live = v.live /\ r.dead = v.dead /\ r.watched = v.watched
               /\ r.age = v.age /\ r.gone = v.gone
               /\ v.known => r.known
               /\ r.heartbeat \in {v.heartbeat, h}
               /\ RecordSound(r)
               /\ \A judged \in BOOLEAN : WindowSound(v, judged) => WindowSound(r, judged)
<1> DEFINE r == TrySetHeartbeat(v, h)
<1> USE Bounds
<1>1. CASE v.heartbeat = 0
  <2>1. r = [v EXCEPT !.known = TRUE, !.heartbeat = h, !.heard = IF h = 0 THEN 0 ELSE 1]
    BY <1>1 DEF TrySetHeartbeat
  <2> DEFINE u == [v EXCEPT !.known = TRUE, !.heartbeat = h]
  <2>4. u \in Views
    BY DEF Views
  <2>5. r = [u EXCEPT !.heard = IF h = 0 THEN 0 ELSE 1]
    BY <2>1
  <2> HIDE DEF u, r
  <2>2. r \in Views
    BY <2>4, <2>5 DEF Views
  <2>3. /\ r.live = v.live /\ r.dead = v.dead /\ r.watched = v.watched
        /\ r.age = v.age /\ r.gone = v.gone
        /\ r.known = TRUE /\ r.heartbeat = h /\ r.heard = (IF h = 0 THEN 0 ELSE 1)
        /\ r.silence = v.silence /\ r.since = v.since
    BY <2>1 DEF Views
  <2> QED
    BY <2>2, <2>3 DEF r, RecordSound, WindowSound
<1>2. CASE v.heartbeat # 0 /\ h > v.heartbeat
  <2> DEFINE heard == IF v.heard >= 2 /\ v.since > MaxInterval THEN 2
                      ELSE IF v.heard = 3 THEN 3 ELSE v.heard + 1
             sampled == v.sampled \/ v.silence <= MaxInterval
  <2>0. heard \in 0..3 /\ sampled \in BOOLEAN
    BY DEF Views
  <2>1. r = [v EXCEPT !.heartbeat = h, !.sampled = sampled, !.silence = 0,
                      !.since = 0, !.heard = heard]
    BY <1>2 DEF TrySetHeartbeat, ReportHeartbeat, Views
  <2> HIDE DEF heard, sampled
  <2> DEFINE u == [v EXCEPT !.heartbeat = h, !.heard = heard]
             w == [u EXCEPT !.silence = 0, !.since = 0]
  <2>5. u \in Views
    BY <2>0 DEF Views
  <2>6. r = [w EXCEPT !.sampled = sampled]
    BY <2>1 DEF Views
  <2> HIDE DEF u
  <2>8. w \in Views
    <3>1. 0 \in 0..MaxHeartbeat /\ 0 \in 0..Forever /\ TRUE \in BOOLEAN
      OBVIOUS
    <3> QED
      BY <2>5, <3>1, ChangeFields, Zenon
  <2> HIDE DEF w, r
  <2>7. r \in Views
    BY <2>0, <2>8, <2>6 DEF Views
  <2> USE DEF u, w
  <2>2. /\ r.live = v.live /\ r.dead = v.dead /\ r.watched = v.watched
        /\ r.age = v.age /\ r.gone = v.gone /\ r.known = v.known
        /\ r.heartbeat = h /\ r.heard = heard /\ r.sampled = sampled
        /\ r.silence = 0 /\ r.since = 0
    BY <2>0, <2>1 DEF Views
  <2>3. v.heard \in 1..3 /\ v.since \in Nat /\ heard > 0 /\ v.known
    BY <1>2, <2>0 DEF RecordSound, Views, heard
  <2>4. heard = 3 => sampled
    BY <2>3 DEF RecordSound, heard, sampled
  <2>9. RecordSound(r)
    <3>1. v.heartbeat \in Nat /\ h # 0
      BY <1>2 DEF Views
    <3> QED
      BY <2>0, <2>2, <2>3, <3>1 DEF RecordSound
  <2>10. \A judged \in BOOLEAN : WindowSound(r, judged)
    BY <2>2, <2>4 DEF WindowSound
  <2> QED
    BY <2>2, <2>7, <2>9, <2>10 DEF r
<1>3. CASE v.heartbeat # 0 /\ ~(h > v.heartbeat)
  BY <1>3 DEF TrySetHeartbeat
<1> QED
  BY <1>1, <1>2, <1>3 DEF Views

\* So does a delta that mentions the node.
LEMMA ApplyDeltaFacts ==
    ASSUME NEW v \in Views, NEW delta \in {"none", "update", "reset"}, RecordSound(v)
    PROVE  LET r == ApplyDelta(v, delta)
           IN  /\ r \in Views
               /\ r.live = v.live /\ r.dead = v.dead /\ r.watched = v.watched
               /\ r.age = v.age /\ r.gone = v.gone
               /\ v.known => r.known
               /\ r.heartbeat \in {v.heartbeat, 0}
               /\ RecordSound(r)
               /\ \A judged \in BOOLEAN : WindowSound(v, judged) => WindowSound(r, judged)
<1> DEFINE r == ApplyDelta(v, delta)
<1> USE Bounds
<1>1. CASE delta = "reset"
  <2>1. r = [v EXCEPT !.known = TRUE, !.heartbeat = 0, !.heard = 0]
    BY <1>1 DEF ApplyDelta
  <2> DEFINE u == [v EXCEPT !.known = TRUE, !.heartbeat = 0]
  <2>4. u \in Views
    <3>1. 0 \in 0..MaxHeartbeat /\ 0 \in 0..Forever /\ TRUE \in BOOLEAN
      OBVIOUS
    <3> QED
      BY <3>1, ChangeFields, Zenon
  <2>5. r = [u EXCEPT !.heard = 0]
    BY <2>1
  <2> HIDE DEF u, r
  <2>2. r \in Views
    BY <2>4, <2>5 DEF Views
  <2>3. /\ r.live = v.live /\ r.dead = v.dead /\ r.watched = v.watched
        /\ r.age = v.age /\ r.gone = v.gone
        /\ r.known = TRUE /\ r.heartbeat = 0 /\ r.heard = 0
        /\ r.silence = v.silence /\ r.since = v.since
    BY <2>1 DEF Views
  <2> QED
    BY <2>2, <2>3 DEF r, RecordSound, WindowSound
<1>2. CASE delta # "reset"
  <2> DEFINE known == v.known \/ delta = "update"
  <2>1. r = [v EXCEPT !.known = known]
    BY <1>2 DEF ApplyDelta
  <2>2. known \in BOOLEAN /\ (v.known => known)
    OBVIOUS
  <2> HIDE DEF known
  <2>3. /\ r \in Views
        /\ r.live = v.live /\ r.dead = v.dead /\ r.watched = v.watched
        /\ r.age = v.age /\ r.gone = v.gone
        /\ r.known = known /\ r.heartbeat = v.heartbeat /\ r.heard = v.heard
        /\ r.silence = v.silence /\ r.since = v.since /\ r.sampled = v.sampled
    BY <2>1, <2>2 DEF Views
  <2> QED
    BY <2>2, <2>3 DEF RecordSound, WindowSound
<1> QED
  BY <1>1, <1>2

\* live_nodes, dead_nodes and the watchers agree on one record.
ListsSound(v) ==
    /\ v.live \/ v.dead => v.known
    /\ ~(v.live /\ v.dead)
    /\ v.watched = v.live

\* The record that the end of a gossip round leaves behind: the lists agree, a
\* node heard of in time is live, and a node that was just found dead, or is no
\* longer known, has been dead for as long as before or has just died.
RoundSound(v, r) ==
    /\ r \in Views
    /\ ListsSound(r)
    /\ RecordSound(r)
    /\ r.heartbeat \in {v.heartbeat, 0}
    /\ WindowSound(v, FALSE) => WindowSound(r, TRUE)
    /\ v.known \/ v.gone => r.known \/ r.gone
    /\ r.dead \/ ~r.known => r.age = 0 \/ (r.age = v.age /\ (v.dead \/ ~v.known))

\* A node without a state is not judged and nothing changes for it.
LEMMA UnknownRound ==
    ASSUME NEW v \in Views, RecordSound(v), ListsSound(v), ~v.known
    PROVE  RoundSound(v, GarbageCollect([v EXCEPT !.watched = v.live /\ v.known]))
<1>1. ~v.live /\ ~v.dead /\ v.watched = FALSE /\ (v.live /\ v.known) = FALSE /\ v.heard \in 0..3
  BY DEF ListsSound, Views
<1>2. [v EXCEPT !.watched = FALSE] = v
  BY <1>1 DEF Views
<1>3. GarbageCollect([v EXCEPT !.watched = v.live /\ v.known]) = v
  BY <1>1, <1>2 DEF GarbageCollect
<1>4. v.heard # 3
  BY <1>1 DEF RecordSound
<1> QED
  BY <1>1, <1>3, <1>4 DEF RoundSound, WindowSound

\* A node that is found alive moves to the live nodes and is never forgotten.
LEMMA AliveRound ==
    ASSUME NEW v \in Views, RecordSound(v), ListsSound(v), v.known, TRUE \in Verdicts(v)
    PROVE  LET j == UpdateNodeLiveness(v, TRUE)
           IN  RoundSound(v, GarbageCollect([j EXCEPT !.watched = j.live /\ j.known]))
<1> DEFINE j == UpdateNodeLiveness(v, TRUE)
           r == [j EXCEPT !.watched = TRUE]
<1>1. j = [v EXCEPT !.live = TRUE, !.dead = FALSE]
  BY DEF UpdateNodeLiveness
<1>2. j \in Views
  BY <1>1 DEF Views
<1>3. j.live = TRUE /\ j.dead = FALSE /\ j.known = TRUE
  BY <1>1 DEF Views
<1>4. GarbageCollect([j EXCEPT !.watched = j.live /\ j.known]) = r
  <2>1. [j EXCEPT !.watched = j.live /\ j.known] = r /\ r.dead = FALSE
    BY <1>2, <1>3 DEF Views
  <2> QED
    BY <2>1 DEF GarbageCollect
<1>5. /\ r \in Views /\ r.live = TRUE /\ r.dead = FALSE /\ r.known = TRUE /\ r.watched = TRUE
  BY <1>2, <1>3 DEF Views
<1>6. /\ r.silence = v.silence /\ r.since = v.since /\ r.heard = v.heard
      /\ r.sampled = v.sampled /\ r.heartbeat = v.heartbeat /\ r.gone = v.gone
  BY <1>1, <1>2 DEF Views
<1>7. ListsSound(r) /\ RecordSound(r)
  BY <1>5, <1>6 DEF ListsSound, RecordSound
<1>8. WindowSound(v, FALSE) => WindowSound(r, TRUE)
  BY <1>5, <1>6 DEF WindowSound
<1> QED
  BY <1>4, <1>5, <1>6, <1>7, <1>8 DEF RoundSound

\* The record of a node that was never heard of.
LEMMA UnknownIsView == Unknown \in Views
BY Bounds DEF Unknown, Views

\* A node that is found dead loses its intervals, so phi was not low; it is
\* forgotten in the same round if it has been dead for the grace period.
LEMMA DeadRound ==
    ASSUME NEW v \in Views, RecordSound(v), ListsSound(v), v.known, FALSE \in Verdicts(v)
    PROVE  LET j == UpdateNodeLiveness(v, FALSE)
           IN  RoundSound(v, GarbageCollect([j EXCEPT !.watched = j.live /\ j.known]))
<1> DEFINE j == UpdateNodeLiveness(v, FALSE)
           age == IF v.dead THEN v.age ELSE 0
           u == [v EXCEPT !.live = FALSE, !.dead = TRUE]
           w == [u EXCEPT !.sampled = FALSE, !.age = age]
           d == [w EXCEPT !.watched = FALSE]
<1> USE Bounds
<1>1. u \in Views
  BY DEF Views
<1>2. age \in 0..Ancient
  BY DEF Views
<1>3. w \in Views
  <2> HIDE DEF u, age
  <2> QED
    BY <1>1, <1>2 DEF Views
<1>4. j = w
  <2>1. j = [v EXCEPT !.live = FALSE, !.dead = TRUE, !.sampled = FALSE, !.age = age]
    BY DEF UpdateNodeLiveness, Views
  <2> HIDE DEF age, j
  <2> QED
    BY <2>1
<1>5. /\ w.live = FALSE /\ w.dead = TRUE /\ w.known = TRUE /\ w.sampled = FALSE /\ w.age = age
      /\ w.silence = v.silence /\ w.since = v.since /\ w.heard = v.heard
      /\ w.heartbeat = v.heartbeat /\ w.gone = v.gone
  <2> HIDE DEF age
  <2> QED
    BY DEF Views
<1> HIDE DEF w, j, age
<1>6. d \in Views
  BY <1>3 DEF Views
<1>7. /\ d.live = FALSE /\ d.dead = TRUE /\ d.known = TRUE /\ d.watched = FALSE
      /\ d.sampled = FALSE /\ d.age = age
      /\ d.silence = v.silence /\ d.since = v.since /\ d.heard = v.heard
      /\ d.heartbeat = v.heartbeat /\ d.gone = v.gone
  BY <1>3, <1>5 DEF Views
<1>8. [j EXCEPT !.watched = j.live /\ j.known] = d
  BY <1>4, <1>5
<1>9. v.heard = 3 /\ v.since <= AliveFor => ~v.sampled
  BY DEF Verdicts, RecordSound, Views
<1>10. CASE age >= GracePeriod
  <2> DEFINE t == [Unknown EXCEPT !.live = FALSE, !.age = age]
             r == [t EXCEPT !.watched = FALSE, !.gone = TRUE]
  <2>1. GarbageCollect(d) = r
    BY <1>7, <1>10 DEF GarbageCollect
  <2>2. t \in Views
    BY <1>2, UnknownIsView DEF Views
  <2>4. /\ r.known = FALSE /\ r.live = FALSE /\ r.dead = FALSE /\ r.watched = FALSE
        /\ r.heard = 0 /\ r.heartbeat = 0 /\ r.age = age /\ r.gone = TRUE /\ r.since = r.silence
    BY DEF Unknown
  <2> HIDE DEF t
  <2>3. r \in Views
    BY <2>2 DEF Views
  <2>5. v.dead /\ age = v.age
    BY <1>10 DEF age
  <2> HIDE DEF r
  <2>6. ListsSound(r) /\ RecordSound(r) /\ WindowSound(r, TRUE)
    <3>1. ListsSound(r)
      BY <2>4 DEF ListsSound
    <3>2. RecordSound(r)
      BY <1>2, <1>10, <2>4 DEF RecordSound
    <3>3. WindowSound(r, TRUE)
      BY <2>4 DEF WindowSound
    <3> QED
      BY <3>1, <3>2, <3>3
  <2>7. RoundSound(v, r)
    BY <2>3, <2>4, <2>5, <2>6 DEF RoundSound
  <2> QED
    BY <1>8, <2>1, <2>7 DEF j
<1>11. CASE ~(age >= GracePeriod)
  <2>1. GarbageCollect(d) = d
    BY <1>7, <1>11 DEF GarbageCollect
  <2> HIDE DEF d
  <2>2. ListsSound(d) /\ RecordSound(d)
    BY <1>7 DEF ListsSound, RecordSound
  <2>3. WindowSound(v, FALSE) => WindowSound(d, TRUE)
    BY <1>7, <1>9 DEF WindowSound
  <2>4. d.age = 0 \/ (d.age = v.age /\ v.dead)
    BY <1>7 DEF age
  <2> QED
    BY <1>6, <1>7, <1>8, <2>1, <2>2, <2>3, <2>4 DEF j, RoundSound
<1> QED
  BY <1>10, <1>11

\* A tick lets the clocks run; a node that three heartbeats made live a round
\* ago is live by the next tick.
LEMMA TickFacts ==
    ASSUME NEW v \in Views, RecordSound(v), WindowSound(v, TRUE), ListsSound(v)
    PROVE  LET r == [v EXCEPT !.silence = Later(@, Forever), !.since = Later(@, Forever),
                              !.age = IF v.dead \/ v.gone THEN Later(@, Ancient) ELSE @]
           IN  /\ r \in Views
               /\ RecordSound(r) /\ WindowSound(r, FALSE) /\ ListsSound(r)
               /\ r.heartbeat = v.heartbeat /\ r.known = v.known /\ r.gone = v.gone
               /\ r.dead = v.dead /\ r.age >= v.age /\ r.age <= v.age + 1
<1> DEFINE silence == Later(v.silence, Forever)
           since == Later(v.since, Forever)
           age == IF v.dead \/ v.gone THEN Later(v.age, Ancient) ELSE v.age
           u == [v EXCEPT !.silence = silence, !.since = since]
           r == [u EXCEPT !.age = age]
<1> USE Bounds
<1>1. /\ silence \in 0..Forever /\ since \in 0..Forever
      /\ age \in 0..Ancient /\ age >= v.age /\ age <= v.age + 1
      /\ silence = since
      /\ v.since \in Nat /\ v.age \in Nat /\ v.heard \in 0..3
      /\ since = v.since + 1 \/ (since = v.since /\ since = Forever)
  BY DEF Views, Later, RecordSound
<1>2. [v EXCEPT !.silence = Later(@, Forever), !.since = Later(@, Forever),
                !.age = IF v.dead \/ v.gone THEN Later(@, Ancient) ELSE @] = r
  BY DEF Views
<1> HIDE DEF silence, since, age
<1>3. u \in Views
  BY <1>1 DEF Views
<1>4. /\ r.silence = silence /\ r.since = since /\ r.age = age
      /\ r.known = v.known /\ r.gone = v.gone /\ r.dead = v.dead /\ r.live = v.live
      /\ r.heartbeat = v.heartbeat /\ r.heard = v.heard /\ r.sampled = v.sampled
      /\ r.watched = v.watched
  BY DEF Views
<1> HIDE DEF u
<1>5. r \in Views
  BY <1>1, <1>3 DEF Views
<1> HIDE DEF r
<1>6. RecordSound(r) /\ ListsSound(r)
  BY <1>1, <1>4 DEF RecordSound, ListsSound
<1>7. WindowSound(r, FALSE)
  <2>1. SUFFICES ASSUME v.heard = 3, since <= AliveFor
                 PROVE  v.sampled /\ (since >= 2 => v.live)
    BY <1>4 DEF WindowSound
  <2>2. since = v.since + 1
    BY <1>1, <2>1
  <2> QED
    BY <1>1, <2>1, <2>2 DEF WindowSound
<1> QED
  BY <1>1, <1>2, <1>4, <1>5, <1>6, <1>7

-----------------------------------------------------------------------------
(* The steps *)

\* The parts of the invariant that concern one observer.
ObserverSound(o) ==
    /\ view[o] \in Views
    /\ view[o].heartbeat <= heartbeat
    /\ ListsSound(view[o])
    /\ RecordSound(view[o])
    /\ WindowSound(view[o], o \in ran)

\* The invariant, before and after a step, by observers and by datagrams.
LEMMA InvParts ==
    MembershipInv <=>
        /\ running \in BOOLEAN
        /\ heartbeat \in 0..MaxHeartbeat
        /\ view \in [Observer -> Views]
        /\ ran \subseteq Observer
        /\ \A o \in Observer : ObserverSound(o)
        /\ \A m \in network : m \in Messages /\ m.heartbeat <= heartbeat /\ DatagramSound(m)
BY DEF MembershipInv, TypeOK, ListsAgree, ObserverSound, ListsSound

\* The same for the state after a step.
LEMMA InvPartsNext ==
    ASSUME /\ running' \in BOOLEAN
           /\ heartbeat' \in 0..MaxHeartbeat
           /\ view' \in [Observer -> Views]
           /\ ran' \subseteq Observer,
           \A o \in Observer : ObserverSound(o)',
           \A m \in network' : m \in Messages /\ m.heartbeat <= heartbeat' /\ DatagramSound(m)'
    PROVE  MembershipInv'
BY DEF MembershipInv, TypeOK, ListsAgree, ObserverSound, ListsSound

\* At first nothing is known and nothing is in flight.
LEMMA InitInv == Init => MembershipInv
<1> SUFFICES ASSUME Init PROVE MembershipInv
  OBVIOUS
<1> USE Bounds
<1>1. view \in [Observer -> Views]
  BY UnknownIsView DEF Init
<1>2. ASSUME NEW o \in Observer PROVE ObserverSound(o)
  <2>1. view[o] = Unknown
    BY DEF Init
  <2>2. ListsSound(Unknown) /\ RecordSound(Unknown) /\ WindowSound(Unknown, o \in ran)
    BY DEF Unknown, ListsSound, RecordSound, WindowSound
  <2>3. Unknown.heartbeat <= heartbeat
    BY DEF Init, Unknown
  <2> QED
    BY <2>1, <2>2, <2>3, UnknownIsView DEF ObserverSound
<1> QED
  BY <1>1, <1>2, InvParts DEF Init

\* A datagram that says what its sender knows, sent now.
LEMMA SendSound ==
    ASSUME MembershipInv, NEW src \in Observer \cup {Subject}, NEW dst \in Observer,
           NEW h \in 0..MaxHeartbeat, h <= heartbeat, NEW content \in Contents,
           src \in Observer => /\ src # dst
                               /\ view[src].known
                               /\ ~ScheduledForDeletion(view[src]),
           network' = network \cup {[src |-> src, dst |-> dst, ttl |-> MaxDelay,
                                     heartbeat |-> h, content |-> content]},
           UNCHANGED <<running, heartbeat, view, ran>>
    PROVE  MembershipInv'
<1> DEFINE d == [src |-> src, dst |-> dst, ttl |-> MaxDelay, heartbeat |-> h, content |-> content]
<1> USE Bounds
<1>1. d \in Messages /\ d.heartbeat <= heartbeat
  BY DEF Messages
<1>2. DatagramSound(d)
  <2>1. SUFFICES ASSUME src \in Observer
                 PROVE  LET v == view[src]
                        IN  /\ src # dst
                            /\ v.known \/ v.gone
                            /\ v.dead \/ ~v.known => 2 * (v.age + MaxDelay) <= GracePeriod + 2 * MaxDelay
    BY DEF DatagramSound
  <2>2. view[src] \in Views
    BY <2>1, InvParts
  <2>3. view[src].age \in Nat
    BY <2>2 DEF Views
  <2> QED
    BY <2>1, <2>3 DEF ScheduledForDeletion
<1>3. \A m \in network : DatagramSound(m)' = DatagramSound(m)
  BY DEF DatagramSound
<1>4. DatagramSound(d)' = DatagramSound(d)
  BY DEF DatagramSound
<1>5. \A m \in network' : m \in Messages /\ m.heartbeat <= heartbeat' /\ DatagramSound(m)'
  <2> HIDE DEF d
  <2> QED
    BY <1>1, <1>2, <1>3, <1>4, InvParts DEF d
<1>6. \A o \in Observer : ObserverSound(o)'
  BY InvParts DEF ObserverSound
<1> QED
  BY <1>5, <1>6, InvParts, InvPartsNext

\* The subject's own steps leave every record behind it or level with it.
LEMMA SubjectStep ==
    ASSUME MembershipInv, Beat \/ Crash \/ UNCHANGED vars
    PROVE  MembershipInv'
<1>1. /\ UNCHANGED <<view, ran, network>>
      /\ heartbeat' \in 0..MaxHeartbeat /\ heartbeat' >= heartbeat /\ heartbeat \in Nat
      /\ running' \in BOOLEAN
  <2>1. heartbeat \in 0..MaxHeartbeat /\ running \in BOOLEAN
    BY InvParts
  <2>2. CASE Beat
    BY Bounds, <2>1, <2>2 DEF Beat
  <2>3. CASE Crash
    <3>1. running' \in BOOLEAN
      BY <2>3 DEF Crash
    <3> QED
      BY Bounds, <2>1, <2>3, <3>1 DEF Crash
  <2>4. CASE UNCHANGED vars
    BY Bounds, <2>1, <2>4 DEF vars
  <2> QED
    BY <2>2, <2>3, <2>4
<1>2. ASSUME NEW o \in Observer PROVE ObserverSound(o)'
  <2>1. view[o].heartbeat \in Nat
    BY InvParts DEF Views
  <2> QED
    BY <1>1, <2>1, InvParts DEF ObserverSound
<1>3. ASSUME NEW m \in network' PROVE m \in Messages /\ m.heartbeat <= heartbeat' /\ DatagramSound(m)'
  <2>1. m \in network /\ m \in Messages /\ m.heartbeat <= heartbeat /\ DatagramSound(m)
    BY <1>1, InvParts
  <2>2. m.heartbeat \in Nat
    BY <2>1 DEF Messages
  <2> QED
    BY <1>1, <2>1, <2>2 DEF DatagramSound
<1> QED
  BY <1>1, <1>2, <1>3, InvParts, InvPartsNext

\* A datagram less is none the worse.
LEMMA LoseStep ==
    ASSUME MembershipInv, NEW m \in network, Lose(m)
    PROVE  MembershipInv'
<1>1. UNCHANGED <<running, heartbeat, view, ran>> /\ network' \subseteq network
  BY DEF Lose
<1>2. \A o \in Observer : ObserverSound(o)'
  BY <1>1, InvParts DEF ObserverSound
<1>3. ASSUME NEW d \in network' PROVE d \in Messages /\ d.heartbeat <= heartbeat' /\ DatagramSound(d)'
  BY <1>1, InvParts DEF DatagramSound
<1> QED
  BY <1>1, <1>2, <1>3, InvParts, InvPartsNext

\* What a received datagram does to the record of its receiver.
LEMMA ReceivedFacts ==
    ASSUME NEW v \in Views, NEW m \in Messages, RecordSound(v), ListsSound(v),
           NEW judged \in BOOLEAN, WindowSound(v, judged)
    PROVE  LET r == ApplyDelta(IF m.content.digest THEN TrySetHeartbeat(v, m.heartbeat) ELSE v,
                               m.content.delta)
           IN  /\ r \in Views
               /\ RecordSound(r) /\ ListsSound(r) /\ WindowSound(r, judged)
               /\ r.dead = v.dead /\ r.age = v.age /\ r.gone = v.gone
               /\ v.known => r.known
               /\ r.heartbeat \in {v.heartbeat, m.heartbeat, 0}
<1> DEFINE u == IF m.content.digest THEN TrySetHeartbeat(v, m.heartbeat) ELSE v
           r == ApplyDelta(u, m.content.delta)
<1>1. m.heartbeat \in 0..MaxHeartbeat /\ m.content.delta \in {"none", "update", "reset"}
  BY ContentsAssumption DEF Messages
<1>2. /\ u \in Views
      /\ u.live = v.live /\ u.dead = v.dead /\ u.watched = v.watched
      /\ u.age = v.age /\ u.gone = v.gone
      /\ v.known => u.known
      /\ u.heartbeat \in {v.heartbeat, m.heartbeat}
      /\ RecordSound(u)
      /\ WindowSound(u, judged)
  BY <1>1, TrySetHeartbeatFacts
<1> HIDE DEF u
<1>3. /\ r \in Views
      /\ r.live = u.live /\ r.dead = u.dead /\ r.watched = u.watched
      /\ r.age = u.age /\ r.gone = u.gone
      /\ u.known => r.known
      /\ r.heartbeat \in {u.heartbeat, 0}
      /\ RecordSound(r)
      /\ WindowSound(r, judged)
  BY <1>1, <1>2, ApplyDeltaFacts
<1> HIDE DEF r
<1>4. ListsSound(r)
  BY <1>2, <1>3 DEF ListsSound
<1> QED
  BY <1>2, <1>3, <1>4 DEF r, u

\* Receiving a datagram, or a duplicate of it.
LEMMA ReceiveStep ==
    ASSUME MembershipInv, NEW m \in network, NEW duplicated \in BOOLEAN, Receive(m, duplicated)
    PROVE  MembershipInv'
<1> DEFINE v == view[m.dst]
           r == ApplyDelta(IF m.content.digest THEN TrySetHeartbeat(v, m.heartbeat) ELSE v,
                           m.content.delta)
<1>1. /\ view' = [view EXCEPT ![m.dst] = r]
      /\ network' \subseteq network
      /\ UNCHANGED <<running, heartbeat, ran>>
  BY DEF Receive
<1>2. m \in Messages /\ m.heartbeat <= heartbeat /\ m.dst \in Observer
  BY InvParts DEF Messages
<1>3. /\ v \in Views /\ RecordSound(v) /\ ListsSound(v) /\ WindowSound(v, m.dst \in ran)
      /\ v.heartbeat <= heartbeat
  BY <1>2, InvParts DEF ObserverSound
<1>4. /\ r \in Views
      /\ RecordSound(r) /\ ListsSound(r) /\ WindowSound(r, m.dst \in ran)
      /\ r.dead = v.dead /\ r.age = v.age /\ r.gone = v.gone
      /\ v.known => r.known
      /\ r.heartbeat \in {v.heartbeat, m.heartbeat, 0}
  <2>1. CASE m.dst \in ran
    <3>1. WindowSound(v, TRUE)
      BY <1>3, <2>1 DEF WindowSound
    <3>2. WindowSound(r, TRUE) => WindowSound(r, m.dst \in ran)
      BY <2>1 DEF WindowSound
    <3> QED
      BY <1>2, <1>3, <3>1, <3>2, ReceivedFacts
  <2>2. CASE m.dst \notin ran
    <3>1. WindowSound(v, FALSE)
      BY <1>3, <2>2 DEF WindowSound
    <3>2. WindowSound(r, FALSE) => WindowSound(r, m.dst \in ran)
      BY <2>2 DEF WindowSound
    <3> QED
      BY <1>2, <1>3, <3>1, <3>2, ReceivedFacts
  <2> QED
    BY <2>1, <2>2
<1> HIDE DEF r
<1>5. r.heartbeat <= heartbeat
  BY <1>2, <1>3, <1>4, InvParts
<1>6. view \in [Observer -> Views] /\ view' \in [Observer -> Views]
  BY <1>1, <1>2, <1>4, InvParts
<1>7. ASSUME NEW o \in Observer PROVE ObserverSound(o)'
  <2>1. CASE o = m.dst
    BY <1>1, <1>4, <1>5, <1>6, <2>1 DEF ObserverSound
  <2>2. CASE o # m.dst
    BY <1>1, <1>6, <2>2, InvParts DEF ObserverSound
  <2> QED
    BY <2>1, <2>2
<1>8. ASSUME NEW d \in network' PROVE d \in Messages /\ d.heartbeat <= heartbeat' /\ DatagramSound(d)'
  <2>1. d \in Messages /\ d.heartbeat <= heartbeat /\ DatagramSound(d)
    BY <1>1, InvParts
  <2>2. CASE d.src = m.dst
    BY <1>1, <1>2, <1>4, <1>6, <2>1, <2>2 DEF DatagramSound
  <2>3. CASE d.src # m.dst
    BY <1>1, <1>6, <2>1, <2>3 DEF DatagramSound
  <2> QED
    BY <1>1, <2>1, <2>2, <2>3
<1> QED
  BY <1>1, <1>6, <1>7, <1>8, InvParts, InvPartsNext

\* The end of a gossip round.
LEMMA RoundStep ==
    ASSUME MembershipInv, NEW o \in Observer, UpdateNodesLiveness(o)
    PROVE  MembershipInv'
<1> DEFINE v == view[o]
           Left(j) == GarbageCollect([j EXCEPT !.watched = j.live /\ j.known])
<1> USE Bounds
<1>1. PICK j \in IF v.known THEN {UpdateNodeLiveness(v, alive) : alive \in Verdicts(v)} ELSE {v} :
         view' = [view EXCEPT ![o] = Left(j)]
  BY DEF UpdateNodesLiveness
<1>2. ran' = ran \cup {o} /\ UNCHANGED <<running, heartbeat, network>>
  BY DEF UpdateNodesLiveness
<1>3. /\ v \in Views /\ RecordSound(v) /\ ListsSound(v) /\ WindowSound(v, o \in ran)
      /\ v.heartbeat <= heartbeat
  BY InvParts DEF ObserverSound
<1> DEFINE r == Left(j)
<1>4. RoundSound(v, r)
  <2>1. CASE ~v.known
    BY <1>1, <1>3, <2>1, UnknownRound
  <2>2. CASE v.known
    <3>1. PICK alive \in Verdicts(v) : j = UpdateNodeLiveness(v, alive)
      BY <1>1, <2>2
    <3>2. alive \in BOOLEAN
      BY DEF Verdicts
    <3>3. CASE alive = TRUE
      BY <1>3, <2>2, <3>1, <3>3, AliveRound
    <3>4. CASE alive = FALSE
      BY <1>3, <2>2, <3>1, <3>4, DeadRound
    <3> QED
      BY <3>2, <3>3, <3>4
  <2> QED
    BY <2>1, <2>2
<1>5. view' = [view EXCEPT ![o] = r]
  BY <1>1
<1> HIDE DEF r, Left
<1>6. WindowSound(v, FALSE)
  BY <1>3 DEF WindowSound
<1>7. /\ r \in Views /\ ListsSound(r) /\ RecordSound(r) /\ WindowSound(r, TRUE)
      /\ r.heartbeat <= heartbeat
  <2>1. heartbeat \in Nat
    BY InvParts
  <2>2. r.heartbeat = v.heartbeat \/ r.heartbeat = 0
    BY <1>4 DEF RoundSound
  <2>3. r.heartbeat <= heartbeat
    BY <1>3, <2>1, <2>2
  <2>4. WindowSound(r, TRUE)
    BY <1>4, <1>6 DEF RoundSound
  <2> QED
    BY <1>4, <2>3, <2>4 DEF RoundSound
<1>8. view \in [Observer -> Views] /\ view' \in [Observer -> Views]
  BY <1>5, <1>7, InvParts
<1>9. ASSUME NEW p \in Observer PROVE ObserverSound(p)'
  <2>1. CASE p = o
    <3>1. view'[p] = r /\ p \in ran'
      BY <1>2, <1>5, <1>8, <2>1
    <3> QED
      BY <1>2, <1>7, <3>1 DEF ObserverSound, WindowSound
  <2>2. CASE p # o
    <3>1. view'[p] = view[p] /\ (p \in ran' <=> p \in ran)
      BY <1>2, <1>5, <1>8, <2>2
    <3> QED
      BY <1>2, <3>1, InvParts DEF ObserverSound, WindowSound
  <2> QED
    BY <2>1, <2>2
<1>10. ASSUME NEW d \in network' PROVE d \in Messages /\ d.heartbeat <= heartbeat' /\ DatagramSound(d)'
  <2>1. d \in Messages /\ d.heartbeat <= heartbeat /\ DatagramSound(d)
    BY <1>2, InvParts
  <2>2. CASE d.src = o
    <3>1. view'[d.src] = r
      BY <1>5, <1>8, <2>2
    <3>2. d.ttl \in 0..MaxDelay /\ r.age \in Nat
      BY <1>7, <2>1 DEF Messages, Views
    <3>3. /\ d.src # d.dst
          /\ v.known \/ v.gone
          /\ v.dead \/ ~v.known => 2 * (v.age + d.ttl) <= GracePeriod + 2 * MaxDelay
      BY <2>1, <2>2 DEF DatagramSound
    <3>4. r.known \/ r.gone
      BY <1>4, <3>3 DEF RoundSound
    <3>5. r.dead \/ ~r.known => 2 * (r.age + d.ttl) <= GracePeriod + 2 * MaxDelay
      BY <1>4, <3>2, <3>3 DEF RoundSound
    <3>6. DatagramSound(d)'
      BY <3>1, <3>3, <3>4, <3>5 DEF DatagramSound
    <3> QED
      BY <1>2, <2>1, <3>6
  <2>3. CASE d.src # o
    BY <1>2, <1>5, <1>8, <2>1, <2>3 DEF DatagramSound
  <2> QED
    BY <2>2, <2>3
<1> QED
  BY <1>2, <1>8, <1>9, <1>10, InvParts, InvPartsNext

\* Time passes for every record and every datagram.
LEMMA TickStep ==
    ASSUME MembershipInv, Tick
    PROVE  MembershipInv'
<1> DEFINE Aged(v) == [v EXCEPT !.silence = Later(@, Forever), !.since = Later(@, Forever),
                                !.age = IF v.dead \/ v.gone THEN Later(@, Ancient) ELSE @]
<1>1. /\ ran = Observer /\ ran' = {}
      /\ view' = [o \in Observer |-> Aged(view[o])]
      /\ network' = {[m EXCEPT !.ttl = @ - 1] : m \in {d \in network : d.ttl > 0}}
      /\ UNCHANGED <<running, heartbeat>>
  BY DEF Tick
<1>2. ASSUME NEW o \in Observer
      PROVE  LET v == view[o]
                 r == view'[o]
             IN  /\ v \in Views /\ r \in Views
                 /\ RecordSound(r) /\ WindowSound(r, FALSE) /\ ListsSound(r)
                 /\ r.heartbeat = v.heartbeat /\ r.known = v.known /\ r.gone = v.gone
                 /\ r.dead = v.dead /\ r.age >= v.age /\ r.age <= v.age + 1
                 /\ v.heartbeat <= heartbeat
  <2>1. /\ view[o] \in Views /\ RecordSound(view[o]) /\ ListsSound(view[o])
        /\ WindowSound(view[o], TRUE) /\ view[o].heartbeat <= heartbeat
    BY <1>1, InvParts DEF ObserverSound, WindowSound
  <2>2. view'[o] = Aged(view[o])
    BY <1>1
  <2> QED
    BY <2>1, <2>2, TickFacts, ZenonT(60)
<1> HIDE DEF Aged
<1>3. view' \in [Observer -> Views]
  BY <1>1, <1>2
<1>4. ASSUME NEW o \in Observer PROVE ObserverSound(o)'
  BY <1>1, <1>2 DEF ObserverSound, WindowSound
<1>5. ASSUME NEW d \in network' PROVE d \in Messages /\ d.heartbeat <= heartbeat' /\ DatagramSound(d)'
  <2>1. PICK m \in network : m.ttl > 0 /\ d = [m EXCEPT !.ttl = @ - 1]
    BY <1>1
  <2>2. m \in Messages /\ m.heartbeat <= heartbeat /\ DatagramSound(m)
    BY InvParts
  <2>3. /\ d \in Messages /\ d.src = m.src /\ d.dst = m.dst /\ d.heartbeat = m.heartbeat
        /\ d.ttl = m.ttl - 1 /\ m.ttl \in Nat
    BY Bounds, <2>1, <2>2 DEF Messages
  <2>4. ASSUME m.src \in Observer
        PROVE  LET r == view'[m.src]
               IN  /\ r.known \/ r.gone
                   /\ r.dead \/ ~r.known => 2 * (r.age + d.ttl) <= GracePeriod + 2 * MaxDelay
    <3> DEFINE v == view[m.src]
               r == view'[m.src]
    <3>1. /\ v \in Views /\ r \in Views
          /\ r.known = v.known /\ r.gone = v.gone /\ r.dead = v.dead /\ r.age <= v.age + 1
      BY <1>2, <2>4
    <3>2. v.age \in Nat /\ r.age \in Nat
      BY <3>1 DEF Views
    <3> QED
      BY Bounds, <2>2, <2>3, <2>4, <3>1, <3>2 DEF DatagramSound
  <2>5. DatagramSound(d)'
    BY <2>2, <2>3, <2>4 DEF DatagramSound
  <2> QED
    BY <1>1, <2>2, <2>3, <2>5
<1> QED
  BY <1>1, <1>3, <1>4, <1>5, InvParts, InvPartsNext

\* Every step keeps the invariant.
LEMMA NextInv == MembershipInv /\ [Next]_vars => MembershipInv'
<1> SUFFICES ASSUME MembershipInv, [Next]_vars
             PROVE  MembershipInv'
  OBVIOUS
<1>1. CASE Beat \/ Crash \/ UNCHANGED vars
  BY <1>1, SubjectStep
<1>2. ASSUME NEW o \in Observer, NEW content \in Contents, SubjectGossips(o, content)
      PROVE  MembershipInv'
  <2>1. heartbeat \in 0..MaxHeartbeat /\ heartbeat <= heartbeat
    BY Bounds, InvParts
  <2>2. Subject \notin Observer
    BY ObserverAssumption
  <2>3. /\ network' = network \cup {[src |-> Subject, dst |-> o, ttl |-> MaxDelay,
                                     heartbeat |-> heartbeat, content |-> content]}
        /\ UNCHANGED <<running, heartbeat, view, ran>>
    BY <1>2 DEF SubjectGossips, Send
  <2> QED
    BY <2>1, <2>2, <2>3, SendSound
<1>3. ASSUME NEW o \in Observer, NEW p \in Observer, NEW content \in Contents, Gossip(o, p, content)
      PROVE  MembershipInv'
  <2>1. view[o].heartbeat \in 0..MaxHeartbeat /\ view[o].heartbeat <= heartbeat
    BY InvParts DEF ObserverSound, Views
  <2>2. /\ o # p /\ view[o].known /\ ~ScheduledForDeletion(view[o])
        /\ network' = network \cup {[src |-> o, dst |-> p, ttl |-> MaxDelay,
                                     heartbeat |-> view[o].heartbeat, content |-> content]}
        /\ UNCHANGED <<running, heartbeat, view, ran>>
    BY <1>3 DEF Gossip, Send
  <2> QED
    BY <2>1, <2>2, SendSound
<1>4. ASSUME NEW m \in network, NEW duplicated \in BOOLEAN, Receive(m, duplicated)
      PROVE  MembershipInv'
  BY <1>4, ReceiveStep
<1>5. ASSUME NEW m \in network, Lose(m) PROVE MembershipInv'
  BY <1>5, LoseStep
<1>6. ASSUME NEW o \in Observer, UpdateNodesLiveness(o) PROVE MembershipInv'
  BY <1>6, RoundStep
<1>7. CASE Tick
  BY <1>7, TickStep
<1> QED
  BY <1>1, <1>2, <1>3, <1>4, <1>5, <1>6, <1>7 DEF Next

\* The invariant holds in every state that the observers can reach.
THEOREM MembershipInvariant == Spec => []MembershipInv
BY InitInv, NextInv, PTL DEF Spec

-----------------------------------------------------------------------------
(* What follows from it *)

\* Every record has its shape, and none is ahead of the subject, whatever is
\* duplicated, delayed or reset on the way (report_heartbeat, apply_delta).
THEOREM TypeCorrect == Spec => []TypeOK
<1>1. MembershipInv => TypeOK
  BY DEF MembershipInv
<1> QED
  BY <1>1, MembershipInvariant, PTL

\* live_nodes, dead_nodes, the node states and what the watchers were told agree
\* after every step of every observer (update_nodes_liveness).
THEOREM ListsAlwaysAgree == Spec => []ListsAgree
<1>1. MembershipInv => ListsAgree
  BY DEF MembershipInv
<1> QED
  BY <1>1, MembershipInvariant, PTL

\* A node that was heard of three times in time is live from the next round on
\* until phi may rise again (SamplingWindow::report_heartbeat, update_node_liveness).
THEOREM HeardOfNodesAreLive == Spec => []HeardIsLive
<1>1. MembershipInv => HeardIsLive
  <2> SUFFICES ASSUME MembershipInv, NEW o \in Observer,
                      view[o].heard = 3, view[o].since \in 2..AliveFor
               PROVE  view[o].live
    BY DEF HeardIsLive
  <2>1. WindowSound(view[o], o \in ran)
    BY InvParts DEF ObserverSound
  <2> QED
    BY Bounds, <2>1 DEF WindowSound
<1> QED
  BY <1>1, MembershipInvariant, PTL

\* As long as a datagram takes less than half of the grace period, nothing that
\* a node has said of the subject is in flight when it forgets it
\* (garbage_collect against scheduled_for_deletion_nodes).
THEOREM NothingEchoes ==
    ASSUME 2 * MaxDelay < GracePeriod
    PROVE  Spec => []NoEcho
<1>1. MembershipInv => NoEcho
  <2> SUFFICES ASSUME MembershipInv, NEW o \in Observer, NEW m \in network, m.src = o,
                      view[o].gone, ~view[o].known
               PROVE  FALSE
    BY DEF NoEcho
  <2>1. m \in Messages /\ DatagramSound(m) /\ view[o] \in Views /\ RecordSound(view[o])
    BY InvParts DEF ObserverSound
  <2>2. view[o].age \in Nat /\ m.ttl \in Nat
    BY Bounds, <2>1 DEF Messages, Views
  <2>3. view[o].age >= GracePeriod
    BY <2>1 DEF RecordSound
  <2>4. 2 * (view[o].age + m.ttl) <= GracePeriod + 2 * MaxDelay
    BY <2>1 DEF DatagramSound
  <2> QED
    BY Bounds, <2>2, <2>3, <2>4
<1> QED
  BY <1>1, MembershipInvariant, PTL

\* Only an observer that noticed the death late can bring a forgotten subject
\* back, however the clocks of the observers and the delays fall: the one whose
\* datagram does so has known the death for less time, by half of the grace
\* period less the delay (process_message, scheduled_for_deletion_nodes).
THEOREM RelearnedOnlyFromLateObservers == Spec => RelearnedFromLateObserver
<1> DEFINE Late(o) ==
             Silent /\ view[o].gone /\ ~view[o].known /\ view'[o].known =>
                 \E p \in Observer \ {o} :
                    \/ view[p].known /\ ~view[p].dead
                    \/ 2 * (view[o].age - view[p].age) >= GracePeriod - 2 * MaxDelay
<1>1. MembershipInv /\ [Next]_vars => \A o \in Observer : Late(o)
  <2> SUFFICES ASSUME MembershipInv, [Next]_vars, NEW o \in Observer,
                      Silent, view[o].gone, ~view[o].known, view'[o].known
               PROVE  \E p \in Observer \ {o} :
                         \/ view[p].known /\ ~view[p].dead
                         \/ 2 * (view[o].age - view[p].age) >= GracePeriod - 2 * MaxDelay
    OBVIOUS
  <2>0. view \in [Observer -> Views] /\ RecordSound(view[o]) /\ ListsSound(view[o])
    BY InvParts DEF ObserverSound
  <2>1. PICK m \in network : m.dst = o
    <3>1. CASE \E m \in network, duplicated \in BOOLEAN : Receive(m, duplicated)
      BY <2>0, <3>1 DEF Receive
    <3>2. CASE \E p \in Observer : UpdateNodesLiveness(p)
      <4>1. PICK p \in Observer : UpdateNodesLiveness(p)
        BY <3>2
      <4>2. p = o
        BY <2>0, <4>1 DEF UpdateNodesLiveness
      <4> DEFINE u == [view[o] EXCEPT !.watched = view[o].live /\ view[o].known]
      <4>3. view'[o] = GarbageCollect(u)
        BY <2>0, <4>1, <4>2 DEF UpdateNodesLiveness
      <4>4. ~u.dead /\ u.known = view[o].known
        BY <2>0 DEF ListsSound, Views
      <4> QED
        BY <4>3, <4>4 DEF GarbageCollect
    <3>3. CASE Tick
      BY <2>0, <3>3 DEF Tick, Views
    <3>4. view' = view => FALSE
      BY <2>0
    <3> QED
      BY <3>1, <3>2, <3>3, <3>4 DEF Next, Beat, Crash, SubjectGossips, Gossip, Lose, vars
  <2>2. m \in Messages /\ DatagramSound(m) /\ m.src # Subject
    BY InvParts DEF Silent
  <2>3. m.src \in Observer \ {o} /\ m.ttl \in Nat
    BY Bounds, <2>1, <2>2 DEF Messages, DatagramSound
  <2>4. view[o].age \in Nat /\ view[m.src].age \in Nat /\ view[o].age >= GracePeriod
    BY <2>0, <2>3 DEF Views, RecordSound
  <2>5. view[m.src].dead \/ ~view[m.src].known
            => 2 * (view[m.src].age + m.ttl) <= GracePeriod + 2 * MaxDelay
    BY <2>2, <2>3 DEF DatagramSound
  <2>6. \/ view[m.src].known /\ ~view[m.src].dead
        \/ 2 * (view[o].age - view[m.src].age) >= GracePeriod - 2 * MaxDelay
    BY Bounds, <2>3, <2>4, <2>5
  <2> QED
    BY <2>3, <2>6
<1>2. (\A o \in Observer : Late(o)) => [\A o \in Observer : Late(o)]_vars
  OBVIOUS
<1> QED
  BY <1>1, <1>2, MembershipInvariant, PTL DEF Spec, RelearnedFromLateObserver

=============================================================================
