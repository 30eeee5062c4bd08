--------------------------- MODULE LicensesProofs ---------------------------
(***************************************************************************)
(* Proofs about the licenses of the igniter (Licenses.tla), for any number *)
(* of nodes, licenses and instances.                                       *)
(***************************************************************************)
EXTENDS Licenses, TLAPS

-----------------------------------------------------------------------------
(* The inductive invariant *)

\* Only what has been published is replicated.
SeenIsPublished ==
    \A n \in Node, i \in Instance : seen[n][i] > 0 => published[i] # None

LicensesInv == TypeOK /\ SeenIsPublished /\ WarnedOnlyIfOutdated

\* The last of the six key-values is the licenses.
LEMMA LicensesComeLast ==
    Len(KeyOrder) = 6 /\ \A v \in 1..6 : KeyOrder[v] = "licenses" => v = 6
BY DEF KeyOrder

\* The length of a replica is a number up to that of the whole.
LEMMA ReplicaLength ==
    ASSUME TypeOK, NEW n \in Node, NEW i \in Instance
    PROVE  seen[n][i] \in 0..6 /\ seen[n][i] \in Prefixes
BY LicensesComeLast, InstanceAssumption DEF TypeOK, InstanceAssumption

\* A state that is verified has been published.
LEMMA VerifiedIsPublished ==
    ASSUME TypeOK, SeenIsPublished, NEW n \in Node, NEW i \in VerifiedStates(n)
    PROVE  /\ i \in Started /\ published[i] \in Publications
           /\ \A s \in published[i].signatures : CheckSignatures(s, published[i].pubkey)
<1>1. i \in Instance /\ Has(n, i, "pubkey") /\ Creatable(published[i].signatures, published[i].pubkey)
  BY DEF VerifiedStates, FromGossip
<1>2. seen[n][i] \in 0..6
  BY <1>1, ReplicaLength
<1>3. seen[n][i] > 0
  BY <1>1, <1>2 DEF Has
<1>4. published[i] # None /\ published[i] \in Publications
  BY <1>1, <1>3 DEF SeenIsPublished, TypeOK
<1> QED
  BY <1>1, <1>4 DEF Started, Creatable

\* A license that is reported as revoked has been published by the node in
\* question and, with a later timestamp, by some instance.
LEMMA RevokedIsOutdated ==
    ASSUME TypeOK, SeenIsPublished, NEW n \in Node, NEW r \in GetRevokedLicenses(n, n)
    PROVE  /\ r.license_id \in License
           /\ \E i, j \in Started : published[i].pubkey = n /\ Outdated(i, j, r.license_id)
<1>1. r \in RevokedLicenses(VerifiedStates(n)) /\ r.provider_pubkey = n
  BY DEF GetRevokedLicenses
<1>2. PICK i \in VerifiedStates(n) : \E s \in published[i].signatures :
         /\ r = RevokedLicense(i, s)
         /\ \E k \in VerifiedStates(n) : \E u \in published[k].signatures :
               u.license_id = s.license_id /\ u.timestamp > s.timestamp
  BY <1>1 DEF RevokedLicenses
<1>3. PICK s \in published[i].signatures :
         /\ r = RevokedLicense(i, s)
         /\ \E k \in VerifiedStates(n) : \E u \in published[k].signatures :
               u.license_id = s.license_id /\ u.timestamp > s.timestamp
  BY <1>2
<1>4. PICK k \in VerifiedStates(n) : \E u \in published[k].signatures :
         u.license_id = s.license_id /\ u.timestamp > s.timestamp
  BY <1>3
<1>5. PICK u \in published[k].signatures : u.license_id = s.license_id /\ u.timestamp > s.timestamp
  BY <1>4
<1>6. /\ i \in Started /\ k \in Started
      /\ published[i] \in Publications /\ published[k] \in Publications
  BY VerifiedIsPublished
<1>7. s \in Signatures /\ u \in Signatures
  BY <1>6 DEF Publications
<1>8. s.timestamp < u.timestamp /\ s.license_id \in License
  BY <1>5, <1>7, LicenseAssumption DEF Signatures, LicenseAssumption
<1>9. r.license_id = s.license_id /\ published[i].pubkey = n
  BY <1>1, <1>3 DEF RevokedLicense
<1> QED
  BY <1>5, <1>6, <1>8, <1>9 DEF Outdated

-----------------------------------------------------------------------------
(* Every step preserves the invariant *)

\* What was published stays, and so do the warnings that were justified by it.
LEMMA WarningsKept ==
    ASSUME LicensesInv, UNCHANGED warned,
           \A i \in Started : i \in Started' /\ published'[i] = published[i]
    PROVE  WarnedOnlyIfOutdated'
BY DEF LicensesInv, WarnedOnlyIfOutdated, Outdated

\* An instance starts under an id that nobody has used.
LEMMA StartSound ==
    ASSUME LicensesInv, NEW n \in Node, NEW i \in Instance, NEW signatures \in SUBSET delegations,
           Start(n, i, signatures)
    PROVE  LicensesInv'
<1> DEFINE p == [pubkey |-> n, signatures |-> signatures]
<1>0. TypeOK /\ SeenIsPublished
  BY DEF LicensesInv
<1>1. /\ UNCHANGED <<delegations, verified, warned>>
      /\ published' = [published EXCEPT ![i] = p] /\ published[i] = None
      /\ running' = [running EXCEPT ![n] = i] /\ running[n] = None
      /\ seen' = [seen EXCEPT ![n][i] = 6]
  BY LicensesComeLast DEF Start
<1>2. p \in Publications /\ p.pubkey = n
  BY <1>0 DEF Publications, TypeOK
<1>3. p # None
  BY <1>2, NoneAssumption DEF NoneAssumption
<1> HIDE DEF p
<1>4. /\ published' \in [Instance -> Publications \cup {None}]
      /\ published'[i] = p /\ \A j \in Instance \ {i} : published'[j] = published[j]
  BY <1>0, <1>1, <1>2 DEF TypeOK
<1>5. running' \in [Node -> Instance \cup {None}] /\ running'[n] = i /\ \A m \in Node \ {n} : running'[m] = running[m]
  BY <1>0, <1>1 DEF TypeOK
<1>6. /\ seen' \in [Node -> [Instance -> Prefixes]]
      /\ seen'[n][i] = 6 /\ \A m \in Node, j \in Instance : m # n \/ j # i => seen'[m][j] = seen[m][j]
  BY <1>0, <1>1, LicensesComeLast, InstanceAssumption DEF TypeOK, InstanceAssumption
<1>7. ASSUME NEW m \in Node, running'[m] # None
      PROVE  /\ published'[running'[m]] # None
             /\ published'[running'[m]].pubkey = m
             /\ seen'[m][running'[m]] = Len(KeyOrder)
  <2>1. CASE m = n
    BY <1>2, <1>3, <1>4, <1>5, <1>6, <2>1, LicensesComeLast
  <2>2. CASE m # n
    <3>1. running'[m] = running[m] /\ running[m] \in Instance /\ running[m] # i
      BY <1>0, <1>1, <1>5, <1>7, <2>2 DEF TypeOK
    <3> QED
      BY <1>0, <1>4, <1>6, <1>7, <2>2, <3>1 DEF TypeOK
  <2> QED
    BY <2>1, <2>2
<1>8. TypeOK'
  BY <1>0, <1>1, <1>4, <1>5, <1>6, <1>7 DEF TypeOK
<1>9. SeenIsPublished'
  <2> SUFFICES ASSUME NEW m \in Node, NEW j \in Instance, seen'[m][j] > 0 PROVE published'[j] # None
    BY DEF SeenIsPublished
  <2>1. CASE j = i
    BY <1>3, <1>4, <2>1
  <2>2. CASE j # i
    BY <1>0, <1>4, <1>6, <2>2 DEF SeenIsPublished
  <2> QED
    BY <2>1, <2>2
<1>10. WarnedOnlyIfOutdated'
  <2>1. \A j \in Started : j \in Started' /\ published'[j] = published[j]
    BY <1>1, <1>4 DEF Started
  <2> QED
    BY <1>1, <2>1, WarningsKept
<1> QED
  BY <1>8, <1>9, <1>10 DEF LicensesInv

\* Steps of chitchat: a replica grows up to the length that another node holds,
\* or is forgotten once its instance has stopped.
LEMMA ReplicaSound ==
    ASSUME LicensesInv, NEW n \in Node, NEW i \in Instance, NEW length \in Prefixes,
           seen' = [seen EXCEPT ![n][i] = length],
           running[n] = i => length = 6,
           length > 0 => published[i] # None,
           UNCHANGED <<delegations, published, running, verified, warned>>
    PROVE  LicensesInv'
<1>0. TypeOK /\ SeenIsPublished
  BY DEF LicensesInv
<1>1. /\ seen' \in [Node -> [Instance -> Prefixes]]
      /\ seen'[n][i] = length /\ \A m \in Node, j \in Instance : m # n \/ j # i => seen'[m][j] = seen[m][j]
  BY <1>0 DEF TypeOK
<1>2. ASSUME NEW m \in Node, running[m] # None PROVE seen'[m][running[m]] = Len(KeyOrder)
  BY <1>0, <1>1, <1>2, LicensesComeLast DEF TypeOK
<1>3. TypeOK'
  BY <1>0, <1>1, <1>2 DEF TypeOK
<1>4. SeenIsPublished'
  BY <1>0, <1>1 DEF SeenIsPublished
<1>5. WarnedOnlyIfOutdated'
  BY WarningsKept DEF Started
<1> QED
  BY <1>3, <1>4, <1>5 DEF LicensesInv

\* The watcher warns of what getRevokedLicenses returns.
LEMMA WatchSound ==
    ASSUME LicensesInv, NEW n \in Node, Watch(n)
    PROVE  LicensesInv'
<1> DEFINE new == {r.license_id : r \in GetRevokedLicenses(n, n)}
<1>0. TypeOK /\ SeenIsPublished /\ WarnedOnlyIfOutdated
  BY DEF LicensesInv
<1>1. UNCHANGED <<delegations, published, running, seen, verified>>
  BY DEF Watch
<1>2. warned' = [warned EXCEPT ![n] = warned[n] \cup new]
  BY DEF Watch
<1>3. ASSUME NEW l \in new
      PROVE  l \in License /\ \E i, j \in Started : published[i].pubkey = n /\ Outdated(i, j, l)
  BY <1>0, RevokedIsOutdated
<1> HIDE DEF new
<1>4. warned' \in [Node -> SUBSET License] /\ warned'[n] = warned[n] \cup new
      /\ \A m \in Node \ {n} : warned'[m] = warned[m]
  BY <1>0, <1>2, <1>3 DEF TypeOK
<1>5. TypeOK' /\ SeenIsPublished'
  BY <1>0, <1>1, <1>4 DEF TypeOK, SeenIsPublished
<1>6. \A m \in Node : \A l \in warned'[m] :
         \E i, j \in Started : published[i].pubkey = m /\ Outdated(i, j, l)
  BY <1>0, <1>3, <1>4 DEF WarnedOnlyIfOutdated
<1>7. WarnedOnlyIfOutdated'
  BY <1>1, <1>6 DEF WarnedOnlyIfOutdated, Outdated, Started
<1> QED
  BY <1>5, <1>7 DEF LicensesInv

\* The invariant holds in every state.
THEOREM LicensesInvariant == Spec => []LicensesInv
<1>1. Init => LicensesInv
  BY InstanceAssumption, LicensesComeLast
     DEF Init, LicensesInv, TypeOK, SeenIsPublished, WarnedOnlyIfOutdated, InstanceAssumption
<1>2. LicensesInv /\ [Next]_vars => LicensesInv'
  <2> SUFFICES ASSUME LicensesInv, [Next]_vars PROVE LicensesInv'
    OBVIOUS
  <2>0. TypeOK /\ SeenIsPublished
    BY DEF LicensesInv
  <2>1. ASSUME NEW l \in License, NEW p \in Provider, NEW time \in 1..MaxTimestamp, Delegate(l, p, time)
        PROVE  LicensesInv'
    <3>1. TypeOK'
      BY <2>0, <2>1 DEF TypeOK, Delegate, Signatures
    <3>2. SeenIsPublished'
      BY <2>0, <2>1 DEF SeenIsPublished, Delegate
    <3>3. WarnedOnlyIfOutdated'
      BY <2>1, WarningsKept DEF Delegate, Started
    <3> QED
      BY <3>1, <3>2, <3>3 DEF LicensesInv
  <2>2. ASSUME NEW n \in Node, NEW i \in Instance, NEW signatures \in SUBSET delegations,
               Start(n, i, signatures)
        PROVE  LicensesInv'
    BY <2>2, StartSound
  <2>3. ASSUME NEW n \in Node, NEW m \in Node, NEW i \in Instance, NEW length \in Prefixes,
               Replicate(n, m, i, length)
        PROVE  LicensesInv'
    <3>1. seen[n][i] \in 0..6 /\ seen[m][i] \in 0..6 /\ seen[n][i] < length /\ length <= seen[m][i] /\ length \in 0..6
      BY <2>0, <2>3, ReplicaLength, LicensesComeLast, InstanceAssumption DEF Replicate, InstanceAssumption
    <3>2. running[n] = i => length = 6
      BY <2>0, <2>3, <3>1, LicensesComeLast DEF Replicate, TypeOK
    <3>3. published[i] # None
      BY <2>0, <3>1 DEF SeenIsPublished
    <3> QED
      BY <2>3, <3>2, <3>3, ReplicaSound DEF Replicate
  <2>4. ASSUME NEW n \in Node, NEW i \in Instance, Forget(n, i) PROVE LicensesInv'
    <3> DEFINE length == 0
    <3>1. length \in Prefixes /\ ~(length > 0) /\ seen' = [seen EXCEPT ![n][i] = length] /\ running[n] # i
      BY <2>4, InstanceAssumption DEF Forget, InstanceAssumption
    <3> HIDE DEF length
    <3> QED
      BY <2>4, <3>1, ReplicaSound DEF Forget
  <2>5. ASSUME NEW n \in Node, Stop(n) PROVE LicensesInv'
    <3> DEFINE empty == [i \in Instance |-> 0]
    <3>1. /\ running' = [running EXCEPT ![n] = None]
          /\ seen' = [seen EXCEPT ![n] = empty]
          /\ verified' = [verified EXCEPT ![n] = None]
          /\ warned' = [warned EXCEPT ![n] = {}]
          /\ UNCHANGED <<delegations, published>>
      BY <2>5 DEF Stop
    <3>2. empty \in [Instance -> Prefixes] /\ \A i \in Instance : ~(empty[i] > 0)
      BY InstanceAssumption DEF InstanceAssumption
    <3> HIDE DEF empty
    <3>3. /\ seen' \in [Node -> [Instance -> Prefixes]] /\ seen'[n] = empty
          /\ \A m \in Node \ {n} : seen'[m] = seen[m]
      BY <2>0, <3>1, <3>2 DEF TypeOK
    <3>4. /\ running' \in [Node -> Instance \cup {None}] /\ running'[n] = None
          /\ \A m \in Node \ {n} : running'[m] = running[m]
      BY <2>0, <3>1 DEF TypeOK
    <3>5. verified' \in [Node -> (SUBSET Instance) \cup {None}]
      BY <2>0, <3>1 DEF TypeOK
    <3>6. /\ warned' \in [Node -> SUBSET License] /\ warned'[n] = {}
          /\ \A m \in Node \ {n} : warned'[m] = warned[m]
      BY <2>0, <3>1 DEF TypeOK
    <3>7. TypeOK'
      BY <2>0, <3>1, <3>3, <3>4, <3>5, <3>6 DEF TypeOK
    <3>8. SeenIsPublished'
      BY <2>0, <3>1, <3>2, <3>3 DEF SeenIsPublished
    <3>9. WarnedOnlyIfOutdated'
      BY <3>1, <3>6 DEF LicensesInv, WarnedOnlyIfOutdated, Outdated, Started
    <3> QED
      BY <3>7, <3>8, <3>9 DEF LicensesInv
  <2>6. ASSUME NEW n \in Node, IndexVerify(n) \/ IndexRespond(n) PROVE LicensesInv'
    <3>1. UNCHANGED <<delegations, published, running, seen, warned>>
      BY <2>6 DEF IndexVerify, IndexRespond
    <3>2. VerifiedStates(n) \subseteq Instance
      BY DEF VerifiedStates
    <3>3. verified' \in [Node -> (SUBSET Instance) \cup {None}]
      BY <2>0, <2>6, <3>2 DEF TypeOK, IndexVerify, IndexRespond
    <3>4. TypeOK' /\ SeenIsPublished'
      BY <2>0, <3>1, <3>3 DEF TypeOK, SeenIsPublished
    <3>5. WarnedOnlyIfOutdated'
      BY <3>1, WarningsKept DEF Started
    <3> QED
      BY <3>4, <3>5 DEF LicensesInv
  <2>7. ASSUME NEW n \in Node, Watch(n) PROVE LicensesInv'
    BY <2>7, WatchSound
  <2>8. CASE UNCHANGED vars
    BY <2>8 DEF vars, LicensesInv, TypeOK, SeenIsPublished, WarnedOnlyIfOutdated, Outdated, Started
  <2> QED
    BY <2>1, <2>2, <2>3, <2>4, <2>5, <2>6, <2>7, <2>8 DEF Next
<1> QED
  BY <1>1, <1>2, PTL DEF Spec

\* Every variable keeps its type, and a node that runs holds all the key-values
\* of its own instance.
THEOREM LicensesTypeCorrect == Spec => []TypeOK
<1>1. LicensesInv => TypeOK
  BY DEF LicensesInv
<1> QED
  BY <1>1, LicensesInvariant, PTL

\* The watcher warns of a license only if the node has published it under an
\* older delegation than some other instance (revoked_license_watcher::run).
THEOREM NoFalseWarning == Spec => []WarnedOnlyIfOutdated
<1>1. LicensesInv => WarnedOnlyIfOutdated
  BY DEF LicensesInv
<1> QED
  BY <1>1, LicensesInvariant, PTL

\* The index route answers with complete states of verified nodes only.
THEOREM IndexIsSound == Spec => []IndexSound
<1>1. LicensesInv => IndexSound
  <2> SUFFICES ASSUME LicensesInv, NEW n \in Node, NEW i \in Retained(n)
               PROVE  /\ seen[n][i] = Len(KeyOrder)
                      /\ \A s \in published[i].signatures : CheckSignatures(s, published[i].pubkey)
    BY DEF IndexSound
  <2>1. i \in VerifiedStates(n) /\ i \in Instance /\ Has(n, i, "licenses")
    BY DEF Retained, ValidateLicenses, VerifiedStates
  <2>2. seen[n][i] \in 0..6
    BY <2>1, ReplicaLength DEF LicensesInv
  <2>3. PICK v \in 1..seen[n][i] : KeyOrder[v] = "licenses"
    BY <2>1 DEF Has
  <2>4. v \in 1..6
    BY <2>2
  <2>5. v = 6
    BY <2>3, <2>4, LicensesComeLast
  <2>6. seen[n][i] = Len(KeyOrder)
    BY <2>2, <2>5, LicensesComeLast
  <2> QED
    BY <2>1, <2>6, VerifiedIsPublished DEF LicensesInv
<1> QED
  BY <1>1, LicensesInvariant, PTL
=============================================================================
