---------------------------- MODULE ServiceProofs ----------------------------
(***************************************************************************)
(* Proofs about the services that keep versions, items and records: a      *)
(* secret, a DynamoDB table with its stream, and a Kinesis stream.         *)
(***************************************************************************)
EXTENDS SecretVersions, DynamoTables, KinesisStreams, FilteringProofs, FiniteSetTheorems,
        FunctionTheorems, SequenceTheorems, TLAPS

-----------------------------------------------------------------------------
(***************************************************************************)
(* The labels of a secret resolve: for any number of versions and clients.  *)
(***************************************************************************)

Ids == VersionIds \cup {NoVersion}
Values == SecretValues \cup {NoValue}
Version == [id : VersionIds, value : Values, stages : SUBSET Labels]
SecretRecord == [exists : BOOLEAN, versions : Seq(Version), labels : [Labels -> Ids],
                 pending : BOOLEAN, rotation : BOOLEAN]

\* no version is stored twice
Distinct(s) ==
    \A i, j \in 1..Len(s.versions) : s.versions[i].id = s.versions[j].id => i = j

\* every label that is set names a stored version
Named(s) ==
    \A l \in Labels : s.labels[l] # NoVersion =>
        \E i \in 1..Len(s.versions) : s.versions[i].id = s.labels[l]

\* the cached stages of a version are the labels that name it
Cached(s) ==
    \A i \in 1..Len(s.versions) :
        s.versions[i].stages = {l \in Labels : s.labels[l] = s.versions[i].id}

Consistent(s) == s \in SecretRecord /\ Distinct(s) /\ Named(s) /\ Cached(s)

Progress == [op : {"none", "insert", "remove", "schedule"}, record : SecretRecord]

\* a record that a client is about to insert is consistent too
SecretInv ==
    /\ Consistent(secret)
    /\ clients \in [Clients -> Progress]
    /\ \A c \in Clients : Consistent(clients[c].record)

-----------------------------------------------------------------------------
(* SecretRecord's operations.                                               *)

\* The versions that are stored, by their index.
LEMMA StoredVersions ==
    ASSUME NEW s \in SecretRecord
    PROVE  /\ \A v : v \in Stored(s) <=> \E i \in 1..Len(s.versions) : s.versions[i].id = v
           /\ Stored(s) \subseteq VersionIds
<1>1. s.versions \in Seq(Version) BY DEF SecretRecord
<1>2. DOMAIN s.versions = 1..Len(s.versions) BY <1>1
<1>3. \A i \in 1..Len(s.versions) : s.versions[i] \in Version BY <1>1
<1>4. \A i \in 1..Len(s.versions) : s.versions[i].id \in VersionIds BY <1>3 DEF Version
<1> QED BY <1>2, <1>4 DEF Stored

\* The caches are rebuilt from the labels.
LEMMA RebuiltStages ==
    ASSUME NEW s \in SecretRecord, Distinct(s), Named(s)
    PROVE  Consistent(rebuild_version_stages(s))
<1>1. s.versions \in Seq(Version) BY DEF SecretRecord
<1>2. DOMAIN s.versions = 1..Len(s.versions) BY <1>1
<1>3. PICK w : w = [i \in 1..Len(s.versions) |->
                  [s.versions[i] EXCEPT !.stages = {l \in Labels : s.labels[l] = s.versions[i].id}]]
  OBVIOUS
<1>4. \A i \in 1..Len(s.versions) :
          /\ w[i] \in Version /\ w[i].id = s.versions[i].id
          /\ w[i].stages = {l \in Labels : s.labels[l] = s.versions[i].id}
  <2> SUFFICES ASSUME NEW i \in 1..Len(s.versions)
               PROVE  /\ w[i] \in Version /\ w[i].id = s.versions[i].id
                      /\ w[i].stages = {l \in Labels : s.labels[l] = s.versions[i].id}
    OBVIOUS
  <2>1. s.versions[i] \in Version BY <1>1
  <2>2. PICK L \in SUBSET Labels : L = {l \in Labels : s.labels[l] = s.versions[i].id} OBVIOUS
  <2>3. w[i] = [s.versions[i] EXCEPT !.stages = L] BY <1>3, <2>2
  <2> QED BY <2>1, <2>2, <2>3 DEF Version
<1>5. w \in Seq(Version) /\ Len(w) = Len(s.versions)
  <2>1. w \in [1..Len(s.versions) -> Version] BY <1>3, <1>4
  <2>2. Len(s.versions) \in Nat BY <1>1
  <2> QED BY <2>1, <2>2
<1>6. PICK t : t = rebuild_version_stages(s) OBVIOUS
<1>7. t = [s EXCEPT !.versions = w] BY <1>2, <1>3, <1>6, Zenon DEF rebuild_version_stages
<1>8. t \in SecretRecord /\ t.versions = w /\ t.labels = s.labels BY <1>5, <1>7 DEF SecretRecord
<1>9. Distinct(t) BY <1>4, <1>5, <1>8 DEF Distinct
<1>10. Named(t) BY <1>4, <1>5, <1>8 DEF Named
<1>11. Cached(t) BY <1>4, <1>5, <1>8 DEF Cached
<1> QED BY <1>6, <1>8, <1>9, <1>10, <1>11 DEF Consistent

\* Retiring deprecated versions takes none that a label names.
LEMMA CleanedUp ==
    ASSUME NEW s \in SecretRecord, Distinct(s), Named(s)
    PROVE  LET t == cleanup_deprecated_versions(s)
           IN  t \in SecretRecord /\ Distinct(t) /\ Named(t)
<1>1. s.versions \in Seq(Version) /\ DOMAIN s.versions = 1..Len(s.versions)
  BY DEF SecretRecord
<1>2. PICK K : cleanup_deprecated_versions(s) =
                 [s EXCEPT !.versions = Keep(@, {s.versions[i] : i \in K})]
          /\ \A i \in 1..Len(s.versions) : s.versions[i].id \notin Deprecated(s) => i \in K
  BY <1>1 DEF cleanup_deprecated_versions
<1>3. PICK kept : kept = {s.versions[i] : i \in K} OBVIOUS
<1>4. PICK w : w = Keep(s.versions, kept) OBVIOUS
<1>5. PICK t : t = cleanup_deprecated_versions(s) OBVIOUS
<1>6. t = [s EXCEPT !.versions = w] BY <1>2, <1>3, <1>4, <1>5, Zenon
<1>7. w \in Seq(Version) BY <1>1, <1>4, KeepPlaces
<1>8. t \in SecretRecord /\ t.versions = w /\ t.labels = s.labels BY <1>6, <1>7 DEF SecretRecord
<1>9. PICK h : Places(h, w, s.versions, kept, Len(s.versions)) BY <1>1, <1>4, KeepPlaces
<1>10. Distinct(t)
  <2> SUFFICES ASSUME NEW i \in 1..Len(w), NEW j \in 1..Len(w), w[i].id = w[j].id PROVE i = j
    BY <1>8 DEF Distinct
  <2>1. h[i] \in 1..Len(s.versions) /\ h[j] \in 1..Len(s.versions) BY <1>9 DEF Places
  <2>2. w[i] = s.versions[h[i]] /\ w[j] = s.versions[h[j]] BY <1>9 DEF Places
  <2>3. h[i] = h[j] BY <2>1, <2>2 DEF Distinct
  <2>4. (i < j => h[i] < h[j]) /\ (j < i => h[j] < h[i]) BY <1>9 DEF Places
  <2> QED BY <2>1, <2>3, <2>4
<1>11. Named(t)
  <2> SUFFICES ASSUME NEW l \in Labels, s.labels[l] # NoVersion
               PROVE  \E k \in 1..Len(w) : w[k].id = s.labels[l]
    BY <1>8 DEF Named
  <2>1. PICK i \in 1..Len(s.versions) : s.versions[i].id = s.labels[l] BY DEF Named
  <2>2. s.versions[i].id \notin Deprecated(s) BY <2>1 DEF Deprecated
  <2>3. s.versions[i] \in kept BY <2>2, <1>2, <1>3
  <2>4. PICK k \in 1..Len(w) : h[k] = i BY <2>3, <1>9 DEF Places
  <2>5. w[k] = s.versions[i] BY <2>4, <1>9 DEF Places
  <2> QED BY <2>1, <2>5
<1> QED BY <1>5, <1>8, <1>10, <1>11

\* The labels after AWSCURRENT's holder became AWSPREVIOUS.
LEMMA DemotedLabels ==
    ASSUME NEW s \in SecretRecord
    PROVE  /\ Demoted(s) \in SecretRecord /\ Demoted(s).versions = s.versions
           /\ \A l \in Labels : \E m \in Labels : Demoted(s).labels[l] = s.labels[m]
<1>1. AWSCURRENT \in Labels /\ AWSPREVIOUS \in Labels BY DEF Labels
<1>2. s.labels \in [Labels -> Ids] BY DEF SecretRecord
<1>3. CASE s.labels[AWSCURRENT] = NoVersion BY <1>3 DEF Demoted
<1>4. CASE s.labels[AWSCURRENT] # NoVersion
  <2>1. PICK L : L = [s.labels EXCEPT ![AWSPREVIOUS] = s.labels[AWSCURRENT]] OBVIOUS
  <2>2. L \in [Labels -> Ids] BY <1>1, <1>2, <2>1
  <2>3. Demoted(s) = [s EXCEPT !.labels = L] BY <1>4, <2>1, Zenon DEF Demoted
  <2>4. \A l \in Labels : \E m \in Labels : L[l] = s.labels[m] BY <1>1, <1>2, <2>1
  <2> QED BY <2>2, <2>3, <2>4 DEF SecretRecord
<1> QED BY <1>3, <1>4

\* What a record with other labels needs to be consistent once rebuilt.
LEMMA Relabelled ==
    ASSUME NEW s, Consistent(s), NEW t \in SecretRecord, t.versions = s.versions,
           \A l \in Labels : \/ t.labels[l] = NoVersion
                             \/ t.labels[l] \in Stored(s)
                             \/ \E m \in Labels : t.labels[l] = s.labels[m]
    PROVE  Distinct(t) /\ Named(t)
<1>1. \A v : v \in Stored(s) <=> \E i \in 1..Len(s.versions) : s.versions[i].id = v
  BY StoredVersions DEF Consistent
<1>2. Distinct(t) BY DEF Consistent, Distinct
<1>3. Named(t) BY <1>1 DEF Consistent, Named
<1> QED BY <1>2, <1>3

\* A label moves to a stored version.
LEMMA MovedIsConsistent ==
    ASSUME NEW s, Consistent(s), NEW l \in Labels, NEW v \in Stored(s)
    PROVE  Consistent(MovedLabel(s, l, v))
<1>1. s \in SecretRecord /\ v \in Ids BY StoredVersions DEF Consistent, Ids
<1>2. PICK d : d = IF l = AWSCURRENT THEN Demoted(s) ELSE s OBVIOUS
<1>3. d \in SecretRecord /\ d.versions = s.versions
      /\ \A k \in Labels : \E m \in Labels : d.labels[k] = s.labels[m]
  BY <1>1, <1>2, DemotedLabels
<1>4. PICK L : L = [d.labels EXCEPT ![l] = v] OBVIOUS
<1>5. L \in [Labels -> Ids] /\ \A k \in Labels : L[k] = v \/ L[k] = d.labels[k]
  BY <1>1, <1>3, <1>4 DEF SecretRecord
<1>6. PICK t : t = [d EXCEPT !.labels = L] OBVIOUS
<1>7. t \in SecretRecord /\ t.versions = s.versions /\ t.labels = L
  BY <1>3, <1>5, <1>6 DEF SecretRecord
<1>8. MovedLabel(s, l, v) = rebuild_version_stages(t)
  BY <1>2, <1>4, <1>6, Zenon DEF MovedLabel
<1>9. Distinct(t) /\ Named(t) BY <1>3, <1>5, <1>7, Relabelled
<1> QED BY <1>7, <1>8, <1>9, RebuiltStages

\* A label is taken away.
LEMMA UnlabelledIsConsistent ==
    ASSUME NEW s, Consistent(s), NEW l \in Labels
    PROVE  Consistent(Unlabelled(s, l))
<1>1. s \in SecretRecord /\ NoVersion \in Ids BY DEF Consistent, Ids
<1>2. PICK L : L = [s.labels EXCEPT ![l] = NoVersion] OBVIOUS
<1>3. L \in [Labels -> Ids] /\ \A k \in Labels : L[k] = NoVersion \/ L[k] = s.labels[k]
  BY <1>1, <1>2 DEF SecretRecord
<1>4. PICK t : t = [s EXCEPT !.labels = L] OBVIOUS
<1>5. t \in SecretRecord /\ t.versions = s.versions /\ t.labels = L
  BY <1>1, <1>3, <1>4 DEF SecretRecord
<1>6. Unlabelled(s, l) = rebuild_version_stages(t) BY <1>2, <1>4, Zenon DEF Unlabelled
<1>7. Distinct(t) /\ Named(t) BY <1>3, <1>5, Relabelled
<1> QED BY <1>5, <1>6, <1>7, RebuiltStages

\* A version is added under labels that then name it.
LEMMA AddedIsConsistent ==
    ASSUME NEW s, Consistent(s), NEW v \in VersionIds, v \notin Stored(s), NEW value \in Values,
           NEW stages \in SUBSET Labels
    PROVE  Consistent(AddedVersion(s, v, value, stages))
<1>1. s \in SecretRecord /\ v \in Ids BY DEF Consistent, Ids
<1>2. PICK d : d = IF AWSCURRENT \in stages THEN Demoted(s) ELSE s OBVIOUS
<1>3. d \in SecretRecord /\ d.versions = s.versions
      /\ \A k \in Labels : \E m \in Labels : d.labels[k] = s.labels[m]
  BY <1>1, <1>2, DemotedLabels
<1>4. PICK L : L = [l \in Labels |-> IF l \in stages THEN v ELSE d.labels[l]] OBVIOUS
<1>5. L \in [Labels -> Ids] /\ \A k \in Labels : L[k] = v \/ L[k] = d.labels[k]
  BY <1>1, <1>3, <1>4 DEF SecretRecord
<1>6. PICK p : p = [d EXCEPT !.labels = L] OBVIOUS
<1>7. p \in SecretRecord /\ p.versions = s.versions /\ p.labels = L
  BY <1>3, <1>5, <1>6 DEF SecretRecord
<1>8. Promoted(s, v, stages) = p BY <1>2, <1>4, <1>6, Zenon DEF Promoted
<1>9. PICK new \in Version : new = [id |-> v, value |-> value, stages |-> {}] BY DEF Version
<1>10. PICK w : w = Append(s.versions, new) OBVIOUS
<1>11. s.versions \in Seq(Version) BY <1>1 DEF SecretRecord
<1>12. /\ w \in Seq(Version) /\ Len(w) = Len(s.versions) + 1 /\ w[Len(s.versions) + 1] = new
       /\ \A i \in 1..Len(s.versions) : w[i] = s.versions[i]
  BY <1>10, <1>11
<1>13. PICK t : t = [p EXCEPT !.versions = w] OBVIOUS
<1>14. t \in SecretRecord /\ t.versions = w /\ t.labels = L BY <1>7, <1>12, <1>13 DEF SecretRecord
<1>15. AddedVersion(s, v, value, stages) =
         rebuild_version_stages(cleanup_deprecated_versions(t))
  <2>1. t = [p EXCEPT !.versions = Append(@, [id |-> v, value |-> value, stages |-> {}])]
    BY <1>7, <1>9, <1>10, <1>13
  <2> QED BY <1>8, <2>1, Zenon DEF AddedVersion
<1>16. /\ \A i \in 1..Len(s.versions) : w[i].id # v
       /\ w[Len(s.versions) + 1].id = v
       /\ \A i \in 1..Len(w) : i \in 1..Len(s.versions) \/ i = Len(s.versions) + 1
       /\ Len(s.versions) + 1 \in 1..Len(w) /\ 1..Len(s.versions) \subseteq 1..Len(w)
  <2>1. \A i \in 1..Len(s.versions) : s.versions[i].id # v BY <1>1, StoredVersions
  <2>2. new.id = v BY <1>9
  <2> QED BY <1>11, <1>12, <2>1, <2>2
<1>17. Distinct(t)
  <2> SUFFICES ASSUME NEW i \in 1..Len(w), NEW j \in 1..Len(w), w[i].id = w[j].id PROVE i = j
    BY <1>14 DEF Distinct
  <2>1. CASE i \in 1..Len(s.versions) /\ j \in 1..Len(s.versions)
    BY <2>1, <1>12 DEF Consistent, Distinct
  <2>2. CASE i = Len(s.versions) + 1 \/ j = Len(s.versions) + 1 BY <2>2, <1>16
  <2> QED BY <2>1, <2>2, <1>16
<1>18. Named(t)
  <2> SUFFICES ASSUME NEW l \in Labels, L[l] # NoVersion
               PROVE  \E k \in 1..Len(w) : w[k].id = L[l]
    BY <1>14 DEF Named
  <2>1. CASE L[l] = v BY <2>1, <1>16
  <2>2. CASE L[l] = d.labels[l]
    <3>1. PICK m \in Labels : L[l] = s.labels[m] BY <1>3, <2>2
    <3>2. PICK k \in 1..Len(s.versions) : s.versions[k].id = L[l] BY <3>1 DEF Consistent, Named
    <3> QED BY <3>2, <1>12, <1>16
  <2> QED BY <2>1, <2>2, <1>5
<1>19. cleanup_deprecated_versions(t) \in SecretRecord
       /\ Distinct(cleanup_deprecated_versions(t)) /\ Named(cleanup_deprecated_versions(t))
  BY <1>14, <1>17, <1>18, CleanedUp
<1> QED BY <1>15, <1>19, RebuiltStages

\* Whatever add_version leads to is consistent.
LEMMA AddIsConsistent ==
    ASSUME NEW s, Consistent(s), NEW v \in VersionIds, NEW value \in Values,
           NEW stages \in SUBSET Labels, NEW t \in add_version(s, v, value, stages)
    PROVE  Consistent(t)
<1>1. CASE v \in Stored(s)
  <2>1. t = s BY <1>1 DEF add_version
  <2> QED BY <2>1
<1>2. CASE v \notin Stored(s)
  <2>1. PICK S : S = IF stages = {} THEN {AWSCURRENT} ELSE stages OBVIOUS
  <2>2. S \in SUBSET Labels BY <2>1 DEF Labels
  <2>3. t = AddedVersion(s, v, value, S) BY <1>2, <2>1 DEF add_version
  <2> QED BY <1>2, <2>2, <2>3, AddedIsConsistent
<1> QED BY <1>1, <1>2

-----------------------------------------------------------------------------
(* The operations.                                                          *)

\* The records a secret and a client start with.
LEMMA FirstRecords ==
    /\ Consistent(NoSecret) /\ Consistent(Empty)
    /\ Nothing \in Progress /\ Nothing.record = NoSecret
<1>1. NoLabels \in [Labels -> Ids] /\ \A l \in Labels : NoLabels[l] = NoVersion
  BY DEF NoLabels, Ids
<1>2. Empty \in SecretRecord /\ Empty.versions = <<>> /\ Empty.labels = NoLabels
  BY <1>1 DEF Empty, SecretRecord
<1>3. NoSecret \in SecretRecord /\ NoSecret.versions = <<>> /\ NoSecret.labels = NoLabels
  BY <1>2 DEF NoSecret, SecretRecord
<1>4. Nothing \in Progress /\ Nothing.record = NoSecret BY <1>3 DEF Nothing, Progress
<1> QED BY <1>1, <1>2, <1>3, <1>4 DEF Consistent, Distinct, Named, Cached

\* Marks that say nothing of the versions.
LEMMA MarkedIsConsistent ==
    ASSUME NEW s, Consistent(s), NEW b \in BOOLEAN
    PROVE  Consistent([s EXCEPT !.pending = b]) /\ Consistent([s EXCEPT !.rotation = b])
<1>1. s \in SecretRecord BY DEF Consistent
<1>2. ASSUME NEW t \in SecretRecord, t.versions = s.versions, t.labels = s.labels
      PROVE  Consistent(t)
  BY <1>2 DEF Consistent, Distinct, Named, Cached
<1>3. PICK p : p = [s EXCEPT !.pending = b] OBVIOUS
<1>4. PICK r : r = [s EXCEPT !.rotation = b] OBVIOUS
<1>5. /\ p \in SecretRecord /\ p.versions = s.versions /\ p.labels = s.labels
      /\ r \in SecretRecord /\ r.versions = s.versions /\ r.labels = s.labels
  BY <1>1, <1>3, <1>4 DEF SecretRecord
<1> QED BY <1>2, <1>3, <1>4, <1>5

\* One client moves on.
LEMMA ClientMoves ==
    ASSUME SecretInv, UNCHANGED secret, NEW c \in Clients, NEW r \in Progress,
           Consistent(r.record), clients' = [clients EXCEPT ![c] = r]
    PROVE  SecretInv'
<1>1. clients' \in [Clients -> Progress] BY DEF SecretInv
<1>2. \A d \in Clients : clients'[d] = clients[d] \/ clients'[d] = r BY DEF SecretInv
<1>3. \A d \in Clients : Consistent(clients'[d].record) BY <1>2 DEF SecretInv
<1> QED BY <1>1, <1>3 DEF SecretInv, Consistent, Distinct, Named, Cached

\* The secret's record is replaced by a consistent one.
LEMMA SecretChanges ==
    ASSUME SecretInv, NEW t, Consistent(t), Change(t)
    PROVE  SecretInv'
<1>1. secret' = t /\ clients' = clients BY DEF Change
<1>2. Consistent(secret)' BY <1>1 DEF Consistent, Distinct, Named, Cached
<1> QED BY <1>1, <1>2 DEF SecretInv

\* The value that a rotation starts from.
LEMMA CurrentValue ==
    ASSUME NEW s \in SecretRecord PROVE get_current_value(s) \in Values
<1>1. CASE s.labels[AWSCURRENT] \in Stored(s)
  <2>1. PICK v : v = s.labels[AWSCURRENT] OBVIOUS
  <2>2. s.versions \in Seq(Version) /\ DOMAIN s.versions = 1..Len(s.versions)
    BY DEF SecretRecord
  <2>3. \E i \in DOMAIN s.versions : s.versions[i].id = v BY <1>1, <2>1 DEF Stored
  <2>4. PICK i : i = CHOOSE k \in DOMAIN s.versions : s.versions[k].id = v OBVIOUS
  <2>5. i \in DOMAIN s.versions BY <2>3, <2>4
  <2>6. s.versions[i].value \in Values
    <3>1. s.versions[i] \in Version BY <2>2, <2>5
    <3> QED BY <3>1 DEF Version
  <2>7. get_current_value(s) = s.versions[i].value
    BY <1>1, <2>1, <2>4, Zenon DEF get_current_value, VersionOf
  <2> QED BY <2>6, <2>7
<1>2. CASE s.labels[AWSCURRENT] \notin Stored(s) BY <1>2 DEF get_current_value, Values
<1> QED BY <1>1, <1>2

\* CreateSecret builds its record before it looks at the map again.
LEMMA CreateStep ==
    ASSUME SecretInv, NEW c \in Clients, CheckCreateSecret(c) \/ InsertSecret(c)
    PROVE  SecretInv'
<1>1. CASE CheckCreateSecret(c)
  <2>1. PICK v \in VersionIds, value \in SecretValues :
            \E record \in {Empty} \cup add_version(Empty, v, value, {}) :
                clients' = [clients EXCEPT ![c] = [op |-> "insert", record |-> record]]
    BY <1>1 DEF CheckCreateSecret
  <2>2. PICK record \in {Empty} \cup add_version(Empty, v, value, {}) :
            clients' = [clients EXCEPT ![c] = [op |-> "insert", record |-> record]]
    BY <2>1
  <2>3. Consistent(record)
    <3>1. CASE record = Empty BY <3>1, FirstRecords
    <3>2. CASE record \in add_version(Empty, v, value, {})
      <4>1. value \in Values /\ {} \in SUBSET Labels BY DEF Values
      <4> QED BY <3>2, <4>1, FirstRecords, AddIsConsistent
    <3> QED BY <2>2, <3>1, <3>2
  <2>4. PICK r : r = [op |-> "insert", record |-> record] OBVIOUS
  <2>5. r \in Progress /\ r.record = record BY <2>3, <2>4 DEF Progress, Consistent
  <2>6. UNCHANGED secret BY <1>1 DEF CheckCreateSecret
  <2>7. clients' = [clients EXCEPT ![c] = r] BY <2>2, <2>4
  <2> QED BY <2>3, <2>5, <2>6, <2>7, ClientMoves
<1>2. CASE InsertSecret(c)
  <2>1. secret' = clients[c].record /\ clients' = [clients EXCEPT ![c] = Nothing]
    BY <1>2 DEF InsertSecret
  <2>2. PICK t : t = clients[c].record OBVIOUS
  <2>3. Consistent(t) BY <2>2 DEF SecretInv
  <2>4. Consistent(secret)' BY <2>1, <2>2, <2>3 DEF Consistent, Distinct, Named, Cached
  <2>5. clients' \in [Clients -> Progress] BY <2>1, FirstRecords DEF SecretInv
  <2>6. \A d \in Clients : clients'[d] = clients[d] \/ clients'[d] = Nothing
    BY <2>1 DEF SecretInv
  <2>7. \A d \in Clients : Consistent(clients'[d].record) BY <2>6, FirstRecords DEF SecretInv
  <2> QED BY <2>4, <2>5, <2>7 DEF SecretInv
<1> QED BY <1>1, <1>2

\* DeleteSecret acts on the record it finds then, whatever it saw before.
LEMMA DeleteStep ==
    ASSUME SecretInv, NEW c \in Clients, CheckDeleteSecret(c) \/ FinishDeleteSecret(c)
    PROVE  SecretInv'
<1>1. CASE CheckDeleteSecret(c)
  <2>1. PICK op \in {"remove", "schedule"} : clients' = [clients EXCEPT ![c].op = op]
    BY <1>1 DEF CheckDeleteSecret
  <2>2. clients[c] \in Progress BY DEF SecretInv
  <2>3. PICK r : r = [clients[c] EXCEPT !.op = op] OBVIOUS
  <2>4. r \in Progress /\ r.record = clients[c].record BY <2>2, <2>3 DEF Progress
  <2>5. clients' = [clients EXCEPT ![c] = r] BY <2>1, <2>3
  <2>6. UNCHANGED secret BY <1>1 DEF CheckDeleteSecret
  <2>7. Consistent(r.record) BY <2>4 DEF SecretInv
  <2> QED BY <2>4, <2>5, <2>6, <2>7, ClientMoves
<1>2. CASE FinishDeleteSecret(c)
  <2>1. clients' = [clients EXCEPT ![c] = Nothing] BY <1>2 DEF FinishDeleteSecret
  <2>2. PICK t : t = secret' OBVIOUS
  <2>3. t = NoSecret \/ t = [secret EXCEPT !.pending = TRUE]
    BY <1>2, <2>2 DEF FinishDeleteSecret
  <2>4. Consistent(t) BY <2>3, FirstRecords, MarkedIsConsistent DEF SecretInv
  <2>5. Consistent(secret)' BY <2>2, <2>4 DEF Consistent, Distinct, Named, Cached
  <2>6. clients' \in [Clients -> Progress] BY <2>1, FirstRecords DEF SecretInv
  <2>7. \A d \in Clients : clients'[d] = clients[d] \/ clients'[d] = Nothing
    BY <2>1 DEF SecretInv
  <2>8. \A d \in Clients : Consistent(clients'[d].record) BY <2>7, FirstRecords DEF SecretInv
  <2> QED BY <2>5, <2>6, <2>8 DEF SecretInv
<1> QED BY <1>1, <1>2

\* PutSecretValue, UpdateSecret and RotateSecret add a version.
LEMMA VersionStep ==
    ASSUME SecretInv, PutSecretValue \/ UpdateSecret \/ RotateSecret
    PROVE  SecretInv'
<1>1. CASE PutSecretValue \/ UpdateSecret
  <2>1. PICK v \in VersionIds, value \in SecretValues, stages \in SUBSET Labels :
            \E t \in add_version(secret, v, value, stages) : Change(t)
    <3>1. {AWSCURRENT} \in SUBSET Labels BY DEF Labels
    <3> QED BY <1>1, <3>1 DEF PutSecretValue, UpdateSecret
  <2>2. PICK t \in add_version(secret, v, value, stages) : Change(t) BY <2>1
  <2>3. Consistent(t) BY AddIsConsistent DEF SecretInv, Values
  <2> QED BY <2>2, <2>3, SecretChanges
<1>2. CASE RotateSecret
  <2>1. PICK s : s = [secret EXCEPT !.rotation = TRUE] OBVIOUS
  <2>2. Consistent(s) BY <2>1, MarkedIsConsistent DEF SecretInv
  <2>3. PICK v \in VersionIds, stage \in {AWSCURRENT, AWSPENDING} :
            \E t \in IF add_version(s, v, get_current_value(s), {stage}) = {} THEN {s}
                     ELSE add_version(s, v, get_current_value(s), {stage}) : Change(t)
    BY <1>2, <2>1 DEF RotateSecret
  <2>4. PICK t : /\ Change(t)
                 /\ t = s \/ t \in add_version(s, v, get_current_value(s), {stage})
    BY <2>3
  <2>5. {stage} \in SUBSET Labels BY DEF Labels
  <2>6. get_current_value(s) \in Values BY <2>2, CurrentValue DEF Consistent
  <2>7. Consistent(t) BY <2>2, <2>4, <2>5, <2>6, AddIsConsistent
  <2> QED BY <2>4, <2>7, SecretChanges
<1> QED BY <1>1, <1>2

\* CancelRotateSecret, UpdateSecretVersionStage and RestoreSecret.
LEMMA LabelStep ==
    ASSUME SecretInv, CancelRotateSecret \/ UpdateSecretVersionStage \/ RestoreSecret
    PROVE  SecretInv'
<1>1. Consistent(secret) BY DEF SecretInv
<1>2. CASE CancelRotateSecret
  <2>1. AWSPENDING \in Labels BY DEF Labels
  <2> QED BY <1>1, <1>2, <2>1, UnlabelledIsConsistent, SecretChanges DEF CancelRotateSecret
<1>3. CASE UpdateSecretVersionStage
  <2>1. PICK l \in Labels :
            \/ \E v \in Stored(secret) : Change(MovedLabel(secret, l, v))
            \/ Change(Unlabelled(secret, l))
    BY <1>3 DEF UpdateSecretVersionStage
  <2> QED BY <1>1, <2>1, MovedIsConsistent, UnlabelledIsConsistent, SecretChanges
<1>4. CASE RestoreSecret
  <2>1. Change([secret EXCEPT !.pending = FALSE]) BY <1>4 DEF RestoreSecret
  <2> QED BY <1>1, <2>1, MarkedIsConsistent, SecretChanges
<1> QED BY <1>2, <1>3, <1>4

\* The secret's record and every record about to replace it stay consistent.
THEOREM SecretInvariant == SecretSpec => []SecretInv
<1>1. SecretInit => SecretInv
  <2> SUFFICES ASSUME SecretInit PROVE SecretInv OBVIOUS
  <2>1. secret = NoSecret /\ clients = [c \in Clients |-> Nothing] BY DEF SecretInit
  <2> QED BY <2>1, FirstRecords DEF SecretInv
<1>2. SecretInv /\ [SecretNext]_secretVars => SecretInv'
  <2> SUFFICES ASSUME SecretInv, [SecretNext]_secretVars PROVE SecretInv' OBVIOUS
  <2>1. CASE UNCHANGED secretVars
    BY <2>1 DEF secretVars, SecretInv, Consistent, Distinct, Named, Cached
  <2>2. CASE \E c \in Clients : CheckCreateSecret(c) \/ InsertSecret(c)
    BY <2>2, CreateStep
  <2>3. CASE \E c \in Clients : CheckDeleteSecret(c) \/ FinishDeleteSecret(c)
    BY <2>3, DeleteStep
  <2>4. CASE PutSecretValue \/ UpdateSecret \/ RotateSecret BY <2>4, VersionStep
  <2>5. CASE CancelRotateSecret \/ UpdateSecretVersionStage \/ RestoreSecret
    BY <2>5, LabelStep
  <2> QED BY <2>1, <2>2, <2>3, <2>4, <2>5 DEF SecretNext
<1> QED BY <1>1, <1>2, PTL DEF SecretSpec

\* As many versions are stored as the sequence is long.
LEMMA StoredCount ==
    ASSUME NEW s, Consistent(s)
    PROVE  Cardinality(Stored(s)) = Len(s.versions)
<1>1. s \in SecretRecord /\ s.versions \in Seq(Version) BY DEF Consistent, SecretRecord
<1>2. PICK n \in Nat : n = Len(s.versions) BY <1>1
<1>3. PICK f : f = [i \in 1..n |-> s.versions[i].id] OBVIOUS
<1>4. f \in Bijection(1..n, Stored(s))
  <2>1. \A v : v \in Stored(s) <=> \E i \in 1..n : f[i] = v BY <1>1, <1>2, <1>3, StoredVersions
  <2>2. f \in [1..n -> Stored(s)] BY <1>3, <2>1
  <2>3. \A i, j \in 1..n : f[i] = f[j] => i = j BY <1>2, <1>3 DEF Consistent, Distinct
  <2>4. f \in Injection(1..n, Stored(s)) BY <2>2, <2>3, Fun_IsInj
  <2>5. f \in Surjection(1..n, Stored(s)) BY <2>1, <2>2, Fun_IsSurj
  <2> QED BY <2>4, <2>5, Zenon DEF Bijection
<1>5. IsFiniteSet(1..n) /\ Cardinality(1..n) = n BY <1>2, FS_Interval
<1>6. ExistsBijection(1..n, Stored(s)) BY <1>4, Zenon DEF ExistsBijection
<1> QED BY <1>2, <1>5, <1>6, FS_Bijection

\* A label that is set leads to one stored version, found by the label or by
\* its id, after any puts, rotations, moves and retirements
\* (resolve_version_from_record, cleanup_deprecated_versions).
THEOREM LabelsResolveAlways == SecretSpec => []LabelsResolve
<1>1. SecretInv => LabelsResolve
  <2> SUFFICES ASSUME SecretInv PROVE LabelsResolve OBVIOUS
  <2>1. Consistent(secret) /\ secret \in SecretRecord BY DEF SecretInv, Consistent
  <2>2. \A v : v \in Stored(secret) <=>
                 \E i \in 1..Len(secret.versions) : secret.versions[i].id = v
    BY <2>1, StoredVersions
  <2>3. ASSUME NEW l \in Labels, secret.labels[l] # NoVersion
        PROVE  Cardinality(FoundByStage(secret, l)) = 1
    <3>1. secret.labels[l] \in Stored(secret) BY <2>1, <2>2, <2>3 DEF Consistent, Named
    <3>2. FoundByStage(secret, l) = {secret.labels[l]} BY <3>1 DEF FoundByStage
    <3> QED BY <3>2, FS_Singleton
  <2>4. ASSUME NEW l \in Labels, NEW v \in Stored(secret)
        PROVE  (FoundByBoth(secret, v, l) # {}) = (secret.labels[l] = v)
    <3>1. DOMAIN secret.versions = 1..Len(secret.versions) BY <2>1 DEF SecretRecord
    <3>2. PICK i : i = CHOOSE k \in DOMAIN secret.versions : secret.versions[k].id = v OBVIOUS
    <3>3. i \in 1..Len(secret.versions) /\ secret.versions[i].id = v
      BY <2>2, <2>4, <3>1, <3>2
    <3>4. VersionOf(secret, v) = secret.versions[i] BY <3>2, Zenon DEF VersionOf
    <3>5. l \in VersionOf(secret, v).stages <=> secret.labels[l] = v
      BY <2>1, <3>3, <3>4 DEF Consistent, Cached
    <3>6. FoundByBoth(secret, v, l) # {} <=> l \in VersionOf(secret, v).stages
      BY <2>4 DEF FoundByBoth
    <3>7. (FoundByBoth(secret, v, l) # {}) \in BOOLEAN /\ (secret.labels[l] = v) \in BOOLEAN
      OBVIOUS
    <3> QED BY <3>5, <3>6, <3>7
  <2>5. Cardinality(Stored(secret)) = Len(secret.versions) BY <2>1, StoredCount
  <2> QED BY <2>3, <2>4, <2>5 DEF LabelsResolve
<1> QED BY <1>1, SecretInvariant, PTL

-----------------------------------------------------------------------------
(***************************************************************************)
(* A table's stream replays to its items: proof of StreamReplays for any    *)
(* number of requests, operations, items, tokens and restarts.             *)
(*                                                                         *)
(* The argument is by phases of the one request that holds the gate. While *)
(* it writes items, what it has written and not emitted stands, when added *)
(* to the records of the stream, for exactly the items of the table; while *)
(* it emits, the head of that rest moves to the end of the records. A      *)
(* request that makes or drops the table has its two phases alike. With no *)
(* holder the two agree, so that two exports behind the barrier do too.    *)
(***************************************************************************)

(* Replaying a stream.                                                      *)

Items == [ItemKeys -> Images]

\* f holds the items after each of the first n records of s
IsReplay(f, s, n) ==
    f = [i \in 0..n |-> IF i = 0 THEN NoTable.items
                        ELSE [f[i - 1] EXCEPT ![s[i].key] = s[i].new]]

\* A replay takes one more record.
LEMMA ReplayExtends ==
    ASSUME NEW s, NEW n \in Nat, NEW f, IsReplay(f, s, n)
    PROVE  \E g : /\ IsReplay(g, s, n + 1)
                  /\ g[n + 1] = [f[n] EXCEPT ![s[n + 1].key] = s[n + 1].new]
<1>1. PICK last : last = [f[n] EXCEPT ![s[n + 1].key] = s[n + 1].new] OBVIOUS
<1>2. PICK g : g = [i \in 0..(n + 1) |-> IF i = n + 1 THEN last ELSE f[i]] OBVIOUS
<1>3. ASSUME NEW i \in 0..(n + 1)
      PROVE  g[i] = IF i = 0 THEN NoTable.items
                    ELSE [g[i - 1] EXCEPT ![s[i].key] = s[i].new]
  <2>1. CASE i = n + 1
    <3>1. n \in 0..(n + 1) /\ n # n + 1 /\ i - 1 = n /\ i # 0 BY <2>1
    <3>2. g[i] = last /\ g[i - 1] = f[n] BY <2>1, <3>1, <1>2
    <3> QED BY <3>1, <3>2, <1>1, <2>1
  <2>2. CASE i = 0
    <3>1. g[0] = f[0] BY <1>2
    <3>2. f[0] = NoTable.items BY DEF IsReplay
    <3> QED BY <3>1, <3>2, <2>2
  <2>3. CASE i \in 1..n
    <3>1. i \in 0..n /\ i - 1 \in 0..(n + 1) /\ i # n + 1 /\ i - 1 # n + 1 /\ i # 0 BY <2>3
    <3>2. g[i] = f[i] /\ g[i - 1] = f[i - 1] BY <3>1, <1>2
    <3>3. f[i] = [f[i - 1] EXCEPT ![s[i].key] = s[i].new] BY <3>1 DEF IsReplay
    <3> QED BY <3>1, <3>2, <3>3
  <2> QED BY <2>1, <2>2, <2>3
<1>4. IsReplay(g, s, n + 1)
  <2>1. g = [i \in 0..(n + 1) |-> g[i]] BY <1>2
  <2> QED BY <2>1, <1>3, Zenon DEF IsReplay
<1>5. g[n + 1] = last BY <1>2
<1> QED BY <1>1, <1>4, <1>5

\* A replay is determined by its records.
LEMMA ReplayUnique ==
    ASSUME NEW s, NEW n \in Nat, NEW f, NEW g, IsReplay(f, s, n), IsReplay(g, s, n)
    PROVE  f = g
<1>1. PICK T : T = {i \in Nat : i <= n => f[i] = g[i]} OBVIOUS
<1>2. 0 \in T
  <2>1. f[0] = NoTable.items /\ g[0] = NoTable.items BY DEF IsReplay
  <2>2. 0 \in Nat /\ (0 <= n => f[0] = g[0]) BY <2>1
  <2> QED BY <1>1, <2>2, Zenon
<1>3. ASSUME NEW i \in Nat, i \in T PROVE i + 1 \in T
  <2>1. CASE i + 1 <= n
    <3>1. i + 1 \in 0..n /\ i + 1 # 0 /\ (i + 1) - 1 = i /\ i <= n BY <2>1
    <3>2. PICK k \in 0..n : k = i + 1 /\ k # 0 /\ k - 1 = i BY <3>1
    <3>3. f[k] = [f[k - 1] EXCEPT ![s[k].key] = s[k].new] BY <3>2 DEF IsReplay
    <3>4. g[k] = [g[k - 1] EXCEPT ![s[k].key] = s[k].new] BY <3>2 DEF IsReplay
    <3>5. f[k - 1] = g[k - 1] BY <1>1, <1>3, <3>1, <3>2
    <3>6. f[k] = g[k] BY <3>3, <3>4, <3>5
    <3> QED BY <3>2, <3>6, <1>1
  <2> QED BY <2>1, <1>1
<1>4. Nat \subseteq T BY <1>2, <1>3, Induction
<1>5. \A i \in 0..n : f[i] = g[i] BY <1>1, <1>4
<1>6. f = [i \in 0..n |-> f[i]] /\ g = [i \in 0..n |-> g[i]] BY Zenon DEF IsReplay
<1> QED BY <1>5, <1>6, Zenon

\* Every sequence of records can be replayed, and Rebuilt is the last of it.
LEMMA ReplayExists ==
    ASSUME NEW s, Len(s) \in Nat
    PROVE  \E f : IsReplay(f, s, Len(s)) /\ Rebuilt(s) = f[Len(s)]
<1>1. PICK T : T = {n \in Nat : \E f : IsReplay(f, s, n)} OBVIOUS
<1>2. 0 \in T
  <2>1. PICK f : f = [i \in 0..0 |-> NoTable.items] OBVIOUS
  <2>2. IsReplay(f, s, 0) BY <2>1 DEF IsReplay
  <2> QED BY <1>1, <2>2
<1>3. ASSUME NEW n \in Nat, n \in T PROVE n + 1 \in T
  <2>1. PICK f : IsReplay(f, s, n) BY <1>1, <1>3
  <2>2. PICK g : IsReplay(g, s, n + 1) BY <2>1, ReplayExtends
  <2> QED BY <1>1, <2>2
<1>4. Nat \subseteq T BY <1>2, <1>3, Induction
<1>5. \E f : IsReplay(f, s, Len(s)) BY <1>1, <1>4
<1> DEFINE chosen == CHOOSE f : IsReplay(f, s, Len(s))
<1>6. IsReplay(chosen, s, Len(s)) BY <1>5
<1>7. Rebuilt(s) = chosen[Len(s)] BY Zenon DEF Rebuilt, IsReplay
<1> HIDE DEF chosen
<1> QED BY <1>6, <1>7

\* A replay is what Rebuilt returns.
LEMMA RebuiltIs ==
    ASSUME NEW s, Len(s) \in Nat, NEW f, IsReplay(f, s, Len(s))
    PROVE  Rebuilt(s) = f[Len(s)]
<1>1. PICK g : IsReplay(g, s, Len(s)) /\ Rebuilt(s) = g[Len(s)] BY ReplayExists
<1>2. g = f BY <1>1, ReplayUnique
<1> QED BY <1>1, <1>2

\* Nothing is rebuilt of nothing.
LEMMA RebuiltEmpty == Rebuilt(<<>>) = NoTable.items
<1>1. PICK f : IsReplay(f, <<>>, Len(<<>>)) /\ Rebuilt(<<>>) = f[Len(<<>>)] BY ReplayExists
<1>2. f[0] = NoTable.items BY <1>1 DEF IsReplay
<1> QED BY <1>1, <1>2

\* One more record sets the item under its key.
LEMMA RebuiltAppend ==
    ASSUME NEW S, NEW s \in Seq(S), NEW c \in S
    PROVE  Rebuilt(Append(s, c)) = [Rebuilt(s) EXCEPT ![c.key] = c.new]
<1>1. PICK t : t = Append(s, c) OBVIOUS
<1>2. PICK n \in Nat : n = Len(s) OBVIOUS
<1>3. Len(t) = n + 1 /\ t[n + 1] = c /\ \A i \in 1..n : t[i] = s[i] BY <1>1, <1>2
<1>4. PICK f : IsReplay(f, s, n) /\ Rebuilt(s) = f[n] BY <1>2, ReplayExists
<1>5. IsReplay(f, t, n)
  <2>1. PICK r : r = [i \in 0..n |-> IF i = 0 THEN NoTable.items
                                     ELSE [f[i - 1] EXCEPT ![t[i].key] = t[i].new]] OBVIOUS
  <2>2. ASSUME NEW i \in 0..n PROVE f[i] = r[i]
    <3>1. f[i] = IF i = 0 THEN NoTable.items ELSE [f[i - 1] EXCEPT ![s[i].key] = s[i].new]
      BY <1>4 DEF IsReplay
    <3>2. i # 0 => t[i] = s[i] BY <1>3
    <3> QED BY <3>1, <3>2, <2>1
  <2>3. f = [i \in 0..n |-> f[i]] BY <1>4, Zenon DEF IsReplay
  <2>4. r = [i \in 0..n |-> r[i]] BY <2>1
  <2>5. f = r BY <2>2, <2>3, <2>4, Zenon
  <2> QED BY <2>1, <2>5, Zenon DEF IsReplay
<1>6. PICK g : /\ IsReplay(g, t, n + 1)
               /\ g[n + 1] = [f[n] EXCEPT ![t[n + 1].key] = t[n + 1].new]
  BY <1>5, ReplayExtends
<1>7. Rebuilt(t) = g[n + 1]
  <2>1. Len(t) \in Nat /\ IsReplay(g, t, Len(t)) BY <1>3, <1>6
  <2>2. Rebuilt(t) = g[Len(t)] BY <2>1, RebuiltIs
  <2> QED BY <2>2, <1>3
<1> QED BY <1>1, <1>3, <1>4, <1>6, <1>7

-----------------------------------------------------------------------------
(* A table, its stream and the request that holds the gate.                 *)

TableState == [live : BOOLEAN, streamed : BOOLEAN, items : Items]
StreamState == [live : BOOLEAN, records : Seq(PreparedChange)]
NewTables == {NewTable(TRUE), NewTable(FALSE), NoTable}
TableStep(t) == <<[table |-> t]>>
Step == PreparedChange \cup {[table |-> t] : t \in NewTables}

Handled == [at : {"new", "admitted", "writing", "ended"}, op : Operation \cup {Untouched.op},
            todo : Seq(Step), emits : Seq(Step)]

\* a table and its stream agree, record for record
Whole(t, c) ==
    /\ t.live /\ t.streamed => c.live /\ Rebuilt(c.records) = t.items
    /\ ~(t.live /\ t.streamed) => c.records = <<>>

\* what a request still has to write was prepared from the items as they are
Pending(rest, t) ==
    /\ \A i \in 1..Len(rest) : rest[i].old = t.items[rest[i].key]
    /\ \A i, j \in 1..Len(rest) : rest[i].key = rest[j].key => i = j

\* a request that writes items has written some, and emitted none of them
\* before it had written all
ItemPhase(q, t, c) ==
    /\ q.op.kind \in {"single", "transact", "batch"}
    /\ t.live
    /\ q.todo \in Seq(PreparedChange)
    /\ Pending(q.todo, t)
    /\ \E written \in Seq(PreparedChange) :
         /\ q.emits = written \o q.todo
         /\ t.streamed => c.live /\ Rebuilt(c.records \o Keep(written, Emitted)) = t.items
    /\ ~t.streamed => c.records = <<>>

\* a request that makes or drops the table changes the table, then its stream
TablePhase(q, t, c) ==
    /\ q.op.kind \in {"create", "drop"}
    /\ \E T \in NewTables :
         \/ /\ q.todo = TableStep(T) /\ q.emits = TableStep(T)
            /\ Whole(t, c) /\ (T.live => ~t.live)
         \/ q.todo = <<>> /\ q.emits = TableStep(T) /\ t = T /\ (T.live => c.records = <<>>)
         \/ q.todo = <<>> /\ q.emits = <<>> /\ Whole(t, c)

Running(q, t, c) == ItemPhase(q, t, c) \/ TablePhase(q, t, c)

\* The tables that requests make.
LEMMA NewTablesAre ==
    /\ NewTables \subseteq TableState
    /\ \A T \in NewTables : T.items = NoTable.items
    /\ NoTable.live = FALSE
    /\ \A b \in BOOLEAN : NewTable(b).live = TRUE /\ NewTable(b).streamed = b
    /\ NewStream \in StreamState /\ NewStream.live = TRUE /\ NewStream.records = <<>>
    /\ NoChangeStream \in StreamState /\ NoChangeStream.records = <<>>
<1>1. NoTable.items \in Items BY DEF NoTable, Items, Images
<1>2. NoTable \in TableState BY <1>1 DEF NoTable, TableState
<1>3. ASSUME NEW b \in BOOLEAN
      PROVE  /\ NewTable(b) \in TableState /\ NewTable(b).items = NoTable.items
             /\ NewTable(b).live = TRUE /\ NewTable(b).streamed = b
  BY <1>2 DEF NewTable, TableState
<1>4. NoTable.live = FALSE BY DEF NoTable
<1>5. NoChangeStream \in StreamState /\ NoChangeStream.records = <<>>
  BY DEF NoChangeStream, StreamState
<1>6. NewStream \in StreamState /\ NewStream.live = TRUE /\ NewStream.records = <<>>
  BY <1>5 DEF NewStream, StreamState
<1> QED BY <1>2, <1>3, <1>4, <1>5, <1>6 DEF NewTables

\* Changes of items and changes of the table are told apart.
LEMMA StepKinds ==
    /\ \A change \in PreparedChange : "table" \notin DOMAIN change
    /\ \A T : "table" \in DOMAIN [table |-> T] /\ [table |-> T].table = T
<1>1. ASSUME NEW change \in PreparedChange PROVE "table" \notin DOMAIN change
  BY DEF PreparedChange
<1> QED BY <1>1

\* A prepared change is a change.
LEMMA PreparedType ==
    ASSUME table \in TableState, NEW op \in Operation, NEW action \in Action
    PROVE  /\ Prepared(op, action) \in PreparedChange
           /\ Prepared(op, action).key = action.key
           /\ Prepared(op, action).old = table.items[action.key]
<1>1. action.key \in ItemKeys /\ action.val \in Images BY DEF Action
<1>2. table.items[action.key] \in Images BY <1>1 DEF TableState, Items
<1>3. NewImage(op, action, table.items[action.key]) \in Images
  <2>1. PICK old : old = table.items[action.key] OBVIOUS
  <2>2. Absent \in Images /\ KeysOnly \in Images BY DEF Images
  <2>3. action.act \in {"put", "set", "strip", "delete", "check"} BY DEF Action
  <2>4. NewImage(op, action, old) \in {action.val, Absent, KeysOnly}
    <3>1. CASE action.act \in {"put", "set"} BY <3>1 DEF NewImage
    <3>2. CASE action.act = "strip" BY <3>2 DEF NewImage
    <3>3. CASE action.act \in {"delete", "check"} BY <3>3 DEF NewImage
    <3> QED BY <2>3, <3>1, <3>2, <3>3
  <2> QED BY <1>1, <2>1, <2>2, <2>4
<1>4. PICK new : new = NewImage(op, action, table.items[action.key]) OBVIOUS
<1>5. PICK b : b = (action.act # "check") OBVIOUS
<1>6. Prepared(op, action) = [key |-> action.key, old |-> table.items[action.key],
                              new |-> new, mutate |-> b]
  BY <1>4, <1>5, Zenon DEF Prepared
<1>7. b \in BOOLEAN BY <1>5
<1> QED BY <1>1, <1>2, <1>3, <1>4, <1>6, <1>7 DEF PreparedChange

\* A function on 1..n is a sequence.
LEMMA SequenceOf ==
    ASSUME NEW S, NEW n \in Nat, NEW w \in [1..n -> S]
    PROVE  w \in Seq(S) /\ Len(w) = n
OBVIOUS

\* What a request that writes items prepares.
LEMMA ItemWrites ==
    ASSUME table \in TableState, NEW op \in Operation,
           op.kind \in {"single", "transact", "batch"}
    PROVE  /\ op.actions \in Seq(Action)
           /\ Writes(op) \in Seq(PreparedChange) /\ Len(Writes(op)) = Len(op.actions)
           /\ \A i \in 1..Len(op.actions) :
                /\ Writes(op)[i].key = op.actions[i].key
                /\ Writes(op)[i].old = table.items[op.actions[i].key]
<1>1. PICK as \in Seq(Action) : as = op.actions BY DEF Operation
<1>2. PICK w : w = [i \in 1..Len(as) |-> Prepared(op, as[i])] OBVIOUS
<1>3. Writes(op) = w
  <2>1. Writes(op) = [i \in DOMAIN as |-> Prepared(op, as[i])] BY <1>1 DEF Writes
  <2> QED BY <2>1, <1>1, <1>2
<1>4. ASSUME NEW i \in 1..Len(as)
      PROVE  /\ w[i] \in PreparedChange /\ w[i].key = as[i].key
             /\ w[i].old = table.items[as[i].key]
  <2>1. as[i] \in Action BY <1>1
  <2>2. w[i] = Prepared(op, as[i]) BY <1>2
  <2> QED BY <2>1, <2>2, PreparedType
<1>5. w \in Seq(PreparedChange) /\ Len(w) = Len(as)
  <2>1. PICK n \in Nat : n = Len(as) BY <1>1
  <2>2. w = [i \in 1..n |-> Prepared(op, as[i])] BY <1>2, <2>1
  <2>3. w = [i \in 1..n |-> w[i]] BY <2>2
  <2>4. w \in [1..n -> PreparedChange] BY <1>4, <2>1, <2>3
  <2>5. w \in Seq(PreparedChange) /\ Len(w) = n BY <2>1, <2>4, SequenceOf
  <2> QED BY <2>1, <2>5
<1> QED BY <1>1, <1>3, <1>4, <1>5

\* What a request writes.
LEMMA WritesAre ==
    ASSUME table \in TableState, NEW op \in Operation
    PROVE  Writes(op) \in Seq(Step)
<1>1. CASE op.kind = "create"
  <2>1. PICK T : T = NewTable(op.stream) OBVIOUS
  <2>2. T \in NewTables BY <2>1 DEF NewTables, Operation
  <2>3. Writes(op) = TableStep(T) BY <1>1, <2>1 DEF Writes, TableStep
  <2> QED BY <2>2, <2>3 DEF TableStep, Step
<1>2. CASE op.kind = "drop"
  <2>1. NoTable \in NewTables BY DEF NewTables
  <2>2. Writes(op) = TableStep(NoTable) BY <1>2 DEF Writes, TableStep
  <2> QED BY <2>1, <2>2 DEF TableStep, Step
<1>3. CASE op.kind \in {"single", "transact", "batch"}
  <2>1. Writes(op) \in Seq(PreparedChange) BY <1>3, ItemWrites
  <2> QED BY <2>1, SeqMonotonic DEF Step
<1> QED BY <1>1, <1>2, <1>3 DEF Operation

\* A request that is let in starts from a table and a stream that agree.
LEMMA BeginsRunning ==
    ASSUME table \in TableState, changes \in StreamState, Whole(table, changes),
           NEW q, q.op \in Operation, ~Refused(q.op),
           q.todo = Writes(q.op), q.emits = Writes(q.op)
    PROVE  Running(q, table, changes)
<1>1. CASE q.op.kind = "create"
  <2>1. PICK T : T = NewTable(q.op.stream) OBVIOUS
  <2>2. T \in NewTables BY <2>1 DEF NewTables, Operation
  <2>3. q.todo = TableStep(T) /\ q.emits = TableStep(T) BY <1>1, <2>1 DEF Writes, TableStep
  <2>4. ~table.live BY <1>1 DEF Refused
  <2> QED BY <1>1, <2>2, <2>3, <2>4 DEF Running, TablePhase
<1>2. CASE q.op.kind = "drop"
  <2>1. NoTable \in NewTables BY DEF NewTables
  <2>2. q.todo = TableStep(NoTable) /\ q.emits = TableStep(NoTable)
    BY <1>2 DEF Writes, TableStep
  <2> QED BY <1>2, <2>1, <2>2, NewTablesAre DEF Running, TablePhase
<1>3. CASE q.op.kind \in {"single", "transact", "batch"}
  <2>1. PICK as \in Seq(Action) : as = q.op.actions BY <1>3, ItemWrites
  <2>2. PICK w \in Seq(PreparedChange) : w = Writes(q.op) BY <1>3, ItemWrites
  <2>3. \A i \in 1..Len(as) : w[i].key = as[i].key /\ w[i].old = table.items[as[i].key]
    BY <1>3, <2>1, <2>2, ItemWrites
  <2>4. Len(w) = Len(as) BY <1>3, <2>1, <2>2, ItemWrites
  <2>5. table.live /\ ~Duplicates(q.op) BY <1>3 DEF Refused
  <2>6. \A i, j \in 1..Len(as) : as[i].key = as[j].key => i = j
    <3>1. DOMAIN as = 1..Len(as) BY <2>1
    <3> QED BY <2>1, <2>5, <3>1 DEF Duplicates
  <2>7. Pending(w, table)
    <3>1. \A i \in 1..Len(w) : w[i].old = table.items[w[i].key] BY <2>3, <2>4
    <3>2. \A i, j \in 1..Len(w) : w[i].key = w[j].key => i = j BY <2>3, <2>4, <2>6
    <3> QED BY <3>1, <3>2 DEF Pending
  <2>8. PICK written \in Seq(PreparedChange) : written = <<>>
    <3>1. <<>> \in Seq(PreparedChange) OBVIOUS
    <3> QED BY <3>1, Zenon
  <2>9. q.emits = written \o q.todo BY <2>2, <2>4, <2>8
  <2>10. changes.records \o Keep(written, Emitted) = changes.records
    <3>1. changes.records \in Seq(PreparedChange) BY DEF StreamState
    <3>2. PICK e : e = Keep(written, Emitted) OBVIOUS
    <3>3. e = <<>> BY <2>8, <3>2, KeepEmpty
    <3>4. changes.records \o e = changes.records BY <3>1, <3>3
    <3> QED BY <3>2, <3>4
  <2> QED BY <1>3, <2>2, <2>4, <2>5, <2>7, <2>9, <2>10 DEF Running, ItemPhase, Whole
<1>4. q.op.kind \in {"create", "drop", "single", "transact", "batch"} BY DEF Operation
<1> QED BY <1>1, <1>2, <1>3, <1>4

\* Taking the head off a sequence.
LEMMA HeadAndTail ==
    ASSUME NEW S, NEW s \in Seq(S), s # <<>>
    PROVE  /\ Head(s) \in S /\ Tail(s) \in Seq(S)
           /\ s = <<Head(s)>> \o Tail(s) /\ Len(Tail(s)) = Len(s) - 1
           /\ Head(s) = s[1] /\ \A i \in 1..Len(Tail(s)) : Tail(s)[i] = s[i + 1]
<1>1. Len(s) \in Nat /\ Len(s) # 0 OBVIOUS
<1>2. PICK h, k : h = Head(s) /\ k = Tail(s) OBVIOUS
<1>3. h \in S /\ h = s[1] BY <1>1, <1>2
<1>4. k \in Seq(S) /\ Len(k) = Len(s) - 1 /\ \A i \in 1..Len(k) : k[i] = s[i + 1]
  BY <1>1, <1>2
<1>5. s = <<h>> \o k
  <2>1. PICK u : u = <<h>> \o k OBVIOUS
  <2>2. <<h>> \in Seq(S) /\ Len(<<h>>) = 1 BY <1>3
  <2>3. u \in Seq(S) /\ Len(u) = Len(s) BY <1>1, <1>4, <2>1, <2>2
  <2>4. ASSUME NEW i \in 1..Len(s) PROVE u[i] = s[i]
    <3>1. CASE i = 1 BY <3>1, <1>3, <2>1, <2>2, <1>4
    <3>2. CASE i # 1
      <4>1. i - 1 \in 1..Len(k) /\ (i - 1) + 1 = i BY <3>2, <1>1, <1>4
      <4>2. u[i] = k[i - 1] BY <4>1, <3>2, <2>1, <2>2, <1>4
      <4> QED BY <4>1, <4>2, <1>4
    <3> QED BY <3>1, <3>2
  <2> QED BY <2>1, <2>3, <2>4, SeqEqual
<1> QED BY <1>2, <1>3, <1>4, <1>5

\* An element at the end is a sequence of one at the end.
LEMMA AppendIs ==
    ASSUME NEW S, NEW s \in Seq(S), NEW u \in Seq(S), NEW c \in S
    PROVE  /\ s \o u \in Seq(S)
           /\ Append(u, c) \in Seq(S) /\ <<c>> \in Seq(S)
           /\ Append(u, c) = u \o <<c>>
           /\ s \o Append(u, c) = Append(s \o u, c)
<1>1. <<c>> \in Seq(S) OBVIOUS
<1>2. Append(u, c) = u \o <<c>> OBVIOUS
<1>3. PICK r \in Seq(S) : r = s \o u
  <2>1. s \o u \in Seq(S) BY ConcatProperties
  <2> QED BY <2>1, Zenon
<1>4. Append(r, c) = r \o <<c>> BY <1>3
<1>5. (s \o u) \o <<c>> = s \o (u \o <<c>>) BY <1>1, ConcatAssociative
<1>6. Append(u, c) \in Seq(S) OBVIOUS
<1> QED BY <1>1, <1>2, <1>3, <1>4, <1>5, <1>6, Zenon

\* What a consumer has rebuilt, once one more change is published.
LEMMA OneMoreWritten ==
    ASSUME NEW cs \in Seq(PreparedChange), NEW w \in Seq(PreparedChange), NEW c \in PreparedChange
    PROVE  Rebuilt(cs \o Keep(Append(w, c), Emitted))
           = IF c \in Emitted THEN [Rebuilt(cs \o Keep(w, Emitted)) EXCEPT ![c.key] = c.new]
             ELSE Rebuilt(cs \o Keep(w, Emitted))
<1>1. PICK k \in Seq(PreparedChange) : k = Keep(w, Emitted) BY KeepPlaces
<1>2. PICK r \in Seq(PreparedChange) : r = cs \o k BY <1>1, ConcatProperties
<1>3. Keep(Append(w, c), Emitted) = IF c \in Emitted THEN Append(k, c) ELSE k
  BY <1>1, KeepAppend
<1>4. cs \o Append(k, c) = Append(r, c) BY <1>1, <1>2, AppendIs
<1>5. r \in Seq(PreparedChange) BY <1>2
<1>6. Rebuilt(Append(r, c)) = [Rebuilt(r) EXCEPT ![c.key] = c.new] BY <1>5, RebuiltAppend
<1> QED BY <1>1, <1>2, <1>3, <1>4, <1>6

\* An item is written: the head of what was pending is now among the written.
LEMMA ItemWritten ==
    ASSUME NEW t \in TableState, NEW c \in StreamState, NEW q \in Handled, ItemPhase(q, t, c),
           q.todo # <<>>, NEW change, change = Head(q.todo), NEW t1,
           t1 = IF change.mutate THEN [t EXCEPT !.items[change.key] = change.new] ELSE t,
           NEW q1, q1.op = q.op, q1.emits = q.emits, q1.todo = Tail(q.todo)
    PROVE  change \in PreparedChange /\ t1 \in TableState /\ ItemPhase(q1, t1, c)
<1>1. PICK todo \in Seq(PreparedChange) : todo = q.todo /\ Pending(todo, t) BY DEF ItemPhase
<1>2. PICK rest \in Seq(PreparedChange) : rest = Tail(todo) BY <1>1, HeadAndTail
<1>3. /\ change \in PreparedChange /\ todo = <<change>> \o rest /\ Len(rest) = Len(todo) - 1
      /\ change = todo[1] /\ \A i \in 1..Len(rest) : rest[i] = todo[i + 1]
  BY <1>1, <1>2, HeadAndTail
<1>4. /\ change.key \in ItemKeys /\ change.new \in Images /\ change.mutate \in BOOLEAN
      /\ change.old \in Images
  BY <1>3 DEF PreparedChange
<1>5. t.items \in Items /\ t.live \in BOOLEAN /\ t.streamed \in BOOLEAN BY DEF TableState
<1>6. PICK items : items = [t.items EXCEPT ![change.key] = change.new] OBVIOUS
<1>7. items \in Items BY <1>4, <1>5, <1>6 DEF Items
<1>8. /\ t1 \in TableState /\ t1.live = t.live /\ t1.streamed = t.streamed
      /\ t1.items = IF change.mutate THEN items ELSE t.items
  <2>1. CASE change.mutate
    <3>1. t1 = [t EXCEPT !.items = items] BY <2>1, <1>6
    <3>2. t1 = [live |-> t.live, streamed |-> t.streamed, items |-> items]
      BY <3>1 DEF TableState
    <3> QED BY <2>1, <3>2, <1>5, <1>7 DEF TableState
  <2>2. CASE ~change.mutate BY <2>2
  <2> QED BY <2>1, <2>2
<1>9. change.old = t.items[change.key]
  <2>1. 1 \in 1..Len(todo)
    <3>1. Len(todo) \in Nat /\ Len(rest) \in Nat BY <1>1, <1>2
    <3> QED BY <3>1, <1>3
  <2> QED BY <2>1, <1>1, <1>3 DEF Pending
<1>10. Pending(rest, t1)
  <2>1. ASSUME NEW i \in 1..Len(rest) PROVE i + 1 \in 1..Len(todo) /\ 1 \in 1..Len(todo) /\ i + 1 # 1
    <3>1. Len(todo) \in Nat /\ Len(rest) \in Nat BY <1>1, <1>2
    <3> QED BY <3>1, <1>3
  <2>2. ASSUME NEW i \in 1..Len(rest) PROVE rest[i].old = t1.items[rest[i].key]
    <3>1. rest[i] = todo[i + 1] /\ rest[i] \in PreparedChange BY <1>2, <1>3
    <3>2. rest[i].old = t.items[rest[i].key] BY <3>1, <2>1, <1>1 DEF Pending
    <3>3. rest[i].key # change.key BY <3>1, <2>1, <1>1, <1>3 DEF Pending
    <3>4. rest[i].key \in ItemKeys BY <3>1 DEF PreparedChange
    <3>5. items[rest[i].key] = t.items[rest[i].key] BY <3>3, <3>4, <1>5, <1>6 DEF Items
    <3> QED BY <3>2, <3>5, <1>8
  <2>3. ASSUME NEW i \in 1..Len(rest), NEW j \in 1..Len(rest), rest[i].key = rest[j].key
        PROVE  i = j
    <3>1. todo[i + 1].key = todo[j + 1].key BY <2>3, <1>3
    <3>2. i + 1 = j + 1 BY <3>1, <2>1, <1>1 DEF Pending
    <3> QED BY <3>2
  <2> QED BY <2>2, <2>3 DEF Pending
<1>11. PICK written \in Seq(PreparedChange) :
         /\ q.emits = written \o q.todo
         /\ t.streamed => c.live /\ Rebuilt(c.records \o Keep(written, Emitted)) = t.items
  BY DEF ItemPhase
<1>12. change \in PreparedChange BY <1>3
<1>13. PICK more : more = Append(written, change) OBVIOUS
<1>14. more \in Seq(PreparedChange) /\ more = written \o <<change>> /\ <<change>> \in Seq(PreparedChange)
  BY <1>11, <1>12, <1>13
<1>15. q1.emits = more \o rest
  <2>1. written \o (<<change>> \o rest) = (written \o <<change>>) \o rest BY <1>2, <1>14, ConcatAssociative
  <2>2. written \o <<change>> = more BY <1>14
  <2> QED BY <2>1, <2>2, <1>1, <1>3, <1>11
<1>16. ASSUME t.streamed PROVE Rebuilt(c.records \o Keep(more, Emitted)) = t1.items
  <2>1. written \in Seq(PreparedChange) BY <1>11
  <2>2. PICK cs \in Seq(PreparedChange) : cs = c.records BY Zenon DEF StreamState
  <2>3. PICK w \in Seq(PreparedChange) : w = written BY <1>11
  <2>4. Rebuilt(cs \o Keep(w, Emitted)) = t.items BY <1>11, <1>16, <2>2, <2>3
  <2>5. PICK d \in PreparedChange : d = change BY <1>12
  <2>6. Rebuilt(cs \o Keep(Append(w, d), Emitted))
        = IF d \in Emitted THEN [Rebuilt(cs \o Keep(w, Emitted)) EXCEPT ![d.key] = d.new]
          ELSE Rebuilt(cs \o Keep(w, Emitted))
    BY OneMoreWritten
  <2>7. Rebuilt(cs \o Keep(more, Emitted)) = IF change \in Emitted THEN items ELSE t.items
    BY <2>3, <2>4, <2>5, <2>6, <1>6, <1>13
  <2>8. CASE change \in Emitted
    <3>1. change.mutate BY <2>8 DEF Emitted, EmitsRecord
    <3> QED BY <2>2, <2>8, <2>7, <3>1, <1>8
  <2>9. CASE change \notin Emitted
    <3>1. t1.items = t.items
      <4>1. CASE ~change.mutate BY <4>1, <1>8
      <4>2. CASE change.mutate
        <5>1. change.old = Absent /\ change.new = Absent
          BY <4>2, <2>9, <1>3 DEF Emitted, EmitsRecord
        <5>2. items = t.items
          <6>1. ASSUME NEW k \in ItemKeys PROVE items[k] = t.items[k]
            BY <5>1, <1>9, <1>4, <1>5, <1>6 DEF Items
          <6>2. items = [k \in ItemKeys |-> items[k]] BY <1>7 DEF Items
          <6>3. t.items = [k \in ItemKeys |-> t.items[k]] BY <1>5 DEF Items
          <6> QED BY <6>1, <6>2, <6>3, Zenon
        <5> QED BY <4>2, <5>2, <1>8
      <4> QED BY <4>1, <4>2
    <3> QED BY <2>2, <2>9, <2>7, <3>1
  <2> QED BY <2>8, <2>9
<1> QED BY <1>1, <1>2, <1>3, <1>8, <1>10, <1>11, <1>15, <1>16, <1>14 DEF ItemPhase

\* The first element moves to the end of what is in front.
LEMMA Regrouped ==
    ASSUME NEW S, NEW s \in Seq(S), NEW u \in Seq(S), NEW c \in S
    PROVE  s \o (<<c>> \o u) = Append(s, c) \o u
<1>1. PICK one \in Seq(S) : one = <<c>>
  <2>1. <<c>> \in Seq(S) OBVIOUS
  <2> QED BY <2>1, Zenon
<1>2. (s \o one) \o u = s \o (one \o u) BY ConcatAssociative
<1>3. Append(s, c) = s \o one BY <1>1
<1> QED BY <1>1, <1>2, <1>3

\* What a consumer rebuilds does not change when a written change is emitted.
LEMMA OneMoreEmitted ==
    ASSUME NEW cs \in Seq(PreparedChange), NEW k \in Seq(PreparedChange), NEW c \in PreparedChange
    PROVE  cs \o Keep(<<c>> \o k, Emitted)
           = (IF c \in Emitted THEN Append(cs, c) ELSE cs) \o Keep(k, Emitted)
<1>1. \A u \in Seq(PreparedChange) : cs \o (<<c>> \o u) = Append(cs, c) \o u BY Regrouped
<1>2. PICK e \in Seq(PreparedChange) : e = Keep(k, Emitted) BY KeepPlaces
<1>3. cs \o (<<c>> \o e) = Append(cs, c) \o e BY <1>1, <1>2
<1>4. FirstKept(c, k, Emitted) BY KeepFirst
<1> QED BY <1>2, <1>3, <1>4 DEF FirstKept

\* An item's record is emitted: what was written and not emitted loses its head.
LEMMA ItemEmitted ==
    ASSUME NEW t \in TableState, NEW c \in StreamState, NEW q \in Handled, ItemPhase(q, t, c),
           q.todo = <<>>, q.emits # <<>>, NEW change, change = Head(q.emits), NEW c1,
           c1 = IF t.streamed /\ c.live /\ EmitsRecord(change)
                THEN [c EXCEPT !.records = Append(@, change)] ELSE c,
           NEW q1, q1.op = q.op, q1.todo = q.todo, q1.emits = Tail(q.emits)
    PROVE  change \in PreparedChange /\ c1 \in StreamState /\ ItemPhase(q1, t, c1)
<1>1. PICK w \in Seq(PreparedChange) :
        /\ q.emits = w \o q.todo
        /\ t.streamed => c.live /\ Rebuilt(c.records \o Keep(w, Emitted)) = t.items
  BY DEF ItemPhase
<1>2. w = q.emits BY <1>1, ConcatEmptySeq
<1>3. PICK k \in Seq(PreparedChange) : k = Tail(w)
  <2>1. w # <<>> BY <1>2
  <2> QED BY <2>1, <1>1, HeadAndTail
<1>4. change \in PreparedChange /\ w = <<change>> \o k BY <1>1, <1>2, <1>3, HeadAndTail
<1>5. PICK cs \in Seq(PreparedChange) : cs = c.records BY Zenon DEF StreamState
<1>6. c.live \in BOOLEAN /\ t.streamed \in BOOLEAN BY DEF StreamState, TableState
<1>7. /\ c1 \in StreamState /\ c1.live = c.live
      /\ c1.records = IF t.streamed /\ c.live /\ change \in Emitted THEN Append(cs, change) ELSE cs
  <2>1. EmitsRecord(change) <=> change \in Emitted BY <1>4 DEF Emitted
  <2>2. Append(cs, change) \in Seq(PreparedChange) BY <1>4, <1>5
  <2>3. c = [live |-> c.live, records |-> cs] BY <1>5 DEF StreamState
  <2>4. [c EXCEPT !.records = Append(@, change)] = [live |-> c.live, records |-> Append(cs, change)]
    <3>1. PICK rs : rs = Append(cs, change) OBVIOUS
    <3>2. [c EXCEPT !.records = Append(@, change)] = [c EXCEPT !.records = rs] BY <3>1, <1>5
    <3>3. [c EXCEPT !.records = rs] = [live |-> c.live, records |-> rs] BY DEF StreamState
    <3> QED BY <3>1, <3>2, <3>3
  <2> QED BY <2>1, <2>2, <2>3, <2>4, <1>5, <1>6 DEF StreamState
<1>8. ASSUME t.streamed
      PROVE  c1.live /\ Rebuilt(c1.records \o Keep(k, Emitted)) = t.items
  <2>1. c.live /\ Rebuilt(cs \o Keep(w, Emitted)) = t.items BY <1>1, <1>5, <1>8
  <2>2. PICK d \in PreparedChange : d = change BY <1>4
  <2>3. cs \o Keep(<<d>> \o k, Emitted)
        = (IF d \in Emitted THEN Append(cs, d) ELSE cs) \o Keep(k, Emitted)
    BY <1>3, OneMoreEmitted
  <2>4. cs \o Keep(w, Emitted) = c1.records \o Keep(k, Emitted)
    BY <2>1, <2>2, <2>3, <1>4, <1>7, <1>8
  <2> QED BY <2>1, <2>4, <1>7
<1>9. ~t.streamed => c1.records = <<>> BY <1>5, <1>7 DEF ItemPhase
<1>10. q1.emits = k \o q1.todo BY <1>2, <1>3, ConcatEmptySeq
<1> QED BY <1>4, <1>7, <1>8, <1>9, <1>10 DEF ItemPhase

\* A request that has emitted all it wrote leaves a table and a stream that agree.
LEMMA ItemDone ==
    ASSUME NEW t \in TableState, NEW c \in StreamState, NEW q, ItemPhase(q, t, c),
           q.todo = <<>>, q.emits = <<>>
    PROVE  Whole(t, c)
<1>1. PICK w \in Seq(PreparedChange) :
        /\ q.emits = w \o q.todo
        /\ t.streamed => c.live /\ Rebuilt(c.records \o Keep(w, Emitted)) = t.items
  BY DEF ItemPhase
<1>2. w = <<>> BY <1>1, ConcatEmptySeq
<1>3. PICK cs \in Seq(PreparedChange) : cs = c.records BY Zenon DEF StreamState
<1>4. PICK e : e = Keep(w, Emitted) OBVIOUS
<1>5. e = <<>> BY <1>2, <1>4, KeepEmpty
<1>6. cs \o e = cs BY <1>3, <1>5, ConcatEmptySeq
<1> QED BY <1>1, <1>3, <1>4, <1>6 DEF Whole, ItemPhase

\* The table is made or dropped.
LEMMA TableWritten ==
    ASSUME NEW t \in TableState, NEW c \in StreamState, NEW q \in Handled, TablePhase(q, t, c),
           q.todo # <<>>, NEW change, change = Head(q.todo),
           NEW q1, q1.op = q.op, q1.emits = q.emits, q1.todo = Tail(q.todo)
    PROVE  /\ "table" \in DOMAIN change /\ change.table \in TableState
           /\ TablePhase(q1, change.table, c)
<1>1. PICK T \in NewTables : /\ q.todo = TableStep(T) /\ q.emits = TableStep(T)
                             /\ Whole(t, c) /\ (T.live => ~t.live)
  BY DEF TablePhase
<1>2. change = [table |-> T] /\ q1.todo = <<>> BY <1>1 DEF TableStep
<1>3. "table" \in DOMAIN change /\ change.table = T BY <1>2
<1>4. T \in TableState BY <1>1, NewTablesAre
<1>5. T.live => c.records = <<>> BY <1>1 DEF Whole
<1> QED BY <1>1, <1>2, <1>3, <1>4, <1>5 DEF TablePhase

\* The stream follows the table that was made or dropped.
LEMMA TableEmitted ==
    ASSUME NEW t \in TableState, changes \in StreamState, NEW q \in Handled,
           TablePhase(q, t, changes), q.todo = <<>>, q.emits # <<>>,
           NEW change, change = Head(q.emits),
           NEW q1, q1.op = q.op, q1.todo = q.todo, q1.emits = Tail(q.emits)
    PROVE  /\ "table" \in DOMAIN change /\ Lifecycle(change) \in StreamState
           /\ TablePhase(q1, t, Lifecycle(change))
<1>1. PICK T \in NewTables : q.emits = TableStep(T) /\ t = T /\ (T.live => changes.records = <<>>)
  <2>1. ASSUME NEW T \in NewTables, q.todo = TableStep(T) PROVE FALSE
    <3>1. Len(TableStep(T)) = 1 BY DEF TableStep
    <3>2. Len(<<>>) = 0 OBVIOUS
    <3> QED BY <2>1, <3>1, <3>2
  <2> QED BY <2>1 DEF TablePhase
<1>2. change = [table |-> T] /\ q1.emits = <<>> BY <1>1 DEF TableStep
<1>3. "table" \in DOMAIN change /\ change.table = T BY <1>2
<1>4. T \in TableState /\ T.items = NoTable.items BY <1>1, NewTablesAre
<1>5. T = NoTable \/ (T.live /\ T.streamed \in BOOLEAN)
  BY <1>1, NewTablesAre DEF NewTables
<1>6. Lifecycle(change) \in StreamState /\ Whole(t, Lifecycle(change))
  <2>1. CASE ~T.live
    <3>1. Lifecycle(change) = NoChangeStream BY <2>1, <1>3 DEF Lifecycle
    <3> QED BY <2>1, <3>1, <1>1, NewTablesAre DEF Whole
  <2>2. CASE T.live /\ T.streamed
    <3>1. Lifecycle(change) = NewStream BY <2>2, <1>3 DEF Lifecycle
    <3> QED BY <2>2, <3>1, <1>1, <1>4, NewTablesAre, RebuiltEmpty DEF Whole
  <2>3. CASE T.live /\ ~T.streamed
    <3>1. Lifecycle(change) = changes BY <2>3, <1>3 DEF Lifecycle
    <3> QED BY <2>3, <3>1, <1>1 DEF Whole
  <2> QED BY <2>1, <2>2, <2>3
<1>7. q1.op.kind \in {"create", "drop"} BY DEF TablePhase
<1> QED BY <1>1, <1>2, <1>3, <1>6, <1>7 DEF TablePhase

\* A request that has made or dropped the table leaves a stream that agrees.
LEMMA TableDone ==
    ASSUME NEW t, NEW c, NEW q, TablePhase(q, t, c), q.todo = <<>>, q.emits = <<>>
    PROVE  Whole(t, c)
BY DEF TablePhase, TableStep

-----------------------------------------------------------------------------
(* The inductive invariant.                                                 *)

Archived == [table : TableState, changes : StreamState]
TrackerState == [closed : BOOLEAN, failed : BOOLEAN,
                 barrier : {"none", "draining", "quiet", "unhealthy", "half", "exported"}]
TokenState == [actions : Seq(Action), fresh : BOOLEAN, known : BOOLEAN]

StateTypes ==
    /\ table \in TableState /\ changes \in StreamState /\ archive \in Archived
    /\ requests \in [Requests -> Handled] /\ gate \in Requests \cup {NoRequest}
    /\ tracker \in TrackerState
    /\ tokens \in [Tokens -> TokenState] /\ applied \in [Tokens -> 0..1]

\* the gate is held by the one request that is writing
GateHeld ==
    /\ \A r \in Requests : requests[r].at = "writing" <=> gate = r
    /\ \A r \in Requests : requests[r].at \in {"admitted", "writing"} => requests[r].op \in Operations

\* the table and its stream agree, but for what the holder of the gate has
\* still to write and to emit, and unless a request panicked
Published ==
    /\ gate # NoRequest => ~tracker.failed /\ Running(requests[gate], table, changes)
    /\ gate = NoRequest /\ ~tracker.failed => Whole(table, changes)

\* nothing runs and nothing has panicked from the barrier on
BarrierHolds ==
    /\ tracker.failed => tracker.closed
    /\ tracker.barrier # "none" => tracker.closed
    /\ tracker.barrier \in {"quiet", "half", "exported"} =>
         ~tracker.failed /\ \A r \in Requests : requests[r].at \in {"new", "ended"}

\* so both exports are of the same state
ArchiveWhole ==
    /\ tracker.barrier = "half" => archive.table = table
    /\ tracker.barrier # "half" => Whole(archive.table, archive.changes)

\* the token of an applied transaction is in its window, and the request that
\* holds the gate has found its own token out of it
TokensOnce ==
    /\ \A t \in Tokens : (applied[t] = 1 => tokens[t].fresh) /\ (tokens[t].fresh => tokens[t].known)
    /\ gate # NoRequest =>
         \A t \in Tokens : requests[gate].op.kind = "transact" /\ requests[gate].op.token = t
                           => applied[t] = 0

DynamoInv ==
    StateTypes /\ GateHeld /\ Published /\ BarrierHolds /\ ArchiveWhole /\ TokensOnce

\* What the other requests are is unchanged.
LEMMA RequestSet ==
    ASSUME NEW f \in [Requests -> Handled], NEW r \in Requests, NEW q \in Handled,
           NEW g, g = [f EXCEPT ![r] = q]
    PROVE  g \in [Requests -> Handled] /\ g[r] = q /\ \A s \in Requests \ {r} : g[s] = f[s]
OBVIOUS

\* A request ends.
LEMMA RequestEnded ==
    ASSUME requests \in [Requests -> Handled], NEW r \in Requests, requests' = Ended(r)
    PROVE  /\ requests' \in [Requests -> Handled]
           /\ requests'[r].at = "ended"
           /\ \A s \in Requests \ {r} : requests'[s] = requests[s]
<1>1. PICK q : q = [requests[r] EXCEPT !.at = "ended", !.todo = <<>>, !.emits = <<>>] OBVIOUS
<1>2. requests' = [requests EXCEPT ![r] = q] BY <1>1 DEF Ended
<1>3. q = [at |-> "ended", op |-> requests[r].op, todo |-> <<>>, emits |-> <<>>]
  BY <1>1 DEF Handled
<1>4. <<>> \in Seq(Step) OBVIOUS
<1>5. q \in Handled /\ q.at = "ended" BY <1>3, <1>4 DEF Handled
<1> QED BY <1>2, <1>5, RequestSet

\* A first process, or one started from a snapshot of an empty table.
LEMMA InvInit == DynamoInit => DynamoInv
<1> SUFFICES ASSUME DynamoInit PROVE DynamoInv OBVIOUS
<1>1. archive \in Archived /\ Whole(archive.table, archive.changes)
  <2>1. NoTable \in TableState /\ NewTable(TRUE) \in TableState BY NewTablesAre DEF NewTables
  <2>2. Whole(NoTable, NoChangeStream) BY NewTablesAre DEF Whole
  <2>3. Whole(NewTable(TRUE), NewStream)
    <3>1. NewTable(TRUE).items = NoTable.items BY NewTablesAre DEF NewTables
    <3> QED BY <3>1, NewTablesAre, RebuiltEmpty DEF Whole
  <2>4. CASE archive = [table |-> NoTable, changes |-> NoChangeStream]
    BY <2>1, <2>2, <2>4, NewTablesAre DEF Archived
  <2>5. CASE archive = [table |-> NewTable(TRUE), changes |-> NewStream]
    BY <2>1, <2>3, <2>5, NewTablesAre DEF Archived
  <2> QED BY <2>4, <2>5 DEF DynamoInit
<1>2. Untouched \in Handled /\ Untouched.at = "new"
  <2>1. <<>> \in Seq(Step) OBVIOUS
  <2> QED BY <2>1 DEF Untouched, Handled
<1>3. NoTransaction \in TokenState /\ NoTransaction.fresh = FALSE
  <2>1. <<>> \in Seq(Action) OBVIOUS
  <2> QED BY <2>1 DEF NoTransaction, TokenState
<1>4. NewRequestTracker \in TrackerState BY DEF NewRequestTracker, TrackerState
<1>5. \A r \in Requests : requests[r] = Untouched BY DEF DynamoInit
<1>6. StateTypes
  <2>1. table \in TableState /\ changes \in StreamState BY <1>1 DEF DynamoInit, Archived
  <2>2. requests \in [Requests -> Handled] BY <1>2 DEF DynamoInit
  <2>3. tokens \in [Tokens -> TokenState] /\ applied \in [Tokens -> 0..1] BY <1>3 DEF DynamoInit
  <2> QED BY <2>1, <2>2, <2>3, <1>1, <1>4 DEF DynamoInit, StateTypes
<1>7. GateHeld BY <1>2, <1>5, DynamoAssumption DEF GateHeld, DynamoInit
<1>8. Published BY <1>1 DEF Published, DynamoInit
<1>9. BarrierHolds BY DEF BarrierHolds, DynamoInit, NewRequestTracker
<1>10. ArchiveWhole BY <1>1 DEF ArchiveWhole, DynamoInit, NewRequestTracker
<1>11. TokensOnce BY <1>3 DEF TokensOnce, DynamoInit
<1> QED BY <1>6, <1>7, <1>8, <1>9, <1>10, <1>11 DEF DynamoInv

\* A request that is admitted is not yet at the gate.
LEMMA InvAdmit ==
    ASSUME DynamoInv, NEW r \in Requests, NEW op \in Operations, Admit(r, op)
    PROVE  DynamoInv'
<1> USE DEF DynamoInv, Admit
<1>1. PICK q : q = [requests[r] EXCEPT !.at = "admitted", !.op = op] OBVIOUS
<1>2. requests' = [requests EXCEPT ![r] = q] BY <1>1
<1>3. q = [at |-> "admitted", op |-> op, todo |-> requests[r].todo, emits |-> requests[r].emits]
  BY <1>1 DEF StateTypes, Handled
<1>4. requests[r] \in Handled /\ op \in Operation BY DynamoAssumption DEF StateTypes
<1>5. q \in Handled /\ q.at = "admitted" /\ q.op = op BY <1>3, <1>4 DEF Handled
<1>6. /\ requests' \in [Requests -> Handled] /\ requests'[r] = q
      /\ \A s \in Requests \ {r} : requests'[s] = requests[s]
  BY <1>2, <1>5 DEF StateTypes
<1>7. gate # r BY DEF GateHeld
<1>8. gate # NoRequest => requests'[gate] = requests[gate] BY <1>6, <1>7 DEF StateTypes
<1>9. StateTypes' BY <1>6 DEF StateTypes
<1>10. GateHeld' BY <1>5, <1>6, <1>7 DEF GateHeld
<1>11. Published' BY <1>8 DEF Published
<1>12. BarrierHolds' BY DEF BarrierHolds
<1>13. ArchiveWhole' BY DEF ArchiveWhole
<1>14. TokensOnce' BY <1>8 DEF TokensOnce
<1> QED BY <1>9, <1>10, <1>11, <1>12, <1>13, <1>14

\* A request turned away by a closed tracker has changed nothing.
LEMMA InvTurnedAway ==
    ASSUME DynamoInv, NEW r \in Requests, TurnedAway(r)
    PROVE  DynamoInv'
<1> USE DEF DynamoInv, TurnedAway
<1>1. /\ requests' \in [Requests -> Handled] /\ requests'[r].at = "ended"
      /\ \A s \in Requests \ {r} : requests'[s] = requests[s]
  BY RequestEnded DEF StateTypes
<1>2. StateTypes' BY <1>1 DEF StateTypes
<1>3. GateHeld' BY <1>1, DynamoAssumption DEF GateHeld
<1>4. Published' BY DEF Published
<1>5. BarrierHolds' BY <1>1 DEF BarrierHolds
<1>6. ArchiveWhole' BY DEF ArchiveWhole
<1>7. TokensOnce' BY DEF TokensOnce
<1> QED BY <1>2, <1>3, <1>4, <1>5, <1>6, <1>7

\* The tokens that a transaction's request has kept are in their window.
LEMMA TokensRetained ==
    ASSUME StateTypes, TokensOnce
    PROVE  /\ [t \in Tokens |-> Retained(t)] \in [Tokens -> TokenState]
           /\ \A t \in Tokens : /\ applied[t] = 1 => Retained(t).fresh /\ Known(t)
                                /\ Retained(t).fresh => Retained(t).known
<1>1. NoTransaction \in TokenState /\ ~NoTransaction.fresh
  <2>1. <<>> \in Seq(Action) OBVIOUS
  <2> QED BY <2>1 DEF NoTransaction, TokenState
<1>2. ASSUME NEW t \in Tokens
      PROVE  /\ Retained(t) \in TokenState
             /\ applied[t] = 1 => Retained(t).fresh /\ Known(t)
             /\ Retained(t).fresh => Retained(t).known
  <2>1. tokens[t] \in TokenState BY DEF StateTypes
  <2>2. Retained(t) = IF tokens[t].fresh THEN tokens[t] ELSE NoTransaction BY DEF Retained
  <2>3. (applied[t] = 1 => tokens[t].fresh) /\ (tokens[t].fresh => tokens[t].known)
    BY DEF TokensOnce
  <2> QED BY <1>1, <2>1, <2>2, <2>3 DEF Known
<1> QED BY <1>2

\* A request takes the gate over a table and a stream that agree, with a token
\* that no transaction of its window has used.
LEMMA InvBegin ==
    ASSUME DynamoInv, NEW r \in Requests, Begin(r)
    PROVE  DynamoInv'
<1> USE DEF DynamoInv
<1>1. PICK op : op = requests[r].op OBVIOUS
<1>2. /\ requests[r].at = "admitted" /\ gate = NoRequest /\ ~tracker.closed
      /\ tokens' = IF op.kind = "transact" /\ op.token # NoToken
                   THEN [t \in Tokens |-> Retained(t)] ELSE tokens
      /\ IF AnsweredByToken(op) \/ Refused(op)
         THEN requests' = Ended(r) /\ UNCHANGED gate
         ELSE /\ requests' = [requests EXCEPT ![r].at = "writing", ![r].todo = Writes(op),
                                              ![r].emits = Writes(op)]
              /\ gate' = r
      /\ UNCHANGED <<table, changes, tracker, archive, restarts, applied>>
  BY <1>1 DEF Begin
<1>3. op \in Operation BY <1>1, <1>2, DynamoAssumption DEF GateHeld
<1>4. /\ tokens' \in [Tokens -> TokenState]
      /\ \A t \in Tokens : (applied[t] = 1 => tokens'[t].fresh) /\ (tokens'[t].fresh => tokens'[t].known)
  <2>1. CASE tokens' = tokens BY <2>1 DEF StateTypes, TokensOnce
  <2>2. CASE tokens' = [t \in Tokens |-> Retained(t)] BY <2>2, TokensRetained
  <2> QED BY <2>1, <2>2, <1>2
<1>5. ~tracker.failed /\ tracker.barrier = "none" BY <1>2 DEF BarrierHolds, StateTypes, TrackerState
<1>6. Whole(table, changes) BY <1>2, <1>5 DEF Published
<1>7. BarrierHolds' BY <1>2, <1>5 DEF BarrierHolds
<1>8. ArchiveWhole' BY <1>2 DEF ArchiveWhole
<1>9. CASE AnsweredByToken(op) \/ Refused(op)
  <2>1. requests' = Ended(r) /\ gate' = gate BY <1>2, <1>9
  <2>2. /\ requests' \in [Requests -> Handled] /\ requests'[r].at = "ended"
        /\ \A s \in Requests \ {r} : requests'[s] = requests[s]
    BY <2>1, RequestEnded DEF StateTypes
  <2>3. StateTypes' BY <1>2, <1>4, <2>1, <2>2 DEF StateTypes
  <2>4. GateHeld' BY <1>2, <2>1, <2>2, DynamoAssumption DEF GateHeld
  <2>5. Published' BY <1>2, <1>6, <2>1 DEF Published
  <2>6. TokensOnce' BY <1>2, <1>4, <2>1 DEF TokensOnce
  <2> QED BY <2>3, <2>4, <2>5, <2>6, <1>7, <1>8
<1>10. CASE ~AnsweredByToken(op) /\ ~Refused(op)
  <2>1. /\ requests' = [requests EXCEPT ![r].at = "writing", ![r].todo = Writes(op),
                                        ![r].emits = Writes(op)]
        /\ gate' = r
    BY <1>2, <1>10
  <2>2. PICK w : w = Writes(op) OBVIOUS
  <2>3. PICK q : q = [requests[r] EXCEPT !.at = "writing", !.todo = w, !.emits = w] OBVIOUS
  <2>4. requests' = [requests EXCEPT ![r] = q] BY <2>1, <2>2, <2>3
  <2>5. q = [at |-> "writing", op |-> op, todo |-> w, emits |-> w]
    BY <1>1, <2>3 DEF StateTypes, Handled
  <2>6. w \in Seq(Step) BY <1>3, <2>2, WritesAre DEF StateTypes
  <2>7. q \in Handled /\ q.at = "writing" /\ q.op = op /\ q.todo = w /\ q.emits = w
    BY <1>3, <2>5, <2>6 DEF Handled
  <2>8. /\ requests' \in [Requests -> Handled] /\ requests'[r] = q
        /\ \A s \in Requests \ {r} : requests'[s] = requests[s]
    BY <2>4, <2>7 DEF StateTypes
  <2>9. StateTypes' BY <1>2, <1>4, <2>1, <2>8 DEF StateTypes
  <2>10. GateHeld' BY <1>1, <1>2, <2>1, <2>7, <2>8, DynamoAssumption DEF GateHeld
  <2>11. Published'
    <3>1. q.todo = Writes(q.op) /\ q.emits = Writes(q.op) /\ ~Refused(q.op) /\ q.op \in Operation
      BY <1>3, <1>10, <2>2, <2>7
    <3>2. Running(q, table, changes) BY <1>6, <2>7, <3>1, BeginsRunning DEF StateTypes
    <3> QED BY <1>2, <1>5, <2>1, <2>8, <3>2, DynamoAssumption DEF Published
  <2>12. TokensOnce'
    <3>1. ASSUME NEW t \in Tokens, op.kind = "transact", op.token = t PROVE applied[t] = 0
      <4>1. t # NoToken BY DynamoAssumption
      <4>2. ~Known(t) BY <3>1, <4>1, <1>10 DEF AnsweredByToken, Replayed
      <4>3. applied[t] # 1 BY <4>2, TokensRetained
      <4> QED BY <4>3 DEF StateTypes
    <3> QED BY <1>2, <1>4, <2>1, <2>7, <2>8, <3>1 DEF TokensOnce
  <2> QED BY <2>9, <2>10, <2>11, <2>12, <1>7, <1>8
<1> QED BY <1>9, <1>10

\* The request that writes or emits holds the gate.
LEMMA HolderRuns ==
    ASSUME DynamoInv, NEW r \in Requests, requests[r].at = "writing"
    PROVE  /\ gate = r /\ r # NoRequest /\ requests[r] \in Handled
           /\ requests[r].op \in Operation
           /\ ~tracker.failed /\ Running(requests[r], table, changes)
           /\ tracker.barrier \notin {"quiet", "half", "exported"}
<1>1. gate = r /\ requests[r].op \in Operation BY DynamoAssumption DEF DynamoInv, GateHeld
<1>2. requests[r] \in Handled BY DEF DynamoInv, StateTypes
<1>3. r # NoRequest BY DynamoAssumption
<1>4. ~tracker.failed /\ Running(requests[r], table, changes)
  BY <1>1, <1>3 DEF DynamoInv, Published
<1>5. tracker.barrier \notin {"quiet", "half", "exported"} BY DEF DynamoInv, BarrierHolds
<1> QED BY <1>1, <1>2, <1>3, <1>4, <1>5

\* A write moves the head of what is pending to what is written.
LEMMA InvWriteChange ==
    ASSUME DynamoInv, NEW r \in Requests, WriteChange(r)
    PROVE  DynamoInv'
<1> USE DEF DynamoInv
<1>1. requests[r].at = "writing" BY DEF WriteChange
<1>2. PICK q \in Handled : q = requests[r] BY <1>1, HolderRuns
<1>3. PICK change : change = Head(q.todo) OBVIOUS
<1>4. /\ q.todo # <<>>
      /\ table' = IF "table" \in DOMAIN change THEN change.table
                  ELSE IF change.mutate THEN [table EXCEPT !.items[change.key] = change.new] ELSE table
      /\ requests' = [requests EXCEPT ![r].todo = Tail(@)]
      /\ UNCHANGED <<changes, tokens, gate, tracker, archive, restarts, applied>>
  BY <1>2, <1>3 DEF WriteChange
<1>5. PICK rest : rest = Tail(q.todo) OBVIOUS
<1>6. PICK q1 : q1 = [requests[r] EXCEPT !.todo = rest] OBVIOUS
<1>7. requests' = [requests EXCEPT ![r] = q1] BY <1>2, <1>4, <1>5, <1>6 DEF StateTypes
<1>8. q1 = [at |-> q.at, op |-> q.op, todo |-> rest, emits |-> q.emits]
  BY <1>2, <1>6 DEF Handled
<1>9. q1.op = q.op /\ q1.emits = q.emits /\ q1.todo = Tail(q.todo) /\ q1.at = "writing"
  BY <1>1, <1>2, <1>5, <1>8
<1>10. q1 \in Handled
  <2>1. q.todo \in Seq(Step) BY DEF Handled
  <2>2. rest \in Seq(Step) BY <2>1, <1>4, <1>5, HeadAndTail
  <2> QED BY <2>2, <1>8 DEF Handled
<1>11. /\ requests' \in [Requests -> Handled] /\ requests'[r] = q1
       /\ \A s \in Requests \ {r} : requests'[s] = requests[s]
  BY <1>7, <1>10 DEF StateTypes
<1>12. table' \in TableState /\ Running(q1, table', changes)
  <2>1. PICK t \in TableState : t = table BY DEF StateTypes
  <2>2. PICK c \in StreamState : c = changes BY DEF StateTypes
  <2>3. Running(q, t, c) BY <1>1, <1>2, <2>1, <2>2, HolderRuns
  <2>4. CASE ItemPhase(q, t, c)
    <3>1. PICK t1 : t1 = IF change.mutate THEN [t EXCEPT !.items[change.key] = change.new] ELSE t
      OBVIOUS
    <3>2. change \in PreparedChange /\ t1 \in TableState /\ ItemPhase(q1, t1, c)
      BY <1>3, <1>4, <1>9, <2>4, <3>1, ItemWritten
    <3>3. table' = t1 BY <1>4, <2>1, <3>1, <3>2, StepKinds
    <3> QED BY <2>2, <3>2, <3>3 DEF Running
  <2>5. CASE TablePhase(q, t, c)
    <3>1. /\ "table" \in DOMAIN change /\ change.table \in TableState
          /\ TablePhase(q1, change.table, c)
      BY <1>3, <1>4, <1>9, <2>5, TableWritten
    <3> QED BY <1>4, <2>2, <3>1 DEF Running
  <2> QED BY <2>3, <2>4, <2>5 DEF Running
<1>13. StateTypes' BY <1>4, <1>11, <1>12 DEF StateTypes
<1>14. GateHeld' BY <1>1, <1>2, <1>4, <1>9, <1>11 DEF GateHeld
<1>15. Published' BY <1>1, <1>4, <1>11, <1>12, HolderRuns DEF Published
<1>16. BarrierHolds' BY <1>1, <1>4, HolderRuns DEF BarrierHolds
<1>17. ArchiveWhole' BY <1>1, <1>4, HolderRuns DEF ArchiveWhole
<1>18. TokensOnce' BY <1>1, <1>2, <1>4, <1>9, <1>11, HolderRuns DEF TokensOnce
<1> QED BY <1>13, <1>14, <1>15, <1>16, <1>17, <1>18

\* A record is emitted from the head of what is written.
LEMMA InvEmitChange ==
    ASSUME DynamoInv, NEW r \in Requests, EmitChange(r)
    PROVE  DynamoInv'
<1> USE DEF DynamoInv
<1>1. requests[r].at = "writing" BY DEF EmitChange
<1>2. PICK q \in Handled : q = requests[r] BY <1>1, HolderRuns
<1>3. PICK change : change = Head(q.emits) OBVIOUS
<1>4. /\ q.todo = <<>> /\ q.emits # <<>>
      /\ changes' = IF "table" \in DOMAIN change THEN Lifecycle(change)
                    ELSE IF table.streamed /\ changes.live /\ EmitsRecord(change)
                         THEN Appended(change) ELSE changes
      /\ requests' = [requests EXCEPT ![r].emits = Tail(@)]
      /\ UNCHANGED <<table, tokens, gate, tracker, archive, restarts, applied>>
  BY <1>2, <1>3 DEF EmitChange
<1>5. PICK rest : rest = Tail(q.emits) OBVIOUS
<1>6. PICK q1 : q1 = [requests[r] EXCEPT !.emits = rest] OBVIOUS
<1>7. requests' = [requests EXCEPT ![r] = q1] BY <1>2, <1>4, <1>5, <1>6 DEF StateTypes
<1>8. q1 = [at |-> q.at, op |-> q.op, todo |-> q.todo, emits |-> rest]
  BY <1>2, <1>6 DEF Handled
<1>9. q1.op = q.op /\ q1.todo = q.todo /\ q1.emits = Tail(q.emits) /\ q1.at = "writing"
  BY <1>1, <1>2, <1>5, <1>8
<1>10. q1 \in Handled
  <2>1. q.emits \in Seq(Step) BY DEF Handled
  <2>2. rest \in Seq(Step) BY <2>1, <1>4, <1>5, HeadAndTail
  <2> QED BY <2>2, <1>8 DEF Handled
<1>11. /\ requests' \in [Requests -> Handled] /\ requests'[r] = q1
       /\ \A s \in Requests \ {r} : requests'[s] = requests[s]
  BY <1>7, <1>10 DEF StateTypes
<1>12. changes' \in StreamState /\ Running(q1, table, changes')
  <2>1. PICK t \in TableState : t = table BY DEF StateTypes
  <2>2. PICK c \in StreamState : c = changes BY DEF StateTypes
  <2>3. Running(q, t, c) BY <1>1, <1>2, <2>1, <2>2, HolderRuns
  <2>4. CASE ItemPhase(q, t, c)
    <3>1. PICK c1 : c1 = IF t.streamed /\ c.live /\ EmitsRecord(change)
                         THEN [c EXCEPT !.records = Append(@, change)] ELSE c
      OBVIOUS
    <3>2. change \in PreparedChange /\ c1 \in StreamState /\ ItemPhase(q1, t, c1)
      BY <1>3, <1>4, <1>9, <2>4, <3>1, ItemEmitted
    <3>3. changes' = c1 BY <1>4, <2>1, <2>2, <3>1, <3>2, StepKinds DEF Appended
    <3> QED BY <2>1, <3>2, <3>3 DEF Running
  <2>5. CASE TablePhase(q, t, c)
    <3>1. changes \in StreamState /\ TablePhase(q, t, changes) BY <2>2, <2>5
    <3>2. /\ "table" \in DOMAIN change /\ Lifecycle(change) \in StreamState
          /\ TablePhase(q1, t, Lifecycle(change))
      BY <1>3, <1>4, <1>9, <3>1, TableEmitted
    <3> QED BY <1>4, <2>1, <3>2 DEF Running
  <2> QED BY <2>3, <2>4, <2>5 DEF Running
<1>13. StateTypes' BY <1>4, <1>11, <1>12 DEF StateTypes
<1>14. GateHeld' BY <1>1, <1>2, <1>4, <1>9, <1>11 DEF GateHeld
<1>15. Published' BY <1>1, <1>4, <1>11, <1>12, HolderRuns DEF Published
<1>16. BarrierHolds' BY <1>1, <1>4, HolderRuns DEF BarrierHolds
<1>17. ArchiveWhole' BY <1>4 DEF ArchiveWhole
<1>18. TokensOnce' BY <1>1, <1>2, <1>4, <1>9, <1>11, HolderRuns DEF TokensOnce
<1> QED BY <1>13, <1>14, <1>15, <1>16, <1>17, <1>18

\* A request gives the gate back when all it wrote is emitted, and stores its token.
LEMMA InvFinish ==
    ASSUME DynamoInv, NEW r \in Requests, Finish(r)
    PROVE  DynamoInv'
<1> USE DEF DynamoInv
<1>1. PICK op : op = requests[r].op OBVIOUS
<1>2. /\ requests[r].at = "writing" /\ requests[r].todo = <<>> /\ requests[r].emits = <<>>
      /\ gate' = NoRequest /\ requests' = Ended(r)
      /\ UNCHANGED <<table, changes, tracker, archive, restarts>>
      /\ IF op.kind = "transact" /\ op.token # NoToken
         THEN /\ tokens' = [tokens EXCEPT ![op.token] =
                              [actions |-> op.actions, fresh |-> TRUE, known |-> TRUE]]
              /\ applied' = [applied EXCEPT ![op.token] = @ + 1]
         ELSE UNCHANGED <<tokens, applied>>
  BY <1>1 DEF Finish
<1>3. /\ gate = r /\ r # NoRequest /\ op \in Operation /\ ~tracker.failed
      /\ Running(requests[r], table, changes)
      /\ tracker.barrier \notin {"quiet", "half", "exported"}
  BY <1>1, <1>2, HolderRuns
<1>4. /\ requests' \in [Requests -> Handled] /\ requests'[r].at = "ended"
      /\ \A s \in Requests \ {r} : requests'[s] = requests[s]
  BY <1>2, RequestEnded DEF StateTypes
<1>5. Whole(table, changes)
  <2>1. CASE ItemPhase(requests[r], table, changes) BY <2>1, <1>2, ItemDone DEF StateTypes
  <2>2. CASE TablePhase(requests[r], table, changes) BY <2>2, <1>2, TableDone
  <2> QED BY <2>1, <2>2, <1>3 DEF Running
<1>6. /\ tokens' \in [Tokens -> TokenState] /\ applied' \in [Tokens -> 0..1]
      /\ \A t \in Tokens : (applied'[t] = 1 => tokens'[t].fresh) /\ (tokens'[t].fresh => tokens'[t].known)
  <2>1. CASE op.kind = "transact" /\ op.token # NoToken
    <3>1. PICK tk \in Tokens : tk = op.token BY <1>3, <2>1 DEF Operation
    <3>2. PICK entry : entry = [actions |-> op.actions, fresh |-> TRUE, known |-> TRUE] OBVIOUS
    <3>3. op.actions \in Seq(Action) BY <1>3 DEF Operation
    <3>4. entry \in TokenState /\ entry.fresh /\ entry.known BY <3>2, <3>3 DEF TokenState
    <3>5. applied[tk] = 0 BY <1>1, <1>3, <2>1, <3>1 DEF TokensOnce
    <3>6. tokens' = [tokens EXCEPT ![tk] = entry] /\ applied' = [applied EXCEPT ![tk] = 1]
      BY <1>2, <2>1, <3>1, <3>2, <3>5
    <3> QED BY <3>1, <3>4, <3>6 DEF StateTypes, TokensOnce
  <2>2. CASE ~(op.kind = "transact" /\ op.token # NoToken)
    <3>1. tokens' = tokens /\ applied' = applied BY <1>2, <2>2
    <3> QED BY <3>1 DEF StateTypes, TokensOnce
  <2> QED BY <2>1, <2>2
<1>7. StateTypes' BY <1>2, <1>4, <1>6 DEF StateTypes
<1>8. GateHeld' BY <1>2, <1>3, <1>4, DynamoAssumption DEF GateHeld
<1>9. Published' BY <1>2, <1>5 DEF Published
<1>10. BarrierHolds' BY <1>2, <1>3 DEF BarrierHolds
<1>11. ArchiveWhole' BY <1>2 DEF ArchiveWhole
<1>12. TokensOnce' BY <1>2, <1>6 DEF TokensOnce
<1> QED BY <1>7, <1>8, <1>9, <1>10, <1>11, <1>12

\* A panic leaves the table and the stream apart, and the tracker closed and failed.
LEMMA InvPanic ==
    ASSUME DynamoInv, NEW r \in Requests, Panic(r)
    PROVE  DynamoInv'
<1> USE DEF DynamoInv
<1>1. /\ gate = r /\ gate' = NoRequest /\ tracker' = Panicked /\ requests' = Ended(r)
      /\ UNCHANGED <<table, changes, tokens, archive, restarts, applied>>
  BY DEF Panic
<1>2. requests[r].at = "writing" BY <1>1 DEF GateHeld
<1>3. tracker.barrier \notin {"quiet", "half", "exported"} BY <1>2, HolderRuns
<1>4. /\ tracker' \in TrackerState /\ tracker'.closed /\ tracker'.failed
      /\ tracker'.barrier = tracker.barrier
  <2>1. tracker \in TrackerState BY DEF StateTypes
  <2>2. PICK k : k = [tracker EXCEPT !.closed = TRUE, !.failed = TRUE] OBVIOUS
  <2>3. k = [closed |-> TRUE, failed |-> TRUE, barrier |-> tracker.barrier]
    BY <2>1, <2>2 DEF TrackerState
  <2> QED BY <2>1, <2>2, <2>3, <1>1 DEF Panicked, TrackerState
<1>5. /\ requests' \in [Requests -> Handled] /\ requests'[r].at = "ended"
      /\ \A s \in Requests \ {r} : requests'[s] = requests[s]
  BY <1>1, RequestEnded DEF StateTypes
<1>6. StateTypes' BY <1>1, <1>4, <1>5 DEF StateTypes
<1>7. GateHeld' BY <1>1, <1>5, DynamoAssumption DEF GateHeld
<1>8. Published' BY <1>1, <1>4 DEF Published
<1>9. BarrierHolds' BY <1>3, <1>4 DEF BarrierHolds
<1>10. ArchiveWhole' BY <1>1, <1>3, <1>4 DEF ArchiveWhole
<1>11. TokensOnce' BY <1>1 DEF TokensOnce
<1> QED BY <1>6, <1>7, <1>8, <1>9, <1>10, <1>11

\* The token that leaves its window takes its count with it.
LEMMA InvWindowEnds ==
    ASSUME DynamoInv, NEW t \in Tokens, WindowEnds(t)
    PROVE  DynamoInv'
<1> USE DEF DynamoInv
<1>1. /\ tokens' = [tokens EXCEPT ![t].fresh = FALSE]
      /\ applied' = [applied EXCEPT ![t] = 0]
      /\ UNCHANGED <<table, changes, gate, requests, tracker, archive, restarts>>
  BY DEF WindowEnds
<1>2. PICK entry : entry = [tokens[t] EXCEPT !.fresh = FALSE] OBVIOUS
<1>3. tokens[t] \in TokenState BY DEF StateTypes
<1>4. entry = [actions |-> tokens[t].actions, fresh |-> FALSE, known |-> tokens[t].known]
  BY <1>2, <1>3 DEF TokenState
<1>5. entry \in TokenState /\ ~entry.fresh BY <1>3, <1>4 DEF TokenState
<1>6. tokens' = [tokens EXCEPT ![t] = entry] BY <1>1, <1>2
<1>7. StateTypes'
  <2>1. tokens' \in [Tokens -> TokenState] BY <1>5, <1>6 DEF StateTypes
  <2>2. 0 \in 0..1 /\ applied \in [Tokens -> 0..1] BY DEF StateTypes
  <2>3. applied' \in [Tokens -> 0..1] BY <1>1, <2>2
  <2> QED BY <2>1, <2>3, <1>1 DEF StateTypes
<1>8. TokensOnce' BY <1>1, <1>5, <1>6 DEF TokensOnce, StateTypes
<1>9. GateHeld' BY <1>1 DEF GateHeld
<1>10. Published' BY <1>1 DEF Published
<1>11. BarrierHolds' BY <1>1 DEF BarrierHolds
<1>12. ArchiveWhole' BY <1>1 DEF ArchiveWhole
<1> QED BY <1>7, <1>8, <1>9, <1>10, <1>11, <1>12

\* The barrier and the exports leave the requests alone.
LEMMA InvBarrier ==
    ASSUME DynamoInv, Close \/ PermitsBack \/ ExportTables \/ ExportStreams
    PROVE  DynamoInv'
<1> USE DEF DynamoInv
<1>1. tracker \in TrackerState /\ archive \in Archived BY DEF StateTypes
<1>2. UNCHANGED <<table, changes, tokens, gate, requests, applied>>
  BY DEF Close, PermitsBack, ExportTables, ExportStreams, BarrierStep
<1>3. GateHeld' BY <1>2 DEF GateHeld
<1>4. TokensOnce' BY <1>2 DEF TokensOnce
<1>5. SUFFICES /\ tracker' \in TrackerState /\ archive' \in Archived
               /\ tracker'.failed = tracker.failed
               /\ BarrierHolds' /\ ArchiveWhole'
  <2>1. StateTypes' BY <1>2, <1>5 DEF StateTypes
  <2>2. Published' BY <1>2, <1>5 DEF Published
  <2> QED BY <1>3, <1>4, <1>5, <2>1, <2>2
<1>6. CASE Close
  <2>1. tracker' = [tracker EXCEPT !.closed = TRUE, !.barrier = "draining"] /\ archive' = archive
        /\ tracker.barrier = "none"
    BY <1>6 DEF Close
  <2>2. tracker' = [closed |-> TRUE, failed |-> tracker.failed, barrier |-> "draining"]
    BY <1>1, <2>1 DEF TrackerState
  <2>3. tracker' \in TrackerState /\ tracker'.closed /\ tracker'.failed = tracker.failed
        /\ tracker'.barrier = "draining"
    BY <1>1, <2>2 DEF TrackerState
  <2>4. BarrierHolds' BY <2>3 DEF BarrierHolds
  <2>5. ArchiveWhole' BY <1>2, <2>1, <2>3 DEF ArchiveWhole
  <2> QED BY <1>1, <2>1, <2>3, <2>4, <2>5
<1>7. ASSUME NEW from, NEW to \in {"quiet", "unhealthy", "half", "exported"}, BarrierStep(from, to)
      PROVE  /\ tracker' \in TrackerState /\ tracker'.failed = tracker.failed
             /\ tracker'.closed = tracker.closed /\ tracker'.barrier = to
             /\ tracker.barrier = from
  <2>1. tracker' = [tracker EXCEPT !.barrier = to] /\ tracker.barrier = from BY <1>7 DEF BarrierStep
  <2>2. tracker' = [closed |-> tracker.closed, failed |-> tracker.failed, barrier |-> to]
    BY <1>1, <2>1 DEF TrackerState
  <2> QED BY <1>1, <1>7, <2>1, <2>2 DEF TrackerState
<1>8. CASE PermitsBack
  <2>1. PICK to : to = IF tracker.failed THEN "unhealthy" ELSE "quiet" OBVIOUS
  <2>2. BarrierStep("draining", to) /\ archive' = archive /\ Permits = {}
    BY <1>8, <2>1 DEF PermitsBack
  <2>3. /\ tracker' \in TrackerState /\ tracker'.failed = tracker.failed
        /\ tracker'.closed = tracker.closed /\ tracker'.barrier = to
        /\ tracker.barrier = "draining"
    BY <1>7, <2>1, <2>2
  <2>4. \A r \in Requests : requests[r].at \in {"new", "ended"} BY <2>2 DEF Permits
  <2>5. BarrierHolds' BY <1>2, <2>1, <2>3, <2>4 DEF BarrierHolds
  <2>6. ArchiveWhole' BY <2>1, <2>2, <2>3 DEF ArchiveWhole
  <2> QED BY <1>1, <2>2, <2>3, <2>5, <2>6
<1>9. CASE ExportTables
  <2>1. BarrierStep("quiet", "half") /\ archive' = [archive EXCEPT !.table = table]
    BY <1>9 DEF ExportTables
  <2>2. /\ tracker' \in TrackerState /\ tracker'.failed = tracker.failed
        /\ tracker'.closed = tracker.closed /\ tracker'.barrier = "half"
        /\ tracker.barrier = "quiet"
    BY <1>7, <2>1
  <2>3. archive' = [table |-> table, changes |-> archive.changes] BY <1>1, <2>1 DEF Archived
  <2>4. archive' \in Archived /\ archive'.table = table BY <1>1, <2>3 DEF Archived, StateTypes
  <2>5. BarrierHolds' BY <1>2, <2>2 DEF BarrierHolds
  <2>6. ArchiveWhole' BY <1>2, <2>2, <2>4 DEF ArchiveWhole
  <2> QED BY <2>2, <2>4, <2>5, <2>6
<1>10. CASE ExportStreams
  <2>1. BarrierStep("half", "exported") /\ archive' = [archive EXCEPT !.changes = changes]
    BY <1>10 DEF ExportStreams
  <2>2. /\ tracker' \in TrackerState /\ tracker'.failed = tracker.failed
        /\ tracker'.closed = tracker.closed /\ tracker'.barrier = "exported"
        /\ tracker.barrier = "half"
    BY <1>7, <2>1
  <2>3. archive' = [table |-> archive.table, changes |-> changes] BY <1>1, <2>1 DEF Archived
  <2>4. /\ archive' \in Archived /\ archive'.table = table /\ archive'.changes = changes
    BY <1>1, <2>2, <2>3 DEF Archived, StateTypes, ArchiveWhole
  <2>5. BarrierHolds' BY <1>2, <2>2 DEF BarrierHolds
  <2>6. Whole(table, changes)
    <3>1. ~tracker.failed /\ \A r \in Requests : requests[r].at # "writing"
      BY <2>2 DEF BarrierHolds
    <3>2. gate = NoRequest BY <3>1 DEF GateHeld, StateTypes
    <3> QED BY <3>1, <3>2 DEF Published
  <2>7. ArchiveWhole' BY <1>2, <2>2, <2>4, <2>6 DEF ArchiveWhole
  <2> QED BY <2>2, <2>4, <2>5, <2>7
<1> QED BY <1>6, <1>8, <1>9, <1>10

\* A process starts from an archive whose two halves agree.
LEMMA InvRestart ==
    ASSUME DynamoInv, Restart
    PROVE  DynamoInv'
<1> USE DEF DynamoInv
<1>1. /\ tracker.barrier # "half"
      /\ table' = archive.table /\ changes' = archive.changes /\ archive' = archive
      /\ tokens' = [t \in Tokens |-> NoTransaction] /\ applied' = [t \in Tokens |-> 0]
      /\ gate' = NoRequest /\ tracker' = NewRequestTracker
      /\ requests' = [r \in Requests |-> IF requests[r].at = "new" THEN Untouched
                                         ELSE [Untouched EXCEPT !.at = "ended"]]
  BY DEF Restart
<1>2. archive \in Archived BY DEF StateTypes
<1>3. Whole(archive.table, archive.changes) BY <1>1 DEF ArchiveWhole
<1>4. /\ requests' \in [Requests -> Handled]
      /\ \A r \in Requests : requests'[r].at \in {"new", "ended"}
  <2>1. <<>> \in Seq(Step) OBVIOUS
  <2>2. Untouched \in Handled /\ Untouched.at = "new" BY <2>1 DEF Untouched, Handled
  <2>3. PICK q : q = [Untouched EXCEPT !.at = "ended"] OBVIOUS
  <2>4. q \in Handled /\ q.at = "ended" BY <2>2, <2>3 DEF Handled
  <2> QED BY <1>1, <2>2, <2>3, <2>4
<1>5. NoTransaction \in TokenState /\ NoTransaction.fresh = FALSE
  <2>1. <<>> \in Seq(Action) OBVIOUS
  <2> QED BY <2>1 DEF NoTransaction, TokenState
<1>6. /\ NewRequestTracker \in TrackerState /\ ~NewRequestTracker.failed
      /\ NewRequestTracker.barrier = "none"
  BY DEF NewRequestTracker, TrackerState
<1>7. StateTypes'
  <2>1. table' \in TableState /\ changes' \in StreamState BY <1>1, <1>2 DEF Archived
  <2>2. tokens' \in [Tokens -> TokenState] /\ applied' \in [Tokens -> 0..1] BY <1>1, <1>5
  <2> QED BY <2>1, <2>2, <1>1, <1>2, <1>4, <1>6 DEF StateTypes
<1>8. GateHeld' BY <1>1, <1>4, DynamoAssumption DEF GateHeld
<1>9. Published' BY <1>1, <1>3 DEF Published
<1>10. BarrierHolds' BY <1>1, <1>6 DEF BarrierHolds
<1>11. ArchiveWhole' BY <1>1, <1>3, <1>6 DEF ArchiveWhole
<1>12. TokensOnce' BY <1>1, <1>5 DEF TokensOnce
<1> QED BY <1>7, <1>8, <1>9, <1>10, <1>11, <1>12

\* Every step of a DynamoDB process preserves the invariant.
LEMMA InvNext == DynamoInv /\ [DynamoNext]_dynamoVars => DynamoInv'
<1> SUFFICES ASSUME DynamoInv, [DynamoNext]_dynamoVars PROVE DynamoInv' OBVIOUS
<1>1. ASSUME NEW r \in Requests, NEW op \in Operations, Admit(r, op) PROVE DynamoInv'
  BY <1>1, InvAdmit
<1>2. ASSUME NEW r \in Requests, TurnedAway(r) PROVE DynamoInv' BY <1>2, InvTurnedAway
<1>3. ASSUME NEW r \in Requests, Begin(r) PROVE DynamoInv' BY <1>3, InvBegin
<1>4. ASSUME NEW r \in Requests, WriteChange(r) PROVE DynamoInv' BY <1>4, InvWriteChange
<1>5. ASSUME NEW r \in Requests, EmitChange(r) PROVE DynamoInv' BY <1>5, InvEmitChange
<1>6. ASSUME NEW r \in Requests, Finish(r) PROVE DynamoInv' BY <1>6, InvFinish
<1>7. ASSUME NEW r \in Requests, Panic(r) PROVE DynamoInv' BY <1>7, InvPanic
<1>8. ASSUME NEW t \in Tokens, WindowEnds(t) PROVE DynamoInv' BY <1>8, InvWindowEnds
<1>9. CASE Close \/ PermitsBack \/ ExportTables \/ ExportStreams BY <1>9, InvBarrier
<1>10. CASE Restart BY <1>10, InvRestart
<1>11. CASE UNCHANGED dynamoVars
  <2>1. UNCHANGED <<table, changes, tokens, gate, requests, tracker, archive, applied>>
    BY <1>11 DEF dynamoVars
  <2>2. StateTypes' BY <2>1 DEF DynamoInv, StateTypes
  <2>3. GateHeld' BY <2>1 DEF DynamoInv, GateHeld
  <2>4. Published' BY <2>1 DEF DynamoInv, Published
  <2>5. BarrierHolds' BY <2>1 DEF DynamoInv, BarrierHolds
  <2>6. ArchiveWhole' BY <2>1 DEF DynamoInv, ArchiveWhole
  <2>7. TokensOnce' BY <2>1 DEF DynamoInv, TokensOnce
  <2> QED BY <2>2, <2>3, <2>4, <2>5, <2>6, <2>7 DEF DynamoInv
<1> QED
  BY <1>1, <1>2, <1>3, <1>4, <1>5, <1>6, <1>7, <1>8, <1>9, <1>10, <1>11 DEF DynamoNext

\* The inductive invariant holds in every state of a DynamoDB process.
THEOREM DynamoInvariant == DynamoSpec => []DynamoInv
BY InvInit, InvNext, PTL DEF DynamoSpec

\* The front of a concatenation.
LEMMA FrontOf ==
    ASSUME NEW S, NEW w \in Seq(S), NEW u \in Seq(S)
    PROVE  SubSeq(w \o u, 1, Len(w \o u) - Len(u)) = w
<1>1. PICK s \in Seq(S) : s = w \o u BY ConcatProperties
<1>2. PICK n \in Nat : n = Len(w) OBVIOUS
<1>3. Len(u) \in Nat /\ Len(s) = n + Len(u) /\ \A i \in 1..n : s[i] = w[i] BY <1>1, <1>2
<1>4. Len(s) - Len(u) = n BY <1>2, <1>3
<1>5. PICK p : p = SubSeq(s, 1, n) OBVIOUS
<1>6. p \in Seq(S) /\ Len(p) = n /\ \A i \in 1..n : p[i] = s[i] BY <1>1, <1>2, <1>3, <1>5
<1>7. p = w BY <1>2, <1>3, <1>6, SeqEqual
<1> QED BY <1>1, <1>4, <1>5, <1>7

\* A table and a stream that agree replay with nothing left to publish.
LEMMA WholeAgrees ==
    ASSUME NEW t, NEW c \in StreamState, Whole(t, c) PROVE Agree(t, c, <<>>)
<1>1. PICK cs \in Seq(PreparedChange) : cs = c.records BY Zenon DEF StreamState
<1>2. PICK e : e = Keep(<<>>, Emitted) OBVIOUS
<1>3. e = <<>> BY <1>2, KeepEmpty
<1>4. cs \o e = cs BY <1>1, <1>3, ConcatEmptySeq
<1> QED BY <1>1, <1>2, <1>4 DEF Whole, Agree

\* With what the running request has not published, the table and its stream
\* agree in every state that the invariant allows.
LEMMA RunningAgrees ==
    ASSUME StateTypes, Published, ~tracker.failed
    PROVE  Agree(table, changes, Unpublished)
<1>1. table \in TableState /\ changes \in StreamState BY DEF StateTypes
<1>2. CASE gate = NoRequest
  <2>1. Unpublished = <<>> BY <1>2 DEF Unpublished
  <2>2. Agree(table, changes, <<>>) BY <1>1, <1>2, WholeAgrees DEF Published
  <2> QED BY <2>1, <2>2
<1>3. CASE gate # NoRequest
  <2>1. PICK q : q = requests[gate] OBVIOUS
  <2>2. Running(q, table, changes) BY <1>3, <2>1 DEF Published
  <2>3. Unpublished = IF q.op.kind \in {"create", "drop"} THEN <<>>
                      ELSE IF q.todo # <<>> THEN SubSeq(q.emits, 1, Len(q.emits) - Len(q.todo))
                      ELSE q.emits
    BY <1>3, <2>1 DEF Unpublished
  <2>4. CASE TablePhase(q, table, changes)
    <3>1. Unpublished = <<>> BY <2>3, <2>4 DEF TablePhase
    <3>2. CASE Whole(table, changes)
      <4>1. Agree(table, changes, <<>>) BY <1>1, <3>2, WholeAgrees
      <4> QED BY <3>1, <4>1
    <3>3. CASE ~Whole(table, changes)
      <4>1. PICK T \in NewTables : table = T /\ (T.live => changes.records = <<>>)
        BY <2>4, <3>3 DEF TablePhase
      <4>2. T.items = NoTable.items BY NewTablesAre
      <4>3. PICK e : e = Keep(<<>>, Emitted) OBVIOUS
      <4>4. e = <<>> BY <4>3, KeepEmpty
      <4>5. <<>> \o e = <<>> BY <4>4
      <4>6. T.live => Rebuilt(changes.records \o e) = table.items
        BY <4>1, <4>2, <4>5, RebuiltEmpty
      <4> QED BY <3>1, <4>1, <4>3, <4>6 DEF Agree
    <3> QED BY <3>2, <3>3
  <2>5. CASE ItemPhase(q, table, changes)
    <3>1. PICK w \in Seq(PreparedChange) :
            /\ q.emits = w \o q.todo
            /\ table.streamed => Rebuilt(changes.records \o Keep(w, Emitted)) = table.items
      BY <2>5 DEF ItemPhase
    <3>2. PICK todo \in Seq(PreparedChange) : todo = q.todo BY <2>5 DEF ItemPhase
    <3>3. SubSeq(w \o todo, 1, Len(w \o todo) - Len(todo)) = w BY <3>1, <3>2, FrontOf
    <3>4. todo = <<>> => w \o todo = w BY <3>1, ConcatEmptySeq
    <3>5. Unpublished = w BY <2>3, <2>5, <3>1, <3>2, <3>3, <3>4 DEF ItemPhase
    <3> QED BY <3>1, <3>5 DEF Agree
  <2> QED BY <2>2, <2>4, <2>5 DEF Running
<1> QED BY <1>2, <1>3

\* In every state of a DynamoDB process a table's stream replays to its items,
\* but for what the request at work has still to publish, so it does in every
\* snapshot a process starts from, and no token is applied twice in its window.
THEOREM StreamReplaysAlways == DynamoSpec => []StreamReplays
<1>1. DynamoInv => StreamReplays
  <2> SUFFICES ASSUME DynamoInv PROVE StreamReplays OBVIOUS
  <2>1. ~tracker.failed => Agree(table, changes, Unpublished)
    BY RunningAgrees DEF DynamoInv
  <2>2. tracker.barrier # "half" => Agree(archive.table, archive.changes, <<>>)
    <3>1. archive.changes \in StreamState BY DEF DynamoInv, StateTypes, Archived
    <3> QED BY <3>1, WholeAgrees DEF DynamoInv, ArchiveWhole
  <2>3. \A t \in Tokens : applied[t] <= 1 BY DEF DynamoInv, StateTypes
  <2> QED BY <2>1, <2>2, <2>3 DEF StreamReplays
<1> QED BY <1>1, DynamoInvariant, PTL

-----------------------------------------------------------------------------
(***************************************************************************)
(* Records keep the order of their keys, and readers miss none: for any     *)
(* number of shards, writers, readers and reshardings.                      *)
(***************************************************************************)

Keys == 0..HashMax
Indices == 0..(MaxShards - 1)
Record == [at : ShardIds, key : Keys, seq : SequenceNumber]

PutCommand == [op : {"put"}, from : PutCalls]
ReadCommand == [op : {"get"}, from : Readers, pos : Nat, limit : Nat]
SeekCommand == [op : {"iterator"}, from : Readers, kind : {"horizon", "latest", "at", "after"},
                seq : SequenceNumber]
StopCommand == [op : {"close", "shutdown"}, from : Admins]
Command == PutCommand \cup ReadCommand \cup SeekCommand \cup StopCommand

Shard == [st : {"unborn", "open", "closed", "stopped"}, lo : Nat, hi : Nat, prefix : Nat \X Nat,
          counter : Nat, records : Seq(Record), trim : Nat, commands : Seq(Command)]
StreamEntry == [inc : 0..MaxStreams, active : Seq(Indices), closed : Seq(Indices), next : 0..MaxShards]
Put == [st : {"new", "routed", "sent", "ended"}, keys : Seq(Keys), snapshot : SUBSET ShardIds,
        to : ShardIds \cup {NoShard}]
Reader == [st : {"none", "asking", "idle", "reading"}, at : ShardIds \cup {NoShard}, pos : Nat,
           start : Nat, got : SUBSET SequenceNumber, cmd : Seq(Command)]
AdminWork == [op : {"none", "insert", "delete", "split", "merge"}, todo : Seq(ShardIds),
              parents : Seq(Indices), range : Seq(Keys \X Keys)]

KinesisTypes ==
    /\ stream \in StreamEntry
    /\ guard \in Admins \cup {NoTaskId}
    /\ shards \in [ShardIds -> Shard]
    /\ puts \in [PutCalls -> Put]
    /\ readers \in [Readers -> Reader]
    /\ admins \in [Admins -> AdminWork]
    /\ blocked \subseteq PutCalls \cup Readers \cup Admins
    /\ clock \in {0, 1}
    /\ arrivals \in Seq(Record)
    /\ orphans \subseteq ShardIds

Born(a) == shards[a].st # "unborn"
Within(range, key) == range[1] <= key /\ key <= range[2]

-----------------------------------------------------------------------------
(* Incarnations: those that have shards are numbered without gaps, and the  *)
(* stream is one of them, or one without shards.                            *)

Numbered(k) ==
    /\ \A a \in ShardIds : Born(a) => a[1] <= k
    /\ \A j \in 1..k : \E a \in ShardIds : a[1] = j /\ Born(a)
    /\ stream.inc <= k \/ (stream.inc = k + 1 /\ stream.next = 0)

StreamInv ==
    /\ \E k \in 0..MaxStreams : Numbered(k)
    /\ \A a \in ShardIds : a[1] = stream.inc => (Born(a) <=> a[2] < stream.next)
    /\ \A i \in ToSet(stream.active) \cup ToSet(stream.closed) : i < stream.next
    /\ ToSet(stream.active) \cap ToSet(stream.closed) = {}
    /\ \A a \in orphans : Born(a)
    /\ stream.inc = 0 => stream = NoStream

ShardInv(a) ==
    IF Born(a)
    THEN /\ shards[a].lo <= shards[a].hi /\ shards[a].hi <= HashMax
         /\ shards[a].prefix[1] <= clock /\ shards[a].prefix[2] = a[2]
    ELSE shards[a] = Unborn

\* no two open shards of an incarnation take records of one key
Disjoint ==
    \A a, b \in ShardIds : \A key \in Keys :
       /\ a[1] = b[1] /\ shards[a].st = "open" /\ shards[b].st = "open"
       /\ contains(shards[a], key) /\ contains(shards[b], key)
       => a = b

\* what a shard would give to its next record
NextSeq(a) == <<shards[a].prefix[1], shards[a].prefix[2], shards[a].counter>>

RecordInv(rec) ==
    /\ Born(rec.at) /\ rec.seq[1] <= clock /\ rec.seq[2] = rec.at[2]
    /\ rec.key \notin LostKeys(rec.at[1]) => \A a \in ShardIds :
         a[1] = rec.at[1] /\ shards[a].st = "open" /\ contains(shards[a], rec.key) =>
             SeqLess(rec.seq, NextSeq(a))

RecordsInv ==
    /\ \A i \in DOMAIN arrivals : RecordInv(arrivals[i])
    /\ \A i, j \in DOMAIN arrivals :
         /\ i < j /\ arrivals[i].key = arrivals[j].key /\ arrivals[i].at[1] = arrivals[j].at[1]
         /\ arrivals[i].key \notin LostKeys(arrivals[i].at[1])
         => SeqLess(arrivals[i].seq, arrivals[j].seq)

-----------------------------------------------------------------------------
(* The key space of the stream: its active shards cover it but for the keys *)
(* that abandoned reshardings have taken, or, while one is split or two are  *)
(* merged, they and the ranges of the children do.                          *)

Covers(A, inc, R) ==
    \A key \in Keys : \/ \E a \in A : contains(shards[a], key)
                      \/ \E r \in R : Within(r, key)
                      \/ key \in LostKeys(inc)

\* the shards that call x closes and keeps from the lists
Parents(x) == {<<stream.inc, i>> : i \in ToSet(admins[x].parents)}

Resharding(x) ==
    /\ admins[x].op \in {"split", "merge"}
    /\ stream # NoStream
    /\ ToSet(admins[x].todo) \subseteq Parents(x)
    /\ \A a \in Parents(x) : Born(a) /\ a \notin Handles
    /\ \A r \in ToSet(admins[x].range) : r[1] <= r[2]
    /\ Len(admins[x].range) > 0
    /\ stream.next + Len(admins[x].range) <= MaxShards
    /\ \A i, j \in DOMAIN admins[x].range : \A key \in Keys :
         Within(admins[x].range[i], key) /\ Within(admins[x].range[j], key) => i = j
    /\ \A key \in Keys : (\E r \in ToSet(admins[x].range) : Within(r, key))
                            <=> (\E a \in Parents(x) : contains(shards[a], key))
    /\ \A a \in ShardIds : \A key \in Keys : \A r \in ToSet(admins[x].range) :
         a[1] = stream.inc /\ shards[a].st = "open" /\ contains(shards[a], key) /\ Within(r, key) =>
             a \in ToSet(admins[x].todo)

\* no shard of set A and none of ranges R has a key that was taken
Apart(A, inc, R) ==
    \A key \in LostKeys(inc) : /\ \A a \in A : ~contains(shards[a], key)
                              /\ \A r \in R : ~Within(r, key)

SpaceInv ==
    /\ \A a \in Active : shards[a].st = "open"
    /\ guard = NoTaskId => Active = {} \/ Covers(Active, stream.inc, {})
    /\ guard = NoTaskId => Apart(Active, stream.inc, {})
    /\ guard # NoTaskId => /\ Resharding(guard)
                           /\ Covers(Active, stream.inc, ToSet(admins[guard].range))
                           /\ Apart(Active, stream.inc, ToSet(admins[guard].range))
    /\ \A x \in Admins : admins[x].op \in {"split", "merge"} => guard = x

-----------------------------------------------------------------------------
(* Calls and their commands.                                                *)

PutInv(p) ==
    p.st \in {"routed", "sent"} =>
        /\ p.keys # <<>>
        /\ p.to \in p.snapshot
        /\ contains(shards[p.to], p.keys[1]) \/ p.keys[1] \in LostKeys(p.to[1])
        /\ \A a \in p.snapshot : Born(a) /\ a[1] = p.to[1]
        /\ Covers(p.snapshot, p.to[1], {})

AdminInv(x) ==
    /\ admins[x].op \in {"none", "insert"} => admins[x].todo = <<>>
    /\ admins[x].op \notin {"split", "merge"} => admins[x].parents = <<>>
    /\ admins[x].op = "delete" => \A a \in ToSet(admins[x].todo) : Born(a) /\ a[1] # stream.inc

\* the command that reader r has sent or is about to send
Asks(r, cmd) ==
    \/ cmd \in SeekCommand /\ cmd.from = r /\ readers[r].st = "asking"
    \/ /\ cmd \in ReadCommand /\ cmd.from = r
       /\ readers[r].st = "reading" /\ cmd.pos = readers[r].pos

ReaderInv(r) ==
    /\ readers[r].cmd # <<>> =>
         Len(readers[r].cmd) = 1 /\ Asks(r, readers[r].cmd[1]) /\ readers[r].at \in ShardIds
    /\ readers[r].st \in {"none", "asking"} => readers[r].start = readers[r].pos

\* the call that sent a stop command waits for its answer
AwaitedBy(a, cmd) ==
    /\ admins[cmd.from].todo # <<>> /\ Head(admins[cmd.from].todo) = a
    /\ cmd.op = "close" => guard = cmd.from
    /\ cmd.op = "shutdown" => admins[cmd.from].op = "delete"

\* it was abandoned, and its shard is in no list and will be in none
Forsaken(a, x) ==
    /\ a \notin Handles /\ a \notin ToSet(admins[x].todo)
    /\ \A y \in Admins : a \notin Parents(y)

CommandOf(a, cmd) ==
    /\ cmd \in PutCommand => puts[cmd.from].st = "sent" /\ puts[cmd.from].to = a /\ Live(a)
    /\ cmd \in SeekCommand \cup ReadCommand =>
         Asks(cmd.from, cmd) /\ readers[cmd.from].at = a /\ readers[cmd.from].cmd = <<>> /\ Live(a)
    /\ cmd \in StopCommand => AwaitedBy(a, cmd) \/ Forsaken(a, cmd.from)

\* commands that are not both in a queue: a call has one under way, and an actor
\* is asked to stop once
Conflict(c, d) ==
    \/ c \in StopCommand /\ d \in StopCommand
    \/ c \in PutCommand /\ d \in PutCommand /\ c.from = d.from
    \/ /\ c \in SeekCommand \cup ReadCommand /\ d \in SeekCommand \cup ReadCommand
       /\ c.from = d.from

CommandsInv(a) ==
    LET queue == shards[a].commands
    IN /\ \A i \in 1..Len(queue) : CommandOf(a, queue[i])
       /\ \A i, j \in 1..Len(queue) : Conflict(queue[i], queue[j]) => i = j

-----------------------------------------------------------------------------
(* Logs.                                                                    *)

\* a shard keeps what it has stored but for the oldest
LogInv(a) ==
    /\ Len(StoredBy(a)) = shards[a].trim + Len(shards[a].records)
    /\ \A i \in DOMAIN shards[a].records : shards[a].records[i] = StoredBy(a)[shards[a].trim + i]

\* what lies between a reader's start and its position was read or had expired
ProgressInv(r) ==
    readers[r].at \in ShardIds =>
        LET a == readers[r].at
        IN /\ readers[r].pos <= readers[r].start \/ readers[r].pos <= Len(StoredBy(a))
           /\ \A i \in (readers[r].start + 1)..readers[r].pos :
                i \in DOMAIN StoredBy(a) =>
                    StoredBy(a)[i].seq \in readers[r].got \/ i <= shards[a].trim

KinesisInv ==
    /\ KinesisTypes
    /\ StreamInv
    /\ \A a \in ShardIds : ShardInv(a)
    /\ Disjoint
    /\ RecordsInv
    /\ SpaceInv
    /\ \A c \in PutCalls : PutInv(puts[c])
    /\ \A x \in Admins : AdminInv(x)
    /\ \A r \in Readers : ReaderInv(r)
    /\ \A a \in ShardIds : CommandsInv(a)
    /\ \A a \in ShardIds : LogInv(a)
    /\ \A r \in Readers : ProgressInv(r)

-----------------------------------------------------------------------------
(* Basic facts.                                                             *)

\* The constants, but for the widths of the ranges.
LEMMA Bounds ==
    /\ NoTaskId \notin Admins
    /\ MaxStreams \in Nat /\ MaxShards \in Nat /\ MaxShards <= IndexLimit /\ HashMax \in Nat
    /\ Batches \subseteq Seq(0..HashMax) \ {<<>>} /\ ReadLimits \subseteq Nat
    /\ \A n \in ShardCounts : n \in 0..MaxShards
BY KinesisAssumption, Zenon

\* A command is of the kind that its name says.
LEMMA CommandKinds ==
    ASSUME NEW cmd \in Command
    PROVE  /\ cmd \in PutCommand <=> cmd.op = "put"
           /\ cmd \in ReadCommand <=> cmd.op = "get"
           /\ cmd \in SeekCommand <=> cmd.op = "iterator"
           /\ cmd \in StopCommand <=> cmd.op \in {"close", "shutdown"}
           /\ cmd \in PutCommand => cmd.from \in PutCalls
           /\ cmd \in ReadCommand => cmd.from \in Readers /\ cmd.pos \in Nat /\ cmd.limit \in Nat
           /\ cmd \in SeekCommand => cmd.from \in Readers /\ cmd.seq \in SequenceNumber
           /\ cmd \in StopCommand => cmd.from \in Admins
BY DEF Command, PutCommand, ReadCommand, SeekCommand, StopCommand

\* The elements of a sequence, by their place.
LEMMA SetOf ==
    ASSUME NEW S, NEW s \in Seq(S)
    PROVE  /\ ToSet(s) \subseteq S
           /\ \A x : x \in ToSet(s) <=> \E i \in 1..Len(s) : s[i] = x
           /\ s = <<>> <=> ToSet(s) = {}
<1>1. DOMAIN s = 1..Len(s) /\ Len(s) \in Nat BY SMT
<1>2. \A i \in 1..Len(s) : s[i] \in S BY SMT
<1>3. s # <<>> => 1 \in 1..Len(s) BY <1>1, SMT
<1>4. \A x : x \in ToSet(s) <=> \E i \in 1..Len(s) : s[i] = x BY <1>1 DEF ToSet
<1>5. ToSet(s) \subseteq S BY <1>2, <1>4
<1>6. s = <<>> => ToSet(s) = {} BY DEF ToSet
<1>7. s # <<>> => ToSet(s) # {} BY <1>3, <1>4
<1> QED BY <1>4, <1>5, <1>6, <1>7

\* The fields of a shard.
LEMMA ShardTypes ==
    ASSUME KinesisTypes, NEW a \in ShardIds
    PROVE  /\ shards[a] \in Shard
           /\ shards[a].lo \in Nat /\ shards[a].hi \in Nat /\ shards[a].counter \in Nat
           /\ shards[a].prefix[1] \in Nat /\ shards[a].prefix[2] \in Nat
           /\ shards[a].records \in Seq(Record) /\ shards[a].commands \in Seq(Command)
           /\ shards[a].trim \in Nat
           /\ a[1] \in 1..MaxStreams /\ a[2] \in Indices /\ a = <<a[1], a[2]>>
<1>1. shards[a] \in Shard BY DEF KinesisTypes
<1>2. a \in (1..MaxStreams) \X Indices BY DEF ShardIds, Indices
<1>3. a[1] \in 1..MaxStreams /\ a[2] \in Indices /\ a = <<a[1], a[2]>> BY <1>2
<1>4. shards[a].prefix \in Nat \X Nat BY <1>1 DEF Shard
<1>5. shards[a].prefix[1] \in Nat /\ shards[a].prefix[2] \in Nat BY <1>4
<1> QED BY <1>1, <1>3, <1>5 DEF Shard

\* The fields of a record.
LEMMA ArrivalTypes ==
    ASSUME KinesisTypes, NEW i \in DOMAIN arrivals
    PROVE  /\ arrivals[i] \in Record /\ arrivals[i].at \in ShardIds /\ arrivals[i].key \in Keys
           /\ arrivals[i].seq \in SequenceNumber
<1>1. arrivals \in Seq(Record) BY DEF KinesisTypes
<1>2. arrivals[i] \in Record BY <1>1, SMT
<1> QED BY <1>2 DEF Record

\* The shards of the stream exist.
LEMMA HandlesBorn ==
    ASSUME KinesisTypes, StreamInv
    PROVE  /\ Active \subseteq Handles
           /\ \A a \in Handles : a \in ShardIds /\ Born(a) /\ a[1] = stream.inc /\ a[2] < stream.next
<1>1. /\ stream.inc \in 0..MaxStreams /\ stream.next \in 0..MaxShards
      /\ stream.active \in Seq(Indices) /\ stream.closed \in Seq(Indices)
  BY DEF KinesisTypes, StreamEntry
<1>2. ASSUME NEW i \in ToSet(stream.active) \cup ToSet(stream.closed)
      PROVE  i \in Indices /\ i < stream.next /\ stream.inc \in 1..MaxStreams
  <2>1. i \in Indices BY <1>1, SetOf
  <2>2. i < stream.next BY DEF StreamInv
  <2>3. stream.inc # 0
    <3>1. NoStream.next = 0 BY DEF NoStream
    <3>2. i \in Nat BY <2>1 DEF Indices
    <3> QED BY <1>1, <2>2, <3>1, <3>2 DEF StreamInv
  <2> QED BY <1>1, <2>1, <2>2, <2>3, Bounds
<1>3. ASSUME NEW i \in ToSet(stream.active) \cup ToSet(stream.closed)
      PROVE  LET a == <<stream.inc, i>>
             IN a \in ShardIds /\ Born(a) /\ a[1] = stream.inc /\ a[2] < stream.next
  <2>1. <<stream.inc, i>> \in ShardIds BY <1>2 DEF ShardIds, Indices
  <2> QED BY <1>2, <2>1 DEF StreamInv
<1> QED BY <1>3 DEF Active, Handles

-----------------------------------------------------------------------------
(* Steps that make no shard and close none that is active.                  *)

Shaped ==
    /\ shards' \in [ShardIds -> Shard]
    /\ \A a \in ShardIds :
         /\ shards'[a].lo = shards[a].lo /\ shards'[a].hi = shards[a].hi
         /\ shards'[a].prefix = shards[a].prefix
         /\ shards'[a].st # "unborn" <=> Born(a)
         /\ shards'[a].st = "open" => shards[a].st = "open"
         /\ ~Born(a) => shards'[a] = shards[a]
    /\ UNCHANGED orphans

\* The keys that were taken stay the same.
LEMMA LostStays ==
    ASSUME KinesisInv, Shaped, NEW inc
    PROVE  LostKeys(inc)' = LostKeys(inc)
<1>1. orphans \subseteq ShardIds BY DEF KinesisInv, KinesisTypes
<1> QED BY <1>1 DEF LostKeys, Shaped, contains

\* Ranges are as they were, and fewer shards are open.
LEMMA ShapesStay ==
    ASSUME KinesisInv, Shaped, UNCHANGED clock
    PROVE  (\A a \in ShardIds : ShardInv(a)') /\ Disjoint'
<1>1. ASSUME NEW a \in ShardIds PROVE ShardInv(a)'
  BY <1>1 DEF KinesisInv, ShardInv, Shaped, Born
<1>2. Disjoint' BY DEF KinesisInv, Disjoint, Shaped, contains
<1> QED BY <1>1, <1>2

\* The stream is the same.
LEMMA ShapeKeeps ==
    ASSUME KinesisInv, Shaped, UNCHANGED <<stream, clock>>
    PROVE  StreamInv' /\ (\A a \in ShardIds : ShardInv(a)') /\ Disjoint'
<1>1. StreamInv'
  <2>1. PICK k \in 0..MaxStreams : Numbered(k) BY DEF KinesisInv, StreamInv
  <2>2. Numbered(k)' BY <2>1 DEF Numbered, Shaped, Born
  <2>3. \A a \in orphans' : a \in ShardIds /\ Born(a)' 
    BY DEF KinesisInv, KinesisTypes, StreamInv, Shaped, Born
  <2> QED BY <2>2, <2>3 DEF KinesisInv, StreamInv, Shaped, Born
<1> QED BY <1>1, ShapesStay

\* Later numbers of one shard are greater.
LEMMA LessThanNext ==
    ASSUME NEW x \in SequenceNumber, NEW p \in Nat, NEW i \in Nat, NEW n \in Nat, NEW m \in Nat,
           SeqLess(x, <<p, i, n>>), n <= m
    PROVE  SeqLess(x, <<p, i, m>>)
<1>1. x[1] \in Nat /\ x[2] \in Nat /\ x[3] \in Nat BY DEF SequenceNumber
<1> QED BY <1>1 DEF SeqLess

\* A record stays before what will be stored.
LEMMA RecordStays ==
    ASSUME KinesisInv, Shaped, UNCHANGED clock, NEW rec \in Record, RecordInv(rec),
           \A a \in ShardIds : shards'[a].counter >= shards[a].counter
    PROVE  RecordInv(rec)'
<1>1. rec.at \in ShardIds /\ rec.seq \in SequenceNumber BY DEF Record
<1>2. LostKeys(rec.at[1])' = LostKeys(rec.at[1]) BY LostStays
<1>3. ASSUME rec.key \notin LostKeys(rec.at[1]),
             NEW a \in ShardIds, a[1] = rec.at[1], shards'[a].st = "open",
             contains(shards'[a], rec.key)
      PROVE  SeqLess(rec.seq, NextSeq(a)')
  <2>1. SeqLess(rec.seq, NextSeq(a)) BY <1>3 DEF RecordInv, Shaped, contains
  <2>2. PICK p \in Nat, i \in Nat, n \in Nat :
           p = shards[a].prefix[1] /\ i = shards[a].prefix[2] /\ n = shards[a].counter
    BY ShardTypes DEF KinesisInv
  <2>3. PICK m \in Nat : m = shards'[a].counter /\ n <= m
    BY <2>2 DEF Shaped, Shard
  <2>4. NextSeq(a) = <<p, i, n>> /\ NextSeq(a)' = <<p, i, m>>
    BY <2>2, <2>3 DEF NextSeq, Shaped
  <2> QED BY <1>1, <2>1, <2>3, <2>4, LessThanNext
<1>4. rec.key \notin LostKeys(rec.at[1])' => \A a \in ShardIds :
          a[1] = rec.at[1] /\ shards'[a].st = "open" /\ contains(shards'[a], rec.key)
          => SeqLess(rec.seq, NextSeq(a)')
  BY <1>3, <1>2
<1>5. Born(rec.at)' /\ rec.seq[1] <= clock' /\ rec.seq[2] = rec.at[2]
  BY <1>1 DEF RecordInv, Shaped, Born
<1> QED BY <1>4, <1>5 DEF RecordInv

\* Nothing is recorded.
LEMMA RecordsKeep ==
    ASSUME KinesisInv, Shaped, UNCHANGED <<clock, arrivals>>,
           \A a \in ShardIds : shards'[a].counter = shards[a].counter
    PROVE  RecordsInv'
<1>1. ASSUME NEW i \in DOMAIN arrivals PROVE RecordInv(arrivals[i])'
  <2>1. PICK rec \in Record : rec = arrivals[i] BY ArrivalTypes DEF KinesisInv
  <2>2. RecordInv(rec) BY <2>1 DEF KinesisInv, RecordsInv
  <2>3. \A a \in ShardIds : shards'[a].counter >= shards[a].counter
    BY ShardTypes DEF KinesisInv
  <2>4. RecordInv(rec)' BY <2>2, <2>3, RecordStays
  <2> QED BY <2>1, <2>4
<1>2. ASSUME NEW i \in DOMAIN arrivals, NEW j \in DOMAIN arrivals,
             i < j, arrivals[i].key = arrivals[j].key, arrivals[i].at[1] = arrivals[j].at[1],
             arrivals[i].key \notin LostKeys(arrivals[i].at[1])'
      PROVE  SeqLess(arrivals[i].seq, arrivals[j].seq)
  <2>1. PICK inc : inc = arrivals[i].at[1] OBVIOUS
  <2>2. arrivals[i].key \notin LostKeys(inc)' BY <1>2, <2>1 DEF LostKeys
  <2>3. arrivals[i].key \notin LostKeys(arrivals[i].at[1]) BY <2>1, <2>2, LostStays
  <2> QED BY <1>2, <2>3 DEF KinesisInv, RecordsInv
<1> QED BY <1>1, <1>2 DEF RecordsInv

\* The shards that a call closes.
LEMMA ParentIds ==
    ASSUME KinesisTypes, NEW x \in Admins, stream # NoStream, StreamInv
    PROVE  Parents(x) \subseteq ShardIds
<1>1. admins[x].parents \in Seq(Indices) /\ stream.inc \in 0..MaxStreams
  BY DEF KinesisTypes, AdminWork, StreamEntry
<1>2. stream.inc \in 1..MaxStreams BY <1>1, Bounds DEF StreamInv
<1>3. ToSet(admins[x].parents) \subseteq Indices BY <1>1, SetOf
<1> QED BY <1>2, <1>3 DEF Parents, ShardIds, Indices

\* An administrator who does not reshard does anything else.
LEMMA SpaceKeeps ==
    ASSUME KinesisInv, Shaped, UNCHANGED <<stream, guard>>,
           \A a \in Active : shards'[a].st = "open",
           \A x \in Admins : \/ admins'[x] = admins[x]
                             \/ /\ admins[x].op \notin {"split", "merge"}
                                /\ admins'[x].op \notin {"split", "merge"}
    PROVE  SpaceInv'
<1>1. Active' = Active BY DEF Active
<1>2. Active \subseteq ShardIds BY HandlesBorn DEF KinesisInv
<1>3. orphans \subseteq ShardIds BY DEF KinesisInv, KinesisTypes
<1>4. LostKeys(stream.inc)' = LostKeys(stream.inc)
  BY <1>3 DEF LostKeys, Shaped, contains
<1>5. ASSUME NEW R
      PROVE  /\ Covers(Active, stream.inc, R) => Covers(Active, stream.inc, R)'
             /\ Apart(Active, stream.inc, R) => Apart(Active, stream.inc, R)'
  BY <1>1, <1>2, <1>4 DEF Covers, Apart, Shaped, contains
<1>6. guard = NoTaskId => /\ Active = {} \/ Covers(Active, stream.inc, {})'
                         /\ Apart(Active, stream.inc, {})'
  BY <1>5 DEF KinesisInv, SpaceInv
<1>7. ASSUME guard # NoTaskId
      PROVE  /\ Resharding(guard)' /\ admins'[guard] = admins[guard]
             /\ Covers(Active, stream.inc, ToSet(admins[guard].range))'
             /\ Apart(Active, stream.inc, ToSet(admins[guard].range))'
  <2>1. guard \in Admins BY <1>7 DEF KinesisInv, KinesisTypes
  <2>2. /\ Resharding(guard) /\ Covers(Active, stream.inc, ToSet(admins[guard].range))
        /\ Apart(Active, stream.inc, ToSet(admins[guard].range))
    BY <1>7 DEF KinesisInv, SpaceInv
  <2>3. admins'[guard] = admins[guard] BY <2>1, <2>2 DEF Resharding
  <2>4. Resharding(guard)'
    <3>1. Parents(guard) \subseteq ShardIds BY <2>1, <2>2, ParentIds DEF KinesisInv, Resharding
    <3>2. Parents(guard)' = Parents(guard) /\ Handles' = Handles
      BY <2>3, <1>1 DEF Parents, Handles
    <3>3. \A a \in ShardIds : \A key \in Keys : contains(shards[a], key)' <=> contains(shards[a], key)
      BY DEF Shaped, contains
    <3> QED BY <2>2, <2>3, <1>1, <3>1, <3>2, <3>3 DEF Resharding, Shaped, Born
  <2>5. PICK R : R = ToSet(admins[guard].range) OBVIOUS
  <2>6. R = ToSet(admins[guard].range)' BY <2>3, <2>5
  <2>7. Covers(Active, stream.inc, R)' /\ Apart(Active, stream.inc, R)' BY <1>5, <2>2, <2>5
  <2> QED BY <2>3, <2>4, <2>5, <2>6, <2>7
<1>8. \A x \in Admins : admins'[x].op \in {"split", "merge"} => guard = x
  BY DEF KinesisInv, SpaceInv
<1> QED BY <1>1, <1>6, <1>7, <1>8 DEF SpaceInv

\* The snapshot of a call stays good.
LEMMA PutStays ==
    ASSUME KinesisInv, Shaped, NEW p, p.snapshot \subseteq ShardIds, PutInv(p)
    PROVE  PutInv(p)'
<1>1. LostKeys(p.to[1])' = LostKeys(p.to[1]) BY LostStays
<1> QED BY <1>1 DEF PutInv, Shaped, contains, Born, Covers

LEMMA AdminStays ==
    ASSUME KinesisInv, Shaped, UNCHANGED stream, NEW x \in Admins, admins'[x] = admins[x]
    PROVE  AdminInv(x)'
<1>1. ToSet(admins[x].todo) \subseteq ShardIds
  BY SetOf DEF KinesisInv, KinesisTypes, AdminWork
<1>2. AdminInv(x) BY DEF KinesisInv
<1> QED BY <1>1, <1>2 DEF AdminInv, Shaped, Born

\* A reader that stands still, while logs are trimmed.
LEMMA ProgressStays ==
    ASSUME KinesisInv, NEW r \in Readers, UNCHANGED arrivals,
           readers'[r].at = readers[r].at, readers'[r].pos = readers[r].pos,
           readers'[r].start = readers[r].start, readers'[r].got = readers[r].got,
           \A a \in ShardIds : shards'[a].trim \in Nat /\ shards'[a].trim >= shards[a].trim
    PROVE  ProgressInv(r)'
<1>1. \A a \in ShardIds : StoredBy(a)' = StoredBy(a) BY DEF StoredBy
<1>2. ProgressInv(r) BY DEF KinesisInv
<1>3. readers[r].pos \in Nat /\ readers[r].start \in Nat BY DEF KinesisInv, KinesisTypes, Reader
<1>4. ASSUME NEW a \in ShardIds, readers[r].at = a
      PROVE  /\ readers[r].pos <= readers[r].start \/ readers[r].pos <= Len(StoredBy(a)')
             /\ \A i \in (readers[r].start + 1)..readers[r].pos :
                  i \in DOMAIN (StoredBy(a)') =>
                    (StoredBy(a)')[i].seq \in readers[r].got \/ i <= shards'[a].trim
  <2>1. shards[a].trim \in Nat BY ShardTypes DEF KinesisInv
  <2>2. PICK log : log = StoredBy(a) OBVIOUS
  <2>3. PICK from \in Nat, to \in Nat : from = readers[r].start /\ to = readers[r].pos
    BY <1>3
  <2>4. to <= from \/ to <= Len(log) BY <1>2, <1>4, <2>2, <2>3 DEF ProgressInv
  <2>5. ASSUME NEW i \in (from + 1)..to, i \in DOMAIN log
        PROVE  log[i].seq \in readers[r].got \/ i <= shards'[a].trim
    <3>1. log[i].seq \in readers[r].got \/ i <= shards[a].trim
      BY <1>2, <1>4, <2>2, <2>3, <2>5 DEF ProgressInv
    <3>2. i \in Nat BY <2>3
    <3> QED BY <2>1, <3>1, <3>2
  <2> QED BY <1>1, <2>2, <2>3, <2>4, <2>5
<1> QED BY <1>4 DEF ProgressInv

\* A log that is not touched.
LEMMA LogStays ==
    ASSUME KinesisInv, NEW a \in ShardIds, StoredBy(a)' = StoredBy(a),
           shards'[a].records = shards[a].records, shards'[a].trim = shards[a].trim
    PROVE  LogInv(a)'
BY DEF KinesisInv, LogInv

-----------------------------------------------------------------------------
(* Commands in the channels.                                                *)

\* calls that have no command in a channel
PutFree(c) == ~(puts[c].st = "sent" /\ Live(puts[c].to))
ReadFree(r) == readers[r].cmd # <<>> \/ readers[r].st \in {"none", "idle"} \/ ~Live(readers[r].at)
StopFree(x) == admins[x].todo = <<>>

LEMMA Queued ==
    ASSUME KinesisInv, NEW a \in ShardIds, NEW i \in 1..Len(shards[a].commands)
    PROVE  LET d == shards[a].commands[i]
           IN /\ d \in Command /\ CommandOf(a, d) /\ Born(a)
              /\ d \in PutCommand => ~PutFree(d.from)
              /\ d \in SeekCommand \cup ReadCommand => ~ReadFree(d.from)
              /\ d \in StopCommand => ~StopFree(d.from) \/ Forsaken(a, d.from)
<1>1. PICK d : d = shards[a].commands[i] OBVIOUS
<1>2. d \in Command
  <2>1. shards[a].commands \in Seq(Command) BY ShardTypes DEF KinesisInv
  <2> QED BY <1>1, <2>1
<1>3. CommandOf(a, d) BY <1>1 DEF KinesisInv, CommandsInv
<1>4. d \in SeekCommand \cup ReadCommand => readers[d.from].st \in {"asking", "reading"}
  BY <1>3 DEF CommandOf, Asks
<1>5. Born(a)
  <2>1. ShardInv(a) BY DEF KinesisInv
  <2>2. Unborn.commands = <<>> BY DEF Unborn
  <2> QED BY <2>1, <2>2 DEF ShardInv
<1> QED BY <1>1, <1>2, <1>3, <1>4, <1>5 DEF CommandOf, PutFree, ReadFree, StopFree, AwaitedBy

\* nobody waits again for a shard that nobody waits for
ForsakenKept ==
    \A a \in ShardIds : \A x \in Admins : Born(a) /\ Forsaken(a, x) => Forsaken(a, x)'

\* The calls that wait go on waiting, or have one shard less to wait for.
LEMMA ForsakenStays ==
    ASSUME UNCHANGED stream,
           \A x \in Admins : /\ ToSet(admins'[x].todo) \subseteq ToSet(admins[x].todo)
                             /\ admins'[x].parents \in {admins[x].parents, <<>>}
    PROVE  ForsakenKept
<1>1. Handles' = Handles BY DEF Handles, Active
<1>2. ASSUME NEW x \in Admins PROVE Parents(x)' \subseteq Parents(x)
  <2>1. ToSet(<<>>) = {} BY DEF ToSet
  <2>2. CASE admins'[x].parents = admins[x].parents BY <2>2 DEF Parents
  <2>3. CASE admins'[x].parents = <<>> BY <2>1, <2>3 DEF Parents
  <2> QED BY <2>2, <2>3
<1> QED BY <1>1, <1>2 DEF ForsakenKept, Forsaken

\* who waits for an actor does nothing else meanwhile
OwnersKept ==
    /\ \A c \in PutCalls : PutFree(c) \/ puts'[c] = puts[c]
    /\ \A r \in Readers : ReadFree(r) \/ readers'[r] = readers[r]
    /\ \A x \in Admins : StopFree(x) \/ (admins'[x] = admins[x] /\ (guard = x => guard' = x))
    /\ ForsakenKept

LEMMA CommandStays ==
    ASSUME KinesisInv, OwnersKept, NEW a \in ShardIds, NEW i \in 1..Len(shards[a].commands),
           NEW d, d = shards[a].commands[i], Live(a) => Live(a)'
    PROVE  CommandOf(a, d)'
<1>1. /\ d \in Command /\ CommandOf(a, d) /\ Born(a)
      /\ d \in PutCommand => ~PutFree(d.from)
      /\ d \in SeekCommand \cup ReadCommand => ~ReadFree(d.from)
      /\ d \in StopCommand => ~StopFree(d.from) \/ Forsaken(a, d.from)
  BY Queued
<1>2. d \in PutCommand => puts'[d.from] = puts[d.from]
  BY <1>1, CommandKinds DEF OwnersKept
<1>3. d \in SeekCommand \cup ReadCommand => readers'[d.from] = readers[d.from]
  BY <1>1, CommandKinds DEF OwnersKept
<1>4. ASSUME d \in StopCommand PROVE AwaitedBy(a, d)' \/ Forsaken(a, d.from)'
  <2>1. d.from \in Admins BY <1>1, <1>4, CommandKinds
  <2>2. CASE Forsaken(a, d.from) BY <1>1, <2>1, <2>2 DEF OwnersKept, ForsakenKept
  <2>3. CASE ~Forsaken(a, d.from)
    <3>1. AwaitedBy(a, d) BY <1>1, <1>4, <2>3 DEF CommandOf
    <3>2. admins'[d.from] = admins[d.from] /\ (guard = d.from => guard' = d.from)
      BY <1>1, <1>4, <2>1, <2>3 DEF OwnersKept
    <3> QED BY <3>1, <3>2 DEF AwaitedBy
  <2> QED BY <2>2, <2>3
<1> QED BY <1>1, <1>2, <1>3, <1>4 DEF CommandOf, Asks

\* Channels that nothing is sent to or taken from.
LEMMA QueueStays ==
    ASSUME KinesisInv, OwnersKept, NEW a \in ShardIds,
           shards'[a].commands = shards[a].commands, Live(a) => Live(a)'
    PROVE  CommandsInv(a)'
<1>1. PICK q : q = shards[a].commands OBVIOUS
<1>2. ASSUME NEW i \in 1..Len(q) PROVE CommandOf(a, q[i])' BY <1>1, CommandStays
<1>3. \A i, j \in 1..Len(q) : Conflict(q[i], q[j]) => i = j
  BY <1>1 DEF KinesisInv, CommandsInv
<1> QED BY <1>1, <1>2, <1>3 DEF CommandsInv

\* A call that had no command under way sends one.
LEMMA QueueGrows ==
    ASSUME KinesisInv, OwnersKept, NEW a \in ShardIds, NEW cmd \in Command,
           shards'[a].commands = Append(shards[a].commands, cmd), Live(a) => Live(a)',
           CommandOf(a, cmd)',
           \A i \in 1..Len(shards[a].commands) : ~Conflict(shards[a].commands[i], cmd)
    PROVE  CommandsInv(a)'
<1>1. PICK q : q = shards[a].commands OBVIOUS
<1>2. PICK t : t = shards'[a].commands OBVIOUS
<1>3. q \in Seq(Command) BY <1>1, ShardTypes DEF KinesisInv
<1>4. /\ Len(q) \in Nat /\ Len(t) = Len(q) + 1 /\ t[Len(q) + 1] = cmd
      /\ \A i \in 1..Len(q) : t[i] = q[i]
  BY <1>1, <1>2, <1>3
<1>5. \A i \in 1..Len(q) : CommandOf(a, t[i])'
  BY <1>1, <1>4, CommandStays
<1>6. \A i \in 1..Len(t) : CommandOf(a, t[i])'
  <2> SUFFICES ASSUME NEW i \in 1..Len(t) PROVE CommandOf(a, t[i])' OBVIOUS
  <2>1. i \in 1..Len(q) \/ i = Len(q) + 1 BY <1>4
  <2> QED BY <2>1, <1>4, <1>5
<1>7. \A i, j \in 1..Len(q) : Conflict(q[i], q[j]) => i = j
  BY <1>1 DEF KinesisInv, CommandsInv
<1>8. \A i \in 1..Len(q) : ~Conflict(q[i], cmd) /\ ~Conflict(cmd, q[i])
  BY <1>1 DEF Conflict
<1>9. \A i, j \in 1..Len(t) : Conflict(t[i], t[j]) => i = j
  <2> SUFFICES ASSUME NEW i \in 1..Len(t), NEW j \in 1..Len(t), Conflict(t[i], t[j])
               PROVE  i = j
    OBVIOUS
  <2>1. CASE i \in 1..Len(q) /\ j \in 1..Len(q) BY <2>1, <1>4, <1>7
  <2>2. CASE i \in 1..Len(q) /\ j = Len(q) + 1 BY <2>2, <1>4, <1>8
  <2>3. CASE i = Len(q) + 1 /\ j \in 1..Len(q) BY <2>3, <1>4, <1>8
  <2> QED BY <2>1, <2>2, <2>3, <1>4
<1> QED BY <1>2, <1>6, <1>9 DEF CommandsInv

-----------------------------------------------------------------------------
(* The actor handles a command.                                             *)

\* only the call that sent command h to a goes on
OthersKept(a, h) ==
    /\ guard' = guard
    /\ \A c \in PutCalls : puts'[c] = puts[c] \/ (h \in PutCommand /\ h.from = c)
    /\ \A r \in Readers : readers'[r] = readers[r] \/ (h \in SeekCommand \cup ReadCommand /\ h.from = r)
    /\ \A x \in Admins :
         admins'[x] = admins[x] \/ (h \in StopCommand /\ h.from = x /\ AwaitedBy(a, h))
    /\ ForsakenKept

LEMMA OtherCommand ==
    ASSUME KinesisInv, NEW a \in ShardIds, NEW h \in Command, CommandOf(a, h), OthersKept(a, h),
           NEW b \in ShardIds, NEW d \in Command, CommandOf(b, d), Born(b), Live(b) => Live(b)',
           b # a \/ ~Conflict(d, h)
    PROVE  CommandOf(b, d)'
<1>1. CASE d \in PutCommand
  <2>1. h \in PutCommand => h.from # d.from BY <1>1 DEF CommandOf, Conflict
  <2>2. puts'[d.from] = puts[d.from] BY <1>1, <2>1, CommandKinds DEF OthersKept
  <2>3. d \notin SeekCommand \cup ReadCommand /\ d \notin StopCommand BY <1>1, CommandKinds
  <2> QED BY <2>2, <2>3 DEF CommandOf
<1>2. CASE d \in SeekCommand \cup ReadCommand
  <2>1. h \in SeekCommand \cup ReadCommand => h.from # d.from BY <1>2 DEF CommandOf, Conflict
  <2>2. readers'[d.from] = readers[d.from] BY <1>2, <2>1, CommandKinds DEF OthersKept
  <2>3. d \notin PutCommand /\ d \notin StopCommand BY <1>2, CommandKinds
  <2> QED BY <2>2, <2>3 DEF CommandOf, Asks
<1>3. CASE d \in StopCommand
  <2>1. d.from \in Admins BY <1>3, CommandKinds
  <2>2. CASE Forsaken(b, d.from)
    <3>1. Forsaken(b, d.from)' BY <2>1, <2>2 DEF OthersKept, ForsakenKept
    <3>2. d \notin PutCommand /\ d \notin SeekCommand \cup ReadCommand BY <1>3, CommandKinds
    <3> QED BY <3>1, <3>2 DEF CommandOf
  <2>3. CASE ~Forsaken(b, d.from)
    <3>1. AwaitedBy(b, d) BY <1>3, <2>3 DEF CommandOf
    <3>2. h \in StopCommand /\ AwaitedBy(a, h) => h.from # d.from
      BY <1>3, <3>1 DEF AwaitedBy, Conflict
    <3>3. admins'[d.from] = admins[d.from] BY <2>1, <3>2 DEF OthersKept
    <3>4. d \notin PutCommand /\ d \notin SeekCommand \cup ReadCommand BY <1>3, CommandKinds
    <3>5. AwaitedBy(b, d)' BY <3>1, <3>3 DEF AwaitedBy, OthersKept
    <3> QED BY <3>4, <3>5 DEF CommandOf
  <2> QED BY <2>2, <2>3
<1> QED BY <1>1, <1>2, <1>3 DEF Command

\* The first command goes, or, when the actor ends, all of them.
LEMMA CommandHandled ==
    ASSUME KinesisInv, NEW a \in ShardIds, shards[a].commands # <<>>,
           NEW h, h = Head(shards[a].commands), OthersKept(a, h),
           \A b \in ShardIds : b # a => shards'[b] = shards[b],
           \/ shards'[a].commands = Tail(shards[a].commands) /\ Live(a)'
           \/ shards'[a].commands = <<>>
    PROVE  \A b \in ShardIds : CommandsInv(b)'
<1>1. PICK q : q = shards[a].commands OBVIOUS
<1>2. q \in Seq(Command) BY <1>1, ShardTypes DEF KinesisInv
<1>3. 1 \in 1..Len(q) /\ h = q[1] /\ Len(q) \in Nat BY <1>1, <1>2
<1>4. h \in Command /\ CommandOf(a, h) BY <1>1, <1>3, Queued
<1>5. ASSUME NEW b \in ShardIds, b # a PROVE CommandsInv(b)'
  <2>1. PICK t : t = shards[b].commands OBVIOUS
  <2>2. t = shards'[b].commands /\ Live(b)' = Live(b) BY <1>5, <2>1 DEF Live
  <2>3. ASSUME NEW i \in 1..Len(t) PROVE CommandOf(b, t[i])'
    <3>1. PICK d : d = t[i] OBVIOUS
    <3>2. d \in Command /\ CommandOf(b, d) /\ Born(b) BY <2>1, <3>1, Queued
    <3>3. CommandOf(b, d)' BY <1>4, <1>5, <2>2, <3>2, OtherCommand
    <3> QED BY <3>1, <3>3
  <2>4. \A i, j \in 1..Len(t) : Conflict(t[i], t[j]) => i = j
    BY <2>1 DEF KinesisInv, CommandsInv
  <2> QED BY <2>2, <2>3, <2>4 DEF CommandsInv
<1>6. CASE shards'[a].commands = <<>>
  <2>1. CommandsInv(a)' BY <1>6 DEF CommandsInv
  <2> QED BY <1>5, <2>1
<1>7. CASE shards'[a].commands = Tail(shards[a].commands) /\ Live(a)'
  <2>1. PICK t : t = Tail(q) OBVIOUS
  <2>2. Len(t) = Len(q) - 1 /\ \A i \in 1..Len(t) : i + 1 \in 1..Len(q) /\ t[i] = q[i + 1]
    BY <1>2, <1>3, <2>1
  <2>3. \A i, j \in 1..Len(q) : Conflict(q[i], q[j]) => i = j
    BY <1>1 DEF KinesisInv, CommandsInv
  <2>4. ASSUME NEW i \in 1..Len(t) PROVE CommandOf(a, t[i])'
    <3>1. PICK d : d = t[i] OBVIOUS
    <3>2. i + 1 \in 1..Len(q) /\ d = q[i + 1] /\ i + 1 # 1 BY <2>2, <3>1
    <3>3. d \in Command /\ CommandOf(a, d) /\ Born(a) BY <1>1, <3>2, Queued
    <3>4. ~Conflict(d, h) BY <1>3, <2>3, <3>2
    <3>5. CommandOf(a, d)' BY <1>4, <1>7, <3>3, <3>4, OtherCommand
    <3> QED BY <3>1, <3>5
  <2>5. \A i, j \in 1..Len(t) : Conflict(t[i], t[j]) => i = j
    <3> SUFFICES ASSUME NEW i \in 1..Len(t), NEW j \in 1..Len(t), Conflict(t[i], t[j])
                 PROVE  i = j
      OBVIOUS
    <3>1. i + 1 = j + 1 BY <2>2, <2>3
    <3> QED BY <3>1
  <2>6. shards'[a].commands = t BY <1>1, <1>7, <2>1
  <2>7. CommandsInv(a)' BY <2>4, <2>5, <2>6 DEF CommandsInv
  <2> QED BY <1>5, <2>7
<1> QED BY <1>6, <1>7

-----------------------------------------------------------------------------
(* Steps of callers: they touch the channels and their own state.           *)

Calm ==
    /\ UNCHANGED <<stream, guard, admins, clock, arrivals, orphans>>
    /\ shards' \in [ShardIds -> Shard]
    /\ \A a \in ShardIds :
         \/ shards'[a] = shards[a]
         \/ Born(a) /\ \E q : shards'[a] = [shards[a] EXCEPT !.commands = q]

LEMMA CalmShapes ==
    ASSUME KinesisInv, Calm
    PROVE  /\ Shaped
           /\ \A a \in ShardIds : /\ shards'[a].st = shards[a].st
                                  /\ shards'[a].counter = shards[a].counter
                                  /\ shards'[a].records = shards[a].records
                                  /\ shards'[a].trim = shards[a].trim
<1>1. ASSUME NEW a \in ShardIds
      PROVE  /\ shards'[a].lo = shards[a].lo /\ shards'[a].hi = shards[a].hi
             /\ shards'[a].prefix = shards[a].prefix
             /\ shards'[a].st = shards[a].st
             /\ shards'[a].counter = shards[a].counter
             /\ shards'[a].records = shards[a].records
             /\ shards'[a].trim = shards[a].trim
             /\ ~Born(a) => shards'[a] = shards[a]
  <2>1. shards[a] \in Shard BY ShardTypes DEF KinesisInv
  <2>2. CASE shards'[a] = shards[a] BY <2>2
  <2>3. CASE Born(a) /\ \E q : shards'[a] = [shards[a] EXCEPT !.commands = q]
    <3>1. PICK q : shards'[a] = [shards[a] EXCEPT !.commands = q] BY <2>3
    <3> QED BY <2>1, <2>3, <3>1 DEF Shard
  <2> QED BY <2>2, <2>3 DEF Calm
<1> QED BY <1>1 DEF Shaped, Born, Calm

LEMMA CalmKeeps ==
    ASSUME KinesisInv, Calm
    PROVE  /\ StreamInv' /\ (\A a \in ShardIds : ShardInv(a)') /\ Disjoint' /\ RecordsInv' /\ SpaceInv'
           /\ \A x \in Admins : AdminInv(x)'
           /\ \A a \in ShardIds : LogInv(a)'
<1>1. /\ Shaped
      /\ \A a \in ShardIds : /\ shards'[a].st = shards[a].st
                             /\ shards'[a].counter = shards[a].counter
                             /\ shards'[a].records = shards[a].records
                             /\ shards'[a].trim = shards[a].trim
  BY CalmShapes
<1>2. UNCHANGED <<stream, guard, admins, clock, arrivals, orphans>> BY DEF Calm
<1>3. StreamInv' /\ (\A a \in ShardIds : ShardInv(a)') /\ Disjoint' BY <1>1, <1>2, ShapeKeeps
<1>4. RecordsInv' BY <1>1, <1>2, RecordsKeep
<1>5. SpaceInv'
  <2>1. \A a \in Active : shards'[a].st = "open"
    BY <1>1, HandlesBorn DEF KinesisInv, SpaceInv
  <2> QED BY <1>1, <1>2, <2>1, SpaceKeeps
<1>6. \A x \in Admins : AdminInv(x)' BY <1>1, <1>2, AdminStays
<1>7. ASSUME NEW a \in ShardIds PROVE LogInv(a)'
  <2>1. StoredBy(a)' = StoredBy(a) BY <1>2 DEF StoredBy
  <2> QED BY <1>1, <2>1, LogStays
<1> QED BY <1>3, <1>4, <1>5, <1>6, <1>7

\* A put goes on.
LEMMA PutStep ==
    ASSUME KinesisInv, Calm, NEW c \in PutCalls, NEW p \in Put, PutInv(p),
           puts' = [puts EXCEPT ![c] = p], readers' = readers, blocked' \subseteq blocked,
           \A a \in ShardIds : CommandsInv(a)'
    PROVE  KinesisInv'
<1>1. Shaped /\ \A a \in ShardIds : shards'[a].trim = shards[a].trim BY CalmShapes
<1>2. UNCHANGED <<stream, guard, admins, clock, arrivals, orphans>> BY DEF Calm
<1>3. KinesisTypes'
  <2>1. puts' \in [PutCalls -> Put] BY DEF KinesisInv, KinesisTypes
  <2> QED BY <1>1, <1>2, <2>1 DEF KinesisInv, KinesisTypes, Shaped
<1>4. ASSUME NEW d \in PutCalls PROVE PutInv(puts[d])'
  <2>1. PICK q : q = puts'[d] OBVIOUS
  <2>2. q \in Put /\ PutInv(q)
    <3>1. q = IF d = c THEN p ELSE puts[d] BY <2>1 DEF KinesisInv, KinesisTypes
    <3> QED BY <3>1 DEF KinesisInv, KinesisTypes
  <2>3. q.snapshot \subseteq ShardIds BY <2>2 DEF Put
  <2>4. PutInv(q)' BY <1>1, <2>2, <2>3, PutStays
  <2> QED BY <2>1, <2>4
<1>5. \A r \in Readers : ReaderInv(r)' BY DEF KinesisInv, ReaderInv, Asks
<1>6. ASSUME NEW r \in Readers PROVE ProgressInv(r)'
  <2>1. \A a \in ShardIds : shards'[a].trim \in Nat /\ shards'[a].trim >= shards[a].trim
    BY <1>1, ShardTypes DEF KinesisInv
  <2>2. arrivals' = arrivals /\ readers'[r] = readers[r] BY <1>2
  <2> QED BY <2>1, <2>2, ProgressStays
<1> QED BY <1>3, <1>4, <1>5, <1>6, CalmKeeps DEF KinesisInv

\* A reader goes on.
LEMMA ReaderStep ==
    ASSUME KinesisInv, Calm, NEW r \in Readers, NEW q \in Reader,
           readers' = [readers EXCEPT ![r] = q], puts' = puts, blocked' \subseteq blocked,
           ReaderInv(r)', ProgressInv(r)', \A a \in ShardIds : CommandsInv(a)'
    PROVE  KinesisInv'
<1>1. Shaped /\ \A a \in ShardIds : shards'[a].trim = shards[a].trim BY CalmShapes
<1>2. UNCHANGED <<stream, guard, admins, clock, arrivals, orphans>> BY DEF Calm
<1>3. KinesisTypes'
  <2>1. readers' \in [Readers -> Reader] BY DEF KinesisInv, KinesisTypes
  <2> QED BY <1>1, <1>2, <2>1 DEF KinesisInv, KinesisTypes, Shaped
<1>4. \A d \in PutCalls : PutInv(puts[d])'
  <2> SUFFICES ASSUME NEW d \in PutCalls PROVE PutInv(puts[d])' OBVIOUS
  <2>1. PICK p : p = puts[d] OBVIOUS
  <2>2. p.snapshot \subseteq ShardIds /\ PutInv(p) BY <2>1 DEF KinesisInv, KinesisTypes, Put
  <2>3. PutInv(p)' BY <1>1, <2>2, PutStays
  <2> QED BY <2>1, <2>3
<1>5. \A s \in Readers : s # r => readers'[s] = readers[s] BY DEF KinesisInv, KinesisTypes
<1>6. ASSUME NEW s \in Readers PROVE ReaderInv(s)'
  BY <1>5 DEF KinesisInv, ReaderInv, Asks
<1>7. ASSUME NEW s \in Readers PROVE ProgressInv(s)'
  <2>1. \A a \in ShardIds : shards'[a].trim \in Nat /\ shards'[a].trim >= shards[a].trim
    BY <1>1, ShardTypes DEF KinesisInv
  <2> QED BY <1>2, <1>5, <2>1, ProgressStays
<1> QED BY <1>3, <1>4, <1>6, <1>7, CalmKeeps DEF KinesisInv

-----------------------------------------------------------------------------
(* Puts.                                                                    *)

\* Some shard of a snapshot comes first.
LEMMA FirstOfAll ==
    ASSUME NEW A \in SUBSET ShardIds, A # {}
    PROVE  \E a \in A : \A b \in A : a[2] <= b[2]
<1>1. \A a \in A : a[2] \in Nat
  <2> SUFFICES ASSUME NEW a \in A PROVE a[2] \in Nat OBVIOUS
  <2>1. a \in (1..MaxStreams) \X (0..(MaxShards - 1)) BY DEF ShardIds
  <2> QED BY <2>1
<1>2. PICK I : I = {a[2] : a \in A} OBVIOUS
<1>3. I \subseteq Nat /\ I # {} BY <1>1, <1>2
<1>4. PICK i \in I : \A j \in I : i <= j BY <1>3, LeastNat
<1>5. PICK a \in A : i = a[2] BY <1>2
<1> QED BY <1>2, <1>4, <1>5

\* A record is routed to a shard of the snapshot that has its key, or, when the
\* key was taken, to one of them.
LEMMA RoutedIsGood ==
    ASSUME KinesisInv, NEW A \in SUBSET ShardIds, NEW inc, \A a \in A : Born(a) /\ a[1] = inc,
           A # {}, Covers(A, inc, {}), NEW keys \in Seq(Keys), keys # <<>>
    PROVE  LET p == Await(Routed(A, keys[1]), A, keys) IN p \in Put /\ PutInv(p) /\ p.to \in A
<1>1. keys[1] \in Keys BY SMT
<1>2. PICK a : a = Routed(A, keys[1]) OBVIOUS
<1>3. ASSUME \E b \in A : contains(shards[b], keys[1])
      PROVE  a \in A /\ contains(shards[a], keys[1])
  <2>1. a = CHOOSE b \in A : contains(shards[b], keys[1]) BY <1>2, <1>3, Zenon DEF Routed
  <2> QED BY <1>3, <2>1, Zenon
<1>4. ASSUME ~\E b \in A : contains(shards[b], keys[1])
      PROVE  a \in A /\ keys[1] \in LostKeys(inc)
  <2>1. a = CHOOSE b \in A : \A d \in A : b[2] <= d[2] BY <1>2, <1>4, Zenon DEF Routed
  <2>2. \E b \in A : \A d \in A : b[2] <= d[2] BY FirstOfAll
  <2>3. a \in A BY <2>1, <2>2, Zenon
  <2>4. keys[1] \in LostKeys(inc) BY <1>1, <1>4 DEF Covers
  <2> QED BY <2>3, <2>4
<1>5. a \in A /\ (contains(shards[a], keys[1]) \/ keys[1] \in LostKeys(inc)) BY <1>3, <1>4
<1>6. PICK p : p = [st |-> "routed", keys |-> keys, snapshot |-> A, to |-> a] OBVIOUS
<1>7. p \in Put BY <1>5, <1>6 DEF Put
<1>8. a[1] = inc BY <1>5
<1>9. PutInv(p) BY <1>5, <1>6, <1>8 DEF PutInv
<1> QED BY <1>2, <1>5, <1>6, <1>7, <1>9 DEF Await

\* A put that has ended is bound to nothing.
LEMMA EndedIsGood == EndedPut \in Put /\ PutInv(EndedPut)
<1>1. <<>> \in Seq(Keys) OBVIOUS
<1>2. NewPut \in Put BY <1>1 DEF NewPut, Put
<1>3. EndedPut \in Put /\ EndedPut.st = "ended" BY <1>2 DEF EndedPut, Put
<1> QED BY <1>3 DEF PutInv

\* The record after it goes to a shard that has its key.
LEMMA NextIsGood ==
    ASSUME KinesisInv, NEW c \in PutCalls, puts[c].st \in {"routed", "sent"}
    PROVE  NextRecord(c) \in Put /\ PutInv(NextRecord(c))
<1>1. /\ puts[c].keys \in Seq(Keys) /\ puts[c].snapshot \in SUBSET ShardIds
      /\ \A a \in puts[c].snapshot : Born(a) /\ a[1] = puts[c].to[1]
      /\ puts[c].snapshot # {}
      /\ Covers(puts[c].snapshot, puts[c].to[1], {})
  BY DEF KinesisInv, KinesisTypes, Put, PutInv
<1>2. CASE Len(puts[c].keys) > 1
  <2>1. PICK keys : keys = Tail(puts[c].keys) OBVIOUS
  <2>2. keys \in Seq(Keys) /\ keys # <<>> /\ keys[1] = puts[c].keys[2]
    <3>1. PICK s \in Seq(Keys) : s = puts[c].keys BY <1>1
    <3>2. Len(s) \in Nat /\ Len(s) > 1 BY <1>2, <3>1
    <3>3. Tail(s) \in Seq(Keys) /\ Len(Tail(s)) = Len(s) - 1 /\ Tail(s)[1] = s[2] BY <3>2
    <3>4. keys = Tail(s) BY <2>1, <3>1
    <3>5. Len(keys) > 0 BY <3>2, <3>3, <3>4
    <3>6. keys # <<>> BY <3>5
    <3> QED BY <3>1, <3>3, <3>4, <3>6
  <2>3. PICK inc : inc = puts[c].to[1] OBVIOUS
  <2>4. PICK p : p = Await(Routed(puts[c].snapshot, keys[1]), puts[c].snapshot, keys) OBVIOUS
  <2>5. p \in Put /\ PutInv(p) BY <1>1, <2>2, <2>3, <2>4, RoutedIsGood
  <2>6. NextRecord(c) = p BY <1>2, <2>1, <2>2, <2>4 DEF NextRecord
  <2> QED BY <2>5, <2>6
<1>3. CASE ~(Len(puts[c].keys) > 1)
  BY <1>3, EndedIsGood DEF NextRecord
<1> QED BY <1>2, <1>3

\* A command is appended to the channel of a shard.
LEMMA Enqueued ==
    ASSUME KinesisInv, NEW a \in ShardIds, NEW cmd \in Command, Enqueue(a, cmd)
    PROVE  /\ shards' \in [ShardIds -> Shard]
           /\ shards'[a] = [shards[a] EXCEPT !.commands = Append(shards[a].commands, cmd)]
           /\ shards'[a].commands = Append(shards[a].commands, cmd)
           /\ \A b \in ShardIds : b # a => shards'[b] = shards[b]
           /\ \A b \in ShardIds : shards'[b].st = shards[b].st
<1>1. shards \in [ShardIds -> Shard] BY DEF KinesisInv, KinesisTypes
<1>2. shards[a] \in Shard /\ shards[a].commands \in Seq(Command) BY ShardTypes DEF KinesisInv
<1>3. Append(shards[a].commands, cmd) \in Seq(Command) BY <1>2
<1>4. PICK s : s = [shards[a] EXCEPT !.commands = Append(shards[a].commands, cmd)] OBVIOUS
<1>5. s \in Shard /\ s.commands = Append(shards[a].commands, cmd) /\ s.st = shards[a].st
  BY <1>2, <1>3, <1>4 DEF Shard
<1>6. shards' = [shards EXCEPT ![a] = s] BY <1>4 DEF Enqueue
<1> QED BY <1>1, <1>4, <1>5, <1>6

\* Callers whose commands are not in a channel may go on.
LEMMA CalmOwners ==
    ASSUME KinesisInv, Calm,
           \A c \in PutCalls : PutFree(c) \/ puts'[c] = puts[c],
           \A r \in Readers : ReadFree(r) \/ readers'[r] = readers[r]
    PROVE  OwnersKept /\ \A a \in ShardIds : Live(a) => Live(a)'
<1>1. UNCHANGED <<guard, admins>> BY DEF Calm
<1>2. \A a \in ShardIds : shards'[a].st = shards[a].st BY CalmShapes
<1>3. ForsakenKept BY ForsakenStays DEF Calm
<1> QED BY <1>1, <1>2, <1>3 DEF OwnersKept, Live

LEMMA StartPutInv == ASSUME KinesisInv, NEW c \in PutCalls, StartPut(c) PROVE KinesisInv'
<1>1. PICK keys \in Batches : puts' = [puts EXCEPT ![c] = IF Active = {} THEN EndedPut
                                          ELSE Await(Routed(Active, keys[1]), Active, keys)]
  BY DEF StartPut
<1>2. /\ puts[c].st = "new" /\ guard = NoTaskId /\ blocked' \subseteq blocked
      /\ UNCHANGED <<stream, guard, shards, readers, admins, clock, arrivals, orphans>>
  BY DEF StartPut, TakesGuard
<1>3. keys \in Seq(Keys) /\ keys # <<>> BY Bounds DEF Keys
<1>4. PICK p \in Put : PutInv(p) /\ puts' = [puts EXCEPT ![c] = p]
  <2>1. CASE Active = {}
    BY <1>1, <2>1, EndedIsGood
  <2>2. CASE Active # {}
    <3>1. Active \in SUBSET ShardIds /\ \A a \in Active : Born(a) /\ a[1] = stream.inc
      BY HandlesBorn DEF KinesisInv
    <3>2. Covers(Active, stream.inc, {}) BY <1>2, <2>2 DEF KinesisInv, SpaceInv
    <3> QED BY <1>1, <1>3, <2>2, <3>1, <3>2, RoutedIsGood
  <2> QED BY <2>1, <2>2
<1>5. Calm BY <1>2 DEF Calm, KinesisInv, KinesisTypes
<1>6. OwnersKept /\ \A a \in ShardIds : Live(a) => Live(a)'
  <2>1. PutFree(c) BY <1>2 DEF PutFree
  <2>2. \A d \in PutCalls : d # c => puts'[d] = puts[d] BY <1>1 DEF KinesisInv, KinesisTypes
  <2> QED BY <1>2, <1>5, <2>1, <2>2, CalmOwners
<1>7. \A a \in ShardIds : CommandsInv(a)' BY <1>2, <1>6, QueueStays
<1> QED BY <1>2, <1>4, <1>5, <1>7, PutStep

LEMMA SendPutInv == ASSUME KinesisInv, NEW c \in PutCalls, SendPut(c) PROVE KinesisInv'
<1>1. /\ puts[c].st = "routed" /\ blocked' = blocked
      /\ UNCHANGED <<stream, guard, readers, admins, clock, arrivals, orphans>>
  BY DEF SendPut
<1>2. PICK a \in ShardIds : a = puts[c].to /\ Born(a)
  <2>1. puts[c].to \in puts[c].snapshot /\ puts[c].snapshot \subseteq ShardIds
        /\ \A b \in puts[c].snapshot : Born(b)
    BY <1>1 DEF KinesisInv, PutInv, KinesisTypes, Put
  <2> QED BY <2>1
<1>3. PutFree(c) BY <1>1 DEF PutFree
<1>4. CASE Live(a)
  <2>1. PICK cmd : cmd = [op |-> "put", from |-> c] OBVIOUS
  <2>2. cmd \in PutCommand /\ cmd \in Command BY <2>1 DEF PutCommand, Command
  <2>3. Enqueue(a, cmd) /\ puts' = [puts EXCEPT ![c].st = "sent"]
    BY <1>2, <1>4, <2>1 DEF SendPut
  <2>4. PICK p : p = [puts[c] EXCEPT !.st = "sent"] OBVIOUS
  <2>5. puts[c] \in Put /\ PutInv(puts[c]) BY DEF KinesisInv, KinesisTypes
  <2>6. /\ p \in Put /\ p.st = "sent" /\ p.keys = puts[c].keys /\ p.to = puts[c].to
        /\ p.snapshot = puts[c].snapshot
    BY <2>4, <2>5 DEF Put
  <2>7. PutInv(p) BY <1>1, <2>5, <2>6 DEF PutInv
  <2>8. puts' = [puts EXCEPT ![c] = p] BY <2>3, <2>4
  <2>9. Calm BY <1>1, <1>2, <2>2, <2>3, Enqueued DEF Calm
  <2>10. puts'[c] = p /\ \A d \in PutCalls : d # c => puts'[d] = puts[d]
    BY <2>8 DEF KinesisInv, KinesisTypes
  <2>11. OwnersKept /\ \A b \in ShardIds : Live(b) => Live(b)'
    BY <1>1, <1>3, <2>9, <2>10, CalmOwners
  <2>12. CommandOf(a, cmd)'
    <3>1. Live(a)' BY <1>4, <2>11
    <3>2. cmd \notin SeekCommand \cup ReadCommand /\ cmd \notin StopCommand /\ cmd.from = c
      BY <2>1, <2>2, CommandKinds
    <3> QED BY <1>2, <2>6, <2>10, <3>1, <3>2 DEF CommandOf
  <2>13. ASSUME NEW i \in 1..Len(shards[a].commands) PROVE ~Conflict(shards[a].commands[i], cmd)
    <3>1. PICK d \in Command : d = shards[a].commands[i] /\ (d \in PutCommand => ~PutFree(d.from))
      BY Queued
    <3>2. cmd \notin SeekCommand \cup ReadCommand /\ cmd \notin StopCommand /\ cmd.from = c
      BY <2>1, <2>2, CommandKinds
    <3> QED BY <1>3, <3>1, <3>2 DEF Conflict
  <2>14. CommandsInv(a)'
    BY <2>2, <2>3, <2>11, <2>12, <2>13, Enqueued, QueueGrows
  <2>15. ASSUME NEW b \in ShardIds, b # a PROVE CommandsInv(b)'
    <3>1. shards'[b] = shards[b] BY <2>2, <2>3, <2>15, Enqueued
    <3> QED BY <2>11, <3>1, QueueStays
  <2> QED BY <1>1, <2>6, <2>7, <2>8, <2>9, <2>14, <2>15, PutStep
<1>5. CASE ~Live(a)
  <2>1. puts' = [puts EXCEPT ![c] = NextRecord(c)] /\ UNCHANGED shards
    BY <1>2, <1>5 DEF SendPut
  <2>2. NextRecord(c) \in Put /\ PutInv(NextRecord(c)) BY <1>1, NextIsGood
  <2>3. Calm BY <1>1, <2>1 DEF Calm, KinesisInv, KinesisTypes
  <2>4. OwnersKept /\ \A b \in ShardIds : Live(b) => Live(b)'
    <3>1. \A d \in PutCalls : d # c => puts'[d] = puts[d] BY <2>1 DEF KinesisInv, KinesisTypes
    <3> QED BY <1>1, <1>3, <2>3, <3>1, CalmOwners
  <2>5. \A b \in ShardIds : CommandsInv(b)' BY <2>1, <2>4, QueueStays
  <2> QED BY <1>1, <2>1, <2>2, <2>3, <2>5, PutStep
<1> QED BY <1>4, <1>5

LEMMA PutLostInv == ASSUME KinesisInv, NEW c \in PutCalls, PutLost(c) PROVE KinesisInv'
<1>1. /\ puts[c].st = "sent" /\ ~Live(puts[c].to) /\ puts' = [puts EXCEPT ![c] = NextRecord(c)]
      /\ UNCHANGED <<stream, guard, shards, readers, admins, blocked, clock, arrivals, orphans>>
  BY DEF PutLost
<1>2. NextRecord(c) \in Put /\ PutInv(NextRecord(c)) BY <1>1, NextIsGood
<1>3. Calm BY <1>1 DEF Calm, KinesisInv, KinesisTypes
<1>4. OwnersKept /\ \A b \in ShardIds : Live(b) => Live(b)'
  <2>1. PutFree(c) BY <1>1 DEF PutFree
  <2>2. \A d \in PutCalls : d # c => puts'[d] = puts[d] BY <1>1 DEF KinesisInv, KinesisTypes
  <2> QED BY <1>1, <1>3, <2>1, <2>2, CalmOwners
<1>5. \A b \in ShardIds : CommandsInv(b)' BY <1>1, <1>4, QueueStays
<1> QED BY <1>1, <1>2, <1>3, <1>5, PutStep

\* Only channels change, and the set of blocked tasks.
LEMMA ChannelStep ==
    ASSUME KinesisInv, Calm, UNCHANGED <<puts, readers>>,
           blocked' \subseteq PutCalls \cup Readers \cup Admins,
           \A a \in ShardIds : CommandsInv(a)'
    PROVE  KinesisInv'
<1>1. Shaped /\ \A a \in ShardIds : shards'[a].trim = shards[a].trim BY CalmShapes
<1>2. UNCHANGED <<stream, guard, admins, clock, arrivals, orphans>> BY DEF Calm
<1>3. KinesisTypes' BY <1>1, <1>2 DEF KinesisInv, KinesisTypes, Shaped
<1>4. ASSUME NEW d \in PutCalls PROVE PutInv(puts[d])'
  <2>1. PICK p : p = puts[d] OBVIOUS
  <2>2. p.snapshot \subseteq ShardIds /\ PutInv(p) BY <2>1 DEF KinesisInv, KinesisTypes, Put
  <2>3. PutInv(p)' BY <1>1, <2>2, PutStays
  <2> QED BY <2>1, <2>3
<1>5. \A r \in Readers : ReaderInv(r)' BY DEF KinesisInv, ReaderInv, Asks
<1>6. ASSUME NEW r \in Readers PROVE ProgressInv(r)'
  <2>1. \A a \in ShardIds : shards'[a].trim \in Nat /\ shards'[a].trim >= shards[a].trim
    BY <1>1, ShardTypes DEF KinesisInv
  <2> QED BY <1>2, <2>1, ProgressStays
<1> QED BY <1>3, <1>4, <1>5, <1>6, CalmKeeps DEF KinesisInv

\* Nothing but the set of blocked tasks changes.
LEMMA Stutters ==
    ASSUME KinesisInv, blocked' \subseteq PutCalls \cup Readers \cup Admins,
           UNCHANGED <<stream, guard, shards, puts, readers, admins, clock, arrivals, orphans>>
    PROVE  KinesisInv'
<1>1. Calm BY DEF Calm, KinesisInv, KinesisTypes
<1>2. OwnersKept /\ \A a \in ShardIds : Live(a) => Live(a)' BY <1>1, CalmOwners
<1>3. \A a \in ShardIds : CommandsInv(a)' BY <1>2, QueueStays
<1> QED BY <1>1, <1>3, ChannelStep

-----------------------------------------------------------------------------
(* Reads.                                                                   *)

LEMMA GetShardIteratorInv ==
    ASSUME KinesisInv, NEW r \in Readers, get_shard_iterator(r) PROVE KinesisInv'
<1>1. /\ readers[r].st = "none" /\ blocked' \subseteq blocked
      /\ UNCHANGED <<stream, guard, shards, puts, admins, clock, arrivals, orphans>>
  BY DEF get_shard_iterator, TakesGuard
<1>2. PICK a \in Handles, n \in 0..Len(arrivals) : \E kind \in IteratorKinds(n) :
         readers' = [readers EXCEPT ![r] = [NewReader EXCEPT !.st = "asking", !.at = a,
                       !.cmd = <<[op |-> "iterator", from |-> r, kind |-> kind, seq |-> SeqAt(n)]>>]]
  BY DEF get_shard_iterator
<1>3. PICK kind \in IteratorKinds(n) :
         readers' = [readers EXCEPT ![r] = [NewReader EXCEPT !.st = "asking", !.at = a,
                       !.cmd = <<[op |-> "iterator", from |-> r, kind |-> kind, seq |-> SeqAt(n)]>>]]
  BY <1>2
<1>4. SeqAt(n) \in SequenceNumber
  <2>1. CASE n = 0 BY <2>1 DEF SeqAt, SequenceNumber
  <2>2. CASE n # 0
    <3>1. arrivals \in Seq(Record) BY DEF KinesisInv, KinesisTypes
    <3>2. n \in DOMAIN arrivals BY <2>2, <3>1
    <3>3. arrivals[n].seq \in SequenceNumber BY <3>2, ArrivalTypes DEF KinesisInv
    <3> QED BY <2>2, <3>3 DEF SeqAt
  <2> QED BY <2>1, <2>2
<1>5. PICK cmd : cmd = [op |-> "iterator", from |-> r, kind |-> kind, seq |-> SeqAt(n)] OBVIOUS
<1>6. cmd \in SeekCommand /\ cmd \in Command /\ cmd.from = r
  <2>1. kind \in {"horizon", "latest", "at", "after"} BY DEF IteratorKinds
  <2> QED BY <1>4, <1>5, <2>1 DEF SeekCommand, Command
<1>7. PICK q : q = [NewReader EXCEPT !.st = "asking", !.at = a, !.cmd = <<cmd>>] OBVIOUS
<1>8. a \in ShardIds BY HandlesBorn DEF KinesisInv
<1>9. /\ q \in Reader /\ q.st = "asking" /\ q.at = a /\ q.cmd = <<cmd>> /\ q.pos = 0
      /\ q.start = 0 /\ q.got = {}
  <2>1. <<cmd>> \in Seq(Command) BY <1>6
  <2> QED BY <1>7, <1>8, <2>1 DEF NewReader, Reader
<1>10. readers' = [readers EXCEPT ![r] = q] BY <1>3, <1>5, <1>7
<1>11. readers'[r] = q /\ \A s \in Readers : s # r => readers'[s] = readers[s]
  BY <1>10 DEF KinesisInv, KinesisTypes
<1>12. Calm BY <1>1 DEF Calm, KinesisInv, KinesisTypes
<1>13. \A b \in ShardIds : CommandsInv(b)'
  <2>1. ReadFree(r) BY <1>1 DEF ReadFree
  <2>2. OwnersKept /\ \A b \in ShardIds : Live(b) => Live(b)'
    BY <1>1, <1>11, <1>12, <2>1, CalmOwners
  <2> QED BY <1>1, <2>2, QueueStays
<1>14. ReaderInv(r)'
  <2>1. Len(q.cmd) = 1 /\ q.cmd[1] = cmd BY <1>9
  <2> QED BY <1>6, <1>8, <1>9, <1>11, <2>1 DEF ReaderInv, Asks
<1>15. ProgressInv(r)'
  BY <1>9, <1>11 DEF ProgressInv
<1> QED BY <1>1, <1>9, <1>10, <1>12, <1>13, <1>14, <1>15, ReaderStep

LEMMA GetRecordsInv ==
    ASSUME KinesisInv, NEW r \in Readers, get_records(r) PROVE KinesisInv'
<1>1. /\ readers[r].st = "idle" /\ blocked' \subseteq blocked
      /\ UNCHANGED <<stream, guard, shards, puts, admins, clock, arrivals, orphans>>
  BY DEF get_records, TakesGuard
<1>2. PICK a \in ShardIds : a = Resolved(r) BY HandlesBorn DEF KinesisInv, get_records
<1>3. readers[r] \in Reader BY DEF KinesisInv, KinesisTypes
<1>4. PICK p : p = IF readers[r].at = a THEN readers[r]
                   ELSE [NewReader EXCEPT !.at = a, !.pos = readers[r].pos, !.start = readers[r].pos]
  OBVIOUS
<1>5. PICK limit \in ReadLimits :
         readers' = [readers EXCEPT ![r] = [p EXCEPT !.st = "reading",
            !.cmd = <<[op |-> "get", from |-> r, pos |-> readers[r].pos, limit |-> limit]>>]]
  <2>1. r \in DOMAIN readers BY DEF KinesisInv, KinesisTypes
  <2>2. PICK limit \in ReadLimits :
          readers' = [readers EXCEPT ![r] =
           [(IF readers[r].at = Resolved(r) THEN readers[r]
             ELSE [NewReader EXCEPT !.at = Resolved(r), !.pos = readers[r].pos, !.start = readers[r].pos])
            EXCEPT !.st = "reading",
                   !.cmd = <<[op |-> "get", from |-> r, pos |-> readers[r].pos, limit |-> limit]>>]]
    BY <2>1 DEF get_records
  <2> QED BY <1>2, <1>4, <2>2
<1>6. PICK cmd : cmd = [op |-> "get", from |-> r, pos |-> readers[r].pos, limit |-> limit] OBVIOUS
<1>7. cmd \in ReadCommand /\ cmd \in Command /\ cmd.from = r /\ cmd.pos = readers[r].pos
  <2>1. limit \in Nat BY Bounds
  <2> QED BY <1>3, <1>6, <2>1 DEF Reader, ReadCommand, Command
<1>8. p \in Reader /\ p.at = a /\ p.pos = readers[r].pos
  <2>1. CASE readers[r].at = a BY <1>3, <1>4, <2>1
  <2>2. CASE readers[r].at # a
    <3>1. p = [NewReader EXCEPT !.at = a, !.pos = readers[r].pos, !.start = readers[r].pos]
      BY <1>4, <2>2
    <3>2. readers[r].pos \in Nat BY <1>3 DEF Reader
    <3>3. NewReader \in Reader
      <4>1. <<>> \in Seq(Command) OBVIOUS
      <4> QED BY <4>1 DEF NewReader, Reader
    <3> QED BY <3>1, <3>2, <3>3 DEF Reader
  <2> QED BY <2>1, <2>2
<1>9. PICK q : q = [p EXCEPT !.st = "reading", !.cmd = <<cmd>>] OBVIOUS
<1>10. /\ q \in Reader /\ q.st = "reading" /\ q.cmd = <<cmd>> /\ q.at = a /\ q.pos = p.pos
      /\ q.start = p.start /\ q.got = p.got
  <2>1. <<cmd>> \in Seq(Command) BY <1>7
  <2> QED BY <1>9, <1>8, <2>1 DEF Reader
<1>11. readers' = [readers EXCEPT ![r] = q] BY <1>5, <1>6, <1>9
<1>12. readers'[r] = q /\ \A s \in Readers : s # r => readers'[s] = readers[s]
  BY <1>11 DEF KinesisInv, KinesisTypes
<1>13. Calm BY <1>1 DEF Calm, KinesisInv, KinesisTypes
<1>14. \A b \in ShardIds : CommandsInv(b)'
  <2>1. ReadFree(r) BY <1>1 DEF ReadFree
  <2>2. OwnersKept /\ \A b \in ShardIds : Live(b) => Live(b)'
    BY <1>1, <1>12, <1>13, <2>1, CalmOwners
  <2> QED BY <1>1, <2>2, QueueStays
<1>15. ReaderInv(r)'
  <2>1. Len(q.cmd) = 1 /\ q.cmd[1] = cmd BY <1>10
  <2> QED BY <1>7, <1>8, <1>10, <1>12, <2>1 DEF ReaderInv, Asks
<1>16. ProgressInv(r)'
  <2>1. CASE readers[r].at = a
    <3>1. p = readers[r] BY <1>4, <2>1
    <3>2. \A b \in ShardIds : shards'[b].trim \in Nat /\ shards'[b].trim >= shards[b].trim
      BY <1>1, ShardTypes DEF KinesisInv
    <3> QED BY <1>1, <1>8, <1>10, <1>12, <2>1, <3>1, <3>2, ProgressStays
  <2>2. CASE readers[r].at # a
    <3>1. q.pos = q.start /\ q.pos \in Nat BY <1>4, <1>3, <1>10, <2>2 DEF NewReader, Reader
    <3> QED BY <1>12, <3>1 DEF ProgressInv
  <2> QED BY <2>1, <2>2
<1> QED BY <1>1, <1>11, <1>10, <1>13, <1>14, <1>15, <1>16, ReaderStep

\* A call that fails leaves the iterator where it was.
LEMMA FailedIsGood ==
    ASSUME KinesisInv, Calm, NEW r \in Readers, readers[r].st \in {"asking", "reading"}, ReadFree(r),
           readers' = Failed(r), puts' = puts, blocked' = blocked, shards' = shards
    PROVE  KinesisInv'
<1>1. readers[r] \in Reader BY DEF KinesisInv, KinesisTypes
<1>2. PICK q : q = [readers[r] EXCEPT !.st = IF @ = "asking" THEN "none" ELSE "idle", !.cmd = <<>>]
  OBVIOUS
<1>3. /\ q \in Reader /\ q.cmd = <<>> /\ q.at = readers[r].at /\ q.pos = readers[r].pos
      /\ q.start = readers[r].start /\ q.got = readers[r].got
      /\ q.st = IF readers[r].st = "asking" THEN "none" ELSE "idle"
  <2>1. <<>> \in Seq(Command) OBVIOUS
  <2> QED BY <1>1, <1>2, <2>1 DEF Reader
<1>4. readers' = [readers EXCEPT ![r] = q] BY <1>2 DEF Failed
<1>5. readers'[r] = q /\ \A s \in Readers : s # r => readers'[s] = readers[s]
  BY <1>4 DEF KinesisInv, KinesisTypes
<1>6. OwnersKept /\ \A b \in ShardIds : Live(b) => Live(b)' BY <1>5, CalmOwners
<1>7. \A b \in ShardIds : CommandsInv(b)' BY <1>6, QueueStays
<1>8. ReaderInv(r)'
  <2>1. readers[r].st = "asking" => readers[r].start = readers[r].pos
    BY DEF KinesisInv, ReaderInv
  <2> QED BY <1>3, <1>5, <2>1 DEF ReaderInv
<1>9. ProgressInv(r)'
  <2>1. \A b \in ShardIds : shards'[b].trim \in Nat /\ shards'[b].trim >= shards[b].trim
    BY ShardTypes DEF KinesisInv
  <2>2. arrivals' = arrivals BY DEF Calm
  <2> QED BY <1>3, <1>5, <2>1, <2>2, ProgressStays
<1> QED BY <1>3, <1>4, <1>7, <1>8, <1>9, ReaderStep

LEMMA ReadLostInv == ASSUME KinesisInv, NEW r \in Readers, ReadLost(r) PROVE KinesisInv'
<1>1. Calm BY DEF ReadLost, Calm, KinesisInv, KinesisTypes
<1>2. ReadFree(r) BY DEF ReadLost, ReadFree
<1> QED BY <1>1, <1>2, FailedIsGood DEF ReadLost

LEMMA SendReadInv == ASSUME KinesisInv, NEW r \in Readers, SendRead(r) PROVE KinesisInv'
<1>1. /\ readers[r].cmd # <<>> /\ blocked' = blocked
      /\ UNCHANGED <<stream, guard, puts, admins, clock, arrivals, orphans>>
  BY DEF SendRead
<1>2. PICK cmd : cmd = readers[r].cmd[1] OBVIOUS
<1>3. /\ readers[r] \in Reader /\ cmd \in Command /\ Asks(r, cmd) /\ readers[r].at \in ShardIds
      /\ readers[r].st \in {"asking", "reading"}
  <2>1. readers[r] \in Reader BY DEF KinesisInv, KinesisTypes
  <2>2. /\ Len(readers[r].cmd) = 1 /\ Asks(r, cmd) /\ readers[r].at \in ShardIds
    BY <1>1, <1>2 DEF KinesisInv, ReaderInv
  <2> QED BY <2>1, <2>2 DEF Asks, Command
<1>4. PICK a \in ShardIds : a = readers[r].at BY <1>3
<1>5. cmd \in SeekCommand \cup ReadCommand /\ cmd.from = r /\ cmd \notin PutCommand /\ cmd \notin StopCommand
  BY <1>3, CommandKinds DEF Asks
<1>6. ReadFree(r) BY <1>1 DEF ReadFree
<1>7. CASE Live(a)
  <2>1. Enqueue(a, cmd) /\ readers' = [readers EXCEPT ![r].cmd = <<>>]
    BY <1>2, <1>4, <1>7 DEF SendRead
  <2>2. PICK q : q = [readers[r] EXCEPT !.cmd = <<>>] OBVIOUS
  <2>3. /\ q \in Reader /\ q.cmd = <<>> /\ q.at = a /\ q.pos = readers[r].pos
        /\ q.start = readers[r].start /\ q.got = readers[r].got /\ q.st = readers[r].st
    <3>1. <<>> \in Seq(Command) OBVIOUS
    <3> QED BY <1>3, <1>4, <2>2, <3>1 DEF Reader
  <2>4. readers' = [readers EXCEPT ![r] = q] BY <2>1, <2>2
  <2>5. readers'[r] = q /\ \A s \in Readers : s # r => readers'[s] = readers[s]
    BY <2>4 DEF KinesisInv, KinesisTypes
  <2>6. Calm BY <1>1, <1>3, <1>7, <2>1, Enqueued DEF Calm, Live, Born
  <2>7. OwnersKept /\ \A b \in ShardIds : Live(b) => Live(b)'
    BY <1>1, <1>6, <2>5, <2>6, CalmOwners
  <2>8. Asks(r, cmd)' BY <1>3, <2>3, <2>5 DEF Asks
  <2>9. CommandOf(a, cmd)'
    BY <1>5, <1>7, <2>3, <2>5, <2>7, <2>8 DEF CommandOf
  <2>10. ASSUME NEW i \in 1..Len(shards[a].commands) PROVE ~Conflict(shards[a].commands[i], cmd)
    <3>1. PICK d : d = shards[a].commands[i] OBVIOUS
    <3>2. d \in SeekCommand \cup ReadCommand => ~ReadFree(d.from) BY <3>1, Queued
    <3> QED BY <1>5, <1>6, <3>1, <3>2 DEF Conflict
  <2>11. CommandsInv(a)' BY <1>3, <2>1, <2>7, <2>9, <2>10, Enqueued, QueueGrows
  <2>12. ASSUME NEW b \in ShardIds, b # a PROVE CommandsInv(b)'
    <3>1. shards'[b] = shards[b] BY <1>3, <2>1, <2>12, Enqueued
    <3> QED BY <2>7, <3>1, QueueStays
  <2>13. ReaderInv(r)'
    <3>1. ReaderInv(r) BY DEF KinesisInv
    <3> QED BY <2>3, <2>5, <3>1 DEF ReaderInv
  <2>14. ProgressInv(r)'
    <3>1. \A b \in ShardIds : shards'[b].trim \in Nat /\ shards'[b].trim >= shards[b].trim
      BY <2>6, CalmShapes, ShardTypes DEF KinesisInv
    <3> QED BY <1>1, <1>4, <2>3, <2>5, <3>1, ProgressStays
  <2> QED BY <1>1, <2>3, <2>4, <2>6, <2>11, <2>12, <2>13, <2>14, ReaderStep
<1>8. CASE ~Live(a)
  <2>1. readers' = Failed(r) /\ UNCHANGED shards BY <1>4, <1>8 DEF SendRead
  <2>2. Calm BY <1>1, <2>1 DEF Calm, KinesisInv, KinesisTypes
  <2> QED BY <1>1, <1>3, <1>6, <2>1, <2>2, FailedIsGood
<1> QED BY <1>7, <1>8

-----------------------------------------------------------------------------
(* The shard actor answers a read.                                          *)

\* The command at the head of a channel.
LEMMA FirstCommand ==
    ASSUME KinesisInv, NEW a \in ShardIds, shards[a].commands # <<>>,
           NEW h, h = Head(shards[a].commands)
    PROVE  h \in Command /\ CommandOf(a, h) /\ Tail(shards[a].commands) \in Seq(Command)
<1>1. PICK q : q = shards[a].commands OBVIOUS
<1>2. q \in Seq(Command) BY <1>1, ShardTypes DEF KinesisInv
<1>3. 1 \in 1..Len(q) /\ h = q[1] /\ Tail(q) \in Seq(Command) BY <1>1, <1>2
<1> QED BY <1>1, <1>3, Queued

\* It is taken from the channel.
LEMMA TakenIsCalm ==
    ASSUME KinesisInv, NEW a \in ShardIds, Live(a), shards[a].commands # <<>>,
           shards' = [shards EXCEPT ![a] = Taken(@)],
           UNCHANGED <<stream, guard, admins, clock, arrivals, orphans>>
    PROVE  /\ Calm
           /\ shards'[a].commands = Tail(shards[a].commands) /\ Live(a)'
           /\ \A b \in ShardIds : b # a => shards'[b] = shards[b]
<1>1. shards[a] \in Shard /\ shards \in [ShardIds -> Shard]
  BY ShardTypes DEF KinesisInv, KinesisTypes
<1>2. Tail(shards[a].commands) \in Seq(Command) BY FirstCommand
<1>3. PICK s : s = [shards[a] EXCEPT !.commands = Tail(shards[a].commands)] OBVIOUS
<1>4. s \in Shard /\ s.commands = Tail(shards[a].commands) /\ s.st = shards[a].st
  BY <1>1, <1>2, <1>3 DEF Shard
<1>5. shards' = [shards EXCEPT ![a] = s] BY <1>1, <1>3 DEF Taken
<1>6. shards'[a] = s /\ \A b \in ShardIds : b # a => shards'[b] = shards[b] BY <1>1, <1>5
<1>7. Born(a) BY DEF Live, Born
<1>8. shards' \in [ShardIds -> Shard] BY <1>1, <1>4, <1>5
<1>9. Calm BY <1>3, <1>6, <1>7, <1>8 DEF Calm
<1> QED BY <1>4, <1>6, <1>9 DEF Live

\* Positions are numbers of records.
LEMMA PositionIsNat ==
    ASSUME KinesisTypes, NEW a \in ShardIds, NEW cmd \in SeekCommand
    PROVE  IteratorPosition(shards[a], cmd) \in Nat
<1>1. shards[a].trim \in Nat /\ shards[a].records \in Seq(Record) BY ShardTypes
<1>2. Len(shards[a].records) \in Nat /\ DOMAIN shards[a].records \subseteq Nat \ {0} BY <1>1
<1>3. ASSUME NEW later \in SUBSET DOMAIN shards[a].records
      PROVE  FirstPosition(shards[a], later) \in Nat
  <2>1. CASE later = {} BY <1>1, <1>2, <2>1 DEF FirstPosition
  <2>2. CASE later # {}
    <3>1. later \subseteq Nat BY <1>2
    <3>2. \E i \in later : \A j \in later : i <= j BY <2>2, <3>1, LeastNat
    <3>3. (CHOOSE i \in later : \A j \in later : i <= j) \in later BY <3>2
    <3>4. PICK i \in later : i = CHOOSE k \in later : \A j \in later : k <= j BY <3>3
    <3>5. i \in Nat \ {0} BY <1>2
    <3>6. FirstPosition(shards[a], later) = shards[a].trim + (i - 1) BY <2>2, <3>4 DEF FirstPosition
    <3> QED BY <1>1, <3>5, <3>6
  <2> QED BY <2>1, <2>2
<1>4. cmd.kind \in {"horizon", "latest", "at", "after"} BY DEF SeekCommand
<1>5. RecordsFrom(shards[a], cmd.seq) \in SUBSET DOMAIN shards[a].records
      /\ RecordsAfter(shards[a], cmd.seq) \in SUBSET DOMAIN shards[a].records
  BY DEF RecordsFrom, RecordsAfter
<1>6. latest_position(shards[a]) \in Nat BY <1>1, <1>2 DEF latest_position
<1>7. CASE cmd.kind = "horizon" BY <1>1, <1>7 DEF IteratorPosition
<1>8. CASE cmd.kind = "latest" BY <1>6, <1>8 DEF IteratorPosition
<1>9. CASE cmd.kind = "at" BY <1>3, <1>5, <1>9 DEF IteratorPosition
<1>10. CASE cmd.kind = "after" BY <1>3, <1>5, <1>10 DEF IteratorPosition
<1> QED BY <1>4, <1>7, <1>8, <1>9, <1>10

LEMMA HandleIteratorInv ==
    ASSUME KinesisInv, NEW a \in ShardIds, Live(a), shards[a].commands # <<>>,
           NEW h, h = Head(shards[a].commands), HandleIterator(a, h),
           UNCHANGED <<stream, guard, blocked, clock, orphans>>
    PROVE  KinesisInv'
<1>1. /\ h.op = "iterator" /\ shards' = [shards EXCEPT ![a] = Taken(@)]
      /\ UNCHANGED <<puts, admins, arrivals>>
  BY DEF HandleIterator
<1>2. h \in SeekCommand /\ CommandOf(a, h) BY <1>1, FirstCommand, CommandKinds
<1>3. PICK r \in Readers : r = h.from BY <1>2 DEF SeekCommand
<1>4. readers[r] \in Reader BY DEF KinesisInv, KinesisTypes
<1>5. PICK n \in Nat : n = IteratorPosition(shards[a], h) BY <1>2, PositionIsNat DEF KinesisInv
<1>6. PICK q : q = [readers[r] EXCEPT !.st = "idle", !.pos = n, !.start = n] OBVIOUS
<1>7. /\ q \in Reader /\ q.st = "idle" /\ q.pos = n /\ q.start = n /\ q.cmd = readers[r].cmd
  BY <1>4, <1>6 DEF Reader
<1>8. readers[r].cmd = <<>> BY <1>2, <1>3 DEF CommandOf
<1>9. readers' = [readers EXCEPT ![r] = q]
  BY <1>3, <1>5, <1>6 DEF HandleIterator, KinesisInv, KinesisTypes
<1>10. readers'[r] = q /\ \A s \in Readers : s # r => readers'[s] = readers[s]
  BY <1>9 DEF KinesisInv, KinesisTypes
<1>11. Calm /\ shards'[a].commands = Tail(shards[a].commands) /\ Live(a)'
       /\ \A b \in ShardIds : b # a => shards'[b] = shards[b]
  BY <1>1, TakenIsCalm
<1>12. OthersKept(a, h) BY <1>1, <1>2, <1>3, <1>10, ForsakenStays DEF OthersKept
<1>13. \A b \in ShardIds : CommandsInv(b)' BY <1>11, <1>12, CommandHandled
<1>14. ReaderInv(r)' BY <1>7, <1>8, <1>10 DEF ReaderInv
<1>15. ProgressInv(r)' BY <1>7, <1>10 DEF ProgressInv
<1> QED BY <1>1, <1>7, <1>9, <1>11, <1>13, <1>14, <1>15, ReaderStep

\* What a read returns lies between its position and the one after it.
LEMMA HandleGetInv ==
    ASSUME KinesisInv, NEW a \in ShardIds, Live(a), shards[a].commands # <<>>,
           NEW h, h = Head(shards[a].commands), HandleGet(a, h),
           UNCHANGED <<stream, guard, blocked, clock, orphans>>
    PROVE  KinesisInv'
<1>1. /\ h.op = "get" /\ shards' = [shards EXCEPT ![a] = Taken(@)]
      /\ UNCHANGED <<puts, admins, arrivals>>
  BY DEF HandleGet
<1>2. h \in ReadCommand /\ CommandOf(a, h) BY <1>1, FirstCommand, CommandKinds
<1>3. PICK r \in Readers : r = h.from BY <1>2 DEF ReadCommand
<1>4. /\ readers[r] \in Reader /\ readers[r].cmd = <<>> /\ readers[r].at = a
      /\ h.pos = readers[r].pos /\ h.pos \in Nat /\ h.limit \in Nat
      /\ readers[r].start \in Nat
  <2>1. readers[r] \in Reader BY DEF KinesisInv, KinesisTypes
  <2>2. readers[r].cmd = <<>> /\ readers[r].at = a /\ Asks(r, h) BY <1>2, <1>3 DEF CommandOf
  <2>3. h.pos = readers[r].pos BY <1>2, <2>2, CommandKinds DEF Asks, Command
  <2> QED BY <1>2, <2>1, <2>2, <2>3 DEF ReadCommand, Reader
<1>5. PICK recs, trim : recs = shards[a].records /\ trim = shards[a].trim OBVIOUS
<1>6. recs \in Seq(Record) /\ trim \in Nat /\ Len(recs) \in Nat /\ DOMAIN recs = 1..Len(recs)
  BY <1>5, ShardTypes DEF KinesisInv
<1>7. PICK from : from = ReadFrom(shards[a], h.pos) OBVIOUS
<1>8. from \in Nat /\ from + trim >= h.pos /\ (from = 0 \/ from + trim = h.pos)
  <2>1. PICK pos \in Nat : pos = h.pos BY <1>4
  <2>2. from = IF pos < trim THEN 0 ELSE pos - trim BY <1>5, <1>7, <2>1 DEF ReadFrom
  <2>3. from \in Nat /\ from + trim >= pos /\ (from = 0 \/ from + trim = pos)
    BY <1>6, <2>2
  <2> QED BY <2>1, <2>3
<1>9. PICK to : to = ReadTo(shards[a], h.pos, h.limit) OBVIOUS
<1>10. to \in 0..Len(recs)
  BY <1>4, <1>5, <1>6, <1>7, <1>8, <1>9 DEF ReadTo
<1>11. PICK some : some = {recs[i].seq : i \in (from + 1)..to} OBVIOUS
<1>12. \A i \in (from + 1)..to : i \in DOMAIN recs /\ recs[i] \in Record
  BY <1>6, <1>8, <1>10
<1>13. some \subseteq SequenceNumber BY <1>11, <1>12 DEF Record
<1>14. PICK n \in Nat, g \in SUBSET SequenceNumber : n = trim + to /\ g = readers[r].got \cup some
  <2>1. trim + to \in Nat BY <1>6, <1>10
  <2>2. readers[r].got \cup some \in SUBSET SequenceNumber BY <1>4, <1>13 DEF Reader
  <2> QED BY <2>1, <2>2
<1>15. PICK q : q = [readers[r] EXCEPT !.st = "idle", !.pos = n, !.got = g]
  OBVIOUS
<1>16. /\ q \in Reader /\ q.st = "idle" /\ q.pos = trim + to /\ q.got = readers[r].got \cup some
       /\ q.start = readers[r].start /\ q.at = a /\ q.cmd = <<>>
  BY <1>4, <1>15, <1>14 DEF Reader
<1>17. readers' = [readers EXCEPT ![r] = q]
  <2>1. some = {shards[a].records[i].seq : i \in
                  (ReadFrom(shards[a], h.pos) + 1)..ReadTo(shards[a], h.pos, h.limit)}
    BY <1>5, <1>7, <1>9, <1>11
  <2>2. readers' = [readers EXCEPT ![r].st = "idle",
                      ![r].pos = shards[a].trim + ReadTo(shards[a], h.pos, h.limit), ![r].got = @ \cup some]
    BY <1>3, <2>1, Zenon DEF HandleGet
  <2>3. readers' = [readers EXCEPT ![r].st = "idle", ![r].pos = n, ![r].got = @ \cup some]
    BY <1>5, <1>9, <1>14, <2>2
  <2> QED BY <1>15, <1>14, <2>3 DEF KinesisInv, KinesisTypes
<1>18. readers'[r] = q /\ \A s \in Readers : s # r => readers'[s] = readers[s]
  BY <1>17 DEF KinesisInv, KinesisTypes
<1>19. Calm /\ shards'[a].commands = Tail(shards[a].commands) /\ Live(a)'
       /\ \A b \in ShardIds : b # a => shards'[b] = shards[b]
  BY <1>1, TakenIsCalm
<1>20. OthersKept(a, h) BY <1>1, <1>2, <1>3, <1>18, ForsakenStays DEF OthersKept
<1>21. \A b \in ShardIds : CommandsInv(b)' BY <1>19, <1>20, CommandHandled
<1>22. ReaderInv(r)' BY <1>16, <1>18 DEF ReaderInv
<1>23. PICK log : log = StoredBy(a) OBVIOUS
<1>24. Len(log) = trim + Len(recs) /\ \A i \in DOMAIN recs : recs[i] = log[trim + i]
  BY <1>5, <1>23 DEF KinesisInv, LogInv
<1>25. StoredBy(a)' = log /\ shards'[a].trim = trim
  BY <1>1, <1>5, <1>19, <1>23, CalmShapes DEF StoredBy
<1>26. ASSUME NEW i \in (q.start + 1)..q.pos, i \in DOMAIN log
       PROVE  log[i].seq \in q.got \/ i <= trim
  <2>1. CASE i <= readers[r].pos
    <3>1. i \in (readers[r].start + 1)..readers[r].pos BY <1>4, <1>6, <1>10, <1>16, <2>1
    <3>2. ProgressInv(r) BY DEF KinesisInv
    <3>3. log[i].seq \in readers[r].got \/ i <= trim
      BY <1>4, <1>5, <1>23, <1>26, <3>1, <3>2 DEF ProgressInv
    <3> QED BY <1>16, <3>3
  <2>2. CASE i > readers[r].pos /\ i > trim
    <3>1. PICK k : k = i - trim OBVIOUS
    <3>2. k \in (from + 1)..to BY <1>4, <1>6, <1>8, <1>10, <1>16, <2>2, <3>1
    <3>3. recs[k] = log[trim + k] /\ trim + k = i BY <1>4, <1>6, <1>12, <1>16, <1>24, <3>1, <3>2
    <3>4. log[i].seq \in some BY <1>11, <3>2, <3>3
    <3> QED BY <1>16, <3>4
  <2>3. i \in Nat BY <1>4, <1>6, <1>10, <1>16
  <2> QED BY <1>4, <1>6, <2>1, <2>2, <2>3
<1>27. ProgressInv(r)'
  <2>1. q.pos <= Len(log) BY <1>6, <1>10, <1>16, <1>24
  <2> QED BY <1>16, <1>18, <1>25, <1>26, <2>1 DEF ProgressInv
<1> QED BY <1>1, <1>16, <1>17, <1>19, <1>21, <1>22, <1>27, ReaderStep

-----------------------------------------------------------------------------
(* The shard actor stops, or forgets its oldest record.                     *)

\* What an actor that records nothing leaves as it was.
LEMMA ActorKeeps ==
    ASSUME KinesisInv, NEW a \in ShardIds, NEW s \in Shard, Live(a),
           shards' = [shards EXCEPT ![a] = s],
           s.lo = shards[a].lo, s.hi = shards[a].hi, s.prefix = shards[a].prefix,
           s.counter = shards[a].counter, s.st # "unborn", s.st = "open" => shards[a].st = "open",
           s.st = "open" \/ a \notin Active, s.trim >= shards[a].trim,
           UNCHANGED <<stream, guard, puts, readers, blocked, clock, arrivals, orphans>>,
           admins' \in [Admins -> AdminWork],
           \A x \in Admins : \/ admins'[x] = admins[x]
                             \/ /\ admins[x].op \notin {"split", "merge"}
                                /\ admins'[x].op \notin {"split", "merge"}
    PROVE  /\ Shaped /\ shards'[a] = s /\ \A b \in ShardIds : b # a => shards'[b] = shards[b]
           /\ KinesisTypes' /\ StreamInv' /\ (\A b \in ShardIds : ShardInv(b)') /\ Disjoint'
           /\ RecordsInv' /\ SpaceInv'
           /\ (\A c \in PutCalls : PutInv(puts[c])')
           /\ (\A r \in Readers : ReaderInv(r)')
           /\ (\A r \in Readers : ProgressInv(r)')
           /\ (\A b \in ShardIds : b # a => LogInv(b)')
<1>1. shards'[a] = s /\ \A b \in ShardIds : b # a => shards'[b] = shards[b]
  BY DEF KinesisInv, KinesisTypes
<1>2. shards' \in [ShardIds -> Shard] BY DEF KinesisInv, KinesisTypes
<1>3. Shaped BY <1>1, <1>2 DEF Shaped, Live, Born
<1>4. KinesisTypes' BY <1>2 DEF KinesisInv, KinesisTypes
<1>5. StreamInv' /\ (\A b \in ShardIds : ShardInv(b)') /\ Disjoint' BY <1>3, ShapeKeeps
<1>6. RecordsInv' BY <1>1, <1>3, RecordsKeep
<1>7. SpaceInv'
  <2>1. \A b \in Active : shards'[b].st = "open"
    BY <1>1, HandlesBorn DEF KinesisInv, SpaceInv
  <2> QED BY <1>3, <2>1, SpaceKeeps
<1>8. ASSUME NEW c \in PutCalls PROVE PutInv(puts[c])'
  <2>1. PICK p : p = puts[c] OBVIOUS
  <2>2. p.snapshot \subseteq ShardIds /\ PutInv(p) BY <2>1 DEF KinesisInv, KinesisTypes, Put
  <2>3. PutInv(p)' BY <1>3, <2>2, PutStays
  <2> QED BY <2>1, <2>3
<1>9. \A r \in Readers : ReaderInv(r)' BY DEF KinesisInv, ReaderInv, Asks
<1>10. ASSUME NEW r \in Readers PROVE ProgressInv(r)'
  <2>1. ASSUME NEW b \in ShardIds PROVE shards'[b].trim \in Nat /\ shards'[b].trim >= shards[b].trim
    <3>1. shards[b].trim \in Nat BY ShardTypes DEF KinesisInv
    <3>2. s.trim \in Nat BY DEF Shard
    <3> QED BY <1>1, <3>1, <3>2
  <2> QED BY <2>1, ProgressStays
<1>11. ASSUME NEW b \in ShardIds, b # a PROVE LogInv(b)'
  <2>1. StoredBy(b)' = StoredBy(b) BY DEF StoredBy
  <2> QED BY <1>1, <1>11, <2>1, LogStays
<1> QED BY <1>1, <1>3, <1>4, <1>5, <1>6, <1>7, <1>8, <1>9, <1>10, <1>11

\* Its log stays when its records do.
LEMMA LogKept ==
    ASSUME KinesisInv, NEW a \in ShardIds, UNCHANGED arrivals,
           shards'[a].records = shards[a].records, shards'[a].trim = shards[a].trim
    PROVE  LogInv(a)'
<1>1. StoredBy(a)' = StoredBy(a) BY DEF StoredBy
<1> QED BY <1>1, LogStays

LEMMA TrimExpiredInv == ASSUME KinesisInv, NEW a \in ShardIds, trim_expired(a) PROVE KinesisInv'
<1>1. /\ Live(a) /\ shards[a].records # <<>> /\ shards' = [shards EXCEPT ![a] = Drained(@)]
      /\ UNCHANGED <<stream, guard, puts, readers, admins, blocked, clock, arrivals, orphans>>
  BY DEF trim_expired
<1>2. PICK recs, trim : recs = shards[a].records /\ trim = shards[a].trim OBVIOUS
<1>3. shards[a] \in Shard /\ recs \in Seq(Record) /\ trim \in Nat
  BY <1>2, ShardTypes DEF KinesisInv
<1>4. PICK rest \in Seq(Record) :
         /\ rest = Tail(recs) /\ Len(rest) = Len(recs) - 1
         /\ \A i \in 1..Len(rest) : rest[i] = recs[i + 1] /\ i + 1 \in 1..Len(recs)
  <2>1. recs # <<>> BY <1>1, <1>2
  <2>2. Len(recs) \in Nat /\ Len(recs) > 0 BY <1>3, <2>1
  <2>3. PICK rest : rest = Tail(recs) OBVIOUS
  <2>4. rest \in Seq(Record) BY <1>3, <2>1, <2>3
  <2>5. Len(rest) = Len(recs) - 1 BY <1>3, <2>1, <2>3
  <2>6. \A i \in 1..Len(rest) : rest[i] = recs[i + 1] /\ i + 1 \in 1..Len(recs)
    BY <1>3, <2>1, <2>2, <2>3, <2>5
  <2> QED BY <2>3, <2>4, <2>5, <2>6
<1>5. PICK n \in Nat : n = trim + 1 BY <1>3
<1>6. PICK s : s = [shards[a] EXCEPT !.records = rest, !.trim = n] OBVIOUS
<1>7. /\ s \in Shard /\ s.records = rest /\ s.trim = trim + 1 /\ s.lo = shards[a].lo
      /\ s.hi = shards[a].hi /\ s.prefix = shards[a].prefix /\ s.counter = shards[a].counter
      /\ s.st = shards[a].st /\ s.commands = shards[a].commands
  BY <1>3, <1>4, <1>6, <1>5 DEF Shard
<1>8. shards' = [shards EXCEPT ![a] = s]
  BY <1>1, <1>2, <1>4, <1>6, <1>5 DEF Drained, KinesisInv, KinesisTypes
<1>9. /\ Shaped /\ shards'[a] = s /\ \A b \in ShardIds : b # a => shards'[b] = shards[b]
      /\ KinesisTypes' /\ StreamInv' /\ (\A b \in ShardIds : ShardInv(b)') /\ Disjoint'
      /\ RecordsInv' /\ SpaceInv'
      /\ (\A c \in PutCalls : PutInv(puts[c])')
      /\ (\A r \in Readers : ReaderInv(r)')
      /\ (\A r \in Readers : ProgressInv(r)')
      /\ (\A b \in ShardIds : b # a => LogInv(b)')
  <2>1. s.st = "open" \/ a \notin Active BY <1>7 DEF KinesisInv, SpaceInv
  <2>2. s.st # "unborn" /\ s.trim >= shards[a].trim BY <1>1, <1>2, <1>3, <1>7 DEF Live
  <2>3. admins' \in [Admins -> AdminWork] BY <1>1 DEF KinesisInv, KinesisTypes
  <2>4. \A x \in Admins : admins'[x] = admins[x] BY <1>1
  <2>5. Live(a) /\ UNCHANGED <<stream, guard, puts, readers, blocked, clock, arrivals, orphans>> BY <1>1
  <2>6. s \in Shard /\ s.lo = shards[a].lo /\ s.hi = shards[a].hi /\ s.prefix = shards[a].prefix
        /\ s.counter = shards[a].counter /\ s.st = shards[a].st
    BY <1>7
  <2> QED BY <1>8, <2>1, <2>2, <2>3, <2>4, <2>5, <2>6, ActorKeeps
<1>10. \A x \in Admins : AdminInv(x)' BY <1>1, <1>9, AdminStays
<1>11. \A b \in ShardIds : CommandsInv(b)'
  <2>1. OwnersKept BY <1>1, ForsakenStays DEF OwnersKept
  <2>2. \A b \in ShardIds : shards'[b].commands = shards[b].commands /\ (Live(b) => Live(b)')
    BY <1>7, <1>9 DEF Live
  <2> QED BY <2>1, <2>2, QueueStays
<1>12. LogInv(a)'
  <2>1. PICK log : log = StoredBy(a) OBVIOUS
  <2>2. log = StoredBy(a)' BY <1>1, <2>1 DEF StoredBy
  <2>3. Len(log) = trim + Len(recs) /\ \A i \in 1..Len(recs) : recs[i] = log[trim + i]
    BY <1>2, <1>3, <2>1 DEF KinesisInv, LogInv
  <2>4. Len(log) = (trim + 1) + Len(rest) BY <1>3, <1>4, <2>3
  <2>5. ASSUME NEW i \in 1..Len(rest) PROVE rest[i] = log[(trim + 1) + i]
    <3>1. rest[i] = log[trim + (i + 1)] BY <1>4, <2>3
    <3>2. trim + (i + 1) = (trim + 1) + i BY <1>3
    <3> QED BY <3>1, <3>2
  <2>6. DOMAIN rest = 1..Len(rest) OBVIOUS
  <2> QED BY <1>7, <1>9, <2>2, <2>4, <2>5, <2>6 DEF LogInv
<1>13. \A b \in ShardIds : LogInv(b)' BY <1>9, <1>12
<1> QED BY <1>9, <1>10, <1>11, <1>13 DEF KinesisInv

LEMMA ChannelClosesInv == ASSUME KinesisInv, NEW a \in ShardIds, ChannelCloses(a) PROVE KinesisInv'
<1>1. /\ Live(a) /\ shards[a].commands = <<>> /\ ~SendersOf(a)
      /\ shards' = [shards EXCEPT ![a].st = "stopped"]
      /\ UNCHANGED <<stream, guard, puts, readers, admins, blocked, clock, arrivals, orphans>>
  BY DEF ChannelCloses
<1>2. shards[a] \in Shard BY ShardTypes DEF KinesisInv
<1>3. PICK s : s = [shards[a] EXCEPT !.st = "stopped"] OBVIOUS
<1>4. /\ s \in Shard /\ s.records = shards[a].records /\ s.trim = shards[a].trim
      /\ s.lo = shards[a].lo /\ s.hi = shards[a].hi /\ s.prefix = shards[a].prefix
      /\ s.counter = shards[a].counter /\ s.st = "stopped" /\ s.commands = <<>>
  BY <1>1, <1>2, <1>3 DEF Shard
<1>5. shards' = [shards EXCEPT ![a] = s] BY <1>1, <1>3
<1>6. a \notin Active BY <1>1, HandlesBorn DEF SendersOf, KinesisInv
<1>7. /\ Shaped /\ shards'[a] = s /\ \A b \in ShardIds : b # a => shards'[b] = shards[b]
      /\ KinesisTypes' /\ StreamInv' /\ (\A b \in ShardIds : ShardInv(b)') /\ Disjoint'
      /\ RecordsInv' /\ SpaceInv'
      /\ (\A c \in PutCalls : PutInv(puts[c])')
      /\ (\A r \in Readers : ReaderInv(r)')
      /\ (\A r \in Readers : ProgressInv(r)')
      /\ (\A b \in ShardIds : b # a => LogInv(b)')
  <2>1. s.trim >= shards[a].trim
    <3>1. shards[a].trim \in Nat BY ShardTypes DEF KinesisInv
    <3> QED BY <1>4, <3>1
  <2>2. admins' \in [Admins -> AdminWork] BY <1>1 DEF KinesisInv, KinesisTypes
  <2> QED BY <1>1, <1>4, <1>5, <1>6, <2>1, <2>2, ActorKeeps
<1>8. \A x \in Admins : AdminInv(x)' BY <1>1, <1>7, AdminStays
<1>9. ASSUME NEW b \in ShardIds PROVE CommandsInv(b)'
  <2>1. CASE b = a BY <1>4, <1>7, <2>1 DEF CommandsInv
  <2>2. CASE b # a
    <3>1. OwnersKept BY <1>1, ForsakenStays DEF OwnersKept
    <3>2. shards'[b] = shards[b] BY <1>7, <2>2
    <3>3. Live(b) => Live(b)' BY <3>2 DEF Live
    <3> QED BY <3>1, <3>2, <3>3, QueueStays
  <2> QED BY <2>1, <2>2
<1>10. LogInv(a)' BY <1>1, <1>4, <1>7, LogKept
<1>11. \A b \in ShardIds : LogInv(b)' BY <1>7, <1>10
<1> QED BY <1>7, <1>8, <1>9, <1>11 DEF KinesisInv

\* Who asked an actor to stop goes on to the next one.
LEMMA AnsweredStop ==
    ASSUME KinesisInv, NEW x \in Admins, admins[x].todo # <<>>,
           admins' = Replied(x, Head(admins[x].todo))
    PROVE  /\ admins' \in [Admins -> AdminWork]
           /\ admins'[x].todo = Tail(admins[x].todo) /\ admins'[x].op = admins[x].op
           /\ admins'[x].range = admins[x].range /\ admins'[x].parents = admins[x].parents
           /\ \A y \in Admins : y # x => admins'[y] = admins[y]
           /\ Head(admins[x].todo) \in ShardIds
           /\ ToSet(admins[x].todo) = {Head(admins[x].todo)} \cup ToSet(Tail(admins[x].todo))
<1>1. admins[x] \in AdminWork /\ admins \in [Admins -> AdminWork] BY DEF KinesisInv, KinesisTypes
<1>2. PICK todo \in Seq(ShardIds) : todo = admins[x].todo BY <1>1 DEF AdminWork
<1>3. PICK rest : rest = Tail(todo) OBVIOUS
<1>4. rest \in Seq(ShardIds) /\ Head(todo) = todo[1] /\ todo[1] \in ShardIds /\ 1 \in 1..Len(todo)
  BY <1>2, <1>3
<1>5. Len(rest) = Len(todo) - 1 BY <1>2, <1>3
<1>6. \A i \in 1..Len(rest) : rest[i] = todo[i + 1] /\ i + 1 \in 1..Len(todo)
  BY <1>2, <1>3, <1>5
<1>7. PICK o : o = [admins[x] EXCEPT !.todo = rest] OBVIOUS
<1>8. /\ o \in AdminWork /\ o.todo = rest /\ o.op = admins[x].op /\ o.range = admins[x].range
      /\ o.parents = admins[x].parents
  BY <1>1, <1>4, <1>7 DEF AdminWork
<1>9. admins' = [admins EXCEPT ![x] = o] BY <1>1, <1>2, <1>3, <1>7 DEF Replied
<1>10. ToSet(todo) = {todo[1]} \cup ToSet(rest)
  <2>1. ASSUME NEW b \in ToSet(todo) PROVE b = todo[1] \/ b \in ToSet(rest)
    <3>1. PICK i \in 1..Len(todo) : todo[i] = b BY <1>2, SetOf
    <3>2. i = 1 \/ (i - 1 \in 1..Len(rest) /\ rest[i - 1] = b) BY <1>5, <1>6, <3>1
    <3> QED BY <1>4, <3>1, <3>2, SetOf
  <2>2. ASSUME NEW b \in ToSet(rest) PROVE b \in ToSet(todo)
    <3>1. PICK i \in 1..Len(rest) : rest[i] = b BY <1>4, SetOf
    <3>2. i + 1 \in 1..Len(todo) /\ todo[i + 1] = b BY <1>6, <3>1
    <3> QED BY <1>2, <3>2, SetOf
  <2>3. todo[1] \in ToSet(todo) BY <1>2, <1>4, SetOf
  <2> QED BY <2>1, <2>2, <2>3
<1> QED BY <1>1, <1>2, <1>3, <1>4, <1>8, <1>9, <1>10

\* An actor that nobody waits for any more is closed or ends.
LEMMA ForsakenStop ==
    ASSUME KinesisInv, NEW a \in ShardIds, Live(a), shards[a].commands # <<>>,
           NEW h, h = Head(shards[a].commands), h \in StopCommand, ~AwaitedBy(a, h),
           admins' = Replied(h.from, a),
           NEW s \in Shard, shards' = [shards EXCEPT ![a] = s],
           s.lo = shards[a].lo, s.hi = shards[a].hi, s.prefix = shards[a].prefix,
           s.counter = shards[a].counter, s.records = shards[a].records, s.trim = shards[a].trim,
           \/ s.st = "closed" /\ s.commands = Tail(shards[a].commands)
           \/ s.st = "stopped" /\ s.commands = <<>>,
           UNCHANGED <<stream, guard, puts, readers, blocked, clock, arrivals, orphans>>
    PROVE  KinesisInv'
<1>1. PICK x \in Admins : x = h.from BY DEF StopCommand
<1>2. Forsaken(a, x)
  <2>1. CommandOf(a, h) BY FirstCommand
  <2> QED BY <1>1, <2>1 DEF CommandOf
<1>3. a \notin Active /\ a \notin ToSet(admins[x].todo)
  BY <1>2, HandlesBorn DEF Forsaken, KinesisInv
<1>4. admins' = admins
  <2>1. PICK todo \in Seq(ShardIds) : todo = admins[x].todo
    BY DEF KinesisInv, KinesisTypes, AdminWork
  <2>2. todo # <<>> => Head(todo) \in ToSet(todo)
    <3>1. todo # <<>> => 1 \in 1..Len(todo) /\ Head(todo) = todo[1] OBVIOUS
    <3> QED BY <3>1, SetOf
  <2>3. ~(todo # <<>> /\ Head(todo) = a) BY <1>3, <2>1, <2>2
  <2>4. admins' = [admins EXCEPT ![x].todo = todo] BY <1>1, <2>1, <2>3 DEF Replied
  <2> QED BY <2>1, <2>4 DEF KinesisInv, KinesisTypes, AdminWork
<1>5. /\ Shaped /\ shards'[a] = s /\ \A b \in ShardIds : b # a => shards'[b] = shards[b]
      /\ KinesisTypes' /\ StreamInv' /\ (\A b \in ShardIds : ShardInv(b)') /\ Disjoint'
      /\ RecordsInv' /\ SpaceInv'
      /\ (\A c \in PutCalls : PutInv(puts[c])')
      /\ (\A r \in Readers : ReaderInv(r)')
      /\ (\A r \in Readers : ProgressInv(r)')
      /\ (\A b \in ShardIds : b # a => LogInv(b)')
  <2>1. s.trim >= shards[a].trim
    <3>1. shards[a].trim \in Nat BY ShardTypes DEF KinesisInv
    <3> QED BY <3>1
  <2>2. admins' \in [Admins -> AdminWork] BY <1>4 DEF KinesisInv, KinesisTypes
  <2>3. s.st # "unborn" /\ (s.st = "open" => shards[a].st = "open") OBVIOUS
  <2> QED BY <1>3, <1>4, <2>1, <2>2, <2>3, ActorKeeps
<1>6. \A y \in Admins : AdminInv(y)' BY <1>4, <1>5, AdminStays
<1>7. OthersKept(a, h) BY <1>4, ForsakenStays DEF OthersKept
<1>8. \A b \in ShardIds : CommandsInv(b)'
  <2>1. \/ shards'[a].commands = Tail(shards[a].commands) /\ Live(a)'
        \/ shards'[a].commands = <<>>
    BY <1>5 DEF Live
  <2> QED BY <1>5, <1>7, <2>1, CommandHandled
<1>9. LogInv(a)' BY <1>5, LogKept
<1>10. \A b \in ShardIds : LogInv(b)' BY <1>5, <1>9
<1> QED BY <1>5, <1>6, <1>8, <1>10 DEF KinesisInv

LEMMA HandleShutdownInv ==
    ASSUME KinesisInv, NEW a \in ShardIds, Live(a), shards[a].commands # <<>>,
           NEW h, h = Head(shards[a].commands), HandleShutdown(a, h),
           UNCHANGED <<stream, guard, blocked, clock, orphans>>
    PROVE  KinesisInv'
<1>1. /\ h.op = "shutdown"
      /\ shards' = [shards EXCEPT ![a] = [@ EXCEPT !.st = "stopped", !.commands = <<>>]]
      /\ admins' = Replied(h.from, a)
      /\ UNCHANGED <<puts, readers, arrivals>>
  BY DEF HandleShutdown
<1>2. h \in StopCommand /\ CommandOf(a, h) BY <1>1, FirstCommand, CommandKinds
<1>3. PICK x \in Admins : x = h.from BY <1>2 DEF StopCommand
<1>4. shards[a] \in Shard BY ShardTypes DEF KinesisInv
<1>5. PICK s : s = [shards[a] EXCEPT !.st = "stopped", !.commands = <<>>] OBVIOUS
<1>6. /\ s \in Shard /\ s.records = shards[a].records /\ s.trim = shards[a].trim
      /\ s.lo = shards[a].lo /\ s.hi = shards[a].hi /\ s.prefix = shards[a].prefix
      /\ s.counter = shards[a].counter /\ s.st = "stopped" /\ s.commands = <<>>
  <2>1. <<>> \in Seq(Command) OBVIOUS
  <2> QED BY <1>4, <1>5, <2>1 DEF Shard
<1>7. shards' = [shards EXCEPT ![a] = s] BY <1>1, <1>5
<1>8. CASE AwaitedBy(a, h)
  <2>1. admins[x].todo # <<>> /\ Head(admins[x].todo) = a /\ admins[x].op = "delete"
    BY <1>1, <1>2, <1>3, <1>8 DEF AwaitedBy
  <2>2. /\ admins' \in [Admins -> AdminWork]
        /\ admins'[x].todo = Tail(admins[x].todo) /\ admins'[x].op = "delete"
        /\ admins'[x].parents = admins[x].parents
        /\ \A y \in Admins : y # x => admins'[y] = admins[y]
        /\ ToSet(admins[x].todo) = {a} \cup ToSet(Tail(admins[x].todo))
    <3>1. admins' = Replied(x, Head(admins[x].todo)) BY <1>1, <1>3, <2>1
    <3> QED BY <2>1, <3>1, AnsweredStop
  <2>3. a \notin Active
    <3>1. a[1] # stream.inc BY <2>1, <2>2 DEF KinesisInv, AdminInv
    <3> QED BY <3>1, HandlesBorn DEF KinesisInv
  <2>4. /\ Shaped /\ shards'[a] = s /\ \A b \in ShardIds : b # a => shards'[b] = shards[b]
        /\ KinesisTypes' /\ StreamInv' /\ (\A b \in ShardIds : ShardInv(b)') /\ Disjoint'
        /\ RecordsInv' /\ SpaceInv'
        /\ (\A c \in PutCalls : PutInv(puts[c])')
        /\ (\A r \in Readers : ReaderInv(r)')
        /\ (\A r \in Readers : ProgressInv(r)')
        /\ (\A b \in ShardIds : b # a => LogInv(b)')
    <3>1. s.trim >= shards[a].trim
      <4>1. shards[a].trim \in Nat BY ShardTypes DEF KinesisInv
      <4> QED BY <1>6, <4>1
    <3>2. \A y \in Admins : \/ admins'[y] = admins[y]
                            \/ /\ admins[y].op \notin {"split", "merge"}
                               /\ admins'[y].op \notin {"split", "merge"}
      BY <2>1, <2>2
    <3> QED BY <1>1, <2>2, <2>3, <1>6, <1>7, <3>1, <3>2, ActorKeeps
  <2>5. admins[x].parents = <<>> BY <2>1 DEF KinesisInv, AdminInv
  <2>6. ForsakenKept
    <3>1. \A y \in Admins : /\ ToSet(admins'[y].todo) \subseteq ToSet(admins[y].todo)
                            /\ admins'[y].parents = admins[y].parents
      BY <2>2
    <3> QED BY <3>1, ForsakenStays
  <2>7. ASSUME NEW y \in Admins PROVE AdminInv(y)'
    <3>1. CASE y # x BY <2>2, <2>4, <3>1, AdminStays
    <3>2. CASE y = x
      <4>1. \A b \in ToSet(admins[x].todo) : b \in ShardIds /\ Born(b) /\ b[1] # stream.inc
        <5>1. ToSet(admins[x].todo) \subseteq ShardIds
          BY SetOf DEF KinesisInv, KinesisTypes, AdminWork
        <5> QED BY <2>1, <5>1 DEF KinesisInv, AdminInv
      <4> QED BY <2>2, <2>5, <2>4, <3>2, <4>1 DEF AdminInv, Shaped, Born
    <3> QED BY <3>1, <3>2
  <2>8. OthersKept(a, h) BY <1>1, <1>2, <1>3, <1>8, <2>2, <2>6 DEF OthersKept
  <2>9. \A b \in ShardIds : CommandsInv(b)'
    BY <1>6, <2>4, <2>8, CommandHandled
  <2>10. LogInv(a)' BY <1>1, <1>6, <2>4, LogKept
  <2>11. \A b \in ShardIds : LogInv(b)' BY <2>4, <2>10
  <2> QED BY <2>4, <2>7, <2>9, <2>11 DEF KinesisInv
<1>9. CASE ~AwaitedBy(a, h)
  BY <1>1, <1>2, <1>9, <1>6, <1>7, ForsakenStop
<1> QED BY <1>8, <1>9

LEMMA AwaitedClose ==
    ASSUME KinesisInv, NEW a \in ShardIds, Live(a), shards[a].commands # <<>>,
           NEW h, h = Head(shards[a].commands), HandleClose(a, h), AwaitedBy(a, h),
           UNCHANGED <<stream, guard, blocked, clock, orphans>>
    PROVE  KinesisInv'
<1>1. /\ h.op = "close"
      /\ shards' = [shards EXCEPT ![a] = [Taken(@) EXCEPT !.st = "closed"]]
      /\ admins' = Replied(h.from, a)
      /\ UNCHANGED <<puts, readers, arrivals>>
  BY DEF HandleClose
<1>2. h \in StopCommand /\ CommandOf(a, h) BY <1>1, FirstCommand, CommandKinds
<1>3. PICK x \in Admins : x = h.from BY <1>2 DEF StopCommand
<1>4. admins[x].todo # <<>> /\ Head(admins[x].todo) = a /\ guard = x
  BY <1>1, <1>3 DEF AwaitedBy
<1>5. /\ admins' \in [Admins -> AdminWork]
      /\ admins'[x].todo = Tail(admins[x].todo) /\ admins'[x].op = admins[x].op
      /\ admins'[x].range = admins[x].range /\ admins'[x].parents = admins[x].parents
      /\ \A y \in Admins : y # x => admins'[y] = admins[y]
      /\ ToSet(admins[x].todo) = {a} \cup ToSet(Tail(admins[x].todo))
  <2>1. admins' = Replied(x, Head(admins[x].todo)) BY <1>1, <1>3, <1>4
  <2> QED BY <1>4, <2>1, AnsweredStop
<1>6. guard # NoTaskId BY <1>4, Bounds
<1>7. /\ Resharding(x) /\ Covers(Active, stream.inc, ToSet(admins[x].range))
      /\ Apart(Active, stream.inc, ToSet(admins[x].range))
  BY <1>4, <1>6 DEF KinesisInv, SpaceInv
<1>8. a \notin Active BY <1>5, <1>7, HandlesBorn DEF Resharding, KinesisInv
<1>9. shards[a] \in Shard BY ShardTypes DEF KinesisInv
<1>10. PICK s : s = [shards[a] EXCEPT !.st = "closed", !.commands = Tail(shards[a].commands)] OBVIOUS
<1>11. /\ s \in Shard /\ s.records = shards[a].records /\ s.trim = shards[a].trim
       /\ s.lo = shards[a].lo /\ s.hi = shards[a].hi /\ s.prefix = shards[a].prefix
       /\ s.counter = shards[a].counter /\ s.st = "closed"
       /\ s.commands = Tail(shards[a].commands)
  <2>1. Tail(shards[a].commands) \in Seq(Command) BY FirstCommand
  <2> QED BY <1>9, <1>10, <2>1 DEF Shard
<1>12. shards' = [shards EXCEPT ![a] = s]
  <2>1. [Taken(shards[a]) EXCEPT !.st = "closed"] = s BY <1>9, <1>10 DEF Taken, Shard
  <2> QED BY <1>1, <2>1 DEF KinesisInv, KinesisTypes
<1>13. shards'[a] = s /\ \A b \in ShardIds : b # a => shards'[b] = shards[b]
  BY <1>12 DEF KinesisInv, KinesisTypes
<1>14. shards' \in [ShardIds -> Shard] BY <1>11, <1>12 DEF KinesisInv, KinesisTypes
<1>15. Shaped BY <1>11, <1>13, <1>14 DEF Shaped, Live, Born
<1>16. KinesisTypes' BY <1>1, <1>5, <1>14 DEF KinesisInv, KinesisTypes
<1>17. StreamInv' /\ (\A b \in ShardIds : ShardInv(b)') /\ Disjoint' BY <1>15, ShapeKeeps
<1>18. RecordsInv' BY <1>1, <1>11, <1>13, <1>15, RecordsKeep
<1>19. SpaceInv'
  <2>1. Active' = Active BY DEF Active
  <2>2. \A b \in Active : shards'[b].st = "open"
    BY <1>8, <1>13, HandlesBorn DEF KinesisInv, SpaceInv
  <2>3. /\ Covers(Active, stream.inc, ToSet(admins[x].range))'
        /\ Apart(Active, stream.inc, ToSet(admins[x].range))'
    <3>1. Active \subseteq ShardIds BY HandlesBorn DEF KinesisInv
    <3>2. orphans \subseteq ShardIds BY DEF KinesisInv, KinesisTypes
    <3>3. LostKeys(stream.inc)' = LostKeys(stream.inc)
      BY <1>15, <3>2 DEF LostKeys, Shaped, contains
    <3> QED BY <1>5, <1>7, <1>15, <2>1, <3>1, <3>3 DEF Covers, Apart, Shaped, contains
  <2>4. Resharding(x)'
    <3>1. /\ ToSet(admins'[x].todo) \subseteq Parents(x)'
          /\ \A b \in Parents(x)' : Born(b)' /\ b \notin Handles'
          /\ Parents(x)' = Parents(x) /\ Parents(x) \subseteq ShardIds
      <4>1. Parents(x) \subseteq ShardIds BY <1>7, ParentIds DEF KinesisInv, Resharding
      <4>2. Parents(x)' = Parents(x) /\ Handles' = Handles
        BY <1>5, <2>1 DEF Parents, Handles
      <4> QED BY <1>5, <1>7, <1>15, <4>1, <4>2 DEF Resharding, Shaped, Born
    <3>2. \A key \in Keys : (\E q \in ToSet(admins'[x].range) : Within(q, key))
                               <=> (\E b \in Parents(x)' : contains(shards'[b], key))
      BY <1>5, <1>7, <1>15, <3>1 DEF Resharding, Shaped, contains
    <3>3. ASSUME NEW b \in ShardIds, NEW key \in Keys, NEW r \in ToSet(admins[x].range),
                 b[1] = stream.inc, shards'[b].st = "open", contains(shards'[b], key), Within(r, key)
          PROVE  b \in ToSet(admins'[x].todo)
      <4>1. b # a BY <1>11, <1>13, <3>3
      <4>2. b \in ToSet(admins[x].todo) BY <1>7, <1>13, <3>3, <4>1 DEF Resharding
      <4> QED BY <1>5, <4>1, <4>2
    <3> QED BY <1>5, <1>7, <2>1, <3>1, <3>3, <3>2 DEF Resharding
  <2>5. \A y \in Admins : admins'[y].op \in {"split", "merge"} => guard = y
    BY <1>5 DEF KinesisInv, SpaceInv
  <2> QED BY <1>4, <1>6, <2>1, <2>2, <2>3, <2>4, <2>5 DEF SpaceInv
<1>20. ASSUME NEW c \in PutCalls PROVE PutInv(puts[c])'
  <2>1. PICK p : p = puts[c] OBVIOUS
  <2>2. p.snapshot \subseteq ShardIds /\ PutInv(p) BY <2>1 DEF KinesisInv, KinesisTypes, Put
  <2>3. PutInv(p)' BY <1>15, <2>2, PutStays
  <2> QED BY <1>1, <2>1, <2>3
<1>21. ASSUME NEW y \in Admins PROVE AdminInv(y)'
  <2>1. CASE y # x BY <1>5, <1>15, <2>1, AdminStays
  <2>2. CASE y = x
    <3>1. admins'[x].op \in {"split", "merge"} BY <1>5, <1>7 DEF Resharding
    <3> QED BY <2>2, <3>1 DEF AdminInv
  <2> QED BY <2>1, <2>2
<1>22. \A r \in Readers : ReaderInv(r)' BY <1>1 DEF KinesisInv, ReaderInv, Asks
<1>23. OthersKept(a, h)
  <2>1. \A y \in Admins : /\ ToSet(admins'[y].todo) \subseteq ToSet(admins[y].todo)
                          /\ admins'[y].parents = admins[y].parents
    BY <1>5
  <2> QED BY <1>1, <1>2, <1>3, <1>5, <2>1, ForsakenStays DEF OthersKept
<1>24. \A b \in ShardIds : CommandsInv(b)'
  <2>1. shards'[a].commands = Tail(shards[a].commands) /\ Live(a)' BY <1>11, <1>13 DEF Live
  <2> QED BY <1>13, <1>23, <2>1, CommandHandled
<1>25. ASSUME NEW b \in ShardIds PROVE LogInv(b)'
  BY <1>1, <1>11, <1>13, LogKept
<1>26. ASSUME NEW r \in Readers PROVE ProgressInv(r)'
  <2>1. ASSUME NEW b \in ShardIds PROVE shards'[b].trim \in Nat /\ shards'[b].trim >= shards[b].trim
    <3>1. shards[b].trim \in Nat BY ShardTypes DEF KinesisInv
    <3> QED BY <1>11, <1>13, <3>1
  <2> QED BY <1>1, <2>1, ProgressStays
<1> QED BY <1>16, <1>17, <1>18, <1>19, <1>20, <1>21, <1>22, <1>24, <1>25, <1>26 DEF KinesisInv

LEMMA HandleCloseInv ==
    ASSUME KinesisInv, NEW a \in ShardIds, Live(a), shards[a].commands # <<>>,
           NEW h, h = Head(shards[a].commands), HandleClose(a, h),
           UNCHANGED <<stream, guard, blocked, clock, orphans>>
    PROVE  KinesisInv'
<1>1. CASE AwaitedBy(a, h) BY <1>1, AwaitedClose
<1>2. CASE ~AwaitedBy(a, h)
  <2>1. /\ h.op = "close"
        /\ shards' = [shards EXCEPT ![a] = [Taken(@) EXCEPT !.st = "closed"]]
        /\ admins' = Replied(h.from, a)
        /\ UNCHANGED <<puts, readers, arrivals>>
    BY DEF HandleClose
  <2>2. h \in StopCommand BY <2>1, FirstCommand, CommandKinds
  <2>3. shards[a] \in Shard BY ShardTypes DEF KinesisInv
  <2>4. PICK s : s = [shards[a] EXCEPT !.st = "closed", !.commands = Tail(shards[a].commands)] OBVIOUS
  <2>5. /\ s \in Shard /\ s.records = shards[a].records /\ s.trim = shards[a].trim
        /\ s.lo = shards[a].lo /\ s.hi = shards[a].hi /\ s.prefix = shards[a].prefix
        /\ s.counter = shards[a].counter /\ s.st = "closed"
        /\ s.commands = Tail(shards[a].commands)
    <3>1. Tail(shards[a].commands) \in Seq(Command) BY FirstCommand
    <3> QED BY <2>3, <2>4, <3>1 DEF Shard
  <2>6. shards' = [shards EXCEPT ![a] = s]
    <3>1. [Taken(shards[a]) EXCEPT !.st = "closed"] = s BY <2>3, <2>4 DEF Taken, Shard
    <3> QED BY <2>1, <3>1 DEF KinesisInv, KinesisTypes
  <2> QED BY <1>2, <2>1, <2>2, <2>5, <2>6, ForsakenStop
<1> QED BY <1>1, <1>2

-----------------------------------------------------------------------------
(* The shard actor stores a record.                                         *)

\* A closed shard refuses it.
LEMMA RefusedPut ==
    ASSUME KinesisInv, NEW a \in ShardIds, Live(a), shards[a].commands # <<>>,
           NEW h, h = Head(shards[a].commands), HandlePut(a, h), shards[a].st = "closed",
           UNCHANGED <<stream, guard, blocked, clock, orphans>>
    PROVE  KinesisInv'
<1>1. /\ h.op = "put" /\ shards' = [shards EXCEPT ![a] = Taken(@)]
      /\ UNCHANGED <<readers, admins, arrivals>>
      /\ puts' = [puts EXCEPT ![h.from] = NextRecord(h.from)]
  BY DEF HandlePut, AppendRecord
<1>2. h \in PutCommand /\ CommandOf(a, h) BY <1>1, FirstCommand, CommandKinds
<1>3. PICK c \in PutCalls : c = h.from BY <1>2 DEF PutCommand
<1>4. puts[c].st = "sent" BY <1>2, <1>3 DEF CommandOf
<1>5. PICK p \in Put : p = NextRecord(c) /\ PutInv(p) BY <1>4, NextIsGood
<1>6. puts' = [puts EXCEPT ![c] = p] BY <1>1, <1>3, <1>5
<1>7. Calm /\ shards'[a].commands = Tail(shards[a].commands) /\ Live(a)'
      /\ \A b \in ShardIds : b # a => shards'[b] = shards[b]
  BY <1>1, TakenIsCalm
<1>8. OthersKept(a, h)
  <2>1. \A d \in PutCalls : d # c => puts'[d] = puts[d] BY <1>6 DEF KinesisInv, KinesisTypes
  <2> QED BY <1>1, <1>2, <1>3, <2>1, ForsakenStays DEF OthersKept
<1>9. \A b \in ShardIds : CommandsInv(b)' BY <1>7, <1>8, CommandHandled
<1> QED BY <1>1, <1>5, <1>6, <1>7, <1>9, PutStep

\* What an open shard stores goes behind all records of its key.
LEMMA StoredRecord ==
    ASSUME KinesisInv, NEW a \in ShardIds, Live(a), shards[a].commands # <<>>,
           NEW h, h = Head(shards[a].commands), HandlePut(a, h), shards[a].st # "closed",
           UNCHANGED <<stream, guard, blocked, clock, orphans>>
    PROVE  \E c \in PutCalls, p \in Put, rec \in Record, s \in Shard, n \in Nat :
             /\ c = h.from /\ h \in PutCommand /\ PutInv(p)
             /\ puts' = [puts EXCEPT ![c] = p] /\ UNCHANGED <<readers, admins>>
             /\ n = shards[a].counter /\ shards[a].st = "open"
             /\ rec.at = a /\ rec.seq = NextSeq(a)
             /\ contains(shards[a], rec.key) \/ rec.key \in LostKeys(a[1])
             /\ arrivals' = Append(arrivals, rec) /\ shards' = [shards EXCEPT ![a] = s]
             /\ s.lo = shards[a].lo /\ s.hi = shards[a].hi /\ s.prefix = shards[a].prefix
             /\ s.st = shards[a].st /\ s.trim = shards[a].trim /\ s.counter = n + 1
             /\ s.commands = Tail(shards[a].commands)
             /\ s.records = Append(shards[a].records, rec)
<1>1. /\ h.op = "put" /\ AppendThoughClosed(a, h.from)
      /\ UNCHANGED <<readers, admins>>
      /\ puts' = [puts EXCEPT ![h.from] = NextRecord(h.from)]
  BY DEF HandlePut, AppendRecord
<1>2. h \in PutCommand /\ CommandOf(a, h) BY <1>1, FirstCommand, CommandKinds
<1>3. PICK c \in PutCalls : c = h.from BY <1>2 DEF PutCommand
<1>4. puts[c].st = "sent" /\ puts[c].to = a BY <1>2, <1>3 DEF CommandOf
<1>5. PICK p \in Put : p = NextRecord(c) /\ PutInv(p) BY <1>4, NextIsGood
<1>6. /\ shards[a] \in Shard /\ shards \in [ShardIds -> Shard]
      /\ shards[a].prefix[1] \in Nat /\ shards[a].prefix[2] \in Nat
  BY ShardTypes DEF KinesisInv, KinesisTypes
<1>7. PICK n \in Nat : n = shards[a].counter BY <1>6 DEF Shard
<1>8. PICK key \in Keys :
        key = puts[c].keys[1] /\ (contains(shards[a], key) \/ key \in LostKeys(a[1]))
  <2>1. puts[c].keys \in Seq(Keys) BY DEF KinesisInv, KinesisTypes, Put
  <2>2. /\ puts[c].keys # <<>>
        /\ contains(shards[a], puts[c].keys[1]) \/ puts[c].keys[1] \in LostKeys(a[1])
    BY <1>4 DEF KinesisInv, PutInv
  <2> QED BY <2>1, <2>2
<1>9. PICK rec : rec = [at |-> a, key |-> key, seq |-> NextSeq(a)] OBVIOUS
<1>10. NextSeq(a) \in SequenceNumber BY <1>6, <1>7 DEF NextSeq, SequenceNumber
<1>11. rec \in Record /\ rec.at = a /\ rec.key = key /\ rec.seq = NextSeq(a)
  BY <1>9, <1>10 DEF Record
<1>12. PICK s : s = [shards[a] EXCEPT !.commands = Tail(shards[a].commands),
                       !.records = Append(shards[a].records, rec), !.counter = n + 1]
  OBVIOUS
<1>13. s \in Shard
  <2>1. Tail(shards[a].commands) \in Seq(Command) BY FirstCommand
  <2>2. Append(shards[a].records, rec) \in Seq(Record) BY <1>6, <1>11 DEF Shard
  <2>3. n + 1 \in Nat OBVIOUS
  <2> QED BY <1>6, <1>12, <2>1, <2>2, <2>3 DEF Shard
<1>14. /\ s.lo = shards[a].lo /\ s.hi = shards[a].hi /\ s.prefix = shards[a].prefix
       /\ s.st = shards[a].st /\ s.trim = shards[a].trim /\ s.counter = n + 1
       /\ s.commands = Tail(shards[a].commands)
       /\ s.records = Append(shards[a].records, rec)
  BY <1>6, <1>12 DEF Shard
<1>15. /\ arrivals' = Append(arrivals, rec)
       /\ shards' = [shards EXCEPT ![a] = WithRecord(@, rec)]
  BY <1>1, <1>3, <1>8, <1>9, Zenon DEF AppendThoughClosed, NextSeq
<1>16. shards' = [shards EXCEPT ![a] = s]
  <2>1. WithRecord(shards[a], rec) = s BY <1>6, <1>7, <1>12 DEF WithRecord, Taken, Shard
  <2> QED BY <1>15, <2>1
<1>17. shards[a].st = "open" BY DEF Live
<1>18. puts' = [puts EXCEPT ![c] = p] BY <1>1, <1>3, <1>5
<1>19. contains(shards[a], rec.key) \/ rec.key \in LostKeys(a[1]) BY <1>8, <1>11
<1>20. /\ c = h.from /\ h \in PutCommand /\ PutInv(p)
       /\ UNCHANGED <<readers, admins>> /\ n = shards[a].counter
       /\ rec \in Record /\ rec.at = a /\ rec.seq = NextSeq(a)
       /\ arrivals' = Append(arrivals, rec)
  BY <1>1, <1>2, <1>3, <1>5, <1>7, <1>11, <1>15
<1> QED BY <1>13, <1>14, <1>16, <1>17, <1>18, <1>19, <1>20, Zenon

LEMMA HandlePutInv ==
    ASSUME KinesisInv, NEW a \in ShardIds, Live(a), shards[a].commands # <<>>,
           NEW h, h = Head(shards[a].commands), HandlePut(a, h),
           UNCHANGED <<stream, guard, blocked, clock, orphans>>
    PROVE  KinesisInv'
<1>1. CASE shards[a].st = "closed" BY <1>1, RefusedPut
<1>2. CASE shards[a].st # "closed"
  <2>1. PICK c \in PutCalls, p \in Put, rec \in Record, s \in Shard, n \in Nat :
             /\ c = h.from /\ h \in PutCommand /\ PutInv(p)
             /\ puts' = [puts EXCEPT ![c] = p] /\ UNCHANGED <<readers, admins>>
             /\ n = shards[a].counter /\ shards[a].st = "open"
             /\ rec.at = a /\ rec.seq = NextSeq(a)
             /\ contains(shards[a], rec.key) \/ rec.key \in LostKeys(a[1])
             /\ arrivals' = Append(arrivals, rec) /\ shards' = [shards EXCEPT ![a] = s]
             /\ s.lo = shards[a].lo /\ s.hi = shards[a].hi /\ s.prefix = shards[a].prefix
             /\ s.st = shards[a].st /\ s.trim = shards[a].trim /\ s.counter = n + 1
             /\ s.commands = Tail(shards[a].commands)
             /\ s.records = Append(shards[a].records, rec)
    BY <1>2, StoredRecord
  <2>2. shards'[a] = s /\ \A b \in ShardIds : b # a => shards'[b] = shards[b]
    BY <2>1 DEF KinesisInv, KinesisTypes
  <2>3. shards' \in [ShardIds -> Shard] BY <2>1 DEF KinesisInv, KinesisTypes
  <2>4. Shaped BY <2>1, <2>2, <2>3 DEF Shaped, Live, Born
  <2>5. /\ arrivals \in Seq(Record) /\ arrivals' \in Seq(Record)
        /\ Len(arrivals) \in Nat /\ Len(arrivals') = Len(arrivals) + 1
        /\ DOMAIN arrivals = 1..Len(arrivals) /\ DOMAIN arrivals' = 1..(Len(arrivals) + 1)
        /\ arrivals'[Len(arrivals) + 1] = rec
        /\ \A i \in DOMAIN arrivals : arrivals'[i] = arrivals[i]
    <3>1. arrivals \in Seq(Record) BY DEF KinesisInv, KinesisTypes
    <3> QED BY <2>1, <3>1
  <2>6. KinesisTypes'
    <3>1. puts' \in [PutCalls -> Put] BY <2>1 DEF KinesisInv, KinesisTypes
    <3> QED BY <2>1, <2>3, <2>5, <3>1 DEF KinesisInv, KinesisTypes
  <2>7. StreamInv' /\ (\A b \in ShardIds : ShardInv(b)') /\ Disjoint' BY <2>4, ShapeKeeps
  <2>8. PICK u \in Nat, v \in Nat : u = shards[a].prefix[1] /\ v = shards[a].prefix[2]
    BY ShardTypes DEF KinesisInv
  <2>9. NextSeq(a) = <<u, v, n>> /\ NextSeq(a)' = <<u, v, n + 1>>
    BY <2>1, <2>2, <2>8 DEF NextSeq
  <2>10. ASSUME NEW i \in DOMAIN arrivals, NEW r \in Record, r = arrivals[i] PROVE RecordInv(r)'
    <3>1. RecordInv(r) BY <2>10 DEF KinesisInv, RecordsInv
    <3>2. ASSUME NEW b \in ShardIds PROVE shards'[b].counter >= shards[b].counter
      <4>1. PICK m \in Nat : m = shards[b].counter BY ShardTypes DEF KinesisInv
      <4>2. CASE b = a
        <5>1. shards'[b].counter = n + 1 /\ m = n BY <2>1, <2>2, <4>1, <4>2
        <5> QED BY <4>1, <5>1
      <4>3. CASE b # a
        <5>1. shards'[b].counter = m BY <2>2, <4>1, <4>3
        <5> QED BY <4>1, <5>1
      <4> QED BY <4>2, <4>3
    <3> QED BY <2>4, <3>1, <3>2, RecordStays
  <2>11. RecordInv(rec)'
    <3>1. Born(a) /\ Born(a)' BY <2>4 DEF Shaped, Live, Born
    <3>2. u <= clock /\ v = a[2] BY <2>8, <3>1 DEF KinesisInv, ShardInv
    <3>3. rec.seq = <<u, v, n>> BY <2>1, <2>9
    <3>4. SeqLess(rec.seq, NextSeq(a)') BY <2>9, <3>3 DEF SeqLess
    <3>5. LostKeys(a[1])' = LostKeys(a[1]) BY <2>4, LostStays
    <3>6. ASSUME rec.key \notin LostKeys(a[1]), NEW b \in ShardIds, b[1] = a[1],
                 shards'[b].st = "open", contains(shards'[b], rec.key)
          PROVE  SeqLess(rec.seq, NextSeq(b)')
      <4>1. shards[b].st = "open" /\ contains(shards[b], rec.key)
        BY <2>4, <3>6 DEF Shaped, contains
      <4>2. rec.key \in Keys BY DEF Record
      <4>3. b = a BY <2>1, <3>6, <4>1, <4>2 DEF KinesisInv, Disjoint
      <4> QED BY <3>4, <4>3
    <3>7. rec.key \notin LostKeys(a[1])' => \A b \in ShardIds :
             b[1] = a[1] /\ shards'[b].st = "open" /\ contains(shards'[b], rec.key)
             => SeqLess(rec.seq, NextSeq(b)')
      BY <3>6, <3>5
    <3>8. rec.at = a /\ rec.seq[1] <= clock' /\ rec.seq[2] = a[2] BY <2>1, <3>2, <3>3
    <3> QED BY <3>1, <3>7, <3>8 DEF RecordInv
  <2>12. ASSUME NEW i \in DOMAIN arrivals', NEW j \in DOMAIN arrivals', i < j,
                arrivals'[i].key = arrivals'[j].key, arrivals'[i].at[1] = arrivals'[j].at[1],
                arrivals'[i].key \notin LostKeys(arrivals[i].at[1])'
         PROVE  SeqLess(arrivals'[i].seq, arrivals'[j].seq)
    <3>1. i \in DOMAIN arrivals BY <2>5, <2>12
    <3>2. arrivals[i].key \notin LostKeys(arrivals[i].at[1])
      <4>1. PICK inc : inc = arrivals[i].at[1] OBVIOUS
      <4>2. arrivals'[i] = arrivals[i] BY <2>5, <3>1
      <4>3. arrivals[i].key \notin LostKeys(inc)' BY <2>12, <4>1, <4>2 DEF LostKeys
      <4> QED BY <2>4, <4>1, <4>3, LostStays
    <3>3. CASE j \in DOMAIN arrivals
      <4>1. arrivals'[i] = arrivals[i] /\ arrivals'[j] = arrivals[j] BY <2>5, <3>1, <3>3
      <4> QED BY <2>12, <3>1, <3>3, <3>2, <4>1 DEF KinesisInv, RecordsInv
    <3>4. CASE j = Len(arrivals) + 1
      <4>1. arrivals'[i] = arrivals[i] /\ arrivals'[j] = rec BY <2>5, <3>1, <3>4
      <4>2. arrivals[i].key = rec.key /\ arrivals[i].at[1] = a[1] BY <2>1, <2>12, <4>1
      <4>3. contains(shards[a], rec.key) BY <2>1, <3>2, <4>2
      <4>4. SeqLess(arrivals[i].seq, NextSeq(a))
        BY <2>1, <3>1, <3>2, <4>2, <4>3 DEF KinesisInv, RecordsInv, RecordInv
      <4> QED BY <2>1, <4>1, <4>4
    <3> QED BY <2>5, <3>3, <3>4
  <2>13. RecordsInv'
    <3>1. ASSUME NEW i \in DOMAIN arrivals' PROVE RecordInv(arrivals[i])'
      <4>1. CASE i \in DOMAIN arrivals
        <5>1. PICK r \in Record : r = arrivals[i] BY <4>1, ArrivalTypes DEF KinesisInv
        <5>2. RecordInv(r)' BY <2>10, <4>1, <5>1
        <5> QED BY <2>5, <4>1, <5>1, <5>2
      <4>2. CASE i = Len(arrivals) + 1
        <5>1. arrivals'[i] = rec BY <2>5, <4>2
        <5> QED BY <2>11, <5>1
      <4> QED BY <2>5, <4>1, <4>2
    <3> QED BY <2>12, <3>1 DEF RecordsInv
  <2>14. SpaceInv'
    <3>1. \A b \in Active : shards'[b].st = "open"
      BY <2>1, <2>2, HandlesBorn DEF KinesisInv, SpaceInv
    <3> QED BY <2>1, <2>4, <3>1, SpaceKeeps
  <2>15. ASSUME NEW d \in PutCalls PROVE PutInv(puts[d])'
    <3>1. PICK q : q = puts'[d] OBVIOUS
    <3>2. q \in Put /\ PutInv(q)
      <4>1. q = IF d = c THEN p ELSE puts[d] BY <2>1, <3>1 DEF KinesisInv, KinesisTypes
      <4> QED BY <2>1, <4>1 DEF KinesisInv, KinesisTypes
    <3>3. q.snapshot \subseteq ShardIds BY <3>2 DEF Put
    <3>4. PutInv(q)' BY <2>4, <3>2, <3>3, PutStays
    <3> QED BY <3>1, <3>4
  <2>16. \A x \in Admins : AdminInv(x)' BY <2>1, <2>4, AdminStays
  <2>17. \A r \in Readers : ReaderInv(r)' BY <2>1 DEF KinesisInv, ReaderInv, Asks
  <2>18. \A b \in ShardIds : CommandsInv(b)'
    <3>1. \A d \in PutCalls : d # c => puts'[d] = puts[d] BY <2>1 DEF KinesisInv, KinesisTypes
    <3>2. OthersKept(a, h) BY <2>1, <3>1, ForsakenStays DEF OthersKept
    <3>3. shards'[a].commands = Tail(shards[a].commands) /\ Live(a)' BY <2>1, <2>2 DEF Live
    <3> QED BY <2>2, <3>2, <3>3, CommandHandled
  <2>19. ASSUME NEW b \in ShardIds
         PROVE  StoredBy(b)' = IF b = a THEN Append(StoredBy(b), rec) ELSE StoredBy(b)
    <3>1. PICK K : K = [at : {b}, key : 0..HashMax, seq : SequenceNumber] OBVIOUS
    <3>2. rec \in K <=> b = a BY <2>1, <3>1 DEF Record, Keys
    <3>3. Keep(arrivals', K) = IF rec \in K THEN Append(Keep(arrivals, K), rec) ELSE Keep(arrivals, K)
      BY <2>1, <2>5, KeepAppend
    <3> QED BY <3>1, <3>2, <3>3 DEF StoredBy
  <2>20. ASSUME NEW b \in ShardIds PROVE StoredBy(b) \in Seq(Record)
    BY <2>5, KeepPlaces DEF StoredBy
  <2>21. ASSUME NEW b \in ShardIds PROVE LogInv(b)'
    <3>1. CASE b # a BY <2>2, <2>19, <3>1, LogStays
    <3>2. CASE b = a
      <4>1. PICK log, recs, trim : log = StoredBy(a) /\ recs = shards[a].records /\ trim = shards[a].trim
        OBVIOUS
      <4>2. /\ log \in Seq(Record) /\ recs \in Seq(Record) /\ trim \in Nat
            /\ Len(log) = trim + Len(recs) /\ \A i \in 1..Len(recs) : recs[i] = log[trim + i]
        <5>1. recs \in Seq(Record) /\ trim \in Nat BY <4>1, ShardTypes DEF KinesisInv
        <5>2. LogInv(a) /\ log \in Seq(Record) BY <2>20, <3>2, <4>1 DEF KinesisInv
        <5>3. DOMAIN recs = 1..Len(recs) BY <5>1
        <5> QED BY <4>1, <5>1, <5>2, <5>3 DEF LogInv
      <4>3. Len(Append(log, rec)) = trim + Len(Append(recs, rec)) BY <4>2
      <4>4. ASSUME NEW i \in 1..Len(Append(recs, rec))
            PROVE  Append(recs, rec)[i] = Append(log, rec)[trim + i]
        <5>1. CASE i \in 1..Len(recs)
          <6>1. recs[i] = log[trim + i] /\ trim + i \in 1..Len(log) BY <4>2, <5>1
          <6> QED BY <4>2, <5>1, <6>1
        <5>2. CASE i = Len(recs) + 1
          <6>1. trim + i = Len(log) + 1 BY <4>2, <5>2
          <6>2. Append(log, rec)[Len(log) + 1] = rec BY <4>2
          <6>3. Append(recs, rec)[Len(recs) + 1] = rec BY <4>2
          <6> QED BY <5>2, <6>1, <6>2, <6>3
        <5>3. Len(recs) \in Nat /\ Len(Append(recs, rec)) = Len(recs) + 1 BY <4>2
        <5>4. i \in 1..Len(recs) \/ i = Len(recs) + 1 BY <5>3
        <5> QED BY <5>1, <5>2, <5>4
      <4>5. DOMAIN Append(recs, rec) = 1..Len(Append(recs, rec)) BY <4>2
      <4>6. StoredBy(b)' = Append(log, rec) BY <2>19, <3>2, <4>1
      <4>7. shards'[a].records = Append(recs, rec) /\ shards'[a].trim = trim BY <2>1, <2>2, <4>1
      <4>8. \A i \in DOMAIN Append(recs, rec) : Append(recs, rec)[i] = Append(log, rec)[trim + i]
        BY <4>4, <4>5
      <4> QED BY <3>2, <4>3, <4>6, <4>7, <4>8 DEF LogInv
    <3> QED BY <3>1, <3>2
  <2>22. ASSUME NEW r \in Readers PROVE ProgressInv(r)'
    <3> SUFFICES ASSUME NEW b \in ShardIds, readers[r].at = b
                 PROVE  /\ readers[r].pos <= readers[r].start \/ readers[r].pos <= Len(StoredBy(b)')
                        /\ \A i \in (readers[r].start + 1)..readers[r].pos :
                             i \in DOMAIN (StoredBy(b)') =>
                               (StoredBy(b)')[i].seq \in readers[r].got \/ i <= shards'[b].trim
      BY <2>1 DEF ProgressInv
    <3>1. PICK log, next : log = StoredBy(b) /\ next = StoredBy(b)' OBVIOUS
    <3>2. /\ log \in Seq(Record) /\ Len(next) >= Len(log) /\ Len(next) \in Nat /\ Len(log) \in Nat
          /\ \A i \in 1..Len(log) : next[i] = log[i]
      BY <2>19, <2>20, <3>1
    <3>3. /\ readers[r].pos <= readers[r].start \/ readers[r].pos <= Len(log)
          /\ \A i \in (readers[r].start + 1)..readers[r].pos :
               i \in DOMAIN log => log[i].seq \in readers[r].got \/ i <= shards[b].trim
      BY <3>1 DEF KinesisInv, ProgressInv
    <3>4. readers[r].pos \in Nat /\ readers[r].start \in Nat BY DEF KinesisInv, KinesisTypes, Reader
    <3>5. shards'[b].trim = shards[b].trim BY <2>1, <2>2
    <3>6. ASSUME NEW i \in (readers[r].start + 1)..readers[r].pos
          PROVE  next[i].seq \in readers[r].got \/ i <= shards[b].trim
      <4>1. i \in 1..Len(log) BY <3>2, <3>3, <3>4
      <4> QED BY <3>2, <3>3, <4>1
    <3> QED BY <3>1, <3>2, <3>3, <3>4, <3>5, <3>6
  <2> QED BY <2>6, <2>7, <2>13, <2>14, <2>15, <2>16, <2>17, <2>18, <2>21, <2>22 DEF KinesisInv
<1> QED BY <1>1, <1>2

LEMMA HandleCommandInv == ASSUME KinesisInv, NEW a \in ShardIds, handle_command(a) PROVE KinesisInv'
<1>1. PICK h : h = Head(shards[a].commands) OBVIOUS
<1>2. /\ Live(a) /\ shards[a].commands # <<>> /\ UNCHANGED <<stream, guard, blocked, clock, orphans>>
      /\ \/ HandlePut(a, h) \/ HandleIterator(a, h) \/ HandleGet(a, h)
         \/ HandleClose(a, h) \/ HandleShutdown(a, h)
  BY <1>1 DEF handle_command
<1> QED BY <1>1, <1>2, HandlePutInv, HandleIteratorInv, HandleGetInv, HandleCloseInv, HandleShutdownInv

-----------------------------------------------------------------------------
(* Control operations.                                                      *)

\* An administrator who waits for no actor goes on.
LEMMA AdminStep ==
    ASSUME KinesisInv, NEW x \in Admins, NEW o \in AdminWork, admins[x].todo = <<>>,
           admins' = [admins EXCEPT ![x] = o], o.todo = <<>>, o.parents = <<>>,
           admins[x].op \notin {"split", "merge"}, o.op \notin {"split", "merge"},
           blocked' \subseteq blocked,
           UNCHANGED <<stream, guard, shards, puts, readers, clock, arrivals, orphans>>
    PROVE  KinesisInv'
<1>1. admins'[x] = o /\ \A y \in Admins : y # x => admins'[y] = admins[y]
  BY DEF KinesisInv, KinesisTypes
<1>2. Shaped BY DEF Shaped, Born, KinesisInv, KinesisTypes
<1>3. KinesisTypes' BY DEF KinesisInv, KinesisTypes
<1>4. StreamInv' /\ (\A a \in ShardIds : ShardInv(a)') /\ Disjoint' BY <1>2, ShapeKeeps
<1>5. RecordsInv' BY <1>2, RecordsKeep
<1>6. SpaceInv'
  <2>1. \A a \in Active : shards'[a].st = "open" BY DEF KinesisInv, SpaceInv
  <2> QED BY <1>1, <1>2, <2>1, SpaceKeeps
<1>7. ASSUME NEW d \in PutCalls PROVE PutInv(puts[d])'
  <2>1. PICK p : p = puts[d] OBVIOUS
  <2>2. p.snapshot \subseteq ShardIds /\ PutInv(p) BY <2>1 DEF KinesisInv, KinesisTypes, Put
  <2>3. PutInv(p)' BY <1>2, <2>2, PutStays
  <2> QED BY <2>1, <2>3
<1>8. ASSUME NEW y \in Admins PROVE AdminInv(y)'
  <2>1. CASE y # x BY <1>1, <1>2, <2>1, AdminStays
  <2>2. CASE y = x
    <3>1. ToSet(<<>>) = {} BY DEF ToSet
    <3> QED BY <1>1, <2>2, <3>1 DEF AdminInv
  <2> QED BY <2>1, <2>2
<1>9. \A r \in Readers : ReaderInv(r)' BY DEF KinesisInv, ReaderInv, Asks
<1>10. \A a \in ShardIds : CommandsInv(a)'
  <2>1. \A y \in Admins : /\ ToSet(admins'[y].todo) \subseteq ToSet(admins[y].todo)
                          /\ admins'[y].parents \in {admins[y].parents, <<>>}
    BY <1>1
  <2>2. OwnersKept BY <1>1, <2>1, ForsakenStays DEF OwnersKept, StopFree
  <2>3. \A a \in ShardIds : Live(a) => Live(a)' BY DEF Live
  <2> QED BY <2>2, <2>3, QueueStays
<1>11. \A a \in ShardIds : LogInv(a)' BY LogKept
<1>12. ASSUME NEW r \in Readers PROVE ProgressInv(r)'
  <2>1. \A a \in ShardIds : shards'[a].trim \in Nat /\ shards'[a].trim >= shards[a].trim
    BY ShardTypes DEF KinesisInv
  <2> QED BY <2>1, ProgressStays
<1> QED BY <1>3, <1>4, <1>5, <1>6, <1>7, <1>8, <1>9, <1>10, <1>11, <1>12 DEF KinesisInv

LEMMA CheckCreateInv == ASSUME KinesisInv, NEW x \in Admins, CheckCreate(x) PROVE KinesisInv'
<1>1. /\ admins[x].op = "none" /\ blocked' \subseteq blocked
      /\ admins' = [admins EXCEPT ![x].op = "insert"]
      /\ UNCHANGED <<stream, guard, shards, puts, readers, clock, arrivals, orphans>>
  BY DEF CheckCreate, TakesGuard
<1>2. admins[x] \in AdminWork BY DEF KinesisInv, KinesisTypes
<1>3. admins[x].todo = <<>> /\ admins[x].parents = <<>> BY <1>1 DEF KinesisInv, AdminInv
<1>4. PICK o : o = [admins[x] EXCEPT !.op = "insert"] OBVIOUS
<1>5. o \in AdminWork /\ o.op = "insert" /\ o.todo = <<>> /\ o.parents = <<>>
  BY <1>2, <1>3, <1>4 DEF AdminWork
<1>6. admins' = [admins EXCEPT ![x] = o] BY <1>1, <1>4
<1> QED BY <1>1, <1>3, <1>5, <1>6, AdminStep

\* Nothing is under way after a control operation.
LEMMA NoOpIsGood ==
    NoOp \in AdminWork /\ NoOp.op = "none" /\ NoOp.todo = <<>> /\ NoOp.parents = <<>>
<1>1. <<>> \in Seq(ShardIds) /\ <<>> \in Seq(Keys \X Keys) /\ <<>> \in Seq(Indices) OBVIOUS
<1> QED BY <1>1 DEF NoOp, AdminWork

LEMMA DeleteEndsInv == ASSUME KinesisInv, NEW x \in Admins, DeleteEnds(x) PROVE KinesisInv'
<1>1. /\ admins[x].op = "delete" /\ admins[x].todo = <<>> /\ admins' = [admins EXCEPT ![x] = NoOp]
      /\ UNCHANGED <<stream, guard, shards, puts, readers, blocked, clock, arrivals, orphans>>
  BY DEF DeleteEnds
<1> QED BY <1>1, NoOpIsGood, AdminStep

LEMMA SendNextInv == ASSUME KinesisInv, NEW x \in Admins, SendNext(x) PROVE KinesisInv'
<1>1. /\ admins[x].todo # <<>> /\ ~Asked(x)
      /\ UNCHANGED <<stream, guard, puts, readers, admins, blocked, clock, arrivals, orphans>>
  BY DEF SendNext
<1>2. PICK a : a = Head(admins[x].todo) OBVIOUS
<1>3. a \in ToSet(admins[x].todo) /\ a \in ShardIds
  <2>1. PICK todo \in Seq(ShardIds) : todo = admins[x].todo
    BY DEF KinesisInv, KinesisTypes, AdminWork
  <2>2. 1 \in 1..Len(todo) /\ a = todo[1] BY <1>1, <1>2, <2>1
  <2> QED BY <2>1, <2>2, SetOf
<1>4. Born(a) /\ (admins[x].op # "delete" => guard = x)
  <2>1. AdminInv(x) BY DEF KinesisInv
  <2>2. CASE admins[x].op = "delete" BY <1>3, <2>1, <2>2 DEF AdminInv
  <2>3. CASE admins[x].op # "delete"
    <3>1. admins[x].op \in {"split", "merge"}
      BY <1>1, <2>1, <2>3 DEF AdminInv, KinesisInv, KinesisTypes, AdminWork
    <3>2. guard = x /\ guard # NoTaskId BY <3>1, Bounds DEF KinesisInv, SpaceInv
    <3>3. Resharding(x) BY <3>2 DEF KinesisInv, SpaceInv
    <3> QED BY <1>3, <3>2, <3>3 DEF Resharding
  <2> QED BY <2>2, <2>3
<1>5. PICK cmd : cmd = [op |-> IF admins[x].op = "delete" THEN "shutdown" ELSE "close", from |-> x]
  OBVIOUS
<1>6. cmd \in StopCommand /\ cmd \in Command /\ cmd.from = x
  BY <1>5 DEF StopCommand, Command
<1>7. Enqueue(a, cmd) BY <1>2, <1>5 DEF SendNext
<1>8. Calm BY <1>1, <1>3, <1>4, <1>6, <1>7, Enqueued DEF Calm
<1>9. OwnersKept /\ \A b \in ShardIds : Live(b) => Live(b)' BY <1>1, <1>8, CalmOwners
<1>10. CommandOf(a, cmd)'
  <2>1. cmd \notin PutCommand /\ cmd \notin SeekCommand \cup ReadCommand BY <1>6, CommandKinds
  <2>2. cmd.op = "close" => guard = x BY <1>4, <1>5
  <2>3. cmd.op = "shutdown" => admins[x].op = "delete" BY <1>5
  <2>4. AwaitedBy(a, cmd)' BY <1>1, <1>2, <1>6, <2>2, <2>3 DEF AwaitedBy
  <2> QED BY <2>1, <2>4 DEF CommandOf
<1>11. ASSUME NEW i \in 1..Len(shards[a].commands) PROVE ~Conflict(shards[a].commands[i], cmd)
  <2>1. PICK d \in Command : d = shards[a].commands[i] BY <1>3, Queued
  <2>2. d.op \notin {"shutdown", "close"}
    <3>1. shards[a].commands \in Seq(Command) BY <1>3, ShardTypes DEF KinesisInv
    <3>2. i \in DOMAIN shards[a].commands BY <3>1
    <3> QED BY <1>1, <1>2, <2>1, <3>2 DEF Asked
  <2>3. d \notin StopCommand BY <2>2, CommandKinds
  <2>4. cmd \notin PutCommand /\ cmd \notin SeekCommand \cup ReadCommand BY <1>6, CommandKinds
  <2> QED BY <2>1, <2>3, <2>4 DEF Conflict
<1>12. CommandsInv(a)' BY <1>3, <1>6, <1>7, <1>9, <1>10, <1>11, Enqueued, QueueGrows
<1>13. ASSUME NEW b \in ShardIds, b # a PROVE CommandsInv(b)'
  <2>1. shards'[b] = shards[b] BY <1>3, <1>6, <1>7, <1>13, Enqueued
  <2> QED BY <1>9, <2>1, QueueStays
<1>14. blocked' \subseteq PutCalls \cup Readers \cup Admins BY <1>1 DEF KinesisInv, KinesisTypes
<1> QED BY <1>1, <1>8, <1>12, <1>13, <1>14, ChannelStep

\* What administrators do not touch.
LEMMA DataKeeps ==
    ASSUME KinesisInv, Shaped, UNCHANGED <<puts, readers, clock, arrivals, orphans>>,
           \A a \in ShardIds : /\ shards'[a].counter = shards[a].counter
                               /\ shards'[a].records = shards[a].records
                               /\ shards'[a].trim = shards[a].trim
    PROVE  /\ (\A a \in ShardIds : ShardInv(a)') /\ Disjoint' /\ RecordsInv'
           /\ (\A c \in PutCalls : PutInv(puts[c])')
           /\ (\A r \in Readers : ReaderInv(r)')
           /\ (\A a \in ShardIds : LogInv(a)')
           /\ (\A r \in Readers : ProgressInv(r)')
<1>1. (\A a \in ShardIds : ShardInv(a)') /\ Disjoint' BY ShapesStay
<1>2. RecordsInv' BY RecordsKeep
<1>3. ASSUME NEW d \in PutCalls PROVE PutInv(puts[d])'
  <2>1. PICK p : p = puts[d] OBVIOUS
  <2>2. p.snapshot \subseteq ShardIds /\ PutInv(p) BY <2>1 DEF KinesisInv, KinesisTypes, Put
  <2>3. PutInv(p)' BY <2>2, PutStays
  <2> QED BY <2>1, <2>3
<1>4. \A r \in Readers : ReaderInv(r)' BY DEF KinesisInv, ReaderInv, Asks
<1>5. \A a \in ShardIds : LogInv(a)' BY LogKept
<1>6. ASSUME NEW r \in Readers PROVE ProgressInv(r)'
  <2>1. \A a \in ShardIds : shards'[a].trim \in Nat /\ shards'[a].trim >= shards[a].trim
    BY ShardTypes DEF KinesisInv
  <2> QED BY <2>1, ProgressStays
<1> QED BY <1>1, <1>2, <1>3, <1>4, <1>5, <1>6

\* While nobody holds the guard no shard of the stream is asked to stop, so the
\* first request finds none before it.
LEMMA FirstStop ==
    ASSUME KinesisInv, guard = NoTaskId, NEW x \in Admins, admins[x].todo = <<>>,
           NEW a \in Handles, NEW cmd \in StopCommand, cmd.from = x, Enqueue(a, cmd),
           UNCHANGED <<puts, readers, orphans>>, ForsakenKept,
           \A y \in Admins : y # x => admins'[y] = admins[y],
           admins'[x].todo # <<>>, Head(admins'[x].todo) = a,
           cmd.op = "close" => guard' = x, cmd.op = "shutdown" => admins'[x].op = "delete"
    PROVE  /\ Shaped
           /\ \A b \in ShardIds : /\ shards'[b].st = shards[b].st
                                  /\ shards'[b].counter = shards[b].counter
                                  /\ shards'[b].records = shards[b].records
                                  /\ shards'[b].trim = shards[b].trim
           /\ \A b \in ShardIds : CommandsInv(b)'
<1>1. a \in ShardIds /\ Born(a) /\ a[1] = stream.inc BY HandlesBorn DEF KinesisInv
<1>2. cmd \in Command BY DEF Command
<1>3. /\ shards' \in [ShardIds -> Shard]
      /\ shards'[a] = [shards[a] EXCEPT !.commands = Append(shards[a].commands, cmd)]
      /\ shards'[a].commands = Append(shards[a].commands, cmd)
      /\ \A b \in ShardIds : b # a => shards'[b] = shards[b]
  BY <1>1, <1>2, Enqueued
<1>4. /\ shards'[a].lo = shards[a].lo /\ shards'[a].hi = shards[a].hi
      /\ shards'[a].prefix = shards[a].prefix /\ shards'[a].st = shards[a].st
      /\ shards'[a].counter = shards[a].counter /\ shards'[a].records = shards[a].records
      /\ shards'[a].trim = shards[a].trim
  <2>1. shards[a] \in Shard BY <1>1, ShardTypes DEF KinesisInv
  <2> QED BY <1>3, <2>1 DEF Shard
<1>5. Shaped
  <2>1. ASSUME NEW b \in ShardIds
        PROVE  /\ shards'[b].lo = shards[b].lo /\ shards'[b].hi = shards[b].hi
               /\ shards'[b].prefix = shards[b].prefix /\ shards'[b].st = shards[b].st
               /\ ~Born(b) => shards'[b] = shards[b]
    <3>1. CASE b = a BY <1>1, <1>4, <3>1
    <3>2. CASE b # a BY <1>3, <3>2
    <3> QED BY <3>1, <3>2
  <2> QED BY <1>3, <2>1 DEF Shaped, Born
<1>6. \A b \in ShardIds : shards'[b].st = shards[b].st BY <1>3, <1>4
<1>7. OwnersKept
  <2>1. StopFree(x) BY DEF StopFree
  <2>2. \A y \in Admins : guard # y BY Bounds
  <2> QED BY <2>1, <2>2 DEF OwnersKept
<1>8. CommandOf(a, cmd)'
  <2>1. cmd \notin PutCommand /\ cmd \notin SeekCommand \cup ReadCommand BY <1>2, CommandKinds
  <2>2. AwaitedBy(a, cmd)' BY DEF AwaitedBy
  <2> QED BY <2>1, <2>2 DEF CommandOf
<1>9. ASSUME NEW i \in 1..Len(shards[a].commands) PROVE ~Conflict(shards[a].commands[i], cmd)
  <2>1. PICK d \in Command : d = shards[a].commands[i] /\ CommandOf(a, d) BY <1>1, Queued
  <2>2. d \notin StopCommand
    <3> SUFFICES ASSUME d \in StopCommand PROVE FALSE OBVIOUS
    <3>1. d.from \in Admins /\ d.op \in {"close", "shutdown"} BY DEF StopCommand
    <3>2. PICK y \in Admins : y = d.from BY <3>1
    <3>3. ~Forsaken(a, y) BY DEF Forsaken
    <3>4. AwaitedBy(a, d) BY <2>1, <3>2, <3>3 DEF CommandOf
    <3>5. admins[y].todo # <<>> /\ Head(admins[y].todo) = a BY <3>2, <3>4 DEF AwaitedBy
    <3>6. CASE d.op = "close"
      <4>1. guard = y BY <3>2, <3>6, <3>4 DEF AwaitedBy
      <4> QED BY <4>1, Bounds
    <3>7. CASE d.op = "shutdown"
      <4>1. admins[y].op = "delete" BY <3>2, <3>7, <3>4 DEF AwaitedBy
      <4>2. PICK todo \in Seq(ShardIds) : todo = admins[y].todo
        BY DEF KinesisInv, KinesisTypes, AdminWork
      <4>3. 1 \in 1..Len(todo) /\ a = todo[1] BY <3>5, <4>2
      <4>4. a \in ToSet(todo) BY <4>2, <4>3, SetOf
      <4> QED BY <1>1, <4>1, <4>2, <4>4 DEF KinesisInv, AdminInv
    <3> QED BY <3>1, <3>6, <3>7
  <2>3. cmd \notin PutCommand /\ cmd \notin SeekCommand \cup ReadCommand BY <1>2, CommandKinds
  <2> QED BY <2>1, <2>2, <2>3 DEF Conflict
<1>10. CommandsInv(a)'
  <2>1. Live(a) => Live(a)' BY <1>1, <1>6 DEF Live
  <2> QED BY <1>1, <1>2, <1>3, <1>7, <1>8, <1>9, <2>1, QueueGrows
<1>11. ASSUME NEW b \in ShardIds, b # a PROVE CommandsInv(b)'
  <2>1. shards'[b] = shards[b] BY <1>3, <1>11
  <2>2. Live(b) => Live(b)' BY <2>1 DEF Live
  <2> QED BY <1>7, <2>1, <2>2, QueueStays
<1> QED BY <1>3, <1>4, <1>5, <1>6, <1>10, <1>11

\* The stream leaves the map.
LEMMA RemoveStreamInv == ASSUME KinesisInv, NEW x \in Admins, RemoveStream(x) PROVE KinesisInv'
<1>1. PICK all, handles :
        /\ all = stream.active \o stream.closed
        /\ handles = [i \in 1..Len(all) |-> <<stream.inc, all[i]>>]
        /\ admins' = [admins EXCEPT ![x] = [NoOp EXCEPT !.op = "delete", !.todo = handles]]
        /\ IF handles = <<>> THEN UNCHANGED shards
           ELSE Enqueue(handles[1], [op |-> "shutdown", from |-> x])
  BY DEF RemoveStream
<1>2. /\ admins[x].op = "none" /\ stream # NoStream /\ guard = NoTaskId /\ guard' = NoTaskId
      /\ blocked' \subseteq blocked /\ stream' = NoStream
      /\ UNCHANGED <<guard, puts, readers, clock, arrivals, orphans>>
  BY DEF RemoveStream, TakesGuard
<1>3. all \in Seq(Indices) /\ \A i \in 1..Len(all) : all[i] \in ToSet(stream.active) \cup ToSet(stream.closed)
  <2>1. PICK s \in Seq(Indices), t \in Seq(Indices) : s = stream.active /\ t = stream.closed
    BY DEF KinesisInv, KinesisTypes, StreamEntry
  <2>2. all = s \o t BY <1>1, <2>1
  <2>3. /\ all \in Seq(Indices) /\ Len(all) = Len(s) + Len(t) /\ Len(s) \in Nat /\ Len(t) \in Nat
        /\ \A i \in 1..Len(all) : all[i] = IF i <= Len(s) THEN s[i] ELSE t[i - Len(s)]
    BY <2>2
  <2>4. ASSUME NEW i \in 1..Len(all) PROVE all[i] \in ToSet(s) \cup ToSet(t)
    <3>1. CASE i <= Len(s)
      <4>1. i \in 1..Len(s) /\ all[i] = s[i] BY <2>3, <3>1
      <4> QED BY <2>1, <4>1, SetOf
    <3>2. CASE i > Len(s)
      <4>1. i - Len(s) \in 1..Len(t) /\ all[i] = t[i - Len(s)] BY <2>3, <3>2
      <4> QED BY <2>1, <4>1, SetOf
    <3> QED BY <2>3, <3>1, <3>2
  <2> QED BY <2>1, <2>3, <2>4
<1>4. /\ handles \in Seq(ShardIds) /\ Len(handles) = Len(all)
      /\ \A i \in 1..Len(handles) : handles[i] \in Handles
  <2>1. \A i \in 1..Len(all) : <<stream.inc, all[i]>> \in Handles BY <1>3 DEF Active, Handles
  <2>2. \A i \in 1..Len(all) : <<stream.inc, all[i]>> \in ShardIds
    BY <2>1, HandlesBorn DEF KinesisInv
  <2>3. Len(all) \in Nat BY <1>3
  <2>4. handles \in Seq(ShardIds) /\ Len(handles) = Len(all)
    <3>1. handles = [i \in 1..Len(all) |-> <<stream.inc, all[i]>>] BY <1>1
    <3>2. \A i \in 1..Len(all) : handles[i] \in ShardIds BY <2>2, <3>1
    <3> QED BY <2>3, <3>1, <3>2
  <2> QED BY <1>1, <2>1, <2>4
<1>5. ToSet(handles) \subseteq Handles BY <1>4, SetOf
<1>6. PICK o : o = [NoOp EXCEPT !.op = "delete", !.todo = handles] OBVIOUS
<1>7. o \in AdminWork /\ o.op = "delete" /\ o.todo = handles /\ o.parents = <<>>
  BY <1>4, <1>6, NoOpIsGood DEF AdminWork
<1>8. admins'[x] = o /\ \A y \in Admins : y # x => admins'[y] = admins[y]
  BY <1>1, <1>6 DEF KinesisInv, KinesisTypes
<1>9. admins[x].todo = <<>> BY <1>2 DEF KinesisInv, AdminInv
<1>10. ForsakenKept
  <2> SUFFICES ASSUME NEW a \in ShardIds, NEW y \in Admins, Forsaken(a, y)
               PROVE  Forsaken(a, y)'
    BY DEF ForsakenKept
  <2>1. stream'.inc = 0 /\ stream'.active = <<>> /\ stream'.closed = <<>> BY <1>2 DEF NoStream
  <2>2. a[1] # 0 BY ShardTypes DEF KinesisInv
  <2>3. a \notin Handles' BY <2>1, <2>2 DEF Handles, Active
  <2>4. a \notin ToSet(admins'[y].todo)
    <3>1. CASE y = x BY <1>5, <1>7, <1>8, <3>1 DEF Forsaken
    <3>2. CASE y # x BY <1>8, <3>2 DEF Forsaken
    <3> QED BY <3>1, <3>2
  <2>5. \A z \in Admins : a \notin Parents(z)' BY <2>1, <2>2 DEF Parents
  <2> QED BY <2>3, <2>4, <2>5 DEF Forsaken
<1>11. /\ Shaped
       /\ \A b \in ShardIds : /\ shards'[b].st = shards[b].st
                              /\ shards'[b].counter = shards[b].counter
                              /\ shards'[b].records = shards[b].records
                              /\ shards'[b].trim = shards[b].trim
       /\ \A b \in ShardIds : CommandsInv(b)'
  <2>1. CASE handles = <<>>
    <3>1. shards' = shards BY <1>1, <2>1
    <3>2. Shaped BY <1>2, <3>1 DEF Shaped, Born, KinesisInv, KinesisTypes
    <3>3. OwnersKept BY <1>2, <1>8, <1>9, <1>10 DEF OwnersKept, StopFree
    <3>4. \A b \in ShardIds : Live(b) => Live(b)' BY <3>1 DEF Live
    <3>5. \A b \in ShardIds : CommandsInv(b)' BY <3>1, <3>3, <3>4, QueueStays
    <3> QED BY <3>1, <3>2, <3>5
  <2>2. CASE handles # <<>>
    <3>1. PICK a \in Handles : a = handles[1] /\ a = Head(handles)
      <4>1. 1 \in 1..Len(handles) /\ Head(handles) = handles[1] BY <1>4, <2>2
      <4> QED BY <1>4, <4>1
    <3>2. PICK cmd : cmd = [op |-> "shutdown", from |-> x] OBVIOUS
    <3>3. cmd \in StopCommand /\ cmd.from = x /\ cmd.op = "shutdown" BY <3>2 DEF StopCommand
    <3>4. Enqueue(a, cmd) BY <1>1, <2>2, <3>1, <3>2
    <3>5. admins'[x].todo # <<>> /\ Head(admins'[x].todo) = a /\ admins'[x].op = "delete"
      BY <1>7, <1>8, <2>2, <3>1
    <3> QED BY <1>2, <1>8, <1>9, <1>10, <3>3, <3>4, <3>5, FirstStop
  <2> QED BY <2>1, <2>2
<1>12. KinesisTypes'
  <2>1. admins' \in [Admins -> AdminWork]
    BY <1>1, <1>6, <1>7 DEF KinesisInv, KinesisTypes
  <2>2. NoStream \in StreamEntry
    <3>1. <<>> \in Seq(Indices) OBVIOUS
    <3> QED BY <3>1, Bounds DEF NoStream, StreamEntry
  <2> QED BY <1>2, <1>11, <2>1, <2>2 DEF KinesisInv, KinesisTypes, Shaped
<1>13. stream'.inc = 0 /\ stream'.next = 0 /\ stream'.active = <<>> /\ stream'.closed = <<>>
  BY <1>2 DEF NoStream
<1>14. ToSet(<<>>) = {} BY DEF ToSet
<1>15. StreamInv'
  <2>1. PICK k \in 0..MaxStreams : Numbered(k) BY DEF KinesisInv, StreamInv
  <2>2. \A a \in ShardIds : Born(a)' <=> Born(a) BY <1>11 DEF Born
  <2>3. Numbered(k)' BY <1>13, <2>1, <2>2 DEF Numbered
  <2>4. \A a \in ShardIds : a[1] # 0 BY ShardTypes DEF KinesisInv
  <2>5. \A a \in orphans' : Born(a)'
    BY <1>2, <2>2 DEF KinesisInv, KinesisTypes, StreamInv
  <2> QED BY <1>2, <1>13, <1>14, <2>3, <2>4, <2>5 DEF StreamInv
<1>16. SpaceInv'
  <2>1. Active' = {} BY <1>13, <1>14 DEF Active
  <2>2. ASSUME NEW y \in Admins PROVE admins'[y].op \notin {"split", "merge"}
    <3>1. guard # y BY <1>2, Bounds
    <3>2. admins[y].op \notin {"split", "merge"} BY <3>1 DEF KinesisInv, SpaceInv
    <3> QED BY <1>7, <1>8, <3>2
  <2> QED BY <1>2, <2>1, <2>2 DEF SpaceInv, Apart
<1>17. ASSUME NEW y \in Admins PROVE AdminInv(y)'
  <2>1. \A a \in ShardIds : a[1] # stream'.inc BY <1>13, ShardTypes DEF KinesisInv
  <2>2. CASE y = x
    <3>1. \A a \in ToSet(handles) : a \in ShardIds /\ Born(a)
      BY <1>5, HandlesBorn DEF KinesisInv
    <3> QED BY <1>7, <1>8, <1>11, <2>1, <2>2, <3>1 DEF AdminInv, Born
  <2>3. CASE y # x
    <3>1. ToSet(admins[y].todo) \subseteq ShardIds
      BY SetOf DEF KinesisInv, KinesisTypes, AdminWork
    <3>2. AdminInv(y) BY DEF KinesisInv
    <3> QED BY <1>8, <1>11, <2>1, <2>3, <3>1, <3>2 DEF AdminInv, Born
  <2> QED BY <2>2, <2>3
<1>18. /\ (\A a \in ShardIds : ShardInv(a)') /\ Disjoint' /\ RecordsInv'
       /\ (\A c \in PutCalls : PutInv(puts[c])')
       /\ (\A r \in Readers : ReaderInv(r)')
       /\ (\A a \in ShardIds : LogInv(a)')
       /\ (\A r \in Readers : ProgressInv(r)')
  BY <1>2, <1>11, DataKeeps
<1> QED BY <1>11, <1>12, <1>15, <1>16, <1>17, <1>18 DEF KinesisInv

-----------------------------------------------------------------------------
(* Shards are split and merged.                                             *)

\* The children are to take the keys of the parents, each key one of them.
GoodRanges(parents, ranges) ==
    /\ ranges \in Seq(Keys \X Keys) /\ Len(ranges) > 0
    /\ \A i \in DOMAIN ranges : ranges[i][1] <= ranges[i][2]
    /\ \A i, j \in DOMAIN ranges : \A key \in Keys :
         Within(ranges[i], key) /\ Within(ranges[j], key) => i = j
    /\ \A key \in Keys :
         (\E i \in ToSet(parents) : contains(shards[<<stream.inc, i>>], key))
            <=> (\E k \in DOMAIN ranges : Within(ranges[k], key))

LEMMA BeginReshardInv ==
    ASSUME KinesisInv, NEW x \in Admins, NEW op \in {"split", "merge"},
           NEW parents \in Seq(Indices), parents # <<>>,
           \A i \in ToSet(parents) : i \in ToSet(stream.active),
           NEW ranges, GoodRanges(parents, ranges), BeginReshard(x, op, parents, ranges)
    PROVE  KinesisInv'
<1>1. /\ admins[x].op = "none" /\ guard = NoTaskId /\ blocked' \subseteq blocked
      /\ stream.next + Len(ranges) <= MaxShards /\ guard' = x
      /\ admins' = [admins EXCEPT ![x] = [op |-> op, parents |-> parents, range |-> ranges,
                      todo |-> [i \in DOMAIN parents |-> <<stream.inc, parents[i]>>]]]
      /\ stream' = [stream EXCEPT !.active = Keep(@, ToSet(@) \ ToSet(parents))]
      /\ Enqueue(<<stream.inc, parents[1]>>, [op |-> "close", from |-> x])
      /\ UNCHANGED <<puts, readers, clock, arrivals, orphans>>
  BY DEF BeginReshard, TakesGuard
<1>2. PICK act, cl : act = stream.active /\ cl = stream.closed OBVIOUS
<1>3. /\ stream \in StreamEntry /\ act \in Seq(Indices) /\ cl \in Seq(Indices)
      /\ stream.inc \in 0..MaxStreams /\ stream.next \in 0..MaxShards
  BY <1>2 DEF KinesisInv, KinesisTypes, StreamEntry
<1>4. PICK kept : kept = Keep(act, ToSet(act) \ ToSet(parents)) OBVIOUS
<1>5. kept \in Seq(Indices) /\ ToSet(kept) = ToSet(act) \ ToSet(parents)
  <2>1. kept \in Seq(Indices) /\ Range(kept) = Range(act) \cap (ToSet(act) \ ToSet(parents))
    BY <1>3, <1>4, KeepRange
  <2>2. Range(act) = ToSet(act)
    <3>1. \A i : i \in Range(act) <=> \E k \in 1..Len(act) : act[k] = i BY <1>3, ElementsOf
    <3>2. \A i : i \in ToSet(act) <=> \E k \in 1..Len(act) : act[k] = i BY <1>3, SetOf
    <3> QED BY <3>1, <3>2
  <2>3. Range(kept) = ToSet(kept)
    <3>1. \A i : i \in Range(kept) <=> \E k \in 1..Len(kept) : kept[k] = i BY <2>1, ElementsOf
    <3>2. \A i : i \in ToSet(kept) <=> \E k \in 1..Len(kept) : kept[k] = i BY <2>1, SetOf
    <3> QED BY <3>1, <3>2
  <2> QED BY <2>1, <2>2, <2>3
<1>6. stream' \in StreamEntry /\ stream'.inc = stream.inc /\ stream'.next = stream.next
      /\ stream'.active = kept /\ stream'.closed = cl
  BY <1>1, <1>2, <1>3, <1>4, <1>5 DEF StreamEntry
<1>7. \A i \in ToSet(parents) : <<stream.inc, i>> \in Active /\ <<stream.inc, i>> \in ShardIds
         /\ Born(<<stream.inc, i>>)
  BY HandlesBorn DEF KinesisInv, Active
<1>8. PICK todo : todo = [i \in DOMAIN parents |-> <<stream.inc, parents[i]>>] OBVIOUS
<1>9. /\ todo \in Seq(ShardIds) /\ todo # <<>> /\ parents[1] \in ToSet(parents)
      /\ Head(todo) = <<stream.inc, parents[1]>>
      /\ \A a : a \in ToSet(todo) <=> \E i \in ToSet(parents) : a = <<stream.inc, i>>
  <2>1. DOMAIN parents = 1..Len(parents) /\ Len(parents) \in Nat /\ 1 \in 1..Len(parents) OBVIOUS
  <2>2. \A i \in 1..Len(parents) : parents[i] \in ToSet(parents) BY SetOf
  <2>3. \A i \in 1..Len(parents) : todo[i] = <<stream.inc, parents[i]>> /\ todo[i] \in ShardIds
    BY <1>7, <1>8, <2>1, <2>2
  <2>4. todo \in Seq(ShardIds) /\ Len(todo) = Len(parents)
    <3>1. todo = [i \in 1..Len(parents) |-> <<stream.inc, parents[i]>>] BY <1>8, <2>1
    <3> QED BY <2>1, <2>3, <3>1
  <2>5. todo # <<>> /\ Head(todo) = todo[1] BY <2>1, <2>4
  <2>6. \A a : a \in ToSet(todo) <=> \E i \in 1..Len(parents) : a = <<stream.inc, parents[i]>>
    <3>1. \A a : a \in ToSet(todo) <=> \E i \in 1..Len(todo) : todo[i] = a BY <2>4, SetOf
    <3> QED BY <2>3, <2>4, <3>1
  <2>7. \A i : i \in ToSet(parents) <=> \E j \in 1..Len(parents) : parents[j] = i BY SetOf
  <2> QED BY <2>1, <2>2, <2>3, <2>4, <2>5, <2>6, <2>7
<1>10. PICK o : o = [op |-> op, parents |-> parents, range |-> ranges, todo |-> todo] OBVIOUS
<1>11. o \in AdminWork /\ o.op = op /\ o.range = ranges /\ o.todo = todo /\ o.parents = parents
  BY <1>9, <1>10 DEF AdminWork, GoodRanges
<1>12. /\ admins' = [admins EXCEPT ![x] = o]
       /\ admins'[x] = o /\ \A y \in Admins : y # x => admins'[y] = admins[y]
       /\ admins' \in [Admins -> AdminWork]
  <2>1. admins' = [admins EXCEPT ![x] = o] BY <1>1, <1>8, <1>10
  <2> QED BY <1>11, <2>1 DEF KinesisInv, KinesisTypes
<1>13. /\ Parents(x)' = ToSet(todo)
       /\ \A y \in Admins : y # x => Parents(y)' = Parents(y)
  BY <1>6, <1>9, <1>11, <1>12 DEF Parents
<1>14. Handles' \subseteq Handles /\ \A a \in ToSet(todo) : a \in Active /\ a \notin Handles'
  <2>1. Handles' \subseteq Handles BY <1>2, <1>5, <1>6 DEF Handles, Active
  <2>2. ASSUME NEW i \in ToSet(parents) PROVE <<stream.inc, i>> \notin Handles'
    <3>1. i \notin ToSet(kept) /\ i \notin ToSet(cl) BY <1>2, <1>5 DEF KinesisInv, StreamInv
    <3> QED BY <1>6, <3>1 DEF Handles, Active
  <2> QED BY <1>7, <1>9, <2>1, <2>2
<1>15. ForsakenKept
  <2> SUFFICES ASSUME NEW a \in ShardIds, NEW y \in Admins, Forsaken(a, y)
               PROVE  Forsaken(a, y)'
    BY DEF ForsakenKept
  <2>1. a \notin Handles' /\ a \notin ToSet(todo)
    BY <1>14, HandlesBorn DEF Forsaken, KinesisInv
  <2>2. a \notin ToSet(admins'[y].todo) BY <1>11, <1>12, <2>1 DEF Forsaken
  <2>3. \A z \in Admins : a \notin Parents(z)' BY <1>13, <2>1 DEF Forsaken
  <2> QED BY <2>1, <2>2, <2>3 DEF Forsaken
<1>16. /\ Shaped
       /\ \A b \in ShardIds : /\ shards'[b].st = shards[b].st
                              /\ shards'[b].counter = shards[b].counter
                              /\ shards'[b].records = shards[b].records
                              /\ shards'[b].trim = shards[b].trim
       /\ \A b \in ShardIds : CommandsInv(b)'
  <2>1. PICK a \in Handles : a = <<stream.inc, parents[1]>>
    BY <1>7, <1>9, HandlesBorn DEF KinesisInv
  <2>2. PICK cmd : cmd = [op |-> "close", from |-> x] OBVIOUS
  <2>3. cmd \in StopCommand /\ cmd.from = x /\ cmd.op = "close" BY <2>2 DEF StopCommand
  <2>4. Enqueue(a, cmd) BY <1>1, <2>1, <2>2
  <2>5. admins[x].todo = <<>> BY <1>1 DEF KinesisInv, AdminInv
  <2>6. admins'[x].todo # <<>> /\ Head(admins'[x].todo) = a BY <1>9, <1>11, <1>12, <2>1
  <2> QED BY <1>1, <1>12, <1>15, <2>3, <2>4, <2>5, <2>6, FirstStop
<1>17. KinesisTypes' BY <1>1, <1>6, <1>12, <1>16 DEF KinesisInv, KinesisTypes, Shaped
<1>18. StreamInv'
  <2>1. PICK k \in 0..MaxStreams : Numbered(k) BY DEF KinesisInv, StreamInv
  <2>2. \A a \in ShardIds : Born(a)' <=> Born(a) BY <1>16 DEF Born
  <2>3. Numbered(k)' BY <1>6, <2>1, <2>2 DEF Numbered
  <2>4. /\ \A i \in ToSet(kept) \cup ToSet(cl) : i < stream.next
        /\ ToSet(kept) \cap ToSet(cl) = {}
    BY <1>2, <1>5 DEF KinesisInv, StreamInv
  <2>5. \A a \in orphans' : Born(a)'
    BY <1>1, <2>2 DEF KinesisInv, KinesisTypes, StreamInv
  <2>6. stream.inc # 0
    BY <1>7, <1>9, ShardTypes DEF KinesisInv
  <2> QED BY <1>6, <2>2, <2>3, <2>4, <2>6, <2>5 DEF StreamInv, KinesisInv
<1>19. Active' = Active \ ToSet(todo)
  <2>1. Active' = {<<stream.inc, i>> : i \in ToSet(kept)} BY <1>6 DEF Active
  <2> QED BY <1>2, <1>5, <1>9, <2>1 DEF Active
<1>20. SpaceInv'
  <2>1. Active \subseteq ShardIds /\ Active # {} /\ \A a \in Active : a[1] = stream.inc
    BY <1>7, <1>9, HandlesBorn DEF KinesisInv
  <2>2. Covers(Active, stream.inc, {}) /\ Apart(Active, stream.inc, {})
    BY <1>1, <2>1 DEF KinesisInv, SpaceInv
  <2>3. PICK inc : inc = stream.inc OBVIOUS
  <2>4. LostKeys(stream.inc)' = LostKeys(stream.inc)
    <3>1. orphans \subseteq ShardIds BY DEF KinesisInv, KinesisTypes
    <3> QED BY <1>6, <1>16, <3>1 DEF LostKeys, Shaped, contains
  <2>5. \A a \in Active' : shards'[a].st = "open"
    BY <1>16, <1>19, <2>1 DEF KinesisInv, SpaceInv
  <2>6. \A a \in ShardIds, key \in Keys : contains(shards'[a], key) <=> contains(shards[a], key)
    BY <1>16 DEF Shaped, contains
  <2>7. ranges \in Seq(Keys \X Keys) /\ DOMAIN ranges = 1..Len(ranges)
        /\ \A r : r \in ToSet(ranges) <=> \E i \in DOMAIN ranges : ranges[i] = r
    <3>1. ranges \in Seq(Keys \X Keys) BY DEF GoodRanges
    <3>2. PICK S : S = Keys \X Keys OBVIOUS
    <3>3. ranges \in Seq(S) BY <3>1, <3>2
    <3>4. /\ DOMAIN ranges = 1..Len(ranges)
          /\ \A r : r \in ToSet(ranges) <=> \E i \in DOMAIN ranges : ranges[i] = r
      BY <3>3, SetOf
    <3> QED BY <3>1, <3>4
  <2>8. ASSUME NEW key \in Keys
        PROVE  \/ \E a \in Active' : contains(shards'[a], key)
               \/ \E r \in ToSet(ranges) : Within(r, key)
               \/ key \in LostKeys(stream.inc)
    <3> SUFFICES ASSUME key \notin LostKeys(stream.inc)
                 PROVE  \/ \E a \in Active' : contains(shards'[a], key)
                        \/ \E r \in ToSet(ranges) : Within(r, key)
      OBVIOUS
    <3>1. PICK a \in Active : contains(shards[a], key) BY <2>2 DEF Covers
    <3>2. CASE a \in ToSet(todo)
      <4>1. PICK i \in ToSet(parents) : a = <<stream.inc, i>> BY <1>9, <3>2
      <4>2. PICK k \in DOMAIN ranges : Within(ranges[k], key) BY <3>1, <4>1 DEF GoodRanges
      <4> QED BY <2>7, <4>2
    <3>3. CASE a \notin ToSet(todo)
      <4>1. a \in Active' BY <1>19, <3>3
      <4> QED BY <2>1, <2>6, <3>1, <4>1
    <3> QED BY <3>2, <3>3
  <2>9. Covers(Active, stream.inc, ToSet(admins[x].range))'
    BY <1>11, <1>12, <2>8, <2>4 DEF Covers
  <2>10. ASSUME NEW key \in Keys
         PROVE  (\E r \in ToSet(ranges) : Within(r, key))
                   <=> (\E a \in ToSet(todo) : contains(shards[a], key))
    <3>1. (\E r \in ToSet(ranges) : Within(r, key)) <=> (\E k \in DOMAIN ranges : Within(ranges[k], key))
      BY <2>7, Zenon
    <3>2. (\E a \in ToSet(todo) : contains(shards[a], key))
             <=> (\E i \in ToSet(parents) : contains(shards[<<stream.inc, i>>], key))
      BY <1>9, Zenon
    <3>3. (\E i \in ToSet(parents) : contains(shards[<<stream.inc, i>>], key))
             <=> (\E k \in DOMAIN ranges : Within(ranges[k], key))
      BY Zenon DEF GoodRanges
    <3> QED BY <3>1, <3>2, <3>3
  <2>11. ASSUME NEW key \in LostKeys(stream.inc)
         PROVE  /\ \A a \in Active' : ~contains(shards'[a], key)
                /\ \A r \in ToSet(ranges) : ~Within(r, key)
    <3>1. key \in Keys BY DEF LostKeys, Keys
    <3>2. \A a \in Active : ~contains(shards[a], key) BY <2>2 DEF Apart
    <3>3. \A a \in ToSet(todo) : a \in Active BY <1>14
    <3> QED BY <1>19, <2>1, <2>6, <2>10, <3>1, <3>2, <3>3
  <2>12. Apart(Active, stream.inc, ToSet(admins[x].range))'
    BY <1>11, <1>12, <2>4, <2>11 DEF Apart
  <2>13. Resharding(x)'
    <3>1. admins'[x].op \in {"split", "merge"} BY <1>11, <1>12
    <3>2. stream' # NoStream
      <4>1. stream.inc # 0 BY <1>7, <1>9, ShardTypes DEF KinesisInv
      <4> QED BY <1>6, <4>1 DEF NoStream
    <3>3. \A a \in Parents(x)' : Born(a)' /\ a \notin Handles'
      BY <1>13, <1>14, <1>7, <1>9, <1>16 DEF Born
    <3>4. \A key \in Keys : (\E r \in ToSet(ranges) : Within(r, key))
                               <=> (\E a \in Parents(x)' : contains(shards'[a], key))
      BY <1>13, <1>14, <2>1, <2>6, <2>10
    <3>5. \A r \in ToSet(ranges) : r[1] <= r[2] BY <2>7 DEF GoodRanges
    <3>6. Len(ranges) > 0 /\ stream'.next + Len(ranges) <= MaxShards BY <1>1, <1>6 DEF GoodRanges
    <3>7. \A i, j \in DOMAIN ranges : \A key \in Keys :
            Within(ranges[i], key) /\ Within(ranges[j], key) => i = j
      BY DEF GoodRanges
    <3>8. ASSUME NEW a \in ShardIds, NEW key \in Keys, NEW r \in ToSet(ranges), a[1] = stream'.inc,
                 shards'[a].st = "open", contains(shards'[a], key), Within(r, key)
          PROVE  a \in ToSet(todo)
      <4>1. \E k \in DOMAIN ranges : Within(ranges[k], key) BY <2>7, <3>8
      <4>2. PICK i \in ToSet(parents) : contains(shards[<<stream.inc, i>>], key)
        BY <4>1 DEF GoodRanges
      <4>3. PICK b \in ShardIds : b = <<stream.inc, i>> /\ b \in Active BY <1>7
      <4>4. shards[b].st = "open" /\ b[1] = stream.inc BY <4>3, <2>1 DEF KinesisInv, SpaceInv
      <4>5. shards[a].st = "open" /\ contains(shards[a], key) /\ a[1] = stream.inc
        BY <1>6, <1>16, <2>6, <3>8
      <4>6. a = b BY <4>2, <4>3, <4>4, <4>5 DEF KinesisInv, Disjoint
      <4> QED BY <1>9, <4>3, <4>6
    <3> QED BY <1>11, <1>12, <3>1, <3>2, <3>3, <3>5, <3>6, <3>7, <3>8, <3>4, <1>13 DEF Resharding
  <2>14. ASSUME NEW y \in Admins, admins'[y].op \in {"split", "merge"} PROVE y = x
    <3>1. guard # y BY <1>1, Bounds
    <3>2. admins[y].op \notin {"split", "merge"} BY <3>1 DEF KinesisInv, SpaceInv
    <3> QED BY <1>12, <2>14, <3>2
  <2>15. x # NoTaskId BY Bounds
  <2> QED BY <1>1, <2>5, <2>9, <2>13, <2>14, <2>15, <2>12 DEF SpaceInv
<1>21. ASSUME NEW y \in Admins PROVE AdminInv(y)'
  <2>1. CASE y = x BY <1>11, <1>12, <2>1 DEF AdminInv
  <2>2. CASE y # x
    <3>1. ToSet(admins[y].todo) \subseteq ShardIds
      BY SetOf DEF KinesisInv, KinesisTypes, AdminWork
    <3>2. AdminInv(y) BY DEF KinesisInv
    <3> QED BY <1>6, <1>12, <1>16, <2>2, <3>1, <3>2 DEF AdminInv, Born
  <2> QED BY <2>1, <2>2
<1>22. /\ (\A a \in ShardIds : ShardInv(a)') /\ Disjoint' /\ RecordsInv'
       /\ (\A c \in PutCalls : PutInv(puts[c])')
       /\ (\A r \in Readers : ReaderInv(r)')
       /\ (\A a \in ShardIds : LogInv(a)')
       /\ (\A r \in Readers : ProgressInv(r)')
  BY <1>1, <1>16, DataKeeps
<1> QED BY <1>16, <1>17, <1>18, <1>20, <1>21, <1>22 DEF KinesisInv

LEMMA SplitShardInv == ASSUME KinesisInv, NEW x \in Admins, split_shard(x) PROVE KinesisInv'
<1>1. PICK i \in ToSet(stream.active), key \in Keys :
         LET s == shards[<<stream.inc, i>>]
         IN /\ s.lo < key /\ key <= s.hi
            /\ BeginReshard(x, "split", <<i>>, <<<<s.lo, key - 1>>, <<key, s.hi>>>>)
  BY DEF split_shard, Keys
<1>2. PICK a \in ShardIds : a = <<stream.inc, i>> /\ Born(a)
  <2>1. <<stream.inc, i>> \in Active BY DEF Active
  <2> QED BY <2>1, HandlesBorn DEF KinesisInv
<1>3. PICK lo \in Nat, hi \in Nat : lo = shards[a].lo /\ hi = shards[a].hi
  BY ShardTypes DEF KinesisInv
<1>4. lo < key /\ key <= hi /\ hi <= HashMax
  BY <1>1, <1>2, <1>3 DEF KinesisInv, ShardInv
<1>5. PICK ranges : ranges = <<<<lo, key - 1>>, <<key, hi>>>> OBVIOUS
<1>6. i \in Indices BY SetOf DEF KinesisInv, KinesisTypes, StreamEntry
<1>7. GoodRanges(<<i>>, ranges)
  <2>1. key - 1 \in Keys /\ lo \in Keys /\ hi \in Keys /\ key \in Nat BY <1>3, <1>4, Bounds DEF Keys
  <2>2. ranges \in Seq(Keys \X Keys) /\ Len(ranges) = 2 /\ DOMAIN ranges = {1, 2}
        /\ ranges[1] = <<lo, key - 1>> /\ ranges[2] = <<key, hi>>
    BY <1>5, <2>1
  <2>3. ToSet(<<i>>) = {i} BY DEF ToSet
  <2>4. \A n \in Keys : contains(shards[a], n) <=> lo <= n /\ n <= hi BY <1>3 DEF contains
  <2>5. \A n \in Keys : /\ Within(ranges[1], n) <=> lo <= n /\ n <= key - 1
                        /\ Within(ranges[2], n) <=> key <= n /\ n <= hi
    BY <2>2 DEF Within
  <2>6. \A n \in Keys : n \in Nat BY Bounds DEF Keys
  <2>7. \A k \in DOMAIN ranges : ranges[k][1] <= ranges[k][2] BY <1>4, <2>1, <2>2
  <2>8. ASSUME NEW k \in DOMAIN ranges, NEW m \in DOMAIN ranges, NEW n \in Keys,
               Within(ranges[k], n), Within(ranges[m], n)
        PROVE  k = m
    <3>1. ~(Within(ranges[1], n) /\ Within(ranges[2], n)) BY <2>1, <2>5, <2>6
    <3>2. (k = 1 \/ k = 2) /\ (m = 1 \/ m = 2) BY <2>2
    <3> QED BY <2>8, <3>1, <3>2
  <2>9. ASSUME NEW n \in Keys
        PROVE  contains(shards[a], n) <=> (\E k \in DOMAIN ranges : Within(ranges[k], n))
    <3>1. contains(shards[a], n) <=> Within(ranges[1], n) \/ Within(ranges[2], n)
      BY <1>4, <2>1, <2>4, <2>5, <2>6
    <3> QED BY <2>2, <3>1
  <2>10. ASSUME NEW n \in Keys
         PROVE  (\E k \in ToSet(<<i>>) : contains(shards[<<stream.inc, k>>], n))
                  <=> (\E k \in DOMAIN ranges : Within(ranges[k], n))
    BY <1>2, <2>3, <2>9
  <2>11. \A k, m \in DOMAIN ranges : \A n \in Keys :
            Within(ranges[k], n) /\ Within(ranges[m], n) => k = m
    BY <2>8
  <2>12. Len(ranges) > 0 BY <2>2
  <2> QED BY <2>2, <2>7, <2>10, <2>11, <2>12, Zenon DEF GoodRanges
<1>8. BeginReshard(x, "split", <<i>>, ranges) BY <1>1, <1>2, <1>3, <1>5
<1>9. <<i>> \in Seq(Indices) /\ <<i>> # <<>> /\ ToSet(<<i>>) = {i} BY <1>6 DEF ToSet
<1> QED BY <1>7, <1>8, <1>9, BeginReshardInv

LEMMA MergeShardsInv == ASSUME KinesisInv, NEW x \in Admins, merge_shards(x) PROVE KinesisInv'
<1>1. PICK m \in DOMAIN stream.active, n \in DOMAIN stream.active :
        LET s == shards[<<stream.inc, stream.active[m]>>]
            t == shards[<<stream.inc, stream.active[n]>>]
        IN /\ m > n /\ Adjacent(s, t)
           /\ BeginReshard(x, "merge", <<stream.active[m], stream.active[n]>>,
                           <<<<Least(s.lo, t.lo), Most(s.hi, t.hi)>>>>)
  BY DEF merge_shards
<1>2. PICK i, j : i = stream.active[m] /\ j = stream.active[n] OBVIOUS
<1>3. i \in ToSet(stream.active) /\ j \in ToSet(stream.active) BY <1>2 DEF ToSet
<1>4. PICK a \in ShardIds, b \in ShardIds :
         a = <<stream.inc, i>> /\ b = <<stream.inc, j>> /\ Born(a) /\ Born(b)
  <2>1. <<stream.inc, i>> \in Active /\ <<stream.inc, j>> \in Active BY <1>3 DEF Active
  <2> QED BY <2>1, HandlesBorn DEF KinesisInv
<1>5. PICK lo \in Nat, hi \in Nat, low \in Nat, high \in Nat :
         lo = shards[a].lo /\ hi = shards[a].hi /\ low = shards[b].lo /\ high = shards[b].hi
  BY ShardTypes DEF KinesisInv
<1>6. lo <= hi /\ hi <= HashMax /\ low <= high /\ high <= HashMax
  BY <1>4, <1>5 DEF KinesisInv, ShardInv
<1>7. hi + 1 = low \/ high + 1 = lo BY <1>1, <1>2, <1>4, <1>5 DEF Adjacent
<1>8. PICK from, to : from = Least(lo, low) /\ to = Most(hi, high) OBVIOUS
<1>9. PICK ranges : ranges = <<<<from, to>>>> OBVIOUS
<1>10. i \in Indices /\ j \in Indices BY <1>3, SetOf DEF KinesisInv, KinesisTypes, StreamEntry
<1>11. ToSet(<<i, j>>) = {i, j} BY DEF ToSet
<1>12. GoodRanges(<<i, j>>, ranges)
  <2>1. from \in Keys /\ to \in Keys /\ from <= to
    <3>1. (from = lo /\ lo <= low) \/ (from = low /\ low <= lo) BY <1>5, <1>8 DEF Least
    <3>2. (to = hi /\ high <= hi) \/ (to = high /\ hi <= high) BY <1>5, <1>8 DEF Most
    <3>3. HashMax \in Nat /\ from \in Nat /\ to \in Nat BY <1>5, <3>1, <3>2, Bounds
    <3>4. from <= to /\ to <= HashMax BY <1>5, <1>6, <3>1, <3>2, <3>3
    <3> QED BY <3>3, <3>4 DEF Keys
  <2>2. ranges \in Seq(Keys \X Keys) /\ Len(ranges) = 1 /\ DOMAIN ranges = {1}
        /\ ranges[1] = <<from, to>>
    BY <1>9, <2>1
  <2>3. ASSUME NEW key \in Keys
        PROVE  contains(shards[a], key) \/ contains(shards[b], key) <=> Within(ranges[1], key)
    <3>1. Within(ranges[1], key) <=> from <= key /\ key <= to BY <2>2 DEF Within
    <3>2. key \in Nat BY Bounds DEF Keys
    <3>3. contains(shards[a], key) <=> lo <= key /\ key <= hi BY <1>5 DEF contains
    <3>4. contains(shards[b], key) <=> low <= key /\ key <= high BY <1>5 DEF contains
    <3>5. (from <= key /\ key <= to) <=> (lo <= key /\ key <= hi) \/ (low <= key /\ key <= high)
      BY <1>6, <1>7, <1>8, <3>2 DEF Least, Most
    <3> QED BY <3>1, <3>3, <3>4, <3>5
  <2>4. \A k \in DOMAIN ranges : ranges[k][1] <= ranges[k][2] BY <2>1, <2>2
  <2>5. ASSUME NEW key \in Keys
        PROVE  (\E k \in ToSet(<<i, j>>) : contains(shards[<<stream.inc, k>>], key))
                  <=> (\E k \in DOMAIN ranges : Within(ranges[k], key))
    BY <1>4, <1>11, <2>2, <2>3
  <2> QED BY <2>2, <2>4, <2>5 DEF GoodRanges
<1>13. BeginReshard(x, "merge", <<i, j>>, ranges) BY <1>1, <1>2, <1>4, <1>5, <1>8, <1>9
<1>14. <<i, j>> \in Seq(Indices) /\ <<i, j>> # <<>> BY <1>10
<1> QED BY <1>3, <1>11, <1>12, <1>13, <1>14, BeginReshardInv

-----------------------------------------------------------------------------
(* New shards.                                                              *)

\* shards are spawned, and those there are stay as they were
Grown ==
    /\ shards' \in [ShardIds -> Shard]
    /\ clock' \in {0, 1} /\ clock <= clock'
    /\ \A a \in ShardIds :
         IF Born(a) \/ shards'[a] = shards[a] THEN shards'[a] = shards[a]
         ELSE /\ shards'[a].st = "open" /\ shards'[a].records = <<>> /\ shards'[a].trim = 0
              /\ shards'[a].commands = <<>> /\ shards'[a].prefix = <<clock', a[2]>>
              /\ shards'[a].lo <= shards'[a].hi /\ shards'[a].hi <= HashMax
    /\ \A a, b \in ShardIds : ~Born(a) /\ Born(a)' /\ Born(b) /\ a[1] = b[1] => b[2] < a[2]
    /\ UNCHANGED orphans

LEMMA SpawnedIs ==
    ASSUME NEW lo \in Keys, NEW hi \in Keys, NEW i \in Indices, NEW t \in {0, 1},
           NEW s, s = Spawned(<<lo, hi>>, i, t)
    PROVE  /\ s \in Shard /\ s.st = "open" /\ s.lo = lo /\ s.hi = hi /\ s.prefix = <<t, i>>
           /\ s.records = <<>> /\ s.trim = 0 /\ s.commands = <<>> /\ s.counter = 0
<1>1. MaxShards \in Nat /\ MaxShards <= IndexLimit /\ HashMax \in Nat BY Bounds
<1>2. i \in Nat /\ i < MaxShards BY <1>1 DEF Indices
<1>3. i % IndexLimit = i BY <1>1, <1>2, SMT DEF IndexLimit
<1>4. lo \in Nat /\ hi \in Nat BY <1>1 DEF Keys
<1>5. Unborn \in Shard
  <2>1. <<>> \in Seq(Record) /\ <<>> \in Seq(Command) OBVIOUS
  <2> QED BY <2>1 DEF Unborn, Shard
<1>6. s = [Unborn EXCEPT !.st = "open", !.lo = lo, !.hi = hi, !.prefix = <<t, i>>]
  BY <1>3 DEF Spawned
<1>7. <<t, i>> \in Nat \X Nat BY <1>2
<1>8. /\ Unborn.records = <<>> /\ Unborn.trim = 0 /\ Unborn.commands = <<>> /\ Unborn.counter = 0
  BY DEF Unborn
<1>9. s \in Shard BY <1>4, <1>5, <1>6, <1>7 DEF Shard
<1>10. /\ s.st = "open" /\ s.lo = lo /\ s.hi = hi /\ s.prefix = <<t, i>>
       /\ s.records = Unborn.records /\ s.trim = Unborn.trim /\ s.commands = Unborn.commands
       /\ s.counter = Unborn.counter
  BY <1>5, <1>6 DEF Shard
<1> QED BY <1>8, <1>9, <1>10

\* New shards take no keys away.
LEMMA GrownLost ==
    ASSUME KinesisInv, Grown, NEW inc
    PROVE  LostKeys(inc)' = LostKeys(inc)
<1>1. \A a \in orphans : a \in ShardIds /\ Born(a) BY DEF KinesisInv, KinesisTypes, StreamInv
<1>2. \A a \in orphans : shards'[a] = shards[a] BY <1>1 DEF Grown
<1>3. orphans' = orphans BY DEF Grown
<1> QED BY <1>2, <1>3 DEF LostKeys, contains

LEMMA GrownKeeps ==
    ASSUME KinesisInv, Grown, OwnersKept, UNCHANGED <<puts, readers, arrivals>>
    PROVE  /\ (\A a \in ShardIds : ShardInv(a)') /\ RecordsInv'
           /\ (\A c \in PutCalls : PutInv(puts[c])')
           /\ (\A r \in Readers : ReaderInv(r)')
           /\ (\A a \in ShardIds : CommandsInv(a)')
           /\ (\A a \in ShardIds : LogInv(a)')
           /\ (\A r \in Readers : ProgressInv(r)')
<1>1. \A a \in ShardIds : Born(a) => Born(a)' /\ shards'[a] = shards[a] BY DEF Grown, Born
<1>2. ASSUME NEW a \in ShardIds, ~Born(a)
      PROVE  /\ shards[a].records = <<>> /\ shards[a].trim = 0 /\ shards[a].commands = <<>>
             /\ shards'[a].records = <<>> /\ shards'[a].trim = 0 /\ shards'[a].commands = <<>>
  <2>1. shards[a] = Unborn BY <1>2 DEF KinesisInv, ShardInv
  <2> QED BY <1>2, <2>1 DEF Unborn, Grown
<1>3. \A a \in ShardIds : /\ shards'[a].records = shards[a].records
                          /\ shards'[a].trim = shards[a].trim
                          /\ shards'[a].commands = shards[a].commands
                          /\ (Live(a) => Live(a)')
  <2> SUFFICES ASSUME NEW a \in ShardIds
               PROVE  /\ shards'[a].records = shards[a].records
                      /\ shards'[a].trim = shards[a].trim
                      /\ shards'[a].commands = shards[a].commands
                      /\ (Live(a) => Live(a)')
    OBVIOUS
  <2>1. CASE Born(a) BY <1>1, <2>1 DEF Live
  <2>2. CASE ~Born(a)
    <3>1. ~Live(a) BY <2>2 DEF Live, Born
    <3> QED BY <1>2, <2>2, <3>1
  <2> QED BY <2>1, <2>2
<1>4. clock \in {0, 1} /\ clock' \in {0, 1} /\ clock <= clock'
  BY DEF Grown, KinesisInv, KinesisTypes
<1>5. ASSUME NEW a \in ShardIds PROVE ShardInv(a)'
  <2>1. CASE Born(a)
    <3>1. shards[a].prefix[1] \in Nat BY ShardTypes DEF KinesisInv
    <3>2. ShardInv(a) BY DEF KinesisInv
    <3>3. shards[a].prefix[1] <= clock' BY <1>4, <2>1, <3>1, <3>2 DEF ShardInv
    <3> QED BY <1>1, <2>1, <3>2, <3>3 DEF ShardInv
  <2>2. CASE ~Born(a) /\ shards'[a] = shards[a]
    BY <2>2 DEF KinesisInv, ShardInv, Born
  <2>3. CASE ~Born(a) /\ shards'[a] # shards[a]
    BY <1>4, <2>3 DEF Grown, ShardInv, Born
  <2> QED BY <2>1, <2>2, <2>3
<1>6. ASSUME NEW i \in DOMAIN arrivals PROVE RecordInv(arrivals[i])'
  <2>1. PICK rec \in Record : rec = arrivals[i] BY ArrivalTypes DEF KinesisInv
  <2>2. RecordInv(rec) BY <2>1 DEF KinesisInv, RecordsInv
  <2>3. rec.at \in ShardIds /\ rec.seq \in SequenceNumber BY DEF Record
  <2>4. rec.seq[1] \in Nat /\ rec.seq[2] \in Nat /\ rec.seq[3] \in Nat BY <2>3 DEF SequenceNumber
  <2>5. Born(rec.at)' /\ rec.seq[1] <= clock' /\ rec.seq[2] = rec.at[2]
    BY <1>1, <1>4, <2>2, <2>3, <2>4 DEF RecordInv
  <2>6. ASSUME rec.key \notin LostKeys(rec.at[1]),
               NEW a \in ShardIds, a[1] = rec.at[1], shards'[a].st = "open",
               contains(shards'[a], rec.key)
        PROVE  SeqLess(rec.seq, NextSeq(a)')
    <3>1. CASE Born(a)
      <4>1. shards'[a] = shards[a] BY <1>1, <3>1
      <4>2. SeqLess(rec.seq, NextSeq(a)) BY <2>2, <2>6, <4>1 DEF RecordInv
      <4>3. NextSeq(a)' = NextSeq(a) BY <4>1 DEF NextSeq
      <4> QED BY <4>2, <4>3
    <3>2. CASE ~Born(a)
      <4>1. Born(a)' /\ shards'[a] # shards[a] BY <2>6, <3>2 DEF Born
      <4>2. rec.at[2] < a[2] BY <2>2, <2>3, <2>6, <3>2, <4>1 DEF Grown, RecordInv
      <4>3. shards'[a].prefix = <<clock', a[2]>> BY <3>2, <4>1 DEF Grown
      <4>4. PICK n : NextSeq(a)' = <<clock', a[2], n>> BY <4>3 DEF NextSeq
      <4>5. a[2] \in Nat BY ShardTypes DEF KinesisInv, Indices
      <4>6. rec.seq[1] < clock' \/ (rec.seq[1] = clock' /\ rec.seq[2] < a[2])
        BY <1>4, <2>4, <2>5, <4>2, <4>5
      <4> QED BY <4>4, <4>6 DEF SeqLess
    <3> QED BY <3>1, <3>2
  <2>7. LostKeys(rec.at[1])' = LostKeys(rec.at[1]) BY GrownLost
  <2>8. rec.key \notin LostKeys(rec.at[1])' => \A a \in ShardIds :
          a[1] = rec.at[1] /\ shards'[a].st = "open" /\ contains(shards'[a], rec.key)
          => SeqLess(rec.seq, NextSeq(a)')
    BY <2>6, <2>7
  <2>9. RecordInv(rec)' BY <2>5, <2>8 DEF RecordInv
  <2> QED BY <2>1, <2>9
<1>7. RecordsInv'
  <2>1. ASSUME NEW i \in DOMAIN arrivals, NEW j \in DOMAIN arrivals,
               i < j, arrivals[i].key = arrivals[j].key, arrivals[i].at[1] = arrivals[j].at[1],
               arrivals[i].key \notin LostKeys(arrivals[i].at[1])'
        PROVE  SeqLess(arrivals[i].seq, arrivals[j].seq)
    <3>1. PICK inc : inc = arrivals[i].at[1] OBVIOUS
    <3>2. arrivals[i].key \notin LostKeys(inc)' BY <2>1, <3>1 DEF LostKeys
    <3>3. arrivals[i].key \notin LostKeys(arrivals[i].at[1]) BY <3>1, <3>2, GrownLost
    <3> QED BY <2>1, <3>3 DEF KinesisInv, RecordsInv
  <2> QED BY <1>6, <2>1 DEF RecordsInv
<1>8. ASSUME NEW d \in PutCalls PROVE PutInv(puts[d])'
  <2>1. PICK p : p = puts[d] OBVIOUS
  <2>2. p.snapshot \subseteq ShardIds /\ PutInv(p) BY <2>1 DEF KinesisInv, KinesisTypes, Put
  <2>3. PICK lost : lost = LostKeys(p.to[1]) OBVIOUS
  <2>4. LostKeys(p.to[1])' = lost BY <2>3, GrownLost
  <2>5. PutInv(p)' BY <1>1, <2>2, <2>3, <2>4 DEF PutInv, Covers
  <2> QED BY <2>1, <2>5
<1>9. \A r \in Readers : ReaderInv(r)' BY DEF KinesisInv, ReaderInv, Asks
<1>10. \A a \in ShardIds : CommandsInv(a)' BY <1>3, QueueStays
<1>11. \A a \in ShardIds : LogInv(a)' BY <1>3, LogKept
<1>12. ASSUME NEW r \in Readers PROVE ProgressInv(r)'
  <2>1. \A a \in ShardIds : shards'[a].trim \in Nat /\ shards'[a].trim >= shards[a].trim
    BY <1>3, ShardTypes DEF KinesisInv
  <2> QED BY <2>1, ProgressStays
<1> QED BY <1>5, <1>7, <1>8, <1>9, <1>10, <1>11, <1>12

\* The elements of two sequences.
LEMMA SetOfBoth ==
    ASSUME NEW S, NEW u \in Seq(S), NEW v \in Seq(S)
    PROVE  u \o v \in Seq(S) /\ \A i : i \in ToSet(u \o v) <=> i \in ToSet(u) \/ i \in ToSet(v)
<1>1. PICK all : all = u \o v OBVIOUS
<1>2. /\ all \in Seq(S) /\ Len(all) = Len(u) + Len(v) /\ Len(u) \in Nat /\ Len(v) \in Nat
      /\ \A i \in 1..Len(all) : all[i] = IF i <= Len(u) THEN u[i] ELSE v[i - Len(u)]
  BY <1>1
<1>3. ASSUME NEW i \in 1..Len(all) PROVE all[i] \in ToSet(u) \/ all[i] \in ToSet(v)
  <2>1. CASE i <= Len(u)
    <3>1. i \in 1..Len(u) /\ all[i] = u[i] BY <1>2, <2>1
    <3> QED BY <3>1, SetOf
  <2>2. CASE i > Len(u)
    <3>1. i - Len(u) \in 1..Len(v) /\ all[i] = v[i - Len(u)] BY <1>2, <2>2
    <3> QED BY <3>1, SetOf
  <2> QED BY <1>2, <2>1, <2>2
<1>4. ASSUME NEW i \in 1..Len(u) PROVE u[i] \in ToSet(all)
  <2>1. i \in 1..Len(all) /\ all[i] = u[i] BY <1>2
  <2> QED BY <1>2, <2>1, SetOf
<1>5. ASSUME NEW i \in 1..Len(v) PROVE v[i] \in ToSet(all)
  <2>1. PICK k : k = i + Len(u) OBVIOUS
  <2>2. k \in 1..Len(all) /\ ~(k <= Len(u)) /\ k - Len(u) = i BY <1>2, <2>1
  <2>3. all[k] = v[i] BY <1>2, <2>2
  <2> QED BY <1>2, <2>2, <2>3, SetOf
<1>6. /\ \A i : i \in ToSet(all) <=> \E k \in 1..Len(all) : all[k] = i
      /\ \A i : i \in ToSet(u) <=> \E k \in 1..Len(u) : u[k] = i
      /\ \A i : i \in ToSet(v) <=> \E k \in 1..Len(v) : v[k] = i
  BY <1>2, SetOf
<1>7. \A i : i \in ToSet(all) => i \in ToSet(u) \/ i \in ToSet(v) BY <1>3, <1>6
<1>8. \A i : i \in ToSet(u) => i \in ToSet(all) BY <1>4, <1>6
<1>9. \A i : i \in ToSet(v) => i \in ToSet(all) BY <1>5, <1>6
<1> QED BY <1>1, <1>2, <1>7, <1>8, <1>9

\* The children of the parents that have closed take over.
LEMMA FinishReshardInv == ASSUME KinesisInv, NEW x \in Admins, FinishReshard(x) PROVE KinesisInv'
<1>1. PICK range : range = admins[x].range OBVIOUS
<1>2. PICK t \in {clock, 1} :
        /\ shards' = [a \in ShardIds |->
              IF a[1] = stream.inc /\ a[2] - stream.next + 1 \in DOMAIN range
              THEN Spawned(range[a[2] - stream.next + 1], a[2], t) ELSE shards[a]]
        /\ clock' = t
  BY <1>1 DEF FinishReshard
<1>3. stream' = [stream EXCEPT !.closed = @ \o admins[x].parents,
                               !.active = @ \o [i \in DOMAIN range |-> stream.next + i - 1],
                               !.next = @ + Len(range)]
  BY <1>1 DEF FinishReshard
<1>4. /\ guard = x /\ admins[x].todo = <<>> /\ guard' = NoTaskId
      /\ admins' = [admins EXCEPT ![x] = NoOp]
      /\ UNCHANGED <<puts, readers, blocked, arrivals, orphans>>
  BY DEF FinishReshard
<1>5. PICK inc, next, act : inc = stream.inc /\ next = stream.next /\ act = stream.active OBVIOUS
<1>6. /\ stream \in StreamEntry /\ act \in Seq(Indices) /\ stream.closed \in Seq(Indices)
      /\ inc \in 0..MaxStreams /\ next \in 0..MaxShards
  BY <1>5 DEF KinesisInv, KinesisTypes, StreamEntry
<1>7. /\ Resharding(x) /\ guard # NoTaskId
      /\ Covers(Active, stream.inc, ToSet(range)) /\ Apart(Active, stream.inc, ToSet(range))
  BY <1>1, <1>4, Bounds DEF KinesisInv, SpaceInv
<1>8. /\ range \in Seq(Keys \X Keys) /\ DOMAIN range = 1..Len(range) /\ Len(range) \in Nat
      /\ Len(range) > 0 /\ next + Len(range) <= MaxShards
      /\ \A k \in 1..Len(range) : /\ range[k] \in ToSet(range)
                                  /\ range[k] = <<range[k][1], range[k][2]>>
                                  /\ range[k][1] \in Keys /\ range[k][2] \in Keys
                                  /\ range[k][1] <= range[k][2]
  <2>1. range \in Seq(Keys \X Keys) BY <1>1 DEF KinesisInv, KinesisTypes, AdminWork
  <2>2. DOMAIN range = 1..Len(range) /\ Len(range) \in Nat
        /\ \A k \in 1..Len(range) : range[k] \in Keys \X Keys
    BY <2>1
  <2>3. \A k \in 1..Len(range) : range[k] \in ToSet(range) BY <2>1, SetOf
  <2>4. \A r \in ToSet(range) : r[1] <= r[2] BY <1>1, <1>7 DEF Resharding
  <2>5. Len(range) > 0 /\ next + Len(range) <= MaxShards BY <1>1, <1>5, <1>7 DEF Resharding
  <2>6. ASSUME NEW k \in 1..Len(range)
        PROVE  range[k] = <<range[k][1], range[k][2]>> /\ range[k][1] \in Keys /\ range[k][2] \in Keys
    BY <2>2
  <2> QED BY <2>1, <2>2, <2>3, <2>4, <2>5, <2>6
<1>9. inc \in 1..MaxStreams /\ inc \in Nat
  <2>1. inc # 0 BY <1>5, <1>7 DEF Resharding, KinesisInv, StreamInv
  <2> QED BY <1>6, <2>1, Bounds
<1>10. MaxShards \in Nat /\ HashMax \in Nat /\ next \in Nat BY <1>6, Bounds
<1>11. PICK new : new = {a \in ShardIds : a[1] = inc /\ a[2] >= next /\ a[2] < next + Len(range)} OBVIOUS
<1>12. \A a \in ShardIds : a[1] \in Nat /\ a[2] \in Nat /\ a[2] < MaxShards /\ a = <<a[1], a[2]>>
  BY ShardTypes, <1>10, Bounds DEF KinesisInv, Indices
<1>13. \A k \in 1..Len(range) : <<inc, next + k - 1>> \in new
  <2> SUFFICES ASSUME NEW k \in 1..Len(range) PROVE <<inc, next + k - 1>> \in new OBVIOUS
  <2>1. next + k - 1 \in 0..(MaxShards - 1) /\ next + k - 1 >= next /\ next + k - 1 < next + Len(range)
    BY <1>8, <1>10
  <2>2. <<inc, next + k - 1>> \in ShardIds BY <1>9, <2>1 DEF ShardIds
  <2> QED BY <1>11, <2>1, <2>2
<1>14. \A a \in new : a \in ShardIds /\ a[2] - next + 1 \in 1..Len(range) /\ ~Born(a)
  <2> SUFFICES ASSUME NEW a \in new
               PROVE  a \in ShardIds /\ a[2] - next + 1 \in 1..Len(range) /\ ~Born(a)
    OBVIOUS
  <2>1. a \in ShardIds /\ a[1] = inc /\ a[2] >= next /\ a[2] < next + Len(range) BY <1>11
  <2>2. a[2] - next + 1 \in 1..Len(range) BY <1>8, <1>10, <1>12, <2>1
  <2>3. ~Born(a) BY <1>5, <1>10, <1>12, <2>1 DEF KinesisInv, StreamInv
  <2> QED BY <2>1, <2>2, <2>3
<1>15. ASSUME NEW a \in ShardIds
       PROVE  IF a \in new THEN shards'[a] = Spawned(range[a[2] - next + 1], a[2], t)
              ELSE shards'[a] = shards[a]
  <2>1. shards'[a] = IF a[1] = inc /\ a[2] - next + 1 \in 1..Len(range)
                     THEN Spawned(range[a[2] - next + 1], a[2], t) ELSE shards[a]
    BY <1>2, <1>5, <1>8
  <2>2. a \in new <=> a[1] = inc /\ a[2] - next + 1 \in 1..Len(range)
    BY <1>8, <1>10, <1>11, <1>12
  <2> QED BY <2>1, <2>2
<1>16. t \in {0, 1} /\ clock <= t /\ clock \in {0, 1} BY DEF KinesisInv, KinesisTypes
<1>17. ASSUME NEW a \in new
       PROVE  /\ shards'[a] \in Shard /\ shards'[a].st = "open" /\ shards'[a].prefix = <<t, a[2]>>
              /\ shards'[a].records = <<>> /\ shards'[a].trim = 0 /\ shards'[a].commands = <<>>
              /\ shards'[a].lo <= shards'[a].hi /\ shards'[a].hi <= HashMax
              /\ \A key \in Keys : contains(shards'[a], key) <=> Within(range[a[2] - next + 1], key)
  <2>1. PICK k \in 1..Len(range) : k = a[2] - next + 1 BY <1>14
  <2>2. PICK lo \in Keys, hi \in Keys : range[k] = <<lo, hi>> /\ lo <= hi BY <1>8
  <2>3. a \in ShardIds /\ a[2] \in Indices BY <1>14, ShardTypes DEF KinesisInv
  <2>4. shards'[a] = Spawned(<<lo, hi>>, a[2], t) BY <1>15, <2>1, <2>2, <2>3
  <2>5. /\ shards'[a] \in Shard /\ shards'[a].st = "open" /\ shards'[a].lo = lo /\ shards'[a].hi = hi
        /\ shards'[a].prefix = <<t, a[2]>> /\ shards'[a].records = <<>> /\ shards'[a].trim = 0
        /\ shards'[a].commands = <<>>
    BY <1>16, <2>3, <2>4, SpawnedIs
  <2>6. hi <= HashMax BY <1>10 DEF Keys
  <2>7. \A key \in Keys : contains(shards'[a], key) <=> Within(range[k], key)
    BY <2>2, <2>5 DEF contains, Within
  <2> QED BY <2>1, <2>2, <2>5, <2>6, <2>7
<1>18. shards' \in [ShardIds -> Shard]
  <2>1. \A a \in ShardIds : shards'[a] \in Shard
    BY <1>15, <1>17 DEF KinesisInv, KinesisTypes
  <2> QED BY <1>2, <2>1
<1>19. \A a \in ShardIds : Born(a)' <=> Born(a) \/ a \in new BY <1>15, <1>17 DEF Born
<1>20. Grown
  <2>1. ASSUME NEW a \in ShardIds
        PROVE  IF Born(a) \/ shards'[a] = shards[a] THEN shards'[a] = shards[a]
               ELSE /\ shards'[a].st = "open" /\ shards'[a].records = <<>> /\ shards'[a].trim = 0
                    /\ shards'[a].commands = <<>> /\ shards'[a].prefix = <<clock', a[2]>>
                    /\ shards'[a].lo <= shards'[a].hi /\ shards'[a].hi <= HashMax
    <3>1. CASE a \in new BY <1>2, <1>14, <1>17, <3>1
    <3>2. CASE a \notin new BY <1>15, <3>2
    <3> QED BY <3>1, <3>2
  <2>2. ASSUME NEW a \in ShardIds, NEW b \in ShardIds, ~Born(a), Born(a)', Born(b), a[1] = b[1]
        PROVE  b[2] < a[2]
    <3>1. a \in new BY <1>19, <2>2
    <3>2. a[1] = inc /\ a[2] >= next BY <1>11, <3>1
    <3>3. b[2] < next BY <1>5, <2>2, <3>2 DEF KinesisInv, StreamInv
    <3> QED BY <1>10, <1>12, <3>2, <3>3
  <2>3. clock' \in {0, 1} /\ clock <= clock' BY <1>2, <1>16
  <2>4. UNCHANGED orphans BY <1>4
  <2> QED BY <1>18, <2>1, <2>2, <2>3, <2>4, Zenon DEF Grown
<1>21. /\ admins' \in [Admins -> AdminWork]
       /\ admins'[x] = NoOp /\ \A y \in Admins : y # x => admins'[y] = admins[y]
  BY <1>4, NoOpIsGood DEF KinesisInv, KinesisTypes
<1>22. /\ admins[x].parents \in Seq(Indices)
       /\ \A i \in ToSet(admins[x].parents) :
            /\ i \in Indices /\ i < next /\ i \notin ToSet(act)
            /\ <<inc, i>> \in Parents(x)
  <2>1. admins[x].parents \in Seq(Indices) BY DEF KinesisInv, KinesisTypes, AdminWork
  <2>2. ASSUME NEW i \in ToSet(admins[x].parents)
        PROVE  i \in Indices /\ i < next /\ i \notin ToSet(act) /\ <<inc, i>> \in Parents(x)
    <3>1. i \in Indices BY <2>1, SetOf
    <3>2. <<inc, i>> \in Parents(x) BY <1>5 DEF Parents
    <3>3. <<inc, i>> \in ShardIds BY <1>9, <3>1 DEF ShardIds, Indices
    <3>4. Born(<<inc, i>>) /\ <<inc, i>> \notin Handles BY <1>7, <3>2 DEF Resharding
    <3>5. i < next BY <1>5, <3>3, <3>4 DEF KinesisInv, StreamInv
    <3>6. i \notin ToSet(act) BY <1>5, <3>4 DEF Handles, Active
    <3> QED BY <3>1, <3>2, <3>5, <3>6
  <2> QED BY <2>1, <2>2
<1>23. PICK more : more = [i \in DOMAIN range |-> next + i - 1] OBVIOUS
<1>24. /\ more \in Seq(Indices) /\ Len(more) = Len(range)
       /\ \A i \in 1..Len(range) : more[i] = next + i - 1
  <2>1. more = [i \in 1..Len(range) |-> next + i - 1] BY <1>8, <1>23
  <2>2. \A i \in 1..Len(range) : next + i - 1 \in Indices BY <1>8, <1>10 DEF Indices
  <2>3. \A i \in 1..Len(range) : more[i] = next + i - 1 /\ more[i] \in Indices BY <2>1, <2>2
  <2> QED BY <1>8, <2>1, <2>3
<1>25. PICK all : all = act \o more OBVIOUS
<1>26. all \in Seq(Indices) /\ \A i : i \in ToSet(all) <=> i \in ToSet(act) \/ i \in ToSet(more)
  BY <1>6, <1>24, <1>25, SetOfBoth
<1>27. PICK over : over = stream.closed \o admins[x].parents OBVIOUS
<1>28. /\ over \in Seq(Indices)
       /\ \A i : i \in ToSet(over) <=> i \in ToSet(stream.closed) \/ i \in ToSet(admins[x].parents)
  BY <1>6, <1>22, <1>27, SetOfBoth
<1>29. /\ stream'.inc = inc /\ stream'.next = next + Len(range) /\ stream'.active = all
       /\ stream'.closed = over /\ stream' \in StreamEntry
  <2>1. stream' = [stream EXCEPT !.closed = over, !.active = all, !.next = next + Len(range)]
    BY <1>3, <1>5, <1>23, <1>25, <1>27
  <2>2. next + Len(range) \in 0..MaxShards BY <1>8, <1>10
  <2> QED BY <1>5, <1>6, <1>26, <1>28, <2>1, <2>2 DEF StreamEntry
<1>30. \A a : a \in Active' <=> a \in Active \/ a \in new
  <2>1. \A a : a \in Active' <=> \E i \in ToSet(all) : a = <<inc, i>> BY <1>29 DEF Active
  <2>2. \A a : a \in Active <=> \E i \in ToSet(act) : a = <<inc, i>> BY <1>5 DEF Active
  <2>3. \A a : a \in new <=> \E i \in ToSet(more) : a = <<inc, i>>
    <3>1. \A i : i \in ToSet(more) <=> \E k \in 1..Len(range) : i = next + k - 1
      BY <1>24, SetOf
    <3>2. ASSUME NEW a \in new PROVE \E i \in ToSet(more) : a = <<inc, i>>
      <4>1. a \in ShardIds /\ a[1] = inc /\ a[2] - next + 1 \in 1..Len(range) BY <1>11, <1>14
      <4>2. PICK k \in 1..Len(range) : k = a[2] - next + 1 BY <4>1
      <4>3. a[2] = next + k - 1 BY <1>10, <1>12, <4>1, <4>2
      <4> QED BY <1>12, <3>1, <4>1, <4>3
    <3> QED BY <1>13, <3>1, <3>2
  <2> QED BY <1>26, <2>1, <2>2, <2>3
<1>31. OwnersKept
  <2>1. \A y \in Admins : StopFree(y) \/ (admins'[y] = admins[y] /\ guard # y)
    BY <1>4, <1>21 DEF StopFree
  <2>2. \A a : a \in Handles' => a \in Handles \/ a \in new \/ a \in Parents(x)
    <3>1. Handles' = Active' \cup {<<inc, i>> : i \in ToSet(over)} BY <1>29 DEF Handles
    <3>2. ASSUME NEW i \in ToSet(over) PROVE <<inc, i>> \in Handles \/ <<inc, i>> \in Parents(x)
      BY <1>5, <1>22, <1>28 DEF Handles
    <3>3. Active \subseteq Handles BY DEF Handles
    <3> QED BY <1>30, <3>1, <3>2, <3>3
  <2>3. ASSUME NEW y \in Admins
        PROVE  Parents(y)' \subseteq Parents(y) /\ ToSet(admins'[y].todo) \subseteq ToSet(admins[y].todo)
    <3>1. ToSet(<<>>) = {} BY DEF ToSet
    <3>2. CASE y = x BY <1>21, <3>1, <3>2, NoOpIsGood DEF Parents
    <3>3. CASE y # x BY <1>5, <1>21, <1>29, <3>3 DEF Parents
    <3> QED BY <3>2, <3>3
  <2>4. ForsakenKept
    <3> SUFFICES ASSUME NEW a \in ShardIds, NEW y \in Admins, Born(a), Forsaken(a, y)
                 PROVE  Forsaken(a, y)'
      BY DEF ForsakenKept
    <3>1. a \notin new BY <1>14
    <3> QED BY <2>2, <2>3, <3>1 DEF Forsaken
  <2> QED BY <1>4, <2>1, <2>4 DEF OwnersKept
<1>32. KinesisTypes'
  BY <1>2, <1>4, <1>16, <1>18, <1>21, <1>29 DEF KinesisInv, KinesisTypes
<1>33. StreamInv'
  <2>1. PICK k \in 0..MaxStreams : Numbered(k) BY DEF KinesisInv, StreamInv
  <2>2. k \in Nat /\ inc <= k + 1 BY <1>5, <1>9, <2>1, Bounds DEF Numbered
  <2>3. PICK n \in 0..MaxStreams : n = IF inc <= k THEN k ELSE inc BY <1>9, Bounds
  <2>4. n \in Nat /\ k <= n /\ inc <= n /\ (n = k \/ n = inc) /\ n <= k + 1 BY <1>9, <2>2, <2>3
  <2>5. ASSUME NEW a \in ShardIds, Born(a)' PROVE a[1] <= n
    <3>1. a[1] <= k \/ a[1] = inc BY <1>11, <1>19, <2>1, <2>5 DEF Numbered
    <3> QED BY <1>9, <1>12, <2>2, <2>4, <3>1
  <2>6. ASSUME NEW j \in 1..n PROVE \E a \in ShardIds : a[1] = j /\ Born(a)'
    <3>1. CASE j <= k
      <4>1. j \in 1..k BY <2>2, <3>1
      <4>2. PICK a \in ShardIds : a[1] = j /\ Born(a) BY <2>1, <4>1 DEF Numbered
      <4> QED BY <1>19, <4>2
    <3>2. CASE j > k
      <4>1. j = inc BY <1>9, <2>2, <2>4, <3>2
      <4>2. 1 \in 1..Len(range) BY <1>8
      <4>3. PICK a \in new : a \in ShardIds BY <1>13, <1>14, <4>2
      <4> QED BY <1>11, <1>19, <4>1, <4>3
    <3> QED BY <2>2, <2>4, <3>1, <3>2
  <2>7. Numbered(n)'
    <3>1. stream'.inc <= n BY <1>29, <2>4
    <3>2. \A j \in 1..n : \E a \in ShardIds : a[1] = j /\ Born(a)' BY <2>6
    <3> QED BY <2>5, <3>1, <3>2 DEF Numbered
  <2>8. ASSUME NEW a \in ShardIds, a[1] = inc
        PROVE  Born(a)' <=> a[2] < next + Len(range)
    <3>1. Born(a) <=> a[2] < next BY <1>5, <2>8 DEF KinesisInv, StreamInv
    <3>2. a \in new <=> a[2] >= next /\ a[2] < next + Len(range) BY <1>11, <2>8
    <3> QED BY <1>8, <1>10, <1>12, <1>19, <3>1, <3>2
  <2>9. ASSUME NEW i \in ToSet(all) \cup ToSet(over) PROVE i < next + Len(range)
    <3>1. CASE i \in ToSet(act) \cup ToSet(stream.closed) \cup ToSet(admins[x].parents)
      <4>1. i < next BY <1>5, <1>22, <3>1 DEF KinesisInv, StreamInv
      <4>2. i \in Nat
        <5>1. i \in Indices BY <1>6, <1>22, <3>1, SetOf
        <5> QED BY <5>1 DEF Indices
      <4> QED BY <1>8, <1>10, <4>1, <4>2
    <3>2. CASE i \in ToSet(more)
      <4>1. PICK m \in 1..Len(range) : i = next + m - 1 BY <1>24, <3>2, SetOf
      <4> QED BY <1>8, <1>10, <4>1
    <3> QED BY <1>26, <1>28, <2>9, <3>1, <3>2
  <2>10. ASSUME NEW i \in ToSet(all), i \in ToSet(over) PROVE FALSE
    <3>1. CASE i \in ToSet(act)
      <4>1. i \in ToSet(stream.closed) BY <1>22, <1>28, <2>10, <3>1
      <4> QED BY <1>5, <3>1, <4>1 DEF KinesisInv, StreamInv
    <3>2. CASE i \in ToSet(more)
      <4>1. PICK m \in 1..Len(range) : i = next + m - 1 BY <1>24, <3>2, SetOf
      <4>2. i >= next BY <1>8, <1>10, <4>1
      <4>3. i < next BY <1>5, <1>22, <1>28, <2>10 DEF KinesisInv, StreamInv
      <4> QED BY <1>8, <1>10, <4>1, <4>2, <4>3
    <3> QED BY <1>26, <2>10, <3>1, <3>2
  <2>11. \A a \in orphans' : Born(a)'
    BY <1>4, <1>19 DEF KinesisInv, KinesisTypes, StreamInv
  <2>12. stream'.inc # 0 BY <1>9, <1>29
  <2>13. \A i \in ToSet(stream'.active) \cup ToSet(stream'.closed) : i < stream'.next
    BY <1>29, <2>9
  <2>14. ToSet(stream'.active) \cap ToSet(stream'.closed) = {} BY <1>29, <2>10
  <2>15. \A a \in ShardIds : a[1] = stream'.inc => (Born(a)' <=> a[2] < stream'.next)
    BY <1>29, <2>8
  <2>16. \E m \in 0..MaxStreams : Numbered(m)' BY <2>7
  <2> QED BY <2>11, <2>12, <2>13, <2>14, <2>15, <2>16 DEF StreamInv
<1>34. ASSUME NEW a \in new, NEW b \in ShardIds, NEW key \in Keys, a[1] = b[1],
              shards'[b].st = "open", contains(shards'[a], key), contains(shards'[b], key)
       PROVE  a = b
  <2>1. a \in ShardIds /\ a[1] = inc /\ a[2] - next + 1 \in 1..Len(range) BY <1>11, <1>14
  <2>2. Within(range[a[2] - next + 1], key) BY <1>17, <1>34
  <2>3. CASE b \in new
    <3>1. b[2] - next + 1 \in 1..Len(range) BY <1>14, <2>3
    <3>2. Within(range[b[2] - next + 1], key) BY <1>17, <1>34, <2>3
    <3>3. a[2] - next + 1 = b[2] - next + 1
      BY <1>1, <1>7, <1>8, <2>1, <2>2, <3>1, <3>2 DEF Resharding
    <3>4. a[2] = b[2] BY <1>10, <1>12, <2>1, <3>3
    <3> QED BY <1>12, <1>34, <2>1, <3>4
  <2>4. CASE b \notin new
    <3>1. shards'[b] = shards[b] BY <1>15, <2>4
    <3>2. range[a[2] - next + 1] \in ToSet(range) BY <1>8, <2>1
    <3>3. b \in ToSet(admins[x].todo)
      BY <1>1, <1>5, <1>7, <1>34, <2>1, <2>2, <3>1, <3>2 DEF Resharding
    <3>4. ToSet(<<>>) = {} BY DEF ToSet
    <3> QED BY <1>4, <3>3, <3>4
  <2> QED BY <2>3, <2>4
<1>35. Disjoint'
  <2> SUFFICES ASSUME NEW a \in ShardIds, NEW b \in ShardIds, NEW key \in Keys, a[1] = b[1],
                      shards'[a].st = "open", shards'[b].st = "open",
                      contains(shards'[a], key), contains(shards'[b], key)
               PROVE  a = b
    BY DEF Disjoint
  <2>1. CASE a \in new BY <1>34, <2>1
  <2>2. CASE b \in new BY <1>34, <2>2
  <2>3. CASE a \notin new /\ b \notin new
    <3>1. shards'[a] = shards[a] /\ shards'[b] = shards[b] BY <1>15, <2>3
    <3> QED BY <3>1 DEF KinesisInv, Disjoint
  <2> QED BY <2>1, <2>2, <2>3
<1>36. SpaceInv'
  <2>1. \A a \in Active : a \in ShardIds /\ Born(a) BY HandlesBorn DEF KinesisInv
  <2>2. \A a \in Active : a \notin new /\ shards'[a] = shards[a] BY <1>14, <1>15, <2>1
  <2>3. \A a \in Active' : shards'[a].st = "open"
    BY <1>17, <1>30, <2>2 DEF KinesisInv, SpaceInv
  <2>4. ASSUME NEW key \in Keys, key \notin LostKeys(inc)
        PROVE  \E a \in Active' : contains(shards'[a], key)
    <3>1. CASE \E a \in Active : contains(shards[a], key)
      BY <1>30, <2>2, <3>1
    <3>2. CASE \E r \in ToSet(range) : Within(r, key)
      <4>1. PICK r \in ToSet(range) : Within(r, key) BY <3>2
      <4>2. PICK k \in 1..Len(range) : range[k] = r BY <1>8, <4>1, SetOf
      <4>3. PICK a \in new : a = <<inc, next + k - 1>> BY <1>13
      <4>4. a[2] - next + 1 = k BY <1>10, <4>3
      <4>5. contains(shards'[a], key) BY <1>17, <4>1, <4>2, <4>4
      <4> QED BY <1>30, <4>5
    <3> QED BY <1>5, <1>7, <2>4, <3>1, <3>2 DEF Covers
  <2>5. LostKeys(inc)' = LostKeys(inc) BY <1>20, GrownLost
  <2>6. LostKeys(stream.inc)' = LostKeys(inc) BY <1>29, <2>5 DEF LostKeys
  <2>7. Covers(Active, stream.inc, {})' BY <2>4, <2>6 DEF Covers
  <2>8. ASSUME NEW key \in LostKeys(inc), NEW a \in Active' PROVE ~contains(shards'[a], key)
    <3>1. key \in Keys BY <2>8 DEF LostKeys, Keys
    <3>2. CASE a \in Active BY <1>5, <1>7, <2>2, <2>8, <3>2 DEF Apart
    <3>3. CASE a \in new
      <4>1. PICK m \in 1..Len(range) : m = a[2] - next + 1 BY <1>14, <3>3
      <4>2. range[m] \in ToSet(range) BY <1>8
      <4>3. ~Within(range[m], key) BY <1>5, <1>7, <2>8, <4>2 DEF Apart
      <4> QED BY <1>17, <3>1, <3>3, <4>1, <4>3
    <3> QED BY <1>30, <2>8, <3>2, <3>3
  <2>9. Apart(Active, stream.inc, {})' BY <2>6, <2>8 DEF Apart
  <2>10. \A y \in Admins : admins'[y].op \notin {"split", "merge"}
    BY <1>4, <1>21, NoOpIsGood DEF KinesisInv, SpaceInv
  <2> QED BY <1>4, <2>3, <2>7, <2>10, <2>9 DEF SpaceInv
<1>37. ASSUME NEW y \in Admins PROVE AdminInv(y)'
  <2>1. CASE y = x BY <1>21, <2>1, NoOpIsGood DEF AdminInv
  <2>2. CASE y # x
    <3>1. ToSet(admins[y].todo) \subseteq ShardIds
      BY SetOf DEF KinesisInv, KinesisTypes, AdminWork
    <3>2. AdminInv(y) BY DEF KinesisInv
    <3> QED BY <1>5, <1>19, <1>21, <1>29, <2>2, <3>1, <3>2 DEF AdminInv
  <2> QED BY <2>1, <2>2
<1>38. /\ (\A a \in ShardIds : ShardInv(a)') /\ RecordsInv'
       /\ (\A c \in PutCalls : PutInv(puts[c])')
       /\ (\A r \in Readers : ReaderInv(r)')
       /\ (\A a \in ShardIds : CommandsInv(a)')
       /\ (\A a \in ShardIds : LogInv(a)')
       /\ (\A r \in Readers : ProgressInv(r)')
  BY <1>4, <1>20, <1>31, GrownKeeps
<1> QED BY <1>32, <1>33, <1>35, <1>36, <1>37, <1>38 DEF KinesisInv

\* divide_evenly: ranges that do not overlap and leave no key out.
LEMMA EvenRanges ==
    ASSUME NEW n \in ShardCounts, n > 0
    PROVE  /\ \A i \in 0..(n - 1) : /\ RangeOf(n, i) = <<RangeOf(n, i)[1], RangeOf(n, i)[2]>>
                                    /\ RangeOf(n, i)[1] \in Keys /\ RangeOf(n, i)[2] \in Keys
                                    /\ RangeOf(n, i)[1] <= RangeOf(n, i)[2]
           /\ \A i, j \in 0..(n - 1) : \A key \in Keys :
                 Within(RangeOf(n, i), key) /\ Within(RangeOf(n, j), key) => i = j
           /\ \A key \in Keys : \E i \in 0..(n - 1) : Within(RangeOf(n, i), key)
<1>1. n \in Nat /\ n > 0 /\ HashMax \in Nat BY Bounds
<1>2. PICK q \in Nat : q = HashMax \div n BY <1>1
<1>3. PICK w \in Nat : w = q + 1 /\ w > 0 BY <1>2
<1>4. (n - 1) * w <= HashMax BY <1>1, <1>2, <1>3, KinesisAssumption
<1>5. ASSUME NEW i \in Nat, NEW j \in Nat, i <= j PROVE i * w <= j * w
  <2>1. PICK d \in Nat : j = i + d BY <1>5
  <2>2. j * w = i * w + d * w /\ d * w >= 0 /\ i * w \in Nat /\ d * w \in Nat BY <1>3, <2>1
  <2> QED BY <2>2
<1>6. ASSUME NEW i \in 0..(n - 1)
      PROVE  /\ RangeOf(n, i) = <<i * w, IF i = n - 1 THEN HashMax ELSE (i + 1) * w - 1>>
             /\ i * w \in Nat /\ i * w <= HashMax
             /\ (i + 1) * w \in Nat /\ (i + 1) * w = i * w + w
             /\ i # n - 1 => (i + 1) * w <= HashMax
  <2>1. i \in Nat /\ i + 1 \in Nat /\ i <= n - 1 BY <1>1
  <2>2. i * w = q * i + i BY <1>2, <1>3, <2>1
  <2>3. (i + 1) * w - 1 = q * (i + 1) + i BY <1>2, <1>3, <2>1
  <2>4. i = 0 => i * w = 0 BY <1>3
  <2>5. RangeOf(n, i) = <<i * w, IF i = n - 1 THEN HashMax ELSE (i + 1) * w - 1>>
    <3>1. RangeOf(n, i) = <<IF i = 0 THEN 0 ELSE q * i + i,
                            IF i = n - 1 THEN HashMax ELSE q * (i + 1) + i>>
      BY <1>2 DEF RangeOf
    <3> QED BY <2>2, <2>3, <2>4, <3>1
  <2>6. i * w \in Nat /\ (i + 1) * w \in Nat /\ (i + 1) * w = i * w + w BY <1>3, <2>1
  <2>7. (n - 1) * w \in Nat /\ n - 1 \in Nat BY <1>1, <1>3
  <2>8. i * w <= HashMax
    <3>1. i * w <= (n - 1) * w BY <1>5, <2>1, <2>7
    <3> QED BY <1>1, <1>4, <2>6, <2>7, <3>1
  <2>9. ASSUME i # n - 1 PROVE (i + 1) * w <= HashMax
    <3>1. i + 1 <= n - 1 BY <1>1, <2>1, <2>9
    <3>2. (i + 1) * w <= (n - 1) * w BY <1>5, <2>1, <2>7, <3>1
    <3> QED BY <1>1, <1>4, <2>6, <2>7, <3>2
  <2> QED BY <2>5, <2>6, <2>8, <2>9
<1>7. ASSUME NEW i \in 0..(n - 1)
      PROVE  \E lo \in Keys, hi \in Keys :
                /\ RangeOf(n, i) = <<lo, hi>> /\ lo <= hi /\ lo = i * w
                /\ hi = IF i = n - 1 THEN HashMax ELSE (i + 1) * w - 1
  <2>1. PICK lo \in Nat, u \in Nat :
           lo = i * w /\ u = (i + 1) * w /\ u = lo + w /\ lo <= HashMax
           /\ (i # n - 1 => u <= HashMax)
    BY <1>6
  <2>2. PICK hi : hi = IF i = n - 1 THEN HashMax ELSE u - 1 OBVIOUS
  <2>3. lo \in Keys /\ hi \in Keys /\ lo <= hi BY <1>1, <1>3, <2>1, <2>2 DEF Keys
  <2>4. RangeOf(n, i) = <<lo, hi>> BY <1>6, <2>1, <2>2
  <2> QED BY <2>1, <2>2, <2>3, <2>4
<1>8. ASSUME NEW i \in 0..(n - 1)
      PROVE  /\ RangeOf(n, i) = <<RangeOf(n, i)[1], RangeOf(n, i)[2]>>
             /\ RangeOf(n, i)[1] \in Keys /\ RangeOf(n, i)[2] \in Keys
             /\ RangeOf(n, i)[1] <= RangeOf(n, i)[2]
  <2>1. PICK lo \in Keys, hi \in Keys : RangeOf(n, i) = <<lo, hi>> /\ lo <= hi BY <1>7
  <2> QED BY <2>1
<1>9. \A key \in Keys : key \in Nat /\ key <= HashMax BY <1>1 DEF Keys
<1>10. ASSUME NEW i \in 0..(n - 1), NEW j \in 0..(n - 1), NEW key \in Keys, i < j,
              Within(RangeOf(n, i), key), Within(RangeOf(n, j), key)
       PROVE  FALSE
  <2>1. i \in Nat /\ j \in Nat /\ i # n - 1 /\ i + 1 <= j BY <1>1, <1>10
  <2>2. PICK u \in Nat, v \in Nat : u = (i + 1) * w /\ v = j * w /\ u <= v
    <3>1. (i + 1) * w \in Nat /\ j * w \in Nat BY <1>6
    <3>2. (i + 1) * w <= j * w BY <1>5, <2>1
    <3> QED BY <3>1, <3>2
  <2>3. key <= u - 1
    <3>1. RangeOf(n, i)[2] = u - 1
      <4>1. PICK lo, hi : RangeOf(n, i) = <<lo, hi>> /\ hi = u - 1 BY <1>7, <2>1, <2>2
      <4> QED BY <4>1
    <3> QED BY <1>10, <3>1 DEF Within
  <2>4. v <= key
    <3>1. RangeOf(n, j)[1] = v
      <4>1. PICK lo, hi : RangeOf(n, j) = <<lo, hi>> /\ lo = v BY <1>7, <2>2
      <4> QED BY <4>1
    <3> QED BY <1>10, <3>1 DEF Within
  <2> QED BY <1>9, <2>2, <2>3, <2>4
<1>11. ASSUME NEW key \in Keys PROVE \E i \in 0..(n - 1) : Within(RangeOf(n, i), key)
  <2>1. PICK T : T = {i \in 0..(n - 1) : key <= RangeOf(n, i)[2]} OBVIOUS
  <2>2. n - 1 \in T
    <3>1. n - 1 \in 0..(n - 1) BY <1>1
    <3>2. PICK lo, hi : RangeOf(n, n - 1) = <<lo, hi>> /\ hi = HashMax BY <1>7, <3>1
    <3>3. RangeOf(n, n - 1)[2] = HashMax BY <3>2
    <3> QED BY <1>9, <2>1, <3>1, <3>3
  <2>3. PICK i \in T : \A j \in T : i <= j
    <3>1. T \subseteq Nat BY <1>1, <2>1
    <3>2. T # {} BY <2>2
    <3> QED BY <3>1, <3>2, LeastNat
  <2>4. i \in 0..(n - 1) /\ key <= RangeOf(n, i)[2] BY <2>1, <2>3
  <2>5. RangeOf(n, i)[1] = i * w
    <3>1. PICK lo, hi : RangeOf(n, i) = <<lo, hi>> /\ lo = i * w BY <1>7, <2>4
    <3> QED BY <3>1
  <2>6. i * w <= key
    <3>1. CASE i = 0
      <4>1. i * w = 0 BY <1>3, <3>1
      <4> QED BY <1>9, <4>1
    <3>2. CASE i # 0
      <4>1. PICK j \in 0..(n - 1) : i = j + 1 /\ j # n - 1 /\ j \in Nat /\ j < i
        <5>1. i - 1 \in 0..(n - 1) /\ i = (i - 1) + 1 /\ i - 1 # n - 1 /\ i - 1 \in Nat /\ i - 1 < i
          BY <1>1, <2>4, <3>2
        <5> QED BY <5>1
      <4>2. j \notin T BY <2>3, <2>4, <4>1
      <4>3. ~(key <= RangeOf(n, j)[2]) BY <2>1, <4>1, <4>2
      <4>4. PICK lo, hi : RangeOf(n, j) = <<lo, hi>> /\ hi = (j + 1) * w - 1 BY <1>7, <4>1
      <4>5. RangeOf(n, j)[2] = (j + 1) * w - 1 BY <4>4
      <4>6. PICK u \in Nat : u = i * w /\ u = (j + 1) * w BY <1>6, <2>4, <4>1
      <4>7. ~(key <= u - 1) BY <4>3, <4>5, <4>6
      <4>8. u <= key BY <1>9, <4>6, <4>7
      <4> QED BY <4>6, <4>8
    <3> QED BY <3>1, <3>2
  <2>7. Within(RangeOf(n, i), key) BY <2>4, <2>5, <2>6 DEF Within
  <2> QED BY <2>4, <2>7
<1>12. ASSUME NEW i \in 0..(n - 1), NEW j \in 0..(n - 1), NEW key \in Keys,
              Within(RangeOf(n, i), key), Within(RangeOf(n, j), key)
       PROVE  i = j
  <2>1. i \in Nat /\ j \in Nat BY <1>1
  <2>2. ~(i < j) /\ ~(j < i) BY <1>10, <1>12
  <2> QED BY <2>1, <2>2
<1> QED BY <1>8, <1>11, <1>12

\* Incarnations are numbered in their order.
LEMMA FreshIs ==
    ASSUME KinesisTypes, NEW k \in 0..MaxStreams, Numbered(k)
    PROVE  FreshIncarnation = k + 1
<1>1. k \in Nat BY Bounds
<1>2. \A a \in ShardIds : a[1] \in 1..MaxStreams /\ a[1] \in Nat /\ a[1] > 0
  BY ShardTypes, Bounds
<1>3. ASSUME NEW j PROVE j \in Incarnations <=> j \in 1..k
  <2>1. j \in Incarnations <=> \E a \in ShardIds : j = a[1] /\ Born(a)
    BY DEF Incarnations, Born
  <2>2. j \in 1..k => \E a \in ShardIds : j = a[1] /\ Born(a) BY DEF Numbered
  <2>3. ASSUME NEW a \in ShardIds, j = a[1], Born(a) PROVE j \in 1..k
    <3>1. a[1] <= k BY <2>3 DEF Numbered
    <3>2. a[1] \in 1..k BY <1>1, <1>2, <3>1
    <3> QED BY <2>3, <3>2
  <2> QED BY <2>1, <2>2, <2>3
<1>4. Incarnations = 1..k BY <1>3
<1>5. Cardinality(1..k) = k BY <1>1, FS_Interval
<1> QED BY <1>4, <1>5 DEF FreshIncarnation

\* The stream is created, whatever was there when it was looked for.
LEMMA InsertStreamInv == ASSUME KinesisInv, NEW x \in Admins, InsertStream(x) PROVE KinesisInv'
<1>1. PICK inc : inc = FreshIncarnation OBVIOUS
<1>2. PICK n \in ShardCounts, t \in {clock, 1} :
        /\ stream' = [inc |-> inc, active |-> [i \in 1..n |-> i - 1], closed |-> <<>>, next |-> n]
        /\ shards' = [a \in ShardIds |-> IF a[1] = inc /\ a[2] < n
                                         THEN Spawned(RangeOf(n, a[2]), a[2], t) ELSE shards[a]]
        /\ clock' = t
  BY <1>1 DEF InsertStream
<1>3. /\ admins[x].op = "insert" /\ guard = NoTaskId /\ guard' = NoTaskId
      /\ blocked' \subseteq blocked /\ FreshIncarnation <= MaxStreams
      /\ admins' = [admins EXCEPT ![x] = NoOp]
      /\ UNCHANGED <<puts, readers, arrivals, orphans>>
  BY DEF InsertStream, TakesGuard
<1>4. PICK k \in 0..MaxStreams : Numbered(k) BY DEF KinesisInv, StreamInv
<1>5. inc = k + 1 /\ k \in Nat /\ inc \in 1..MaxStreams /\ inc \in Nat
  <2>1. inc = k + 1 BY <1>1, <1>4, FreshIs DEF KinesisInv
  <2> QED BY <1>1, <1>3, <2>1, Bounds
<1>6. n \in Nat /\ n <= MaxShards /\ MaxShards \in Nat /\ HashMax \in Nat BY Bounds
<1>7. \A a \in ShardIds : a[1] \in Nat /\ a[2] \in Nat /\ a[2] < MaxShards /\ a = <<a[1], a[2]>>
  BY ShardTypes, <1>6, Bounds DEF KinesisInv, Indices
<1>8. \A a \in ShardIds : Born(a) => a[1] <= k BY <1>4 DEF Numbered
<1>9. PICK new : new = {a \in ShardIds : a[1] = inc /\ a[2] < n} OBVIOUS
<1>10. \A i \in 0..(n - 1) : <<inc, i>> \in new
  <2> SUFFICES ASSUME NEW i \in 0..(n - 1) PROVE <<inc, i>> \in new OBVIOUS
  <2>1. i \in 0..(MaxShards - 1) /\ i < n BY <1>6
  <2>2. <<inc, i>> \in ShardIds BY <1>5, <2>1 DEF ShardIds
  <2> QED BY <1>9, <2>1, <2>2
<1>11. \A a \in new : a \in ShardIds /\ a[2] \in 0..(n - 1) /\ ~Born(a)
  <2> SUFFICES ASSUME NEW a \in new PROVE a \in ShardIds /\ a[2] \in 0..(n - 1) /\ ~Born(a)
    OBVIOUS
  <2>1. a \in ShardIds /\ a[1] = inc /\ a[2] < n BY <1>9
  <2> QED BY <1>5, <1>6, <1>7, <1>8, <2>1
<1>12. \A a \in ShardIds : IF a \in new THEN shards'[a] = Spawned(RangeOf(n, a[2]), a[2], t)
                           ELSE shards'[a] = shards[a]
  BY <1>2, <1>9
<1>13. t \in {0, 1} /\ clock <= t /\ clock \in {0, 1} BY DEF KinesisInv, KinesisTypes
<1>14. ASSUME NEW a \in new
       PROVE  /\ shards'[a] \in Shard /\ shards'[a].st = "open" /\ shards'[a].prefix = <<t, a[2]>>
              /\ shards'[a].records = <<>> /\ shards'[a].trim = 0 /\ shards'[a].commands = <<>>
              /\ shards'[a].lo <= shards'[a].hi /\ shards'[a].hi <= HashMax
              /\ \A key \in Keys : contains(shards'[a], key) <=> Within(RangeOf(n, a[2]), key)
  <2>1. PICK i \in 0..(n - 1) : i = a[2] BY <1>11
  <2>2. n > 0 BY <1>6, <2>1
  <2>3. PICK range : range = RangeOf(n, i) OBVIOUS
  <2>4. PICK lo \in Keys, hi \in Keys : range = <<lo, hi>> /\ lo <= hi
    BY <2>2, <2>3, EvenRanges
  <2>5. a \in ShardIds /\ a[2] \in Indices BY <1>11, ShardTypes DEF KinesisInv
  <2>6. shards'[a] = Spawned(<<lo, hi>>, a[2], t) BY <1>12, <2>1, <2>3, <2>4, <2>5
  <2>7. /\ shards'[a] \in Shard /\ shards'[a].st = "open" /\ shards'[a].lo = lo /\ shards'[a].hi = hi
        /\ shards'[a].prefix = <<t, a[2]>> /\ shards'[a].records = <<>> /\ shards'[a].trim = 0
        /\ shards'[a].commands = <<>>
    BY <1>13, <2>5, <2>6, SpawnedIs
  <2>8. hi <= HashMax BY <1>6 DEF Keys
  <2>9. \A key \in Keys : contains(shards'[a], key) <=> Within(range, key)
    BY <2>4, <2>7 DEF contains, Within
  <2> QED BY <2>1, <2>3, <2>4, <2>7, <2>8, <2>9
<1>15. shards' \in [ShardIds -> Shard]
  <2>1. \A a \in ShardIds : shards'[a] \in Shard BY <1>12, <1>14 DEF KinesisInv, KinesisTypes
  <2> QED BY <1>2, <2>1
<1>16. \A a \in ShardIds : Born(a)' <=> Born(a) \/ a \in new BY <1>12, <1>14 DEF Born
<1>17. Grown
  <2>1. ASSUME NEW a \in ShardIds
        PROVE  IF Born(a) \/ shards'[a] = shards[a] THEN shards'[a] = shards[a]
               ELSE /\ shards'[a].st = "open" /\ shards'[a].records = <<>> /\ shards'[a].trim = 0
                    /\ shards'[a].commands = <<>> /\ shards'[a].prefix = <<clock', a[2]>>
                    /\ shards'[a].lo <= shards'[a].hi /\ shards'[a].hi <= HashMax
    <3>1. CASE a \in new BY <1>2, <1>11, <1>14, <3>1
    <3>2. CASE a \notin new BY <1>12, <3>2
    <3> QED BY <3>1, <3>2
  <2>2. ASSUME NEW a \in ShardIds, NEW b \in ShardIds, ~Born(a), Born(a)', Born(b), a[1] = b[1]
        PROVE  b[2] < a[2]
    <3>1. a \in new BY <1>16, <2>2
    <3>2. a[1] = inc BY <1>9, <3>1
    <3>3. b[1] <= k BY <1>8, <2>2
    <3> QED BY <1>5, <1>7, <2>2, <3>2, <3>3
  <2>3. clock' \in {0, 1} /\ clock <= clock' BY <1>2, <1>13
  <2>4. UNCHANGED orphans BY <1>3
  <2> QED BY <1>15, <2>1, <2>2, <2>3, <2>4, Zenon DEF Grown
<1>18. /\ admins' \in [Admins -> AdminWork]
       /\ admins'[x] = NoOp /\ \A y \in Admins : y # x => admins'[y] = admins[y]
  BY <1>3, NoOpIsGood DEF KinesisInv, KinesisTypes
<1>19. admins[x].todo = <<>> BY <1>3 DEF KinesisInv, AdminInv
<1>20. PICK all : all = [i \in 1..n |-> i - 1] OBVIOUS
<1>21. /\ all \in Seq(Indices) /\ Len(all) = n /\ \A i \in 1..n : all[i] = i - 1
       /\ \A i : i \in ToSet(all) <=> i \in 0..(n - 1)
  <2>1. \A i \in 1..n : i - 1 \in Indices BY <1>6 DEF Indices
  <2>2. \A i \in 1..n : all[i] = i - 1 /\ all[i] \in Indices BY <1>20, <2>1
  <2>3. all \in Seq(Indices) /\ Len(all) = n BY <1>6, <1>20, <2>2
  <2>4. \A i : i \in ToSet(all) <=> \E j \in 1..n : all[j] = i BY <2>3, SetOf
  <2>5. \A i : i \in 0..(n - 1) <=> \E j \in 1..n : i = j - 1
    <3>1. ASSUME NEW i \in 0..(n - 1) PROVE \E j \in 1..n : i = j - 1
      <4>1. i + 1 \in 1..n /\ i = (i + 1) - 1 BY <1>6
      <4> QED BY <4>1
    <3>2. \A j \in 1..n : j - 1 \in 0..(n - 1) BY <1>6
    <3> QED BY <3>1, <3>2
  <2> QED BY <2>2, <2>3, <2>4, <2>5
<1>22. /\ stream'.inc = inc /\ stream'.next = n /\ stream'.active = all /\ stream'.closed = <<>>
       /\ stream' \in StreamEntry
  <2>1. stream' = [inc |-> inc, active |-> all, closed |-> <<>>, next |-> n] BY <1>2, <1>20
  <2>2. <<>> \in Seq(Indices) /\ n \in 0..MaxShards /\ inc \in 0..MaxStreams BY <1>5, <1>6, Bounds
  <2> QED BY <1>21, <2>1, <2>2 DEF StreamEntry
<1>23. \A a : a \in Active' <=> a \in new
  <2>1. \A a : a \in Active' <=> \E i \in 0..(n - 1) : a = <<inc, i>>
    BY <1>21, <1>22 DEF Active
  <2>2. ASSUME NEW a \in new PROVE \E i \in 0..(n - 1) : a = <<inc, i>>
    BY <1>7, <1>9, <1>11
  <2> QED BY <1>10, <2>1, <2>2
<1>24. \A y \in Admins : admins[y].op \notin {"split", "merge"} /\ admins[y].parents = <<>>
  <2> SUFFICES ASSUME NEW y \in Admins
               PROVE  admins[y].op \notin {"split", "merge"} /\ admins[y].parents = <<>>
    OBVIOUS
  <2>1. guard # y BY <1>3, Bounds
  <2>2. admins[y].op \notin {"split", "merge"} BY <2>1 DEF KinesisInv, SpaceInv
  <2> QED BY <2>2 DEF KinesisInv, AdminInv
<1>25. OwnersKept
  <2>1. \A y \in Admins : StopFree(y) \/ (admins'[y] = admins[y] /\ guard' = guard)
    BY <1>3, <1>18, <1>19 DEF StopFree
  <2>2. ToSet(<<>>) = {} BY DEF ToSet
  <2>3. Handles' = Active' BY <1>22, <2>2 DEF Handles
  <2>4. ASSUME NEW y \in Admins
        PROVE  Parents(y)' = {} /\ ToSet(admins'[y].todo) \subseteq ToSet(admins[y].todo)
    <3>1. admins'[y].parents = <<>> BY <1>18, <1>24, NoOpIsGood
    <3>2. admins'[y].todo = admins[y].todo BY <1>18, <1>19, NoOpIsGood
    <3> QED BY <2>2, <3>1, <3>2 DEF Parents
  <2>5. ForsakenKept
    <3> SUFFICES ASSUME NEW a \in ShardIds, NEW y \in Admins, Born(a), Forsaken(a, y)
                 PROVE  Forsaken(a, y)'
      BY DEF ForsakenKept
    <3>1. a \notin new BY <1>11
    <3> QED BY <1>23, <2>3, <2>4, <3>1 DEF Forsaken
  <2> QED BY <1>3, <2>1, <2>5 DEF OwnersKept
<1>26. KinesisTypes'
  BY <1>2, <1>3, <1>13, <1>15, <1>18, <1>22 DEF KinesisInv, KinesisTypes
<1>27. \A a \in ShardIds : a[1] = inc => (Born(a)' <=> a[2] < n)
  BY <1>5, <1>7, <1>8, <1>9, <1>16
<1>28. StreamInv'
  <2>1. PICK m \in 0..MaxStreams : m = IF n = 0 THEN k ELSE inc BY <1>5, Bounds
  <2>2. ASSUME NEW a \in ShardIds, Born(a)' PROVE a[1] <= m
    <3>1. CASE Born(a)
      <4>1. a[1] <= k BY <1>8, <3>1
      <4> QED BY <1>5, <1>7, <2>1, <4>1
    <3>2. CASE a \in new
      <4>1. a[1] = inc /\ n # 0 BY <1>6, <1>7, <1>9, <3>2
      <4> QED BY <1>5, <2>1, <4>1
    <3> QED BY <1>16, <2>2, <3>1, <3>2
  <2>3. ASSUME NEW j \in 1..m PROVE \E a \in ShardIds : a[1] = j /\ Born(a)'
    <3>1. CASE j <= k
      <4>1. j \in 1..k BY <1>5, <2>1, <3>1
      <4>2. PICK a \in ShardIds : a[1] = j /\ Born(a) BY <1>4, <4>1 DEF Numbered
      <4> QED BY <1>16, <4>2
    <3>2. CASE j > k
      <4>1. j = inc /\ n # 0 BY <1>5, <2>1, <3>2
      <4>2. 0 \in 0..(n - 1) BY <1>6, <4>1
      <4>3. PICK a \in new : a \in ShardIds BY <1>10, <1>11, <4>2
      <4> QED BY <1>9, <1>16, <4>1, <4>3
    <3> QED BY <1>5, <2>1, <3>1, <3>2
  <2>4. stream'.inc <= m \/ (stream'.inc = m + 1 /\ stream'.next = 0)
    BY <1>5, <1>22, <2>1
  <2>5. Numbered(m)'
    <3>1. \A j \in 1..m : \E a \in ShardIds : a[1] = j /\ Born(a)' BY <2>3
    <3> QED BY <2>2, <2>4, <3>1 DEF Numbered
  <2>6. ASSUME NEW i \in ToSet(all) \cup ToSet(<<>>) PROVE i < n
    <3>1. ToSet(<<>>) = {} BY DEF ToSet
    <3> QED BY <1>6, <1>21, <3>1
  <2>7. ToSet(stream'.active) \cap ToSet(stream'.closed) = {}
    <3>1. ToSet(<<>>) = {} BY DEF ToSet
    <3> QED BY <1>22, <3>1
  <2>8. \A a \in orphans' : Born(a)'
    BY <1>3, <1>16 DEF KinesisInv, KinesisTypes, StreamInv
  <2> QED BY <1>5, <1>22, <1>27, <2>5, <2>6, <2>7, <2>8 DEF StreamInv
<1>29. ASSUME NEW a \in new, NEW b \in ShardIds, NEW key \in Keys, a[1] = b[1],
              shards'[b].st = "open", contains(shards'[a], key), contains(shards'[b], key)
       PROVE  a = b
  <2>1. a \in ShardIds /\ b \in ShardIds /\ a[1] = inc /\ b[1] = inc BY <1>9, <1>11, <1>29
  <2>2. b \in new
    <3>1. Born(b)' BY <1>29 DEF Born
    <3>2. ~Born(b) BY <1>5, <1>7, <1>8, <2>1
    <3> QED BY <1>16, <3>1, <3>2
  <2>3. a[2] \in 0..(n - 1) /\ b[2] \in 0..(n - 1) /\ n > 0 BY <1>6, <1>11, <2>2
  <2>4. Within(RangeOf(n, a[2]), key) /\ Within(RangeOf(n, b[2]), key) BY <1>14, <1>29, <2>2
  <2>5. a[2] = b[2] BY <2>3, <2>4, EvenRanges
  <2> QED BY <1>7, <2>1, <2>5
<1>30. Disjoint'
  <2> SUFFICES ASSUME NEW a \in ShardIds, NEW b \in ShardIds, NEW key \in Keys, a[1] = b[1],
                      shards'[a].st = "open", shards'[b].st = "open",
                      contains(shards'[a], key), contains(shards'[b], key)
               PROVE  a = b
    BY DEF Disjoint
  <2>1. CASE a \in new BY <1>29, <2>1
  <2>2. CASE b \in new BY <1>29, <2>2
  <2>3. CASE a \notin new /\ b \notin new
    <3>1. shards'[a] = shards[a] /\ shards'[b] = shards[b] BY <1>12, <2>3
    <3> QED BY <3>1 DEF KinesisInv, Disjoint
  <2> QED BY <2>1, <2>2, <2>3
<1>31. SpaceInv'
  <2>1. \A a \in Active' : shards'[a].st = "open" BY <1>14, <1>23
  <2>2. Active' = {} \/ Covers(Active, stream.inc, {})'
    <3>1. CASE n = 0
      <4>1. \A a : a \notin new BY <1>6, <1>11, <3>1
      <4> QED BY <1>23, <4>1
    <3>2. CASE n # 0
      <4>1. n > 0 BY <1>6, <3>2
      <4>2. ASSUME NEW key \in Keys PROVE \E a \in Active' : contains(shards'[a], key)
        <5>1. PICK i \in 0..(n - 1) : Within(RangeOf(n, i), key) BY <4>1, EvenRanges
        <5>2. PICK a \in new : a = <<inc, i>> BY <1>10
        <5>3. a[2] = i BY <5>2
        <5>4. contains(shards'[a], key) BY <1>14, <5>1, <5>3
        <5> QED BY <1>23, <5>4
      <4> QED BY <4>2 DEF Covers
    <3> QED BY <3>1, <3>2
  <2>3. \A y \in Admins : admins'[y].op \notin {"split", "merge"}
    BY <1>18, <1>24, NoOpIsGood
  <2>4. LostKeys(stream.inc)' = {}
    <3>1. \A a \in orphans : a \in ShardIds /\ a[1] # inc
      BY <1>5, <1>7, <1>8 DEF KinesisInv, KinesisTypes, StreamInv
    <3> QED BY <1>3, <1>22, <3>1 DEF LostKeys
  <2>5. Apart(Active, stream.inc, {})' BY <2>4 DEF Apart
  <2> QED BY <1>3, <2>1, <2>2, <2>3, <2>5 DEF SpaceInv
<1>32. ASSUME NEW y \in Admins PROVE AdminInv(y)'
  <2>1. CASE y = x BY <1>18, <2>1, NoOpIsGood DEF AdminInv
  <2>2. CASE y # x
    <3>1. ToSet(admins[y].todo) \subseteq ShardIds
      BY SetOf DEF KinesisInv, KinesisTypes, AdminWork
    <3>2. AdminInv(y) BY DEF KinesisInv
    <3>3. \A a \in ShardIds : Born(a) => a[1] # inc BY <1>5, <1>7, <1>8
    <3> QED BY <1>16, <1>18, <1>22, <2>2, <3>1, <3>2, <3>3 DEF AdminInv
  <2> QED BY <2>1, <2>2
<1>33. /\ (\A a \in ShardIds : ShardInv(a)') /\ RecordsInv'
       /\ (\A c \in PutCalls : PutInv(puts[c])')
       /\ (\A r \in Readers : ReaderInv(r)')
       /\ (\A a \in ShardIds : CommandsInv(a)')
       /\ (\A a \in ShardIds : LogInv(a)')
       /\ (\A r \in Readers : ProgressInv(r)')
  BY <1>3, <1>17, <1>25, GrownKeeps
<1> QED BY <1>26, <1>28, <1>30, <1>31, <1>32, <1>33 DEF KinesisInv

-----------------------------------------------------------------------------
(* A control operation is abandoned.                                        *)

\* What it had asked of an actor is answered to nobody.
LEMMA AbandonedCommands ==
    ASSUME KinesisInv, NEW x \in Admins, admins[x].op \in {"delete", "split", "merge"},
           admins' = [admins EXCEPT ![x] = NoOp],
           guard' = IF guard = x THEN NoTaskId ELSE guard,
           UNCHANGED <<stream, shards, puts, readers>>
    PROVE  \A a \in ShardIds : CommandsInv(a)'
<1>1. admins'[x] = NoOp /\ \A y \in Admins : y # x => admins'[y] = admins[y]
  BY DEF KinesisInv, KinesisTypes
<1>2. ToSet(<<>>) = {} BY DEF ToSet
<1>3. \A y \in Admins : /\ ToSet(admins'[y].todo) \subseteq ToSet(admins[y].todo)
                        /\ admins'[y].parents \in {admins[y].parents, <<>>}
  BY <1>1, <1>2, NoOpIsGood
<1>4. ForsakenKept BY <1>3, ForsakenStays
<1>5. ASSUME NEW a \in ToSet(admins[x].todo) PROVE Forsaken(a, x)'
  <2>1. a \notin Handles /\ \A y \in Admins \ {x} : a \notin Parents(y)
    <3>1. CASE admins[x].op = "delete"
      <4>1. a[1] # stream.inc BY <3>1 DEF KinesisInv, AdminInv
      <4> QED BY <4>1 DEF Handles, Active, Parents
    <3>2. CASE admins[x].op \in {"split", "merge"}
      <4>1. guard = x /\ guard # NoTaskId BY <3>2, Bounds DEF KinesisInv, SpaceInv
      <4>2. Resharding(x) BY <4>1 DEF KinesisInv, SpaceInv
      <4>3. a \notin Handles BY <4>2 DEF Resharding
      <4>4. ASSUME NEW y \in Admins \ {x} PROVE Parents(y) = {}
        <5>1. admins[y].op \notin {"split", "merge"} BY <4>1 DEF KinesisInv, SpaceInv
        <5>2. admins[y].parents = <<>> BY <5>1 DEF KinesisInv, AdminInv
        <5> QED BY <1>2, <5>2 DEF Parents
      <4> QED BY <4>3, <4>4
    <3> QED BY <3>1, <3>2
  <2>2. Handles' = Handles BY DEF Handles, Active
  <2>3. Parents(x)' = {} BY <1>1, <1>2, NoOpIsGood DEF Parents
  <2>4. \A y \in Admins \ {x} : Parents(y)' = Parents(y) BY <1>1 DEF Parents
  <2>5. admins'[x].todo = <<>> BY <1>1, NoOpIsGood
  <2> QED BY <1>2, <2>1, <2>2, <2>3, <2>4, <2>5 DEF Forsaken
<1>6. ASSUME NEW a \in ShardIds, NEW i \in 1..Len(shards[a].commands),
             NEW d, d = shards[a].commands[i]
      PROVE  CommandOf(a, d)'
  <2>1. d \in Command /\ CommandOf(a, d) /\ Born(a) BY <1>6, Queued
  <2>2. ASSUME d \in StopCommand PROVE AwaitedBy(a, d)' \/ Forsaken(a, d.from)'
    <3>1. d.from \in Admins BY <2>1, <2>2, CommandKinds
    <3>2. CASE Forsaken(a, d.from) BY <1>4, <2>1, <3>1, <3>2 DEF ForsakenKept
    <3>3. CASE AwaitedBy(a, d) /\ d.from = x
      <4>1. PICK todo \in Seq(ShardIds) : todo = admins[x].todo
        BY DEF KinesisInv, KinesisTypes, AdminWork
      <4>2. todo # <<>> /\ a = Head(todo) BY <3>3, <4>1 DEF AwaitedBy
      <4>3. 1 \in 1..Len(todo) /\ a = todo[1] BY <4>1, <4>2
      <4>4. a \in ToSet(admins[x].todo) BY <4>1, <4>3, SetOf
      <4> QED BY <1>5, <3>3, <4>4
    <3>4. CASE AwaitedBy(a, d) /\ d.from # x
      BY <1>1, <3>1, <3>4 DEF AwaitedBy
    <3> QED BY <2>1, <2>2, <3>2, <3>3, <3>4 DEF CommandOf
  <2>3. Live(a)' <=> Live(a) BY DEF Live
  <2> QED BY <2>1, <2>2, <2>3 DEF CommandOf, Asks
<1>7. ASSUME NEW a \in ShardIds PROVE CommandsInv(a)'
  <2>1. PICK q : q = shards[a].commands OBVIOUS
  <2>2. \A i \in 1..Len(q) : CommandOf(a, q[i])' BY <1>6, <2>1
  <2>3. \A i, j \in 1..Len(q) : Conflict(q[i], q[j]) => i = j
    BY <2>1 DEF KinesisInv, CommandsInv
  <2> QED BY <2>1, <2>2, <2>3 DEF CommandsInv
<1> QED BY <1>7

\* The keys of the shards that it was closing are taken from the stream; no
\* other shard of the stream has one of them.
LEMMA AbandonedSpace ==
    ASSUME KinesisInv, NEW x \in Admins, admins[x].op \in {"split", "merge"},
           admins' = [admins EXCEPT ![x] = NoOp],
           guard' = IF guard = x THEN NoTaskId ELSE guard,
           orphans' = orphans \cup Parents(x),
           UNCHANGED <<stream, shards>>
    PROVE  SpaceInv'
<1>1. admins'[x] = NoOp /\ \A y \in Admins : y # x => admins'[y] = admins[y]
  BY DEF KinesisInv, KinesisTypes
<1>2. guard = x /\ guard # NoTaskId /\ guard' = NoTaskId BY Bounds DEF KinesisInv, SpaceInv
<1>3. PICK range : range = admins[x].range OBVIOUS
<1>4. PICK inc : inc = stream.inc OBVIOUS
<1>5. /\ Resharding(x) /\ Covers(Active, inc, ToSet(range)) /\ Apart(Active, inc, ToSet(range))
  BY <1>2, <1>3, <1>4 DEF KinesisInv, SpaceInv
<1>6. \A key \in Keys : (\E r \in ToSet(range) : Within(r, key))
                           <=> (\E a \in Parents(x) : contains(shards[a], key))
  BY <1>3, <1>5 DEF Resharding
<1>7. \A a \in Parents(x) : a[1] = inc BY <1>4 DEF Parents
<1>8. ASSUME NEW key \in Keys
      PROVE  key \in LostKeys(inc)' <=> \/ key \in LostKeys(inc)
                                       \/ \E r \in ToSet(range) : Within(r, key)
  BY <1>6, <1>7 DEF LostKeys, Keys
<1>9. LostKeys(stream.inc)' = LostKeys(inc)' BY <1>4 DEF LostKeys
<1>10. Active' = Active /\ Active \subseteq Handles BY DEF Active, Handles
<1>11. Covers(Active, stream.inc, {})' BY <1>5, <1>8, <1>9, <1>10 DEF Covers
<1>12. ASSUME NEW key \in Keys, key \in LostKeys(inc)', NEW a \in Active PROVE ~contains(shards[a], key)
  <2>1. CASE key \in LostKeys(inc) BY <1>5, <2>1 DEF Apart
  <2>2. CASE \E r \in ToSet(range) : Within(r, key)
    <3>1. SUFFICES ASSUME contains(shards[a], key) PROVE FALSE OBVIOUS
    <3>2. a \in ShardIds /\ a[1] = stream.inc BY <1>10, HandlesBorn DEF KinesisInv
    <3>3. shards[a].st = "open" BY DEF KinesisInv, SpaceInv
    <3>4. a \in ToSet(admins[x].todo) BY <1>3, <1>5, <2>2, <3>1, <3>2, <3>3 DEF Resharding
    <3> QED BY <1>5, <1>10, <3>4 DEF Resharding
  <2> QED BY <1>8, <1>12, <2>1, <2>2
<1>13. Apart(Active, stream.inc, {})'
  <2>1. \A key \in LostKeys(inc)' : key \in Keys BY DEF LostKeys, Keys
  <2> QED BY <1>9, <1>10, <1>12, <2>1 DEF Apart
<1>14. \A y \in Admins : admins'[y].op \notin {"split", "merge"}
  BY <1>1, <1>2, NoOpIsGood DEF KinesisInv, SpaceInv
<1>15. \A a \in Active' : shards'[a].st = "open" BY <1>10 DEF KinesisInv, SpaceInv
<1> QED BY <1>2, <1>11, <1>13, <1>14, <1>15 DEF SpaceInv

LEMMA AbandonControlInv == ASSUME KinesisInv, NEW x \in Admins, AbandonControl(x) PROVE KinesisInv'
<1>1. /\ admins[x].op \in {"delete", "split", "merge"}
      /\ guard' = IF guard = x THEN NoTaskId ELSE guard
      /\ admins' = [admins EXCEPT ![x] = NoOp]
      /\ orphans' = orphans \cup Parents(x)
      /\ UNCHANGED <<stream, shards, puts, readers, blocked, clock, arrivals>>
  BY DEF AbandonControl, Parents
<1>2. admins'[x] = NoOp /\ \A y \in Admins : y # x => admins'[y] = admins[y]
  BY <1>1 DEF KinesisInv, KinesisTypes
<1>3. ToSet(<<>>) = {} BY DEF ToSet
<1>4. \A a \in Parents(x) : a \in ShardIds /\ Born(a)
  <2>1. CASE admins[x].op = "delete"
    <3>1. admins[x].parents = <<>> BY <2>1 DEF KinesisInv, AdminInv
    <3> QED BY <1>3, <3>1 DEF Parents
  <2>2. CASE admins[x].op \in {"split", "merge"}
    <3>1. guard = x /\ guard # NoTaskId BY <2>2, Bounds DEF KinesisInv, SpaceInv
    <3>2. Resharding(x) BY <3>1 DEF KinesisInv, SpaceInv
    <3>3. Parents(x) \subseteq ShardIds BY <3>2, ParentIds DEF KinesisInv, Resharding
    <3> QED BY <3>2, <3>3 DEF Resharding
  <2> QED BY <1>1, <2>1, <2>2
<1>5. KinesisTypes' BY <1>1, <1>2, <1>4, NoOpIsGood DEF KinesisInv, KinesisTypes
<1>6. StreamInv'
  <2>1. PICK k \in 0..MaxStreams : Numbered(k) BY DEF KinesisInv, StreamInv
  <2>2. Numbered(k)' BY <1>1, <2>1 DEF Numbered, Born
  <2>3. \A a \in orphans' : Born(a)' BY <1>1, <1>4 DEF KinesisInv, StreamInv, Born
  <2> QED BY <1>1, <2>2, <2>3 DEF KinesisInv, StreamInv, Born
<1>7. (\A a \in ShardIds : ShardInv(a)') /\ Disjoint'
  BY <1>1 DEF KinesisInv, ShardInv, Disjoint, Born, contains
<1>8. ASSUME NEW inc PROVE LostKeys(inc) \subseteq LostKeys(inc)'
  BY <1>1 DEF LostKeys, contains
<1>9. RecordsInv'
  <2>1. ASSUME NEW i \in DOMAIN arrivals PROVE RecordInv(arrivals[i])'
    <3>1. PICK rec \in Record : rec = arrivals[i] BY ArrivalTypes DEF KinesisInv
    <3>2. RecordInv(rec) BY <3>1 DEF KinesisInv, RecordsInv
    <3>3. rec.key \notin LostKeys(rec.at[1])' => rec.key \notin LostKeys(rec.at[1]) BY <1>8
    <3>4. RecordInv(rec)' BY <1>1, <3>2, <3>3 DEF RecordInv, Born, contains, NextSeq
    <3> QED BY <1>1, <3>1, <3>4
  <2>2. ASSUME NEW i \in DOMAIN arrivals, NEW j \in DOMAIN arrivals,
               i < j, arrivals[i].key = arrivals[j].key, arrivals[i].at[1] = arrivals[j].at[1],
               arrivals[i].key \notin LostKeys(arrivals[i].at[1])'
        PROVE  SeqLess(arrivals[i].seq, arrivals[j].seq)
    <3>1. PICK inc : inc = arrivals[i].at[1] OBVIOUS
    <3>2. arrivals[i].key \notin LostKeys(inc)' BY <1>1, <2>2, <3>1 DEF LostKeys
    <3>3. arrivals[i].key \notin LostKeys(arrivals[i].at[1]) BY <1>8, <3>1, <3>2
    <3> QED BY <2>2, <3>3 DEF KinesisInv, RecordsInv
  <2> QED BY <1>1, <2>1, <2>2 DEF RecordsInv
<1>10. SpaceInv'
  <2>1. CASE admins[x].op = "delete"
    <3>1. guard # x
      <4>1. guard = x => guard # NoTaskId BY Bounds
      <4> QED BY <2>1, <4>1 DEF KinesisInv, SpaceInv, Resharding
    <3>2. Parents(x) = {}
      <4>1. admins[x].parents = <<>> BY <2>1 DEF KinesisInv, AdminInv
      <4> QED BY <1>3, <4>1 DEF Parents
    <3>3. UNCHANGED <<stream, guard, orphans>> BY <1>1, <3>1, <3>2
    <3>4. Shaped BY <1>1, <3>3 DEF Shaped, Born, KinesisInv, KinesisTypes
    <3>5. \A a \in Active : shards'[a].st = "open" BY <1>1 DEF KinesisInv, SpaceInv
    <3> QED BY <1>2, <2>1, <3>3, <3>4, <3>5, NoOpIsGood, SpaceKeeps
  <2>2. CASE admins[x].op \in {"split", "merge"} BY <1>1, <2>2, AbandonedSpace
  <2> QED BY <1>1, <2>1, <2>2
<1>11. ASSUME NEW d \in PutCalls PROVE PutInv(puts[d])'
  <2>1. PICK p : p = puts[d] OBVIOUS
  <2>2. PutInv(p) BY <2>1 DEF KinesisInv
  <2>3. PICK lost : lost = LostKeys(p.to[1])' OBVIOUS
  <2>4. LostKeys(p.to[1]) \subseteq lost BY <1>8, <2>3
  <2>5. PutInv(p)' BY <1>1, <2>2, <2>3, <2>4 DEF PutInv, Born, contains, Covers
  <2> QED BY <1>1, <2>1, <2>5
<1>12. ASSUME NEW y \in Admins PROVE AdminInv(y)'
  <2>1. CASE y = x BY <1>2, <2>1, NoOpIsGood DEF AdminInv
  <2>2. CASE y # x BY <1>1, <1>2, <2>2 DEF KinesisInv, AdminInv, Born
  <2> QED BY <2>1, <2>2
<1>13. \A r \in Readers : ReaderInv(r)' BY <1>1 DEF KinesisInv, ReaderInv, Asks
<1>14. \A a \in ShardIds : CommandsInv(a)' BY <1>1, AbandonedCommands
<1>15. \A a \in ShardIds : LogInv(a)' BY <1>1, LogKept
<1>16. ASSUME NEW r \in Readers PROVE ProgressInv(r)'
  <2>1. \A a \in ShardIds : shards'[a].trim \in Nat /\ shards'[a].trim >= shards[a].trim
    BY <1>1, ShardTypes DEF KinesisInv
  <2> QED BY <1>1, <2>1, ProgressStays
<1> QED
  BY <1>5, <1>6, <1>7, <1>9, <1>10, <1>11, <1>12, <1>13, <1>14, <1>15, <1>16 DEF KinesisInv

-----------------------------------------------------------------------------
(* The invariant holds.                                                     *)

LEMMA InitInv == ASSUME KinesisInit PROVE KinesisInv
<1>1. /\ stream = NoStream /\ guard = NoTaskId /\ blocked = {} /\ clock = 0 /\ arrivals = <<>>
      /\ shards = [a \in ShardIds |-> Unborn] /\ puts = [c \in PutCalls |-> NewPut]
      /\ readers = [r \in Readers |-> NewReader] /\ admins = [x \in Admins |-> NoOp]
      /\ orphans = {}
  BY DEF KinesisInit
<1>2. \A a \in ShardIds : shards[a] = Unborn /\ ~Born(a) BY <1>1 DEF Born, Unborn
<1>3. /\ \A c \in PutCalls : puts[c] = NewPut
      /\ \A r \in Readers : readers[r] = NewReader
      /\ \A x \in Admins : admins[x] = NoOp
  BY <1>1
<1>4. /\ NewReader.st = "none" /\ NewReader.at = NoShard /\ NewReader.pos = 0
      /\ NewReader.start = 0 /\ NewReader.cmd = <<>>
  BY DEF NewReader
<1>5. ToSet(<<>>) = {} BY DEF ToSet
<1>6. KinesisTypes
  <2>1. NoStream \in StreamEntry
    <3>1. <<>> \in Seq(Indices) OBVIOUS
    <3> QED BY <3>1, Bounds DEF NoStream, StreamEntry
  <2>2. Unborn \in Shard
    <3>1. <<>> \in Seq(Record) /\ <<>> \in Seq(Command) OBVIOUS
    <3> QED BY <3>1 DEF Unborn, Shard
  <2>3. NewPut \in Put
    <3>1. <<>> \in Seq(Keys) OBVIOUS
    <3> QED BY <3>1 DEF NewPut, Put
  <2>4. NewReader \in Reader
    <3>1. <<>> \in Seq(Command) OBVIOUS
    <3> QED BY <3>1 DEF NewReader, Reader
  <2>5. <<>> \in Seq(Record) OBVIOUS
  <2> QED BY <1>1, <2>1, <2>2, <2>3, <2>4, <2>5, NoOpIsGood DEF KinesisTypes
<1>7. StreamInv
  <2>1. stream.inc = 0 /\ stream.next = 0 /\ stream.active = <<>> /\ stream.closed = <<>>
    BY <1>1 DEF NoStream
  <2>2. 0 \in 0..MaxStreams /\ 1..0 = {} BY Bounds
  <2>3. Numbered(0) BY <1>2, <2>1, <2>2 DEF Numbered
  <2>4. \A a \in ShardIds : a[1] # 0 BY <1>6, ShardTypes
  <2> QED BY <1>1, <1>5, <2>1, <2>2, <2>3, <2>4 DEF StreamInv
<1>8. \A a \in ShardIds : ShardInv(a) BY <1>2 DEF ShardInv
<1>9. Disjoint BY <1>2 DEF Disjoint, Born
<1>10. RecordsInv
  <2>1. DOMAIN arrivals = {} BY <1>1
  <2> QED BY <2>1 DEF RecordsInv
<1>11. SpaceInv
  <2>1. Active = {}
    <3>1. stream.active = <<>> BY <1>1 DEF NoStream
    <3> QED BY <1>5, <3>1 DEF Active
  <2> QED BY <1>1, <1>3, <2>1, NoOpIsGood DEF SpaceInv, Apart
<1>12. \A c \in PutCalls : PutInv(puts[c])
  <2>1. NewPut.st = "new" BY DEF NewPut
  <2> QED BY <1>3, <2>1 DEF PutInv
<1>13. \A x \in Admins : AdminInv(x) BY <1>3, NoOpIsGood DEF AdminInv
<1>14. \A r \in Readers : ReaderInv(r) BY <1>3, <1>4 DEF ReaderInv
<1>15. ASSUME NEW a \in ShardIds PROVE CommandsInv(a)
  <2>1. shards[a].commands = <<>> BY <1>2 DEF Unborn
  <2>2. 1..Len(<<>>) = {} OBVIOUS
  <2> QED BY <2>1, <2>2 DEF CommandsInv
<1>16. ASSUME NEW a \in ShardIds PROVE LogInv(a)
  <2>1. shards[a].records = <<>> /\ shards[a].trim = 0 BY <1>2 DEF Unborn
  <2>2. StoredBy(a) = <<>> BY <1>1, KeepEmpty DEF StoredBy
  <2>3. Len(<<>>) = 0 /\ DOMAIN <<>> = {} OBVIOUS
  <2> QED BY <2>1, <2>2, <2>3 DEF LogInv
<1>17. ASSUME NEW r \in Readers PROVE ProgressInv(r)
  <2>1. readers[r].at \notin ShardIds
    <3>1. NoShard \notin ShardIds BY DEF NoShard, ShardIds
    <3> QED BY <1>3, <1>4, <3>1
  <2> QED BY <2>1 DEF ProgressInv
<1> QED
  BY <1>6, <1>7, <1>8, <1>9, <1>10, <1>11, <1>12, <1>13, <1>14, <1>15, <1>16, <1>17
  DEF KinesisInv

LEMMA NextInv == ASSUME KinesisInv, [KinesisNext]_kinesisVars PROVE KinesisInv'
<1>1. CASE UNCHANGED kinesisVars
  <2>1. /\ blocked' = blocked
        /\ UNCHANGED <<stream, guard, shards, puts, readers, admins, clock, arrivals, orphans>>
    BY <1>1 DEF kinesisVars
  <2>2. blocked \subseteq PutCalls \cup Readers \cup Admins BY DEF KinesisInv, KinesisTypes
  <2> QED BY <2>1, <2>2, Stutters
<1>2. ASSUME NEW t \in PutCalls \cup Readers \cup Admins, BlockThread(t) PROVE KinesisInv'
  BY <1>2, Stutters DEF BlockThread, KinesisTypes, KinesisInv
<1>3. ASSUME NEW c \in PutCalls, StartPut(c) \/ SendPut(c) \/ PutLost(c) PROVE KinesisInv'
  BY <1>3, StartPutInv, SendPutInv, PutLostInv
<1>4. ASSUME NEW r \in Readers, get_shard_iterator(r) \/ get_records(r) \/ SendRead(r) \/ ReadLost(r)
      PROVE  KinesisInv'
  BY <1>4, GetShardIteratorInv, GetRecordsInv, SendReadInv, ReadLostInv
<1>5. ASSUME NEW a \in ShardIds, ActorStep(a) \/ trim_expired(a) PROVE KinesisInv'
  BY <1>5, HandleCommandInv, ChannelClosesInv, TrimExpiredInv DEF ActorStep
<1>6. ASSUME NEW x \in Admins,
             \/ CheckCreate(x) \/ InsertStream(x) \/ RemoveStream(x) \/ SendNext(x) \/ DeleteEnds(x)
             \/ split_shard(x) \/ merge_shards(x) \/ FinishReshard(x) \/ AbandonControl(x)
      PROVE  KinesisInv'
  BY <1>6, CheckCreateInv, InsertStreamInv, RemoveStreamInv, SendNextInv, DeleteEndsInv,
     SplitShardInv, MergeShardsInv, FinishReshardInv, AbandonControlInv
<1> QED BY <1>1, <1>2, <1>3, <1>4, <1>5, <1>6 DEF KinesisNext

\* Shards, calls and channels stay in agreement while streams are created and
\* deleted and shards are split and merged under writers and readers, though any
\* of these operations may be abandoned where it waits for an actor.
THEOREM KinesisInvariant == KinesisSpec => []KinesisInv
<1>1. KinesisInit => KinesisInv BY InitInv
<1>2. KinesisInv /\ [KinesisNext]_kinesisVars => KinesisInv' BY NextInv
<1> QED BY <1>1, <1>2, PTL DEF KinesisSpec

LEMMA OrderedAtRest == ASSUME KinesisInv PROVE KeyOrder
<1>1. \A i, j \in DOMAIN arrivals :
        /\ i < j /\ arrivals[i].key = arrivals[j].key /\ arrivals[i].at[1] = arrivals[j].at[1]
        /\ arrivals[i].key \notin LostKeys(arrivals[i].at[1])
        => SeqLess(arrivals[i].seq, arrivals[j].seq)
  BY DEF KinesisInv, RecordsInv
<1>2. ASSUME guard = NoTaskId, Active # {}, NEW key \in 0..HashMax
      PROVE  Cardinality({a \in Active : contains(shards[a], key) /\ shards[a].st = "open"})
                 = IF key \in LostKeys(stream.inc) THEN 0 ELSE 1
  <2>1. \A a \in Active : a \in ShardIds /\ a[1] = stream.inc BY HandlesBorn DEF KinesisInv
  <2>2. \A a \in Active : shards[a].st = "open" BY DEF KinesisInv, SpaceInv
  <2>3. Covers(Active, stream.inc, {}) /\ Apart(Active, stream.inc, {})
    BY <1>2 DEF KinesisInv, SpaceInv
  <2>4. CASE key \in LostKeys(stream.inc)
    <3>1. {b \in Active : contains(shards[b], key) /\ shards[b].st = "open"} = {}
      BY <2>3, <2>4 DEF Apart
    <3> QED BY <2>4, <3>1, FS_EmptySet
  <2>5. CASE key \notin LostKeys(stream.inc)
    <3>1. PICK a \in Active : contains(shards[a], key) BY <1>2, <2>3, <2>5 DEF Covers, Keys
    <3>2. ASSUME NEW b \in Active, contains(shards[b], key) PROVE b = a
      BY <1>2, <2>1, <2>2, <3>1, <3>2 DEF KinesisInv, Disjoint, Keys
    <3>3. {b \in Active : contains(shards[b], key) /\ shards[b].st = "open"} = {a}
      BY <2>2, <3>1, <3>2
    <3> QED BY <2>5, <3>3, FS_Singleton
  <2> QED BY <2>4, <2>5
<1> QED BY <1>1, <1>2 DEF KeyOrder

\* Records of one key are numbered in the order in which they are stored, and
\* at rest each key belongs to one open shard, but for the keys that abandoned
\* reshardings have taken: route_to_shard and the snapshot of senders,
\* SplitShard and MergeShards, for any number of shards and calls.
THEOREM KeyOrderAlways == KinesisSpec => []KeyOrder
<1>1. KinesisInv => KeyOrder BY OrderedAtRest
<1> QED BY <1>1, KinesisInvariant, PTL

LEMMA NothingMissed == ASSUME KinesisInv PROVE ReadsContiguous
<1> SUFFICES ASSUME NEW r \in Readers, readers[r].st \in {"idle", "reading"},
                    NEW a, a = readers[r].at,
                    NEW i \in (readers[r].start + 1)..readers[r].pos, i \in DOMAIN StoredBy(a)
             PROVE  StoredBy(a)[i].seq \in readers[r].got \/ i <= shards[a].trim
  BY DEF ReadsContiguous
<1>1. CASE a \in ShardIds BY <1>1 DEF KinesisInv, ProgressInv
<1>2. CASE a \notin ShardIds
  <2>1. arrivals \in Seq(Record) BY DEF KinesisInv, KinesisTypes
  <2>2. PICK K : K = [at : {a}, key : 0..HashMax, seq : SequenceNumber] OBVIOUS
  <2>3. StoredBy(a) = Keep(arrivals, K) BY <2>2 DEF StoredBy
  <2>4. Keep(arrivals, K) \in Seq(Record) /\ Range(Keep(arrivals, K)) = Range(arrivals) \cap K
    BY <2>1, KeepRange
  <2>5. \A rec \in K : rec.at = a BY <2>2
  <2>6. \A rec \in Range(arrivals) : rec.at \in ShardIds
    <3>1. Range(arrivals) \subseteq Record BY <2>1, ElementsOf
    <3> QED BY <3>1 DEF Record
  <2>7. Range(StoredBy(a)) = {} BY <1>2, <2>3, <2>4, <2>5, <2>6
  <2>8. StoredBy(a)[i] \in Range(StoredBy(a)) BY DEF Range
  <2> QED BY <2>7, <2>8
<1> QED BY <1>1, <1>2

\* A reader that follows its iterator is given every record that retention has
\* not removed: GetRecords and ShardRecordLog, for any batches, limits and trims.
THEOREM ReadsContiguousAlways == KinesisSpec => []ReadsContiguous
<1>1. KinesisInv => ReadsContiguous BY NothingMissed
<1> QED BY <1>1, KinesisInvariant, PTL

\* The states of shards, streams and calls are of their types, and a shard's
\* range lies within the hash keys.
THEOREM KinesisTypeCorrect == KinesisSpec => []KinesisTypeOK
<1>1. ASSUME KinesisInv PROVE KinesisTypeOK
  <2>1. KinesisTypes BY <1>1 DEF KinesisInv
  <2>2. ASSUME NEW a \in ShardIds
        PROVE  /\ shards[a].st \in {"unborn", "open", "closed", "stopped"}
               /\ shards[a].lo \in 0..HashMax /\ shards[a].hi \in shards[a].lo..HashMax
    <3>1. shards[a] \in Shard /\ shards[a].lo \in Nat /\ shards[a].hi \in Nat
      BY <2>1, ShardTypes
    <3>2. shards[a].lo <= shards[a].hi /\ shards[a].hi <= HashMax
      <4>1. ShardInv(a) BY <1>1 DEF KinesisInv
      <4>2. Unborn.lo = 0 /\ Unborn.hi = 0 BY DEF Unborn
      <4> QED BY <4>1, <4>2, Bounds DEF ShardInv
    <3> QED BY <3>1, <3>2, Bounds DEF Shard
  <2>3. stream.inc \in 0..MaxStreams /\ stream.next \in 0..MaxShards
    BY <2>1 DEF KinesisTypes, StreamEntry
  <2>4. \A c \in PutCalls : puts[c].st \in {"new", "routed", "sent", "ended"}
    BY <2>1 DEF KinesisTypes, Put
  <2>5. \A r \in Readers : readers[r].st \in {"none", "asking", "idle", "reading"}
    BY <2>1 DEF KinesisTypes, Reader
  <2>6. \A x \in Admins : admins[x].op \in {"none", "insert", "delete", "split", "merge"}
    BY <2>1 DEF KinesisTypes, AdminWork
  <2> QED BY <2>1, <2>2, <2>3, <2>4, <2>5, <2>6 DEF KinesisTypeOK, KinesisTypes
<1> QED BY <1>1, KinesisInvariant, PTL
=============================================================================
