--------------------------- MODULE SecretVersions ---------------------------
(***************************************************************************)
(* A secret of Secrets Manager (rustack-secretsmanager-core): its versions, *)
(* the staging labels that name them, rotation and deletion.  Operations    *)
(* run under the map's guard, except CreateSecret and DeleteSecret, which   *)
(* look in one step and act in another.                                     *)
(*                                                                         *)
(* Versions are kept in the order of their creation dates.                  *)
(***************************************************************************)
EXTENDS Integers, Sequences, FiniteSets, Filtering

CONSTANTS Clients,
          VersionIds,     \* client request tokens and generated ids
          SecretValues,
          MAX_VERSIONS    \* versions kept, deprecated ones included

VARIABLES secret,     \* the record under the secret's name, or NoSecret
          clients     \* what a create or delete under way does next

secretVars == <<secret, clients>>

AWSCURRENT == "AWSCURRENT"
AWSPREVIOUS == "AWSPREVIOUS"
AWSPENDING == "AWSPENDING"
Labels == {AWSCURRENT, AWSPREVIOUS, AWSPENDING}

NoVersion == "no version"
NoValue == "no value"

ASSUME SecretAssumption == NoVersion \notin VersionIds

NoLabels == [l \in Labels |-> NoVersion]
Empty == [exists |-> TRUE, versions |-> <<>>, labels |-> NoLabels, pending |-> FALSE,
          rotation |-> FALSE]
NoSecret == [Empty EXCEPT !.exists = FALSE]
Nothing == [op |-> "none", record |-> NoSecret]

SecretInit ==
    /\ secret = NoSecret
    /\ clients = [c \in Clients |-> Nothing]

-----------------------------------------------------------------------------
(* SecretRecord.                                                            *)

Stored(s) == {s.versions[i].id : i \in DOMAIN s.versions}
VersionOf(s, v) == s.versions[CHOOSE i \in DOMAIN s.versions : s.versions[i].id = v]

\* the cached version_stages, from the labels
rebuild_version_stages(s) ==
    [s EXCEPT !.versions = [i \in DOMAIN s.versions |->
        [s.versions[i] EXCEPT !.stages = {l \in Labels : s.labels[l] = s.versions[i].id}]]]

\* mutant: labelled versions count as deprecated too
DeprecatedAll(s) == Stored(s)

\* the versions no label names
Deprecated(s) == {v \in Stored(s) : \A l \in Labels : s.labels[l] # v}

\* the oldest deprecated versions beyond the limit
cleanup_deprecated_versions(s) ==
    LET excess == Len(s.versions) - MAX_VERSIONS
        old(i) == Cardinality({j \in 1..i : s.versions[j].id \in Deprecated(s)})
        keep == {i \in DOMAIN s.versions :
                    s.versions[i].id \in Deprecated(s) => old(i) > excess}
    IN [s EXCEPT !.versions = Keep(@, {s.versions[i] : i \in keep})]

\* the old holder of AWSCURRENT becomes AWSPREVIOUS
Demoted(s) ==
    IF s.labels[AWSCURRENT] = NoVersion THEN s
    ELSE [s EXCEPT !.labels[AWSPREVIOUS] = s.labels[AWSCURRENT]]

Promoted(s, v, stages) ==
    [(IF AWSCURRENT \in stages THEN Demoted(s) ELSE s) EXCEPT
        !.labels = [l \in Labels |-> IF l \in stages THEN v ELSE @[l]]]

AddedVersion(s, v, value, stages) ==
    LET t == Promoted(s, v, stages)
    IN rebuild_version_stages(cleanup_deprecated_versions(
           [t EXCEPT !.versions = Append(@, [id |-> v, value |-> value, stages |-> {}])]))

\* the records a new version may lead to: the same content again changes
\* nothing, other content under a known id is refused
add_version(s, v, value, stages) ==
    IF v \in Stored(s) THEN {t \in {s} : VersionOf(s, v).value = value}
    ELSE {AddedVersion(s, v, value, IF stages = {} THEN {AWSCURRENT} ELSE stages)}

\* the label moves, and AWSPREVIOUS with AWSCURRENT
MovedLabel(s, l, v) ==
    rebuild_version_stages(
        [(IF l = AWSCURRENT THEN Demoted(s) ELSE s) EXCEPT !.labels[l] = v])

Unlabelled(s, l) == rebuild_version_stages([s EXCEPT !.labels[l] = NoVersion])

get_current_value(s) ==
    IF s.labels[AWSCURRENT] \in Stored(s) THEN VersionOf(s, s.labels[AWSCURRENT]).value
    ELSE NoValue

-----------------------------------------------------------------------------
(* Operations.                                                              *)

Usable == secret.exists /\ ~secret.pending

Change(t) == secret' = t /\ UNCHANGED clients

\* CreateSecret: contains_key, then the record is built and inserted
CheckCreateSecret(c) ==
    /\ clients[c] = Nothing /\ ~secret.exists
    /\ \E v \in VersionIds, value \in SecretValues :
         \E record \in {Empty} \cup add_version(Empty, v, value, {}) :
             clients' = [clients EXCEPT ![c] = [op |-> "insert", record |-> record]]
    /\ UNCHANGED secret

InsertSecret(c) ==
    /\ clients[c].op = "insert"
    /\ secret' = clients[c].record
    /\ clients' = [clients EXCEPT ![c] = Nothing]

PutSecretValue ==
    /\ Usable
    /\ \E v \in VersionIds, value \in SecretValues, stages \in SUBSET Labels :
         \E t \in add_version(secret, v, value, stages) : Change(t)

UpdateSecret ==
    /\ Usable
    /\ \E v \in VersionIds, value \in SecretValues :
         \E t \in add_version(secret, v, value, {AWSCURRENT}) : Change(t)

\* rotation stays configured when the version is refused
RotateSecret ==
    /\ Usable
    /\ \E v \in VersionIds, stage \in {AWSCURRENT, AWSPENDING} :
         LET s == [secret EXCEPT !.rotation = TRUE]
             added == add_version(s, v, get_current_value(s), {stage})
         IN \E t \in IF added = {} THEN {s} ELSE added : Change(t)

CancelRotateSecret ==
    /\ secret.exists
    /\ Change(Unlabelled(secret, AWSPENDING))

UpdateSecretVersionStage ==
    /\ secret.exists
    /\ \E l \in Labels :
         \/ \E v \in Stored(secret) : Change(MovedLabel(secret, l, v))
         \/ secret.labels[l] # NoVersion /\ Change(Unlabelled(secret, l))

\* DeleteSecret: the deletion mark is looked at before the record is locked
CheckDeleteSecret(c) ==
    /\ clients[c] = Nothing /\ secret.exists
    /\ \E op \in {"remove"} \cup (IF secret.pending THEN {} ELSE {"schedule"}) :
         clients' = [clients EXCEPT ![c].op = op]
    /\ UNCHANGED secret

FinishDeleteSecret(c) ==
    /\ clients[c].op \in {"remove", "schedule"}
    /\ secret' = IF clients[c].op = "remove" \/ ~secret.exists THEN NoSecret
                 ELSE [secret EXCEPT !.pending = TRUE]
    /\ clients' = [clients EXCEPT ![c] = Nothing]

RestoreSecret ==
    /\ secret.exists /\ secret.pending
    /\ Change([secret EXCEPT !.pending = FALSE])

SecretNext ==
    \/ \E c \in Clients : CheckCreateSecret(c) \/ InsertSecret(c)
                            \/ CheckDeleteSecret(c) \/ FinishDeleteSecret(c)
    \/ PutSecretValue \/ UpdateSecret \/ RotateSecret \/ CancelRotateSecret
    \/ UpdateSecretVersionStage \/ RestoreSecret

SecretSpec == SecretInit /\ [][SecretNext]_secretVars
-----------------------------------------------------------------------------
(* Properties.                                                              *)

SecretTypeOK ==
    /\ \A i \in DOMAIN secret.versions :
         /\ secret.versions[i].id \in VersionIds
         /\ secret.versions[i].value \in SecretValues \cup {NoValue}
         /\ secret.versions[i].stages \subseteq Labels
    /\ \A l \in Labels : secret.labels[l] \in VersionIds \cup {NoVersion}
    /\ \A c \in Clients : clients[c].op \in {"none", "insert", "remove", "schedule"}

\* resolve_version_from_record
FoundByStage(s, l) == {v \in Stored(s) : s.labels[l] = v}
FoundByBoth(s, v, l) == {u \in Stored(s) : u = v /\ l \in VersionOf(s, v).stages}

\* Whatever moves, rotates, is added or retired, a label that is set leads
\* GetSecretValue to a stored version, the same one whether the version is
\* looked up by its label or by its id and checked against the cached
\* stages.  Retiring the versions beyond MAX_VERSIONS never takes one that a
\* label still names.
LabelsResolve ==
    /\ \A l \in Labels :
         /\ secret.labels[l] # NoVersion => Cardinality(FoundByStage(secret, l)) = 1
         /\ \A v \in Stored(secret) : (FoundByBoth(secret, v, l) # {}) = (secret.labels[l] = v)
    /\ Cardinality(Stored(secret)) = Len(secret.versions)
=============================================================================
