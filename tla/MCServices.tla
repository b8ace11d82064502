------------------------------ MODULE MCServices ------------------------------
(***************************************************************************)
(* Small instances of the services that share a process and no state: the  *)
(* snapshot runtime, the Docker pool, a Kinesis stream, a secret, a        *)
(* DynamoDB table and an S3 bucket. A behaviour is about the one in focus, *)
(* the others stay as they start: what each does never depends on another. *)
(***************************************************************************)
EXTENDS Snapshots, DockerPool, MCKinesis, SecretVersions, DynamoTables, MCS3

CONSTANTS w1, w2, r1, x2, c1, c2   \* put calls, a reader, an admin, two clients

VARIABLE focus

servicesVars == <<focus, snapshotVars, poolVars, kinesisVars, secretVars, dynamoVars,
                  s3Vars>>

ServicesInit ==
    /\ focus \in {"snapshots", "docker", "kinesis", "secrets", "dynamodb", "s3"}
    /\ SnapshotInit /\ PoolInit /\ KinesisInit /\ SecretInit /\ DynamoInit /\ S3Init
    /\ focus # "dynamodb" => table = NoTable
    /\ focus # "snapshots" => root = Root(NoDir, {})
    /\ focus # "s3" => bucket = NoBucket
-----------------------------------------------------------------------------
(* Bounds.                                                                  *)

\* a second call comes while nothing has failed, does not expire and is not
\* cancelled once it has an environment
PoolBound == /\ faults' = 0 \/ callers'[2].at = "new"
             /\ ~callers'[2].expired
             /\ callers'[2].cancelled => callers'[2].at # "job"

\* two streams in turn, or two reshardings, or a batch, not all at once; between
\* the clone of a sender and its use only a deletion goes on; a stream without
\* shards comes first, with one put call; nothing is read when a deletion is
\* abandoned, and no second stream comes after an abandoned resharding
Shardless == stream.inc # 0 /\ stream.next = 0
Recreated == shards'[<<2, 0>>].st # "unborn" \/ admins'[x2] # NoOp
AbandonsDelete == \E x \in Admins :
    admins[x].op = "delete" /\ admins[x].todo # <<>> /\ admins'[x] = NoOp
KinesisBound ==
    /\ AbandonsDelete => readers[r1].st = "none"
    /\ orphans' # {} => ~Recreated
    /\ blocked' = {} \/ (arrivals' = <<>> /\ readers'[r1].st = "none" /\ puts'[w2] = NewPut)
    /\ readers[r1].cmd # <<>> => puts' = puts /\ arrivals' = arrivals /\ guard' = NoTaskId
    /\ Shardless' => stream'.inc = 1 /\ readers'[r1].st = "none" /\ puts'[w2] = NewPut
    /\ Len(arrivals') + Len(puts'[w1].keys) + Len(puts'[w2].keys) <= 2
    /\ \/ ~Recreated /\ readers'[r1].st = "none" /\ \A c \in PutCalls : Len(puts'[c].keys) <= 1
       \/ ~Recreated /\ puts'[w2] = NewPut
       \/ /\ Recreated /\ puts'[w2] = NewPut /\ Len(puts'[w1].keys) <= 1
          /\ stream'.next <= 1 /\ shards'[<<1, 1>>].st = "unborn"

\* two calls overlap while the secret has one version, one spans others at two
SecretBound == \/ Len(secret'.versions) <= 1
               \/ Len(secret'.versions) <= 2 /\ clients'[c2] = Nothing
               \/ clients'[c1] = Nothing /\ clients'[c2] = Nothing

\* the requests that clients send
Ask(kind, stream_enabled, actions, token) ==
    [kind |-> kind, stream |-> stream_enabled, actions |-> actions, token |-> token]
Do(act, key, val, cond) == [act |-> act, key |-> key, val |-> val, cond |-> cond]
TableRequests ==
    {Ask("create", s, <<>>, NoToken) : s \in BOOLEAN} \cup
    {Ask("drop", FALSE, <<>>, NoToken),
     Ask("single", FALSE, <<Do("put", "k1", "a", "not_exists")>>, NoToken),
     Ask("single", FALSE, <<Do("strip", "k1", "a", "none")>>, NoToken),
     Ask("single", FALSE, <<Do("delete", "k1", "a", "none")>>, NoToken),
     Ask("batch", FALSE, <<Do("put", "k1", "b", "none"), Do("delete", "k2", "b", "none")>>, NoToken),
     Ask("batch", FALSE, <<Do("put", "k1", "b", "none"), Do("delete", "k1", "b", "none")>>, NoToken),
     Ask("transact", FALSE, <<Do("check", "k1", "a", "exists"), Do("set", "k2", "a", "none")>>, "t1"),
     Ask("transact", FALSE, <<Do("put", "k1", "a", "none"), Do("strip", "k2", "a", "none")>>, "t1"),
     Ask("transact", FALSE, <<Do("put", "k1", "a", "none"), Do("strip", "k2", "a", "none")>>, "t2")}

\* requests are interchangeable: they are sent in one order, two at a time
DynamoBound ==
    /\ requests'[2].at # "new" => requests'[1].at # "new"
    /\ requests'[3].at # "new" => requests'[1].at = "ended" /\ requests'[2].at # "new"
    /\ restarts' = 0 \/ requests'[3].at \in {"new", "ended"}
-----------------------------------------------------------------------------
ServicesNext ==
    /\ UNCHANGED focus
    /\ \/ /\ focus = "snapshots" /\ SnapshotNext
          /\ UNCHANGED <<poolVars, kinesisVars, secretVars, dynamoVars, s3Vars>>
       \/ /\ focus = "docker" /\ PoolNext /\ PoolBound
          /\ UNCHANGED <<snapshotVars, kinesisVars, secretVars, dynamoVars, s3Vars>>
       \/ /\ focus = "kinesis" /\ KinesisNext /\ KinesisBound
          /\ UNCHANGED <<snapshotVars, poolVars, secretVars, dynamoVars, s3Vars>>
       \/ /\ focus = "secrets" /\ SecretNext /\ SecretBound
          /\ UNCHANGED <<snapshotVars, poolVars, kinesisVars, dynamoVars, s3Vars>>
       \/ /\ focus = "dynamodb" /\ DynamoNext /\ DynamoBound
          /\ UNCHANGED <<snapshotVars, poolVars, kinesisVars, secretVars, s3Vars>>
       \/ /\ focus = "s3" /\ S3Next /\ S3Bound
          /\ UNCHANGED <<snapshotVars, poolVars, kinesisVars, secretVars, dynamoVars>>

ServicesSpec == ServicesInit /\ [][ServicesNext]_servicesVars

\* The state of every service is of its type.
ServicesTypeOK ==
    CASE focus = "snapshots" -> SnapshotTypeOK
      [] focus = "docker" -> PoolTypeOK
      [] focus = "kinesis" -> KinesisTypeOK
      [] focus = "secrets" -> SecretTypeOK
      [] focus = "dynamodb" -> DynamoTypeOK
      [] focus = "s3" -> S3TypeOK
=============================================================================
