-------------------------------- MODULE MCS3 --------------------------------
(***************************************************************************)
(* Small instances of S3Objects.                                           *)
(***************************************************************************)
EXTENDS S3Objects

NothingStored == [k \in ObjectKeys |-> [id \in VersionIdsOfCalls |-> NoBody]]
NoPartStored == [u \in UploadIds |-> NoParts]

\* an empty bucket without versioning; clients put and delete the bucket
EmptyBucket == {[bucket |-> NewBucket, objects |-> NothingStored, parts |-> NoPartStored]}
PutAndDeleteBucket == {[op |-> "put", key |-> "a"], [op |-> "delete_bucket"]}

\* versioning was enabled after a first put; an upload with two parts is open
FirstBody == <<0>>
UploadedParts == [n \in PartNumbers |-> FirstBody]
VersionedBucket ==
    [enable_versioning(NewBucket) EXCEPT
        !.keys["a"] = <<ObjectOf(NullId, FirstBody, [full |-> TRUE, body |-> FirstBody])>>,
        !.uploads[0] = [NewUpload(TRUE) EXCEPT !.parts = UploadedParts]]
VersionedOrNone ==
    {[bucket |-> VersionedBucket,
      objects |-> [NothingStored EXCEPT !["a"][NullId] = FirstBody],
      parts |-> [NoPartStored EXCEPT ![0] = UploadedParts]],
     [bucket |-> NoBucket, objects |-> NothingStored, parts |-> NoPartStored]}

OneSmallBody == {<<1>>}

\* calls are interchangeable: they begin in one order; objects are used,
\* and a copy's target chosen, while versioning is enabled; a bucket is deleted
\* while it is empty and nothing else uses it
BucketCalls == {"none", "create_bucket", "delete_bucket", "put_versioning"}
S3Bound ==
    /\ \A c, d \in S3Calls : c < d /\ s3calls'[d].at # "new" => s3calls'[c].at # "new"
    /\ \A c \in S3Calls :
         /\ s3calls[c].at = "new" /\ s3calls'[c].in.op \notin BucketCalls => is_versioning_enabled
         /\ s3calls'[c].at = "target" => bucket'.versioning = "Enabled"
         /\ s3calls'[c].in.op = "delete_bucket" =>
                BucketIsEmpty(bucket') /\ \A d \in S3Calls : s3calls'[d].in.op \in BucketCalls

ObjectRequests ==
    {[op |-> "put", key |-> "a"], [op |-> "delete_bucket"],
     [op |-> "create_upload", full |-> FALSE], [op |-> "abort", upload |-> 0],
     [op |-> "complete", key |-> "b", upload |-> 1, parts |-> <<1>>]} \cup
    {[op |-> "put_versioning", enabled |-> e] : e \in BOOLEAN} \cup
    {[op |-> "create_bucket", lock |-> l] : l \in BOOLEAN} \cup
    {[op |-> "get", key |-> "a", version |-> v] : v \in {Current, {1}}} \cup
    {[op |-> "delete", key |-> "a", version |-> v] : v \in {Current, {NullId}, {1}}} \cup
    {[op |-> "copy", key |-> k, src |-> "a", version |-> v] : k \in {"a", "b"}, v \in {Current, {1}}} \cup
    {[op |-> "upload_part_copy", upload |-> 0, part |-> 2, src |-> "a", version |-> v] : v \in {Current, {1}}} \cup
    {[op |-> "upload_part", upload |-> u, part |-> 1] : u \in {0, 1}} \cup
    {[op |-> "complete", key |-> "a", upload |-> 0, parts |-> p] : p \in {<<1>>, <<1, 2>>}}
=============================================================================
