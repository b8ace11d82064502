------------------------------ MODULE S3Objects ------------------------------
(***************************************************************************)
(* One bucket of S3 (rustack-s3-core): the metadata of its object versions *)
(* and multipart uploads (state/), and the bytes, kept apart from them by  *)
(* the storage (storage.rs).                                               *)
(*                                                                         *)
(* Each map has a lock of its own and no lock spans two of them: a call    *)
(* writes bytes in one step and the metadata that describes them in        *)
(* another. Most calls hold the bucket's map guard from their first step   *)
(* to their last, so the bucket is not removed or replaced under them.     *)
(*                                                                         *)
(* A body is the sequence of the calls whose bytes it is made of; an ETag  *)
(* and a checksum are the body they were computed from. A refusal before   *)
(* anything is written (validation, digests, object lock) is a call that   *)
(* is not made.                                                            *)
(***************************************************************************)
EXTENDS Integers, Sequences, FiniteSets, SequencesExt

CONSTANTS S3Calls,        \* positive integers: the calls clients make, each once
          S3Inputs,       \* what they may ask for
          ObjectKeys,
          PartNumbers,
          SmallBodies,    \* bodies below MIN_PART_SIZE
          S3Starts        \* the bucket and the bytes that the calls may find

VARIABLES bucket,    \* S3Bucket, or NoBucket
          owner,     \* is the name in global_bucket_owner?
          objects,   \* InMemoryStorage: bytes by key and version
          parts,     \* InMemoryStorage: bytes by upload and part number
          s3calls    \* where each call is

s3Vars == <<bucket, owner, objects, parts, s3calls>>

NullId == 0                  \* the version "null"
Current == {}                \* no version given; otherwise {id}
NoBody == <<-1>>
VersionIdsOfCalls == {NullId} \cup S3Calls \cup {-c : c \in S3Calls}
UploadIds == {0} \cup S3Calls

NoSum == [full |-> FALSE, body |-> NoBody]
ObjectOf(id, etag, sum) == [id |-> id, etag |-> etag, sum |-> sum, marker |-> FALSE]
DeleteMarker(id) == [ObjectOf(id, NoBody, NoSum) EXCEPT !.marker = TRUE]

NoParts == [n \in PartNumbers |-> NoBody]
NoUpload == [live |-> FALSE, full |-> FALSE, parts |-> NoParts]
NewUpload(full) == [NoUpload EXCEPT !.live = TRUE, !.full = full]

NewBucket == [exists |-> TRUE, versioning |-> "Disabled", versioned |-> FALSE,
              keys |-> [k \in ObjectKeys |-> <<>>],
              uploads |-> [u \in UploadIds |-> NoUpload]]
NoBucket == [NewBucket EXCEPT !.exists = FALSE]

NoInput == [op |-> "none"]
NewS3Call == [at |-> "new", in |-> NoInput, id |-> NullId, etag |-> NoBody, body |-> NoBody,
              sum |-> NoSum, upload |-> NoUpload, todo |-> <<>>]

S3Init ==
    /\ \E start \in S3Starts :
         /\ bucket = start.bucket /\ owner = start.bucket.exists
         /\ objects = start.objects /\ parts = start.parts
    /\ s3calls = [c \in S3Calls |-> NewS3Call]
-----------------------------------------------------------------------------
(* ObjectStore: the versions of a key, newest first.                        *)

\* an un-versioned store has one object for a key, whatever its id
MatchingVersions(b, k, version) ==
    {b.keys[k][i] : i \in {j \in DOMAIN b.keys[k] :
        IF version = Current THEN j = 1
        ELSE IF b.versioned THEN b.keys[k][j].id \in version ELSE NullId \in version}}

lookup_object(b, k, version) == {v \in MatchingVersions(b, k, version) : ~v.marker}

\* a versioned store gives an object with the version "null" another id
PutVersion(b, k, v, fresh) ==
    [b EXCEPT !.keys[k] = IF ~b.versioned THEN <<v>>
                          ELSE <<IF v.id = NullId THEN [v EXCEPT !.id = fresh] ELSE v>> \o @]

delete_versioned(b, k, id) ==
    [b EXCEPT !.keys[k] = IF b.versioned THEN <<DeleteMarker(id)>> \o @ ELSE <<>>]

delete_version(b, k, v) == [b EXCEPT !.keys[k] = SelectSeq(@, LAMBDA w : w # v)]

is_versioning_enabled == bucket.versioning = "Enabled"

enable_versioning(b) == [b EXCEPT !.versioning = "Enabled", !.versioned = TRUE]

suspend_versioning(b) ==
    [b EXCEPT !.versioning = IF @ = "Enabled" THEN "Suspended" ELSE @]

BucketIsEmpty(b) == /\ \A k \in ObjectKeys : b.keys[k] = <<>>
                    /\ \A u \in UploadIds : ~b.uploads[u].live
-----------------------------------------------------------------------------
(* Calls.                                                                   *)

Guarded == {"put", "upload_part", "complete", "abort"}
Over == {"new", "ok", "failed", "got", "not_empty"}

\* who has a guard of the bucket's entry in the map
Guards == {c \in S3Calls : s3calls[c].at \notin Over /\ s3calls[c].in.op \in Guarded}

AskedFor(op) == {i \in S3Inputs : i.op = op}

\* a call begins; most look the bucket up first
Begins(c) == s3calls[c].at = "new"
BeginsIn(c) == Begins(c) /\ bucket.exists
StateOf(c, call) == s3calls' = [s3calls EXCEPT ![c] = call]
To(c, step) == StateOf(c, [s3calls[c] EXCEPT !.at = step])
Ends(c, result) == StateOf(c, [NewS3Call EXCEPT !.at = result])

TargetId(c) == IF is_versioning_enabled THEN c ELSE NullId

\* PutObject: the version is chosen, the bytes are written, then the metadata
BeginPut(c) ==
    /\ BeginsIn(c)
    /\ \E i \in AskedFor("put") :
         StateOf(c, [NewS3Call EXCEPT !.at = "write", !.in = i, !.id = TargetId(c),
                                    !.body = <<c>>, !.sum = [full |-> TRUE, body |-> <<c>>]])
    /\ UNCHANGED <<bucket, owner, objects, parts>>

\* write_object, or the spill to disk before it fails
WriteObject(c) ==
    /\ s3calls[c].at = "write"
    /\ \/ /\ objects' = [objects EXCEPT ![s3calls[c].in.key][s3calls[c].id] = s3calls[c].body]
          /\ To(c, IF s3calls[c].in.op = "complete" THEN "clean" ELSE "store")
       \/ s3calls[c].in.op # "complete" /\ Ends(c, "failed") /\ UNCHANGED objects
    /\ UNCHANGED <<bucket, owner, parts>>

StoreMetadata(c) ==
    LET call == s3calls[c]
    IN /\ call.at = "store"
       /\ IF bucket.exists
          THEN /\ bucket' = PutVersion(bucket, call.in.key,
                                       ObjectOf(call.id, call.body, call.sum), -c)
               /\ IF call.in.op = "complete" THEN To(c, "forget") ELSE Ends(c, "ok")
          ELSE UNCHANGED bucket /\ Ends(c, "failed")
       /\ UNCHANGED <<owner, objects, parts>>

\* CopyObject: the source's metadata, the target's version, the source's bytes;
\* no guard is held between the steps
BeginCopy(c) ==
    /\ BeginsIn(c)
    /\ \E i \in AskedFor("copy") :
         \E v \in lookup_object(bucket, i.src, i.version) :
             StateOf(c, [NewS3Call EXCEPT !.at = "target", !.in = [i EXCEPT !.version = {v.id}],
                                        !.sum = v.sum])
    /\ UNCHANGED <<bucket, owner, objects, parts>>

CopyTarget(c) ==
    /\ s3calls[c].at = "target"
    /\ IF bucket.exists
       THEN StateOf(c, [s3calls[c] EXCEPT !.at = "copy", !.id = TargetId(c)])
       ELSE Ends(c, "failed")
    /\ UNCHANGED <<bucket, owner, objects, parts>>

CopyRead(c) ==
    LET body == objects[s3calls[c].in.src][CHOOSE id \in s3calls[c].in.version : TRUE]
    IN /\ s3calls[c].at = "copy"
       /\ IF body = NoBody THEN Ends(c, "failed")
          ELSE StateOf(c, [s3calls[c] EXCEPT !.at = "write", !.body = body])
       /\ UNCHANGED <<bucket, owner, objects, parts>>

\* GetObject: the metadata first, then the bytes of the version it named
BeginGet(c) ==
    /\ BeginsIn(c)
    /\ \E i \in AskedFor("get") :
         \E v \in lookup_object(bucket, i.key, i.version) :
             StateOf(c, [NewS3Call EXCEPT !.at = "read", !.in = i, !.id = v.id, !.etag = v.etag])
    /\ UNCHANGED <<bucket, owner, objects, parts>>

ReadObject(c) ==
    LET body == objects[s3calls[c].in.key][s3calls[c].id]
    IN /\ s3calls[c].at = "read"
       /\ IF body = NoBody THEN Ends(c, "failed")
          ELSE StateOf(c, [NewS3Call EXCEPT !.at = "got", !.etag = s3calls[c].etag, !.body = body])
       /\ UNCHANGED <<bucket, owner, objects, parts>>

\* mutant: the bytes of "null" go, whether or not a delete marker was made
ForgetsNullAlways(k) == [objects EXCEPT ![k][NullId] = NoBody]

\* the bytes that a delete without a version takes away
ForgetsNull(k) ==
    IF bucket.versioned THEN objects ELSE [objects EXCEPT ![k][NullId] = NoBody]

\* DeleteObject and each entry of DeleteObjects, under the store's write lock: no
\* step of another call between the two maps can tell them apart from one step
DeleteObject(c) ==
    /\ BeginsIn(c)
    /\ \E i \in AskedFor("delete") :
         /\ \/ /\ i.version = Current
               /\ bucket' = delete_versioned(bucket, i.key, c)
               /\ objects' = ForgetsNull(i.key)
            \/ \E v \in MatchingVersions(bucket, i.key, i.version) :
                 /\ i.version # Current
                 /\ bucket' = delete_version(bucket, i.key, v)
                 /\ objects' = [objects EXCEPT ![i.key][v.id] = NoBody]
    /\ Ends(c, "ok")
    /\ UNCHANGED <<owner, parts>>
-----------------------------------------------------------------------------
(* Multipart uploads.                                                       *)

CreateMultipartUpload(c) ==
    /\ BeginsIn(c)
    /\ \E i \in AskedFor("create_upload") :
         bucket' = [bucket EXCEPT !.uploads[c] = NewUpload(i.full)]
    /\ Ends(c, "ok")
    /\ UNCHANGED <<owner, objects, parts>>

BeginUploadPart(c) ==
    /\ BeginsIn(c)
    /\ \E i \in AskedFor("upload_part") :
         /\ bucket.uploads[i.upload].live
         /\ StateOf(c, [NewS3Call EXCEPT !.at = "part", !.in = i, !.body = <<c>>])
    /\ UNCHANGED <<bucket, owner, objects, parts>>

\* UploadPartCopy looks at no metadata: without a version it reads "null", and
\* the upload need not exist
BeginUploadPartCopy(c) ==
    /\ Begins(c)
    /\ \E i \in AskedFor("upload_part_copy") :
         LET body == objects[i.src][IF i.version = Current THEN NullId ELSE CHOOSE id \in i.version : TRUE]
         IN /\ body # NoBody
            /\ StateOf(c, [NewS3Call EXCEPT !.at = "part", !.in = i, !.body = body])
    /\ UNCHANGED <<bucket, owner, objects, parts>>

WritePart(c) ==
    LET i == s3calls[c].in
    IN /\ s3calls[c].at = "part"
       /\ \/ /\ parts' = [parts EXCEPT ![i.upload][i.part] = s3calls[c].body]
             /\ To(c, "record")
          \/ Ends(c, "failed") /\ UNCHANGED parts
       /\ UNCHANGED <<bucket, owner, objects>>

\* the part is recorded if the upload is still there, and acknowledged anyway
RecordPart(c) ==
    LET i == s3calls[c].in
    IN /\ s3calls[c].at = "record"
       /\ IF bucket.uploads[i.upload].live
          THEN bucket' = [bucket EXCEPT !.uploads[i.upload].parts[i.part] = s3calls[c].body]
          ELSE UNCHANGED bucket
       /\ Ends(c, IF bucket.exists THEN "ok" ELSE "failed")
       /\ UNCHANGED <<owner, objects, parts>>

\* CompleteMultipartUpload works on a copy of the upload taken here
BeginComplete(c) ==
    /\ BeginsIn(c)
    /\ \E i \in AskedFor("complete") :
         LET upload == bucket.uploads[i.upload]
         IN /\ upload.live
            /\ \A n \in ToSet(i.parts) : upload.parts[n] # NoBody
            /\ \A n \in ToSet(Front(i.parts)) : upload.parts[n] \notin SmallBodies
            /\ StateOf(c, [NewS3Call EXCEPT !.at = "assemble", !.in = i, !.id = TargetId(c),
                                          !.body = <<>>, !.upload = upload, !.todo = i.parts])
    /\ UNCHANGED <<bucket, owner, objects, parts>>

\* a part is missing, or an error of the disk, or the part is appended
AssemblePart(c) ==
    LET call == s3calls[c]
        part == parts[call.in.upload][Head(call.todo)]
    IN /\ call.at = "assemble"
       /\ \/ Ends(c, "failed")
          \/ /\ part # NoBody
             /\ StateOf(c, [call EXCEPT !.at = IF Len(call.todo) = 1 THEN "write" ELSE @,
                                         !.body = @ \o part, !.todo = Tail(@)])
       /\ UNCHANGED <<bucket, owner, objects, parts>>

abort_multipart(u) == parts' = [parts EXCEPT ![u] = NoParts]

CleanParts(c) ==
    /\ s3calls[c].at = "clean"
    /\ abort_multipart(s3calls[c].in.upload)
    /\ To(c, "sum")
    /\ UNCHANGED <<bucket, owner, objects>>

\* FULL_OBJECT is computed from the stored bytes, COMPOSITE from the recorded parts
FinalChecksum(c) ==
    LET call == s3calls[c]
        body == objects[call.in.key][call.id]
        recorded == FlattenSeq([j \in DOMAIN call.in.parts |-> call.upload.parts[call.in.parts[j]]])
    IN /\ call.at = "sum"
       /\ IF call.upload.full /\ body = NoBody THEN Ends(c, "failed")
          ELSE StateOf(c, [call EXCEPT !.at = "store",
                   !.sum = [full |-> call.upload.full,
                            body |-> IF call.upload.full THEN body ELSE recorded]])
       /\ UNCHANGED <<bucket, owner, objects, parts>>

ForgetUpload(c) ==
    /\ s3calls[c].at = "forget"
    /\ bucket' = [bucket EXCEPT !.uploads[s3calls[c].in.upload] = NoUpload]
    /\ Ends(c, "ok")
    /\ UNCHANGED <<owner, objects, parts>>

BeginAbort(c) ==
    /\ BeginsIn(c)
    /\ \E i \in AskedFor("abort") :
         /\ bucket' = [bucket EXCEPT !.uploads[i.upload] = NoUpload]
         /\ StateOf(c, [NewS3Call EXCEPT !.at = "purge", !.in = i])
    /\ UNCHANGED <<owner, objects, parts>>

PurgeParts(c) ==
    /\ s3calls[c].at = "purge"
    /\ abort_multipart(s3calls[c].in.upload)
    /\ Ends(c, "ok")
    /\ UNCHANGED <<bucket, owner, objects>>
-----------------------------------------------------------------------------
(* The bucket.                                                              *)

PutBucketVersioning(c) ==
    /\ BeginsIn(c)
    /\ \E i \in AskedFor("put_versioning") :
         bucket' = IF i.enabled THEN enable_versioning(bucket) ELSE suspend_versioning(bucket)
    /\ Ends(c, "ok")
    /\ UNCHANGED <<owner, objects, parts>>

CheckOwner(c) ==
    /\ Begins(c)
    /\ \E i \in AskedFor("create_bucket") :
         IF owner THEN Ends(c, "failed")
         ELSE StateOf(c, [NewS3Call EXCEPT !.at = "create", !.in = i])
    /\ UNCHANGED <<bucket, owner, objects, parts>>

InsertBucket(c) ==
    /\ s3calls[c].at = "create" /\ Guards = {}
    /\ bucket' = NewBucket
    /\ To(c, "own")
    /\ UNCHANGED <<owner, objects, parts>>

InsertOwner(c) ==
    /\ s3calls[c].at = "own"
    /\ owner' = TRUE
    /\ IF s3calls[c].in.lock THEN To(c, "lock") ELSE Ends(c, "ok")
    /\ UNCHANGED <<bucket, objects, parts>>

\* object lock requires versioning
LockBucket(c) ==
    /\ s3calls[c].at = "lock"
    /\ bucket' = IF bucket.exists THEN enable_versioning(bucket) ELSE bucket
    /\ Ends(c, "ok")
    /\ UNCHANGED <<owner, objects, parts>>

\* DeleteBucket: the bytes of its objects and parts, then the check
DeleteBucketObjects(c) ==
    /\ Begins(c)
    /\ \E i \in AskedFor("delete_bucket") :
         StateOf(c, [NewS3Call EXCEPT !.at = "drop", !.in = i])
    /\ objects' = [k \in ObjectKeys |-> [id \in VersionIdsOfCalls |-> NoBody]]
    /\ UNCHANGED <<bucket, owner, parts>>

DeleteBucketParts(c) ==
    /\ s3calls[c].at = "drop"
    /\ parts' = [u \in UploadIds |-> NoParts]
    /\ To(c, "check")
    /\ UNCHANGED <<bucket, owner, objects>>

CheckEmpty(c) ==
    /\ s3calls[c].at = "check"
    /\ \/ ~bucket.exists /\ Ends(c, "failed")
       \/ bucket.exists /\ ~BucketIsEmpty(bucket) /\ Ends(c, "not_empty")
       \/ bucket.exists /\ BucketIsEmpty(bucket) /\ To(c, "remove")
    /\ UNCHANGED <<bucket, owner, objects, parts>>

RemoveBucket(c) ==
    /\ s3calls[c].at = "remove" /\ Guards = {}
    /\ bucket' = NoBucket
    /\ To(c, "disown")
    /\ UNCHANGED <<owner, objects, parts>>

RemoveOwner(c) ==
    /\ s3calls[c].at = "disown"
    /\ owner' = FALSE
    /\ Ends(c, "ok")
    /\ UNCHANGED <<bucket, objects, parts>>

S3Next ==
    \E c \in S3Calls :
        \/ BeginPut(c) \/ WriteObject(c) \/ StoreMetadata(c)
        \/ BeginCopy(c) \/ CopyTarget(c) \/ CopyRead(c)
        \/ BeginGet(c) \/ ReadObject(c) \/ DeleteObject(c)
        \/ CreateMultipartUpload(c) \/ BeginUploadPart(c) \/ BeginUploadPartCopy(c)
        \/ WritePart(c) \/ RecordPart(c)
        \/ BeginComplete(c) \/ AssemblePart(c) \/ CleanParts(c) \/ FinalChecksum(c)
        \/ ForgetUpload(c) \/ BeginAbort(c) \/ PurgeParts(c)
        \/ PutBucketVersioning(c)
        \/ CheckOwner(c) \/ InsertBucket(c) \/ InsertOwner(c) \/ LockBucket(c)
        \/ DeleteBucketObjects(c) \/ DeleteBucketParts(c) \/ CheckEmpty(c)
        \/ RemoveBucket(c) \/ RemoveOwner(c)

S3Spec == S3Init /\ [][S3Next]_s3Vars
-----------------------------------------------------------------------------
(* Properties.                                                              *)

S3TypeOK ==
    /\ bucket.exists \in BOOLEAN /\ owner \in BOOLEAN
    /\ bucket.versioning \in {"Disabled", "Enabled", "Suspended"}
    /\ (bucket.versioning # "Disabled") = bucket.versioned
    /\ \A k \in ObjectKeys :
         /\ \A i \in DOMAIN bucket.keys[k] : bucket.keys[k][i].id \in VersionIdsOfCalls
         /\ ~bucket.versioned => Len(bucket.keys[k]) <= 1
         /\ \A id \in VersionIdsOfCalls : ToSet(objects[k][id]) \subseteq UploadIds \cup {-1}
    /\ \A u \in UploadIds : \A n \in PartNumbers :
         parts[u][n] # NoBody => ToSet(parts[u][n]) \subseteq UploadIds

Readable(k, v) ==
    LET body == objects[k][v.id]
    IN body = v.etag /\ (v.sum.full => v.sum.body = body)

\* In a bucket with versioning enabled, whatever puts, copies, completions,
\* aborts and deletes overlap, every version that is listed has its bytes in
\* the storage, the ones its ETag and its FULL_OBJECT checksum were computed
\* from, and GetObject never answers with the bytes of another version
\* (put_object_body, handle_copy_object, handle_complete_multipart_upload).
VersionsReadable ==
    /\ \A k \in ObjectKeys : \A v \in ToSet(bucket.keys[k]) : v.marker \/ Readable(k, v)
    /\ \A c \in S3Calls : s3calls[c].at = "got" => s3calls[c].body = s3calls[c].etag

\* A bucket that is not empty cannot be deleted: when DeleteBucket has
\* answered BucketNotEmpty, the objects of the bucket can still be read.
RefusedDeleteHarmless ==
    (\E c \in S3Calls : s3calls[c].at = "not_empty") => VersionsReadable
=============================================================================
