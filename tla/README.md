# Formal models of rustack

rustack is a local emulator of AWS services written in Rust (tokio). This
directory holds TLA+ models of its concurrent core, the TLC configurations that
check them on small instances, and TLAPS proofs of the safety properties for
every instance. Paths below are relative to the repository (`src/`); `crates/x`
stands for `src/crates/rustack-x`.

Contents: 1 inventory of the system; 2 plan; 3 the models; 4 the runs, their
bounds and fairness; 5 the proofs; 6 findings; 7 what is not modelled; 8 how to
run everything.

## 1. Inventory

Every service is a `*-core` crate (state and operations), a `*-http` crate (wire
protocol) and a `*-model` crate (types generated from Smithy). The binary
`apps/rustack` composes them behind one gateway, connects producers to consumers
through bridges, and saves and loads snapshots.

| Part | State it keeps | Operations | What is hard |
|---|---|---|---|
| SQS (`crates/sqs-core`) | a registry of queue actors (`DashMap`); per actor the storage, attributes, pending dead-letter transfers, long polls, quiesce and stop flags | send, receive, delete, change visibility, purge, set attributes; transfer, quiesce, shutdown; create and delete queue | actors that exchange messages, FIFO group blocking, timers that race receives, actors that wait for each other's replies, crash of an actor |
| Step Functions engine (`crates/stepfunctions-core/src/engine`) | a tree of frames per execution (`FrameScheduler`), calls with a cancellation state, rounds of parallel and map states, retry timers, leases of frame slots and of dispatch slots | advance, complete, retire, stop, deadline, supersede | cancellation races completion; children of a failed round retire before the parent retries; budgets shared by executions; lost wake-ups |
| Step Functions registry and callbacks (`registry`, `engine/callback`) | machines, executions, names, revisions, task tokens with heartbeats | create, start, stop, describe, send task success, failure, heartbeat; retention; snapshot | a callback that races a timeout or a stop; name reuse after retention |
| Lambda provider and work manager (`crates/lambda-core`: `work.rs`, `invocation.rs`, `deployment.rs`) | functions, versions, aliases, deployments with a generation, reserved concurrency permits, supervised invocation futures | create, update, publish, invoke (sync, async), cancel, drain | permits held by cancelled invocations until their cleanup settles; stale deployment results |
| Lambda Docker backend (`docker/`) | a pool of warm environments, image leases, a journal of container ownership on disk, the lock of the data directory | acquire, release, retire, recover | a crash between creating a container and writing the journal; cancelled acquisitions; retention until absence is proved |
| Lambda runtime interface (`crates/lambda-runtime`) | one session actor per environment: phase, the pending invocation, the long poll of the runtime | next, response, error, invoke, cancel, deadline | a response that arrives after its invocation was cancelled or timed out |
| DynamoDB and Streams (`crates/dynamodb-core`, `crates/dynamodbstreams-core`) | tables, admission permits (`RequestTracker`), stream buffers and iterators | item operations, transactions, quiesce, emit, iterate | a cancelled request whose blocking task still runs; order of stream records against writes; trimmed records under an iterator |
| Kinesis (`crates/kinesis-core`) | an actor per shard, sequence numbers, iterators | put, get, split, merge | records written while a shard closes |
| S3 (`crates/s3-core`) | buckets, object versions, delete markers, multipart uploads, blobs | put, copy, delete, list, multipart, conditional writes | visibility of versions, completion of a multipart upload under concurrent part uploads |
| SNS, EventBridge (`crates/sns-core`, `crates/events-core`) | topics and subscriptions, rules and targets; a bounded, drainable dispatch queue | publish, put events, deliver, quiesce | delivery in flight while producers are drained |
| Secrets Manager, SSM, KMS | versions, staging labels, key states | put, move label, rotate, delete with recovery window | a label on exactly one version |
| IAM, STS, SES, CloudWatch, Logs, API Gateway, CloudFront | tables of resources | CRUD, queries, request translation | little: sequential, data-oriented |
| Gateway, workflows, snapshots (`apps/rustack`) | the providers, the workflow supervisor, the snapshot session and its lease | start, serve, snapshot, drain | order of the drain: producers, workflows, consumers; a crash while a snapshot is written |

Calls between parts: the gateway dispatches requests to providers; SNS,
EventBridge, DynamoDB Streams and Step Functions call SQS, Lambda and DynamoDB
through the bridges of `apps/rustack/src/*_bridge.rs`; `runtime.rs` quiesces
producers (EventBridge, SNS, DynamoDB) before the workflow supervisor drains, and
consumers (Lambda, SQS) after it.

What makes each of the concurrent parts correct:

- SQS: no accepted message is lost, duplicated or overtaken in its group; a
  transfer between two actors is owned by exactly one of them at any time; every
  operation that waits returns.
- Step Functions: an execution has one outcome; a call is either completed or
  cancelled and retired before its slot is reused; the scheduler parks only when
  nothing can run; budgets are given back exactly once.
- Lambda: an environment serves one invocation at a time; a result reaches the
  invocation it belongs to or nobody; a permit is released exactly when the
  resources behind it are settled; after a crash every container of the old
  process is found and removed.
- DynamoDB: quiesce returns only when no admitted operation still runs; the
  stream has the order of the writes.
- Snapshots: a snapshot is complete or absent.

## 2. Plan

SQS came first: it is the most used consumer of the system (SNS, EventBridge and
Step Functions all deliver to it), its actors really run concurrently and send
each other messages, and its code is small enough to be modelled completely. The
parts that follow are those where a failure between two steps, or the order of
two actors, decides.

Done:

1. `SqsStorage`, `SqsQueues`.
2. `LambdaSession`: the session actor of the runtime interface.
3. `FrameScheduler` and `StepExecution`: the Step Functions engine, and
   `ExecutionContract`, the abstract specification it implements.
4. `Snapshots`: publication and recovery of snapshots through process deaths and
   power failures.
5. `DockerEnvironments` and `DockerPool` above it: containers through lost
   answers and panics.
6. `KinesisStreams`, `SecretVersions`, `DynamoTables` (with DynamoDB Streams),
   `S3Objects`.
7. Proofs of the safety properties of 1 to 5 and of `KinesisStreams`,
   `SecretVersions` and `DynamoTables`, but for those that section 5 lists as only
   model-checked; the refinement of `ExecutionContract`, step by step.

Left, in this order:

8. The ownership journal of the Docker backend (a crash between the journal's
   write and the container's creation) and the host lease.
9. The dispatch queues of SNS and EventBridge, and the drain order of
   `runtime.rs` as a composition of the quiesce protocols.
10. SSM labels, Lambda deployments, the rest of S3 (object lock, snapshot).

## 3. The models

### SQS

`SqsStorage` has the two storages of `queue/storage.rs` as pure operators on
records, and the receive helpers of `queue/actor.rs` that work on them.
`SqsQueues` extends it with the actors (`queue/actor.rs`) and the registry
(`provider.rs`). `MCSqs` and `MCSqsSafety` give names to the small instances.

| Model | Code |
|---|---|
| `Queues` | incarnations of queues: what one `create_queue` makes. Two incarnations with one `NameOf` model re-creation and concurrent creation |
| `store[q]` | `QueueActor.storage`; `available`, `delayed`, `inFlight` of a standard queue; `groups`, `blocked`, `inFlight`, `dedup`, `next` of a FIFO queue |
| `chan[q]` | `QueueActor.commands`, the internal commands (Transfer, Quiesce, Shutdown) |
| `pending[q]` | `RedriveManager.pending`, each entry with the state of its oneshot reply |
| `quiescing`, `quiesceReply`, `stopping` | the flags of the same names |
| `polls[q]`, `todo[q]` | `pending_long_polls`, and the part `fulfill_pending_long_polls` has still to visit |
| `phase[q]` | where the loop of `run()` is: "top" before `settle_transfers`, "select" in the select, "fulfil" and "cleanup" in a pass over the polls |
| `registry`, `status`, `shutdown` | `RustackSqs.queues`, the life of the actor task, `QueueHandle.shutdown` |
| `provider` | progress of `quiesce` or `shutdown_all` over the handles |
| `gone` | history variable: ids that were deleted, purged or dropped with their queue |

One action per command or branch. `SendMessageStandard`, `SendMessageFifo`,
`ReceiveMessage`, `DeleteMessage`, `ChangeVisibility`, `PurgeQueue`,
`SetAttributes` and `DropPoll` are the client's; `HandleTransfer`,
`HandleQuiesce`, `HandleShutdown` and `ChannelClosed` are the branch on the
command channel; `WaitForTransfer`, `PeriodicCleanup` and `ExpireLongPolls` the
other branches of the select; `LoopTop`, `LoopExit` and `FulfillPoll` the code
between; `Crash` a panic; `CreateCheck`, `CreateInsert`, `DeleteQueue`,
`SendShutdown`, `StartOperation`, `VisitHandle`, `HandleVisited` and
`OperationDone` the provider. A branch that cannot have left work for the top of
the loop goes straight back to "select" (`NothingDue`), which removes states and
no behaviour.

Abstractions:

- Time. Every `Instant` is a countdown, and `Tick` lets one unit pass. Timers have
  no other order than their values, so this is exact up to the length of a unit.
- Message data. A body is its size; attributes, hashes and receipt handles are
  dropped. A stale receipt handle finds no entry and changes nothing, so only
  handles of messages in flight appear.
- Client commands take effect when the actor handles them. Sending them is not a
  step: nothing can observe a client command in the channel, except that it
  occupies room. `ChanCap` is therefore the room for internal commands, and a
  full channel is a possible outcome of every hand-off.
- Nondeterminism. Where the code iterates over a `HashMap`, or where `try_send`
  races the other end, an operator yields the set of its possible results.
- `approximate_receive_count` saturates at `CountCap` instead of 2^32 - 1; an
  assumption keeps every redrive limit at or below it, so no guard can tell.
- `route.shutdown` is loaded and then the command is sent without a lock, so
  `Routable` admits a target whose removal has begun.

### The session of a Lambda environment

`LambdaSession` models `crates/lambda-runtime/src/session.rs`: one actor
(`SessionActor::run`) and the futures that talk to it from other threads.

| Model | Code |
|---|---|
| `phase`, `held`, `idle`, `everDelivered` | the fields of `SessionActor` (`poll` is `held`) |
| `inbox`, `stop`, `bootstrap`, `initError` | the command channel, the two watches, the take-once notification |
| `pc`, `hand` | where the actor is: in the select, or in one of the three steps of a command |
| `call[a]` | one `submit` and its ticket, with the oneshots `admitted` and `response`, the cancellation watch and what the caller got |
| `poll[p]` | one `next`, its oneshot `reply` and the `receipt` inside the delivery |
| `post[c]` | one `complete` or `initialization_error` |

Callers: `Submit`, `Submitted` (admission, an error, expiry, or the future is
dropped), `Cancel`, `Settle`. The runtime: `NextPoll`, `TakeDelivery` and
`SendReceipt` (two steps, with the actor free to move between them), `EndPoll`
(error, expiry or a broken connection), `PostResult` for any attempt,
`PostInitError`. The owner: `Close`. The actor: `Stopped`, `TimerFires`,
`PhaseEvent` and `Receive` are the branches of the select; `CommandReceipt`,
then `ExecuteBroken` or the `Execute...` of the command, then `Deliver` are the
three steps of a command.

Abstractions: all `SessionError` codes are one value and payloads are the post
that carried them; a send that is refused has no effect and is no step; a post
names one attempt (the optional second header only refuses more); the head of
the loop and the select are one state, because the select waits for everything
the head looks at; the select is biased, but its branches are polled one after
another and timers fire late, so no branch waits for an earlier one. A response
that cannot be sent because the caller has just gone is the same as the
cancellation seen a moment earlier.

### An execution of Step Functions

`FrameScheduler` has the scheduler of `engine/scheduler/` and the interpreter of
one frame (`engine/mod.rs`, `states.rs`, `recovery.rs`, `fanout.rs`) as operators
on one record `g`, from a value to the set of values a method can return.
`StepExecution` has the actor of `engine/runtime/structured/mod.rs` around it.

| Model | Code |
|---|---|
| `g.frames`, `g.ready`, `g.queued` | `FrameScheduler.frames`, the ready queue and its membership set |
| `g.frames[i].phase`, `round`, `calls`, `notification` | the driver's `Phase`, the `Round` of a Map or Parallel state, the calls with their cancellation state, whether the parent was told |
| `g.pending`, `g.cancels`, `g.blocked` | notices and cancellations to emit, frames that wait for a slot |
| `worker` | the blocking task the scheduler is lent to for one advance or complete |
| `actor` | the fields of `Actor`: `calls`, `pending`, `acks`, `forced`, `committed`, `published`, `park`, `uncertain` |
| `watch`, `mailbox` | the watcher task of each accepted call (`resource.rs`), the results on their way |
| `born`, `told`, `accepted` | history variables for the properties |

The language is abstract: a Ready frame may run any state type of its plan, a
failed attempt may be retried, caught or fail. A plan bounds the machine
(transitions, nesting, frames, deadline) and names the faults its behaviours may
meet: a stop, a refused dispatch, a call whose cleanup is uncertain, a full
history, an evaluation error, a result that is too large, exhausted memory, a
branch that cannot be prepared, other executions that take frame slots.
`complete` and `advance` run on the worker, so that a stop, the deadline and the
exit of a watcher happen while the scheduler is away.

`ExecutionContract` says what an execution promises, without frames or workers:
an attempt is handed out at most once and never after the verdict; the verdict
is published once; the execution ends when no call runs any more.
`StepExecution` instantiates it with `verdict <- actor.published`,
`open <-` the calls whose watcher is still at work, `used <- accepted`,
`ended <- actor.ended`; `KeepsContract` is checked as a property and proved.

### Snapshots

`Snapshots` follows `apps/rustack/src/snapshot.rs` await by await. A process
(`runtime[p]`) takes the lease, loads, serves, saves, stops; its transaction
(`task`) goes on when the observation of it times out, as `SnapshotTask` does.
`Exit` ends a process at any step (a kill or an orderly end), `PowerFailure` all
of them. The file system is external and assumed to be ordered: entries of the
root reach the disk in the order they were changed and at the latest at the next
`sync_directory`; the content of a directory is on disk only after `sync_tree`;
a directory being removed is damaged first. `Recoverable` quantifies over every
root a power failure could leave, `ReplacesLoaded` compares what a save replaces
with what its process imported. A generation that was renamed into place but
whose sync was cut off, and which nobody was told of, may be loaded by the next
process and vanish in a later power failure: no save had reported it.

### Docker environments and their pool

`DockerEnvironments` has the owner of `docker/environment/`: for each
environment its phase, the worker's position, what is known of the create
request (`progress`), who holds the record (`holder`: the inbox, a worker, the
recovery after a failure, the emergency cleanup of a dropped actor) and the
container as the daemon has it. The daemon applies or refuses a request at any
time, also after its answer was lost. `DockerPool` extends it with the pool
actor (`top`, `dispatch`, `select`), the jobs that hold a handle and the callers.
The relay and the function container are one container, the budgets of count and
memory are one capacity, and an environment has the id of its call. After a
failed worker the code may show an environment as Retiring that its recovery has
already removed, until the actor reads the result; the model has this too.

### Kinesis streams

`KinesisStreams` has one stream name with numbered incarnations, a shard actor
per index with its channel, the log with its trim offset, and the calls of
`provider.rs` split where they leave the `DashMap` guard. `guard` is the
exclusive guard that split and merge keep across their awaits; `blocked` are the
tasks whose thread waits for it, of `Workers` threads of the runtime. A hash key
is a number up to `HashMax`, a sequence number a triple in the code's order; an
iterator token does not name the incarnation, in the model as in the code. A
stream may be created without shards: a put into it fails, a deletion has no
actor to stop, and a later creation uses its incarnation's number again.

The future of a DeleteStream, SplitShard or MergeShards is dropped where it waits
for a shard actor when the gateway's time for the request is up (`gateway.rs:268`)
or the client leaves: `AbandonControl`. The command already sent is still handled,
the next actor is never asked, and the guard goes. The parents of an abandoned
resharding have left the active shards (`provider.rs:1294`, `1390-1391`) and never
reach the closed ones; the history `orphans` has them and `LostKeys` their keys.
A later put of such a key goes to the first shard of the list (`236-237`).

### Secrets and DynamoDB

`SecretVersions` has the record of one secret: versions in creation order, the
label table and the cached labels of each version. `CreateSecret` and
`DeleteSecret` are two steps each, as in the code, the others run under the
map's guard. `DynamoTables` has one table, its stream, the operation gate, the
request tracker, idempotency tokens and the archive that the next process
imports. A request takes a step per item written and per record emitted, and may
panic at each. Expressions are three conditions, an item one value; time is the
end of a token's window. Between the two exports of a snapshot a process does not
restart, because a snapshot is published whole (`Snapshots`).

### S3

`S3Objects` has one bucket: the versions of its keys, newest first, its multipart
uploads, and apart from both the bytes by key and version and the bytes of parts,
as `state/` and `storage.rs` keep them. A call takes one step per map it touches:
`BeginPut` chooses the version, `WriteObject` stores the bytes, `StoreMetadata`
the metadata; CopyObject holds nothing between its steps; CompleteMultipartUpload
works on a copy of the upload record and reads the parts one by one. `Guards` are
the calls that keep a reference into the map of buckets, which a removal or a
replacement of the bucket must wait for. A body is the sequence of the calls
whose bytes it consists of, an ETag or a checksum the body it was computed from,
so bytes and their description can be compared. `S3Next` has CreateBucket,
DeleteBucket and PutBucketVersioning too; CORS rules, which DeleteBucket drops
with the bytes, are left out.

## 4. Runs

| Run | Instance | Checks | Result |
|---|---|---|---|
| `SqsSafety` | three set-ups, one per behaviour: a FIFO queue with 2 groups, 2 deduplication ids, 4 messages, visibility 0 and 1, receives of 1 and 2, a long poll and purge; a FIFO queue with a dead-letter queue that withdraws its permission or crashes; a standard queue with one that is deleted or crashes, delayed messages and a quiesce | `TypeOK`, `GroupBlocking`, `GroupOrder`, `NeverOvertaken`, `Conservation`, `TransferTracked`, `QuiesceBarrier` | hold |
| `SqsShutdown` | two standard queues that are each other's dead-letter queues; one is deleted while `quiesce` or `shutdown_all` runs; a crash | `TransfersSettle`, `ShutdownCompletes` | hold, under `ControlFairSpec` |
| `SqsLive` | one FIFO name, two concurrent creations, deletion, purge, an attribute change, long polls, expiry | `OrphansStop`, `PollsAnswered`, `ExpiredReturned` | hold, under `FairSpec` |
| `SqsCycle` | FIFO queues in a dead-letter cycle, window longer than a round trip | `Conservation` | violated, finding 1 |
| `SqsMissedWakeup` | one FIFO queue, 2 groups, a long poll | `NoMissedWakeup` | violated, finding 2 |
| `LambdaSession` | one session, 2 callers, 2 polls, 1 post, with symmetry | `TypeOK`, `DeliveredAtMostOnce`, `DeadlinesAgree`, `TicketOwned`, `ResultIsOwn`, `NoLostWakeup` | hold |
| `LambdaLive` | one caller, 2 polls, 1 post | `AttemptAnswered`, `PollAnswered` | hold, under `FairSpec` |
| `LambdaInitRace` | one caller, one poll, one post | `InitErrorBeforeDelivery` | violated, finding 3 |
| `StepExecution` | ten plans of at most 5 transitions, 4 frames and 2 calls, each with its faults | `TypeOK`, `SchedulerSound`, `LineageRetained`, `NestedNotices`, `ParkedIsQuiet`, `VerdictAgrees`, `JoinBarrier`, `KeepsContract`, `Ends` | hold, `Ends` under `FairSpec` |
| `Services` | six services, one per behaviour: 2 processes and 4 snapshot generations; 2 calls, one environment at a time and one fault; 2 puts, a reader and 2 administrators on up to 3 shards; 2 clients, 3 versions and a limit of 2; 3 DynamoDB requests, 2 keys, 2 tokens, a panic at any step and a restart; 3 overlapping S3 calls on a bucket with a first version and an open upload, or on a name without a bucket | `ServicesTypeOK`, `Recoverable`, `ReplacesLoaded`, `ContainersOwned`, `HandlesKept`, `SettledMeansGone`, `KeyOrder`, `ReadsContiguous`, `LabelsResolve`, `StreamReplays`, `VersionsReadable` | hold |
| `KinesisReshard` | 2 puts, one administrator, 2 runtime threads | `ReshardEnds` | violated, finding 4 |
| `S3DeleteBucket` | an empty bucket, 2 calls: put or delete the bucket | `RefusedDeleteHarmless` | violated, finding 5 |

What the properties say:

- `GroupBlocking`: a FIFO group is blocked exactly while one of its messages is
  outstanding (received, or on its way to the dead-letter queue), and at most one
  is. Three tables of two owners must agree on this.
- `GroupOrder`, `NeverOvertaken`: groups are sorted, what returns goes before what
  waits, and no receive hands out a message before an earlier one of its group.
- `Conservation`: an accepted message is in exactly one place until it is deleted,
  purged or dropped with its queue. A transfer counts as the source's until its
  target has said ok.
- `TransferTracked`: while the reply of a transfer is missing, a running queue has
  the command in its channel. So no actor waits for a reply that cannot come.
- `QuiesceBarrier`: after `quiesce` returned Ok nothing is under way between the
  queues it visited.
- `TransfersSettle`, `ShutdownCompletes` (of a queue, and of a provider-wide
  operation), `OrphansStop`, `PollsAnswered`, `ExpiredReturned`: what must happen in the end.
- `DeliveredAtMostOnce`: an event is given to the runtime once, although an offer
  that nobody consumed is made again.
- `DeadlinesAgree`: the actor's deadline of a delivered event is the one the
  runtime was told, although the two are computed on different threads.
- `TicketOwned`: a caller with a ticket has its answer, or the actor has its attempt.
- `ResultIsOwn`: a result was posted for the attempt of the caller that gets it.
- `NoLostWakeup`: the actor never sleeps on a queued event while a poll waits.
- `AttemptAnswered`, `PollAnswered`: the session's own timers answer everyone.
- `SchedulerSound`: the scheduler's own consistency failure is unreachable, and its
  count of unretired calls is right.
- `LineageRetained`: while a call waits or runs, its frame and all ancestors stay.
- `NestedNotices`: a branch is reported once, after everything below it.
- `ParkedIsQuiet`: a parked execution has nothing to do and something to wake it.
- `VerdictAgrees`: the verdict the caller sees is the scheduler's outcome, whatever
  overtook it. The exception is the code's own: the journal may refuse a verdict
  whose data exceed the bytes reserved for it, then the caller is told that the
  history limit was exceeded and the scheduler keeps its outcome
  (`structured/mod.rs:274-295`). That may only happen to an outcome with data.
- `KeepsContract`: the caller sees one verdict, no call is accepted after it, and
  an execution ends only when no accepted call runs any more.
- `JoinBarrier`: a round with a branch that failed, could not be prepared or left
  a result that cannot be stored is retried, caught or failed only when no call of
  its branches runs any more. Nothing is claimed of a round whose branches all
  succeeded and whose own result cannot be evaluated: the code does not wait there
  (`lifecycle.rs:36-39`), and calls that timed out below and were caught may run on.
- `Ends`: every execution ends, whatever its tasks do.
- `Recoverable`, `ReplacesLoaded`: after any interruption the next start finds a
  whole generation not older than the last reported one; a save replaces the
  generation its own process imported.
- `ContainersOwned`, `HandlesKept`: a container that exists, or that a request in
  flight may create, has an owner that cleans it up; a handle is in one place.
- `SettledMeansGone`: a settlement without a consumed result proves removal.
- `KeyOrder`: records of one hash key are stored in the order of their sequence
  numbers across splits and merges, and one open shard owns each key; except the
  keys that an abandoned split or merge has taken, which no shard owns.
- `ReadsContiguous`: a reader misses no record that retention has not removed.
- `LabelsResolve`: a label leads to one stored version by either lookup.
- `StreamReplays`: replaying the stream gives the table, also in every snapshot a
  process starts from; no token is applied twice within its window.
- `VersionsReadable`: with versioning enabled every listed version has the bytes
  its ETag and full checksum were computed from, whatever overlaps.
- `RefusedDeleteHarmless`: after a DeleteBucket that was refused because the bucket
  is not empty, its objects can still be read.

Bounds and why they are enough. Two groups and batches of two let one receive
mix groups that are blocked, poisoned and healthy; four messages put two in a
group behind an outstanding one and leave one to send afterwards. Two queues are
all that a transfer involves; a chain of three is two transfers that share no
state but the middle queue's storage. A redrive limit of 1 makes the second
receive the deadly one. `MaxPending = 2` and `ChanCap = 2` are reached, so the
refusals at the limits happen; in `SqsShutdown` the channel has room for all that
can be in it (`ChanCap = 4`), because tokio serves senders that wait for room in
order, a fairness the model does not have. Time values of 0 and 1 (2 for polls
and 6 for the window of the cycle) give each timer both orders with each event.
`MaxMsgs` and `MaxPolls` only limit how much clients do.
In the session two polls are what a second offer of an event needs, two callers
what `Busy` and a post for the wrong attempt need. A budget of 1, a deadline of 2
and an idle lease of 2 put the handler timeout before the deadline when the event
is consumed at once and together with it when it is consumed one unit later.
Commands are sent until `Horizon = 1`; the clock stops at `MaxTime`, but an actor
that sleeps gets to its instant, so no timer is cut off. With a mailbox of 1 a
command still waits while another is handled.

`SqsSafety` and `Services` check several instances in one run: a variable
`focus`, chosen in the initial state, says which one a behaviour is about, and
everything else stays as it starts. The parts share no state, so nothing is lost;
each property is about its own part and holds trivially of the others' initial
states. The bounds of each part are the named operators of `MCSqsSafety` and
`MCServices`. In the plans of `MCStep` two levels of fan-out are what a cancelled
subtree needs, two branches what a failure beside a running call needs; a frame
limit of 3 or 4, `GlobalFrames = 4` and two slots taken by others make frames
wait for slots; `ScanLimit = 2` is reached. In the plans with the fault "history"
the journal refuses an event for want of space, or a verdict that is too long; in
the last plan a call is given up below a round whose result cannot be evaluated. Four generations let two saves follow
a recovery. One fault of an environment is enough to reach each recovery path;
with a capacity of 1 the second call has to evict or to reuse. With
`Workers = 9` the Kinesis properties are checked with threads to spare, with 2 the
violation of finding 4 appears; a stream without shards is the first of two, with
one put call and no reader; after an abandoned resharding the stream is used on,
split and merged again, but not created anew, and a deletion is abandoned before
anything is read. Three versions with a limit of 2 make the cleanup
choose. Two DynamoDB requests overlap; a third meets what they left. Three S3
calls are two writers of a key and a reader, or a completion between an upload of
its part and an abort. There `S3Bound` keeps object calls to buckets with
versioning enabled and deletions to empty buckets that nothing else uses: outside
these the code breaks `VersionsReadable`, in the ways that finding 5 and the
observations of section 6 tell.

Runs with `CHECK_DEADLOCK FALSE` end in states where every actor has stopped or
crashed, or where the clients have no message left to send; the others have no
such state because a queue that lives can always be received from.

Fairness. `tokio::select!` polls its branches in random order, so a branch that
is ready again and again is taken in the end: strong fairness of the command
branch, the cleanup interval and the poll deadline. The code between two selects
does not wait: weak fairness of `LoopStep`. A reply that has arrived stays:
weak fairness of `WaitForTransfer`. The futures of `shutdown`, `quiesce` and
`shutdown_all` are polled until they end: weak fairness of `SendShutdown` and
`ProviderStep`. Time goes on: weak fairness of `Tick`. Nothing is assumed of
clients or of crashes. In the session weak fairness of the actor (it never blocks
and its timers fire) and of time is enough: it handles finitely many commands,
and then only its timer is left. Nothing is assumed of callers and the runtime.
An execution of Step Functions: its actor's loop comes round while it has
something to do, the blocking worker gets a thread, time passes, and a watcher
that was told to stop settles its call, cleanly or not. A task need never answer
and a dispatch permit need never be free. The first two are written out as
`[]<>` formulas, equivalent to weak fairness, because they are cheaper to check.
Kinesis: a shard actor and a resharding call run when they can and a thread is
free. The other services are checked for safety only.

Every property of a passing run has a mutant in `PROJECT.json`: a definition of
the model replaced by one with a plausible bug, for which TLC finds the property
violated. Mutants stand directly before the definition they replace and are used
nowhere else.

## 5. Proofs

TLC shows a property of a small instance; the theorems below hold for every value
of the constants that satisfies the named assumptions, in any number of steps.
Proofs are in modules of their own: `SqsProofs`, `LambdaSessionProofs`, `RuntimeProofs`
(snapshots and the Docker pool), `ServiceProofs` (Secrets Manager, DynamoDB, Kinesis) and
`StepProofs`. `StepProofs` stands on two libraries about the scheduler:
`FrameProofs` (the parts of a method, and the invariants of one scheduler value)
and `SchedulerProofs` (each of `advance`, `complete`, `retired` keeps them, and what it may
change). `FilteringProofs` has the induction and the lemmas about sequences that
all but the first two share.

| Module | Theorem | Statement |
|---|---|---|
| `SqsProofs` | `TypeCorrect`, `GroupBlockingCorrect`, `GroupOrderCorrect`, `TransferTrackedCorrect`, `QuiesceBarrierCorrect` | `Spec => []TypeOK`, ... |
| | `NeverOvertakenCorrect` | `Spec => NeverOvertaken`, an action property |
| `LambdaSessionProofs` | `TypeCorrect`, `DeliveredOnce`, `DeadlinesAgreed`, `TicketsOwned`, `ResultsOwn`, `NoWakeupLost` | each safety property of `LambdaSession` |
| `RuntimeProofs` | `SnapshotTypeCorrect`, `RecoverableAlways` | `SnapshotSpec => []SnapshotTypeOK`, `[]Recoverable` |
| | `ReplacesLoadedAlways` | `SnapshotSpec => ReplacesLoaded`, an action property |
| | `PoolInvariant`, `ContainersOwnedAlways`, `HandlesKeptAlways`, `SettledMeansGoneAlways` | `PoolSpec => []PoolInv`, and the safety properties of the pool |
| `ServiceProofs` | `LabelsResolveAlways` | `SecretSpec => []LabelsResolve` |
| | `DynamoInvariant`, `StreamReplaysAlways` | `DynamoSpec => []DynamoInv`, `[]StreamReplays` |
| | `KinesisInvariant`, `KinesisTypeCorrect`, `KeyOrderAlways`, `ReadsContiguousAlways` | `KinesisSpec => []KinesisInv`, the type invariant, and the safety properties of a stream |
| `StepProofs` | `StepInvariant` | `Spec => [](Attended /\ Traced)`, the inductive invariant of an execution |
| | `StepTypeOK`, `StepSchedulerSound`, `StepVerdictAgrees`, `StepLineageRetained`, `StepNestedNotices` | `Spec => []TypeOK`, ... |
| | `StepJoinBarrier` | `Spec => JoinBarrier`, an action property |
| | `StepKeepsContract` | `Spec => KeepsContract`: `StepExecution` implements `ExecutionContract` |

### Assumptions

TLC evaluates every assumption in the runs of its module.

- `GroupsAssumption`: groups are finitely many numbers, `NoGroup` is none of them.
  `BoundsAssumption`, `QueuesAssumption`, `AttrsAssumption`,
  `ParametersAssumption`: types, and redrive limits at or below the cap of the
  receive count.
- `SessionAssumption`: `None` and the answer "error" are no attempt, poll or post;
  leases and budgets are positive, as the constants of `session.rs` are.
- `SnapshotAssumption`: `NoOwner` is no process, at least two generations fit.
- `EnvironmentsAssumption`, `PoolAssumption`: calls are finitely many positive
  numbers (their finiteness is what makes a reservation countable), limits are
  numbers.
- `KinesisAssumption`: `NoTaskId` is no client, batches are not empty, a shard's
  index fits into the 16 bits that a sequence number has for it (the code masks it:
  the 65537th shard spawned could be numbered before its parent), and the hash keys
  are many enough that `divide_evenly` gives no shard an empty range. In the code
  there are 2^128 keys, and counts far below their square root.
- `SchedulerAssumption`, `ExecutionAssumption`: a plan uses at least one of the state
  types, its limits and those of the process are positive, rounds run at least
  one branch at a time, and the frames other executions can take are a number.
- `SecretAssumption`, `DynamoAssumption`: the values that stand for "none" are none
  of the ids, and clients send operations that the dispatcher has.

### Inductive invariants

None of the properties is inductive. What has to be added tells how the code works:

SQS: `Inv == TypeOK /\ QueuesInv`. `QueuesInv` says `QueueInv(q, store[q],
pending[q])` of each queue: for a FIFO queue `GroupInv(s, P)`, a statement about
the storage together with the pending transfers of its actor. It is stronger than
`GroupBlocking` and `GroupOrder` in three respects:

- uniqueness is about entries, not messages (`OneEach`): two entries of one
  message would make `FifoReturn` push it twice;
- in-flight and pending entries belong to different groups, so that settling a
  transfer cannot unblock a group that has a delivery;
- every sequence number is below `next`, also that of an outstanding message, so
  that what is enqueued comes after it and what is pushed to the front before all
  that waits; and a message sits in the group it names.

There is one lemma per storage operation and one per action of `SqsQueues`. `TransferTrackedCorrect` is a second induction on top of `Inv`: its
lemmas follow a command through appending, `Tail`, and the end of an actor.
`QuiesceBarrierCorrect` rests on `BarrierInv`: a queue that has answered is
quiescing and has no transfer, which stays so because a quiescing actor starts
none; the provider collects only such answers. `NeverOvertakenCorrect` needs no
further invariant: a step delivers only where it receives, and what
`TryReceiveFifo` takes from a sorted group with nothing outstanding is its least.

Lambda session: `SessionInv`. The commands in the channel are each sent once by
their owner and unanswered (`InboxInv`), also the one in the actor's hand
(`HandInv`); an admitted attempt without a response is the one the phase names
(`CallInv`); a returned event is known to exactly one poll, and while it is
offered the actor can only learn of that poll (`PollInv`, `PhaseInv`); no poll is
held while an event is offered or delivered (`HeldInv`). The three steps of a
command are covered by `ReceivedInv` and one lemma per `Execute` action; `close`,
which answers everyone at once, by lemmas about what it leaves (`SettledReturned`,
`SettledOwn`).

Step Functions: `Attended /\ Traced`, in three layers.

- One scheduler value: `Sound(g, p)`. `SchedulerSound` states the check that the code
  makes of its own frames; by itself it is not kept by any method. `Core` adds that
  children and parents name each other and are numbered in the order of their age
  (`Tree`), that the attempts a frame has used and the transitions left stay within the
  budget (`Budget`), and that an outcome cancels every frame (`Halted`). `Branches` relates
  a round to its branches: one that has not reported is expected by the round its parent
  has open (`Expected`), and an open round that has not failed finds each branch
  it waits for, owing an output of its own (`Owed`). That is why the results of a cancelled
  round never reach the round that follows it. `Nested` says who has reported
  has nobody below that still has to; `Accounted` that the counters count.
- What a method may do: `advance` and `complete` return a result that is `Fine`
  (the next value is `Sound` and `Follows` the last: frames only join by `ChildStarted`,
  calls only by `Transition`, notices are told once, a failed round that is closed
  has no branch left), and `retired` only `Loses` (calls leave the books, and
  with them nothing that still has a call below). The methods recurse over queues and
  trees by functions chosen on `0..n`; each has a lemma that follows the function by
  induction on `n` (`CancelFold`, `PruneFold`, `SkipFold`, `AckFold`).
- The actor: `Attended`. What it tends is on the scheduler's books: a watched call
  is listed and unsettled, and calls it has accepted, queued or acknowledged
  have attempts that are not used again (`Tended`, `Known`). What a finished worker
  brings still makes sense for the actor as it is now (`Sensible`): a call it has not heard
  of, a cancellation of a call on the books. `Decision` says where the verdict stands
  while the worker is away: while it waits for a permit there is none; while it runs
  there is one only if a stop or the deadline forced it; when it is back the verdict
  is the scheduler's outcome, or a verdict that the journal refused, which only an
outcome with data can have been (`Said`). `VerdictAgrees` is its last clause.

`Traced` makes the histories true of the frames: `born` has the parents of the frames
that are there (`Recorded`), and `told` lists exactly the children that have reported or
are gone, each after those below it (`Reports`). `LineageRetained` follows because frames of
calls are kept with all their ancestors (`Line` is followed by induction along
the order of age); `NestedNotices` is `Reports`; `JoinBarrier` follows from
`Closes` in `Follows`: the frames of a failed round that may go are gone with all
below them, and a running call keeps its own. For the refinement every step is mapped:
dispatching a call is `Accept`, the exit of a watcher `Release`, the step in which the
verdict appears (a stop, the deadline, a failed evaluation, an update that halts the
scheduler) `Publish`, `finish` is `End`, and all others leave the contract's variables
alone.

Snapshots: `HistoryInv` orders the counters (acknowledged, loaded, prepared);
`FilesInv` says of every root in the journal, hence of every root a power failure
could leave, that recovery would find an acknowledged generation or a later one;
`ProcessesInv` says for each position of a load and of a save what its process has
already made of the directory (`LoadInv`, `SaveInv`), and that only the process
with the lease is anywhere in them. `Recoverable` follows from `FilesInv` alone; that a step keeps
it needs the positions.

Docker: `Sound(r)` ties the owner's knowledge of one environment (position,
progress, holder, announcement) to its container; `Follows(r, q)` is what every
step of the owner does to a record, so that the pool's lemmas never look inside an
owner's step. `HandleKept`, `JobInv` and `CallerInv` tie environment, job and
caller together; `CapacityInv` counts reservations. The proof refused the property
as it was stated first: `HandlesKept` said that an environment has a job until its
owner is done with it, and with two faults a job that recovered a lost manager can
end while the manager's drop retires the environment once more. The property now
says what the pool relies on: until its removal is announced.

Kinesis: `KeyOrder` needs more than order. `RecordInv` says that a record already
stored precedes what any *open* shard that takes its key would store next, of
whichever generation: so a parent must be closed before its children are spawned,
a child's index is above every index spawned before (`StreamInv`), and the clock
of a child is not behind its parent's. `Disjoint` and `SpaceInv` are about the key
space: open shards of an incarnation never overlap, active ones cover all keys but
`LostKeys` at rest, and while the guard is held they do so together with the ranges
of the children to come (`Resharding`); no shard in use has a key that was lost
(`Apart`), so what an abandoned resharding has uncovered stays uncovered. `PutInv`
says that a call's snapshot of senders covers every other key however old it is, so
that its routing falls back to the first shard for a lost key only. `CommandsInv`
ties each command in a channel to the one call that waits for it, or to a call that
was abandoned and whose shard nobody will ask again (`Forsaken`): a client has one
command under way, and an actor is asked to stop once. `ReadsContiguous` rests on `LogInv` (a log is what its shard has stored, but
for the oldest) and `ProgressInv`, which also holds of readers whose shard is gone,
and of those whose token was resolved in a later incarnation. The proof is one
lemma per action; lemmas about what a kind of step leaves alone (`Shaped`, `Calm`,
`OwnersKept`, `Grown`) carry the conjuncts that it does not disturb.

Secrets: `Consistent` of the stored record, and of the record a client has built
and will insert: versions are distinct, a label names a stored version, and the
cached stages of a version are the labels that name it. The property says the last two;
the first is what makes the cleanup by position remove what it counted.

DynamoDB: at rest a table and its stream agree record for record (`Whole`).
Between, one request holds the gate, and `Running` says in which of its phases:
`ItemPhase`, where the emitted and the outstanding records together replay to the
items, or `TablePhase`, where the table has changed and its stream has not.
`DynamoInv` adds the barrier (a closed tracker with nothing admitted has no gate
holder), the archive, and the tokens.

Sequences that grow step by step need facts about recursive functions.
`Keep` (the elements of a sequence that are in a set, `Filtering`) and `Rebuilt`
(replay of a stream, `DynamoTables`) are recursive functions; `Induction` states
the least-element principle for a *set* of numbers, so no operator has to be
instantiated, and `KeepAppend`, `KeepFirst`, `KeepRange`, `RebuiltAppend` and
`ReplayUnique` follow from it.

### Only model-checked

- Liveness (`TransfersSettle`, `ShutdownCompletes`, `OrphansStop`, `PollsAnswered`,
  `ExpiredReturned`, `AttemptAnswered`, `PollAnswered`, `Ends`): fairness and
  ENABLED are beyond the prover.
- `Conservation` of SQS: it counts places, and is false for dead-letter cycles
  (finding 1); a proof needs acyclic redrive policies and ids below `nextId`.
- `ParkedIsQuiet` of Step Functions: that a parked actor has been woken by
  everything that could wake it is a statement about the order of the wake-ups
  over the whole history of the ready queue, and needs an invariant of its own for every
  phase of a frame. TLC checks it in every plan of the run.
- `VersionsReadable` of S3: not an invariant of `S3Spec` but of the calls that
  `S3Bound` of `MCS3` admits (section 4), so a theorem would need that bound as a
  part of the specification.
- `ReshardEnds` of Kinesis, which is violated (finding 4), and `ServicesTypeOK`,
  which collects the type invariants of six modules.

## 6. Findings

1. `SqsCycle`: `accept_transfer` ignores the result of `enqueue`. A FIFO message
   that returns to a dead-letter queue within the deduplication window meets its
   own redrive key, is dropped, and the transfer is confirmed.
2. `SqsMissedWakeup`: a receive returns expired deliveries to the queue without
   waking the long polls that wait for them; the next cleanup sees nothing
   expired. The poll sleeps until its deadline or another event.
3. `LambdaInitRace`: an initialization error is accepted, and its caller told so,
   although the runtime has received the event: the receipt was sent after the
   actor had looked for it and before it closed the channel.
4. `KinesisReshard`: `split_shard` and `merge_shards` await a shard actor with the
   stream's `DashMap` guard held. Other calls for the stream block the threads of
   the runtime on that guard, and the actor that would release it never runs.
5. `S3DeleteBucket`: DeleteBucket removes the bytes of the bucket's objects and
   parts first and then refuses because the bucket is not empty. Its objects stay
   listed and cannot be read.

`PROJECT.json` quotes the lines that say otherwise.

Observed while modelling, without a run of their own: `create_queue`,
`create_stream` and `CreateSecret` check and insert in two steps, so of two
concurrent calls the later replaces what the earlier made (`OrphansStop` shows
that the replaced queue's actor at least stops); `SetQueueAttributes` applies its
keys one by one and an invalid one leaves the others half applied; dead messages
that cannot be handed over use up a receive's budget before healthy FIFO groups; a change of a
stream's retention never reaches its shard actors (`kinesis-core/src/provider.rs:1192`);
a SplitShard or MergeShards dropped at its await leaves its parents in no table and
their hash keys without a shard, so that puts of them go to the first shard by the
fallback that "should not happen" (`kinesis-core/src/provider.rs:236-237`), out of
the order of their keys; a state whose branches all succeeded and whose own result
cannot be evaluated may be retried beside calls that its last attempt gave up;
moving AWSCURRENT to the version that has it labels that version AWSPREVIOUS too,
and `RemoveFromVersionId` can leave a secret without AWSCURRENT;
`CancelRotateSecret` leaves rotation enabled; the version limit is enforced only
when a version is added; a REMOVE-only update of an absent item stores a key-only
item in a transaction and nothing on its own; a restart forgets the idempotency
tokens, so that a transaction retried across it is applied again.

Observed of S3, each reached by TLC in `S3Objects`: without versioning two overlapping puts of a key can leave the
metadata of one with the bytes of the other; with versioning suspended, or
enabled while a put is under way, the bytes are stored under "null" and the
metadata under a new id, so the object is listed and cannot be read, although
`suspend_versioning` says that new puts overwrite the version "null"
(`state/bucket.rs:313`); CreateBucket racing DeleteBucket can leave the name in
`global_bucket_owner` without a bucket, after which it can be neither created nor
deleted; a put that is acknowledged between DeleteBucket's check and its removal
is lost with the bucket; UploadPartCopy without a version reads the version
"null" also in a versioned bucket; a COMPOSITE checksum is computed from the
parts recorded when the completion began, though a part uploaded again meanwhile
supplies the bytes.

## 7. Not modelled

- Of SQS: tags, `GetQueueAttributes` and other reads, batch calls (each entry is a
  single call), the SigV4 and wire layers, snapshot export and import, and
  `permission` parsing (the set of allowed sources is a parameter).
- Data languages (Amazon States Language, JSONPath, DynamoDB expressions, event
  patterns): evaluation of data, better served by the repository's unit tests.
- Cryptography, generated model crates, the code generator.
- Of the Lambda runtime interface: HTTP, the relay and its client, body permits.
- Of Step Functions: the registry, callback tokens, the simple actor of
  `runtime/actor.rs`, retention of histories.
- Of the Docker backend: the ownership journal, image leases, the host lock.
- Of Kinesis: consumers, tags, encryption, policies, changes of retention; puts and
  reads whose future is dropped (what is left of such a call is a command in a
  channel whose reply nobody takes, as of a shorter batch or a client that asks no
  more; it touches no list and no guard). Of
  Secrets Manager: tags, policies, replication. Of DynamoDB: reads, indexes, TTL,
  `UpdateTable`; of its streams, shard iterators and trimming. Of S3: object
  lock, tags, ACLs and the other bucket configuration, listing, snapshots, a
  completion with an empty list of parts.
- The services that are tables under a map (IAM, STS, SES, KMS, SSM, CloudWatch,
  Logs, API Gateway, CloudFront) and the wire layers, which make up most of the
  repository's lines: their operations are sequential and about data.
- Items 8 to 10 of the plan; see `components` in `PROJECT.json`.

## 8. Running

    tlc -workers 2 -config SqsSafety.cfg MCSqsSafety
    tlc -workers 2 -config SqsShutdown.cfg MCSqs      (likewise the other Sqs*.cfg)
    tlc -workers 2 -config LambdaSession.cfg MCLambdaSession  (likewise Lambda*.cfg)
    tlc -workers 2 -config StepExecution.cfg MCStep
    tlc -workers 2 -config Services.cfg MCServices
    tlc -workers 2 -config KinesisReshard.cfg MCKinesis
    tlc -workers 2 -config S3DeleteBucket.cfg MCS3
    tlapm SqsProofs.tla                               (likewise the other *Proofs.tla)

Each run takes between a few seconds and four minutes, each proof up to a quarter
of an hour (`ServiceProofs` is the longest).
