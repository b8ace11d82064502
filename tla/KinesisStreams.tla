--------------------------- MODULE KinesisStreams ---------------------------
(***************************************************************************)
(* Kinesis streams (rustack-kinesis-core): one actor per shard behind an    *)
(* mpsc channel, and a DashMap of streams.  Calls clone a sender under the  *)
(* map's guard and drop the guard before they wait; SplitShard and          *)
(* MergeShards hold the exclusive guard while they wait for the actors they *)
(* close.  A task that finds the guard taken blocks its runtime thread.     *)
(*                                                                         *)
(* One stream name; its incarnations are numbered.  A hash key is a number  *)
(* in 0..HashMax, a record its hash key and sequence number.                *)
(***************************************************************************)
EXTENDS Integers, Sequences, FiniteSets, SequencesExt, Filtering

CONSTANTS PutCalls,      \* PutRecord and PutRecords calls
          Readers,       \* clients that follow an iterator
          Admins,        \* clients of the control operations
          Batches,       \* sequences of hash keys a put may carry
          ReadLimits,    \* values of GetRecords' Limit
          ShardCounts,   \* values of CreateStream's ShardCount
          HashMax,       \* HashKey::MAX
          Workers,       \* threads of the runtime
          MaxStreams,    \* bound on the incarnations of the stream
          MaxShards      \* bound on the shards of an incarnation

VARIABLES stream,    \* the entry of the map: its incarnation and shard lists
          guard,     \* the task that holds the entry exclusively, or NoTaskId
          shards,    \* the shard actors, by incarnation and index
          puts, readers, admins,  \* the calls under way
          blocked,   \* tasks whose thread waits for the guard
          clock,     \* now_epoch_millis, capped at 1
          arrivals,  \* history: every record appended, in order
          orphans    \* history: shards whose split or merge was abandoned

kinesisVars == <<stream, guard, shards, puts, readers, admins, blocked, clock, arrivals, orphans>>

NoTaskId == "free"
IndexLimit == 65536  \* a sequence number has 16 bits for the shard's index

\* Shard indices fit into a sequence number, and a stream has few shards for
\* its hash keys: each gets a range that is not empty.
ASSUME KinesisAssumption ==
    /\ NoTaskId \notin Admins
    /\ MaxStreams \in Nat /\ MaxShards \in Nat /\ MaxShards <= IndexLimit /\ HashMax \in Nat
    /\ Batches \subseteq Seq(0..HashMax) \ {<<>>} /\ ReadLimits \subseteq Nat
    /\ \A n \in ShardCounts :
         n \in 0..MaxShards /\ (n > 0 => (n - 1) * (HashMax \div n + 1) <= HashMax)

NoStream == [inc |-> 0, active |-> <<>>, closed |-> <<>>, next |-> 0]
ShardIds == (1..MaxStreams) \X (0..(MaxShards - 1))
NoShard == <<0, 0>>

Unborn == [st |-> "unborn", lo |-> 0, hi |-> 0, prefix |-> <<0, 0>>, counter |-> 0,
           records |-> <<>>, trim |-> 0, commands |-> <<>>]
NewPut == [st |-> "new", keys |-> <<>>, snapshot |-> {}, to |-> NoShard]
NewReader == [st |-> "none", at |-> NoShard, pos |-> 0, start |-> 0, got |-> {}, cmd |-> <<>>]
NoOp == [op |-> "none", todo |-> <<>>, parents |-> <<>>, range |-> <<>>]

KinesisInit ==
    /\ stream = NoStream
    /\ guard = NoTaskId
    /\ shards = [a \in ShardIds |-> Unborn]
    /\ puts = [c \in PutCalls |-> NewPut]
    /\ readers = [r \in Readers |-> NewReader]
    /\ admins = [x \in Admins |-> NoOp]
    /\ blocked = {}
    /\ clock = 0
    /\ arrivals = <<>>
    /\ orphans = {}

-----------------------------------------------------------------------------
(* Hash ranges and sequence numbers.                                        *)

\* HashKeyRange::divide_evenly, the i-th of n ranges counted from 0
RangeOf(n, i) ==
    LET q == HashMax \div n
    IN <<IF i = 0 THEN 0 ELSE q * i + i,
         IF i = n - 1 THEN HashMax ELSE q * (i + 1) + i>>

contains(s, key) == s.lo <= key /\ key <= s.hi

\* SequenceNumberGenerator: (millis, index, counter), in this order
SeqLess(a, b) ==
    \/ a[1] < b[1]
    \/ a[1] = b[1] /\ a[2] < b[2]
    \/ a[1] = b[1] /\ a[2] = b[2] /\ a[3] < b[3]

Spawned(range, index, millis) ==
    [Unborn EXCEPT !.st = "open", !.lo = range[1], !.hi = range[2],
                   !.prefix = <<millis, index % IndexLimit>>]

-----------------------------------------------------------------------------
(* The guard of the stream's entry and the threads of the runtime.          *)

ThreadFree == Cardinality(blocked) < Workers
MayRun(t) == t \in blocked \/ ThreadFree

\* get_stream, get_stream_mut, contains_key, insert and remove
TakesGuard(t) ==
    /\ guard = NoTaskId
    /\ MayRun(t)
    /\ blocked' = blocked \ {t}

AboutToLock(t) ==
    \/ t \in PutCalls /\ puts[t].st = "new"
    \/ t \in Readers /\ readers[t].st \in {"none", "idle"}
    \/ t \in Admins /\ admins[t].op \in {"none", "insert"}

BlockThread(t) ==
    /\ guard # NoTaskId /\ guard # t
    /\ t \notin blocked /\ AboutToLock(t) /\ ThreadFree
    /\ blocked' = blocked \cup {t}
    /\ UNCHANGED <<stream, guard, shards, puts, readers, admins, clock, arrivals, orphans>>

-----------------------------------------------------------------------------
(* Puts.  PutRecord is a batch of one; PutRecords keeps the snapshot of the *)
(* senders for all its records and waits for each before the next.          *)

Live(a) == shards[a].st \in {"open", "closed"}
Active == {<<stream.inc, i>> : i \in ToSet(stream.active)}

\* route_to_shard and its snapshot variant: the shard whose range contains the
\* key, else the first of the list, which is in the order of the indices.  The
\* fallback is taken for a key that an abandoned resharding has left uncovered.
Routed(snapshot, key) ==
    IF \E a \in snapshot : contains(shards[a], key)
    THEN CHOOSE a \in snapshot : contains(shards[a], key)
    ELSE CHOOSE a \in snapshot : \A b \in snapshot : a[2] <= b[2]

Await(a, snapshot, keys) == [st |-> "routed", keys |-> keys, snapshot |-> snapshot, to |-> a]
EndedPut == [NewPut EXCEPT !.st = "ended"]

\* the next record of the batch; a failed one does not stop the others
NextRecord(c) ==
    IF Len(puts[c].keys) > 1
    THEN Await(Routed(puts[c].snapshot, puts[c].keys[2]), puts[c].snapshot, Tail(puts[c].keys))
    ELSE EndedPut

StartPut(c) ==
    /\ puts[c].st = "new"
    /\ TakesGuard(c)
    /\ \E keys \in Batches :
         puts' = [puts EXCEPT ![c] = IF Active = {} THEN EndedPut
                                     ELSE Await(Routed(Active, keys[1]), Active, keys)]
    /\ UNCHANGED <<stream, guard, shards, readers, admins, clock, arrivals, orphans>>

Enqueue(a, cmd) == shards' = [shards EXCEPT ![a].commands = Append(@, cmd)]

SendPut(c) ==
    /\ puts[c].st = "routed" /\ ThreadFree
    /\ IF Live(puts[c].to)
       THEN Enqueue(puts[c].to, [op |-> "put", from |-> c]) /\ puts' = [puts EXCEPT ![c].st = "sent"]
       ELSE puts' = [puts EXCEPT ![c] = NextRecord(c)] /\ UNCHANGED shards
    /\ UNCHANGED <<stream, guard, readers, admins, blocked, clock, arrivals, orphans>>

\* the actor ended with the command unanswered
PutLost(c) ==
    /\ puts[c].st = "sent" /\ ~Live(puts[c].to) /\ ThreadFree
    /\ puts' = [puts EXCEPT ![c] = NextRecord(c)]
    /\ UNCHANGED <<stream, guard, shards, readers, admins, blocked, clock, arrivals, orphans>>

-----------------------------------------------------------------------------
(* Reads.                                                                   *)

\* find_shard_handle_any: closed shards stay readable
Handles == Active \cup {<<stream.inc, i>> : i \in ToSet(stream.closed)}

IteratorKinds(n) == IF n = 0 THEN {"horizon", "latest"} ELSE {"at", "after"}
SeqAt(n) == IF n = 0 THEN <<0, 0, 0>> ELSE arrivals[n].seq

get_shard_iterator(r) ==
    /\ readers[r].st = "none"
    /\ TakesGuard(r)
    /\ \E a \in Handles, n \in 0..Len(arrivals) : \E kind \in IteratorKinds(n) :
         readers' = [readers EXCEPT ![r] = [NewReader EXCEPT !.st = "asking", !.at = a,
                       !.cmd = <<[op |-> "iterator", from |-> r, kind |-> kind, seq |-> SeqAt(n)]>>]]
    /\ UNCHANGED <<stream, guard, shards, puts, admins, clock, arrivals, orphans>>

\* the token names the stream and the shard but not the incarnation
Resolved(r) == <<stream.inc, readers[r].at[2]>>

get_records(r) ==
    /\ readers[r].st = "idle"
    /\ TakesGuard(r)
    /\ Resolved(r) \in Handles
    /\ \E limit \in ReadLimits :
         readers' = [readers EXCEPT ![r] =
           [(IF @.at = Resolved(r) THEN @
             ELSE [NewReader EXCEPT !.at = Resolved(r), !.pos = readers[r].pos, !.start = readers[r].pos])
            EXCEPT !.st = "reading",
                   !.cmd = <<[op |-> "get", from |-> r, pos |-> readers[r].pos, limit |-> limit]>>]]
    /\ UNCHANGED <<stream, guard, shards, puts, admins, clock, arrivals, orphans>>

\* an error leaves the caller with the iterator it had
Failed(r) == [readers EXCEPT ![r].st = IF @ = "asking" THEN "none" ELSE "idle", ![r].cmd = <<>>]

\* the sender was cloned under the guard and is used after it
SendRead(r) ==
    /\ readers[r].cmd # <<>> /\ ThreadFree
    /\ IF Live(readers[r].at)
       THEN Enqueue(readers[r].at, readers[r].cmd[1]) /\ readers' = [readers EXCEPT ![r].cmd = <<>>]
       ELSE readers' = Failed(r) /\ UNCHANGED shards
    /\ UNCHANGED <<stream, guard, puts, admins, blocked, clock, arrivals, orphans>>

ReadLost(r) ==
    /\ readers[r].st \in {"asking", "reading"} /\ readers[r].cmd = <<>>
    /\ ~Live(readers[r].at) /\ ThreadFree
    /\ readers' = Failed(r)
    /\ UNCHANGED <<stream, guard, shards, puts, admins, blocked, clock, arrivals, orphans>>

-----------------------------------------------------------------------------
(* The shard actor: ShardActor::run and handle_command.                     *)

latest_position(s) == s.trim + Len(s.records)

\* position_at_sequence_number, position_after_sequence_number; a timestamp
\* is looked up like a sequence number, in the order of arrival
FirstPosition(s, later) ==
    s.trim + (IF later = {} THEN Len(s.records)
              ELSE (CHOOSE i \in later : \A j \in later : i <= j) - 1)

RecordsFrom(s, seq) == {i \in DOMAIN s.records : ~SeqLess(s.records[i].seq, seq)}
RecordsAfter(s, seq) == {i \in DOMAIN s.records : SeqLess(seq, s.records[i].seq)}

IteratorPosition(s, cmd) ==
    CASE cmd.kind = "horizon" -> s.trim
      [] cmd.kind = "latest"  -> latest_position(s)
      [] cmd.kind = "at"      -> FirstPosition(s, RecordsFrom(s, cmd.seq))
      [] cmd.kind = "after"   -> FirstPosition(s, RecordsAfter(s, cmd.seq))

\* mutant: the position is not moved by what was trimmed
ReadFromRaw(s, pos) == pos

\* ShardRecordLog::get_records: saturating_sub, then the limit
ReadFrom(s, pos) == IF pos < s.trim THEN 0 ELSE pos - s.trim
ReadTo(s, pos, limit) ==
    IF ReadFrom(s, pos) >= Len(s.records) \/ ReadFrom(s, pos) + limit > Len(s.records)
    THEN Len(s.records) ELSE ReadFrom(s, pos) + limit

Taken(s) == [s EXCEPT !.commands = Tail(@)]

WithRecord(s, rec) == [Taken(s) EXCEPT !.records = Append(@, rec), !.counter = @ + 1]

\* mutant: a closed shard still takes records
AppendThoughClosed(a, c) ==
    LET rec == [at |-> a, key |-> puts[c].keys[1],
                seq |-> <<shards[a].prefix[1], shards[a].prefix[2], shards[a].counter>>]
    IN /\ shards' = [shards EXCEPT ![a] = WithRecord(@, rec)]
       /\ arrivals' = Append(arrivals, rec)

AppendRecord(a, c) ==
    IF shards[a].st = "closed"
    THEN shards' = [shards EXCEPT ![a] = Taken(@)] /\ UNCHANGED arrivals
    ELSE AppendThoughClosed(a, c)

HandlePut(a, cmd) ==
    /\ cmd.op = "put"
    /\ AppendRecord(a, cmd.from)
    /\ puts' = [puts EXCEPT ![cmd.from] = NextRecord(cmd.from)]
    /\ UNCHANGED <<readers, admins>>

HandleIterator(a, cmd) ==
    /\ cmd.op = "iterator"
    /\ shards' = [shards EXCEPT ![a] = Taken(@)]
    /\ readers' = [readers EXCEPT ![cmd.from].st = "idle",
                     ![cmd.from].pos = IteratorPosition(shards[a], cmd),
                     ![cmd.from].start = IteratorPosition(shards[a], cmd)]
    /\ UNCHANGED <<puts, admins, arrivals>>

HandleGet(a, cmd) ==
    /\ cmd.op = "get"
    /\ shards' = [shards EXCEPT ![a] = Taken(@)]
    /\ LET to == ReadTo(shards[a], cmd.pos, cmd.limit)
           some == {shards[a].records[i].seq : i \in (ReadFrom(shards[a], cmd.pos) + 1)..to}
       IN readers' = [readers EXCEPT ![cmd.from].st = "idle",
                        ![cmd.from].pos = shards[a].trim + to,
                        ![cmd.from].got = @ \cup some]
    /\ UNCHANGED <<puts, admins, arrivals>>

\* the reply lets the call that waits for it go on; an abandoned one is gone
Replied(x, a) ==
    [admins EXCEPT ![x].todo = IF @ # <<>> /\ Head(@) = a THEN Tail(@) ELSE @]

HandleClose(a, cmd) ==
    /\ cmd.op = "close"
    /\ shards' = [shards EXCEPT ![a] = [Taken(@) EXCEPT !.st = "closed"]]
    /\ admins' = Replied(cmd.from, a)
    /\ UNCHANGED <<puts, readers, arrivals>>

\* the loop ends; what is still queued is dropped unanswered
HandleShutdown(a, cmd) ==
    /\ cmd.op = "shutdown"
    /\ shards' = [shards EXCEPT ![a] = [@ EXCEPT !.st = "stopped", !.commands = <<>>]]
    /\ admins' = Replied(cmd.from, a)
    /\ UNCHANGED <<puts, readers, arrivals>>

handle_command(a) ==
    /\ Live(a) /\ shards[a].commands # <<>> /\ ThreadFree
    /\ LET cmd == Head(shards[a].commands)
       IN HandlePut(a, cmd) \/ HandleIterator(a, cmd) \/ HandleGet(a, cmd)
            \/ HandleClose(a, cmd) \/ HandleShutdown(a, cmd)
    /\ UNCHANGED <<stream, guard, blocked, clock, orphans>>

Drained(s) == [s EXCEPT !.records = Tail(@), !.trim = @ + 1]

\* the oldest record outlived the retention period
trim_expired(a) ==
    /\ Live(a) /\ shards[a].records # <<>> /\ ThreadFree
    /\ shards' = [shards EXCEPT ![a] = Drained(@)]
    /\ UNCHANGED <<stream, guard, puts, readers, admins, blocked, clock, arrivals, orphans>>

\* the shards of a call that closes them are in no list
Owned(x) == ToSet(admins[x].todo) \cup {<<stream.inc, i>> : i \in ToSet(admins[x].parents)}

\* every sender is gone: the shard is in no list, and no call holds a clone
SendersOf(a) ==
    \/ a \in Handles
    \/ \E c \in PutCalls : puts[c].st \in {"routed", "sent"} /\ a \in puts[c].snapshot
    \/ \E r \in Readers : readers[r].st \in {"asking", "reading"} /\ readers[r].at = a
    \/ \E x \in Admins : a \in Owned(x)

ChannelCloses(a) ==
    /\ Live(a) /\ shards[a].commands = <<>> /\ ~SendersOf(a) /\ ThreadFree
    /\ shards' = [shards EXCEPT ![a].st = "stopped"]
    /\ UNCHANGED <<stream, guard, puts, readers, admins, blocked, clock, arrivals, orphans>>

-----------------------------------------------------------------------------
(* Control operations.                                                      *)

Incarnations == {a[1] : a \in {b \in ShardIds : shards[b].st # "unborn"}}
FreshIncarnation == Cardinality(Incarnations) + 1

\* create_stream looks first and inserts later, without a lock in between
CheckCreate(x) ==
    /\ admins[x].op = "none"
    /\ TakesGuard(x)
    /\ stream = NoStream
    /\ admins' = [admins EXCEPT ![x].op = "insert"]
    /\ UNCHANGED <<stream, guard, shards, puts, readers, clock, arrivals, orphans>>

InsertStream(x) ==
    /\ admins[x].op = "insert"
    /\ TakesGuard(x)
    /\ FreshIncarnation <= MaxStreams
    /\ \E n \in ShardCounts, t \in {clock, 1} :
         /\ stream' = [inc |-> FreshIncarnation, active |-> [i \in 1..n |-> i - 1],
                       closed |-> <<>>, next |-> n]
         /\ shards' = [a \in ShardIds |->
                         IF a[1] = FreshIncarnation /\ a[2] < n
                         THEN Spawned(RangeOf(n, a[2]), a[2], t) ELSE shards[a]]
         /\ clock' = t
    /\ admins' = [admins EXCEPT ![x] = NoOp]
    /\ UNCHANGED <<guard, puts, readers, arrivals, orphans>>

\* delete_stream: out of the map at once, then one actor after the other
RemoveStream(x) ==
    /\ admins[x].op = "none" /\ stream # NoStream
    /\ TakesGuard(x)
    /\ LET handles == [i \in 1..Len(stream.active \o stream.closed) |->
                          <<stream.inc, (stream.active \o stream.closed)[i]>>]
       IN /\ admins' = [admins EXCEPT ![x] = [NoOp EXCEPT !.op = "delete", !.todo = handles]]
          /\ IF handles = <<>> THEN UNCHANGED shards
             ELSE Enqueue(handles[1], [op |-> "shutdown", from |-> x])
    /\ stream' = NoStream
    /\ UNCHANGED <<guard, puts, readers, clock, arrivals, orphans>>

Asked(x) == LET a == Head(admins[x].todo)
            IN \E i \in DOMAIN shards[a].commands : shards[a].commands[i].op \in {"shutdown", "close"}

\* the actor before answered: send to the next one
SendNext(x) ==
    /\ admins[x].todo # <<>> /\ ~Asked(x) /\ ThreadFree
    /\ Enqueue(Head(admins[x].todo),
               [op |-> IF admins[x].op = "delete" THEN "shutdown" ELSE "close", from |-> x])
    /\ UNCHANGED <<stream, guard, puts, readers, admins, blocked, clock, arrivals, orphans>>

DeleteEnds(x) ==
    /\ admins[x].op = "delete" /\ admins[x].todo = <<>> /\ ThreadFree
    /\ admins' = [admins EXCEPT ![x] = NoOp]
    /\ UNCHANGED <<stream, guard, shards, puts, readers, blocked, clock, arrivals, orphans>>

\* the parents leave the active list; the call owns them while it closes them
BeginReshard(x, op, parents, ranges) ==
    /\ admins[x].op = "none"
    /\ TakesGuard(x)
    /\ stream.next + Len(ranges) <= MaxShards
    /\ guard' = x
    /\ admins' = [admins EXCEPT ![x] = [op |-> op, parents |-> parents, range |-> ranges,
                                        todo |-> [i \in DOMAIN parents |-> <<stream.inc, parents[i]>>]]]
    /\ stream' = [stream EXCEPT !.active = Keep(@, ToSet(@) \ ToSet(parents))]
    /\ Enqueue(<<stream.inc, parents[1]>>, [op |-> "close", from |-> x])
    /\ UNCHANGED <<puts, readers, clock, arrivals, orphans>>

split_shard(x) ==
    \E i \in ToSet(stream.active), key \in 0..HashMax :
        LET s == shards[<<stream.inc, i>>]
        IN /\ s.lo < key /\ key <= s.hi
           /\ BeginReshard(x, "split", <<i>>, <<<<s.lo, key - 1>>, <<key, s.hi>>>>)

Adjacent(s, t) == s.hi + 1 = t.lo \/ t.hi + 1 = s.lo

Least(i, j) == IF i < j THEN i ELSE j
Most(i, j) == IF i < j THEN j ELSE i

\* the later of the two in the list is removed and closed first
merge_shards(x) ==
    \E m, n \in DOMAIN stream.active :
        LET s == shards[<<stream.inc, stream.active[m]>>]
            t == shards[<<stream.inc, stream.active[n]>>]
        IN /\ m > n /\ Adjacent(s, t)
           /\ BeginReshard(x, "merge", <<stream.active[m], stream.active[n]>>,
                           <<<<Least(s.lo, t.lo), Most(s.hi, t.hi)>>>>)

\* every parent answered: they are kept for reading, spawn_child_shard makes a
\* shard for each range, and the guard goes
FinishReshard(x) ==
    /\ guard = x /\ admins[x].todo = <<>> /\ ThreadFree
    /\ \E t \in {clock, 1} :
         /\ shards' = [a \in ShardIds |->
              LET k == a[2] - stream.next + 1
              IN IF a[1] = stream.inc /\ k \in DOMAIN admins[x].range
                 THEN Spawned(admins[x].range[k], a[2], t) ELSE shards[a]]
         /\ clock' = t
    /\ stream' = [stream EXCEPT !.closed = @ \o admins[x].parents,
                                !.active = @ \o [i \in DOMAIN admins[x].range |-> stream.next + i - 1],
                                !.next = @ + Len(admins[x].range)]
    /\ guard' = NoTaskId
    /\ admins' = [admins EXCEPT ![x] = NoOp]
    /\ UNCHANGED <<puts, readers, blocked, arrivals, orphans>>

\* The future of a DeleteStream, SplitShard or MergeShards is dropped where it
\* waits for an actor: the request's time is up or its client has left.  The
\* guard goes; the parents of a resharding are in no list and never will be.
AbandonControl(x) ==
    /\ admins[x].op \in {"delete", "split", "merge"} /\ ThreadFree
    /\ orphans' = orphans \cup {<<stream.inc, i>> : i \in ToSet(admins[x].parents)}
    /\ guard' = IF guard = x THEN NoTaskId ELSE guard
    /\ admins' = [admins EXCEPT ![x] = NoOp]
    /\ UNCHANGED <<stream, shards, puts, readers, blocked, clock, arrivals>>

ActorStep(a) == handle_command(a) \/ ChannelCloses(a)
ReshardStep(x) == (guard = x /\ SendNext(x)) \/ FinishReshard(x)

KinesisNext ==
    \/ \E t \in PutCalls \cup Readers \cup Admins : BlockThread(t)
    \/ \E c \in PutCalls : StartPut(c) \/ SendPut(c) \/ PutLost(c)
    \/ \E r \in Readers : get_shard_iterator(r) \/ get_records(r) \/ SendRead(r) \/ ReadLost(r)
    \/ \E a \in ShardIds : ActorStep(a) \/ trim_expired(a)
    \/ \E x \in Admins :
         \/ CheckCreate(x) \/ InsertStream(x) \/ RemoveStream(x) \/ SendNext(x) \/ DeleteEnds(x)
         \/ split_shard(x) \/ merge_shards(x) \/ FinishReshard(x) \/ AbandonControl(x)

KinesisSpec == KinesisInit /\ [][KinesisNext]_kinesisVars

\* the runtime polls a task that can run whenever it has a thread for it
KinesisFairSpec ==
    /\ KinesisSpec
    /\ \A a \in ShardIds : WF_kinesisVars(ActorStep(a))
    /\ \A x \in Admins : WF_kinesisVars(ReshardStep(x))

-----------------------------------------------------------------------------
(* Properties.                                                              *)

KinesisTypeOK ==
    /\ stream.inc \in 0..MaxStreams /\ stream.next \in 0..MaxShards
    /\ guard \in Admins \cup {NoTaskId}
    /\ blocked \subseteq PutCalls \cup Readers \cup Admins
    /\ \A a \in ShardIds :
         /\ shards[a].st \in {"unborn", "open", "closed", "stopped"}
         /\ shards[a].lo \in 0..HashMax /\ shards[a].hi \in shards[a].lo..HashMax
    /\ \A c \in PutCalls : puts[c].st \in {"new", "routed", "sent", "ended"}
    /\ \A r \in Readers : readers[r].st \in {"none", "asking", "idle", "reading"}
    /\ \A x \in Admins : admins[x].op \in {"none", "insert", "delete", "split", "merge"}

\* the hash keys that abandoned reshardings have taken from an incarnation
LostKeys(inc) ==
    {key \in 0..HashMax : \E a \in orphans : a[1] = inc /\ contains(shards[a], key)}

\* Records of one hash key get increasing sequence numbers in the order they
\* are stored, even while their shard is split or merged under the writers: a
\* put routed to a parent never lands there behind a record of its child.  At
\* rest every hash key belongs to exactly one open shard, if there is any.
\* Both hold of the keys that no abandoned split or merge has taken; such a
\* key belongs to no shard any more, and nothing is promised of its records.
KeyOrder ==
    /\ \A i, j \in DOMAIN arrivals :
         /\ i < j /\ arrivals[i].key = arrivals[j].key /\ arrivals[i].at[1] = arrivals[j].at[1]
         /\ arrivals[i].key \notin LostKeys(arrivals[i].at[1])
         => SeqLess(arrivals[i].seq, arrivals[j].seq)
    /\ guard = NoTaskId /\ Active # {} =>
         \A key \in 0..HashMax :
             Cardinality({a \in Active : contains(shards[a], key) /\ shards[a].st = "open"})
                 = IF key \in LostKeys(stream.inc) THEN 0 ELSE 1

\* the records ever stored by shard a
SequenceNumber == Nat \X Nat \X Nat
StoredBy(a) == Keep(arrivals, [at : {a}, key : 0..HashMax, seq : SequenceNumber])

\* A reader that follows its iterator misses no record: whatever lies between
\* where it started and where it stands it has been given, unless retention
\* had already removed it, though the log is trimmed between its calls.
ReadsContiguous ==
    \A r \in Readers : readers[r].st \in {"idle", "reading"} =>
        LET a == readers[r].at
            log == StoredBy(a)
        IN \A i \in (readers[r].start + 1)..readers[r].pos :
             i \in DOMAIN log => log[i].seq \in readers[r].got \/ i <= shards[a].trim

\* SplitShard and MergeShards end once begun: the actors they wait for get a
\* thread.
ReshardEnds == \A x \in Admins : (guard = x) ~> (guard # x)
=============================================================================
