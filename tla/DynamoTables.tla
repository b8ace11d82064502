----------------------------- MODULE DynamoTables -----------------------------
(***************************************************************************)
(* One DynamoDB table and its change stream: rustack-dynamodb-core         *)
(* (provider.rs, handler.rs, coordination.rs, snapshot.rs) and the store   *)
(* of rustack-dynamodbstreams-core (storage.rs, emitter.rs).               *)
(*                                                                         *)
(* A request is admitted with a permit, runs on a blocking thread and      *)
(* holds operation_gate from its first read to its last stream record. It  *)
(* writes every item, then emits every record. A panic in the middle       *)
(* leaves the table and the stream different: the tracker then closes for  *)
(* good, and quiesce() refuses the snapshot that would persist them.       *)
(***************************************************************************)
EXTENDS Naturals, Sequences, FiniteSets, Filtering

CONSTANTS Requests,        \* requests the clients send, each once
          Operations,      \* what a request may ask for
          ItemKeys,        \* primary keys
          Tokens,          \* client request tokens
          token_capacity,
          MaxRestarts      \* bound: restarts of the process

VARIABLES table,     \* DynamoDBTable: does it exist, its stream flag, its items
          changes,   \* TableStream: does it exist, its records
          tokens,    \* completed transactions by token, or NoTransaction
          gate,      \* the request that holds operation_gate, or NoRequest
          requests,  \* where each request is
          tracker,   \* closed and failed, and how far quiesce() and the export are
          archive,   \* the snapshot the next process imports
          restarts,
          applied    \* history: commits under each token since it last expired

dynamoVars == <<table, changes, tokens, gate, requests, tracker, archive, restarts, applied>>

NoRequest == 0
NoToken == "none"

Absent == "absent"      \* no item under the key
KeysOnly == "bare"      \* an item with its key attributes and no others

\* what may be under a key: an item, named by a string, or one of the two above
Images == STRING \cup {Absent, KeysOnly}

\* what clients ask for
Action == [act : {"put", "set", "strip", "delete", "check"}, key : ItemKeys, val : Images,
           cond : {"none", "exists", "not_exists"}]
Operation == [kind : {"create", "drop", "single", "transact", "batch"}, stream : BOOLEAN,
              actions : Seq(Action), token : Tokens \cup {NoToken}]

ASSUME DynamoAssumption ==
    NoRequest \notin Requests /\ NoToken \notin Tokens /\ Operations \subseteq Operation

NoTransaction == [actions |-> <<>>, fresh |-> FALSE, known |-> FALSE]
NoTable == [live |-> FALSE, streamed |-> FALSE, items |-> [k \in ItemKeys |-> Absent]]
NewTable(streamed) == [NoTable EXCEPT !.live = TRUE, !.streamed = streamed]
NoChangeStream == [live |-> FALSE, records |-> <<>>]
NewStream == [NoChangeStream EXCEPT !.live = TRUE]
NewRequestTracker == [closed |-> FALSE, failed |-> FALSE, barrier |-> "none"]
Untouched == [at |-> "new", op |-> [kind |-> "none"], todo |-> <<>>, emits |-> <<>>]

\* a first start, or the start from a snapshot of an empty table
DynamoInit ==
    /\ archive \in {[table |-> NoTable, changes |-> NoChangeStream],
                    [table |-> NewTable(TRUE), changes |-> NewStream]}
    /\ table = archive.table
    /\ changes = archive.changes
    /\ tokens = [t \in Tokens |-> NoTransaction]
    /\ gate = NoRequest
    /\ requests = [r \in Requests |-> Untouched]
    /\ tracker = NewRequestTracker
    /\ restarts = 0
    /\ applied = [t \in Tokens |-> 0]
-----------------------------------------------------------------------------
(* Preparing a write: nothing visible changes.                              *)

\* the item an action leaves under its key. A REMOVE-only update of an absent
\* item stores nothing on its own, and an item with only its key attributes
\* in a transaction.
NewImage(op, action, old) ==
    CASE action.act \in {"put", "set"} -> action.val
      [] action.act = "strip" /\ old = Absent /\ op.kind = "single" -> Absent
      [] action.act = "strip" /\ (old # Absent \/ op.kind # "single") -> KeysOnly
      [] action.act \in {"delete", "check"} -> Absent

\* evaluate_condition_for_key
Holds(action) ==
    CASE action.cond = "none" -> TRUE
      [] action.cond = "exists" -> table.items[action.key] # Absent
      [] action.cond = "not_exists" -> table.items[action.key] = Absent

\* prepare_transaction_change
Prepared(op, action) ==
    [key |-> action.key, old |-> table.items[action.key],
     new |-> NewImage(op, action, table.items[action.key]), mutate |-> action.act # "check"]

\* two actions of one request on one item
Duplicates(op) ==
    \E i, j \in DOMAIN op.actions : i # j /\ op.actions[i].key = op.actions[j].key

\* the tokens the ten-minute window keeps
Retained(t) == IF tokens[t].fresh THEN tokens[t] ELSE NoTransaction
Known(t) == Retained(t).known
CapacityFull == Cardinality({t \in Tokens : Known(t)}) >= token_capacity

TokenRefused(op) ==
    /\ op.token # NoToken
    /\ IF Known(op.token) THEN tokens[op.token].actions # op.actions ELSE CapacityFull

\* a repeated transaction is answered with its stored output
Replayed(op) == op.token # NoToken /\ Known(op.token)

\* the token alone settles the request
AnsweredByToken(op) == op.kind = "transact" /\ (TokenRefused(op) \/ Replayed(op))

Refused(op) ==
    CASE op.kind = "create" -> table.live
      [] op.kind = "drop" -> ~table.live
      [] op.kind \in {"single", "transact", "batch"} ->
           \/ ~table.live
           \/ Duplicates(op)
           \/ \E i \in DOMAIN op.actions : ~Holds(op.actions[i])

\* PreparedChange::emit skips condition checks and deletes of what is absent
EmitsRecord(change) == change.mutate /\ ~(change.old = Absent /\ change.new = Absent)

\* what an accepted operation has to write, and then to emit
Writes(op) ==
    CASE op.kind = "create" -> <<[table |-> NewTable(op.stream)]>>
      [] op.kind = "drop" -> <<[table |-> NoTable]>>
      [] op.kind \in {"single", "transact", "batch"} ->
           [i \in DOMAIN op.actions |-> Prepared(op, op.actions[i])]
-----------------------------------------------------------------------------
(* Handling a request.                                                      *)

\* the handler takes a permit, unless the tracker is closed; the permit goes
\* with the blocking closure, so that a caller that leaves does not free it
Admit(r, op) ==
    /\ requests[r].at = "new"
    /\ ~tracker.closed
    /\ requests' = [requests EXCEPT ![r].at = "admitted", ![r].op = op]
    /\ UNCHANGED <<table, changes, tokens, gate, tracker, archive, restarts, applied>>

Ended(r) == [requests EXCEPT ![r].at = "ended", ![r].todo = <<>>, ![r].emits = <<>>]

\* begin_operation finds the tracker closed
TurnedAway(r) ==
    /\ requests[r].at = "admitted"
    /\ gate = NoRequest
    /\ tracker.closed
    /\ requests' = Ended(r)
    /\ UNCHANGED <<table, changes, tokens, gate, tracker, archive, restarts, applied>>

\* begin_operation, the checks and the preparation, all under the gate
Begin(r) ==
    LET op == requests[r].op IN
    /\ requests[r].at = "admitted"
    /\ gate = NoRequest
    /\ ~tracker.closed
    /\ tokens' = IF op.kind = "transact" /\ op.token # NoToken
                 THEN [t \in Tokens |-> Retained(t)] ELSE tokens
    /\ IF AnsweredByToken(op) \/ Refused(op)
       THEN requests' = Ended(r) /\ UNCHANGED gate
       ELSE /\ requests' = [requests EXCEPT ![r].at = "writing", ![r].todo = Writes(op),
                                            ![r].emits = Writes(op)]
            /\ gate' = r
    /\ UNCHANGED <<table, changes, tracker, archive, restarts, applied>>

\* the first loop of commit_prepared, put_item, delete_item, create_table
WriteChange(r) ==
    LET change == Head(requests[r].todo)
        table1 == IF "table" \in DOMAIN change THEN change.table
                  ELSE IF change.mutate THEN [table EXCEPT !.items[change.key] = change.new] ELSE table
    IN
    /\ requests[r].at = "writing" /\ requests[r].todo # <<>>
    /\ table' = table1
    /\ requests' = [requests EXCEPT ![r].todo = Tail(@)]
    /\ UNCHANGED <<changes, tokens, gate, tracker, archive, restarts, applied>>

\* append_change_event drops the record of a table without a stream
Appended(change) == [changes EXCEPT !.records = Append(@, change)]

\* on_stream_enabled replaces the stream, on_table_deleted removes it
Lifecycle(change) ==
    IF ~change.table.live THEN NoChangeStream
    ELSE IF change.table.streamed THEN NewStream ELSE changes

\* the second loop: PreparedChange::emit, or the stream's lifecycle
EmitChange(r) ==
    LET change == Head(requests[r].emits) IN
    /\ requests[r].at = "writing" /\ requests[r].todo = <<>> /\ requests[r].emits # <<>>
    /\ changes' = IF "table" \in DOMAIN change THEN Lifecycle(change)
                  ELSE IF table.streamed /\ changes.live /\ EmitsRecord(change)
                       THEN Appended(change) ELSE changes
    /\ requests' = [requests EXCEPT ![r].emits = Tail(@)]
    /\ UNCHANGED <<table, tokens, gate, tracker, archive, restarts, applied>>

\* the token is stored, the gate and the permit are dropped
Finish(r) ==
    LET op == requests[r].op IN
    /\ requests[r].at = "writing" /\ requests[r].todo = <<>> /\ requests[r].emits = <<>>
    /\ gate' = NoRequest
    /\ requests' = Ended(r)
    /\ IF op.kind = "transact" /\ op.token # NoToken
       THEN /\ tokens' = [tokens EXCEPT ![op.token] =
                            [actions |-> op.actions, fresh |-> TRUE, known |-> TRUE]]
            /\ applied' = [applied EXCEPT ![op.token] = @ + 1]
       ELSE UNCHANGED <<tokens, applied>>
    /\ UNCHANGED <<table, changes, tracker, archive, restarts>>

\* mutant: the guard only unlocks
PanickedUnnoticed == tracker

\* OperationGuard::drop while panicking
Panicked == [tracker EXCEPT !.closed = TRUE, !.failed = TRUE]

Panic(r) ==
    /\ gate = r
    /\ gate' = NoRequest
    /\ tracker' = Panicked
    /\ requests' = Ended(r)
    /\ UNCHANGED <<table, changes, tokens, archive, restarts, applied>>

\* ten minutes pass since a token was stored
WindowEnds(t) ==
    /\ tokens[t].fresh
    /\ tokens' = [tokens EXCEPT ![t].fresh = FALSE]
    /\ applied' = [applied EXCEPT ![t] = 0]
    /\ UNCHANGED <<table, changes, gate, requests, tracker, archive, restarts>>
-----------------------------------------------------------------------------
(* The shutdown barrier and the snapshot.                                   *)

Permits == {r \in Requests : requests[r].at \notin {"new", "ended"}}

BarrierStep(from, to) ==
    /\ tracker.barrier = from
    /\ tracker' = [tracker EXCEPT !.barrier = to]
    /\ UNCHANGED <<table, changes, tokens, gate, requests, restarts, applied>>

\* RequestTracker::quiesce closes admission
Close ==
    /\ tracker.barrier = "none"
    /\ tracker' = [tracker EXCEPT !.closed = TRUE, !.barrier = "draining"]
    /\ UNCHANGED <<table, changes, tokens, gate, requests, archive, restarts, applied>>

\* every permit is back; then the gate is taken once, and health is checked
\* before and after
PermitsBack ==
    /\ Permits = {} /\ gate = NoRequest
    /\ BarrierStep("draining", IF tracker.failed THEN "unhealthy" ELSE "quiet")
    /\ UNCHANGED archive

\* the services are exported one after the other
ExportTables ==
    /\ gate = NoRequest
    /\ BarrierStep("quiet", "half")
    /\ archive' = [archive EXCEPT !.table = table]
ExportStreams ==
    /\ BarrierStep("half", "exported")
    /\ archive' = [archive EXCEPT !.changes = changes]

\* the process ends, wherever it is, unless it is between the two exports (a
\* snapshot is published whole, see Snapshots); the next one imports
Restart ==
    /\ restarts < MaxRestarts
    /\ tracker.barrier # "half"
    /\ restarts' = restarts + 1
    /\ table' = archive.table
    /\ changes' = archive.changes
    /\ tokens' = [t \in Tokens |-> NoTransaction]
    /\ applied' = [t \in Tokens |-> 0]
    /\ gate' = NoRequest
    /\ tracker' = NewRequestTracker
    /\ requests' = [r \in Requests |-> IF requests[r].at = "new" THEN Untouched
                                       ELSE [Untouched EXCEPT !.at = "ended"]]
    /\ UNCHANGED archive

DynamoNext ==
    \/ \E r \in Requests :
         \/ \E op \in Operations : Admit(r, op)
         \/ TurnedAway(r) \/ Begin(r) \/ WriteChange(r) \/ EmitChange(r) \/ Finish(r) \/ Panic(r)
    \/ \E t \in Tokens : WindowEnds(t)
    \/ Close \/ PermitsBack \/ ExportTables \/ ExportStreams \/ Restart

DynamoSpec == DynamoInit /\ [][DynamoNext]_dynamoVars
-----------------------------------------------------------------------------
(* Properties.                                                              *)

DynamoTypeOK ==
    /\ gate \in Requests \cup {NoRequest}
    /\ \A r \in Requests : requests[r].at = "writing" <=> gate = r
    /\ changes.live => changes.records \in Seq([key : ItemKeys, old : STRING, new : STRING, mutate : {TRUE}])
    /\ tracker.barrier \in {"none", "draining", "quiet", "unhealthy", "half", "exported"}
    /\ restarts \in 0..MaxRestarts

\* the items that a consumer rebuilds from a stream's records
Rebuilt(records) ==
    LET items[i \in 0..Len(records)] ==
            IF i = 0 THEN NoTable.items
            ELSE [items[i - 1] EXCEPT ![records[i].key] = records[i].new]
    IN items[Len(records)]

PreparedChange == [key : ItemKeys, old : Images, new : Images, mutate : BOOLEAN]
Emitted == {change \in PreparedChange : EmitsRecord(change)}

\* the records the running request still has to emit of what it has written
Unpublished ==
    IF gate = NoRequest THEN <<>>
    ELSE LET r == requests[gate] IN
         IF r.op.kind \in {"create", "drop"} THEN <<>>
         ELSE IF r.todo # <<>> THEN SubSeq(r.emits, 1, Len(r.emits) - Len(r.todo)) ELSE r.emits

Agree(t, c, rest) == t.live /\ t.streamed => Rebuilt(c.records \o Keep(rest, Emitted)) = t.items

\* Replaying a table's stream gives exactly its items, but for what the
\* request that holds the gate has written and not emitted yet, and so it
\* does in every snapshot a process is started from, whatever panicked or
\* was cut off before; no retried token is applied twice in its window.
StreamReplays ==
    /\ ~tracker.failed => Agree(table, changes, Unpublished)
    /\ tracker.barrier # "half" => Agree(archive.table, archive.changes, <<>>)
    /\ \A t \in Tokens : applied[t] <= 1
=============================================================================
