------------------------------ MODULE SqsStorage ------------------------------
(***************************************************************************)
(* The two storages of an SQS queue actor, as pure operators on a storage  *)
(* record (crates/rustack-sqs-core/src/queue/storage.rs), and the receive  *)
(* helpers of queue/actor.rs that work directly on them.                   *)
(*                                                                         *)
(* Every Instant of the code is a countdown: `left' is the time that       *)
(* remains until it, and "due" (visible_at <= now, available_at <= now,    *)
(* expiry <= now) is left = 0.  An operation whose result depends on       *)
(* HashMap order, or on whether try_send finds room, yields the SET of its *)
(* possible results.                                                       *)
(***************************************************************************)
EXTENDS Integers, FiniteSets, SequencesExt

CONSTANTS
    Groups,        \* message group ids; numbers, whose order is BTreeMap order
    DedupIds,      \* deduplication ids, explicit or the hash of the body
    Names,         \* queue names (one account and region: a name is an ARN)
    NoGroup,       \* message_group_id = None (messages of standard queues)
    CountCap,      \* where approximate_receive_count saturates
    ScanBudget,    \* messages one standard receive looks at (128)
    DedupWindow    \* life of a deduplication entry (5 minutes)

ASSUME GroupsAssumption == Groups \subseteq Nat /\ IsFiniteSet(Groups) /\ NoGroup \notin Groups
ASSUME BoundsAssumption == CountCap \in Nat /\ ScanBudget \in Nat /\ DedupWindow \in Nat

(***************************************************************************)
(* Messages.  The body is reduced to its size, the attributes are dropped. *)
(***************************************************************************)
QueueMessage == [id : Nat, group : Groups \cup {NoGroup}, size : Nat,
                 count : 0..CountCap, seq : Nat]

InFlightMessage == [msg : QueueMessage, left : Nat]

Due(timed) == {e \in timed : e.left = 0}

\* One unit of time goes by.
Elapsed(left) == IF left > 0 THEN left - 1 ELSE 0
Aged(timed)   == {[e EXCEPT !.left = Elapsed(@)] : e \in timed}

\* Mutant: the count is not capped.
DeliveredUncapped(m) == [m EXCEPT !.count = @ + 1]

\* approximate_receive_count.saturating_add(1)
Delivered(m) == [m EXCEPT !.count = IF @ < CountCap THEN @ + 1 ELSE CountCap]

\* The orders in which the elements of a HashMap may be visited.
MessagesInSomeOrder(timed) ==
    {[i \in DOMAIN f |-> f[i].msg] : f \in SetToSeqs(timed)}

\* The elements of s at the positions I, in their order in s.
KeptPositions(s, I) ==
    {[i \in DOMAIN f |-> s[f[i]]] :
        f \in {h \in SetToSeqs(I) : \A i, j \in DOMAIN h : i < j => h[i] < h[j]}}

-----------------------------------------------------------------------------
(***************************************************************************)
(* StandardQueueStorage                                                    *)
(***************************************************************************)
StandardStorage == [available : Seq(QueueMessage),
                    delayed   : SUBSET InFlightMessage,
                    inFlight  : SUBSET InFlightMessage]

StandardInit == [available |-> <<>>, delayed |-> {}, inFlight |-> {}]

\* `delayed' holds only messages that were never available, so Vec order is
\* the order of their ids.
PromoteDelayed(s) ==
    {[s EXCEPT !.available = @ \o ms, !.delayed = @ \ Due(@)] :
        ms \in {o \in MessagesInSomeOrder(Due(s.delayed)) :
                    \A i, j \in DOMAIN o : i < j => o[i].id < o[j].id}}

StandardReturnExpired(s) ==
    {[s EXCEPT !.available = @ \o ms, !.inFlight = @ \ Due(@)] :
        ms \in MessagesInSomeOrder(Due(s.inFlight))}

StandardRefresh(s) == UNION {PromoteDelayed(r) : r \in StandardReturnExpired(s)}

StandardRefreshed(s) == Due(s.inFlight) # {} \/ Due(s.delayed) # {}

\* One result per set `h' of poison messages that the redrive manager took;
\* the other poison messages go to the back, in scan order.
TryReceiveStandard(s, max, vis, limit) ==
    LET a       == s.available
        budget  == IF Len(a) < ScanBudget THEN Len(a) ELSE ScanBudget
        poison  == {i \in 1..budget : a[i].count >= limit}
        scanned == {i \in 1..budget : Cardinality((1..(i - 1)) \ poison) < max}
        good    == scanned \ poison
        rest    == SubSeq(a, Cardinality(scanned) + 1, Len(a))
    IN  UNION {{[store  |-> [s EXCEPT !.available = rest \o back,
                                      !.inFlight = @ \cup
                                         {[msg |-> Delivered(a[i]), left |-> vis] : i \in good}],
                 out    |-> {a[i] : i \in good},
                 handed |-> {a[i] : i \in h}] :
                     back \in KeptPositions(a, (scanned \cap poison) \ h)} :
                h \in SUBSET (scanned \cap poison)}

StandardPurge(s) == StandardInit

StandardMessages(s) == ToSet(s.available) \cup {e.msg : e \in s.delayed \cup s.inFlight}

-----------------------------------------------------------------------------
(***************************************************************************)
(* FifoQueueStorage.  A group without an entry in the BTreeMap is an empty *)
(* sequence, so the `retain' after a receive is invisible.                 *)
(***************************************************************************)
\* DedupKey: the variants keep the three kinds of identity apart.
QueueKey(id)           == <<"queue", id>>
GroupKey(g, id)        == <<"group", g, id>>
RedriveKey(source, id) == <<"redrive", source, id>>

DedupKey == ({"queue"} \X DedupIds) \cup ({"group"} \X Groups \X DedupIds)
                \cup ({"redrive"} \X Names \X Nat)

DedupEntry == [key : DedupKey, left : Nat]

FifoStorage == [groups   : [Groups -> Seq(QueueMessage)],
                blocked  : SUBSET Groups,
                inFlight : SUBSET InFlightMessage,
                dedup    : SUBSET DedupEntry,
                next     : Nat]

FifoInit == [groups |-> [g \in Groups |-> <<>>], blocked |-> {}, inFlight |-> {},
             dedup |-> {}, next |-> 1]

Duplicate(s, key) == \E e \in s.dedup : e.key = key /\ e.left > 0

\* The EnqueueResult::Enqueued branch of enqueue().
Enqueue(s, m, key) ==
    [s EXCEPT !.next = @ + 1,
              !.dedup = {e \in @ : e.key # key} \cup {[key |-> key, left |-> DedupWindow]},
              !.groups = [s.groups EXCEPT ![m.group] = Append(s.groups[m.group], [m EXCEPT !.seq = s.next])]]

\* push_front of each message of ms to its own group; ms holds at most one
\* message of a group because a group has at most one outstanding message.
PushFront(groups, ms) ==
    [g \in Groups |-> IF \E m \in ms : m.group = g
                      THEN <<CHOOSE m \in ms : m.group = g>> \o groups[g]
                      ELSE groups[g]]

\* Groups among gs that have no message left in flight.
Idle(inFlight, gs) == {g \in gs : \A e \in inFlight : e.msg.group # g}

\* Mutant: the groups messages are taken from are not blocked.
FifoReceiveUnblocked(s, max) ==
    LET open  == {g \in Groups \ s.blocked : s.groups[g] # <<>>}
        taken == {g \in open : Cardinality({h \in open : h < g}) < max}
    IN  [store |-> [s EXCEPT !.groups = [g \in Groups |-> IF g \in taken THEN Tail(@[g]) ELSE @[g]]],
         msgs  |-> {Head(s.groups[g]) : g \in taken}]

FifoReceive(s, max) ==
    LET open  == {g \in Groups \ s.blocked : s.groups[g] # <<>>}
        taken == {g \in open : Cardinality({h \in open : h < g}) < max}
    IN  [store |-> [s EXCEPT !.groups = [g \in Groups |-> IF g \in taken THEN Tail(@[g]) ELSE @[g]],
                             !.blocked = @ \cup taken],
         msgs  |-> {Head(s.groups[g]) : g \in taken}]

\* Mutants: the groups stay blocked; the messages are restored at the back, or
\* not at all.
FinishRedriveBlocked(s, gs, restored) ==
    [s EXCEPT !.groups = PushFront(@, restored)]

FinishRedriveAtBack(s, gs, restored) ==
    [s EXCEPT !.blocked = @ \ gs,
              !.groups = [g \in Groups |-> IF \E m \in restored : m.group = g
                                           THEN Append(@[g], CHOOSE m \in restored : m.group = g)
                                           ELSE @[g]]]

FinishRedriveLosing(s, gs, restored) == [s EXCEPT !.blocked = @ \ gs]

FinishRedrive(s, gs, restored) ==
    [s EXCEPT !.blocked = @ \ gs, !.groups = PushFront(@, restored)]

MarkInFlight(s, ms, vis) ==
    [s EXCEPT !.inFlight = @ \cup {[msg |-> Delivered(m), left |-> vis] : m \in ms}]

FifoDelete(s, e) ==
    LET rest == s.inFlight \ {e}
    IN  [s EXCEPT !.inFlight = rest, !.blocked = @ \ Idle(rest, {e.msg.group})]

\* The messages of es leave the in-flight table for the head of their groups.
FifoReturn(s, es) ==
    LET rest == s.inFlight \ es
    IN  [s EXCEPT !.inFlight = rest,
                  !.groups = PushFront(@, {e.msg : e \in es}),
                  !.blocked = @ \ Idle(rest, {e.msg.group : e \in es})]

\* Mutant: expired deliveries stay in flight.
FifoReturnNothing(s) == s

FifoReturnExpired(s) == FifoReturn(s, Due(s.inFlight))

FifoChangeVisibility(s, e, vis) ==
    IF vis = 0
    THEN FifoReturn(s, {e})
    ELSE [s EXCEPT !.inFlight = (@ \ {e}) \cup {[e EXCEPT !.left = vis]}]

CleanDedupCache(s) == [s EXCEPT !.dedup = @ \ Due(@)]

\* One result per set `h' of poison messages that the redrive manager took;
\* the other poison messages are restored to the head of their groups.
TryReceiveFifo(s, max, vis, limit) ==
    LET r      == FifoReceive(s, max)
        poison == {m \in r.msgs : m.count >= limit}
    IN  {[store  |-> MarkInFlight(FinishRedrive(r.store, {m.group : m \in poison \ h}, poison \ h),
                                  r.msgs \ poison, vis),
          out    |-> r.msgs \ poison,
          handed |-> h] : h \in SUBSET poison}

FifoPurge(s) ==
    [s EXCEPT !.groups = [g \in Groups |-> <<>>], !.blocked = {}, !.inFlight = {}]

FifoMessages(s) == (UNION {ToSet(s.groups[g]) : g \in Groups}) \cup {e.msg : e \in s.inFlight}
=============================================================================
