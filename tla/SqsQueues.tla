------------------------------- MODULE SqsQueues -------------------------------
(***************************************************************************)
(* The queue actors of the SQS service and the registry that routes to     *)
(* them (crates/rustack-sqs-core/src/queue/actor.rs and provider.rs).      *)
(*                                                                         *)
(* An element of Queues is one incarnation of a queue: create_queue makes  *)
(* it, and it stops when the queue is deleted, replaced or crashes.  Each  *)
(* incarnation is an actor that runs a loop: the top of the loop settles   *)
(* the dead-letter transfers whose reply has arrived, then one ready       *)
(* branch of a select is taken.  phase[q] says where the loop is.          *)
(*                                                                         *)
(* A client command takes effect when the actor handles it, so it is one   *)
(* action at that moment.  The commands actors and the provider send each  *)
(* other (Transfer, Quiesce, Shutdown) are kept in chan[q], because there  *)
(* what happens between sending and handling matters.                      *)
(***************************************************************************)
EXTENDS SqsStorage

CONSTANTS
    Queues,        \* incarnations
    NameOf,        \* [Queues -> Names]
    FifoNames,     \* the names that end in ".fifo"
    NoQueue,       \* no queue: an empty registry slot, no dead-letter target
    Running0,      \* the queues that exist at the start
    Attrs0,        \* [Queues -> Attributes]: their attributes at creation
    AttrChoices,   \* [Queues -> SUBSET Attributes]: what SetAttributes may leave
    SizeChoices, DelayChoices, VisChoices, ChangeChoices, WaitChoices, MaxChoices,
                   \* the values of the request parameters
    ChanCap,       \* capacity of a command channel (256)
    MaxPending,    \* pending transfers of one actor (128)
    PurgeCooldown, \* time between two purges (1 minute)
    MaxMsgs,       \* BOUND: messages ever accepted
    MaxPolls,      \* BOUND: long polls waiting at one queue
    Crashable,     \* queues whose actor may panic
    Deletable,     \* queues a client may delete
    Purgeable,     \* queues a client may purge
    Producing,     \* queues clients send to
    Operations     \* the provider-wide operations that may be run

Attributes == [dlq : Names \cup {NoQueue}, maxReceive : Nat, allow : SUBSET Names,
               maxSize : Nat, perGroup : BOOLEAN]

ASSUME QueuesAssumption ==
    /\ NameOf \in [Queues -> Names] /\ FifoNames \subseteq Names
    /\ NoQueue \notin Queues \cup Names /\ Running0 \subseteq Queues
    /\ \A p, q \in Running0 : NameOf[p] = NameOf[q] => p = q
ASSUME AttrsAssumption ==
    /\ Attrs0 \in [Queues -> Attributes]
    /\ AttrChoices \in [Queues -> SUBSET Attributes]
    \* the saturation of receive counts must not be visible to a policy
    /\ \A q \in Queues : \A a \in AttrChoices[q] \cup {Attrs0[q]} : a.maxReceive <= CountCap
ASSUME ParametersAssumption ==
    /\ SizeChoices \subseteq Nat /\ DelayChoices \subseteq Nat /\ VisChoices \subseteq Nat
    /\ ChangeChoices \subseteq Nat /\ WaitChoices \subseteq Nat /\ MaxChoices \subseteq 1..10
    /\ ChanCap \in Nat /\ MaxPending \in Nat /\ PurgeCooldown \in Nat
    /\ MaxMsgs \in Nat /\ MaxPolls \in Nat
    /\ Crashable \subseteq Queues /\ Deletable \subseteq Queues
    /\ Purgeable \subseteq Queues /\ Producing \subseteq Queues
    /\ Operations \subseteq {"quiesce", "shutdown"}

VARIABLES
    registry,      \* RustackSqs.queues: [Names -> Queues or NoQueue]
    status,        \* life of an incarnation
    shutdown,      \* QueueHandle.shutdown
    attrs,         \* QueueActor.attributes
    store,         \* QueueActor.storage
    chan,          \* QueueActor.commands: internal commands not yet handled
    pending,       \* RedriveManager.pending, with the state of each reply
    quiescing,     \* RedriveManager.quiescing
    quiesceReply,  \* QueueActor.quiesce_reply
    stopping,      \* QueueActor.stopping
    polls,         \* QueueActor.pending_long_polls
    todo,          \* polls still to be visited by fulfill_pending_long_polls
    phase,         \* position in the loop of run()
    purgeLeft,     \* time until the next purge is accepted
    provider,      \* progress of RustackSqs::quiesce / shutdown_all
    nextId,        \* the id the next accepted message gets
    gone           \* history: ids deleted, purged or dropped with their queue

registryVars == <<registry, status, shutdown>>
controlVars  == <<quiescing, quiesceReply, stopping>>
pollVars     == <<polls, todo>>
vars == <<registry, status, shutdown, attrs, store, chan, pending, quiescing, quiesceReply,
          stopping, polls, todo, phase, purgeLeft, provider, nextId, gone>>

IsFifo(q)  == NameOf[q] \in FifoNames
Storage(q) == IF IsFifo(q) THEN FifoInit ELSE StandardInit
Messages(q) == IF IsFifo(q) THEN FifoMessages(store[q]) ELSE StandardMessages(store[q])
Ids(ms)    == {m.id : m \in ms}

Transfer(m, src) == [cmd |-> "Transfer", msg |-> m, src |-> src]
Quiesce  == [cmd |-> "Quiesce"]
Shutdown == [cmd |-> "Shutdown"]
Command  == [cmd : {"Transfer"}, msg : QueueMessage, src : Queues] \cup {Quiesce, Shutdown}

Operation == [op : {"none", "quiesce", "shutdown", "quiesced", "down", "failed"},
              todo : SUBSET Queues, cur : Queues \cup {NoQueue}, all : SUBSET Queues]

PendingTransfer == [msg : QueueMessage, reply : {"empty", "ok", "err"}]
PendingLongPoll == [max : 1..10, vis : Nat, left : Nat, closed : BOOLEAN]

Init ==
    /\ registry = [n \in Names |-> IF \E q \in Running0 : NameOf[q] = n
                                   THEN CHOOSE q \in Running0 : NameOf[q] = n ELSE NoQueue]
    /\ status = [q \in Queues |-> IF q \in Running0 THEN "running" ELSE "absent"]
    /\ shutdown = [q \in Queues |-> FALSE]
    /\ attrs = Attrs0
    /\ store = [q \in Queues |-> Storage(q)]
    /\ chan = [q \in Queues |-> <<>>]
    /\ pending = [q \in Queues |-> {}]
    /\ quiescing = [q \in Queues |-> FALSE]
    /\ quiesceReply = [q \in Queues |-> "none"]
    /\ stopping = [q \in Queues |-> FALSE]
    /\ polls = [q \in Queues |-> <<>>]
    /\ todo = [q \in Queues |-> <<>>]
    /\ phase = [q \in Queues |-> "select"]
    /\ purgeLeft = [q \in Queues |-> 0]
    /\ provider = [op |-> "none", todo |-> {}, cur |-> NoQueue, all |-> {}]
    /\ nextId = 1
    /\ gone = {}

-----------------------------------------------------------------------------
(***************************************************************************)
(* Building blocks                                                         *)
(***************************************************************************)

\* The actor of q waits in its select and may take a ready branch.
Selecting(q) == status[q] = "running" /\ phase[q] = "select"

\* The top of the loop has nothing to do, and is skipped.
NothingDue(q) == pending[q] = {} /\ quiesceReply[q] # "waiting" /\ ~stopping[q]

Resume(idle) == IF idle THEN "select" ELSE "top"

\* End of a branch that left pending transfers and control flags alone ...
BackToTop(q) ==
    /\ phase' = [phase EXCEPT ![q] = Resume(NothingDue(q))]
    /\ UNCHANGED pollVars

\* ... and of one that changed them.
ToTop(q) == phase' = [phase EXCEPT ![q] = "top"] /\ UNCHANGED pollVars

\* A pass over the long polls begins, unless there is none.
VisitPolls(q, pass) ==
    /\ phase' = [phase EXCEPT ![q] = pass]
    /\ todo' = [todo EXCEPT ![q] = polls[q]]
    /\ polls' = [polls EXCEPT ![q] = <<>>]

\* fulfill_pending_long_polls, when the branch made messages available.
Wake(q) == IF polls[q] # <<>> THEN VisitPolls(q, "fulfil") ELSE BackToTop(q)

SetStore(q, s) == store' = [store EXCEPT ![q] = s]

\* RedriveRequest::target: a message with this receive count is dead.
RedriveLimit(q) == IF attrs[q].dlq = NoQueue THEN CountCap + 1 ELSE attrs[q].maxReceive

\* The routes.get / shutdown.load / try_send of a handoff are not atomic with
\* a removal, so a command may still reach a queue that is being shut down.
Routable(q, t) ==
    /\ NameOf[t] = attrs[q].dlq
    /\ status[t] = "running"
    /\ registry[NameOf[t]] = t \/ shutdown[t]

\* RedriveManager::handoff for each message of ms.
Handoff(q, ms) ==
    IF ms = {}
    THEN UNCHANGED <<chan, pending>>
    ELSE /\ ~quiescing[q]
         /\ Cardinality(pending[q]) + Cardinality(ms) <= MaxPending
         /\ attrs[q].dlq # NameOf[q]
         /\ \E t \in Queues : \E order \in SetToSeqs(ms) :
               /\ Routable(q, t)
               /\ Len(chan[t]) + Len(order) <= ChanCap
               /\ chan' = [chan EXCEPT ![t] =
                              @ \o [i \in DOMAIN order |-> Transfer(order[i], q)]]
         /\ pending' = [pending EXCEPT ![q] =
                           @ \cup {[msg |-> m, reply |-> "empty"] : m \in ms}]

\* try_receive: every storage, set of delivered and set of handed-off messages
\* it may end with.
TryReceive(q, max, vis) ==
    IF IsFifo(q)
    THEN TryReceiveFifo(FifoReturnExpired(store[q]), max, vis, RedriveLimit(q))
    ELSE UNION {TryReceiveStandard(s, max, vis, RedriveLimit(q)) : s \in StandardRefresh(store[q])}

-----------------------------------------------------------------------------
(***************************************************************************)
(* Client commands                                                         *)
(***************************************************************************)
NewMessage(g, size) == [id |-> nextId, group |-> g, size |-> size, count |-> 0, seq |-> 0]

SendMessageStandard(q) ==
    /\ q \in Producing /\ Selecting(q) /\ ~IsFifo(q) /\ nextId <= MaxMsgs
    /\ \E size \in SizeChoices, delay \in DelayChoices :
          /\ size <= attrs[q].maxSize
          /\ LET m == NewMessage(NoGroup, size)
             IN  IF delay > 0
                 THEN /\ SetStore(q, [store[q] EXCEPT !.delayed = @ \cup {[msg |-> m, left |-> delay]}])
                      /\ BackToTop(q)
                 ELSE /\ SetStore(q, [store[q] EXCEPT !.available = Append(@, m)])
                      /\ Wake(q)
    /\ nextId' = nextId + 1
    /\ UNCHANGED <<registryVars, attrs, chan, pending, controlVars, purgeLeft, provider, gone>>

SendMessageFifo(q) ==
    /\ q \in Producing /\ Selecting(q) /\ IsFifo(q) /\ nextId <= MaxMsgs
    /\ \E size \in SizeChoices, g \in Groups, id \in DedupIds :
          LET key == IF attrs[q].perGroup THEN GroupKey(g, id) ELSE QueueKey(id)
          IN  /\ size <= attrs[q].maxSize
              /\ IF Duplicate(store[q], key)
                 THEN BackToTop(q) /\ UNCHANGED <<store, nextId>>
                 ELSE /\ SetStore(q, Enqueue(store[q], NewMessage(g, size), key))
                      /\ Wake(q)
                      /\ nextId' = nextId + 1
    /\ UNCHANGED <<registryVars, attrs, chan, pending, controlVars, purgeLeft, provider, gone>>

ReceiveMessage(q) ==
    /\ Selecting(q)
    /\ \E max \in MaxChoices, vis \in VisChoices, wait \in WaitChoices :
       \E r \in TryReceive(q, max, vis) :
          /\ SetStore(q, r.store)
          /\ Handoff(q, r.handed)
          /\ phase' = [phase EXCEPT ![q] =
                          Resume(NothingDue(q) /\ r.handed = {})]
          /\ IF r.out # {} \/ wait = 0
             THEN UNCHANGED polls
             ELSE /\ Len(polls[q]) < MaxPolls
                  /\ polls' = [polls EXCEPT ![q] = Append(@,
                        [max |-> max, vis |-> vis, left |-> wait, closed |-> FALSE])]
    /\ UNCHANGED <<registryVars, attrs, controlVars, todo, purgeLeft, provider, nextId, gone>>

\* A receipt handle names one delivery; a stale one finds no entry and changes
\* nothing, so only the handles of messages in flight appear here.
DeleteMessage(q) ==
    /\ Selecting(q)
    /\ \E e \in store[q].inFlight :
          /\ gone' = gone \cup {e.msg.id}
          /\ IF IsFifo(q)
             THEN SetStore(q, FifoDelete(store[q], e)) /\ Wake(q)
             ELSE SetStore(q, [store[q] EXCEPT !.inFlight = @ \ {e}]) /\ BackToTop(q)
    /\ UNCHANGED <<registryVars, attrs, chan, pending, controlVars, purgeLeft, provider, nextId>>

StandardChangeVisibility(s, e, vis) ==
    IF vis = 0
    THEN [s EXCEPT !.inFlight = @ \ {e}, !.available = Append(@, e.msg)]
    ELSE [s EXCEPT !.inFlight = (@ \ {e}) \cup {[e EXCEPT !.left = vis]}]

ChangeVisibility(q) ==
    /\ Selecting(q)
    /\ \E e \in store[q].inFlight, vis \in ChangeChoices :
          /\ SetStore(q, IF IsFifo(q) THEN FifoChangeVisibility(store[q], e, vis)
                                      ELSE StandardChangeVisibility(store[q], e, vis))
          /\ IF vis = 0 THEN Wake(q) ELSE BackToTop(q)
    /\ UNCHANGED <<registryVars, attrs, chan, pending, controlVars, purgeLeft, provider, nextId, gone>>

\* Unsettled messages of a queue: the source still owns a transfer until the
\* target has said ok.
Owed(q) == {p.msg : p \in {p \in pending[q] : p.reply # "ok"}}

\* Clearing `pending' drops the receivers of the replies.
PurgeQueue(q) ==
    /\ q \in Purgeable /\ Selecting(q) /\ purgeLeft[q] = 0
    /\ gone' = gone \cup Ids(Messages(q)) \cup Ids(Owed(q))
    /\ pending' = [pending EXCEPT ![q] = {}]
    /\ SetStore(q, IF IsFifo(q) THEN FifoPurge(store[q]) ELSE StandardPurge(store[q]))
    /\ purgeLeft' = [purgeLeft EXCEPT ![q] = PurgeCooldown]
    /\ ToTop(q)
    /\ UNCHANGED <<registryVars, attrs, chan, controlVars, provider, nextId>>

\* update_from_map applies the keys one by one, so also a failed call may
\* leave any combination of old and new values.
SetAttributes(q) ==
    /\ Selecting(q)
    /\ \E a \in AttrChoices[q] : attrs' = [attrs EXCEPT ![q] = a]
    /\ BackToTop(q)
    /\ UNCHANGED <<registryVars, store, chan, pending, controlVars, purgeLeft, provider, nextId, gone>>

\* The client of a long poll disconnects: the receiver of the reply is dropped.
DropPoll(q) ==
    /\ \E i \in DOMAIN polls[q] :
          /\ ~polls[q][i].closed
          /\ polls' = [polls EXCEPT ![q][i].closed = TRUE]
    /\ UNCHANGED <<registryVars, attrs, store, chan, pending, controlVars, todo, phase, purgeLeft,
                   provider, nextId, gone>>

-----------------------------------------------------------------------------
(***************************************************************************)
(* Commands from other actors and from the provider                        *)
(***************************************************************************)
\* Mutant: an actor that stops no longer handles commands.
ReceivesUnlessStopping(q, cmd) ==
    Selecting(q) /\ ~stopping[q] /\ chan[q] # <<>> /\ Head(chan[q]).cmd = cmd

Receives(q, cmd) == Selecting(q) /\ chan[q] # <<>> /\ Head(chan[q]).cmd = cmd

\* The source still waits for this reply: reply.is_closed() is false.
ReplyOpen(c) == \E p \in pending[c.src] : p.msg.id = c.msg.id /\ p.reply = "empty"

Replied(ps, ids, answer) ==
    {IF p.msg.id \in ids /\ p.reply = "empty" THEN [p EXCEPT !.reply = answer] ELSE p : p \in ps}

Accepts(q, c) ==
    /\ ~stopping[q]
    /\ IsFifo(q) <=> c.msg.group # NoGroup
    /\ c.msg.size <= attrs[q].maxSize
    /\ NameOf[c.src] \in attrs[q].allow

\* The storage after the mutation of accept_transfer; the result of enqueue,
\* which may have found a duplicate, is not looked at.
Accepted(q, c) ==
    LET m   == [c.msg EXCEPT !.count = 0]
        key == RedriveKey(NameOf[c.src], m.id)
    IN  IF ~IsFifo(q) THEN [store[q] EXCEPT !.available = Append(@, m)]
        ELSE IF Duplicate(store[q], key) THEN store[q]
        ELSE Enqueue(store[q], m, key)

HandleTransfer(q) ==
    /\ Receives(q, "Transfer")
    /\ LET c == Head(chan[q])
       IN  IF ReplyOpen(c) /\ Accepts(q, c)
           THEN /\ SetStore(q, Accepted(q, c))
                /\ pending' = [pending EXCEPT ![c.src] = Replied(@, {c.msg.id}, "ok")]
                /\ Wake(q)
           ELSE /\ pending' = [pending EXCEPT ![c.src] = Replied(@, {c.msg.id}, "err")]
                /\ BackToTop(q)
                /\ UNCHANGED store
    /\ chan' = [chan EXCEPT ![q] = Tail(@)]
    /\ UNCHANGED <<registryVars, attrs, controlVars, purgeLeft, provider, nextId, gone>>

HandleQuiesce(q) ==
    /\ Receives(q, "Quiesce")
    /\ quiescing' = [quiescing EXCEPT ![q] = TRUE]
    /\ quiesceReply' = [quiesceReply EXCEPT ![q] = "waiting"]
    /\ chan' = [chan EXCEPT ![q] = Tail(@)]
    /\ ToTop(q)
    /\ UNCHANGED <<registryVars, attrs, store, pending, stopping, purgeLeft, provider, nextId, gone>>

HandleShutdown(q) ==
    /\ Receives(q, "Shutdown")
    /\ stopping' = [stopping EXCEPT ![q] = TRUE]
    /\ quiescing' = [quiescing EXCEPT ![q] = TRUE]
    /\ chan' = [chan EXCEPT ![q] = Tail(@)]
    /\ ToTop(q)
    /\ UNCHANGED <<registryVars, attrs, store, pending, quiesceReply, purgeLeft, provider, nextId, gone>>

\* Mutant: a closed channel does not stop the actor.
ChannelClosedIgnored(q) ==
    /\ Selecting(q) /\ chan[q] = <<>> /\ ~stopping[q]
    /\ registry[NameOf[q]] # q /\ q \notin provider.todo
    /\ quiescing' = [quiescing EXCEPT ![q] = TRUE]
    /\ ToTop(q)
    /\ UNCHANGED <<registryVars, attrs, store, chan, pending, quiesceReply, stopping, purgeLeft,
                   provider, nextId, gone>>

\* commands.recv() yields None: nobody holds a sender any more (another create
\* replaced the handle, or the caller of delete_queue went away).
ChannelClosed(q) ==
    /\ Selecting(q) /\ chan[q] = <<>> /\ ~stopping[q]
    /\ registry[NameOf[q]] # q /\ q \notin provider.todo
    /\ stopping' = [stopping EXCEPT ![q] = TRUE]
    /\ quiescing' = [quiescing EXCEPT ![q] = TRUE]
    /\ ToTop(q)
    /\ UNCHANGED <<registryVars, attrs, store, chan, pending, quiesceReply, purgeLeft, provider,
                   nextId, gone>>

-----------------------------------------------------------------------------
(***************************************************************************)
(* The rest of the loop                                                    *)
(***************************************************************************)
\* wait_for_transfer: a reply (or the loss of its sender) wakes the actor.
WaitForTransfer(q) ==
    /\ Selecting(q)
    /\ \E p \in pending[q] : p.reply # "empty"
    /\ ToTop(q)
    /\ UNCHANGED <<registryVars, attrs, store, chan, pending, controlVars, purgeLeft, provider,
                   nextId, gone>>

Settled(q) == {p \in pending[q] : p.reply # "empty"}
Failed(q)  == {p \in pending[q] : p.reply = "err"}

\* The storages settle_transfers may leave.
SettleTransfers(q) ==
    IF IsFifo(q)
    THEN {FinishRedrive(store[q], {p.msg.group : p \in Settled(q)}, {p.msg : p \in Failed(q)})}
    ELSE {[store[q] EXCEPT !.available = ms \o @] : ms \in MessagesInSomeOrder(Failed(q))}

\* The actor breaks out of its loop once it stops and nothing is pending.
Exits(q) == stopping[q] /\ Settled(q) = pending[q]

\* Mutant: Quiesce is answered while transfers are under way.
LoopTopHasty(q) ==
    /\ status[q] = "running" /\ phase[q] = "top" /\ ~Exits(q)
    /\ \E s \in SettleTransfers(q) : SetStore(q, s)
    /\ pending' = [pending EXCEPT ![q] = @ \ Settled(q)]
    /\ quiesceReply' = [quiesceReply EXCEPT ![q] = IF @ = "waiting" THEN "sent" ELSE @]
    /\ phase' = [phase EXCEPT ![q] = "select"]
    /\ UNCHANGED <<registryVars, attrs, chan, quiescing, stopping, pollVars, purgeLeft, provider,
                   nextId, gone>>

LoopTop(q) ==
    /\ status[q] = "running" /\ phase[q] = "top" /\ ~Exits(q)
    /\ \E s \in SettleTransfers(q) : SetStore(q, s)
    /\ pending' = [pending EXCEPT ![q] = @ \ Settled(q)]
    /\ quiesceReply' = [quiesceReply EXCEPT ![q] =
                           IF @ = "waiting" /\ Settled(q) = pending[q] THEN "sent" ELSE @]
    /\ phase' = [phase EXCEPT ![q] = "select"]
    /\ UNCHANGED <<registryVars, attrs, chan, quiescing, stopping, pollVars, purgeLeft, provider,
                   nextId, gone>>

\* The ids of the transfers from queue p that wait in the channel of q.
QueuedFrom(q, p) ==
    {chan[q][i].msg.id : i \in {j \in DOMAIN chan[q] : chan[q][j].cmd = "Transfer" /\ chan[q][j].src = p}}

\* Mutant: the reply senders in the channel outlive the actor.
EndsSilently(q, how) ==
    /\ status' = [status EXCEPT ![q] = how]
    /\ pending' = [pending EXCEPT ![q] = {}]
    /\ chan' = [chan EXCEPT ![q] = <<>>]
    /\ SetStore(q, Storage(q))
    /\ polls' = [polls EXCEPT ![q] = <<>>]
    /\ todo' = [todo EXCEPT ![q] = <<>>]
    /\ gone' = gone \cup Ids(Messages(q)) \cup Ids(Owed(q))
    /\ UNCHANGED <<registry, shutdown, attrs, quiescing, stopping, phase, purgeLeft, provider, nextId>>

\* The actor ends: its storage and its channel are dropped, and with the
\* channel the reply senders of the transfers that were still queued.
Ends(q, how) ==
    /\ status' = [status EXCEPT ![q] = how]
    /\ pending' = [p \in Queues |->
                      IF p = q THEN {} ELSE Replied(pending[p], QueuedFrom(q, p), "err")]
    /\ chan' = [chan EXCEPT ![q] = <<>>]
    /\ SetStore(q, Storage(q))
    /\ polls' = [polls EXCEPT ![q] = <<>>]
    /\ todo' = [todo EXCEPT ![q] = <<>>]
    /\ gone' = gone \cup Ids(Messages(q)) \cup Ids(Owed(q))
    /\ UNCHANGED <<registry, shutdown, attrs, quiescing, stopping, phase, purgeLeft, provider, nextId>>

LoopExit(q) ==
    /\ status[q] = "running" /\ phase[q] = "top" /\ Exits(q)
    /\ quiesceReply' = [quiesceReply EXCEPT ![q] = IF @ = "waiting" THEN "sent" ELSE @]
    /\ Ends(q, "stopped")

\* A handler panics (CrashActor in tests; a negative visibility timeout
\* overflows Instant + Duration); the supervisor only records it.
Crash(q) ==
    /\ Selecting(q) /\ q \in Crashable
    /\ UNCHANGED quiesceReply
    /\ Ends(q, "crashed")

\* Mutant: a poll stays although its deadline has passed.
LiveForever(ps) == {i \in DOMAIN ps : ~ps[i].closed}

Live(ps) == {i \in DOMAIN ps : ~ps[i].closed /\ ps[i].left > 0}

\* expire_long_polls
DropDuePolls(q) ==
    /\ \E ps \in KeptPositions(polls[q], Live(polls[q])) : polls' = [polls EXCEPT ![q] = ps]
    /\ phase' = [phase EXCEPT ![q] = Resume(NothingDue(q))]
    /\ UNCHANGED todo

PeriodicCleanup(q) ==
    /\ Selecting(q)
    /\ LET changed == IF IsFifo(q) THEN Due(store[q].inFlight) # {} ELSE StandardRefreshed(store[q])
       IN  /\ \E s \in IF IsFifo(q) THEN {CleanDedupCache(FifoReturnExpired(store[q]))}
                                    ELSE StandardRefresh(store[q]) : SetStore(q, s)
           /\ IF changed /\ polls[q] # <<>>
              THEN VisitPolls(q, "cleanup")
              ELSE DropDuePolls(q)
    /\ UNCHANGED <<registryVars, attrs, chan, pending, controlVars, purgeLeft, provider, nextId, gone>>

\* The select branch on the earliest deadline.
ExpireLongPolls(q) ==
    /\ Selecting(q)
    /\ \E i \in DOMAIN polls[q] : polls[q][i].left = 0
    /\ DropDuePolls(q)
    /\ UNCHANGED <<registryVars, attrs, store, chan, pending, controlVars, purgeLeft, provider,
                   nextId, gone>>

\* One iteration of fulfill_pending_long_polls; at the end of a periodic
\* cleanup a poll that got nothing and is due is answered with nothing.
FulfillPoll(q) ==
    /\ status[q] = "running" /\ todo[q] # <<>>
    /\ LET p == Head(todo[q])
           keep == ~(phase[q] = "cleanup" /\ p.left = 0)
           last == Len(todo[q]) = 1
       IN  \/ /\ p.closed
              /\ phase' = [phase EXCEPT ![q] = IF ~last THEN @ ELSE Resume(NothingDue(q))]
              /\ UNCHANGED <<store, chan, pending, polls>>
           \/ /\ ~p.closed
              /\ \E r \in TryReceive(q, p.max, p.vis) :
                   /\ SetStore(q, r.store)
                   /\ Handoff(q, r.handed)
                   /\ polls' = [polls EXCEPT ![q] = IF r.out = {} /\ keep THEN Append(@, p) ELSE @]
                   /\ phase' = [phase EXCEPT ![q] = IF ~last THEN @
                                   ELSE Resume(NothingDue(q) /\ r.handed = {})]
    /\ todo' = [todo EXCEPT ![q] = Tail(@)]
    /\ UNCHANGED <<registryVars, attrs, controlVars, purgeLeft, provider, nextId, gone>>

AgedPolls(ps) == [i \in DOMAIN ps |-> [ps[i] EXCEPT !.left = Elapsed(@)]]

\* Some timer has not run out.
TimePasses ==
    \E q \in Queues :
       \/ purgeLeft[q] > 0
       \/ \E e \in store[q].inFlight : e.left > 0
       \/ \E i \in DOMAIN polls[q] : polls[q][i].left > 0
       \/ IF IsFifo(q) THEN \E e \in store[q].dedup : e.left > 0
                       ELSE \E e \in store[q].delayed : e.left > 0

\* One unit of time.
Tick ==
    /\ TimePasses
    /\ store' = [q \in Queues |->
          IF IsFifo(q)
          THEN [store[q] EXCEPT !.inFlight = Aged(@), !.dedup = Aged(@)]
          ELSE [store[q] EXCEPT !.inFlight = Aged(@), !.delayed = Aged(@)]]
    /\ polls' = [q \in Queues |-> AgedPolls(polls[q])]
    /\ todo' = [q \in Queues |-> AgedPolls(todo[q])]
    /\ purgeLeft' = [q \in Queues |-> Elapsed(purgeLeft[q])]
    /\ UNCHANGED <<registryVars, attrs, chan, pending, controlVars, phase, provider, nextId, gone>>

-----------------------------------------------------------------------------
(***************************************************************************)
(* The registry: create_queue, delete_queue, quiesce, shutdown_all         *)
(***************************************************************************)
\* create_queue looks the name up ...
CreateCheck(q) ==
    /\ status[q] = "absent" /\ registry[NameOf[q]] = NoQueue
    /\ status' = [status EXCEPT ![q] = "checked"]
    /\ UNCHANGED <<registry, shutdown, attrs, store, chan, pending, controlVars, pollVars, phase,
                   purgeLeft, provider, nextId, gone>>

\* ... and, without a lock in between, spawns the actor and inserts its handle.
CreateInsert(q) ==
    /\ status[q] = "checked"
    /\ status' = [status EXCEPT ![q] = "running"]
    /\ registry' = [registry EXCEPT ![NameOf[q]] = q]
    /\ UNCHANGED <<shutdown, attrs, store, chan, pending, controlVars, pollVars, phase, purgeLeft,
                   provider, nextId, gone>>

\* The first two steps of delete_queue: the handle leaves the registry and its
\* shutdown flag is set.
DeleteQueue(q) ==
    /\ q \in Deletable
    /\ registry[NameOf[q]] = q
    /\ registry' = [registry EXCEPT ![NameOf[q]] = NoQueue]
    /\ shutdown' = [shutdown EXCEPT ![q] = TRUE]
    /\ UNCHANGED <<status, attrs, store, chan, pending, controlVars, pollVars, phase, purgeLeft,
                   provider, nextId, gone>>

Sent(q, c) == \E i \in DOMAIN chan[q] : chan[q][i] = c

\* QueueHandle::shutdown sends the command once there is room in the channel.
SendShutdown(q) ==
    /\ shutdown[q] /\ status[q] = "running" /\ ~stopping[q]
    /\ ~Sent(q, Shutdown) /\ Len(chan[q]) < ChanCap
    /\ chan' = [chan EXCEPT ![q] = Append(@, Shutdown)]
    /\ UNCHANGED <<registryVars, attrs, store, pending, controlVars, pollVars, phase, purgeLeft,
                   provider, nextId, gone>>

Registered == {registry[n] : n \in Names} \ {NoQueue}

\* quiesce and shutdown_all collect the handles; shutdown_all also clears the
\* registry at once.
StartOperation(op) ==
    /\ provider.op = "none"
    /\ provider' = [op |-> op, todo |-> Registered, cur |-> NoQueue, all |-> Registered]
    /\ registry' = IF op = "shutdown" THEN [n \in Names |-> NoQueue] ELSE registry
    /\ UNCHANGED <<status, shutdown, attrs, store, chan, pending, controlVars, pollVars, phase,
                   purgeLeft, nextId, gone>>

\* They visit the handles one after the other ...
VisitHandle(q) ==
    /\ provider.op \in {"quiesce", "shutdown"} /\ provider.cur = NoQueue /\ q \in provider.todo
    /\ IF provider.op = "shutdown"
       THEN /\ shutdown' = [shutdown EXCEPT ![q] = TRUE]
            /\ provider' = [provider EXCEPT !.cur = q]
            /\ UNCHANGED chan
       ELSE /\ UNCHANGED shutdown
            /\ IF status[q] = "running"
               THEN /\ Len(chan[q]) < ChanCap
                    /\ chan' = [chan EXCEPT ![q] = Append(@, Quiesce)]
                    /\ provider' = [provider EXCEPT !.cur = q]
               ELSE /\ provider' = [provider EXCEPT !.op = "failed"]
                    /\ UNCHANGED chan
    /\ UNCHANGED <<registry, status, attrs, store, pending, controlVars, pollVars, phase, purgeLeft,
                   nextId, gone>>

\* ... awaiting the reply or the completion of each.
HandleVisited(q) ==
    /\ provider.cur = q
    /\ \/ /\ IF provider.op = "shutdown" THEN status[q] # "running" ELSE quiesceReply[q] = "sent"
          /\ provider' = [provider EXCEPT !.cur = NoQueue, !.todo = @ \ {q}]
       \/ /\ provider.op = "quiesce" /\ quiesceReply[q] # "sent" /\ status[q] # "running"
          /\ provider' = [provider EXCEPT !.op = "failed", !.cur = NoQueue]
    /\ UNCHANGED <<registryVars, attrs, store, chan, pending, controlVars, pollVars, phase, purgeLeft,
                   nextId, gone>>

OperationDone ==
    /\ provider.op \in {"quiesce", "shutdown"} /\ provider.todo = {}
    /\ provider' = [provider EXCEPT !.op = IF @ = "quiesce" THEN "quiesced" ELSE "down"]
    /\ UNCHANGED <<registryVars, attrs, store, chan, pending, controlVars, pollVars, phase, purgeLeft,
                   nextId, gone>>

-----------------------------------------------------------------------------
\* What the actor of q does on its own account.
LoopStep(q) ==
    \/ LoopTop(q) \/ LoopExit(q) \/ FulfillPoll(q)

\* The branch on commands.recv().
HandleCommand(q) == HandleTransfer(q) \/ HandleQuiesce(q) \/ HandleShutdown(q) \/ ChannelClosed(q)

SelectBranch(q) ==
    \/ HandleCommand(q) \/ WaitForTransfer(q) \/ PeriodicCleanup(q) \/ ExpireLongPolls(q)

ClientCommand(q) ==
    \/ SendMessageStandard(q) \/ SendMessageFifo(q) \/ ReceiveMessage(q) \/ DeleteMessage(q)
    \/ ChangeVisibility(q) \/ PurgeQueue(q) \/ SetAttributes(q) \/ DropPoll(q)

RegistryStep(q) ==
    \/ CreateCheck(q) \/ CreateInsert(q) \/ DeleteQueue(q) \/ SendShutdown(q)

\* A started quiesce or shutdown_all goes on.
ProviderStep ==
    \/ \E q \in Queues : VisitHandle(q) \/ HandleVisited(q)
    \/ OperationDone

Next ==
    \/ \E q \in Queues : \/ LoopStep(q) \/ SelectBranch(q) \/ ClientCommand(q)
                         \/ RegistryStep(q) \/ Crash(q)
    \/ \E op \in Operations : StartOperation(op)
    \/ ProviderStep
    \/ Tick

Spec == Init /\ [][Next]_vars

\* Fairness.  tokio::select! polls its branches in random order, so a branch
\* that is ready again and again is taken; the loop itself never waits; the
\* futures of shutdown(), quiesce() and shutdown_all() are polled to the end;
\* time goes on.  Clients promise nothing.
ControlFairness ==
    /\ \A q \in Queues :
          /\ WF_vars(LoopStep(q)) /\ WF_vars(WaitForTransfer(q))
          /\ SF_vars(HandleCommand(q))
          /\ WF_vars(SendShutdown(q))
    /\ WF_vars(ProviderStep)

TimerFairness ==
    /\ \A q \in Queues :
          /\ WF_vars(LoopStep(q))
          /\ SF_vars(PeriodicCleanup(q)) /\ SF_vars(ExpireLongPolls(q))
    /\ WF_vars(Tick)

ControlFairSpec == Spec /\ ControlFairness
FairSpec        == ControlFairSpec /\ TimerFairness

-----------------------------------------------------------------------------
(***************************************************************************)
(* Properties                                                              *)
(***************************************************************************)
FifoQueues == {q \in Queues : IsFifo(q)}
Alive(q) == status[q] = "running"

\* Every variable has its type; in particular what a queue holds fits its kind.
ControlTypeOK ==
    /\ registry \in [Names -> Queues \cup {NoQueue}]
    /\ status \in [Queues -> {"absent", "checked", "running", "stopped", "crashed"}]
    /\ shutdown \in [Queues -> BOOLEAN]
    /\ attrs \in [Queues -> Attributes]
    /\ quiescing \in [Queues -> BOOLEAN] /\ stopping \in [Queues -> BOOLEAN]
    /\ quiesceReply \in [Queues -> {"none", "waiting", "sent"}]
    /\ purgeLeft \in [Queues -> Nat]
    /\ provider \in Operation
    /\ nextId \in Nat /\ gone \subseteq Nat

LoopTypeOK ==
    /\ polls \in [Queues -> Seq(PendingLongPoll)]
    /\ todo \in [Queues -> Seq(PendingLongPoll)]
    /\ phase \in [Queues -> {"select", "fulfil", "cleanup", "top"}]

MessageTypeOK ==
    /\ store \in [Queues -> FifoStorage \cup StandardStorage]
    /\ \A q \in Queues : store[q] \in IF IsFifo(q) THEN FifoStorage ELSE StandardStorage
    /\ chan \in [Queues -> Seq(Command)]
    /\ pending \in [Queues -> SUBSET PendingTransfer]

TypeOK == ControlTypeOK /\ LoopTypeOK /\ MessageTypeOK

\* The messages of a group that were taken from it and not yet disposed of:
\* received by a client or on their way to the dead-letter queue.
Outstanding(q, g) ==
    {m \in {e.msg : e \in store[q].inFlight} \cup {p.msg : p \in pending[q]} : m.group = g}

\* A group is blocked exactly while one message of it is outstanding, and never
\* more than one is: storage.rs keeps blocked_groups, in_flight and the pending
\* transfers of the actor in step through receives, redrives, timeouts,
\* visibility changes, deletes and purges.
GroupBlocking ==
    \A q \in FifoQueues, g \in Groups :
       /\ g \in store[q].blocked <=> Outstanding(q, g) # {}
       /\ \A m, n \in Outstanding(q, g) : m = n

\* "Strict FIFO per group": a group is sorted by sequence number, and its
\* outstanding message precedes all that still wait.
GroupOrder ==
    \A q \in FifoQueues, g \in Groups :
       LET w == store[q].groups[g]
       IN  /\ \A i, j \in DOMAIN w : i < j => w[i].seq < w[j].seq
           /\ \A m \in Outstanding(q, g), i \in DOMAIN w : m.seq < w[i].seq

\* A client never receives a message while an earlier one of its group is
\* still in the queue.
NeverOvertaken ==
    [][\A q \in FifoQueues : \A e \in store'[q].inFlight :
          e.msg.id \notin {f.msg.id : f \in store[q].inFlight} =>
             \A m \in Messages(q) \cup {p.msg : p \in pending[q]} :
                m.group = e.msg.group => m.seq >= e.msg.seq]_vars

\* The places that hold message id.  A transfer stops counting when the target
\* has confirmed it.
Places(id) ==
    UNION {
       {<<q, "pending", p>> : p \in {p \in pending[q] : p.msg.id = id /\ p.reply # "ok"}}
       \cup {<<q, "inFlight", e>> : e \in {e \in store[q].inFlight : e.msg.id = id}}
       \cup (IF IsFifo(q)
             THEN UNION {{<<q, g, i>> : i \in {i \in DOMAIN store[q].groups[g] :
                                                  store[q].groups[g][i].id = id}} : g \in Groups}
             ELSE {<<q, "available", i>> : i \in {i \in DOMAIN store[q].available :
                                                  store[q].available[i].id = id}}
                  \cup {<<q, "delayed", e>> : e \in {e \in store[q].delayed : e.msg.id = id}})
       : q \in Queues}

\* Every accepted message is in exactly one place until it is deleted, purged
\* or dropped with its queue, across receives, timeouts and dead-letter
\* transfers that are accepted, rejected, lost with the target or purged.
Conservation ==
    \A id \in 1..(nextId - 1) : Cardinality(Places(id)) = IF id \in gone THEN 0 ELSE 1

\* No transfer waits for a reply that cannot come: as long as the reply is
\* missing, a running queue has the command in its channel.
TransferTracked ==
    \A q \in Queues : \A p \in pending[q] : p.reply = "empty" =>
       \E t \in Queues : Alive(t) /\ p.msg.id \in QueuedFrom(t, q)

\* When RustackSqs::quiesce has returned Ok, the queues it visited have no
\* transfer under way, neither as source nor in any channel, and will not
\* start one.
QuiesceBarrier ==
    provider.op = "quiesced" =>
       \A q \in provider.all :
          /\ pending[q] = {}
          /\ \A t \in Queues : \A i \in DOMAIN chan[t] :
                chan[t][i].cmd = "Transfer" /\ chan[t][i].src = q => ~ReplyOpen(chan[t][i])

\* The queue could hand a message to a receiver right now.
Deliverable(q) ==
    IF IsFifo(q)
    THEN \E g \in Groups \ store[q].blocked :
            store[q].groups[g] # <<>> /\ Head(store[q].groups[g]).count < RedriveLimit(q)
    ELSE \E i \in DOMAIN store[q].available : store[q].available[i].count < RedriveLimit(q)

\* No long poll sleeps on a queue that has a message for it.
NoMissedWakeup ==
    \A q \in Queues : Alive(q) /\ phase[q] = "select" /\ Deliverable(q) =>
       \A i \in DOMAIN polls[q] : polls[q][i].closed

\* Every dead-letter transfer is settled, whatever happens to its target.
TransfersSettle ==
    \A q \in Queues : \A id \in 1..MaxMsgs :
       id \in Ids({p.msg : p \in pending[q]}) ~> id \notin Ids({p.msg : p \in pending[q]})

\* shutdown() returns: a queue whose removal began stops, also when two queues
\* are each other's dead-letter queues and both wait for replies; and so does a
\* provider-wide quiesce() or shutdown_all(), which waits for all of them.
ShutdownCompletes ==
    /\ \A q \in Queues : shutdown[q] ~> ~Alive(q)
    /\ provider.op \in {"quiesce", "shutdown"} ~> provider.op \in {"quiesced", "down", "failed"}

\* A queue that is not, or no longer, reachable by its name does not leak its
\* actor: deleted, or overtaken by a concurrent create_queue.
OrphansStop == \A q \in Queues : Alive(q) /\ registry[NameOf[q]] # q ~> ~Alive(q)

\* A long poll is answered, with messages or without.
PollsAnswered == \A q \in Queues : polls[q] # <<>> ~> polls[q] = <<>>

\* A delivery whose visibility timeout has run out does not stay in flight
\* (with GroupBlocking: a group is never blocked for good by a dead consumer).
ExpiredReturned == \A q \in Queues : Due(store[q].inFlight) # {} ~> Due(store[q].inFlight) = {}
=============================================================================
