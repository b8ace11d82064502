--------------------------- MODULE FrameScheduler ---------------------------
(***************************************************************************)
(* The structured frame scheduler of the Step Functions engine             *)
(* (rustack-stepfunctions-core/src/engine/scheduler).  One execution is a   *)
(* tree of frames: the root frame runs the state machine, a Map or Parallel *)
(* state opens a round whose branches are child frames.  The scheduler is a *)
(* pure value, `g' below, that its actor moves with advance, complete,      *)
(* stop and retired; every operator here is one of its methods, from a      *)
(* value of g to the set of values (and updates) the method can return; x   *)
(* is what the call sees: the clock, the slots others hold and the plan.    *)
(*                                                                         *)
(* What an interpreter computes is data: a step of a Ready frame picks any  *)
(* of the plan's state types, a failed attempt any of the recoveries.     *)
(* Frame ids grow, so a descendant's id is above its ancestors'.            *)
(***************************************************************************)
EXTENDS Integers, Sequences, FiniteSets, FiniteSetsExt, SequencesExt, Functions, Filtering

CONSTANTS Plans,        \* what the executions of this instance may be like
          GlobalFrames, \* FrameCapacity: frames of all executions
          ScanLimit,    \* SCAN_LIMIT: ready entries looked at per advance
          MaxCalls      \* MAX_CALLS: unretired calls of one execution

StateTypes == {"Pass", "Succeed", "Fail", "Task", "Wait", "FanOut"}
Faults == {"stop", "reject", "dirty", "history", "evaluation", "store", "memory", "branch",
           "others"}

(* A plan is a machine, the limits it runs under and what may go wrong:     *)
(*   moves     the state types the machine uses                             *)
(*   fanouts   per nesting level, the records [count, max] of its rounds    *)
(*   budget    limits.transitions, shared by all frames                     *)
(*   frames    limits.frames of one execution                               *)
(*   deadline  the execution's absolute deadline                            *)
(*   faults    which of the faults above this execution may meet            *)
ASSUME SchedulerAssumption ==
    /\ \A p \in Plans :
         /\ p.moves \subseteq StateTypes /\ p.moves # {}
         /\ \A d \in DOMAIN p.fanouts : \A f \in p.fanouts[d] :
               f.count \in Nat /\ f.max \in Nat \ {0}
         /\ p.budget \in Nat /\ {p.frames, p.deadline} \subseteq Nat \ {0}
         /\ p.faults \subseteq Faults
    /\ {GlobalFrames, ScanLimit, MaxCalls} \subseteq Nat \ {0}

ROOT == 0
None == "none"
NoParent == [frame |-> -1, round |-> 0, index |-> 0]
NoRound == [attempt |-> 0, count |-> 0, max |-> 0, next |-> 0,
            running |-> {}, outputs |-> {}, failed |-> FALSE]
NoCall == [frame |-> -1, attempt |-> 0]

Empty == [x \in {} |-> 0]
Put(f, x, v) == [y \in DOMAIN f \cup {x} |-> IF y = x THEN v ELSE f[y]]
Drop(f, S) == Restrict(f, DOMAIN f \ S)

-----------------------------------------------------------------------------
(* Phases of one frame's interpreter; "Retrying" is Waiting with the Retry  *)
(* continuation.                                                            *)

Phase(k, attempt, until, outcome) ==
    [k |-> k, attempt |-> attempt, until |-> until, outcome |-> outcome]
Ready == Phase("Ready", 0, 0, None)
Terminal(outcome) == Phase("Terminal", 0, 0, outcome)

Outcome(f) == f.phase.outcome

Calling(f) == f.phase.k = "Calling"
Timed(f) == f.phase.k \in {"Calling", "Waiting", "Retrying"}

NewFrame(parent, depth) ==
    [phase |-> Ready, generation |-> 0, parent |-> parent, depth |-> depth,
     children |-> {}, round |-> NoRound, calls |-> Empty,
     notification |-> "Waiting", cancelling |-> FALSE]

NewScheduler(plan) ==
    [frames |-> [i \in {ROOT} |-> NewFrame(NoParent, 0)],
     ready |-> <<ROOT>>, queued |-> {ROOT}, blocked |-> Empty,
     cancels |-> <<>>, pending |-> <<>>,
     remaining |-> plan.budget, next |-> 1, calls |-> 0, outcome |-> None]

Update(k, call, child, until, global) ==
    [k |-> k, call |-> call, child |-> child, until |-> until, global |-> global]
Plain(k) == Update(k, NoCall, -1, 0, FALSE)

-----------------------------------------------------------------------------
(* The frame tree.                                                          *)

Frames(g) == DOMAIN g.frames
Has(g, id) == id \in Frames(g)

\* id and its ancestors that are still registered
Chain(g, id) ==
    LET up[i \in Frames(g)] ==
            LET p == g.frames[i].parent.frame
            IN {i} \cup (IF p \in Frames(g) THEN up[p] ELSE {})
    IN IF Has(g, id) THEN up[id] ELSE {}

Below(g, S) == {i \in Frames(g) : Chain(g, i) \cap S # {}}

RoundChildren(g, id) ==
    {c \in g.frames[id].children :
        /\ Has(g, c)
        /\ g.frames[c].parent.round = g.frames[id].round.attempt}

enqueue(g, id, front) ==
    IF Has(g, id) /\ ~g.frames[id].cancelling /\ id \notin g.queued
    THEN [g EXCEPT !.queued = @ \cup {id},
                   !.ready = IF front THEN <<id>> \o @ ELSE @ \o <<id>>]
    ELSE g

\* ids are distinct
EnqueueAll(g, ids) ==
    LET fresh == Keep(ids, {i \in Frames(g) \ g.queued : ~g.frames[i].cancelling})
    IN [g EXCEPT !.queued = @ \cup Range(fresh), !.ready = @ \o fresh]

\* the frames of S, oldest and youngest first
Ascending(g, S) == Keep([i \in 1..g.next |-> i - 1], S)
Descending(g, S) == Keep([i \in 1..g.next |-> g.next - i], S)

\* what prune asks of a frame besides having no children left
Retirable(g, id) ==
    LET f == g.frames[id]
    IN /\ Outcome(f) # None
       /\ f.notification # "Queued"
       /\ f.notification = "Emitted" \/ f.cancelling \/ (id = ROOT /\ g.outcome # None)
       /\ f.calls = Empty

\* mutant: the parents keep the removed frames among their children
UnlinkOneWay(g, gone) ==
    [g EXCEPT !.frames = Drop(@, gone), !.queued = @ \ gone, !.blocked = Drop(@, gone)]

Unlink(g, gone) ==
    [g EXCEPT !.frames = [i \in Frames(g) \ gone |-> [g.frames[i] EXCEPT !.children = @ \ gone]],
              !.queued = @ \ gone,
              !.blocked = Drop(@, gone)]

\* the frames of a chain, from its youngest up, that have nothing left to wait for
Spent(g, chain) ==
    {a \in chain : \A b \in chain :
        b >= a => Retirable(g, b) /\ g.frames[b].children \subseteq chain}

WakeOwners(g, gone) ==
    EnqueueAll(g, Descending(g, {g.frames[i].parent.frame : i \in gone} \cap Frames(g)))

\* mutant: nobody is told that a child is gone
RemoveQuietly(g, gone) == Unlink(g, gone)

RemoveSpent(g, gone) == Unlink(WakeOwners(g, gone), gone)

\* remove id, then each ancestor that only waited for it, waking the owners
prune(g, id) == RemoveSpent(g, Spent(g, Chain(g, id)))

PruneAll(g, ids) ==
    LET after[n \in 0..Len(ids)] == IF n = 0 THEN g ELSE prune(after[n - 1], ids[n])
    IN after[Len(ids)]

-----------------------------------------------------------------------------
(* control.rs                                                               *)

cancel(g, call) ==
    IF /\ Has(g, call.frame)
       /\ call.attempt \in DOMAIN g.frames[call.frame].calls
       /\ g.frames[call.frame].calls[call.attempt] = "Active"
    THEN [g EXCEPT !.frames[call.frame].calls[call.attempt] = "CancelQueued",
                   !.cancels = Append(@, call)]
    ELSE g

\* the active calls of a frame, by attempt
ActiveCalls(f, id) ==
    Keep([a \in 1..f.generation |-> [frame |-> id, attempt |-> a]],
         {[frame |-> id, attempt |-> a] : a \in {b \in DOMAIN f.calls : f.calls[b] = "Active"}})

CancelCallsOf(g, id) ==
    [g EXCEPT !.frames[id].calls = [a \in DOMAIN @ |-> IF @[a] = "Active" THEN "CancelQueued" ELSE @[a]],
              !.cancels = @ \o ActiveCalls(g.frames[id], id)]

CancelCalls(g, ids) ==
    LET after[n \in 0..Len(ids)] == IF n = 0 THEN g ELSE CancelCallsOf(after[n - 1], ids[n])
    IN after[Len(ids)]

Untold(g, S) ==
    {i \in S : /\ g.frames[i].notification = "Waiting"
               /\ g.frames[i].parent # NoParent
               /\ g.frames[i].cancelling
               /\ Outcome(g.frames[i]) # None}

\* mutant: parents are told before their children
QueueOldestFirst(g, S) ==
    [g EXCEPT !.frames = [i \in Frames(g) |->
                 IF i \in S THEN [g.frames[i] EXCEPT !.notification = "Queued"]
                            ELSE g.frames[i]],
              !.pending = @ \o Ascending(g, S)]

QueueNotices(g, S) ==
    [g EXCEPT !.frames = [i \in Frames(g) |->
                 IF i \in S THEN [g.frames[i] EXCEPT !.notification = "Queued"]
                            ELSE g.frames[i]],
              !.pending = @ \o Descending(g, S)]

\* cancelled frames that have not told their parent yet, youngest first
Notices(g, S) == QueueNotices(g, Untold(g, S))

\* notices are queued, calls cancelled and what is spent removed
Retire(g, S, ids) == PruneAll(CancelCalls(Notices(g, S), ids), ids)

Stopped(g, outcome) ==
    [g EXCEPT !.frames = [i \in Frames(g) |->
                 [g.frames[i] EXCEPT
                    !.cancelling = TRUE,
                    !.round = NoRound,
                    !.phase = IF i = ROOT THEN Terminal(outcome)
                              ELSE IF outcome # "Succeeded" THEN Terminal("Aborted")
                              ELSE @]],
              !.ready = <<>>, !.queued = {}, !.blocked = Empty, !.outcome = outcome]

terminate(g, outcome) ==
    IF g.outcome # None THEN g
    ELSE Retire(Stopped(g, outcome), Frames(g), Ascending(g, Frames(g)))

internal(g) == terminate(g, "Internal")
safety(g) == terminate(g, "Unsafe")

observe(g, x) == IF x.now >= x.plan.deadline THEN terminate(g, "TimedOut") ELSE g

supersede_uncommitted(g, outcome) ==
    terminate([g EXCEPT !.outcome = None], outcome)

Unissued(g, c) ==
    /\ Has(g, c.frame)
    /\ c.attempt \in DOMAIN g.frames[c.frame].calls
    /\ g.frames[c.frame].calls[c.attempt] = "CancelQueued"

\* cancellations of calls that have retired meanwhile are dropped
DropStale(g) ==
    LET due == {i \in DOMAIN g.cancels : Unissued(g, g.cancels[i])}
        first == CHOOSE i \in due : \A j \in due : i <= j
    IN [g EXCEPT !.cancels = IF due = {} THEN <<>> ELSE SubSeq(@, first, Len(@))]

next_cancel(g, call) ==
    [g |-> [g EXCEPT !.cancels = Tail(@),
                     !.frames[call.frame].calls[call.attempt] = "CancelIssued"],
     update |-> Update("Cancel", call, -1, 0, FALSE)]

pop_notice(g, child) ==
    [g |-> prune([g EXCEPT !.pending = Tail(@),
                           !.frames = IF Has(g, child)
                                      THEN [@ EXCEPT ![child].notification = "Emitted"]
                                      ELSE @], child),
     update |-> Update("ChildFinished", NoCall, child, 0, FALSE)]

\* a cancellation, else a notification, else `otherwise'
FirstDue(g, otherwise) ==
    IF g.cancels # <<>> THEN next_cancel(g, Head(g.cancels))
    ELSE IF g.pending # <<>> THEN pop_notice(g, Head(g.pending))
    ELSE [g |-> g, update |-> otherwise]
Obligations(g, otherwise) == FirstDue(DropStale(g), otherwise)

terminal_update(g) ==
    Obligations(g, IF g.outcome = None THEN Plain("Yield") ELSE Plain("Settled"))

WakeBlocked(g) == EnqueueAll(g, Ascending(g, DOMAIN g.blocked))

\* mutant: the slot of a retired call is never given back
UnchargeFrameOnly(g, call) ==
    [g EXCEPT !.frames[call.frame].calls = Drop(@, {call.attempt})]

Uncharge(g, call) ==
    [g EXCEPT !.frames[call.frame].calls = Drop(@, {call.attempt}), !.calls = @ - 1]

retired(g, call) ==
    IF ~Has(g, call.frame) \/ call.attempt \notin DOMAIN g.frames[call.frame].calls
    THEN [ok |-> TRUE, changed |-> FALSE, g |-> g]
    ELSE IF g.frames[call.frame].calls[call.attempt] = "Active"
    THEN [ok |-> FALSE, changed |-> FALSE, g |-> g]
    ELSE [ok |-> TRUE, changed |-> TRUE,
          g |-> WakeBlocked(prune(Uncharge(g, call), call.frame))]

CancelFrame(f, live) ==
    [f EXCEPT !.cancelling = ~live, !.round = NoRound,
              !.phase = IF Outcome(f) = None THEN Terminal("Aborted") ELSE @]

CancelFrames(g, S, ignore) ==
    Retire([g EXCEPT !.frames = [i \in Frames(g) |->
                IF i \in S THEN CancelFrame(g.frames[i], i = ignore) ELSE g.frames[i]]],
           S, Descending(g, S))

\* the whole subtree under this round's children, `ignore' kept live
cancel_round(g, id, ignore) == CancelFrames(g, Below(g, RoundChildren(g, id)), ignore)

-----------------------------------------------------------------------------
(* lifecycle.rs: failure and results of a round.                            *)

MarkFailed(g, id) ==
    [g EXCEPT !.frames[id].round = [@ EXCEPT !.failed = TRUE, !.outputs = {}],
              !.blocked = Drop(@, {id})]

fail_round_from(g, id, ignore) ==
    IF ~Has(g, id) \/ g.frames[id].round = NoRound THEN internal(g)
    ELSE IF g.frames[id].round.failed THEN g
    ELSE enqueue(cancel_round(MarkFailed(g, id), id, ignore), id, FALSE)
fail_round(g, id) == fail_round_from(g, id, -1)

store(g, parent, answer) ==
    CASE answer = "ok" -> [g EXCEPT !.frames[parent.frame].round.outputs = @ \cup {parent.index}]
      [] answer = "evaluation" -> fail_round(g, parent.frame)
      [] answer = "capacity" -> safety(g)

Told(g, id, owner) ==
    [g |-> enqueue(prune(g, id), owner, FALSE),
     update |-> Update("ChildFinished", NoCall, id, 0, FALSE)]

\* what the parent makes of the outcome of branch id
Settlements(g, f, x) ==
    CASE Outcome(f) = "Succeeded" ->
            {store(g, f.parent, a) : a \in {"ok"}
                \cup (IF "store" \in x.plan.faults THEN {"evaluation"} ELSE {})
                \cup (IF "memory" \in x.plan.faults THEN {"capacity"} ELSE {})}
      [] Outcome(f) = "Failed" -> {fail_round(g, f.parent.frame)}
      [] OTHER -> {internal(g)}

\* a terminal frame tells its parent, once
Report(g, id, f, x) ==
    IF /\ Has(g, f.parent.frame)
       /\ g.frames[f.parent.frame].round.attempt = f.parent.round
       /\ id \in g.frames[f.parent.frame].round.running
    THEN {Told(s, id, f.parent.frame) :
            s \in Settlements([g EXCEPT !.frames[f.parent.frame].round.running = @ \ {id}],
                              f, x)}
    ELSE {terminal_update(internal(g))}

finished(g, id, x) ==
    Report([g EXCEPT !.frames[id].notification = "Emitted"], id, g.frames[id], x)

-----------------------------------------------------------------------------
(* The interpreter of one frame (engine/mod.rs, states.rs, recovery.rs).    *)

DriverStep(phase, remaining, generation, effect, cancelled) ==
    [phase |-> phase, remaining |-> remaining, generation |-> generation,
     effect |-> effect, cancelled |-> cancelled]
NoEffect == [k |-> "none", count |-> 0, max |-> 0]

\* when a timer set now may expire; never past the execution deadline
Timers(x) ==
    LET end == x.plan.deadline IN {IF x.now + 1 < end THEN x.now + 1 ELSE end, end}

\* a business failure: retry later, catch into another state, or fail
recover(f, x, remaining, cancelled) ==
    {DriverStep(p, remaining, f.generation, NoEffect, cancelled) : p \in
        {Ready, Terminal("Failed")} \cup
        IF remaining = 0 THEN {Terminal("Unsafe")}
        ELSE {Phase("Retrying", 0, t, None) : t \in Timers(x)}}

transfer(f, x, remaining) ==
    {DriverStep(p, remaining, f.generation, NoEffect, 0) : p \in
        (IF "Pass" \in x.plan.moves THEN {Ready} ELSE {}) \cup {Terminal("Succeeded")}}

task(f, x, remaining) ==
    LET attempt == f.generation + 1
    IN {DriverStep(Phase("Calling", attempt, t, None), remaining, attempt,
                   [NoEffect EXCEPT !.k = "task"], 0) : t \in Timers(x)}

\* a Wait of no time goes on at once
wait(f, x, remaining) ==
    transfer(f, x, remaining) \cup
    {DriverStep(Phase("Waiting", 0, t, None), remaining, f.generation, NoEffect, 0) :
        t \in Timers(x)}

\* no items: the state ends at once with an empty list
fanout(f, x, remaining) ==
    LET attempt == f.generation + 1
        start(p) == IF p.count = 0 THEN transfer(f, x, remaining)
                    ELSE {DriverStep(Phase("Joining", attempt, 0, None), remaining, attempt,
                                     [k |-> "fanout", count |-> p.count, max |-> p.max], 0)}
    IN IF f.depth \notin DOMAIN x.plan.fanouts THEN {}
       ELSE UNION {start(p) : p \in x.plan.fanouts[f.depth]}

execute(f, x, remaining) ==
    UNION {CASE m = "Pass" -> transfer(f, x, remaining)
             [] m = "Succeed" -> {DriverStep(Terminal("Succeeded"), remaining,
                                             f.generation, NoEffect, 0)}
             [] m = "Fail" -> {DriverStep(Terminal("Failed"), remaining,
                                          f.generation, NoEffect, 0)}
             [] m = "Task" -> task(f, x, remaining)
             [] m = "Wait" -> wait(f, x, remaining)
             [] m = "FanOut" -> fanout(f, x, remaining) : m \in x.plan.moves}

\* out of transitions, or one step; a state that cannot be evaluated is recovered
ready(f, x, remaining) ==
    IF remaining = 0
    THEN {DriverStep(Terminal("Unsafe"), 0, f.generation, NoEffect, 0)}
    ELSE execute(f, x, remaining - 1) \cup
         IF "evaluation" \in x.plan.faults THEN recover(f, x, remaining - 1, 0) ELSE {}

driver_advance(f, x, remaining) ==
    CASE f.phase.k = "Ready" -> ready(f, x, remaining)
      [] f.phase.k = "Calling" /\ x.now >= f.phase.until ->
            recover(f, x, remaining, f.phase.attempt)
      [] f.phase.k = "Waiting" /\ x.now >= f.phase.until -> transfer(f, x, remaining)
      [] f.phase.k = "Retrying" /\ x.now >= f.phase.until ->
            {DriverStep(Ready, remaining, f.generation, NoEffect, 0)}
      [] OTHER -> {DriverStep(f.phase, remaining, f.generation, NoEffect, 0)}

\* a late result loses to the deadline it missed; a result that cannot be
\* evaluated is recovered like a failed one
driver_complete(f, ok, x, remaining) ==
    IF x.now >= f.phase.until THEN driver_advance(f, x, remaining)
    ELSE IF ok THEN transfer(f, x, remaining) ELSE recover(f, x, remaining, 0)

\* a failed round is recovered; so is a state whose branches all succeeded but
\* whose collected result cannot be evaluated (nothing waits for calls then)
driver_join(f, failed, x, remaining) ==
    IF failed THEN recover(f, x, remaining, 0)
    ELSE transfer(f, x, remaining) \cup
         IF "evaluation" \in x.plan.faults THEN recover(f, x, remaining, 0) ELSE {}

-----------------------------------------------------------------------------
(* drive.rs                                                                 *)

\* a failed branch fails its round at once, itself left to report
FailOwner(g, id, f) ==
    IF f.parent # NoParent /\ Outcome(f) = "Failed"
    THEN fail_round_from(g, f.parent.frame, id) ELSE g

settle_frame(g, id, f) ==
    IF id = ROOT \/ Outcome(f) = "Unsafe" THEN terminate(g, Outcome(f))
    ELSE enqueue(FailOwner(g, id, f), id, TRUE)

capture_effect(g, id, s) ==
    CASE s.effect.k = "task" ->
            [g EXCEPT !.frames[id].calls = Put(@, s.generation, "Active"), !.calls = @ + 1]
      [] s.effect.k = "fanout" ->
            [g EXCEPT !.frames[id].round =
                [NoRound EXCEPT !.attempt = s.generation, !.count = s.effect.count,
                                !.max = s.effect.max]]
      [] OTHER -> g

Moved(g, id, s) ==
    [g EXCEPT !.frames[id] = [@ EXCEPT !.phase = s.phase, !.generation = s.generation],
              !.remaining = s.remaining]

\* a finished frame settles, a Ready or Joining one goes round again
Requeue(g, id, s) ==
    IF s.phase.outcome # None THEN settle_frame(g, id, g.frames[id])
    ELSE IF s.phase.k \in {"Ready", "Joining"} THEN enqueue(g, id, FALSE)
    ELSE g

Effected(g, id, s) ==
    IF s.effect.k = "task" /\ g.calls >= MaxCalls THEN terminal_update(safety(g))
    ELSE [g |-> Requeue(capture_effect(g, id, s), id, s),
          update |-> Update("Transition",
                            IF s.effect.k = "task" THEN [frame |-> id, attempt |-> s.generation]
                                                   ELSE NoCall, -1, 0, FALSE)]

perform(g, id, s) ==
    Effected(IF s.cancelled = 0 THEN Moved(g, id, s)
             ELSE cancel(Moved(g, id, s), [frame |-> id, attempt |-> s.cancelled]), id, s)

\* the call is the one its frame waits for
Awaited(g, call) ==
    /\ g.outcome = None
    /\ Has(g, call.frame)
    /\ LET f == g.frames[call.frame]
       IN /\ ~f.cancelling
          /\ Calling(f) /\ f.phase.attempt = call.attempt
          /\ call.attempt \in DOMAIN f.calls /\ f.calls[call.attempt] = "Active"

Deliver(g, call, ok, x) ==
    IF ~Awaited(g, call) THEN {[g |-> g, update |-> Plain("None")]}
    ELSE {perform(cancel(g, call), call.frame, s) :
             s \in driver_complete(g.frames[call.frame], ok, x, g.remaining)}

complete(g, call, ok, x) == Deliver(observe(g, x), call, ok, x)

\* Slot::acquire, with x.others slots held by other executions
Acquire(g, x) ==
    LET mine == Cardinality(Frames(g))
    IN IF mine >= x.plan.frames THEN "Local"
       ELSE IF mine + x.others >= GlobalFrames THEN "Global" ELSE "ok"

\* mutant: a failed round does not wait for its branches
JoinEagerly(g, id, x) ==
    LET r == g.frames[id].round
    IN IF r.failed \/ Cardinality(r.outputs) = r.count THEN "join"
       ELSE IF r.next >= r.count \/ Cardinality(r.running) >= r.max THEN "skip"
       ELSE IF Acquire(g, x) # "ok" THEN "block" ELSE "admit"

\* what round(id) does: "skip" leaves the frame parked, else the updates
RoundVerdict(g, id, x) ==
    LET r == g.frames[id].round
    IN IF r.failed /\ RoundChildren(g, id) # {} THEN "skip"
       ELSE IF r.failed \/ Cardinality(r.outputs) = r.count THEN "join"
       ELSE IF r.next >= r.count \/ Cardinality(r.running) >= r.max THEN "skip"
       ELSE IF Acquire(g, x) # "ok" THEN "block" ELSE "admit"

CloseRound(g, id) == [g EXCEPT !.frames[id].round = NoRound, !.blocked = Drop(@, {id})]

join_round(g, id, x) ==
    {perform(CloseRound(g, id), id, s) :
        s \in driver_join(g.frames[id], g.frames[id].round.failed, x, g.remaining)}

\* f with a branch of its round running in frame child
WithBranch(f, child) ==
    [f EXCEPT !.round = [f.round EXCEPT !.next = @ + 1, !.running = @ \cup {child}],
              !.children = @ \cup {child}]

OpenBranch(g, id, child, f) ==
    [g EXCEPT !.next = @ + 1, !.blocked = Drop(@, {id}),
              !.frames = Put([g.frames EXCEPT ![id] = WithBranch(f, child)], child,
                             NewFrame([frame |-> id, round |-> f.round.attempt,
                                       index |-> f.round.next], f.depth + 1))]

admit(g, id) ==
    [g |-> enqueue(enqueue(OpenBranch(g, id, g.next, g.frames[id]), id, FALSE), g.next, TRUE),
     update |-> Update("ChildStarted", NoCall, g.next, 0, FALSE)]

\* one pass of the scan over the ready queue's head: does this entry act?
Acts(g, x) ==
    LET id == Head(g.ready)
        f == g.frames[id]
    IN /\ Has(g, id)
       /\ ~f.cancelling
       /\ \/ Outcome(f) # None /\ f.notification = "Waiting"
          \/ IF f.round # NoRound THEN RoundVerdict(g, id, x) \in {"join", "admit"}
             ELSE f.phase.k = "Ready" \/ Timed(f)

Pop(g) == [g EXCEPT !.ready = Tail(@), !.queued = @ \ {Head(g.ready)}]

\* an entry that does not act is popped; a round without a slot is blocked
SkipEntry(g, id, x) ==
    IF ~Has(g, id) THEN g
    ELSE IF g.frames[id].cancelling THEN prune(g, id)
    ELSE IF /\ Outcome(g.frames[id]) = None /\ g.frames[id].round # NoRound
            /\ RoundVerdict(g, id, x) = "block"
    THEN [g EXCEPT !.blocked = Put(@, id, Acquire(g, x))]
    ELSE g
Skip(g, x) == SkipEntry(Pop(g), Head(g.ready), x)

\* a branch that cannot be prepared fails the round
Branch(g, id, x) ==
    {admit(g, id)} \cup
    IF "branch" \in x.plan.faults
    THEN {[g |-> fail_round(g, id), update |-> Plain("Yield")]} ELSE {}

ActOnEntry(g, id, x) ==
    IF Outcome(g.frames[id]) # None THEN finished(g, id, x)
    ELSE IF g.frames[id].round = NoRound
    THEN {perform(g, id, s) : s \in driver_advance(g.frames[id], x, g.remaining)}
    ELSE IF RoundVerdict(g, id, x) = "join" THEN join_round(g, id, x)
    ELSE Branch(g, id, x)
ActOn(g, x) == ActOnEntry(Pop(g), Head(g.ready), x)

\* nothing acted: give up, yield or park until the next timer
Rest(g, x) ==
    LET progress == g.calls > 0 \/ \E i \in Frames(g) : Timed(g.frames[i])
        until == Min({x.plan.deadline} \cup {g.frames[i].phase.until :
                                        i \in {j \in Frames(g) : Timed(g.frames[j])}})
        global == \E i \in DOMAIN g.blocked : g.blocked[i] = "Global"
    IN IF g.ready # <<>> THEN [g |-> g, update |-> Plain("Yield")]
       ELSE IF g.blocked # Empty /\ ~progress THEN terminal_update(safety(g))
       ELSE [g |-> g, update |-> Update("Park", NoCall, -1, until, global)]

WakeDue(g, x) ==
    LET due == {i \in Frames(g) : Timed(g.frames[i]) /\ x.now >= g.frames[i].phase.until}
    IN WakeBlocked(EnqueueAll(g, Ascending(g, due)))

SkipUnlessActs(g, x) == IF g.ready = <<>> \/ Acts(g, x) THEN g ELSE Skip(g, x)

\* entries are skipped until one acts, at most `n' of them
SkipIdle(g, x, n) ==
    LET after[k \in 0..n] == IF k = 0 THEN g ELSE SkipUnlessActs(after[k - 1], x)
    IN after[n]

ScanReady(g, x) ==
    IF g.ready # <<>> /\ Acts(g, x) THEN ActOn(g, x)
    ELSE {Rest(IF g.ready = <<>> THEN g ELSE Skip(g, x), x)}

Turn(first, x) ==
    IF first.update.k # "None" THEN {first}
    ELSE IF first.g.outcome # None THEN {terminal_update(first.g)}
    ELSE ScanReady(SkipIdle(WakeDue(first.g, x), x, ScanLimit - 1), x)

advance(g, x) == Turn(Obligations(observe(g, x), Plain("None")), x)

cleanup_ready(g) == g.outcome # None /\ Frames(g) = {} /\ g.pending = <<>>
=============================================================================
