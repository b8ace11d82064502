--------------------------- MODULE StepExecution ----------------------------
(***************************************************************************)
(* One structured Step Functions execution: the actor of                    *)
(* engine/runtime/structured/mod.rs around its FrameScheduler.  The actor   *)
(* lends the scheduler to a blocking worker for each advance or complete    *)
(* and, while it is lent, still sees the stop signal, the deadlines and the *)
(* exits of the watchers that own the accepted external calls.              *)
(***************************************************************************)
EXTENDS FrameScheduler

CONSTANT MaxOthers   \* frame slots other executions may hold

ASSUME ExecutionAssumption == MaxOthers \in Nat

VARIABLES plan,     \* the machine, its limits and what may go wrong
          g,        \* the scheduler
          worker,   \* the blocking worker the scheduler is lent to
          actor,    \* the actor's own fields
          watch,    \* accepted calls: what their watcher is doing
          mailbox,  \* results sent to the actor and not yet received
          stop,     \* StopExecution was called
          now,      \* the monotonic clock
          others,   \* frame slots held by other executions
          born,     \* history: parent and round of every child frame started
          told,     \* history: children reported finished, in order
          accepted  \* history: calls the task port accepted

vars == <<plan, g, worker, actor, watch, mailbox, stop, now, others, born, told, accepted>>
env == <<plan, stop, now, others>>
history == <<born, told, accepted>>

Idle == [st |-> "idle", op |-> None, call |-> NoCall, ok |-> FALSE, at |-> 0,
         update |-> Plain("None")]
Running == [on |-> FALSE, until |-> 0, global |-> FALSE]
ParkUntil(t, global) == [on |-> TRUE, until |-> t, global |-> global]

NewActor == [calls |-> Empty, pending |-> Empty, acks |-> {}, forced |-> None,
             committed |-> None, published |-> None, park |-> Running,
             uncertain |-> FALSE, unrecorded |-> FALSE, ended |-> FALSE]

Init ==
    /\ plan \in Plans
    /\ g = NewScheduler(plan)
    /\ worker = Idle
    /\ actor = NewActor
    /\ watch = Empty
    /\ mailbox = {}
    /\ stop = FALSE
    /\ now = 0
    /\ others = 0
    /\ born = Empty
    /\ told = <<>>
    /\ accepted = {}

-----------------------------------------------------------------------------
(* The actor's methods, on the pair of its fields and the scheduler.        *)

May(fault) == fault \in plan.faults

\* what the journal does with the next events: "full" refuses an ordinary one,
\* "long" only a verdict whose output, error or cause exceeds the reserved bytes
HistoryResults == {"ok"} \cup (IF May("history") THEN {"full", "long"} ELSE {})
Seen(t) == [now |-> t, others |-> others, plan |-> plan]

\* the actor holds the scheduler unless the worker is running on it
GraphHere == worker.st \in {"idle", "permit"}

CallOrder(c, d) == c.frame < d.frame \/ (c.frame = d.frame /\ c.attempt < d.attempt)
FirstCall(calls) == CHOOSE c \in calls : \A d \in calls : c = d \/ CallOrder(c, d)

Acknowledged(s, c, r) ==
    IF ~r.ok THEN s
    ELSE [g |-> r.g,
          a |-> [s.a EXCEPT !.acks = @ \ {c}, !.calls = Drop(@, {c}),
                            !.park = IF r.changed THEN Running ELSE @]]

AcknowledgeFirst(t) ==
    LET c == FirstCall(t.left)
    IN [s |-> Acknowledged(t.s, c, retired(t.s.g, c)), left |-> t.left \ {c}]

\* acknowledge settled calls in their order; one the scheduler counts on stays
reconcile(s) ==
    LET after[n \in 0..Cardinality(s.a.acks)] ==
            IF n = 0 THEN [s |-> s, left |-> s.a.acks] ELSE AcknowledgeFirst(after[n - 1])
    IN after[Cardinality(s.a.acks)].s

CancelAll(calls) == [c \in DOMAIN calls |-> [calls[c] EXCEPT !.cancelled = TRUE]]

\* a slot and some bytes are reserved for the verdict's event: one without
\* data of the workflow always fits
TerminalFits(outcome, hist) == hist # "long" \/ outcome \in {"TimedOut", "Unsafe"}

\* publish the verdict.  When its event is not kept the caller is told that the
\* history limit was exceeded, and the scheduler keeps its own outcome.
\* (history: unrecorded says so.)
publish_terminal(a, outcome, hist) ==
    IF a.published # None THEN a
    ELSE IF TerminalFits(outcome, hist) THEN [a EXCEPT !.published = outcome]
    ELSE IF TerminalFits("Unsafe", hist)
    THEN [a EXCEPT !.published = "Unsafe", !.unrecorded = TRUE]
    ELSE [a EXCEPT !.uncertain = TRUE]

\* stop everything; the verdict is published before the scheduler is back.
\* A journal that cannot record the abort makes the verdict a safety failure.
force(s, outcome, here, hist) ==
    IF s.a.published # None THEN s
    ELSE [a |-> publish_terminal([s.a EXCEPT !.forced = outcome, !.pending = Empty,
                                             !.calls = CancelAll(@), !.park = Running],
                                 outcome, hist),
          g |-> IF here THEN supersede_uncommitted(s.g, outcome) ELSE s.g]

fail(s) == force(s, "Unsafe", TRUE, "ok")

schedule(a, graph, call) ==
    IF call = NoCall THEN a
    ELSE [a EXCEPT !.pending = Put(@, call, graph.frames[call.frame].phase.until)]

Awake(s) == [s EXCEPT !.a.park = Running]

\* mutant: a running call is retired as soon as it is told to stop
RetireOnCancel(a, c) ==
    [a EXCEPT !.pending = Drop(@, {c}), !.acks = @ \cup {c},
              !.calls = [d \in DOMAIN @ |->
                            IF d = c THEN [@[d] EXCEPT !.cancelled = TRUE] ELSE @[d]]]

NoteCancel(a, c) ==
    IF c \in DOMAIN a.calls
    THEN [a EXCEPT !.calls[c].cancelled = TRUE,
                   !.acks = IF a.calls[c].settled = "clean" THEN @ \cup {c} ELSE @]
    ELSE [a EXCEPT !.pending = Drop(@, {c}), !.acks = @ \cup {c}]

\* does this update write to the journal?
Journalled(s, u) ==
    /\ s.a.published = None
    /\ \/ u.k \in {"Transition", "ChildStarted", "ChildFinished"}
       \/ u.k = "Settled" /\ s.g.outcome = "Unsafe"

\* apply one scheduler update; hist is the journal's answer to its events
ApplyUpdate(s, u, hist) ==
    IF hist = "full" /\ Journalled(s, u) THEN fail(s)
    ELSE CASE u.k = "Transition" ->
                IF s.a.published # None THEN s
                ELSE Awake([s EXCEPT !.a = schedule(@, s.g, u.call)])
           [] u.k = "Cancel" -> Awake(reconcile([s EXCEPT !.a = NoteCancel(@, u.call)]))
           [] u.k = "Park" -> [s EXCEPT !.a.park = ParkUntil(u.until, u.global)]
           [] u.k \in {"ChildStarted", "ChildFinished", "Yield"} -> Awake(s)
           [] u.k = "Settled" ->
                [s EXCEPT !.a = [publish_terminal(@, s.g.outcome, hist)
                                    EXCEPT !.park = ParkUntil(plan.deadline, FALSE)]]
           [] OTHER -> s

Record(u) ==
    /\ born' = IF u.k = "ChildStarted"
               THEN Put(born, u.child, g'.frames[u.child].parent) ELSE born
    /\ told' = IF u.k = "ChildFinished" THEN Append(told, u.child) ELSE told
    /\ UNCHANGED accepted

Install(s) == \E t \in {s} : actor' = t.a /\ g' = t.g
Here == [a |-> actor, g |-> g]

\* control(): the deadline and the stop signal come before everything else
MustForce ==
    /\ actor.published = None /\ actor.forced = None /\ actor.committed = None
    /\ stop \/ now >= plan.deadline

Live == ~actor.ended /\ ~MustForce
Settling == actor.published # None \/ actor.committed # None

control ==
    /\ ~actor.ended /\ MustForce
    /\ \E hist \in HistoryResults :
         Install(force(Here, IF hist = "full" THEN "Unsafe"
                             ELSE IF now >= plan.deadline THEN "TimedOut" ELSE "Aborted",
                       GraphHere, hist))
    /\ worker' = IF GraphHere THEN Idle ELSE worker
    /\ UNCHANGED <<watch, mailbox, env, history>>

-----------------------------------------------------------------------------
(* Lending the scheduler to the worker.                                     *)

StartAdvance ==
    /\ Live /\ worker.st = "idle" /\ ~Settling
    /\ mailbox = {}
    /\ ~actor.park.on
    /\ worker' = [Idle EXCEPT !.st = "permit", !.op = "Advance"]
    /\ UNCHANGED <<g, actor, watch, mailbox, env, history>>

\* a CPU permit was granted: the scheduler moves to the blocking thread
Lend ==
    /\ Live /\ worker.st = "permit"
    /\ worker' = [worker EXCEPT !.st = "running"]
    /\ actor' = [actor EXCEPT !.park = Running]
    /\ UNCHANGED <<g, watch, mailbox, env, history>>

WorkerRuns ==
    /\ worker.st = "running"
    /\ \E r \in IF worker.op = "Advance" THEN advance(g, Seen(now))
                ELSE complete(g, worker.call, worker.ok, Seen(worker.at)) :
         /\ g' = r.g
         /\ worker' = [worker EXCEPT !.st = "done", !.update = r.update]
         /\ Record(r.update)
    /\ UNCHANGED <<actor, watch, mailbox, env>>

\* mutant: the worker's result stands although a stop overtook it
KeepResult(hist) == ApplyUpdate(Here, worker.update, hist)

\* what the actor makes of a finished worker; a forced verdict beats its result
Evaluated(hist) ==
    IF actor.forced # None THEN [Here EXCEPT !.g = supersede_uncommitted(@, actor.forced)]
    ELSE ApplyUpdate(Here, worker.update, hist)

Commit(s) ==
    IF s.a.forced = None /\ s.a.committed = None /\ s.g.outcome # None
    THEN [s EXCEPT !.a.committed = s.g.outcome, !.a.park = Running]
    ELSE s

evaluated ==
    /\ Live /\ worker.st = "done"
    /\ \E hist \in HistoryResults : Install(Commit(reconcile(Evaluated(hist))))
    /\ worker' = Idle
    /\ UNCHANGED <<watch, mailbox, env, history>>

\* once the outcome is fixed the actor drains the scheduler itself
Drain ==
    /\ Live /\ worker.st = "idle" /\ Settling
    /\ \E r \in advance(g, Seen(now)), hist \in HistoryResults :
         /\ Install(ApplyUpdate([Here EXCEPT !.g = r.g], r.update, hist))
         /\ Record(r.update)
    /\ UNCHANGED <<worker, watch, mailbox, env>>

-----------------------------------------------------------------------------
(* Calls: dispatch, results, expiry, exits.                                 *)

NextPending == FirstCall(DOMAIN actor.pending)

NewCall(deadline) ==
    [seen |-> FALSE, cancelled |-> FALSE, settled |-> None, deadline |-> deadline]

\* mutant: an accepted call stays in the dispatch queue
SubmitAgain(a, c) == a

Submit(a, c) == [a EXCEPT !.pending = Drop(@, {c})]

CompleteOp(c, ok) ==
    [Idle EXCEPT !.st = "permit", !.op = "Complete", !.call = c, !.ok = ok, !.at = now]

dispatch ==
    /\ Live /\ worker.st = "idle" /\ ~Settling /\ mailbox = {}
    /\ DOMAIN actor.pending # {}
    /\ LET c == NextPending
           deadline == actor.pending[c]
           sent == Submit(actor, c)
       IN \/ /\ now >= deadline
             /\ actor.park.on
             /\ actor' = [actor EXCEPT !.park = Running]
             /\ UNCHANGED <<g, worker, watch, accepted>>
          \/ /\ now < deadline
             /\ actor' = [sent EXCEPT !.calls = Put(@, c, NewCall(deadline))]
             /\ watch' = Put(watch, c, "running")
             /\ accepted' = accepted \cup {c}
             /\ UNCHANGED <<g, worker>>
          \/ /\ now < deadline /\ May("reject")
             /\ \E hist \in HistoryResults :
                  IF hist = "full"
                  THEN Install(fail([Here EXCEPT !.a = sent])) /\ UNCHANGED worker
                  ELSE /\ actor' = [sent EXCEPT !.acks = @ \cup {c}]
                       /\ worker' = CompleteOp(c, FALSE)
                       /\ UNCHANGED g
             /\ UNCHANGED <<watch, accepted>>
    /\ UNCHANGED <<mailbox, env, born, told>>

\* is this call the one its frame is waiting for?
Current(c) ==
    /\ Has(g, c.frame)
    /\ Calling(g.frames[c.frame])
    /\ g.frames[c.frame].phase.attempt = c.attempt

\* the result is noted; a call that has already settled may be retired
NoteResult(c) ==
    [actor EXCEPT !.calls[c].seen = TRUE,
                  !.acks = IF actor.calls[c].settled = "clean" THEN @ \cup {c} ELSE @]

completed ==
    /\ Live /\ worker.st = "idle"
    /\ \E m \in mailbox :
         LET c == m.call
             known == c \in DOMAIN actor.calls /\ ~actor.calls[c].seen
             current == actor.published = None /\ Current(c)
         IN /\ mailbox' = mailbox \ {m}
            /\ \/ ~known /\ UNCHANGED <<actor, g, worker>>
               \/ /\ known /\ ~current
                  /\ Install(reconcile([a |-> NoteResult(c), g |-> g]))
                  /\ UNCHANGED worker
               \/ /\ known /\ current
                  /\ \E hist \in HistoryResults :
                       IF hist = "full" /\ now < actor.calls[c].deadline
                       THEN /\ Install(fail([a |-> NoteResult(c), g |-> g]))
                            /\ UNCHANGED worker
                       ELSE /\ actor' = [NoteResult(c) EXCEPT !.park = Running]
                            /\ worker' = CompleteOp(c, m.ok)
                            /\ UNCHANGED g
    /\ UNCHANGED <<watch, env, history>>

\* sleep_until and expired(): late calls are cancelled at their deadline
expired ==
    /\ Live /\ actor.published = None
    /\ LET late == {c \in DOMAIN actor.calls :
                      /\ ~actor.calls[c].seen /\ ~actor.calls[c].cancelled
                      /\ now >= actor.calls[c].deadline}
       IN /\ late # {} \/ (actor.park.on /\ now >= actor.park.until)
          /\ actor' = [actor EXCEPT
                !.calls = [c \in DOMAIN @ |->
                             IF c \in late THEN [@[c] EXCEPT !.cancelled = TRUE] ELSE @[c]],
                !.park = Running]
    /\ UNCHANGED <<g, worker, watch, mailbox, env, history>>

\* wait_for_capacity
CapacityWake ==
    /\ Live /\ worker.st = "idle" /\ actor.published = None
    /\ actor.park.on /\ actor.park.global
    /\ Cardinality(Frames(g)) + others < GlobalFrames
    /\ actor' = [actor EXCEPT !.park = Running]
    /\ UNCHANGED <<g, worker, watch, mailbox, env, history>>

\* a watcher ended: cleanly, or leaving a call nobody can vouch for
NoteExit(c, exit) ==
    IF c \notin DOMAIN actor.calls THEN [actor EXCEPT !.uncertain = @ \/ exit = "dirty"]
    ELSE [actor EXCEPT
            !.calls[c].settled = exit,
            !.uncertain = @ \/ exit = "dirty",
            !.acks = IF /\ exit = "clean"
                        /\ \/ actor.calls[c].seen \/ actor.calls[c].cancelled
                           \/ actor.published # None
                     THEN @ \cup {c} ELSE @]

joined ==
    /\ Live
    /\ \E c \in DOMAIN watch :
         /\ watch[c] \in {"clean", "dirty"}
         /\ watch' = Drop(watch, {c})
         /\ IF GraphHere THEN Install(reconcile([a |-> NoteExit(c, watch[c]), g |-> g]))
            ELSE actor' = NoteExit(c, watch[c]) /\ UNCHANGED g
    /\ UNCHANGED <<worker, mailbox, env, history>>

\* mutant: a call whose cleanup is uncertain keeps the actor waiting
DoneWhenNoCalls ==
    /\ actor.published # None
    /\ worker.st = "idle"
    /\ DOMAIN watch = {}
    /\ DOMAIN actor.pending = {}
    /\ DOMAIN actor.calls = {}
    /\ actor.park.on

Done ==
    /\ actor.published # None
    /\ worker.st = "idle"
    /\ DOMAIN watch = {}
    /\ DOMAIN actor.pending = {}
    /\ \A c \in DOMAIN actor.calls : actor.calls[c].settled = "dirty"
    /\ actor.park.on

finish ==
    /\ ~actor.ended /\ Done
    /\ actor' = [actor EXCEPT !.ended = TRUE]
    /\ UNCHANGED <<g, worker, watch, mailbox, env, history>>

-----------------------------------------------------------------------------
(* resource.rs: one watcher per accepted call.                              *)

WatcherResult ==
    \E c \in DOMAIN watch, ok \in BOOLEAN :
        /\ watch[c] = "running"
        /\ c \in DOMAIN actor.calls => ~actor.calls[c].cancelled
        /\ mailbox' = mailbox \cup {[call |-> c, ok |-> ok]}
        /\ watch' = [watch EXCEPT ![c] = "closing"]
        /\ UNCHANGED <<g, worker, actor, env, history>>

WatcherCancelled ==
    \E c \in DOMAIN watch :
        /\ watch[c] = "running"
        /\ c \in DOMAIN actor.calls /\ actor.calls[c].cancelled
        /\ watch' = [watch EXCEPT ![c] = "closing"]
        /\ UNCHANGED <<g, worker, actor, mailbox, env, history>>

WatcherExits ==
    \E c \in DOMAIN watch, clean \in {TRUE} \cup (IF May("dirty") THEN {FALSE} ELSE {}) :
        /\ watch[c] = "closing"
        /\ watch' = [watch EXCEPT ![c] = IF clean THEN "clean" ELSE "dirty"]
        /\ UNCHANGED <<g, worker, actor, mailbox, env, history>>

(* The environment.                                                         *)

Tick == /\ now < plan.deadline
        /\ now' = now + 1
        /\ UNCHANGED <<g, worker, actor, watch, mailbox, plan, stop, others, history>>

StopExecution == /\ May("stop") /\ ~stop
                 /\ stop' = TRUE
                 /\ UNCHANGED <<g, worker, actor, watch, mailbox, plan, now, others, history>>

\* other executions take and give back global frame slots
OthersMove == /\ May("others")
              /\ others' \in 0..MaxOthers \cap {others - 1, others + 1}
              /\ ~actor.ended
              /\ Cardinality(Frames(g)) + others' <= GlobalFrames
              /\ UNCHANGED <<g, worker, actor, watch, mailbox, plan, stop, now, history>>

ActorStep == \/ StartAdvance \/ Lend \/ evaluated \/ Drain \/ dispatch \/ completed
             \/ expired \/ CapacityWake \/ joined

Next == \/ control \/ ActorStep \/ finish \/ WorkerRuns
        \/ WatcherResult \/ WatcherCancelled \/ WatcherExits
        \/ Tick \/ StopExecution \/ OthersMove

Spec == Init /\ [][Next]_vars

(* Fairness.  The actor's loop comes round while it has something to do;    *)
(* tokio gives the blocking worker a thread; time passes; a cancelled call  *)
(* settles.  A task need never answer, a dispatch permit need never be      *)
(* free.  The first two conjuncts are weak fairness of ActorTurn and        *)
(* WorkerRuns with their enabling conditions written out.                   *)
ActorTurn == control \/ StartAdvance \/ Lend \/ evaluated \/ Drain \/ completed
             \/ expired \/ joined \/ finish

CanTurn ==
    \/ ~actor.ended /\ MustForce
    \/ ~actor.ended /\ Done
    \/ /\ Live
       /\ \/ worker.st \in {"permit", "done"}
          \/ worker.st = "idle" /\ (mailbox # {} \/ ~actor.park.on)
          \/ actor.park.on /\ actor.published = None /\ now >= actor.park.until
          \/ \E c \in DOMAIN watch : watch[c] \in {"clean", "dirty"}

FairSpec ==
    /\ Spec
    /\ []<>~CanTurn \/ []<><<ActorTurn>>_vars
    /\ []<>(worker.st # "running")
    /\ WF_vars(WatcherCancelled \/ WatcherExits)
    /\ WF_vars(Tick)

-----------------------------------------------------------------------------
(* Properties.                                                              *)

\* The shape of the state: who may be registered, queued, cancelled or awaited.
TypeOK ==
    /\ \A i \in Frames(g) :
         /\ i \in 0..(g.next - 1)
         /\ g.frames[i].phase.k \in {"Ready", "Calling", "Joining", "Waiting", "Retrying", "Terminal"}
         /\ g.frames[i].children \subseteq Frames(g)
         /\ g.frames[i].notification \in {"Waiting", "Queued", "Emitted"}
    /\ g.queued \subseteq Frames(g)
    /\ DOMAIN g.blocked \subseteq Frames(g)
    /\ g.remaining \in 0..plan.budget
    /\ worker.st \in {"idle", "permit", "running", "done"}
    /\ \A c \in DOMAIN watch \cup DOMAIN actor.pending \cup DOMAIN actor.calls :
          c.frame \in 0..(g.next - 1) /\ c.attempt \in 1..plan.budget
    /\ \A c \in DOMAIN watch : watch[c] \in {"running", "closing", "clean", "dirty"}
    /\ now \in 0..plan.deadline

\* the calls on the scheduler's books
Unretired(s) == UNION {{[frame |-> i, attempt |-> a] : a \in DOMAIN s.frames[i].calls} : i \in Frames(s)}

\* The scheduler's own invariant check (`Frame owner invariant failed') is
\* never reached, whatever order results, cancellations and retirements come
\* in, and its counter of unretired calls is the number of calls on the books.
SchedulerSound ==
    /\ g.outcome # "Internal"
    /\ g.calls = Cardinality(Unretired(g))
    /\ Cardinality(Frames(g)) <= plan.frames

\* a frame's ancestors, from a history b of started children
Line(b, id) ==
    LET up[i \in DOMAIN b \cup {ROOT}] ==
            IF i = ROOT THEN {ROOT} ELSE {i} \cup up[b[i].frame]
    IN up[id]
Lineage(id) == Line(born, id)

\* While a call waits for a permit or runs outside, its frame and every
\* ancestor stay registered (and so keep their frame slots): cancellation,
\* a failed round or a verdict never frees them early.
LineageRetained ==
    \A c \in DOMAIN watch \cup DOMAIN actor.pending : Lineage(c.frame) \subseteq Frames(g)

\* Every child is reported finished at most once, and after all of its own
\* descendants; a scheduler that is clean has reported them all.
NestedNotices ==
    /\ \A i, j \in DOMAIN told :
         /\ i # j => told[i] # told[j]
         /\ told[j] \in Lineage(told[i]) => i <= j
    /\ \A c \in Range(told) : \A d \in DOMAIN born : c \in Lineage(d) => d \in Range(told)
    /\ cleanup_ready(g) => DOMAIN born = Range(told)

\* calls of the branches a round of frame id has started
RoundCalls(id, round) ==
    {c \in DOMAIN watch : \E b \in Lineage(c.frame) \ {ROOT} :
        born[b].frame = id /\ born[b].round = round}

\* A Map or Parallel state one of whose branches failed, or left a result that
\* cannot be stored, or could not be prepared, is retried, caught or failed
\* only when no call of its branches is running any more.  (A state whose
\* branches all succeeded does not wait: calls that timed out below it and
\* were caught may still run when its own result cannot be evaluated.)
JoinBarrier ==
    [][\A id \in Frames(g) \cap Frames(g') :
          /\ g.frames[id].round.failed
          /\ g'.frames[id].round = NoRound
          /\ ~g'.frames[id].cancelling
          => RoundCalls(id, g.frames[id].round.attempt) = {}]_vars

\* who will bring frame id's current call to an end
Answerable(c) ==
    \/ c \in DOMAIN actor.pending
    \/ c \in DOMAIN watch
    \/ \E m \in mailbox : m.call = c

\* When the actor parks, nothing is left behind: every live frame waits for a
\* timer not after the park's end, for a call somebody will answer, or for a
\* child or slot whose return will wake it.
ParkedIsQuiet ==
    (/\ actor.park.on /\ now < actor.park.until
     /\ worker.st = "idle" /\ ~Settling /\ mailbox = {}) =>
        /\ g.ready = <<>> /\ g.pending = <<>> /\ g.cancels = <<>>
        /\ \A i \in Frames(g) : ~g.frames[i].cancelling =>
             LET f == g.frames[i]
             IN CASE f.phase.k = "Ready" -> FALSE
                  [] f.phase.k = "Calling" ->
                        /\ actor.park.until <= f.phase.until
                        /\ Answerable([frame |-> i, attempt |-> f.phase.attempt])
                  [] f.phase.k \in {"Waiting", "Retrying"} -> actor.park.until <= f.phase.until
                  [] f.phase.k = "Joining" ->
                        \/ RoundChildren(g, i) # {}
                        \/ i \in DOMAIN g.blocked
                  [] OTHER -> f.notification = "Emitted" \/ i = ROOT

\* what the caller is told of the scheduler's outcome
Said(a, outcome) == IF a.unrecorded THEN "Unsafe" ELSE outcome

\* The verdict the caller sees is the scheduler's outcome, also when a stop or
\* the deadline overtook a worker that had computed another one.  The one
\* exception is a verdict too long for the journal: the caller is told that
\* the history limit was exceeded, whatever the scheduler's outcome is.  Only
\* an outcome that carries data of the workflow can be replaced in this way.
VerdictAgrees ==
    (actor.published # None /\ worker.st = "idle") =>
        /\ actor.published = Said(actor, g.outcome)
        /\ actor.unrecorded => g.outcome \in {"Succeeded", "Failed", "Aborted"}

Contract == INSTANCE ExecutionContract WITH
    Verdicts <- {"Succeeded", "Failed", "Unsafe", "TimedOut", "Aborted"},
    Undecided <- None,
    verdict <- actor.published,
    open <- {c \in DOMAIN watch : watch[c] \in {"running", "closing"}},
    used <- accepted,
    ended <- actor.ended

\* The actor, its worker and its watchers implement the execution contract.
KeepsContract == Contract!CSpec

\* Whatever the tasks do, the execution ends: the deadline or a stop reaches
\* the actor, the scheduler drains, cancelled calls are settled or set aside.
Ends == <>actor.ended
=============================================================================
