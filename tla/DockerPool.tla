----------------------------- MODULE DockerPool -----------------------------
(***************************************************************************)
(* The pool of warm environments (docker/pool/): callers, the actor that    *)
(* queues calls and hands environments to jobs, and the jobs that invoke    *)
(* and retire them, over the owner of DockerEnvironments.                   *)
(*                                                                         *)
(* The actor's loop is top (stop or expire), dispatch, select; its mailbox  *)
(* and its queue are one.  A call's deadline passes at any moment.          *)
(***************************************************************************)
EXTENDS DockerEnvironments, Sequences, SequencesExt, Filtering

CONSTANTS QueueLimit,   \* PoolSettings::queue
          WarmLimit,    \* PoolSettings::warm
          WarmPerKey,   \* PoolSettings::warm_per_revision
          MaxJobs       \* the limit of 32 jobs in Actor

ASSUME PoolAssumption == QueueLimit \in Nat /\ WarmLimit \in Nat /\ WarmPerKey \in Nat /\ MaxJobs \in Nat

VARIABLES pool,    \* the actor: pc, flags, pending, warm, eviction
          jobs,    \* per environment: the job that owns its handle
          callers  \* per call: the Call, its PoolInvocation and settlement

poolVars == <<environmentVars, pool, jobs, callers>>

Nobody == 0
NoJob == [kind |-> "none", call |-> Nobody, pc |-> "none", failed |-> FALSE]
NewCall == [at |-> "new", key |-> 0, expired |-> FALSE, cancelled |-> FALSE, waiting |-> FALSE,
            consumed |-> FALSE, lane |-> "open", settlement |-> "none", env |-> Nobody]

PoolInit ==
    /\ EnvironmentsInit
    /\ pool = [pc |-> "top", life |-> "runs", stop |-> FALSE, stopping |-> FALSE,
               failed |-> FALSE, pending |-> <<>>, warm |-> <<>>,
               eviction |-> Nobody]
    /\ jobs = [e \in Calls |-> NoJob]
    /\ callers = [c \in Calls |-> NewCall]

JobCount == Cardinality({e \in Calls : jobs[e] # NoJob})

\* Call::error
CallError(c) == callers[c].expired \/ callers[c].cancelled \/ ~callers[c].waiting

\* Call::reject: no environment was allocated for it
Rejected(r) == [NewCall EXCEPT !.at = "gone", !.settlement = "ok", !.lane = "error",
                               !.key = r.key, !.waiting = r.waiting]
RejectAll(R) == callers' = [c \in Calls |-> IF c \in R THEN Rejected(callers[c]) ELSE callers[c]]

Cancel(R) == environments' = [e \in Calls |-> IF e \in R THEN [environments[e] EXCEPT !.stop = TRUE]
                                              ELSE environments[e]]
Maintenance == [NoJob EXCEPT !.kind = "retire", !.pc = "retire"]

\* mutant: the handle is dropped, and nobody waits for the removal
RetireAllUnowned(R) == UNCHANGED jobs /\ Cancel(R)

RetireAll(R) == /\ jobs' = [e \in Calls |-> IF e \in R THEN Maintenance ELSE jobs[e]]
                /\ Cancel(R)

\* the first of s that still get a job
Affordable(s) == SubSeq(s, 1, IF Len(s) < MaxJobs - JobCount THEN Len(s) ELSE MaxJobs - JobCount)

-----------------------------------------------------------------------------
(* Callers: PoolPort::start, PoolInvocation.                                *)

Accepting == ~pool.stop /\ ~pool.failed /\ pool.life = "runs"

\* calls are numbered as they start; a plan has the warm key k of an earlier
\* call's plan or one of its own
StartCall(c, k) ==
    /\ callers[c].at = "new" /\ Accepting /\ Len(pool.pending) < QueueLimit
    /\ \A d \in Calls : d < c => callers[d].at # "new"
    /\ k <= c
    /\ callers' = [callers EXCEPT ![c].at = "queued", ![c].waiting = TRUE, ![c].key = k]
    /\ pool' = [pool EXCEPT !.pending = Append(@, c)]
    /\ UNCHANGED <<environmentVars, jobs>>

\* a deadline that passes after a cancellation adds nothing, and vice versa
Expire(c) ==
    /\ callers[c].at \in {"queued", "job"} /\ ~callers[c].expired /\ ~callers[c].cancelled
    /\ callers' = [callers EXCEPT ![c].expired = TRUE]
    /\ UNCHANGED <<environmentVars, pool, jobs>>

\* cancel_and_wait, drop of PoolInvocation
CancelCall(c) ==
    /\ callers[c].at \in {"queued", "job"} /\ ~callers[c].consumed
    /\ ~callers[c].cancelled /\ ~callers[c].expired
    /\ callers' = [callers EXCEPT ![c].cancelled = TRUE, ![c].waiting = FALSE]
    /\ UNCHANGED <<environmentVars, pool, jobs>>

\* the job that made the offer still holds the receipt's other end
ReceiptOpen(c) == \E e \in Calls : jobs[e].call = c /\ jobs[e].pc = "offered"

Wait(c) ==
    /\ callers[c].waiting /\ callers[c].lane # "open"
    /\ callers' = [callers EXCEPT ![c].waiting = FALSE,
           ![c].consumed = callers[c].lane = "offer" /\ ~callers[c].expired /\ ReceiptOpen(c)]
    /\ UNCHANGED <<environmentVars, pool, jobs>>

\* EnvironmentPool::shutdown, drop of EnvironmentPool
StopPool ==
    /\ ~pool.stop
    /\ pool' = [pool EXCEPT !.stop = TRUE]
    /\ UNCHANGED <<environmentVars, jobs, callers>>

-----------------------------------------------------------------------------
(* Jobs: invoke and retire.                                                 *)

Interrupted(c) == pool.stop \/ callers[c].cancelled \/ callers[c].expired
Job(e, pc) == jobs[e].kind = "invoke" /\ jobs[e].pc = pc
GotoJob(e, pc) == jobs' = [jobs EXCEPT ![e].pc = pc]

\* the handle is dropped, which cancels the environment
Abandon(e) ==
    /\ Set(e, [environments[e] EXCEPT !.stop = TRUE, !.result = "none"])
    /\ GotoJob(e, "retire")
    /\ UNCHANGED <<manager, faults, pool, callers>>

WaitReady(e) ==
    /\ Job(e, "ready")
    /\ \/ /\ Phase(e) = "Idle" /\ ~Interrupted(jobs[e].call) /\ ~CallError(jobs[e].call)
          /\ Set(e, [environments[e] EXCEPT !.mail = TRUE, !.result = "none"])
          /\ GotoJob(e, "busy")
          /\ UNCHANGED <<manager, faults, pool, callers>>
       \/ /\ \/ Interrupted(jobs[e].call) \/ CallError(jobs[e].call)
             \/ Phase(e) \notin {"Allocating", "Initializing", "Idle"}
          /\ Abandon(e)

Invoked(e) ==
    /\ Job(e, "busy")
    /\ \/ /\ environments[e].result = "success"
          /\ ~Interrupted(jobs[e].call) /\ ~CallError(jobs[e].call)
          /\ callers' = [callers EXCEPT ![jobs[e].call].lane = "offer"]
          /\ GotoJob(e, "offered")
          /\ Set(e, [environments[e] EXCEPT !.result = "none"])
          /\ UNCHANGED <<manager, faults, pool>>
       \/ /\ \/ Interrupted(jobs[e].call) \/ environments[e].result \in {"failure", "lost"}
             \/ environments[e].result = "success" /\ CallError(jobs[e].call)
          /\ Abandon(e)

\* mutant: an offer is taken for accepted when it was sent
AcceptOffer(e) ==
    /\ Job(e, "offered")
    /\ \/ ~pool.stop /\ ~callers[jobs[e].call].expired
          /\ GotoJob(e, "warm") /\ UNCHANGED <<environmentVars, pool, callers>>
       \/ Interrupted(jobs[e].call) /\ Abandon(e)

Receipt(e) ==
    /\ Job(e, "offered")
    /\ LET c == jobs[e].call
       IN \/ /\ callers[c].consumed /\ ~pool.stop /\ ~callers[c].expired
             /\ GotoJob(e, "warm")
             /\ UNCHANGED <<environmentVars, pool, callers>>
          \/ /\ Interrupted(c) \/ (~callers[c].waiting /\ ~callers[c].consumed)
             /\ Abandon(e)

\* retire(): settled and removed; only then is a failed call answered
JobRetired(e) ==
    /\ jobs[e].pc = "retire"
    /\ environments[e].done # "none" /\ Phase(e) = "Removed"
    /\ LET j == jobs[e]
       IN /\ jobs' = [jobs EXCEPT ![e].pc = "complete",
                                  ![e].failed = @ \/ environments[e].done = "err"]
          /\ callers' = IF j.kind = "invoke" /\ callers[j.call].lane = "open"
                        THEN [callers EXCEPT ![j.call].lane = "error"] ELSE callers
    /\ UNCHANGED <<environmentVars, pool>>

-----------------------------------------------------------------------------
(* The actor.                                                               *)

AtPool(pc) == pool.life = "runs" /\ pool.pc = pc

\* after a completion, or at the tick, the stop signal or a new call
Top ==
    /\ AtPool("top") \/ AtPool("select")
    /\ UNCHANGED <<manager, faults>>
    /\ IF pool.stop \/ pool.stopping
       THEN /\ RejectAll(Range(pool.pending))
            /\ RetireAll(Range(Affordable(pool.warm)))
            /\ pool' = [pool EXCEPT !.stopping = TRUE, !.pending = <<>>,
                          !.warm = SubSeq(@, Len(Affordable(@)) + 1, Len(@)),
                          !.pc = "select",
                          !.life = IF JobCount = 0 /\ pool.warm = <<>> THEN "settled" ELSE @]
       ELSE LET expired == {c \in Range(pool.pending) : CallError(c)}
                unfit == Affordable(Keep(pool.warm, {e \in Calls : Phase(e) # "Idle"}))
            IN /\ RejectAll(expired)
               /\ RetireAll(Range(unfit))
               /\ pool' = [pool EXCEPT !.pc = "dispatch",
                             !.pending = Keep(@, Calls \ expired),
                             !.warm = Keep(@, Calls \ Range(unfit))]

Blocked == pool.eviction # Nobody \/ JobCount >= MaxJobs \/ pool.pending = <<>>

DispatchEnds ==
    /\ AtPool("dispatch") /\ Blocked
    /\ pool' = [pool EXCEPT !.pc = "select"]
    /\ UNCHANGED <<environmentVars, jobs, callers>>

RejectFirst ==
    /\ callers' = [callers EXCEPT ![pool.pending[1]] = Rejected(@)]
    /\ pool' = [pool EXCEPT !.pending = Tail(@)]
    /\ UNCHANGED <<environmentVars, jobs>>

\* environment e goes to the first call
Assign(e, warm) ==
    /\ jobs' = [jobs EXCEPT ![e] = [NoJob EXCEPT !.kind = "invoke", !.pc = "ready",
                                                 !.call = pool.pending[1]]]
    /\ callers' = [callers EXCEPT ![pool.pending[1]].at = "job", ![pool.pending[1]].env = e]
    /\ pool' = [pool EXCEPT !.pending = Tail(@), !.warm = warm]
    /\ UNCHANGED <<manager, faults>>

Matching(c) == {i \in 1..Len(pool.warm) : callers[pool.warm[i]].key = callers[c].key}
FirstMatch(c) == CHOOSE i \in Matching(c) : \A k \in Matching(c) : i <= k

DispatchWarm ==
    /\ AtPool("dispatch") /\ ~Blocked /\ ~CallError(pool.pending[1])
    /\ Matching(pool.pending[1]) # {}
    /\ LET i == FirstMatch(pool.pending[1])
       IN Assign(pool.warm[i], RemoveAt(pool.warm, i))
    /\ UNCHANGED environments

DispatchCold ==
    /\ AtPool("dispatch") /\ ~Blocked /\ ~CallError(pool.pending[1])
    /\ Matching(pool.pending[1]) = {}
    /\ ~Refuses /\ ~Busy
    /\ Set(pool.pending[1], SpawnedEnvironment)
    /\ Assign(pool.pending[1], pool.warm)

\* an error of the call, images no longer pinned, or a refusal of the owner
DispatchRejects ==
    /\ AtPool("dispatch") /\ ~Blocked
    /\ RejectFirst

\* the call stays first; one idle environment makes room for it
DispatchBusy ==
    /\ AtPool("dispatch") /\ ~Blocked /\ ~CallError(pool.pending[1])
    /\ Matching(pool.pending[1]) = {}
    /\ ~Refuses /\ Busy
    /\ IF pool.warm = <<>>
       THEN pool' = [pool EXCEPT !.pc = "select"] /\ UNCHANGED <<environments, jobs>>
       ELSE /\ RetireAll({pool.warm[1]})
            /\ pool' = [pool EXCEPT !.pc = "select", !.warm = Tail(@), !.eviction = pool.warm[1]]
    /\ UNCHANGED <<manager, faults, callers>>

Published(r, failed) == [r EXCEPT !.at = "gone", !.expired = FALSE, !.cancelled = FALSE,
                                  !.settlement = IF failed THEN "err" ELSE "ok"]
PublishSettlement(c, failed) ==
    callers' = IF c = Nobody THEN callers ELSE [callers EXCEPT ![c] = Published(@, failed)]

Keeps(e) ==
    /\ ~pool.stop /\ Phase(e) = "Idle"
    /\ Len(pool.warm) < WarmLimit
    /\ Cardinality({i \in 1..Len(pool.warm) : callers[pool.warm[i]].key = callers[e].key}) < WarmPerKey

Completed(e) ==
    /\ AtPool("select") /\ jobs[e].pc \in {"complete", "warm"}
    /\ LET j == jobs[e]
           kept == j.pc = "warm" /\ Keeps(e)
       IN /\ pool' = [pool EXCEPT !.pc = "top", !.eviction = IF @ = e THEN Nobody ELSE @,
                        !.failed = @ \/ j.failed, !.stop = @ \/ j.failed,
                        !.warm = IF kept THEN Append(@, e) ELSE @]
          /\ IF j.pc = "warm" /\ ~kept THEN RetireAll({e})
             ELSE jobs' = [jobs EXCEPT ![e] = NoJob] /\ UNCHANGED environments
          /\ PublishSettlement(j.call, j.failed)
    /\ UNCHANGED <<manager, faults>>

\* completed() with a JoinError: handle and lane are gone with the job's future
JobPanics(e) ==
    /\ AtPool("select") /\ jobs[e] # NoJob /\ jobs[e].pc \notin {"complete", "warm"}
    /\ Fault
    /\ Cancel({e})
    /\ jobs' = [jobs EXCEPT ![e].kind = "retire", ![e].pc = "retire", ![e].failed = TRUE]
    /\ callers' = IF jobs[e].kind = "invoke" /\ callers[jobs[e].call].lane = "open"
                  THEN [callers EXCEPT ![jobs[e].call].lane = "closed"] ELSE callers
    /\ pool' = [pool EXCEPT !.pc = "top", !.failed = TRUE, !.stop = TRUE,
                            !.eviction = IF @ = e THEN Nobody ELSE @]
    /\ UNCHANGED manager

\* Actor::drop: records and warm handles go to the emergency task
DropPool ==
    /\ pool.life = "runs"
    /\ Fault
    /\ LET owned == {e \in Calls : jobs[e] # NoJob} \cup Range(pool.warm)
           queued == Range(pool.pending)
           cut == {c \in Calls : callers[c].lane = "open" /\ \E e \in owned : jobs[e].call = c}
       IN /\ Cancel(owned)
          /\ jobs' = [e \in Calls |-> IF e \notin owned THEN NoJob
                                      ELSE [jobs[e] EXCEPT !.kind = "retire", !.pc = "retire",
                                                           !.failed = TRUE]]
          /\ callers' = [c \in Calls |-> IF c \in queued THEN Rejected(callers[c])
                                         ELSE IF c \in cut THEN [callers[c] EXCEPT !.lane = "closed"]
                                         ELSE callers[c]]
    /\ pool' = [pool EXCEPT !.life = "dropped", !.failed = TRUE, !.stop = TRUE,
                            !.pending = <<>>, !.warm = <<>>]
    /\ UNCHANGED manager

\* recover(): retires again until removed
Recover(e) ==
    /\ pool.life = "dropped" /\ jobs[e].pc = "complete"
    /\ jobs' = [jobs EXCEPT ![e] = NoJob]
    /\ PublishSettlement(jobs[e].call, jobs[e].failed)
    /\ UNCHANGED <<environmentVars, pool>>

\* the pool is shut down before the owner of the environments
StopOwner == pool.life # "runs" /\ StopManager /\ UNCHANGED <<pool, jobs, callers>>

PoolNext ==
    \/ \E c, k \in Calls : StartCall(c, k)
    \/ \E c \in Calls : Expire(c) \/ CancelCall(c) \/ Wait(c)
    \/ StopPool
    \/ \E e \in Calls : WaitReady(e) \/ Invoked(e) \/ Receipt(e) \/ JobRetired(e)
    \/ Top \/ DispatchEnds \/ DispatchWarm \/ DispatchCold \/ DispatchRejects \/ DispatchBusy
    \/ \E e \in Calls : Completed(e) \/ JobPanics(e) \/ Recover(e)
    \/ DropPool \/ StopOwner
    \/ UNCHANGED <<pool, jobs, callers>> /\ (ManagerStep \/ \E e \in Calls : EnvironmentStep(e))

PoolSpec == PoolInit /\ [][PoolNext]_poolVars
-----------------------------------------------------------------------------
(* Properties.                                                              *)

PoolTypeOK ==
    /\ EnvironmentsTypeOK
    /\ pool.pc \in {"top", "dispatch", "select"}
    /\ pool.life \in {"runs", "settled", "dropped"}
    /\ \A e \in Calls : jobs[e].kind \in {"none", "invoke", "retire"}
    /\ Len(pool.warm) <= WarmLimit /\ JobCount <= MaxJobs

\* Every environment the pool spawned is one caller's at a time: it is idle in
\* the warm queue once, or it belongs to one job, and until its removal is
\* announced it is never in neither, so that a pool that settles leaves none behind.
HandlesKept ==
    /\ IsInjective(pool.warm)
    /\ \A e \in Range(pool.warm) : jobs[e] = NoJob
    /\ \A e \in Calls : Held(e) /\ environments[e].done = "none" =>
           jobs[e] # NoJob \/ e \in Range(pool.warm)

\* A settlement is a proof of cleanup: once published for a call whose result
\* was never consumed, the environment that served it has no container left,
\* not even one still being created; an error answered through the open lane
\* comes no earlier.
SettledMeansGone ==
    \A c \in Calls :
        callers[c].env # Nobody /\ ~callers[c].consumed
        /\ (callers[c].settlement # "none" \/ callers[c].lane = "error") =>
            environments[callers[c].env].container \notin {"inflight", "exists"}
=============================================================================
