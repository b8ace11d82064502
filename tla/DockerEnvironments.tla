------------------------- MODULE DockerEnvironments -------------------------
(***************************************************************************)
(* The owner of Docker environments (docker/environment/): an actor that    *)
(* keeps a record and a reservation above every worker, the worker that     *)
(* creates and serves an environment, and the cleaner that retires it after *)
(* success, failure, a panic of the worker or the loss of the actor itself. *)
(*                                                                         *)
(* The relay and the function container of an environment are one, as is    *)
(* the budget of count and memory.  The Docker daemon is external: a create *)
(* request may be applied, or refused, long after its answer was given up.  *)
(***************************************************************************)
EXTENDS Naturals, FiniteSets

CONSTANTS Calls,      \* pool calls 1, 2, ...; an environment has the id of its call's plan
          Capacity,   \* EnvironmentSettings::environments
          MaxFaults   \* bound on panics and daemon connection losses

ASSUME EnvironmentsAssumption ==
    /\ Calls \subseteq Nat \ {0} /\ IsFiniteSet(Calls)
    /\ Capacity \in Nat /\ MaxFaults \in Nat

VARIABLES environments, \* per id: status, signals, worker and container
          manager,      \* control and health of the actor, and its life
          faults        \* panics and losses so far

environmentVars == <<environments, manager, faults>>

NoEnvironment ==
    [phase |-> "None", stop |-> FALSE, holder |-> "none", pc |-> "none",
     progress |-> "unissued", container |-> "absent", dirty |-> FALSE,
     mail |-> FALSE, result |-> "none", done |-> "none"]

EnvironmentsInit ==
    /\ environments = [e \in Calls |-> NoEnvironment]
    /\ manager = [control |-> FALSE, failed |-> FALSE, life |-> "runs"]
    /\ faults = 0

Phase(e) == environments[e].phase
Held(e) == environments[e].holder # "none"         \* a reservation exists
Registered(e) == environments[e].holder \in {"worker", "recovery", "emergency"}
Stopped(e) == environments[e].stop \/ manager.control
WorkerAt(e, pc) == environments[e].holder = "worker" /\ environments[e].pc = pc

Set(e, r) == environments' = [environments EXCEPT ![e] = r]
SameOwner == UNCHANGED <<manager, faults>>
Fault == faults < MaxFaults /\ faults' = faults + 1

\* Signals::worker_failed
WorkerFailed(r) == [r EXCEPT !.stop = TRUE, !.phase = "Retiring"]

\* what becomes of a worker's calls when its future is dropped
Dropped(r) == [r EXCEPT !.mail = FALSE, !.dirty = FALSE, !.pc = "retire",
                        !.result = IF r.pc = "call" \/ r.mail THEN "lost" ELSE @]

-----------------------------------------------------------------------------
(* EnvironmentPort::spawn_shared.                                           *)

Quarantine == \E e \in Calls : environments[e].dirty
Refuses == manager.control \/ manager.failed \/ Quarantine
Busy == Cardinality({e \in Calls : Held(e)}) >= Capacity
SpawnedEnvironment == [NoEnvironment EXCEPT !.phase = "Allocating", !.holder = "inbox"]

-----------------------------------------------------------------------------
(* The actor.                                                               *)

Unstarted(r, done) == [r EXCEPT !.phase = "Removed", !.holder = "none", !.done = done]

StartWorker(e) ==
    /\ manager.life = "runs" /\ environments[e].holder = "inbox"
    /\ \/ ~Stopped(e) /\ Set(e, [environments[e] EXCEPT !.holder = "worker", !.pc = "create"])
       \/ Set(e, Unstarted(environments[e], "ok"))   \* stopped, late, or no code
    /\ SameOwner

\* one pass of the loop after control was raised
Disposed(e) ==
    LET r == environments[e]
    IN IF r.holder = "inbox" THEN Unstarted(r, IF manager.failed THEN "err" ELSE "ok")
       ELSE IF ~Registered(e) THEN r
       ELSE IF manager.failed THEN WorkerFailed(r) ELSE [r EXCEPT !.stop = TRUE]

Stopping ==
    /\ manager.life = "runs" /\ manager.control
    /\ environments' = [e \in Calls |-> Disposed(e)]
    /\ SameOwner

\* the record and its reservation are dropped
Gone(r, done) == [NoEnvironment EXCEPT !.phase = "Removed", !.done = done,
                                       !.container = r.container, !.result = r.result]

Finished(e) ==
    /\ manager.life = "runs" /\ Registered(e) /\ environments[e].pc = "done"
    /\ LET failed == environments[e].holder = "recovery" \/ manager.failed
       IN Set(e, Gone(environments[e], IF failed THEN "err" ELSE "ok"))
    /\ SameOwner

\* finished() with a JoinError: the record stays, a recovery job replaces the worker
WorkerPanics(e) ==
    /\ manager.life = "runs" /\ Registered(e) /\ environments[e].pc # "done"
    /\ Fault
    /\ manager' = [manager EXCEPT !.failed = TRUE, !.control = TRUE]
    /\ Set(e, [Dropped(WorkerFailed(environments[e])) EXCEPT !.holder = "recovery"])

\* DockerPort lost its wire
WireStops ==
    /\ manager.life = "runs" /\ ~manager.control
    /\ Fault
    /\ manager' = [manager EXCEPT !.failed = TRUE, !.control = TRUE]
    /\ UNCHANGED environments

\* EnvironmentManager::shutdown, drop of the manager
StopManager ==
    /\ ~manager.control
    /\ manager' = [manager EXCEPT !.control = TRUE]
    /\ UNCHANGED <<environments, faults>>

Settles ==
    /\ manager.life = "runs" /\ manager.control
    /\ \A e \in Calls : ~Held(e)
    /\ manager' = [manager EXCEPT !.life = "settled"]
    /\ UNCHANGED <<environments, faults>>

\* Actor::drop: what is registered goes to the emergency task
Rescued(e) ==
    LET r == environments[e]
    IN IF r.holder = "inbox" THEN Unstarted(WorkerFailed(r), "err")
       ELSE IF Registered(e) THEN [Dropped(WorkerFailed(r)) EXCEPT !.holder = "emergency"]
       ELSE r

DropManager ==
    /\ manager.life = "runs"
    /\ Fault
    /\ manager' = [control |-> TRUE, failed |-> TRUE, life |-> "dropped"]
    /\ environments' = [e \in Calls |-> Rescued(e)]

\* recover_all
RecoveredAll(e) ==
    /\ environments[e].holder = "emergency" /\ environments[e].pc = "done"
    /\ Set(e, Gone(environments[e], environments[e].done))
    /\ SameOwner

-----------------------------------------------------------------------------
(* The worker: Worker::create, initialize, serve, call and finish.          *)

\* the phase is uncertain before the ownership journal is written and the
\* request leaves; if it does not leave, the mutation is definitely unissued
Create(e) ==
    /\ WorkerAt(e, "create") /\ ~Stopped(e)
    /\ \/ Set(e, [environments[e] EXCEPT !.progress = "uncertain", !.container = "inflight",
                                         !.pc = "issued"])
       \/ Set(e, [environments[e] EXCEPT !.progress = "uncertain", !.phase = "Retiring",
                                         !.pc = "retire"])
    /\ SameOwner

Answered(e) ==
    /\ WorkerAt(e, "issued")
    /\ \/ /\ environments[e].container = "exists"
          /\ Set(e, [environments[e] EXCEPT !.progress = "known", !.phase = "Initializing",
                                            !.pc = "init"])
       \/ /\ environments[e].container = "refused"
          /\ Set(e, [environments[e] EXCEPT !.progress = "clean", !.phase = "Retiring",
                                            !.pc = "retire"])
    /\ SameOwner

BootstrapReady(e) ==
    /\ WorkerAt(e, "init") /\ ~Stopped(e)
    /\ Set(e, [environments[e] EXCEPT !.phase = "Idle", !.pc = "serve"])
    /\ SameOwner

TakeCall(e) ==
    /\ WorkerAt(e, "serve") /\ ~Stopped(e) /\ environments[e].mail
    /\ Set(e, [environments[e] EXCEPT !.phase = "Busy", !.pc = "call", !.mail = FALSE])
    /\ SameOwner

CallSucceeds(e) ==
    /\ WorkerAt(e, "call") /\ ~Stopped(e)
    /\ Set(e, [environments[e] EXCEPT !.phase = "Idle", !.pc = "serve", !.result = "success"])
    /\ SameOwner

\* an error, a stop, a deadline or the idle limit; a call in the mailbox is
\* refused at once, the one being served is answered when all is clean
GiveUp(e) ==
    /\ \E pc \in {"create", "issued", "init", "serve", "call"} : WorkerAt(e, pc)
    /\ LET r == environments[e]
       IN Set(e, [r EXCEPT !.phase = "Retiring", !.mail = FALSE,
                           !.pc = IF r.pc = "call" THEN "retire_call" ELSE "retire",
                           !.result = IF r.mail THEN "failure" ELSE @])
    /\ SameOwner

-----------------------------------------------------------------------------
(* The cleaner: Cleaner::container, retire.                                 *)

Cleaning(e) == Registered(e) /\ environments[e].pc \in {"retire", "retire_call"}

\* the role is settled: Recovery::run announces it itself, the worker answers
Cleaned(r) ==
    LET own == r.holder = "worker"
    IN [r EXCEPT !.progress = "clean", !.dirty = FALSE, !.pc = "done",
                 !.phase = IF own THEN @ ELSE "Removed",
                 !.done = IF own THEN @ ELSE "err",
                 !.result = IF r.pc = "retire_call" THEN "failure" ELSE @]

\* mutant: a container that is not there yet counts as removed
UncertainIsAbsent(e) ==
    Cleaning(e) /\ \/ environments[e].progress \in {"unissued", "clean"}
                   \/ environments[e].progress = "uncertain" /\ environments[e].container # "exists"
                   \/ environments[e].container = "removed"

\* never issued, or known and found missing
DefinitelyAbsent(e) ==
    Cleaning(e) /\ \/ environments[e].progress \in {"unissued", "clean"}
                   \/ environments[e].progress = "uncertain" /\ environments[e].container = "absent"
                   \/ environments[e].progress = "known" /\ environments[e].container = "removed"

Settle(e) == DefinitelyAbsent(e) /\ Set(e, Cleaned(environments[e])) /\ SameOwner

\* an uncertain create is found by its name, and so becomes known
RemoveContainer(e) ==
    /\ Cleaning(e)
    /\ environments[e].progress \in {"uncertain", "known"} /\ environments[e].container = "exists"
    /\ Set(e, [environments[e] EXCEPT !.progress = "known", !.container = "removed"])
    /\ SameOwner

CleanFails(e) ==
    /\ Cleaning(e)
    /\ Set(e, [environments[e] EXCEPT !.phase = "Quarantined", !.dirty = TRUE])
    /\ SameOwner

\* the daemon applies or refuses a request
DockerCreates(e) ==
    /\ environments[e].container = "inflight"
    /\ \E c \in {"exists", "refused"} : Set(e, [environments[e] EXCEPT !.container = c])
    /\ SameOwner

EnvironmentStep(e) ==
    \/ StartWorker(e) \/ Finished(e) \/ WorkerPanics(e) \/ RecoveredAll(e)
    \/ Create(e) \/ Answered(e) \/ BootstrapReady(e) \/ TakeCall(e)
    \/ CallSucceeds(e) \/ GiveUp(e)
    \/ Settle(e) \/ RemoveContainer(e) \/ CleanFails(e) \/ DockerCreates(e)

ManagerStep == Stopping \/ WireStops \/ Settles \/ DropManager

-----------------------------------------------------------------------------
EnvironmentsTypeOK ==
    \A e \in Calls :
        /\ Phase(e) \in {"None", "Allocating", "Initializing", "Idle", "Busy", "Retiring",
                         "Quarantined", "Removed"}
        /\ environments[e].holder \in {"none", "inbox", "worker", "recovery", "emergency"}
        /\ environments[e].container \in {"absent", "inflight", "refused", "exists", "removed"}

\* Whatever fails while an environment is created, served or retired, a
\* container that exists, or that a request in flight may still create, is
\* registered with an owner that goes on cleaning it and counts against the
\* capacity; the actor settles over none.
ContainersOwned ==
    /\ \A e \in Calls : environments[e].container \in {"inflight", "exists"} => Registered(e)
    /\ Cardinality({e \in Calls : Held(e)}) <= Capacity
=============================================================================
